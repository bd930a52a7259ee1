----------------------------- MODULE UserAdmin -----------------------------
(***************************************************************************)
(* User administration: the users table, its audit log, the mutations of   *)
(* UsersService (create, update, suspend) and the three deterministic      *)
(* flows built from them.  Everything here is synchronous, so a flow is    *)
(* alone on the connection from its first statement to its answer; it is   *)
(* taken apart into one step per mutation because a mutation can throw in  *)
(* the middle of it, and each flow treats that differently:                *)
(*   suspend_users_by_domain     what was suspended stays, the flow throws *)
(*   bulk_create_users_from_csv  the row is reported, the next one is tried*)
(*   bulk_onboard_users          one transaction: every row is taken back  *)
(* A call that is refused changes nothing and is not an action.            *)
(***************************************************************************)
EXTENDS Integers, Sequences, FiniteSets

CONSTANTS Texts,       \* strings given as an address, an actor, a role or a CSV cell
          Normal,      \* a text trimmed and in lower case
          ValidEmails, \* normal forms isValidEmail accepts
          DomainOf,    \* what follows the @, a sequence of characters
          Domains,     \* domains a caller names, normalised; <<>> for none
          SeedUsers,   \* the users table after the boot-time seed
          StatusNames, \* what a caller may send as a status
          Actors,      \* actor strings callers send
          NewUsers,    \* rows given to create_user
          Updates,     \* fields given to update_user
          Batches,     \* row arrays a caller submits
          Files,       \* CSV texts a caller submits: lines of cells, <<>> for a blank line
          MaxAutoSuspend, MaxSuspendPerInvocation, MaxBatchSize,
          WritesMayFail,   \* whether a statement can fail: file locked, disk full
          MaxLog,      \* bound: no call begins once the log has this many entries
          Blank,       \* the empty text
          Nothing      \* no value: a field an update does not name, no row before

ROLES == {"admin", "editor", "viewer", "customer"}
STATUSES == {"active", "suspended", "deleted"}
Emails == {Normal[t] : t \in Texts}
\* The seeded addresses were never checked ("van rossum" makes one with a space in it).
UserRows == [email : Emails, role : ROLES, status : STATUSES]
\* named: whether the row has a name that is not blank, all the model keeps of it.
InputRows == [email : Texts, named : BOOLEAN, role : Texts]
\* name: whether an update gives a name; a blank one is refused and is no update.
UpdatableUserFields == [email : Texts \cup {Nothing}, name : {"given", Nothing},
                        role : Texts \cup {Nothing}, status : StatusNames \cup {Nothing}]

ASSUME UserAdminAssumption ==
    /\ Normal \in [Texts -> Emails]
    /\ ValidEmails \subseteq Emails
    /\ SeedUsers \in Seq(UserRows)
    /\ \A i, j \in DOMAIN SeedUsers : SeedUsers[i].email = SeedUsers[j].email => i = j
    /\ Actors \subseteq Texts
    /\ NewUsers \subseteq InputRows
    /\ Updates \subseteq UpdatableUserFields
    /\ \A rows \in Batches : rows \in Seq(InputRows)
    /\ \A file \in Files : file \in Seq(Seq(Texts))
    /\ Blank \in Texts /\ Normal[Blank] \notin ValidEmails
    /\ MaxAutoSuspend \in Nat /\ MaxSuspendPerInvocation \in Nat
    /\ MaxBatchSize \in Nat /\ MaxLog \in Nat
    /\ WritesMayFail \in BOOLEAN
    /\ Nothing \notin Texts \cup Emails \cup ROLES \cup STATUSES

ASSUME DomainsAreTexts == Domains \subseteq Seq(STRING)

VARIABLES users,  \* the users table; a row's id is its position
          audit,  \* audit_log entries of the three mutations
          past,   \* history: past[i] is the users table before audit[i]
          flow    \* the flow being executed, or the last one and its answer

vars == <<users, audit, past, flow>>

-----------------------------------------------------------------------------
(* UsersService: who may do what *)

ActionPermissions ==
    [create_user |-> {"editor", "admin"}, update_user |-> {"editor", "admin"},
     suspend_user |-> {"admin"}]

emailExists(table, email) == \E id \in DOMAIN table : table[id].email = email

\* The role of the user the actor string names; a string that names none is the console.
resolveActorRole(table, actor) ==
    IF emailExists(table, Normal[actor])
    THEN table[CHOOSE id \in DOMAIN table : table[id].email = Normal[actor]].role
    ELSE "admin"

authorize(table, actor, action) ==
    resolveActorRole(table, actor) \in ActionPermissions[action]

-----------------------------------------------------------------------------
(* UsersService: the mutations.  Each is one transaction, row and entry together. *)

Given(new, old) == IF new = Nothing THEN old ELSE new

Merge(row, applied) == [email  |-> Given(applied.email, row.email),
                        role   |-> Given(applied.role, row.role),
                        status |-> Given(applied.status, row.status)]

\* The entry's details: the fields written and what they replaced (nothing for a new row,
\* the whole row for an update, the status for a suspension).
Record(actor, action, target, before, applied) ==
    /\ audit' = Append(audit, [actor |-> actor, action |-> action, target |-> target,
                               before |-> before, applied |-> applied])
    /\ past' = Append(past, users)

mayCreate(actor, row) ==
    /\ authorize(users, actor, "create_user")
    /\ Normal[row.email] \in ValidEmails
    /\ row.named
    /\ row.role \in ROLES
    /\ ~ emailExists(users, Normal[row.email])

create(actor, row) ==
    LET new == [email |-> Normal[row.email], role |-> row.role, status |-> "active"]
    IN /\ mayCreate(actor, row)
       /\ users' = Append(users, new)
       /\ Record(actor, "create_user", Len(users) + 1, Nothing, new)

\* The fields as they are written: the address normalised, the others as sent.
Applied(fields) == [email  |-> IF fields.email = Nothing THEN Nothing ELSE Normal[fields.email],
                    role   |-> fields.role,
                    status |-> fields.status]

\* Mutant: a row's new address is not compared with the others'.
ClashNever(id, email) == FALSE

\* Another row has the address.
Clash(id, email) == \E o \in DOMAIN users \ {id} : users[o].email = email

mayUpdate(actor, id, fields) ==
    /\ authorize(users, actor, "update_user")
    /\ id \in DOMAIN users
    /\ fields.email # Nothing => /\ Normal[fields.email] \in ValidEmails
                              /\ ~ Clash(id, Normal[fields.email])
    /\ fields.role \in ROLES \cup {Nothing}
    /\ fields.status \in STATUSES \cup {Nothing}
    /\ \E f \in DOMAIN fields : fields[f] # Nothing

update(actor, id, fields) ==
    /\ mayUpdate(actor, id, fields)
    /\ users' = [users EXCEPT ![id] = Merge(@, Applied(fields))]
    /\ Record(actor, "update_user", id, users[id], Applied(fields))

\* Suspending a suspended account leaves the row and is still logged.
suspend(actor, id) ==
    /\ authorize(users, actor, "suspend_user")
    /\ users' = [users EXCEPT ![id].status = "suspended"]
    /\ Record(actor, "suspend_user", id,
              [email |-> Nothing, role |-> Nothing, status |-> users[id].status],
              [email |-> Nothing, role |-> Nothing, status |-> "suspended"])

-----------------------------------------------------------------------------
(* The flow on the stack.  verdict maps the lines of a batch, or the ids of  *)
(* the matched users, to what became of them.                                *)

NoFlow == [kind |-> "none", actor |-> Nothing, about |-> <<>>, verdict |-> <<>>,
           outcome |-> "none", first |-> 0, saved |-> <<>>]

\* about is the domain, the rows or the file; first and saved are the log's length and the
\* table when the flow began: what a rollback returns to.
Begin(kind, actor, about, verdict, outcome) ==
    flow' = [kind |-> kind, actor |-> actor, about |-> about, verdict |-> verdict,
             outcome |-> outcome, first |-> Len(audit), saved |-> users]

Running(kind) == flow.kind = kind /\ flow.outcome = "running"
Idle == flow.outcome # "running"
Free == Idle /\ Len(audit) < MaxLog
Lines(verdict) == {i \in DOMAIN flow.verdict : flow.verdict[i] = verdict}
IsNext(i) == i \in Lines("pending") /\ \A j \in Lines("pending") : i <= j

\* What a loop over the lines reports of line i.
Mark(i, verdict) == flow' = [flow EXCEPT !.verdict[i] = verdict]

-----------------------------------------------------------------------------
(* Single mutations, called by the tools of a Mode A session *)

Init ==
    /\ users = SeedUsers
    /\ audit = <<>>
    /\ past = <<>>
    /\ flow = NoFlow

BeginCall == Free /\ flow' = NoFlow

CreateUser == BeginCall /\ \E actor \in Actors, row \in NewUsers : create(actor, row)

UpdateUser ==
    BeginCall /\ \E actor \in Actors, id \in DOMAIN users, fields \in Updates :
                    update(actor, id, fields)

SuspendUser ==
    BeginCall /\ \E actor \in Actors, id \in DOMAIN users : suspend(actor, id)

-----------------------------------------------------------------------------
(* SuspendByDomainFlow *)

\* SQL LIKE, without ESCAPE: _ stands for one character and % for any number.  m[i] are the
\* places in the text from which its rest matches the pattern's, from i on.
Like(pattern, text) ==
    LET m[i \in 1 .. Len(pattern) + 1] ==
          IF i > Len(pattern) THEN {Len(text) + 1}
          ELSE IF pattern[i] = "%" THEN {j \in 1 .. Len(text) + 1 : \E k \in m[i + 1] : j <= k}
          ELSE {j \in 1 .. Len(text) : pattern[i] \in {"_", text[j]} /\ j + 1 \in m[i + 1]}
    IN 1 \in m[1]

\* Mutant: the query keeps search's habit of a limit.
findByDomainLimited(domain) ==
    {id \in DOMAIN users : /\ domain # <<>> /\ Like(domain, DomainOf[users[id].email])
                           /\ id <= 2}

\* lower(email) LIKE '%@domain': an address has one @, so the domain part is compared.
findByDomain(domain) ==
    {id \in DOMAIN users : domain # <<>> /\ Like(domain, DomainOf[users[id].email])}

AtMost(n, m) == IF n <= m THEN n ELSE m

RiskScore(admins, editors, matched, active) ==
    40 * admins + 10 * editors + 2 * AtMost(matched, 25) + AtMost(active, 20)

assessDomainRisk(ids) ==
    RiskScore(Cardinality({id \in ids : users[id].role = "admin"}),
              Cardinality({id \in ids : users[id].role = "editor"}),
              Cardinality(ids),
              Cardinality({id \in ids : users[id].status = "active"}))

HighRisk == 70

\* Mutant: the limit is off by one.
NeedsHumanLater(ids) ==
    \/ Cardinality(ids) > MaxAutoSuspend + 1
    \/ \E id \in ids : users[id].role = "admin"
    \/ assessDomainRisk(ids) >= HighRisk
    \/ Cardinality(ids) > MaxSuspendPerInvocation

NeedsHuman(ids) ==
    \/ Cardinality(ids) > MaxAutoSuspend
    \/ \E id \in ids : users[id].role = "admin"
    \/ assessDomainRisk(ids) >= HighRisk
    \/ Cardinality(ids) > MaxSuspendPerInvocation

SuspendDomain(actor, domain) ==
    LET ids == findByDomain(domain)
        verdict == [id \in ids |-> IF users[id].status = "deleted" THEN "left_alone" ELSE "pending"]
    IN /\ Free
       /\ \/ /\ ids = {}
             /\ Begin("suspend", actor, domain, <<>>, "no_matches")
          \/ /\ ids # {} /\ NeedsHuman(ids)
             /\ Begin("suspend", actor, domain, <<>>, "escalated")
          \/ /\ ids # {} /\ ~ NeedsHuman(ids)
             /\ Begin("suspend", actor, domain, verdict, "running")
       /\ UNCHANGED <<users, audit, past>>

SuspendNext ==
    /\ Running("suspend")
    /\ \E id \in Lines("pending") : IsNext(id) /\ suspend(flow.actor, id) /\ Mark(id, "suspended")

\* suspend throws: not an admin, or a failed statement.  Nothing catches it; earlier ones stay.
SuspendThrows ==
    /\ Running("suspend") /\ Lines("pending") # {}
    /\ WritesMayFail \/ ~ authorize(users, flow.actor, "suspend_user")
    /\ flow' = [flow EXCEPT !.outcome = "error"]
    /\ UNCHANGED <<users, audit, past>>

SuspendDone ==
    /\ Running("suspend") /\ Lines("pending") = {}
    /\ flow' = [flow EXCEPT !.outcome = "suspended"]
    /\ UNCHANGED <<users, audit, past>>

-----------------------------------------------------------------------------
(* BulkOnboardUsersFlow *)

WellFormed(row) == Normal[row.email] \in ValidEmails /\ row.named

\* Mutant: addresses of one batch are compared as they were typed.
SameEmailAsTyped(r, s) == r.email = s.email

SameEmail(r, s) == Normal[r.email] = Normal[s.email]

\* Phase 1.  An earlier row counts as seen when it passed the checks itself.
Verdict(rows, i) ==
    IF ~ WellFormed(rows[i]) THEN "invalid_format"
    ELSE IF rows[i].role \notin ROLES THEN "invalid_role"
    ELSE IF emailExists(users, Normal[rows[i].email]) THEN "duplicate_in_db"
    ELSE IF \E j \in 1 .. i - 1 : /\ SameEmail(rows[j], rows[i])
                                  /\ WellFormed(rows[j]) /\ rows[j].role \in ROLES
    THEN "duplicate_in_batch"
    ELSE "pending"

Onboard(actor, rows) ==
    /\ Free
    /\ \/ /\ Len(rows) > MaxBatchSize
          /\ Begin("onboard", actor, rows, <<>>, "rejected")
       \/ /\ Len(rows) <= MaxBatchSize
          /\ Begin("onboard", actor, rows, [i \in DOMAIN rows |-> Verdict(rows, i)], "running")
    /\ UNCHANGED <<users, audit, past>>

\* Mutant: the actor is authorised once, when the batch is accepted.
OnboardRowCheckedOnce ==
    /\ Running("onboard")
    /\ \E i \in Lines("pending") :
          LET row == flow.about[i]
              new == [email |-> Normal[row.email], role |-> row.role, status |-> "active"]
          IN /\ IsNext(i)
             /\ authorize(flow.saved, flow.actor, "create_user")
             /\ users' = Append(users, new)
             /\ Record(flow.actor, "create_user", Len(users) + 1, Nothing, new)
             /\ Mark(i, "created")

\* Phase 2, inside one transaction.
OnboardRow ==
    /\ Running("onboard")
    /\ \E i \in Lines("pending") :
          IsNext(i) /\ create(flow.actor, flow.about[i]) /\ Mark(i, "created")

\* create throws on the next row.
OnboardThrows ==
    /\ Running("onboard")
    /\ \E i \in Lines("pending") :
          IsNext(i) /\ (WritesMayFail \/ ~ mayCreate(flow.actor, flow.about[i]))

\* The answer of a batch whose transaction rolled back: no planned row was created.
WriteFailed == [flow EXCEPT !.outcome = "processed",
                            !.verdict = [i \in DOMAIN @ |->
                               IF @[i] \in {"pending", "created"} THEN "write_failed" ELSE @[i]]]

\* Mutant: the audit entries are written outside the transaction.
OnboardRollsBackRowsOnly ==
    /\ OnboardThrows
    /\ users' = flow.saved
    /\ UNCHANGED <<audit, past>>
    /\ flow' = WriteFailed

\* Mutant: the error is reported and nothing is taken back.
OnboardStops == OnboardThrows /\ flow' = WriteFailed /\ UNCHANGED <<users, audit, past>>

\* Mutant: only the rows not reached yet are reported as failed.
OnboardRollsBackQuietly ==
    /\ OnboardThrows
    /\ users' = flow.saved
    /\ audit' = SubSeq(audit, 1, flow.first)
    /\ past' = SubSeq(past, 1, flow.first)
    /\ flow' = [flow EXCEPT !.outcome = "processed",
                            !.verdict = [i \in DOMAIN @ |->
                               IF @[i] = "pending" THEN "write_failed" ELSE @[i]]]

\* Mutant: the rollback returns to the seeded tables.
OnboardRollsBackToSeed ==
    /\ OnboardThrows
    /\ users' = SeedUsers /\ audit' = <<>> /\ past' = <<>>
    /\ flow' = WriteFailed

OnboardRollsBack ==
    /\ OnboardThrows
    /\ users' = flow.saved
    /\ audit' = SubSeq(audit, 1, flow.first)
    /\ past' = SubSeq(past, 1, flow.first)
    /\ flow' = WriteFailed

OnboardDone ==
    /\ Running("onboard") /\ Lines("pending") = {}
    /\ flow' = [flow EXCEPT !.outcome = "processed"]
    /\ UNCHANGED <<users, audit, past>>

-----------------------------------------------------------------------------
(* BulkCreateUsersFlow *)

Written(file) == {n \in DOMAIN file : file[n] # <<>>}   \* the lines that are not blank
Places(cells, name) == {i \in DOMAIN cells : Normal[cells[i]] = name}

\* The first written line is a header when one of its cells is "email".
HeaderLines(file) ==
    {n \in Written(file) : /\ \A m \in Written(file) : n <= m
                           /\ Places(file[n], "email") # {}}

\* Where the columns are: in their usual order, or where the header has them first.
Columns(file) ==
    IF HeaderLines(file) = {} THEN [email |-> 1, name |-> 2, role |-> 3]
    ELSE [name \in {"email", "name", "role"} |->
            LET places == Places(file[CHOOSE n \in HeaderLines(file) : TRUE], name)
            IN  IF places = {} THEN 0 ELSE CHOOSE i \in places : \A j \in places : i <= j]

\* A column the header lacks or a line too short for it gives the empty text.
CellAt(cells, i) == IF i \in DOMAIN cells THEN cells[i] ELSE Blank

RowAt(file, n) == [email |-> CellAt(file[n], Columns(file).email),
                   named |-> CellAt(file[n], Columns(file).name) # Blank,
                   role  |-> CellAt(file[n], Columns(file).role)]

\* Mutant: the lines are numbered after the blank ones are dropped.
parseCsvRenumbered(file) ==
    LET rank(n) == Cardinality({m \in Written(file) : m <= n})
        data == Written(file) \ HeaderLines(file)
    IN  [k \in {rank(n) : n \in data} |-> RowAt(file, CHOOSE n \in data : rank(n) = k)]

\* The rows of a file, each under its own line number.
parseCsv(file) == [n \in Written(file) \ HeaderLines(file) |-> RowAt(file, n)]

Import(actor, file) ==
    /\ Free
    /\ Begin("import", actor, file, [n \in DOMAIN parseCsv(file) |-> "pending"], "running")
    /\ UNCHANGED <<users, audit, past>>

ImportRow ==
    /\ Running("import")
    /\ \E n \in Lines("pending") :
          LET row == parseCsv(flow.about)[n]
          IN  /\ IsNext(n)
              /\ \/ create(flow.actor, row) /\ Mark(n, "created")
                 \/ /\ WritesMayFail \/ ~ mayCreate(flow.actor, row)
                    /\ Mark(n, "failed")
                    /\ UNCHANGED <<users, audit, past>>

ImportDone ==
    /\ Running("import") /\ Lines("pending") = {}
    /\ flow' = [flow EXCEPT !.outcome = "processed"]
    /\ UNCHANGED <<users, audit, past>>

-----------------------------------------------------------------------------
Next ==
    \/ CreateUser \/ UpdateUser \/ SuspendUser
    \/ \E actor \in Actors :
         \/ \E domain \in Domains : SuspendDomain(actor, domain)
         \/ \E rows \in Batches : Onboard(actor, rows)
         \/ \E file \in Files : Import(actor, file)
    \/ SuspendNext \/ SuspendThrows \/ SuspendDone
    \/ OnboardRow \/ OnboardRollsBack \/ OnboardDone
    \/ ImportRow \/ ImportDone

Spec == Init /\ [][Next]_vars
=============================================================================
