------------------------ MODULE UserAdminProperties ------------------------
(* What user administration promises: see UserAdmin for the state.         *)
EXTENDS UserAdmin

AppliedFields == [email  : Emails \cup {Nothing}, role : ROLES \cup {Nothing},
                  status : STATUSES \cup {Nothing}]

Entries == [actor : Actors, action : DOMAIN ActionPermissions, target : Nat \ {0},
            before : AppliedFields \cup {Nothing}, applied : AppliedFields]

Outcomes == {"none", "running", "error", "no_matches", "escalated", "suspended",
             "rejected", "processed"}

EmailsUnique(table) ==
    \A i, j \in DOMAIN table : table[i].email = table[j].email => i = j

\* The tables hold rows of their types, no two users share an address (users.service.ts
\* looks for a clash before every write; the actor's role is looked up by address), and
\* a running flow began on a log no longer than today's.
UsersTypeOK ==
    /\ users \in Seq(UserRows) /\ EmailsUnique(users)
    /\ audit \in Seq(Entries)
    /\ Len(past) = Len(audit)
    /\ flow.outcome \in Outcomes /\ flow.kind \in {"none", "suspend", "onboard", "import"}
    /\ flow.first \in 0 .. Len(audit)

-----------------------------------------------------------------------------
(* The log and the table *)

\* What one entry does to a table.
Apply(table, e) ==
    IF e.action = "create_user" THEN Append(table, e.applied)
    ELSE [table EXCEPT ![e.target] = Merge(@, e.applied)]

\* ... and how a reader of the log takes it back.
Undo(table, e) ==
    IF e.action = "create_user" THEN SubSeq(table, 1, e.target - 1)
    ELSE [table EXCEPT ![e.target] = Merge(@, e.before)]

\* The users table as it was before entry i, and after the last one.
TableAt(i) == IF i > Len(audit) THEN users ELSE past[i]

\* inTransaction (users.service.ts:48-54): a row and its entry are written together, so
\* replaying the log over the seeded rows gives the users table, whatever batch was
\* rolled back, whatever write failed and however far a flow got.
LogExplainsTable ==
    /\ TableAt(1) = SeedUsers
    /\ \A i \in DOMAIN audit : TableAt(i + 1) = Apply(TableAt(i), audit[i])

\* Every entry was written by an actor whose role allowed it on the table of that very
\* moment (ACTION_PERMISSIONS; a batch can change the role its own actor resolves to),
\* and it keeps what it replaced: the log can be read backwards too.
EntriesAreLawful ==
    \A i \in DOMAIN audit :
        /\ authorize(TableAt(i), audit[i].actor, audit[i].action)
        /\ Undo(TableAt(i + 1), audit[i]) = TableAt(i)

\* What another connection to the file would read: a batch shows when it commits.
Committed == IF Running("onboard") THEN SubSeq(audit, 1, flow.first) ELSE audit

Table == INSTANCE AuditedTable
           WITH Seed <- SeedUsers,
                table <- IF Running("onboard") THEN flow.saved ELSE users,
                log <- Committed,
                before <- IF Running("onboard") THEN SubSeq(past, 1, flow.first) ELSE past,
                Allows <- LAMBDA t, e :
                            authorize(t, e.actor, e.action) /\ Undo(Apply(t, e), e) = t

\* User administration implements an audited table: whatever is called, thrown or rolled
\* back, what is committed only ever changes by whole groups of lawful entries, logged
\* together with what they do; no committed entry is lost, rewritten or out of its place.
ImplementsAuditedTable == Table!Spec

-----------------------------------------------------------------------------
(* The answers of the flows *)

Since == flow.first + 1 .. Len(audit)
RowsOf(kind, about) == IF kind = "import" THEN parseCsv(about) ELSE about
GivenRows == RowsOf(flow.kind, flow.about)

\* The answer of a flow names exactly what was done: each line it reports as created or
\* suspended has its entry in the log, there are no others, and a row reported as skipped or
\* failed left nothing behind (bulk-onboard-users.flow.ts:110-133, "Re-mark every row").
ReportMatchesLog ==
    /\ \A i \in Lines("created") \cup Lines("suspended") :
         \E n \in Since :
            /\ audit[n].actor = flow.actor
            /\ \/ /\ flow.kind = "suspend"
                  /\ audit[n].action = "suspend_user" /\ audit[n].target = i
               \/ /\ flow.kind # "suspend"
                  /\ audit[n].action = "create_user"
                  /\ audit[n].applied.email = Normal[GivenRows[i].email]
    /\ Idle /\ flow.kind # "none" =>
         Cardinality(Since) = Cardinality(Lines("created") \cup Lines("suspended"))

\* The answer of an import can be held against the file: every line number in it is that
\* of a written line, the addresses created stand in the lines they are credited to, and no
\* written line is passed over but a first one with a cell "email" (bulk-create-users.flow.ts
\* takes it for a header, also when it is a user called Email).
ImportReportsTheFile ==
    flow.kind = "import" /\ Idle =>
        LET file == flow.about
            reported == Lines("created") \cup Lines("failed")
            InLine(n, email) == \E i \in DOMAIN file[n] : Normal[file[n][i]] = email
        IN  /\ \A n \in reported : n \in DOMAIN file /\ file[n] # <<>>
            /\ \A n \in Lines("created") :
                 \E k \in Since : InLine(n, audit[k].applied.email)
            /\ \A n \in DOMAIN file \ reported :
                 file[n] # <<>> =>
                   InLine(n, "email") /\ \A m \in 1 .. n - 1 : file[m] = <<>>

\* README "they all commit together, or none do": at its end a batch created every row
\* that passed validation, or left the tables as it found them.
OnboardIsAllOrNothing ==
    flow.kind = "onboard" /\ Idle =>
        \/ Lines("write_failed") = {} /\ Lines("pending") = {}
        \/ Lines("created") = {} /\ users = flow.saved /\ Len(audit) = flow.first

\* Phase 1 judges by create's own rules: while a batch is written and its actor keeps the
\* right to create users, create accepts every row still planned, whatever rows went in
\* before it; only a failing statement or a lost role can roll an accepted batch back.
PlannedRowsCanBeCreated ==
    Running("onboard") /\ authorize(users, flow.actor, "create_user") =>
        \A i \in Lines("pending") : mayCreate(flow.actor, flow.about[i])

\* Guardrails of suspend_users_by_domain: one invocation suspends at most
\* MAX_AUTO_SUSPEND accounts, none of an admin and none that was deleted, also when it
\* throws in the middle.
DomainSuspensionIsBounded ==
    flow.kind = "suspend" =>
        /\ Cardinality(Since) <= MaxAutoSuspend
        /\ \A n \in Since : TableAt(n)[audit[n].target].role # "admin"
        /\ \A n \in Since : TableAt(n)[audit[n].target].status # "deleted"

\* ... and one that ends normally left no account of the domain active.
DomainSuspensionIsComplete ==
    flow.kind = "suspend" /\ flow.outcome = "suspended" =>
        \A id \in DOMAIN users :
            DomainOf[users[id].email] = flow.about => users[id].status # "active"
=============================================================================
