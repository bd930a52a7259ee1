-------------------------------- MODULE Boot --------------------------------
(***************************************************************************)
(* DatabaseService: what a process does to the SQLite file before it       *)
(* serves, and what that does to the others that have the file open.       *)
(* Every boot runs createSchema, cleanUpAllTables and seedIfEmpty: each    *)
(* CREATE commits by itself, the wipe is one transaction, the count one    *)
(* read, the seed one transaction.  Several processes may do so: a server, *)
(* the server that replaces it, and `npm run seed`, which takes the same   *)
(* path and closes.  A process may die at any step; SQLite then takes its  *)
(* open transaction back.  Once up, a server writes rows of its own.       *)
(*                                                                         *)
(* Of a row the model keeps the user it hangs on, a number that tells it   *)
(* from the user's others in that table, and who wrote it.  A customer has *)
(* at most one subscription and one ticket, so the user names them too.    *)
(***************************************************************************)
EXTENDS Integers, Sequences, FiniteSets

CONSTANTS Processes,     \* the processes that open the file
          Servers,       \* those that serve; the others are seed.ts, which closes it again
          SEED_COUNT,    \* generated users
          TicketEvery,   \* every 5th customer has a ticket,
          AnswerEvery,   \* every 10th an answer on it,
          RefundEvery,   \* every 20th a refund
          DemoThread,    \* messages of the demo user's long thread, 30
          Articles,      \* articles of the knowledge base
          MaxLive,       \* bound: rows the servers have added to a table since the last wipe
          None           \* no process, no user

ASSUME BootAssumption ==
    /\ Servers \subseteq Processes
    /\ SEED_COUNT \in Nat /\ MaxLive \in Nat
    /\ {TicketEvery, AnswerEvery, RefundEvery, DemoThread, Articles} \subseteq Nat \ {0}
    /\ SEED_COUNT % 4 = 0
    /\ None \notin Processes /\ None \notin Nat

SchemaOrder == <<"users", "audit_log", "transactions", "subscriptions", "tickets",
                 "ticket_messages", "refunds", "kb_articles">>
Tables == {SchemaOrder[i] : i \in DOMAIN SchemaOrder}

\* The table a foreign key of this one points into.
References == [audit_log |-> "users", transactions |-> "users", subscriptions |-> "users",
               tickets |-> "users", ticket_messages |-> "tickets",
               refunds |-> "subscriptions"]

\* Rows: of is the user's id.  n is the number of the e-mail address in users (0: one that
\* nobody else has), and tells a user's rows apart in the other tables.
Row(of, n, live) == [of |-> of, n |-> n, live |-> live]
Rows(of, ns) == {Row(of, n, FALSE) : n \in ns}

VARIABLES disk,      \* what is committed: the tables that exist, their rows, the last user id
          work,      \* the same as the open transaction sees it; disk when there is none
          writer,    \* the process whose transaction is open
          pc, at,    \* how far each process is, and at which statement of its transaction
          intruded,  \* history: another process committed since this one's wipe
          read       \* the user whose subscription or ticket a call in flight has read

vars == <<disk, work, writer, pc, at, intruded, read>>

Init ==
    /\ disk = [schema |-> {}, rows |-> [t \in Tables |-> {}], lastUserId |-> 0]
    /\ work = disk
    /\ writer = None
    /\ pc = [p \in Processes |-> "down"]
    /\ at = [p \in Processes |-> 1]
    /\ intruded = [p \in Processes |-> FALSE]
    /\ read = [p \in Processes |-> None]

-----------------------------------------------------------------------------
(* Transactions and foreign keys *)

Goto(p, label) == pc' = [pc EXCEPT ![p] = label]
Intrude(p) == intruded' = [q \in Processes |-> intruded[q] \/ q # p]

BeginTransaction(p) == writer = None /\ writer' = p /\ at' = [at EXCEPT ![p] = 1]

\* Mutant: no transaction around the statements, each commits by itself.
StatementCommits(p, db) ==
    /\ work' = db
    /\ disk' = db
    /\ at' = [at EXCEPT ![p] = @ + 1]
    /\ UNCHANGED <<writer, pc, intruded, read>>

\* One statement of the open transaction.
Statement(p, db) ==
    /\ work' = db
    /\ at' = [at EXCEPT ![p] = @ + 1]
    /\ UNCHANGED <<disk, writer, pc, intruded, read>>

Commit(p) == disk' = work /\ writer' = None /\ at' = [at EXCEPT ![p] = 1] /\ UNCHANGED work

\* The open transaction of a process that throws or dies is taken back.
RollBack(p) ==
    /\ writer' = IF writer = p THEN None ELSE writer
    /\ work' = IF writer = p THEN disk ELSE work
    /\ at' = [at EXCEPT ![p] = 1]
    /\ UNCHANGED disk

\* A statement that commits by itself, and a short transaction in one step.
Autocommit(p, db) ==
    /\ writer = None
    /\ disk' = db /\ work' = db
    /\ Intrude(p)
    /\ UNCHANGED writer

\* onModuleInit throws, or its process dies: bootstrap never listens.
Throw(p) == Goto(p, "threw") /\ RollBack(p) /\ UNCHANGED <<intruded, read>>

Insert(db, t, rows) == [db EXCEPT !.rows[t] = @ \cup rows]
Attach(db, t, of, ns) == Insert(db, t, Rows(of, ns))

\* A row of t points at this user's row of the parent table.
ParentExists(db, t, of) == \E r \in db.rows[References[t]] : r.of = of

\* Some row of another table points into t.
Referenced(db, t) ==
    \E c \in DOMAIN References : /\ References[c] = t
                                 /\ \E r \in db.rows[c] : ParentExists(db, c, r.of)

-----------------------------------------------------------------------------
(* onModuleInit: createSchema *)

Start(p) ==
    /\ pc[p] \in {"down", "threw"}
    /\ Goto(p, "creating")
    /\ UNCHANGED <<disk, work, writer, at, intruded, read>>

\* CREATE TABLE IF NOT EXISTS: the first one that does not exist.
CreateTable(p) ==
    /\ pc[p] = "creating"
    /\ \E i \in DOMAIN SchemaOrder :
         /\ SchemaOrder[i] \notin disk.schema
         /\ \A j \in 1 .. i - 1 : SchemaOrder[j] \in disk.schema
         /\ Autocommit(p, [disk EXCEPT !.schema = @ \cup {SchemaOrder[i]}])
    /\ UNCHANGED <<pc, at, read>>

-----------------------------------------------------------------------------
(* cleanUpAllTables *)

\* Mutant: transactions after the users it refers to.
WipeOrderParentFirst == <<"refunds", "ticket_messages", "subscriptions", "tickets",
                          "kb_articles", "audit_log", "users", "transactions">>

WipeOrder == <<"refunds", "ticket_messages", "subscriptions", "tickets",
               "kb_articles", "audit_log", "transactions", "users">>

BeginWipe(p) ==
    /\ pc[p] = "creating" /\ disk.schema = Tables
    /\ BeginTransaction(p)
    /\ Goto(p, "wiping")
    /\ intruded' = [intruded EXCEPT ![p] = FALSE]
    /\ UNCHANGED <<disk, work, read>>

\* DELETE FROM a table: refused while a row elsewhere refers to one of its rows.
DeleteTable(p) ==
    /\ pc[p] = "wiping" /\ at[p] \in DOMAIN WipeOrder
    /\ IF Referenced(work, WipeOrder[at[p]]) THEN Throw(p)
       ELSE Statement(p, [work EXCEPT !.rows[WipeOrder[at[p]]] = {}])

\* Mutant: the counters go on where they were.
ResetSequencesNever(p) ==
    /\ pc[p] = "wiping" /\ at[p] = Len(WipeOrder) + 1
    /\ Statement(p, work)

\* DELETE FROM sqlite_sequence: ids start from 1 again.
ResetSequences(p) ==
    /\ pc[p] = "wiping" /\ at[p] = Len(WipeOrder) + 1
    /\ Statement(p, [work EXCEPT !.lastUserId = 0])

CommitWipe(p) ==
    /\ pc[p] = "wiping" /\ at[p] = Len(WipeOrder) + 2
    /\ Commit(p)
    /\ Goto(p, "wiped")
    /\ Intrude(p)
    /\ UNCHANGED read

-----------------------------------------------------------------------------
(* seedIfEmpty *)

\* Mutant: wait for an empty table instead of giving up.
CountUsersAgain(p) ==
    /\ pc[p] = "wiped" /\ disk.rows["users"] = {}
    /\ Goto(p, "empty")
    /\ UNCHANGED <<disk, work, writer, at, intruded, read>>

\* SELECT COUNT(*) FROM users, outside any transaction: seed only an empty table.
CountUsers(p) ==
    /\ pc[p] = "wiped"
    /\ Goto(p, IF disk.rows["users"] = {} THEN "empty" ELSE "ready")
    /\ UNCHANGED <<disk, work, writer, at, intruded, read>>

\* Mutant: the seed is a loop of inserts and no transaction.
BeginSeedBare(p) ==
    /\ pc[p] = "empty"
    /\ at' = [at EXCEPT ![p] = 1]
    /\ Goto(p, "seeding")
    /\ UNCHANGED <<disk, work, writer, intruded, read>>

BeginSeed(p) ==
    /\ pc[p] = "empty"
    /\ BeginTransaction(p)
    /\ Goto(p, "seeding")
    /\ UNCHANGED <<disk, work, intruded, read>>

\* What the seed writes for the customer with this id besides the users row: customer
\* number id / 4 has one subscription and 0 to 3 ledger rows, some have a ticket with a
\* message or two, some a refund and its ledger row.
CustomerData(db, id) ==
    LET c == id \div 4
        ticket == IF c % TicketEvery = 0 THEN 1 .. 1 ELSE {}
        answer == IF ticket # {} /\ c % AnswerEvery = 0 THEN 2 .. 2 ELSE {}
        refund == IF c % RefundEvery = 0 THEN 1 .. 1 ELSE {}
        paid == Attach(db, "transactions", id, 1 .. (c % 4) + Cardinality(refund))
        subscribed == Attach(paid, "subscriptions", id, 1 .. 1)
        asked == Attach(subscribed, "tickets", id, ticket)
        answered == Attach(asked, "ticket_messages", id, ticket \cup answer)
    IN Attach(answered, "refunds", id, refund)

\* The next users row, with address number n.
AddUser(db, n, live) ==
    [Insert(db, "users", {Row(db.lastUserId + 1, n, live)}) EXCEPT !.lastUserId = @ + 1]

Taken(db, n) == n # 0 /\ \E u \in db.rows["users"] : u.n = n

\* Iteration n: every 4th user is a customer.  The domain is random, so a generated address
\* that is taken may or may not come up again; an id that is no multiple of 4 gives a
\* customer no plan, and NOT NULL refuses the subscription.
SeedUser(p) ==
    LET n == at[p]
        id == work.lastUserId + 1
        user == AddUser(work, n, FALSE)
    IN /\ pc[p] = "seeding" /\ n <= SEED_COUNT
       /\ \/ Taken(work, n) /\ Throw(p)
          \/ IF n % 4 # 0 THEN Statement(p, user)
             ELSE IF id % 4 # 0 THEN Throw(p)
             ELSE Statement(p, CustomerData(user, id))

SeedArticles(p) ==
    /\ pc[p] = "seeding" /\ at[p] = SEED_COUNT + 1
    /\ Statement(p, Attach(work, "kb_articles", 0, 1 .. Articles))

\* Three fixed users, each with a subscription and a ticket; the third has a long thread.
SeedDemo(p) ==
    LET n == at[p] - 1
        id == work.lastUserId + 1
        thread == IF n = SEED_COUNT + 3 THEN 1 .. DemoThread ELSE 1 .. 1
        user == AddUser(work, n, FALSE)
        subscribed == Attach(user, "subscriptions", id, 1 .. 1)
        asked == Attach(subscribed, "tickets", id, 1 .. 1)
    IN /\ pc[p] = "seeding" /\ n \in SEED_COUNT + 1 .. SEED_COUNT + 3
       /\ IF Taken(work, n) THEN Throw(p)
          ELSE Statement(p, Attach(asked, "ticket_messages", id, thread))

CommitSeed(p) ==
    /\ pc[p] = "seeding" /\ at[p] = SEED_COUNT + 5
    /\ Commit(p)
    /\ Goto(p, "ready")
    /\ Intrude(p)
    /\ UNCHANGED read

-----------------------------------------------------------------------------
(* What stops a boot, and a process *)

Waiting(p) == \/ pc[p] = "creating"
              \/ pc[p] = "empty"

\* The write lock is not given back in time (SQLITE_BUSY): the statement throws.
Busy(p) ==
    /\ Waiting(p) /\ writer # None
    /\ Goto(p, "threw")
    /\ intruded' = [intruded EXCEPT ![p] = TRUE]
    /\ UNCHANGED <<disk, work, writer, at, read>>

\* The process dies, or a statement fails for a reason of the machine's; onModuleDestroy
\* closes the file, and seed.ts does so as soon as it is ready.
Crash(p) ==
    /\ pc[p] \notin {"down", "threw"}
    /\ Goto(p, "down")
    /\ RollBack(p)
    /\ read' = [read EXCEPT ![p] = None]
    /\ UNCHANGED intruded

-----------------------------------------------------------------------------
(* A server at work: the inserts of the services, as their transactions *)

LiveRows(db, t) == {r \in db.rows[t] : r.live}

\* A live row of this user in table t, numbered after the ones it has.
AddLive(db, t, of) ==
    Insert(db, t, {Row(of, Cardinality({r \in db.rows[t] : r.of = of}) + 1, TRUE)})

\* UsersService.create: the row and its audit entry.  emailExists is read in the same call.
CreateUser(p, n) ==
    /\ pc[p] = "ready"
    /\ Cardinality(LiveRows(disk, "users")) < MaxLive
    /\ ~ Taken(disk, n)
    /\ Autocommit(p, LET db == AddUser(disk, n, TRUE)
                     IN AddLive(db, "audit_log", db.lastUserId))
    /\ UNCHANGED <<pc, at, read>>

\* RefundsService.issueRefund and TicketsService.addMessage look up the row they add to.
ReadParent(p, t) ==
    /\ pc[p] = "ready" /\ t \in {"refunds", "ticket_messages"}
    /\ \E r \in disk.rows[References[t]] : read' = [read EXCEPT ![p] = r.of]
    /\ Goto(p, t)
    /\ UNCHANGED <<disk, work, writer, at, intruded>>

\* issueRefund's transaction: the refund, its ledger row and its audit entry.
InsertRefund(db, of) ==
    AddLive(AddLive(AddLive(db, "refunds", of), "transactions", of), "audit_log", of)

\* Mutant: foreign keys are off, SQLite's own default.
WriteChildUnchecked(p) ==
    /\ pc[p] \in {"refunds", "ticket_messages"}
    /\ Cardinality(LiveRows(disk, pc[p])) < MaxLive
    /\ Autocommit(p, IF pc[p] = "refunds" THEN InsertRefund(disk, read[p])
                     ELSE AddLive(disk, "ticket_messages", read[p]))
    /\ Goto(p, "ready")
    /\ read' = [read EXCEPT ![p] = None]
    /\ UNCHANGED at

\* ... and add their rows.  The parent may be gone: the insert throws, nothing is written.
WriteChild(p) ==
    /\ pc[p] \in {"refunds", "ticket_messages"}
    /\ IF ParentExists(disk, pc[p], read[p])
       THEN /\ Cardinality(LiveRows(disk, pc[p])) < MaxLive
            /\ Autocommit(p, IF pc[p] = "refunds" THEN InsertRefund(disk, read[p])
                             ELSE AddLive(disk, "ticket_messages", read[p]))
       ELSE UNCHANGED <<disk, work, writer, intruded>>
    /\ Goto(p, "ready")
    /\ read' = [read EXCEPT ![p] = None]
    /\ UNCHANGED at

-----------------------------------------------------------------------------
BootStep(p) ==
    \/ CreateTable(p)
    \/ BeginWipe(p) \/ DeleteTable(p) \/ ResetSequences(p) \/ CommitWipe(p)
    \/ CountUsers(p)
    \/ BeginSeed(p) \/ SeedUser(p) \/ SeedArticles(p) \/ SeedDemo(p) \/ CommitSeed(p)
    \/ Busy(p)

Serve(p) ==
    \/ \E n \in {0, SEED_COUNT + 1} : CreateUser(p, n)
    \/ \E t \in {"refunds", "ticket_messages"} : ReadParent(p, t)
    \/ WriteChild(p)

Next == \E p \in Processes : \/ Start(p) \/ BootStep(p) \/ Crash(p)
                             \/ p \in Servers /\ Serve(p)

Spec == Init /\ [][Next]_vars

\* A boot is synchronous code: its process runs it to the end unless it dies.
FairSpec == Spec /\ \A p \in Processes : WF_vars(BootStep(p))

-----------------------------------------------------------------------------
(* What a boot promises *)

RowType == [of : Nat, n : Nat, live : BOOLEAN]
Database == [schema : SUBSET Tables, rows : [Tables -> SUBSET RowType], lastUserId : Nat]

\* Types, and the write lock: only the process whose transaction is open is in the middle
\* of a wipe or of a seed, and without one there is nothing to take back.
BootTypeOK ==
    /\ disk \in Database /\ work \in Database
    /\ writer \in Processes \cup {None}
    /\ pc \in [Processes -> {"down", "threw", "creating", "wiping", "wiped", "empty", "seeding",
                             "ready", "refunds", "ticket_messages"}]
    /\ at \in [Processes -> 1 .. SEED_COUNT + Len(WipeOrder) + 5]
    /\ intruded \in [Processes -> BOOLEAN]
    /\ read \in [Processes -> Nat \cup {None}]
    /\ \A p \in Processes : pc[p] \in {"wiping", "seeding"} <=> writer = p
    /\ writer = None => work = disk

SeedNumbers == 1 .. SEED_COUNT + 3
Seeded(t) == {r \in disk.rows[t] : ~ r.live}

\* The customers of a seed whose first user has id first + 1, and the demo users.
SeedCustomers(first) == {id \in first + 1 .. first + SEED_COUNT : id % 4 = 0}
DemoUsers(first) == first + SEED_COUNT + 1 .. first + SEED_COUNT + 3
Numbered(t, id) == Cardinality({r \in Seeded(t) : r.of = id})

\* The tables hold one whole seed (README "The database is wiped on every boot": the users,
\* for every customer one subscription, ledger rows, a ticket for one in five and a refund
\* for one in twenty, the demo users and the articles), and nothing else that is seeded.
OneSeed(first) ==
    /\ Seeded("users") = {Row(first + n, n, FALSE) : n \in SeedNumbers}
    /\ Seeded("kb_articles") = Rows(0, 1 .. Articles)
    /\ Seeded("audit_log") = {}
    /\ {r.of : r \in Seeded("subscriptions")} = SeedCustomers(first) \cup DemoUsers(first)
    /\ {r.of : r \in Seeded("tickets")} =
         {id \in SeedCustomers(first) : (id \div 4) % TicketEvery = 0} \cup DemoUsers(first)
    /\ {r.of : r \in Seeded("ticket_messages")} = {r.of : r \in Seeded("tickets")}
    /\ {r.of : r \in Seeded("refunds")} =
         {id \in SeedCustomers(first) : (id \div 4) % RefundEvery = 0}
    /\ \A id \in SeedCustomers(first) :
         Numbered("transactions", id) = ((id \div 4) % 4) + Numbered("refunds", id)

\* What is committed never shows a part of a seed, nor two: a boot that dies or is overtaken
\* in the middle of its seed leaves none of it (one transaction, line 387), and a second
\* seed over the first is refused.
SeedIsWhole ==
    \/ \A t \in Tables : Seeded(t) = {}
    \/ \E u \in Seeded("users") : u.n = 1 /\ OneSeed(u.of - 1)

\* No row refers to one that a wipe deleted, also when the wipe comes between the lookup
\* of a call and its insert (foreign_keys = ON, line 31).
ReferencesHold ==
    \A t \in DOMAIN References : \A r \in disk.rows[t] : ParentExists(disk, t, r.of)

\* A boot that no other process wrote into reaches its end, whatever an earlier one left
\* behind, and finds ids that start from 1 (line 405, "Customer ids are always multiples
\* of 4"): the wipe is in an order the foreign keys allow, and the seed is never refused.
UndisturbedBootSeeds ==
    \A p \in Processes : ~ intruded[p] =>
      /\ pc[p] # "threw"
      /\ pc[p] \in {"ready", "refunds", "ticket_messages"} => OneSeed(0)

\* A boot never hangs: whatever others hold or write, it serves, throws or is gone.
EveryBootEnds ==
    \A p \in Processes : pc[p] = "creating" ~> pc[p] \in {"ready", "threw", "down"}

\* README:320 "so **the reseed always runs**", README:348 "`npm run seed` [...] wipes and
\* reseeds too": a boot that finds nothing left to seed has the demo data in its tables.
ReseedAlwaysRuns ==
    [][\A p \in Processes :
         pc[p] = "wiped" /\ pc'[p] = "ready" => \E u \in disk'.rows["users"] : ~ u.live]_vars
=============================================================================
