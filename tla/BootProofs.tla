----------------------------- MODULE BootProofs -----------------------------
(***************************************************************************)
(* The write lock, the foreign keys and the seed, for every number of      *)
(* processes, of generated users and of rows the servers add: no row       *)
(* refers to one that is gone, a seed is whole or absent, and a boot that  *)
(* nobody wrote into is never refused.                                     *)
(***************************************************************************)
EXTENDS Boot, FiniteSetTheorems, TLAPS

-----------------------------------------------------------------------------
(* A database whose references hold, and what adding rows does to it *)

\* Rows of their types, finitely many, and none that refers to a row that is not there.
Sound(db) ==
    /\ db \in Database
    /\ \A t \in Tables : IsFiniteSet(db.rows[t])
    /\ \A t \in DOMAIN References : \A r \in db.rows[t] : ParentExists(db, t, r.of)

LEMMA TableNames ==
    /\ Tables = {"users", "audit_log", "transactions", "subscriptions", "tickets",
                 "ticket_messages", "refunds", "kb_articles"}
    /\ DOMAIN References = {"audit_log", "transactions", "subscriptions", "tickets",
                            "ticket_messages", "refunds"}
    /\ DOMAIN References \subseteq Tables
    /\ \A t \in DOMAIN References : References[t] \in Tables
<1>1. Tables = {"users", "audit_log", "transactions", "subscriptions", "tickets",
                "ticket_messages", "refunds", "kb_articles"}
  BY DEF Tables, SchemaOrder
<1>2. /\ DOMAIN References = {"audit_log", "transactions", "subscriptions", "tickets",
                              "ticket_messages", "refunds"}
      /\ \A t \in DOMAIN References : References[t] \in {"users", "tickets", "subscriptions"}
  BY DEF References
<1> QED BY <1>1, <1>2

LEMMA RowsSound ==
    ASSUME NEW of \in Nat, NEW ns \in SUBSET Nat, IsFiniteSet(ns)
    PROVE  /\ Rows(of, ns) \in SUBSET RowType
           /\ IsFiniteSet(Rows(of, ns))
           /\ \A r \in Rows(of, ns) : r.of = of
<1> DEFINE f == [n \in ns |-> Row(of, n, FALSE)]
<1>1. \A n \in ns : Row(of, n, FALSE) \in RowType /\ Row(of, n, FALSE).of = of
  BY DEF Row, RowType
<1>2. f \in Surjection(ns, Rows(of, ns))
  BY DEF Rows, Surjection
<1>3. IsFiniteSet(Rows(of, ns))
  BY <1>2, FS_Surjection
<1> QED BY <1>1, <1>3 DEF Rows

\* Rows added to a table whose parents are there keep a database sound, and no parent is lost.
LEMMA InsertSound ==
    ASSUME NEW db, Sound(db), NEW t \in Tables, NEW rows \in SUBSET RowType, IsFiniteSet(rows),
           t \in DOMAIN References => \A r \in rows : ParentExists(db, t, r.of)
    PROVE  /\ Sound(Insert(db, t, rows))
           /\ \A c \in DOMAIN References, of \in Nat :
                 ParentExists(db, c, of) => ParentExists(Insert(db, t, rows), c, of)
           /\ Insert(db, t, rows).lastUserId = db.lastUserId
           /\ rows \subseteq Insert(db, t, rows).rows[t]
<1> DEFINE new == Insert(db, t, rows)
<1>1. /\ new \in Database /\ new.lastUserId = db.lastUserId
      /\ new.rows[t] = db.rows[t] \cup rows
      /\ \A c \in Tables : c # t => new.rows[c] = db.rows[c]
  BY DEF Insert, Database, Sound
<1> HIDE DEF new
<1>2. \A c \in Tables : IsFiniteSet(new.rows[c])
  <2>1. IsFiniteSet(new.rows[t])
    BY <1>1, FS_Union DEF Sound
  <2> QED BY <1>1, <2>1 DEF Sound
<1>3. \A c \in DOMAIN References, of \in Nat :
        ParentExists(db, c, of) => ParentExists(new, c, of)
  <2>1. \A c \in Tables : db.rows[c] \subseteq new.rows[c]
    BY <1>1
  <2> QED BY <2>1, TableNames DEF ParentExists
<1>4. ASSUME NEW c \in DOMAIN References, NEW r \in new.rows[c]
      PROVE  ParentExists(new, c, r.of)
  <2>1. CASE r \in db.rows[c]
    <3>1. r.of \in Nat
      BY <2>1, TableNames DEF Sound, Database, RowType
    <3> QED BY <2>1, <3>1, <1>3 DEF Sound
  <2>2. CASE c = t /\ r \in rows
    <3>1. r.of \in Nat
      BY <2>2 DEF RowType
    <3> QED BY <2>2, <3>1, <1>3
  <2> QED BY <2>1, <2>2, <1>1, TableNames
<1>5. Sound(new)
  BY <1>1, <1>2, <1>4 DEF Sound
<1> QED BY <1>1, <1>3, <1>5 DEF new

\* The new user's row is a parent for everything that hangs on a user.
LEMMA AddUserSound ==
    ASSUME NEW db, Sound(db), NEW n \in Nat, NEW live \in BOOLEAN
    PROVE  /\ Sound(AddUser(db, n, live))
           /\ AddUser(db, n, live).lastUserId = db.lastUserId + 1
           /\ db.lastUserId + 1 \in Nat
           /\ \A t \in DOMAIN References : References[t] = "users" =>
                 ParentExists(AddUser(db, n, live), t, db.lastUserId + 1)
<1> DEFINE row == Row(db.lastUserId + 1, n, live)
           ins == Insert(db, "users", {row})
           new == AddUser(db, n, live)
<1>1. db.lastUserId \in Nat /\ row \in RowType /\ row.of = db.lastUserId + 1
  BY DEF Sound, Database, Row, RowType
<1>2. "users" \in Tables /\ "users" \notin DOMAIN References
  BY TableNames
<1>3. IsFiniteSet({row})
  BY FS_Singleton
<1> HIDE DEF row
<1>4. Sound(ins) /\ ins.lastUserId = db.lastUserId /\ row \in ins.rows["users"]
  BY <1>1, <1>2, <1>3, InsertSound
<1>5. new = [ins EXCEPT !.lastUserId = @ + 1]
  BY DEF AddUser, row
<1> HIDE DEF ins, new
<1>6. new \in Database /\ new.rows = ins.rows /\ new.lastUserId = db.lastUserId + 1
  BY <1>1, <1>4, <1>5 DEF Sound, Database
<1>7. Sound(new)
  BY <1>4, <1>6 DEF Sound, ParentExists
<1> QED BY <1>1, <1>4, <1>6, <1>7 DEF ParentExists, new

LEMMA AddLiveSound ==
    ASSUME NEW db, Sound(db), NEW t \in DOMAIN References, NEW of \in Nat,
           ParentExists(db, t, of)
    PROVE  /\ Sound(AddLive(db, t, of))
           /\ \A c \in DOMAIN References, o \in Nat :
                 ParentExists(db, c, o) => ParentExists(AddLive(db, t, of), c, o)
           /\ \E r \in AddLive(db, t, of).rows[t] : r.of = of
<1> DEFINE mine == {r \in db.rows[t] : r.of = of}
           row == Row(of, Cardinality(mine) + 1, TRUE)
<1>1. Cardinality(mine) \in Nat
  BY TableNames, FS_Subset, FS_CardinalityType DEF Sound
<1>2. row \in RowType /\ row.of = of
  BY <1>1 DEF Row, RowType
<1>3. AddLive(db, t, of) = Insert(db, t, {row})
  BY DEF AddLive
<1>4. IsFiniteSet({row})
  BY FS_Singleton
<1> HIDE DEF row
<1>5. {row} \in SUBSET RowType /\ \A r \in {row} : ParentExists(db, t, r.of)
  BY <1>2
<1>6. t \in Tables
  BY TableNames
<1>7. /\ Sound(Insert(db, t, {row}))
      /\ \A c \in DOMAIN References, o \in Nat :
            ParentExists(db, c, o) => ParentExists(Insert(db, t, {row}), c, o)
      /\ row \in Insert(db, t, {row}).rows[t]
  BY <1>4, <1>5, <1>6, InsertSound
<1> QED BY <1>2, <1>3, <1>7

\* The seed's rows of one user in one table, after what they refer to.
LEMMA AttachSound ==
    ASSUME NEW db, Sound(db), NEW t \in Tables, NEW of \in Nat,
           NEW ns \in SUBSET Nat, IsFiniteSet(ns),
           t \in DOMAIN References /\ ns # {} => ParentExists(db, t, of)
    PROVE  /\ Sound(Attach(db, t, of, ns))
           /\ Attach(db, t, of, ns).lastUserId = db.lastUserId
           /\ \A c \in DOMAIN References :
                 ParentExists(db, c, of) \/ (References[c] = t /\ ns # {})
                   => ParentExists(Attach(db, t, of, ns), c, of)
<1> DEFINE rows == Rows(of, ns)
           new == Insert(db, t, rows)
<1>1. rows \in SUBSET RowType /\ IsFiniteSet(rows) /\ \A r \in rows : r.of = of
  BY RowsSound
<1>2. ns # {} => rows # {}
  BY DEF Rows
<1>3. rows # {} => ns # {}
  BY DEF Rows
<1> HIDE DEF rows
<1>4. t \in DOMAIN References => \A r \in rows : ParentExists(db, t, r.of)
  BY <1>1, <1>3
<1>5. /\ Sound(new) /\ new.lastUserId = db.lastUserId /\ rows \subseteq new.rows[t]
      /\ \A c \in DOMAIN References : ParentExists(db, c, of) => ParentExists(new, c, of)
  BY <1>1, <1>4, InsertSound
<1>6. Attach(db, t, of, ns) = new
  BY DEF Attach, rows
<1> HIDE DEF new
<1>7. ASSUME NEW c \in DOMAIN References, References[c] = t, ns # {}
      PROVE  ParentExists(new, c, of)
  BY <1>7, <1>1, <1>2, <1>5 DEF ParentExists
<1> QED BY <1>5, <1>6, <1>7

LEMMA SmallSets ==
    /\ IsFiniteSet({}) /\ {} \in SUBSET Nat
    /\ IsFiniteSet(1 .. 1) /\ 1 .. 1 \in SUBSET Nat /\ 1 .. 1 # {}
    /\ IsFiniteSet(2 .. 2) /\ 2 .. 2 \in SUBSET Nat
    /\ \A k \in Nat : IsFiniteSet(1 .. k) /\ 1 .. k \in SUBSET Nat
<1>1. IsFiniteSet({})
  BY FS_EmptySet
<1>2. \A k \in Nat : IsFiniteSet(1 .. k)
  BY FS_Interval
<1>3. IsFiniteSet(1 .. 1)
  BY <1>2
<1>4. IsFiniteSet(2 .. 2)
  <2>1. 2 \in Nat /\ 2 .. 2 \in SUBSET (1 .. 2)
    OBVIOUS
  <2>2. IsFiniteSet(1 .. 2)
    BY <2>1, <1>2
  <2> QED BY <2>1, <2>2, FS_Subset
<1> QED BY <1>1, <1>2, <1>3, <1>4

\* The tables a seeded user's rows go into, and what they hang on.
LEMMA SeedTables ==
    /\ {"transactions", "subscriptions", "tickets", "ticket_messages", "refunds"} \subseteq Tables
    /\ {"transactions", "subscriptions", "tickets", "ticket_messages", "refunds"}
         \subseteq DOMAIN References
    /\ References["transactions"] = "users" /\ References["subscriptions"] = "users"
    /\ References["tickets"] = "users" /\ References["ticket_messages"] = "tickets"
    /\ References["refunds"] = "subscriptions"
<1>1. /\ References["transactions"] = "users" /\ References["subscriptions"] = "users"
      /\ References["tickets"] = "users" /\ References["ticket_messages"] = "tickets"
      /\ References["refunds"] = "subscriptions"
  BY DEF References
<1> QED BY <1>1, TableNames

\* What the seed writes for a customer: each row after the one it refers to.
LEMMA CustomerDataSound ==
    ASSUME NEW db, Sound(db), NEW id \in Nat,
           \A t \in DOMAIN References : References[t] = "users" => ParentExists(db, t, id)
    PROVE  Sound(CustomerData(db, id)) /\ CustomerData(db, id).lastUserId = db.lastUserId
<1> DEFINE c == id \div 4
           ticket == IF c % TicketEvery = 0 THEN 1 .. 1 ELSE {}
           answer == IF ticket # {} /\ c % AnswerEvery = 0 THEN 2 .. 2 ELSE {}
           refund == IF c % RefundEvery = 0 THEN 1 .. 1 ELSE {}
           ledger == 1 .. (c % 4) + Cardinality(refund)
           paid == Attach(db, "transactions", id, ledger)
           subscribed == Attach(paid, "subscriptions", id, 1 .. 1)
           asked == Attach(subscribed, "tickets", id, ticket)
           answered == Attach(asked, "ticket_messages", id, ticket \cup answer)
           refunded == Attach(answered, "refunds", id, refund)
<1>1. CustomerData(db, id) = refunded
  BY DEF CustomerData
<1>2. c % 4 \in Nat
  OBVIOUS
<1>3. refund \in SUBSET Nat /\ IsFiniteSet(refund)
  BY SmallSets
<1>4. ticket \in SUBSET Nat /\ IsFiniteSet(ticket)
  BY SmallSets
<1>5. answer \in SUBSET Nat /\ IsFiniteSet(answer) /\ (ticket = {} => answer = {})
  BY SmallSets
<1> HIDE DEF refund, ticket, answer, c
<1>6. ledger \in SUBSET Nat /\ IsFiniteSet(ledger)
  <2>1. Cardinality(refund) \in Nat
    BY <1>3, FS_CardinalityType
  <2>2. (c % 4) + Cardinality(refund) \in Nat
    BY <1>2, <2>1
  <2> QED BY <2>2, SmallSets
<1>7. ticket \cup answer \in SUBSET Nat /\ IsFiniteSet(ticket \cup answer)
      /\ (ticket \cup answer # {} => ticket # {})
  BY <1>4, <1>5, FS_Union
<1> HIDE DEF ledger
<1>8. Sound(paid) /\ paid.lastUserId = db.lastUserId
      /\ ParentExists(paid, "subscriptions", id) /\ ParentExists(paid, "tickets", id)
  BY <1>6, SeedTables, AttachSound
<1> HIDE DEF paid
<1>9. Sound(subscribed) /\ subscribed.lastUserId = db.lastUserId
      /\ ParentExists(subscribed, "tickets", id) /\ ParentExists(subscribed, "refunds", id)
  <2>1. 1 .. 1 \in SUBSET Nat /\ IsFiniteSet(1 .. 1) /\ 1 .. 1 # {}
    BY SmallSets
  <2> QED BY <1>8, <2>1, SeedTables, AttachSound
<1> HIDE DEF subscribed
<1>10. Sound(asked) /\ asked.lastUserId = db.lastUserId /\ ParentExists(asked, "refunds", id)
       /\ (ticket # {} => ParentExists(asked, "ticket_messages", id))
  BY <1>4, <1>9, SeedTables, AttachSound
<1> HIDE DEF asked
<1>11. Sound(answered) /\ answered.lastUserId = db.lastUserId
       /\ ParentExists(answered, "refunds", id)
  BY <1>7, <1>10, SeedTables, AttachSound
<1> HIDE DEF answered
<1>12. Sound(refunded) /\ refunded.lastUserId = db.lastUserId
  BY <1>3, <1>11, SeedTables, AttachSound
<1> QED BY <1>1, <1>12

\* A table that nothing refers into can be emptied.
LEMMA EmptyTableSound ==
    ASSUME NEW db, Sound(db), NEW t \in Tables, ~ Referenced(db, t)
    PROVE  Sound([db EXCEPT !.rows[t] = {}])
<1> DEFINE new == [db EXCEPT !.rows[t] = {}]
<1>1. /\ new \in Database /\ new.rows[t] = {}
      /\ \A c \in Tables : c # t => new.rows[c] = db.rows[c]
  BY DEF Database, Sound
<1> HIDE DEF new
<1>2. IsFiniteSet({})
  BY FS_EmptySet
<1>3. \A c \in DOMAIN References : References[c] = t => db.rows[c] = {}
  BY DEF Referenced, Sound
<1>4. ASSUME NEW c \in DOMAIN References, NEW r \in new.rows[c]
      PROVE  ParentExists(new, c, r.of)
  <2>1. c # t /\ r \in db.rows[c] /\ References[c] # t
    BY <1>1, <1>3, TableNames
  <2>2. ParentExists(db, c, r.of) /\ References[c] \in Tables
    BY <2>1, TableNames DEF Sound
  <2> QED BY <2>1, <2>2, <1>1 DEF ParentExists
<1>5. \A c \in Tables : IsFiniteSet(new.rows[c])
  BY <1>1, <1>2 DEF Sound
<1>6. Sound(new)
  BY <1>1, <1>4, <1>5 DEF Sound
<1> QED BY <1>6 DEF new

\* issueRefund's three rows: who has a subscription is a user.
LEMMA InsertRefundSound ==
    ASSUME NEW db, Sound(db), NEW of \in Nat, ParentExists(db, "refunds", of)
    PROVE  Sound(InsertRefund(db, of))
<1> DEFINE d1 == AddLive(db, "refunds", of)
           d2 == AddLive(d1, "transactions", of)
           d3 == AddLive(d2, "audit_log", of)
<1>1. /\ {"refunds", "transactions", "audit_log", "subscriptions"} \subseteq DOMAIN References
      /\ References["refunds"] = "subscriptions" /\ References["subscriptions"] = "users"
      /\ References["transactions"] = "users" /\ References["audit_log"] = "users"
  BY DEF References
<1>2. ParentExists(db, "subscriptions", of)
  BY <1>1 DEF ParentExists, Sound
<1>3. ParentExists(db, "transactions", of) /\ ParentExists(db, "audit_log", of)
  BY <1>1, <1>2 DEF ParentExists
<1>4. Sound(d1) /\ ParentExists(d1, "transactions", of) /\ ParentExists(d1, "audit_log", of)
  BY <1>1, <1>3, AddLiveSound
<1> HIDE DEF d1
<1>5. Sound(d2) /\ ParentExists(d2, "audit_log", of)
  BY <1>1, <1>4, AddLiveSound
<1> HIDE DEF d2
<1>6. Sound(d3)
  BY <1>1, <1>5, AddLiveSound
<1> QED BY <1>6 DEF InsertRefund, d1, d2

-----------------------------------------------------------------------------
(* The write lock *)

BootInv == BootTypeOK /\ Sound(disk) /\ Sound(work)

\* A statement of the open transaction that leaves it sound.
LEMMA StatementKeepsInv ==
    ASSUME BootInv, NEW p \in Processes, NEW db, Sound(db), Statement(p, db),
           writer = p, at[p] <= SEED_COUNT + 12
    PROVE  BootInv'
<1>1. Len(WipeOrder) = 8 /\ SEED_COUNT \in Nat /\ None \notin Processes
  BY BootAssumption DEF WipeOrder
<1>2. at' \in [Processes -> 1 .. SEED_COUNT + Len(WipeOrder) + 5]
  BY <1>1 DEF BootInv, BootTypeOK, Statement
<1>3. BootTypeOK'
  BY <1>1, <1>2 DEF BootInv, BootTypeOK, Statement, Sound
<1> QED BY <1>3 DEF BootInv, Statement

\* A process that throws or dies gives the lock back, and its transaction is undone.
LEMMA RollBackKeepsInv ==
    ASSUME BootInv, NEW p \in Processes, NEW label \in {"threw", "down"},
           Goto(p, label), RollBack(p), intruded' \in [Processes -> BOOLEAN],
           read' \in [Processes -> Nat \cup {None}]
    PROVE  BootInv'
<1>1. Len(WipeOrder) = 8 /\ SEED_COUNT \in Nat /\ None \notin Processes
  BY BootAssumption DEF WipeOrder
<1>2. at' \in [Processes -> 1 .. SEED_COUNT + Len(WipeOrder) + 5]
  BY <1>1 DEF BootInv, BootTypeOK, RollBack
<1>3. BootTypeOK'
  BY <1>1, <1>2 DEF BootInv, BootTypeOK, RollBack, Goto
<1>4. Sound(disk') /\ Sound(work')
  BY DEF BootInv, RollBack
<1> QED BY <1>3, <1>4 DEF BootInv

\* A transaction in one step, while nobody else's is open.
LEMMA AutocommitKeepsInv ==
    ASSUME BootInv, NEW p \in Processes, NEW db, Sound(db), Autocommit(p, db),
           pc' \in [Processes -> {"down", "threw", "creating", "wiping", "wiped", "empty",
                                  "seeding", "ready", "refunds", "ticket_messages"}],
           \A q \in Processes : pc'[q] = pc[q] \/ {pc[q], pc'[q]} \cap {"wiping", "seeding"} = {},
           at' = at, read' \in [Processes -> Nat \cup {None}]
    PROVE  BootInv'
<1>1. BootTypeOK'
  BY DEF BootInv, BootTypeOK, Autocommit, Intrude, Sound
<1> QED BY <1>1 DEF BootInv, Autocommit

\* A process goes on without touching the database.
LEMMA GotoKeepsInv ==
    ASSUME BootInv, NEW p \in Processes,
           NEW label \in {"creating", "empty", "threw", "ready", "refunds", "ticket_messages"},
           Goto(p, label), pc[p] \notin {"wiping", "seeding"},
           UNCHANGED <<disk, work, writer, at>>, intruded' \in [Processes -> BOOLEAN],
           read' \in [Processes -> Nat \cup {None}]
    PROVE  BootInv'
<1>1. BootTypeOK'
  BY DEF BootInv, BootTypeOK, Goto
<1> QED BY <1>1 DEF BootInv

\* A transaction is opened, and is committed, by the process that holds the lock.
LEMMA BeginKeepsInv ==
    ASSUME BootInv, NEW p \in Processes, NEW label \in {"wiping", "seeding"},
           Goto(p, label), BeginTransaction(p), UNCHANGED <<disk, work, read>>,
           intruded' \in [Processes -> BOOLEAN]
    PROVE  BootInv'
<1>1. 1 \in 1 .. SEED_COUNT + Len(WipeOrder) + 5 /\ None \notin Processes
  BY BootAssumption DEF WipeOrder
<1>2. BootTypeOK'
  BY <1>1 DEF BootInv, BootTypeOK, Goto, BeginTransaction
<1> QED BY <1>2 DEF BootInv

LEMMA CommitKeepsInv ==
    ASSUME BootInv, NEW p \in Processes, NEW label \in {"wiped", "ready"},
           writer = p, Goto(p, label), Commit(p), Intrude(p), UNCHANGED read
    PROVE  BootInv'
<1>1. 1 \in 1 .. SEED_COUNT + Len(WipeOrder) + 5 /\ None \notin Processes
  BY BootAssumption DEF WipeOrder
<1>2. BootTypeOK'
  BY <1>1 DEF BootInv, BootTypeOK, Goto, Commit, Intrude
<1> QED BY <1>2 DEF BootInv, Commit

LEMMA CreatingKeepsInv ==
    ASSUME BootInv, NEW p \in Processes, Start(p) \/ CreateTable(p) \/ CountUsers(p) \/ Busy(p)
    PROVE  BootInv'
<1>1. CASE Start(p)
  BY <1>1, GotoKeepsInv DEF Start, BootInv, BootTypeOK
<1>2. CASE CreateTable(p)
  <2>1. PICK i \in DOMAIN SchemaOrder :
          Autocommit(p, [disk EXCEPT !.schema = @ \cup {SchemaOrder[i]}])
    BY <1>2 DEF CreateTable
  <2> DEFINE db == [disk EXCEPT !.schema = @ \cup {SchemaOrder[i]}]
  <2>2. db \in Database /\ db.rows = disk.rows
    BY DEF BootInv, Sound, Database, Tables
  <2>3. Sound(db)
    BY <2>2 DEF BootInv, Sound, ParentExists
  <2>4. UNCHANGED <<pc, at, read>>
    BY <1>2 DEF CreateTable
  <2> HIDE DEF db
  <2>5. Autocommit(p, db)
    BY <2>1 DEF db
  <2> QED BY <2>3, <2>4, <2>5, AutocommitKeepsInv DEF BootInv, BootTypeOK
<1>3. CASE CountUsers(p)
  BY <1>3, GotoKeepsInv DEF CountUsers, BootInv, BootTypeOK
<1>4. CASE Busy(p)
  BY <1>4, GotoKeepsInv DEF Busy, Waiting, BootInv, BootTypeOK
<1> QED BY <1>1, <1>2, <1>3, <1>4

LEMMA WipingKeepsInv ==
    ASSUME BootInv, NEW p \in Processes,
           BeginWipe(p) \/ DeleteTable(p) \/ ResetSequences(p) \/ CommitWipe(p)
    PROVE  BootInv'
<1>1. Len(WipeOrder) = 8 /\ SEED_COUNT \in Nat /\ at[p] \in Int
  BY BootAssumption DEF WipeOrder, BootInv, BootTypeOK
<1>2. CASE BeginWipe(p)
  BY <1>2, BeginKeepsInv DEF BeginWipe, BootInv, BootTypeOK
<1>3. CASE DeleteTable(p)
  <2> DEFINE t == WipeOrder[at[p]]
             db == [work EXCEPT !.rows[t] = {}]
  <2>1. writer = p /\ at[p] <= SEED_COUNT + 12
    BY <1>1, <1>3 DEF DeleteTable, BootInv, BootTypeOK, WipeOrder
  <2>2. t \in Tables
    <3>1. \A i \in DOMAIN WipeOrder :
            WipeOrder[i] \in {"refunds", "ticket_messages", "subscriptions", "tickets",
                              "kb_articles", "audit_log", "transactions", "users"}
      BY DEF WipeOrder
    <3> QED BY <3>1, <1>3, TableNames DEF DeleteTable
  <2>3. CASE Referenced(work, t)
    BY <1>3, <2>3, RollBackKeepsInv DEF DeleteTable, Throw, BootInv, BootTypeOK
  <2>4. CASE ~ Referenced(work, t)
    <3>1. Statement(p, db)
      BY <1>3, <2>4 DEF DeleteTable
    <3>2. Sound(db)
      BY <2>2, <2>4, EmptyTableSound DEF BootInv
    <3> HIDE DEF db
    <3> QED BY <2>1, <3>1, <3>2, StatementKeepsInv
  <2> QED BY <2>3, <2>4
<1>4. CASE ResetSequences(p)
  <2> DEFINE db == [work EXCEPT !.lastUserId = 0]
  <2>1. db \in Database /\ db.rows = work.rows
    BY DEF BootInv, Sound, Database
  <2>2. Sound(db)
    BY <2>1 DEF BootInv, Sound, ParentExists
  <2>3. Statement(p, db) /\ writer = p /\ at[p] <= SEED_COUNT + 12
    BY <1>1, <1>4 DEF ResetSequences, BootInv, BootTypeOK
  <2> HIDE DEF db
  <2> QED BY <2>2, <2>3, StatementKeepsInv
<1>5. CASE CommitWipe(p)
  BY <1>5, CommitKeepsInv DEF CommitWipe, BootInv, BootTypeOK
<1> QED BY <1>2, <1>3, <1>4, <1>5

LEMMA SeedingKeepsInv ==
    ASSUME BootInv, NEW p \in Processes,
           BeginSeed(p) \/ SeedUser(p) \/ SeedArticles(p) \/ SeedDemo(p) \/ CommitSeed(p)
    PROVE  BootInv'
<1>1. SEED_COUNT \in Nat /\ at[p] \in Nat /\ Sound(work) /\ work.lastUserId \in Nat
      /\ Articles \in Nat /\ DemoThread \in Nat
  BY BootAssumption DEF WipeOrder, BootInv, BootTypeOK, Database
<1>2. CASE BeginSeed(p)
  BY <1>2, BeginKeepsInv DEF BeginSeed, BootInv, BootTypeOK
<1>3. Throw(p) => BootInv'
  BY RollBackKeepsInv DEF Throw, BootInv, BootTypeOK
<1>4. CASE SeedUser(p)
  <2> DEFINE id == work.lastUserId + 1
             user == AddUser(work, at[p], FALSE)
  <2>1. writer = p /\ at[p] <= SEED_COUNT + 12
    BY <1>1, <1>4 DEF SeedUser, BootInv, BootTypeOK
  <2>2. Sound(user) /\ id \in Nat
        /\ \A t \in DOMAIN References : References[t] = "users" => ParentExists(user, t, id)
    BY <1>1, AddUserSound
  <2>3. Sound(CustomerData(user, id))
    <3> HIDE DEF user, id
    <3> QED BY <2>2, CustomerDataSound
  <2>4. Throw(p) \/ Statement(p, user) \/ Statement(p, CustomerData(user, id))
    BY <1>4 DEF SeedUser
  <2> HIDE DEF user, id
  <2> QED BY <1>3, <2>1, <2>2, <2>3, <2>4, StatementKeepsInv
<1>5. CASE SeedArticles(p)
  <2> DEFINE db == Attach(work, "kb_articles", 0, 1 .. Articles)
  <2>1. "kb_articles" \in Tables /\ "kb_articles" \notin DOMAIN References
    BY TableNames
  <2>2. 1 .. Articles \in SUBSET Nat /\ IsFiniteSet(1 .. Articles)
    BY <1>1, SmallSets
  <2>3. Sound(db)
    BY <1>1, <2>1, <2>2, AttachSound
  <2>4. Statement(p, db) /\ writer = p /\ at[p] <= SEED_COUNT + 12
    BY <1>1, <1>5 DEF SeedArticles, BootInv, BootTypeOK
  <2> HIDE DEF db
  <2> QED BY <2>3, <2>4, StatementKeepsInv
<1>6. CASE SeedDemo(p)
  <2> DEFINE n == at[p] - 1
             id == work.lastUserId + 1
             thread == IF n = SEED_COUNT + 3 THEN 1 .. DemoThread ELSE 1 .. 1
             user == AddUser(work, n, FALSE)
             subscribed == Attach(user, "subscriptions", id, 1 .. 1)
             asked == Attach(subscribed, "tickets", id, 1 .. 1)
             db == Attach(asked, "ticket_messages", id, thread)
  <2>1. writer = p /\ at[p] <= SEED_COUNT + 12 /\ n \in Nat
    BY <1>1, <1>6 DEF SeedDemo, BootInv, BootTypeOK
  <2>2. Sound(user) /\ id \in Nat
        /\ \A t \in DOMAIN References : References[t] = "users" => ParentExists(user, t, id)
    BY <1>1, <2>1, AddUserSound
  <2>3. thread \in SUBSET Nat /\ IsFiniteSet(thread)
    BY <1>1, SmallSets
  <2>4. 1 .. 1 \in SUBSET Nat /\ IsFiniteSet(1 .. 1) /\ 1 .. 1 # {}
    BY SmallSets
  <2>5. Throw(p) \/ Statement(p, db)
    BY <1>6 DEF SeedDemo
  <2> HIDE DEF user, id, thread
  <2>6. Sound(subscribed) /\ ParentExists(subscribed, "tickets", id)
    BY <2>2, <2>4, SeedTables, AttachSound
  <2> HIDE DEF subscribed
  <2>7. Sound(asked) /\ ParentExists(asked, "ticket_messages", id)
    BY <2>2, <2>4, <2>6, SeedTables, AttachSound
  <2> HIDE DEF asked
  <2>8. Sound(db)
    BY <2>2, <2>3, <2>7, SeedTables, AttachSound
  <2> HIDE DEF db
  <2> QED BY <1>3, <2>1, <2>5, <2>8, StatementKeepsInv
<1>7. CASE CommitSeed(p)
  BY <1>7, CommitKeepsInv DEF CommitSeed, BootInv, BootTypeOK
<1> QED BY <1>2, <1>4, <1>5, <1>6, <1>7

LEMMA ServingKeepsInv ==
    ASSUME BootInv, NEW p \in Processes, Serve(p)
    PROVE  BootInv'
<1>1. Sound(disk) /\ disk.lastUserId \in Nat /\ SEED_COUNT + 1 \in Nat
  BY BootAssumption DEF BootInv, BootTypeOK, Database
<1>2. ASSUME NEW n \in {0, SEED_COUNT + 1}, CreateUser(p, n)
      PROVE  BootInv'
  <2> DEFINE user == AddUser(disk, n, TRUE)
             db == AddLive(user, "audit_log", user.lastUserId)
  <2>1. "audit_log" \in DOMAIN References /\ References["audit_log"] = "users"
    BY DEF References
  <2>2. Sound(user) /\ user.lastUserId \in Nat /\ ParentExists(user, "audit_log", user.lastUserId)
    BY <1>1, <2>1, AddUserSound
  <2>3. Autocommit(p, db) /\ UNCHANGED <<pc, at, read>>
    BY <1>2 DEF CreateUser
  <2> HIDE DEF user
  <2>4. Sound(db)
    BY <2>1, <2>2, AddLiveSound
  <2> HIDE DEF db
  <2> QED BY <2>3, <2>4, AutocommitKeepsInv DEF BootInv, BootTypeOK
<1>3. ASSUME NEW t \in {"refunds", "ticket_messages"}, ReadParent(p, t)
      PROVE  BootInv'
  <2>1. PICK r \in disk.rows[References[t]] : read' = [read EXCEPT ![p] = r.of]
    BY <1>3 DEF ReadParent
  <2>2. t \in DOMAIN References /\ References[t] \in Tables
    BY TableNames
  <2>3. r.of \in Nat
    BY <1>1, <2>1, <2>2 DEF Sound, Database, RowType
  <2>4. read' \in [Processes -> Nat \cup {None}]
    BY <2>1, <2>3 DEF BootInv, BootTypeOK
  <2> QED BY <1>3, <2>4, GotoKeepsInv DEF ReadParent, BootInv, BootTypeOK
<1>4. CASE WriteChild(p)
  <2>1. read' \in [Processes -> Nat \cup {None}] /\ Goto(p, "ready") /\ at' = at
        /\ pc[p] \in {"refunds", "ticket_messages"}
    BY <1>4 DEF WriteChild, BootInv, BootTypeOK
  <2>2. CASE ~ ParentExists(disk, pc[p], read[p])
    BY <1>4, <2>1, <2>2, GotoKeepsInv DEF WriteChild, BootInv, BootTypeOK
  <2>3. CASE ParentExists(disk, pc[p], read[p])
    <3> DEFINE db == IF pc[p] = "refunds" THEN InsertRefund(disk, read[p])
                     ELSE AddLive(disk, "ticket_messages", read[p])
    <3>1. Autocommit(p, db)
      BY <1>4, <2>3 DEF WriteChild
    <3>2. pc[p] \in DOMAIN References /\ References[pc[p]] \in Tables
      BY <2>1, TableNames
    <3>3. read[p] \in Nat
      BY <1>1, <2>3, <3>2 DEF ParentExists, Sound, Database, RowType
    <3>4. Sound(db)
      BY <1>1, <2>1, <2>3, <3>2, <3>3, InsertRefundSound, AddLiveSound
    <3> HIDE DEF db
    <3>5. /\ pc' \in [Processes -> {"down", "threw", "creating", "wiping", "wiped", "empty",
                                    "seeding", "ready", "refunds", "ticket_messages"}]
          /\ \A q \in Processes :
               pc'[q] = pc[q] \/ {pc[q], pc'[q]} \cap {"wiping", "seeding"} = {}
      BY <2>1 DEF Goto, BootInv, BootTypeOK
    <3> QED BY <2>1, <3>1, <3>4, <3>5, AutocommitKeepsInv
  <2> QED BY <2>2, <2>3
<1> QED BY <1>2, <1>3, <1>4 DEF Serve

LEMMA BootStepKeepsInv == BootInv /\ [Next]_vars => BootInv'
<1> SUFFICES ASSUME BootInv, [Next]_vars PROVE BootInv'
  OBVIOUS
<1>1. ASSUME NEW p \in Processes, Start(p) \/ BootStep(p)
      PROVE  BootInv'
  BY <1>1, CreatingKeepsInv, WipingKeepsInv, SeedingKeepsInv DEF BootStep
<1>2. ASSUME NEW p \in Processes, Crash(p)
      PROVE  BootInv'
  BY <1>2, RollBackKeepsInv DEF Crash, BootInv, BootTypeOK
<1>3. ASSUME NEW p \in Processes, Serve(p)
      PROVE  BootInv'
  BY <1>3, ServingKeepsInv
<1>4. CASE UNCHANGED vars
  BY <1>4 DEF vars, BootInv, BootTypeOK
<1> QED BY <1>1, <1>2, <1>3, <1>4 DEF Next

LEMMA BootStarts == Init => BootInv
<1> SUFFICES ASSUME Init PROVE BootInv
  OBVIOUS
<1>1. SEED_COUNT \in Nat /\ None \notin Processes /\ 1 \in 1 .. SEED_COUNT + Len(WipeOrder) + 5
  BY BootAssumption DEF WipeOrder
<1>2. disk \in Database /\ \A t \in Tables : disk.rows[t] = {}
  BY DEF Init, Database
<1>3. BootTypeOK
  BY <1>1, <1>2 DEF Init, BootTypeOK
<1>4. IsFiniteSet({})
  BY FS_EmptySet
<1>5. Sound(disk)
  BY <1>2, <1>4, TableNames DEF Sound
<1> QED BY <1>3, <1>5 DEF BootInv, Init

\* Types, and the write lock: the transaction that is open is the one of the only process
\* that is in the middle of a wipe or of a seed.
THEOREM BootTyped == Spec => []BootTypeOK
<1>1. BootInv => BootTypeOK
  BY DEF BootInv
<1> QED BY <1>1, BootStarts, BootStepKeepsInv, PTL DEF Spec

\* However many processes wipe, seed and serve, and wherever they die, no committed row
\* refers to one that is gone.
THEOREM ReferencesAlwaysHold == Spec => []ReferencesHold
<1>1. BootInv => ReferencesHold
  BY DEF BootInv, Sound, ReferencesHold
<1> QED BY <1>1, BootStarts, BootStepKeepsInv, PTL DEF Spec

-----------------------------------------------------------------------------
(* A seed that is under way: what it has written, and what adding to it does *)

SeededIn(db, t) == {r \in db.rows[t] : ~ r.live}
Owners(db, t) == {r.of : r \in SeededIn(db, t)}
NumberedIn(db, t, id) == Cardinality({r \in SeededIn(db, t) : r.of = id})
Unseeded(db) == \A t \in Tables : SeededIn(db, t) = {}

\* The customers and demo users among the first n users of a seed.
Customers(first, n) == {id \in SeedCustomers(first) : id <= first + n}
Demos(first, n) == {id \in DemoUsers(first) : id <= first + n}
Every(period, ids) == {id \in ids : (id \div 4) % period = 0}

\* A seed that has written its first n users, what hangs on them, and these articles.
SeedSoFar(db, first, n, articles) ==
    /\ SeededIn(db, "users") = {Row(first + i, i, FALSE) : i \in 1 .. n}
    /\ SeededIn(db, "kb_articles") = articles
    /\ SeededIn(db, "audit_log") = {}
    /\ Owners(db, "subscriptions") = Customers(first, n) \cup Demos(first, n)
    /\ Owners(db, "tickets") = Every(TicketEvery, Customers(first, n)) \cup Demos(first, n)
    /\ Owners(db, "ticket_messages") = Owners(db, "tickets")
    /\ Owners(db, "refunds") = Every(RefundEvery, Customers(first, n))
    /\ Owners(db, "transactions") \subseteq Customers(first, n)
    /\ \A id \in Customers(first, n) :
         NumberedIn(db, "transactions", id) = ((id \div 4) % 4) + NumberedIn(db, "refunds", id)

AllArticles == Rows(0, 1 .. Articles)
WholeSeed(db, first) == SeedSoFar(db, first, SEED_COUNT + 3, AllArticles)

LEMMA RowsCounted ==
    ASSUME NEW of, NEW ns, IsFiniteSet(ns)
    PROVE  Cardinality(Rows(of, ns)) = Cardinality(ns)
<1> DEFINE f == [n \in ns |-> Row(of, n, FALSE)]
<1>1. f \in Bijection(ns, Rows(of, ns))
  <2>1. f \in [ns -> Rows(of, ns)]
    BY DEF Rows
  <2>2. \A a, b \in ns : f[a] = f[b] => a = b
    BY DEF Row
  <2>3. \A r \in Rows(of, ns) : \E a \in ns : f[a] = r
    BY DEF Rows
  <2> HIDE DEF f
  <2>4. f \in Injection(ns, Rows(of, ns))
    BY <2>1, <2>2 DEF Injection, IsInjective
  <2>5. f \in Surjection(ns, Rows(of, ns))
    BY <2>1, <2>3 DEF Surjection
  <2> QED BY <2>4, <2>5 DEF Bijection
<1> HIDE DEF f
<1>2. ExistsBijection(ns, Rows(of, ns))
  BY <1>1 DEF ExistsBijection
<1> QED BY <1>2, FS_Bijection

\* Seeded rows added to one table: who has some there, and how many.
Gains(new, db, t, of, ns) == new.rows[t] = db.rows[t] \cup Rows(of, ns)
OnlyGains(new, db, t, of) == \A o : o # of => NumberedIn(new, t, o) = NumberedIn(db, t, o)
Holder(of, ns) == IF ns = {} THEN {} ELSE {of}

LEMMA SeededRowsAdded ==
    ASSUME NEW db, NEW new, NEW t, NEW of, NEW ns,
           Gains(new, db, t, of, ns)
    PROVE  SeededIn(new, t) = SeededIn(db, t) \cup Rows(of, ns)
<1>1. \A r \in Rows(of, ns) : r.live = FALSE
  BY DEF Rows, Row
<1> QED BY <1>1 DEF SeededIn, Gains

LEMMA OwnersAdded ==
    ASSUME NEW db, NEW new, NEW t, NEW of, NEW ns,
           Gains(new, db, t, of, ns)
    PROVE  Owners(new, t) = Owners(db, t) \cup Holder(of, ns)
<1>1. \A r \in Rows(of, ns) : r.of = of
  BY DEF Rows, Row
<1>2. ns = {} <=> Rows(of, ns) = {}
  BY DEF Rows
<1>3. SeededIn(new, t) = SeededIn(db, t) \cup Rows(of, ns)
  BY SeededRowsAdded
<1> QED BY <1>1, <1>2, <1>3 DEF Owners, Holder

LEMMA OthersNumbered ==
    ASSUME NEW db, NEW new, NEW t, NEW of, NEW ns,
           Gains(new, db, t, of, ns)
    PROVE  OnlyGains(new, db, t, of)
<1> SUFFICES ASSUME NEW o, o # of PROVE NumberedIn(new, t, o) = NumberedIn(db, t, o)
  BY DEF OnlyGains
<1>1. \A r \in Rows(of, ns) : r.of = of
  BY DEF Rows, Row
<1>2. SeededIn(new, t) = SeededIn(db, t) \cup Rows(of, ns)
  BY SeededRowsAdded
<1>3. {r \in SeededIn(new, t) : r.of = o} = {r \in SeededIn(db, t) : r.of = o}
  BY <1>1, <1>2
<1> QED BY <1>3 DEF NumberedIn

LEMMA AddedNumbered ==
    ASSUME NEW db, NEW new, NEW t, NEW of, NEW ns,
           Gains(new, db, t, of, ns), of \notin Owners(db, t), IsFiniteSet(ns)
    PROVE  NumberedIn(new, t, of) = Cardinality(ns)
<1>1. \A r \in Rows(of, ns) : r.of = of
  BY DEF Rows, Row
<1>2. SeededIn(new, t) = SeededIn(db, t) \cup Rows(of, ns)
  BY SeededRowsAdded
<1>3. {r \in SeededIn(new, t) : r.of = of} = Rows(of, ns)
  BY <1>1, <1>2 DEF Owners
<1> QED BY <1>3, RowsCounted DEF NumberedIn

Attached(new, db, t, of, ns) ==
    /\ new \in Database /\ new.lastUserId = db.lastUserId
    /\ new.rows[t] = db.rows[t] \cup Rows(of, ns)
    /\ \A u \in Tables : u # t => new.rows[u] = db.rows[u]

LEMMA AttachAdds ==
    ASSUME NEW db \in Database, NEW t \in Tables, NEW of \in Nat, NEW ns \in SUBSET Nat
    PROVE  Attached(Attach(db, t, of, ns), db, t, of, ns)
<1> DEFINE rows == Rows(of, ns)
<1>1. rows \in SUBSET RowType
  <2>1. \A n \in ns : Row(of, n, FALSE) \in RowType
    BY DEF Row, RowType
  <2> QED BY <2>1 DEF Rows
<1>2. Attach(db, t, of, ns) = Insert(db, t, rows)
  BY DEF Attach
<1> HIDE DEF rows
<1>3. /\ Insert(db, t, rows) \in Database
      /\ Insert(db, t, rows).lastUserId = db.lastUserId
      /\ Insert(db, t, rows).rows[t] = db.rows[t] \cup rows
      /\ \A u \in Tables : u # t => Insert(db, t, rows).rows[u] = db.rows[u]
  BY <1>1 DEF Insert, Database
<1> QED BY <1>2, <1>3 DEF rows, Attached

LEMMA AddUserAdds ==
    ASSUME NEW db \in Database, NEW n \in Nat, NEW live \in BOOLEAN
    PROVE  /\ AddUser(db, n, live) \in Database
           /\ AddUser(db, n, live).lastUserId = db.lastUserId + 1
           /\ AddUser(db, n, live).rows["users"]
                = db.rows["users"] \cup {Row(db.lastUserId + 1, n, live)}
           /\ \A u \in Tables : u # "users" => AddUser(db, n, live).rows[u] = db.rows[u]
<1> DEFINE row == Row(db.lastUserId + 1, n, live)
           ins == Insert(db, "users", {row})
<1>1. row \in RowType
  BY DEF Row, RowType, Database
<1>2. "users" \in Tables
  BY TableNames
<1>3. AddUser(db, n, live) = [ins EXCEPT !.lastUserId = @ + 1]
  BY DEF AddUser
<1> HIDE DEF row
<1>4. /\ ins \in Database /\ ins.lastUserId = db.lastUserId
      /\ ins.rows["users"] = db.rows["users"] \cup {row}
      /\ \A u \in Tables : u # "users" => ins.rows[u] = db.rows[u]
  BY <1>1, <1>2 DEF Insert, Database
<1> HIDE DEF ins
<1>5. /\ [ins EXCEPT !.lastUserId = @ + 1] \in Database
      /\ [ins EXCEPT !.lastUserId = @ + 1].lastUserId = ins.lastUserId + 1
      /\ [ins EXCEPT !.lastUserId = @ + 1].rows = ins.rows
  BY <1>4 DEF Database
<1> QED BY <1>3, <1>4, <1>5 DEF row

\* A table that a step leaves alone, or adds live rows to, shows the same seed.
LEMMA SameSeed ==
    ASSUME NEW db, NEW new, NEW t, SeededIn(new, t) = SeededIn(db, t)
    PROVE  /\ Owners(new, t) = Owners(db, t)
           /\ \A o : NumberedIn(new, t, o) = NumberedIn(db, t, o)
BY DEF Owners, NumberedIn

\* The number, if any, of what one customer in every so many gets.
Once(period, id) == IF (id \div 4) % period = 0 THEN 1 .. 1 ELSE {}

LEMMA OnceCounted ==
    ASSUME NEW period, NEW id
    PROVE  /\ Once(period, id) \in SUBSET Nat /\ IsFiniteSet(Once(period, id))
           /\ Cardinality(Once(period, id)) \in Nat
           /\ Once(period, id) = {} <=> (id \div 4) % period # 0
<1>1. Once(period, id) \in SUBSET Nat /\ IsFiniteSet(Once(period, id))
  BY SmallSets DEF Once
<1>2. Cardinality(Once(period, id)) \in Nat
  BY <1>1, FS_CardinalityType
<1>3. Once(period, id) = {} <=> (id \div 4) % period # 0
  BY DEF Once
<1> QED BY <1>1, <1>2, <1>3

LEMMA CustomerAdds ==
    ASSUME NEW db \in Database, NEW id \in Nat
    PROVE  /\ CustomerData(db, id) \in Database
           /\ CustomerData(db, id).lastUserId = db.lastUserId
           /\ \A t \in {"users", "kb_articles", "audit_log"} :
                CustomerData(db, id).rows[t] = db.rows[t]
           /\ CustomerData(db, id).rows["subscriptions"]
                = db.rows["subscriptions"] \cup Rows(id, 1 .. 1)
           /\ CustomerData(db, id).rows["tickets"]
                = db.rows["tickets"] \cup Rows(id, Once(TicketEvery, id))
           /\ \E said \in SUBSET Nat :
                /\ said = {} <=> Once(TicketEvery, id) = {}
                /\ CustomerData(db, id).rows["ticket_messages"]
                     = db.rows["ticket_messages"] \cup Rows(id, said)
           /\ CustomerData(db, id).rows["refunds"]
                = db.rows["refunds"] \cup Rows(id, Once(RefundEvery, id))
           /\ CustomerData(db, id).rows["transactions"]
                = db.rows["transactions"]
                    \cup Rows(id, 1 .. ((id \div 4) % 4) + Cardinality(Once(RefundEvery, id)))
<1> DEFINE c == id \div 4
           ticket == Once(TicketEvery, id)
           answer == IF ticket # {} /\ c % AnswerEvery = 0 THEN 2 .. 2 ELSE {}
           refund == Once(RefundEvery, id)
           ledger == 1 .. (c % 4) + Cardinality(refund)
           said == ticket \cup answer
           paid == Attach(db, "transactions", id, ledger)
           subscribed == Attach(paid, "subscriptions", id, 1 .. 1)
           asked == Attach(subscribed, "tickets", id, ticket)
           answered == Attach(asked, "ticket_messages", id, said)
           new == Attach(answered, "refunds", id, refund)
<1>1. CustomerData(db, id) = new
  BY DEF CustomerData, Once
<1>2. /\ Cardinality(refund) \in Nat /\ c % 4 \in Nat
      /\ refund \in SUBSET Nat /\ ticket \in SUBSET Nat
  BY OnceCounted
<1>3. said \in SUBSET Nat /\ (said = {} <=> ticket = {}) /\ 1 .. 1 \in SUBSET Nat
      /\ ledger \in SUBSET Nat
  BY <1>2, SmallSets
<1>4. Tables = {"users", "audit_log", "transactions", "subscriptions", "tickets",
                "ticket_messages", "refunds", "kb_articles"}
  BY TableNames
<1>5. {"transactions", "subscriptions", "tickets", "ticket_messages", "refunds"} \subseteq Tables
  BY <1>4
<1> HIDE DEF ledger, ticket, refund, said
<1>6. Attached(paid, db, "transactions", id, ledger)
  BY <1>3, <1>5, AttachAdds
<1>7. paid \in Database
  BY <1>6 DEF Attached
<1> HIDE DEF paid
<1>8. Attached(subscribed, paid, "subscriptions", id, 1 .. 1)
  BY <1>3, <1>5, <1>7, AttachAdds
<1>9. subscribed \in Database
  BY <1>8 DEF Attached
<1> HIDE DEF subscribed
<1>10. Attached(asked, subscribed, "tickets", id, ticket)
  BY <1>2, <1>5, <1>9, AttachAdds
<1>11. asked \in Database
  BY <1>10 DEF Attached
<1> HIDE DEF asked
<1>12. Attached(answered, asked, "ticket_messages", id, said)
  BY <1>3, <1>5, <1>11, AttachAdds
<1>13. answered \in Database
  BY <1>12 DEF Attached
<1> HIDE DEF answered
<1>14. Attached(new, answered, "refunds", id, refund)
  BY <1>2, <1>5, <1>13, AttachAdds
<1> HIDE DEF new
<1>15. /\ new.rows["transactions"] = db.rows["transactions"] \cup Rows(id, ledger)
       /\ new.rows["subscriptions"] = db.rows["subscriptions"] \cup Rows(id, 1 .. 1)
       /\ new.rows["tickets"] = db.rows["tickets"] \cup Rows(id, ticket)
       /\ new.rows["ticket_messages"] = db.rows["ticket_messages"] \cup Rows(id, said)
       /\ new.rows["refunds"] = db.rows["refunds"] \cup Rows(id, refund)
       /\ \A t \in {"users", "kb_articles", "audit_log"} : new.rows[t] = db.rows[t]
  BY <1>4, <1>6, <1>8, <1>10, <1>12, <1>14 DEF Attached
<1>16. new \in Database /\ new.lastUserId = db.lastUserId
  BY <1>6, <1>8, <1>10, <1>12, <1>14 DEF Attached
<1> QED BY <1>1, <1>3, <1>15, <1>16 DEF ledger, ticket, refund

\* The next user of a seed, and which kind of user that is.
Aligned(first) == SEED_COUNT = 0 \/ first % 4 = 0

LEMMA UsersGrow ==
    ASSUME NEW first \in Nat, NEW k \in Nat
    PROVE  {Row(first + i, i, FALSE) : i \in 1 .. k} \cup Rows(first + k + 1, {k + 1})
             = {Row(first + i, i, FALSE) : i \in 1 .. k + 1}
<1>1. \A i : i \in 1 .. k + 1 <=> i \in 1 .. k \/ i = k + 1
  OBVIOUS
<1>2. first + (k + 1) = first + k + 1
  OBVIOUS
<1>3. Rows(first + k + 1, {k + 1}) = {Row(first + k + 1, k + 1, FALSE)}
  BY DEF Rows
<1> QED BY <1>1, <1>2, <1>3

LEMMA CustomersGrow ==
    ASSUME NEW first \in Nat, NEW k \in Nat, Aligned(first)
    PROVE  /\ first + k + 1 \notin Customers(first, k)
           /\ k + 1 <= SEED_COUNT =>
                /\ Demos(first, k) = {} /\ Demos(first, k + 1) = {}
                /\ (first + k + 1) % 4 = (k + 1) % 4
                /\ (k + 1) % 4 # 0 => Customers(first, k + 1) = Customers(first, k)
                /\ (k + 1) % 4 = 0 =>
                     Customers(first, k + 1) = Customers(first, k) \cup {first + k + 1}
           /\ k + 1 \in SEED_COUNT + 1 .. SEED_COUNT + 3 =>
                /\ Customers(first, k + 1) = Customers(first, k)
                /\ Demos(first, k + 1) = Demos(first, k) \cup {first + k + 1}
<1>1. SEED_COUNT \in Nat
  BY BootAssumption
<1>2. first + k + 1 \notin Customers(first, k)
  BY DEF Customers
<1>3. ASSUME k + 1 <= SEED_COUNT
      PROVE  /\ Demos(first, k) = {} /\ Demos(first, k + 1) = {}
             /\ (first + k + 1) % 4 = (k + 1) % 4
  BY <1>1, <1>3 DEF Demos, DemoUsers, Aligned
<1>4. ASSUME k + 1 <= SEED_COUNT, (k + 1) % 4 # 0
      PROVE  Customers(first, k + 1) = Customers(first, k)
  <2>1. (first + k + 1) % 4 # 0
    BY <1>3, <1>4
  <2>2. \A id \in Int : id <= first + (k + 1) <=> id <= first + k \/ id = first + k + 1
    OBVIOUS
  <2> QED BY <1>1, <2>1, <2>2 DEF Customers, SeedCustomers
<1>5. ASSUME k + 1 <= SEED_COUNT, (k + 1) % 4 = 0
      PROVE  Customers(first, k + 1) = Customers(first, k) \cup {first + k + 1}
  <2>1. (first + k + 1) % 4 = 0
    BY <1>3, <1>5
  <2>2. \A id \in Int : id <= first + (k + 1) <=> id <= first + k \/ id = first + k + 1
    OBVIOUS
  <2>3. first + k + 1 \in first + 1 .. first + SEED_COUNT
    BY <1>1, <1>5
  <2> QED BY <1>1, <2>1, <2>2, <2>3 DEF Customers, SeedCustomers
<1>6. ASSUME k + 1 \in SEED_COUNT + 1 .. SEED_COUNT + 3
      PROVE  /\ Customers(first, k + 1) = Customers(first, k)
             /\ Demos(first, k + 1) = Demos(first, k) \cup {first + k + 1}
  <2>1. \A id \in Int : id <= first + (k + 1) <=> id <= first + k \/ id = first + k + 1
    OBVIOUS
  <2>2. first + k + 1 \in first + SEED_COUNT + 1 .. first + SEED_COUNT + 3
    BY <1>1, <1>6
  <2>3. Customers(first, k + 1) = Customers(first, k)
    BY <1>1, <1>6 DEF Customers, SeedCustomers
  <2> QED BY <1>1, <2>1, <2>2, <2>3 DEF Demos, DemoUsers
<1> QED BY <1>2, <1>3, <1>4, <1>5, <1>6

LEMMA SeedUserAdds ==
    ASSUME NEW db \in Database, NEW first \in Nat, NEW k \in Nat, NEW articles,
           SeedSoFar(db, first, k, articles), db.lastUserId = first + k
    PROVE  LET new == AddUser(db, k + 1, FALSE) IN
           /\ new \in Database /\ new.lastUserId = first + k + 1
           /\ SeededIn(new, "users") = {Row(first + i, i, FALSE) : i \in 1 .. k + 1}
           /\ LiveRows(new, "users") = LiveRows(db, "users")
           /\ \A t \in Tables \ {"users"} :
                /\ SeededIn(new, t) = SeededIn(db, t)
                /\ Owners(new, t) = Owners(db, t)
                /\ \A o : NumberedIn(new, t, o) = NumberedIn(db, t, o)
<1> DEFINE new == AddUser(db, k + 1, FALSE)
           row == Row(first + k + 1, k + 1, FALSE)
<1>1. /\ new \in Database /\ new.lastUserId = first + k + 1
      /\ new.rows["users"] = db.rows["users"] \cup {row}
      /\ \A t \in Tables : t # "users" => new.rows[t] = db.rows[t]
  <2>1. db.lastUserId + 1 = first + k + 1 /\ k + 1 \in Nat
    OBVIOUS
  <2>2. /\ new \in Database /\ new.lastUserId = db.lastUserId + 1
        /\ new.rows["users"] = db.rows["users"] \cup {Row(db.lastUserId + 1, k + 1, FALSE)}
        /\ \A t \in Tables : t # "users" => new.rows[t] = db.rows[t]
    BY <2>1, AddUserAdds
  <2> HIDE DEF new
  <2> QED BY <2>1, <2>2
<1> HIDE DEF new
<1>2. Rows(first + k + 1, {k + 1}) = {row}
  BY DEF Rows
<1>3. SeededIn(new, "users") = SeededIn(db, "users") \cup Rows(first + k + 1, {k + 1})
  <2>1. row.live = FALSE
    BY DEF Row
  <2> QED BY <1>1, <1>2, <2>1 DEF SeededIn
<1>4. SeededIn(new, "users") = {Row(first + i, i, FALSE) : i \in 1 .. k + 1}
  BY <1>3, UsersGrow DEF SeedSoFar
<1>5. LiveRows(new, "users") = LiveRows(db, "users")
  BY <1>1 DEF LiveRows, Row
<1>6. \A t \in Tables \ {"users"} : SeededIn(new, t) = SeededIn(db, t)
  BY <1>1 DEF SeededIn
<1>7. \A t \in Tables \ {"users"} :
        /\ Owners(new, t) = Owners(db, t)
        /\ \A o : NumberedIn(new, t, o) = NumberedIn(db, t, o)
  BY <1>6, SameSeed
<1> QED BY <1>1, <1>4, <1>5, <1>6, <1>7 DEF new

\* Three iterations of four write a users row and nothing else.
LEMMA PlainUserSeeded ==
    ASSUME NEW db \in Database, NEW first \in Nat, NEW k \in Nat, NEW articles,
           SeedSoFar(db, first, k, articles), db.lastUserId = first + k,
           Aligned(first), k + 1 <= SEED_COUNT, (k + 1) % 4 # 0
    PROVE  SeedSoFar(AddUser(db, k + 1, FALSE), first, k + 1, articles)
<1> DEFINE new == AddUser(db, k + 1, FALSE)
<1>1. /\ Customers(first, k + 1) = Customers(first, k)
      /\ Demos(first, k + 1) = Demos(first, k)
  BY CustomersGrow
<1>2. /\ SeededIn(new, "users") = {Row(first + i, i, FALSE) : i \in 1 .. k + 1}
      /\ \A t \in Tables \ {"users"} :
           /\ SeededIn(new, t) = SeededIn(db, t)
           /\ Owners(new, t) = Owners(db, t)
           /\ \A o : NumberedIn(new, t, o) = NumberedIn(db, t, o)
  BY SeedUserAdds
<1> HIDE DEF new
<1>3. SeedSoFar(new, first, k + 1, articles)
  BY <1>1, <1>2, TableNames DEF SeedSoFar
<1> QED BY <1>3 DEF new

LEMMA EveryGrows ==
    ASSUME NEW period, NEW C, NEW id
    PROVE  Every(period, C \cup {id})
             = Every(period, C) \cup Holder(id, Once(period, id))
<1>1. Once(period, id) = {} <=> (id \div 4) % period # 0
  BY OnceCounted
<1> QED BY <1>1 DEF Every, Holder

\* What a customer's rows change in what is seeded.
LEMMA CustomerShows ==
    ASSUME NEW user \in Database, NEW id \in Nat, NEW new, new = CustomerData(user, id)
    PROVE  /\ \A t \in {"users", "kb_articles", "audit_log"} :
                SeededIn(new, t) = SeededIn(user, t)
           /\ Owners(new, "subscriptions") = Owners(user, "subscriptions") \cup {id}
           /\ Owners(new, "tickets")
                = Owners(user, "tickets") \cup Holder(id, Once(TicketEvery, id))
           /\ Owners(new, "ticket_messages")
                = Owners(user, "ticket_messages") \cup Holder(id, Once(TicketEvery, id))
           /\ Owners(new, "refunds")
                = Owners(user, "refunds") \cup Holder(id, Once(RefundEvery, id))
           /\ Owners(new, "transactions") \subseteq Owners(user, "transactions") \cup {id}
           /\ OnlyGains(new, user, "refunds", id)
           /\ OnlyGains(new, user, "transactions", id)
           /\ id \notin Owners(user, "refunds") /\ id \notin Owners(user, "transactions")
                => NumberedIn(new, "transactions", id)
                     = ((id \div 4) % 4) + NumberedIn(new, "refunds", id)
<1> DEFINE refund == Once(RefundEvery, id)
           m == ((id \div 4) % 4) + Cardinality(refund)
           ledger == 1 .. m
<1>1. m \in Nat /\ IsFiniteSet(refund)
  BY OnceCounted
<1> HIDE DEF m, refund
<1>2. IsFiniteSet(ledger) /\ Cardinality(ledger) = m
  BY <1>1, FS_Interval
<1>3. PICK said \in SUBSET Nat :
        /\ said = {} <=> Once(TicketEvery, id) = {}
        /\ new.rows["ticket_messages"] = user.rows["ticket_messages"] \cup Rows(id, said)
  BY CustomerAdds
<1>4. /\ \A t \in {"users", "kb_articles", "audit_log"} : new.rows[t] = user.rows[t]
      /\ new.rows["subscriptions"] = user.rows["subscriptions"] \cup Rows(id, 1 .. 1)
      /\ new.rows["tickets"] = user.rows["tickets"] \cup Rows(id, Once(TicketEvery, id))
      /\ new.rows["refunds"] = user.rows["refunds"] \cup Rows(id, refund)
      /\ new.rows["transactions"] = user.rows["transactions"] \cup Rows(id, ledger)
  BY CustomerAdds DEF m, refund
<1> HIDE DEF ledger
<1>5. Gains(new, user, "subscriptions", id, 1 .. 1)
  BY <1>4 DEF Gains
<1>6. Gains(new, user, "tickets", id, Once(TicketEvery, id))
  BY <1>4 DEF Gains
<1>7. Gains(new, user, "ticket_messages", id, said)
  BY <1>3 DEF Gains
<1>8. Gains(new, user, "refunds", id, refund)
  BY <1>4 DEF Gains
<1>9. Gains(new, user, "transactions", id, ledger)
  BY <1>4 DEF Gains
<1>10. \A t \in {"users", "kb_articles", "audit_log"} : SeededIn(new, t) = SeededIn(user, t)
  BY <1>4 DEF SeededIn
<1>11. Owners(new, "subscriptions") = Owners(user, "subscriptions") \cup {id}
  <2>1. Owners(new, "subscriptions")
          = Owners(user, "subscriptions") \cup Holder(id, 1 .. 1)
    BY <1>5, OwnersAdded
  <2> QED BY <2>1, SmallSets DEF Holder
<1>12. /\ Owners(new, "tickets")
            = Owners(user, "tickets") \cup Holder(id, Once(TicketEvery, id))
       /\ Owners(new, "ticket_messages")
            = Owners(user, "ticket_messages")
                \cup Holder(id, Once(TicketEvery, id))
  <2>1. Owners(new, "tickets")
          = Owners(user, "tickets") \cup Holder(id, Once(TicketEvery, id))
    BY <1>6, OwnersAdded
  <2>2. Owners(new, "ticket_messages")
          = Owners(user, "ticket_messages") \cup Holder(id, said)
    BY <1>7, OwnersAdded
  <2> QED BY <1>3, <2>1, <2>2 DEF Holder
<1>13. /\ Owners(new, "refunds")
            = Owners(user, "refunds") \cup Holder(id, refund)
       /\ OnlyGains(new, user, "refunds", id)
       /\ id \notin Owners(user, "refunds")
            => NumberedIn(new, "refunds", id) = Cardinality(refund)
  <2>1. Owners(new, "refunds")
          = Owners(user, "refunds") \cup Holder(id, refund)
    BY <1>8, OwnersAdded
  <2>2. OnlyGains(new, user, "refunds", id)
    BY <1>8, OthersNumbered
  <2>3. id \notin Owners(user, "refunds")
          => NumberedIn(new, "refunds", id) = Cardinality(refund)
    BY <1>1, <1>8, AddedNumbered
  <2> QED BY <2>1, <2>2, <2>3
<1>14. /\ Owners(new, "transactions")
            = Owners(user, "transactions") \cup Holder(id, ledger)
       /\ OnlyGains(new, user, "transactions", id)
       /\ id \notin Owners(user, "transactions") => NumberedIn(new, "transactions", id) = m
  <2>1. Owners(new, "transactions")
          = Owners(user, "transactions") \cup Holder(id, ledger)
    BY <1>9, OwnersAdded
  <2>2. OnlyGains(new, user, "transactions", id)
    BY <1>9, OthersNumbered
  <2>3. id \notin Owners(user, "transactions")
          => NumberedIn(new, "transactions", id) = Cardinality(ledger)
    BY <1>2, <1>9, AddedNumbered
  <2> QED BY <1>2, <2>1, <2>2, <2>3
<1>15. ASSUME id \notin Owners(user, "refunds"), id \notin Owners(user, "transactions")
       PROVE  NumberedIn(new, "transactions", id)
                = ((id \div 4) % 4) + NumberedIn(new, "refunds", id)
  <2>1. /\ NumberedIn(new, "transactions", id) = m
        /\ NumberedIn(new, "refunds", id) = Cardinality(refund)
    BY <1>13, <1>14, <1>15
  <2>2. m = ((id \div 4) % 4) + Cardinality(refund)
    BY DEF m
  <2> QED BY <2>1, <2>2
<1>16. Owners(new, "transactions") \subseteq Owners(user, "transactions") \cup {id}
  BY <1>14 DEF Holder
<1> QED BY <1>10, <1>11, <1>12, <1>13, <1>14, <1>15, <1>16 DEF refund

\* Every fourth is a customer, with all that hangs on one.
LEMMA CustomerSeeded ==
    ASSUME NEW db \in Database, NEW first \in Nat, NEW k \in Nat, NEW articles,
           SeedSoFar(db, first, k, articles), db.lastUserId = first + k,
           Aligned(first), k + 1 <= SEED_COUNT, (k + 1) % 4 = 0
    PROVE  SeedSoFar(CustomerData(AddUser(db, k + 1, FALSE), db.lastUserId + 1),
                     first, k + 1, articles)
<1> DEFINE user == AddUser(db, k + 1, FALSE)
           id == db.lastUserId + 1
           new == CustomerData(user, id)
           C == Customers(first, k)
           tickets == Holder(id, Once(TicketEvery, id))
           refunds == Holder(id, Once(RefundEvery, id))
<1>1. /\ id \notin C
      /\ Customers(first, k + 1) = C \cup {id}
      /\ Demos(first, k) = {} /\ Demos(first, k + 1) = {}
  <2>1. id = first + k + 1
    OBVIOUS
  <2> HIDE DEF id
  <2> QED BY <2>1, CustomersGrow
<1>2. /\ user \in Database
      /\ SeededIn(user, "users") = {Row(first + i, i, FALSE) : i \in 1 .. k + 1}
      /\ \A t \in Tables \ {"users"} :
           /\ SeededIn(user, t) = SeededIn(db, t)
           /\ Owners(user, t) = Owners(db, t)
           /\ \A o : NumberedIn(user, t, o) = NumberedIn(db, t, o)
  BY SeedUserAdds
<1>3. id \in Nat
  BY DEF Database
<1>5. /\ SeededIn(user, "kb_articles") = articles /\ SeededIn(user, "audit_log") = {}
      /\ Owners(user, "subscriptions") = C
      /\ Owners(user, "tickets") = Every(TicketEvery, C)
      /\ Owners(user, "ticket_messages") = Owners(user, "tickets")
      /\ Owners(user, "refunds") = Every(RefundEvery, C)
      /\ Owners(user, "transactions") \subseteq C
      /\ \A o \in C : NumberedIn(user, "transactions", o)
                        = ((o \div 4) % 4) + NumberedIn(user, "refunds", o)
  BY <1>1, <1>2, TableNames DEF SeedSoFar
<1> HIDE DEF user, id, C
<1>4. /\ Every(TicketEvery, C \cup {id}) = Every(TicketEvery, C) \cup tickets
      /\ Every(RefundEvery, C \cup {id}) = Every(RefundEvery, C) \cup refunds
  BY EveryGrows
<1>6. /\ \A t \in {"users", "kb_articles", "audit_log"} : SeededIn(new, t) = SeededIn(user, t)
      /\ Owners(new, "subscriptions") = Owners(user, "subscriptions") \cup {id}
      /\ Owners(new, "tickets") = Owners(user, "tickets") \cup tickets
      /\ Owners(new, "ticket_messages") = Owners(user, "ticket_messages") \cup tickets
      /\ Owners(new, "refunds") = Owners(user, "refunds") \cup refunds
      /\ Owners(new, "transactions") \subseteq Owners(user, "transactions") \cup {id}
      /\ OnlyGains(new, user, "refunds", id) /\ OnlyGains(new, user, "transactions", id)
      /\ id \notin Owners(user, "refunds") /\ id \notin Owners(user, "transactions")
           => NumberedIn(new, "transactions", id)
                = ((id \div 4) % 4) + NumberedIn(new, "refunds", id)
  <2>1. user \in Database
    BY <1>2
  <2> QED BY <1>3, <2>1, CustomerShows
<1>7. id \notin Owners(user, "refunds") /\ id \notin Owners(user, "transactions")
  BY <1>1, <1>5 DEF Every
<1> HIDE DEF new, tickets, refunds
<1>8. \A o \in C \cup {id} :
        NumberedIn(new, "transactions", o) = ((o \div 4) % 4) + NumberedIn(new, "refunds", o)
  <2>1. ASSUME NEW o \in C
        PROVE  NumberedIn(new, "transactions", o)
                 = ((o \div 4) % 4) + NumberedIn(new, "refunds", o)
    <3>1. o # id
      BY <1>1
    <3>2. /\ NumberedIn(new, "transactions", o) = NumberedIn(user, "transactions", o)
          /\ NumberedIn(new, "refunds", o) = NumberedIn(user, "refunds", o)
      BY <3>1, <1>6 DEF OnlyGains
    <3> QED BY <3>2, <1>5
  <2> QED BY <2>1, <1>6, <1>7
<1>9. /\ SeededIn(new, "users") = {Row(first + i, i, FALSE) : i \in 1 .. k + 1}
      /\ SeededIn(new, "kb_articles") = articles /\ SeededIn(new, "audit_log") = {}
      /\ Owners(new, "subscriptions") = C \cup {id}
      /\ Owners(new, "tickets") = Every(TicketEvery, C \cup {id})
      /\ Owners(new, "ticket_messages") = Owners(new, "tickets")
      /\ Owners(new, "refunds") = Every(RefundEvery, C \cup {id})
      /\ Owners(new, "transactions") \subseteq C \cup {id}
  BY <1>2, <1>4, <1>5, <1>6
<1>10. SeedSoFar(new, first, k + 1, articles)
  BY <1>1, <1>8, <1>9 DEF SeedSoFar
<1> QED BY <1>10 DEF new, user, id

LEMMA ArticlesSeeded ==
    ASSUME NEW db \in Database, NEW first \in Nat, NEW k \in Nat, SeedSoFar(db, first, k, {})
    PROVE  LET new == Attach(db, "kb_articles", 0, 1 .. Articles) IN
           /\ SeedSoFar(new, first, k, AllArticles)
           /\ new.rows["users"] = db.rows["users"]
<1> DEFINE all == 1 .. Articles
           new == Attach(db, "kb_articles", 0, all)
<1>1. all \in SUBSET Nat
  OBVIOUS
<1> HIDE DEF all
<1>2. /\ new.rows["kb_articles"] = db.rows["kb_articles"] \cup Rows(0, all)
      /\ \A t \in Tables : t # "kb_articles" => new.rows[t] = db.rows[t]
  <2>1. 0 \in Nat /\ "kb_articles" \in Tables
    BY TableNames
  <2>2. Attached(Attach(db, "kb_articles", 0, all), db, "kb_articles", 0, all)
    BY <1>1, <2>1, AttachAdds
  <2> QED BY <2>2 DEF Attached
<1> HIDE DEF new
<1>3. Gains(new, db, "kb_articles", 0, all)
  BY <1>2 DEF Gains
<1>4. SeededIn(new, "kb_articles") = SeededIn(db, "kb_articles") \cup AllArticles
  BY <1>3, SeededRowsAdded DEF AllArticles, all
<1>5. \A t \in Tables : t # "kb_articles" => SeededIn(new, t) = SeededIn(db, t)
  BY <1>2 DEF SeededIn
<1>6. \A t \in Tables : t # "kb_articles" =>
        /\ Owners(new, t) = Owners(db, t)
        /\ \A o : NumberedIn(new, t, o) = NumberedIn(db, t, o)
  BY <1>5, SameSeed
<1>7. SeedSoFar(new, first, k, AllArticles)
  BY <1>4, <1>5, <1>6, TableNames DEF SeedSoFar
<1> QED BY <1>2, <1>7, TableNames DEF new, all

\* What the seed writes for a demo user besides the users row.
DemoData(user, id, thread) ==
    Attach(Attach(Attach(user, "subscriptions", id, 1 .. 1), "tickets", id, 1 .. 1),
           "ticket_messages", id, thread)

\* What a demo user's rows change in what is seeded.
DemoShown(new, user, id) ==
    /\ new.lastUserId = user.lastUserId
    /\ \A t \in {"users", "kb_articles", "audit_log", "refunds", "transactions"} :
         new.rows[t] = user.rows[t]
    /\ \A t \in {"subscriptions", "tickets", "ticket_messages"} :
         Owners(new, t) = Owners(user, t) \cup {id}

LEMMA DemoShows ==
    ASSUME NEW user \in Database, NEW id \in Nat, NEW thread \in SUBSET Nat, thread # {}
    PROVE  DemoShown(DemoData(user, id, thread), user, id)
<1> DEFINE one == 1 .. 1
           subscribed == Attach(user, "subscriptions", id, one)
           asked == Attach(subscribed, "tickets", id, one)
           new == Attach(asked, "ticket_messages", id, thread)
<1>1. one \in SUBSET Nat /\ one # {}
  BY SmallSets
<1>2. new = DemoData(user, id, thread)
  BY DEF DemoData
<1> HIDE DEF one
<1>3. Tables = {"users", "audit_log", "transactions", "subscriptions", "tickets",
                "ticket_messages", "refunds", "kb_articles"}
  BY TableNames
<1>4. {"subscriptions", "tickets", "ticket_messages"} \subseteq Tables
  BY <1>3
<1>5. Attached(subscribed, user, "subscriptions", id, one)
  BY <1>1, <1>4, AttachAdds
<1>6. subscribed \in Database
  BY <1>5 DEF Attached
<1> HIDE DEF subscribed
<1>7. Attached(asked, subscribed, "tickets", id, one)
  BY <1>1, <1>4, <1>6, AttachAdds
<1>8. asked \in Database
  BY <1>7 DEF Attached
<1> HIDE DEF asked
<1>9. Attached(new, asked, "ticket_messages", id, thread)
  BY <1>4, <1>8, AttachAdds
<1> HIDE DEF new
<1>10. /\ Gains(new, user, "subscriptions", id, one)
       /\ Gains(new, user, "tickets", id, one)
       /\ Gains(new, user, "ticket_messages", id, thread)
  BY <1>3, <1>5, <1>7, <1>9 DEF Gains, Attached
<1>11. /\ Owners(new, "subscriptions") = Owners(user, "subscriptions") \cup Holder(id, one)
       /\ Owners(new, "tickets") = Owners(user, "tickets") \cup Holder(id, one)
       /\ Owners(new, "ticket_messages")
            = Owners(user, "ticket_messages") \cup Holder(id, thread)
  BY <1>10, OwnersAdded
<1>12. Holder(id, one) = {id} /\ Holder(id, thread) = {id}
  BY <1>1 DEF Holder
<1>13. /\ new.lastUserId = user.lastUserId
       /\ \A t \in {"users", "kb_articles", "audit_log", "refunds", "transactions"} :
            new.rows[t] = user.rows[t]
  BY <1>3, <1>5, <1>7, <1>9 DEF Attached
<1> QED BY <1>2, <1>11, <1>12, <1>13 DEF DemoShown

\* The three demo users come after the generated ones.
LEMMA DemoSeeded ==
    ASSUME NEW db \in Database, NEW first \in Nat, NEW k \in Nat, NEW articles,
           NEW thread \in SUBSET Nat, thread # {},
           SeedSoFar(db, first, k, articles), db.lastUserId = first + k,
           Aligned(first), k + 1 \in SEED_COUNT + 1 .. SEED_COUNT + 3
    PROVE  SeedSoFar(DemoData(AddUser(db, k + 1, FALSE), db.lastUserId + 1, thread),
                     first, k + 1, articles)
<1> DEFINE user == AddUser(db, k + 1, FALSE)
           id == db.lastUserId + 1
           new == DemoData(user, id, thread)
           C == Customers(first, k)
           D == Demos(first, k)
<1>1. /\ Customers(first, k + 1) = C
      /\ Demos(first, k + 1) = D \cup {id}
  <2>1. /\ Customers(first, k + 1) = C
        /\ Demos(first, k + 1) = D \cup {first + k + 1}
    BY CustomersGrow
  <2> QED BY <2>1
<1>2. /\ user \in Database
      /\ SeededIn(user, "users") = {Row(first + i, i, FALSE) : i \in 1 .. k + 1}
      /\ \A t \in Tables \ {"users"} :
           /\ SeededIn(user, t) = SeededIn(db, t)
           /\ Owners(user, t) = Owners(db, t)
           /\ \A o : NumberedIn(user, t, o) = NumberedIn(db, t, o)
  BY SeedUserAdds
<1>3. id \in Nat
  BY DEF Database
<1> HIDE DEF C, D, user, id
<1>4. /\ new.lastUserId = user.lastUserId
      /\ \A t \in {"users", "kb_articles", "audit_log", "refunds", "transactions"} :
           new.rows[t] = user.rows[t]
      /\ \A t \in {"subscriptions", "tickets", "ticket_messages"} :
           Owners(new, t) = Owners(user, t) \cup {id}
  <2>1. user \in Database
    BY <1>2
  <2>2. DemoShown(DemoData(user, id, thread), user, id)
    BY <1>3, <2>1, DemoShows
  <2> QED BY <2>2 DEF DemoShown
<1> HIDE DEF new
<1>5. \A t \in {"users", "kb_articles", "audit_log", "refunds", "transactions"} :
        SeededIn(new, t) = SeededIn(user, t)
  BY <1>4 DEF SeededIn
<1>6. ASSUME NEW t \in {"users", "kb_articles", "audit_log", "refunds", "transactions"}
      PROVE  /\ Owners(new, t) = Owners(user, t)
             /\ \A o : NumberedIn(new, t, o) = NumberedIn(user, t, o)
  BY <1>5 DEF Owners, NumberedIn
<1>7. /\ SeededIn(user, "kb_articles") = articles /\ SeededIn(user, "audit_log") = {}
      /\ Owners(user, "subscriptions") = C \cup D
      /\ Owners(user, "tickets") = Every(TicketEvery, C) \cup D
      /\ Owners(user, "ticket_messages") = Owners(user, "tickets")
      /\ Owners(user, "refunds") = Every(RefundEvery, C)
      /\ Owners(user, "transactions") \subseteq C
      /\ \A o \in C : NumberedIn(user, "transactions", o)
                        = ((o \div 4) % 4) + NumberedIn(user, "refunds", o)
  BY <1>2, TableNames DEF SeedSoFar, C, D
<1>8. /\ SeededIn(new, "users") = {Row(first + i, i, FALSE) : i \in 1 .. k + 1}
      /\ SeededIn(new, "kb_articles") = articles /\ SeededIn(new, "audit_log") = {}
      /\ Owners(new, "subscriptions") = C \cup D \cup {id}
      /\ Owners(new, "tickets") = Every(TicketEvery, C) \cup D \cup {id}
      /\ Owners(new, "ticket_messages") = Owners(new, "tickets")
      /\ Owners(new, "refunds") = Every(RefundEvery, C)
      /\ Owners(new, "transactions") \subseteq C
  BY <1>2, <1>4, <1>5, <1>6, <1>7
<1>9. \A o \in C : NumberedIn(new, "transactions", o)
                    = ((o \div 4) % 4) + NumberedIn(new, "refunds", o)
  BY <1>6, <1>7
<1>10. SeedSoFar(new, first, k + 1, articles)
  <2>1. C \cup D \cup {id} = C \cup (D \cup {id})
    OBVIOUS
  <2>2. Every(TicketEvery, C) \cup D \cup {id} = Every(TicketEvery, C) \cup (D \cup {id})
    OBVIOUS
  <2> HIDE DEF C
  <2> QED BY <1>1, <1>8, <1>9, <2>1, <2>2 DEF SeedSoFar
<1> QED BY <1>10 DEF new, user, id

\* A seed that has not begun, one that is complete, and steps it does not show in.
LEMMA NothingSeeded ==
    ASSUME NEW db, Unseeded(db), NEW first \in Nat
    PROVE  SeedSoFar(db, first, 0, {})
<1>1. Customers(first, 0) = {} /\ Demos(first, 0) = {}
  BY BootAssumption DEF Customers, Demos, SeedCustomers, DemoUsers
<1>2. \A t \in Tables : SeededIn(db, t) = {} /\ Owners(db, t) = {}
  BY DEF Unseeded, Owners
<1>3. {Row(first + i, i, FALSE) : i \in 1 .. 0} = {}
  OBVIOUS
<1> QED BY <1>1, <1>2, <1>3, TableNames DEF SeedSoFar, Every

LEMMA WholeSeedHasDemo ==
    ASSUME NEW db, NEW first \in Nat, WholeSeed(db, first)
    PROVE  \E u \in db.rows["users"] : u.n = SEED_COUNT + 1
<1>1. SEED_COUNT + 1 \in 1 .. SEED_COUNT + 3
  BY BootAssumption
<1>2. Row(first + (SEED_COUNT + 1), SEED_COUNT + 1, FALSE) \in SeededIn(db, "users")
  BY <1>1 DEF WholeSeed, SeedSoFar
<1> QED BY <1>2 DEF SeededIn, Row

LEMMA SameWholeSeed ==
    ASSUME NEW db, NEW new, \A t \in Tables : SeededIn(new, t) = SeededIn(db, t),
           NEW first, WholeSeed(db, first)
    PROVE  WholeSeed(new, first)
<1>1. \A t \in Tables : /\ Owners(new, t) = Owners(db, t)
                        /\ \A o : NumberedIn(new, t, o) = NumberedIn(db, t, o)
  BY SameSeed
<1> QED BY <1>1, TableNames DEF WholeSeed, SeedSoFar

LEMMA WholeSeedIsOneSeed ==
    ASSUME NEW first \in Nat, WholeSeed(disk, first)
    PROVE  OneSeed(first)
<1>1. SEED_COUNT \in Nat
  BY BootAssumption
<1>2. Customers(first, SEED_COUNT + 3) = SeedCustomers(first)
  BY <1>1 DEF Customers, SeedCustomers
<1>3. Demos(first, SEED_COUNT + 3) = DemoUsers(first)
  BY <1>1 DEF Demos, DemoUsers
<1>4. \A t : Seeded(t) = SeededIn(disk, t)
  BY DEF Seeded, SeededIn
<1>5. \A t : {r.of : r \in Seeded(t)} = Owners(disk, t)
  BY <1>4 DEF Owners
<1>6. \A t, id : Numbered(t, id) = NumberedIn(disk, t, id)
  BY <1>4 DEF Numbered, NumberedIn
<1>7. /\ Owners(disk, "subscriptions") = SeedCustomers(first) \cup DemoUsers(first)
      /\ Owners(disk, "tickets") = Every(TicketEvery, SeedCustomers(first)) \cup DemoUsers(first)
      /\ Owners(disk, "ticket_messages") = Owners(disk, "tickets")
      /\ Owners(disk, "refunds") = Every(RefundEvery, SeedCustomers(first))
      /\ \A id \in SeedCustomers(first) :
           NumberedIn(disk, "transactions", id)
             = ((id \div 4) % 4) + NumberedIn(disk, "refunds", id)
  BY <1>2, <1>3 DEF WholeSeed, SeedSoFar
<1>8. /\ Seeded("users") = {Row(first + n, n, FALSE) : n \in SeedNumbers}
      /\ Seeded("kb_articles") = Rows(0, 1 .. Articles)
      /\ Seeded("audit_log") = {}
  BY <1>4 DEF WholeSeed, SeedSoFar, SeedNumbers, AllArticles
<1>9. \A id \in SeedCustomers(first) :
        Numbered("transactions", id) = ((id \div 4) % 4) + Numbered("refunds", id)
  BY <1>6, <1>7
<1> QED BY <1>5, <1>7, <1>8, <1>9 DEF OneSeed, Every

\* Rows of a server at work are no part of a seed.
LEMMA LiveRowUnseeded ==
    ASSUME NEW db \in Database, NEW t \in Tables, NEW of
    PROVE  \A u \in Tables : SeededIn(AddLive(db, t, of), u) = SeededIn(db, u)
<1> DEFINE row == Row(of, Cardinality({r \in db.rows[t] : r.of = of}) + 1, TRUE)
<1>1. row.live = TRUE
  BY DEF Row
<1>2. AddLive(db, t, of) = Insert(db, t, {row})
  BY DEF AddLive
<1> HIDE DEF row
<1>3. /\ Insert(db, t, {row}).rows[t] = db.rows[t] \cup {row}
      /\ \A u \in Tables : u # t => Insert(db, t, {row}).rows[u] = db.rows[u]
  BY DEF Insert, Database
<1> QED BY <1>1, <1>2, <1>3 DEF SeededIn

LEMMA LiveUserUnseeded ==
    ASSUME NEW db \in Database, NEW n \in Nat
    PROVE  \A u \in Tables : SeededIn(AddUser(db, n, TRUE), u) = SeededIn(db, u)
<1> DEFINE new == AddUser(db, n, TRUE)
           row == Row(db.lastUserId + 1, n, TRUE)
<1>1. row.live = TRUE
  BY DEF Row
<1>2. /\ new.rows["users"] = db.rows["users"] \cup {row}
      /\ \A u \in Tables : u # "users" => new.rows[u] = db.rows[u]
  BY AddUserAdds
<1> HIDE DEF new, row
<1> QED BY <1>1, <1>2 DEF SeededIn, new

-----------------------------------------------------------------------------
(* How far a wipe and a seed are, and what an undisturbed boot finds *)

Blank(db) == db.lastUserId = 0 /\ \A t \in Tables : db.rows[t] = {}
Whole(db) == Unseeded(db) \/ \E first \in Nat : WholeSeed(db, first)

\* A wipe about to execute its statement number a.
WipeAt(db, a) ==
    /\ \A j \in DOMAIN WipeOrder : j < a => db.rows[WipeOrder[j]] = {}
    /\ a <= Len(WipeOrder) + 2
    /\ a = Len(WipeOrder) + 2 => db.lastUserId = 0

\* A seed that has executed k statements over what is committed: number SEED_COUNT + 1 is
\* the articles.  Over another seed it does not get past the first demo user, nor past the
\* first customer when ids do not start after a multiple of 4.
UsersAfter(k) == IF k <= SEED_COUNT THEN k ELSE k - 1
ArticlesAfter(k) == IF k <= SEED_COUNT THEN {} ELSE AllArticles

SeedAt(base, db, k) ==
    /\ db.lastUserId = base.lastUserId + UsersAfter(k)
    /\ k <= SEED_COUNT + 4
    /\ ~ Unseeded(base) => /\ k <= SEED_COUNT + 1
                           /\ \E u \in db.rows["users"] : u.n = SEED_COUNT + 1
    /\ ~ Aligned(base.lastUserId) => k <= 3
    /\ Unseeded(base) /\ Aligned(base.lastUserId) =>
         /\ SeedSoFar(db, base.lastUserId, UsersAfter(k), ArticlesAfter(k))
         /\ LiveRows(db, "users") = LiveRows(base, "users")

ProgressInv ==
    /\ Whole(disk)
    /\ \A p \in Processes : pc[p] = "wiping" => WipeAt(work, at[p])
    /\ \A p \in Processes : pc[p] = "seeding" => SeedAt(disk, work, at[p] - 1)

UndisturbedInv ==
    \A p \in Processes : ~ intruded[p] =>
      /\ pc[p] # "threw"
      /\ pc[p] \in {"wiped", "empty", "seeding"} => Blank(disk)
      /\ pc[p] \in {"ready", "refunds", "ticket_messages"} => WholeSeed(disk, 0)

SeedInv == ProgressInv /\ UndisturbedInv

LEMMA BlankIsUnseeded ==
    ASSUME NEW db, Blank(db)
    PROVE  Unseeded(db) /\ Aligned(db.lastUserId) /\ LiveRows(db, "users") = {}
<1>1. Unseeded(db)
  BY DEF Blank, Unseeded, SeededIn
<1>2. LiveRows(db, "users") = {}
  BY TableNames DEF Blank, LiveRows
<1>3. Aligned(db.lastUserId)
  BY DEF Blank, Aligned
<1> QED BY <1>1, <1>2, <1>3

\* Where a seed starts.
LEMMA SeedBegins ==
    ASSUME NEW db \in Database, Whole(db)
    PROVE  SeedAt(db, db, 0)
<1>1. SEED_COUNT \in Nat /\ db.lastUserId \in Nat
  BY BootAssumption DEF Database
<1>2. UsersAfter(0) = 0 /\ ArticlesAfter(0) = {}
  BY <1>1 DEF UsersAfter, ArticlesAfter
<1>3. db.lastUserId = db.lastUserId + UsersAfter(0)
  BY <1>1, <1>2
<1>4. ~ Unseeded(db) => \E u \in db.rows["users"] : u.n = SEED_COUNT + 1
  BY WholeSeedHasDemo DEF Whole
<1>5. Unseeded(db) => SeedSoFar(db, db.lastUserId, UsersAfter(0), ArticlesAfter(0))
  BY <1>1, <1>2, NothingSeeded
<1>6. 0 <= SEED_COUNT + 4 /\ 0 <= SEED_COUNT + 1 /\ 0 <= 3
  BY <1>1
<1> QED BY <1>3, <1>4, <1>5, <1>6 DEF SeedAt

\* Where it ends.
LEMMA SeedEnds ==
    ASSUME NEW base \in Database, NEW db, NEW k, k = SEED_COUNT + 4, SeedAt(base, db, k)
    PROVE  WholeSeed(db, base.lastUserId)
<1>1. SEED_COUNT \in Nat
  BY BootAssumption
<1>2. /\ UsersAfter(k) = SEED_COUNT + 3 /\ ArticlesAfter(k) = AllArticles
      /\ ~ k <= SEED_COUNT + 1 /\ ~ k <= 3
  BY <1>1 DEF UsersAfter, ArticlesAfter
<1>3. Unseeded(base) /\ Aligned(base.lastUserId)
  BY <1>2 DEF SeedAt
<1>4. SeedSoFar(db, base.lastUserId, UsersAfter(k), ArticlesAfter(k))
  BY <1>3 DEF SeedAt
<1> QED BY <1>2, <1>4 DEF WholeSeed

\* One statement of the seed further: a generated user, the articles, a demo user.
LEMMA GeneratedUserProgress ==
    ASSUME NEW base \in Database, NEW db \in Database, NEW k \in Nat, k + 1 <= SEED_COUNT,
           SeedAt(base, db, k),
           NEW user, user = AddUser(db, k + 1, FALSE),
           NEW new, \/ (k + 1) % 4 # 0 /\ new = user
                    \/ /\ (k + 1) % 4 = 0 /\ (db.lastUserId + 1) % 4 = 0
                       /\ new = CustomerData(user, db.lastUserId + 1)
    PROVE  SeedAt(base, new, k + 1)
<1> DEFINE id == db.lastUserId + 1
           first == base.lastUserId
           row == Row(id, k + 1, FALSE)
<1>1. SEED_COUNT \in Nat /\ SEED_COUNT % 4 = 0 /\ first \in Nat /\ id \in Nat /\ k + 1 \in Nat
  BY BootAssumption DEF Database
<1>2. /\ UsersAfter(k) = k /\ UsersAfter(k + 1) = k + 1
      /\ ArticlesAfter(k) = {} /\ ArticlesAfter(k + 1) = {}
  BY <1>1 DEF UsersAfter, ArticlesAfter
<1>3. db.lastUserId = first + k
  BY <1>2 DEF SeedAt
<1>4. id = first + (k + 1)
  BY <1>1, <1>3
<1>5. row.live = FALSE
  BY DEF Row
<1>6. /\ user \in Database /\ user.lastUserId = id
      /\ user.rows["users"] = db.rows["users"] \cup {row}
  BY <1>1, AddUserAdds
<1>7. ASSUME Unseeded(base), Aligned(first)
      PROVE  SeedSoFar(new, first, k + 1, {})
  <2>1. SeedSoFar(db, first, k, {})
    BY <1>2, <1>7 DEF SeedAt
  <2>2. CASE (k + 1) % 4 # 0
    BY <1>1, <1>3, <1>7, <2>1, <2>2, PlainUserSeeded
  <2>3. CASE (k + 1) % 4 = 0
    BY <1>1, <1>3, <1>7, <2>1, <2>3, CustomerSeeded
  <2> QED BY <2>2, <2>3
<1>8. ASSUME ~ Aligned(first) PROVE k + 1 <= 3
  <2>1. k <= 3 /\ first % 4 # 0
    BY <1>8 DEF SeedAt, Aligned
  <2>2. ASSUME k = 3 PROVE FALSE
    <3>1. db.lastUserId + 1 = first + 4 /\ k + 1 = 4
      BY <1>1, <1>3, <2>2
    <3>2. (k + 1) % 4 = 0
      BY <3>1
    <3>3. (db.lastUserId + 1) % 4 = 0
      BY <3>2
    <3>4. (first + 4) % 4 = 0
      BY <3>1, <3>3
    <3> HIDE DEF first
    <3> QED BY <1>1, <2>1, <3>4
  <2> QED BY <2>1, <2>2
<1>9. k + 1 <= SEED_COUNT + 4 /\ k + 1 <= SEED_COUNT + 1
  BY <1>1
<1> HIDE DEF row, id
<1>10. new.lastUserId = id /\ new.rows["users"] = user.rows["users"]
  <2>1. /\ CustomerData(user, id).lastUserId = user.lastUserId
        /\ CustomerData(user, id).rows["users"] = user.rows["users"]
    BY <1>1, <1>6, CustomerAdds
  <2>2. new = user \/ new = CustomerData(user, id)
    BY DEF id
  <2> QED BY <1>6, <2>1, <2>2
<1>11. /\ \A u \in db.rows["users"] : u \in new.rows["users"]
       /\ LiveRows(new, "users") = LiveRows(db, "users")
  BY <1>5, <1>6, <1>10 DEF LiveRows
<1>12. ~ Unseeded(base) => \E u \in new.rows["users"] : u.n = SEED_COUNT + 1
  BY <1>11 DEF SeedAt
<1>13. Unseeded(base) /\ Aligned(first) => LiveRows(new, "users") = LiveRows(base, "users")
  BY <1>11 DEF SeedAt
<1>14. new.lastUserId = first + UsersAfter(k + 1)
  BY <1>2, <1>4, <1>10
<1> QED BY <1>2, <1>7, <1>8, <1>9, <1>12, <1>13, <1>14 DEF SeedAt

LEMMA ArticlesProgress ==
    ASSUME NEW base \in Database, NEW db \in Database, NEW k \in Nat, k = SEED_COUNT,
           SeedAt(base, db, k),
           NEW new, new = Attach(db, "kb_articles", 0, 1 .. Articles)
    PROVE  SeedAt(base, new, k + 1)
<1> DEFINE first == base.lastUserId
           all == 1 .. Articles
<1>1. SEED_COUNT % 4 = 0 /\ first \in Nat /\ all \in SUBSET Nat
  BY BootAssumption DEF Database
<1>2. /\ UsersAfter(k) = k /\ UsersAfter(k + 1) = k
      /\ ArticlesAfter(k) = {} /\ ArticlesAfter(k + 1) = AllArticles
  BY DEF UsersAfter, ArticlesAfter
<1>3. Aligned(first)
  BY <1>1 DEF SeedAt, Aligned
<1>4. Unseeded(base) => SeedSoFar(new, first, k, AllArticles)
  <2>1. Unseeded(base) => SeedSoFar(db, first, k, {})
    BY <1>2, <1>3 DEF SeedAt
  <2> QED BY <1>1, <2>1, ArticlesSeeded
<1> HIDE DEF all
<1>5. new.lastUserId = db.lastUserId /\ new.rows["users"] = db.rows["users"]
  <2>1. new = Attach(db, "kb_articles", 0, all)
    BY DEF all
  <2>2. "kb_articles" \in Tables /\ "users" \in Tables
    BY TableNames
  <2>3. Attached(Attach(db, "kb_articles", 0, all), db, "kb_articles", 0, all)
    BY <1>1, <2>2, AttachAdds
  <2> QED BY <2>1, <2>2, <2>3, TableNames DEF Attached
<1>6. LiveRows(new, "users") = LiveRows(db, "users")
  BY <1>5 DEF LiveRows
<1>7. k + 1 <= SEED_COUNT + 4 /\ k + 1 <= SEED_COUNT + 1
  OBVIOUS
<1>8. ~ Unseeded(base) => \E u \in new.rows["users"] : u.n = SEED_COUNT + 1
  BY <1>5 DEF SeedAt
<1>9. new.lastUserId = first + UsersAfter(k + 1)
  BY <1>2, <1>5 DEF SeedAt
<1>10. Unseeded(base) /\ Aligned(first) => LiveRows(new, "users") = LiveRows(base, "users")
  BY <1>6 DEF SeedAt
<1> QED BY <1>2, <1>3, <1>4, <1>7, <1>8, <1>9, <1>10 DEF SeedAt

LEMMA DemoUserProgress ==
    ASSUME NEW base \in Database, NEW db \in Database,
           NEW n \in Nat, n + 1 \in SEED_COUNT + 1 .. SEED_COUNT + 3,
           NEW thread \in SUBSET Nat, thread # {},
           NEW k, k = n + 1, SeedAt(base, db, k), ~ Taken(db, n + 1),
           NEW user, user = AddUser(db, n + 1, FALSE), NEW id, id = db.lastUserId + 1,
           NEW new, new = DemoData(user, id, thread)
    PROVE  SeedAt(base, new, k + 1)
<1> DEFINE first == base.lastUserId
           row == Row(id, n + 1, FALSE)
<1>1. SEED_COUNT \in Nat /\ SEED_COUNT % 4 = 0 /\ first \in Nat /\ id \in Nat /\ n + 1 \in Nat
  BY BootAssumption DEF Database
<1>2. /\ UsersAfter(k) = n /\ UsersAfter(k + 1) = n + 1
      /\ ArticlesAfter(k) = AllArticles /\ ArticlesAfter(k + 1) = AllArticles
  BY <1>1 DEF UsersAfter, ArticlesAfter
<1>3. db.lastUserId = first + n
  BY <1>2 DEF SeedAt
<1>4. id = first + (n + 1)
  BY <1>1, <1>3
<1>5. Aligned(first)
  BY <1>1 DEF SeedAt, Aligned
<1>6. Unseeded(base)
  <2>1. ASSUME ~ Unseeded(base) PROVE FALSE
    <3>1. n + 1 = SEED_COUNT + 1 /\ \E u \in db.rows["users"] : u.n = SEED_COUNT + 1
      BY <1>1, <2>1 DEF SeedAt
    <3>2. n + 1 # 0
      BY <1>1
    <3> QED BY <3>1, <3>2 DEF Taken
  <2> QED BY <2>1
<1>7. SeedSoFar(db, first, n, AllArticles) /\ LiveRows(db, "users") = LiveRows(base, "users")
  BY <1>2, <1>5, <1>6 DEF SeedAt
<1>8. /\ SeedSoFar(new, first, n + 1, AllArticles)
      /\ new.lastUserId = user.lastUserId /\ new.rows["users"] = user.rows["users"]
  <2>1. SeedSoFar(DemoData(AddUser(db, n + 1, FALSE), db.lastUserId + 1, thread),
                  first, n + 1, AllArticles)
    BY <1>1, <1>3, <1>5, <1>7, DemoSeeded
  <2>2. user \in Database
    BY <1>1, AddUserAdds
  <2>3. DemoShown(DemoData(user, id, thread), user, id)
    BY <1>1, <2>2, DemoShows
  <2> QED BY <2>1, <2>3 DEF DemoShown
<1>9. row.live = FALSE
  BY DEF Row
<1>10. /\ user \in Database /\ user.lastUserId = id
       /\ user.rows["users"] = db.rows["users"] \cup {row}
  BY <1>1, AddUserAdds
<1>11. k + 1 <= SEED_COUNT + 4
  BY <1>1
<1>12. new.lastUserId = id
  BY <1>8, <1>10
<1>13. LiveRows(new, "users") = LiveRows(base, "users")
  BY <1>7, <1>8, <1>9, <1>10 DEF LiveRows
<1>14. new.lastUserId = first + UsersAfter(k + 1)
  BY <1>2, <1>4, <1>12
<1> QED BY <1>2, <1>5, <1>6, <1>8, <1>11, <1>13, <1>14 DEF SeedAt

-----------------------------------------------------------------------------
(* The steps of a boot, and what they keep of a seed *)

\* A statement of the open transaction: nobody else is in the middle of one.
LEMMA StatementKeepsSeed ==
    ASSUME BootInv, SeedInv, NEW p \in Processes, NEW db, Statement(p, db),
           pc[p] \in {"wiping", "seeding"},
           pc[p] = "wiping" => WipeAt(db, at[p] + 1),
           pc[p] = "seeding" => SeedAt(disk, db, at[p])
    PROVE  SeedInv'
<1>1. /\ disk' = disk /\ work' = db /\ pc' = pc /\ intruded' = intruded
      /\ at'[p] = at[p] + 1 /\ at'[p] - 1 = at[p]
  BY DEF Statement, BootInv, BootTypeOK
<1>2. \A q \in Processes : q # p => pc'[q] \notin {"wiping", "seeding"}
  BY <1>1 DEF BootInv, BootTypeOK
<1>3. ProgressInv'
  BY <1>1, <1>2 DEF SeedInv, ProgressInv
<1>4. UndisturbedInv'
  BY <1>1 DEF SeedInv, UndisturbedInv
<1> QED BY <1>3, <1>4 DEF SeedInv

\* A boot that throws or dies: an undisturbed one does not throw.
LEMMA RollBackKeepsSeed ==
    ASSUME BootInv, SeedInv, NEW p \in Processes, RollBack(p),
           NEW label \in {"down", "threw"}, Goto(p, label), UNCHANGED intruded,
           label = "threw" => intruded[p]
    PROVE  SeedInv'
<1>1. /\ disk' = disk
      /\ pc'[p] = label
      /\ \A q \in Processes : q # p => pc'[q] = pc[q] /\ at'[q] = at[q]
  BY DEF RollBack, Goto, BootInv, BootTypeOK
<1>2. \A q \in Processes : q # p /\ pc'[q] \in {"wiping", "seeding"} => work' = work
  BY <1>1 DEF RollBack, BootInv, BootTypeOK
<1>3. ProgressInv'
  BY <1>1, <1>2 DEF SeedInv, ProgressInv
<1>4. UndisturbedInv'
  BY <1>1 DEF SeedInv, UndisturbedInv
<1> QED BY <1>3, <1>4 DEF SeedInv

\* A step that writes nothing.
LEMMA GotoKeepsSeed ==
    ASSUME BootInv, SeedInv, NEW p \in Processes, UNCHANGED <<disk, work, at>>,
           NEW label, Goto(p, label), label \notin {"wiping", "seeding"},
           \A q \in Processes \ {p} : intruded'[q] = intruded[q],
           ~ intruded'[p] =>
             /\ label # "threw"
             /\ label \in {"wiped", "empty"} => Blank(disk)
             /\ label \in {"ready", "refunds", "ticket_messages"} => WholeSeed(disk, 0)
    PROVE  SeedInv'
<1>1. /\ pc'[p] = label
      /\ \A q \in Processes : q # p => pc'[q] = pc[q]
  BY DEF Goto, BootInv, BootTypeOK
<1>2. ProgressInv'
  BY <1>1 DEF SeedInv, ProgressInv
<1>3. UndisturbedInv'
  BY <1>1 DEF SeedInv, UndisturbedInv
<1> QED BY <1>2, <1>3 DEF SeedInv

\* A statement that commits by itself adds nothing that is seeded, and disturbs the others.
LEMMA AutocommitKeepsSeed ==
    ASSUME BootInv, SeedInv, NEW p \in Processes, NEW db, Autocommit(p, db),
           \A t \in Tables : SeededIn(db, t) = SeededIn(disk, t),
           \/ pc[p] = "creating" /\ pc' = pc
           \/ pc[p] \in {"ready", "refunds", "ticket_messages"} /\ Goto(p, "ready")
    PROVE  SeedInv'
<1>1. disk' = db /\ writer = None
  BY DEF Autocommit
<1>2. \A q \in Processes : intruded'[q] = (intruded[q] \/ q # p)
  BY DEF Autocommit, Intrude
<1>3. None \notin Processes
  BY BootAssumption
<1>4. \A q \in Processes : pc'[q] \notin {"wiping", "seeding"}
  BY <1>1, <1>3 DEF Goto, BootInv, BootTypeOK
<1>5. WholeSeed(disk, 0) => WholeSeed(db, 0)
  BY SameWholeSeed
<1>6. Whole(db)
  <2>1. Unseeded(disk) => Unseeded(db)
    BY DEF Unseeded
  <2>2. ASSUME NEW first \in Nat, WholeSeed(disk, first)
        PROVE  WholeSeed(db, first)
    BY <2>2, SameWholeSeed
  <2> QED BY <2>1, <2>2 DEF SeedInv, ProgressInv, Whole
<1>7. ProgressInv'
  BY <1>1, <1>4, <1>6 DEF ProgressInv
<1>8. \/ pc'[p] = "creating"
      \/ pc[p] \in {"ready", "refunds", "ticket_messages"} /\ pc'[p] = "ready"
  BY DEF Goto, BootInv, BootTypeOK
<1>9. UndisturbedInv'
  <2> SUFFICES ASSUME NEW q \in Processes, ~ intruded'[q]
               PROVE  /\ pc'[q] # "threw"
                      /\ pc'[q] \in {"wiped", "empty", "seeding"} => Blank(disk')
                      /\ pc'[q] \in {"ready", "refunds", "ticket_messages"}
                           => WholeSeed(disk', 0)
    BY DEF UndisturbedInv
  <2>1. q = p /\ ~ intruded[p]
    BY <1>2
  <2>2. pc[p] \in {"ready", "refunds", "ticket_messages"} => WholeSeed(disk, 0)
    BY <2>1 DEF SeedInv, UndisturbedInv
  <2> QED BY <1>1, <1>5, <1>8, <2>1, <2>2
<1> QED BY <1>7, <1>9 DEF SeedInv

LEMMA CreatingKeepsSeed ==
    ASSUME BootInv, SeedInv, NEW p \in Processes, Start(p) \/ CreateTable(p) \/ Busy(p)
    PROVE  SeedInv'
<1>1. CASE Start(p)
  BY <1>1, GotoKeepsSeed DEF Start
<1>2. CASE CreateTable(p)
  <2>1. PICK i \in DOMAIN SchemaOrder :
          Autocommit(p, [disk EXCEPT !.schema = @ \cup {SchemaOrder[i]}])
    BY <1>2 DEF CreateTable
  <2> DEFINE db == [disk EXCEPT !.schema = @ \cup {SchemaOrder[i]}]
  <2>2. \A t \in Tables : SeededIn(db, t) = SeededIn(disk, t)
    BY DEF SeededIn, BootInv, BootTypeOK, Database
  <2>3. pc[p] = "creating" /\ pc' = pc
    BY <1>2 DEF CreateTable
  <2> HIDE DEF db
  <2> QED BY <2>1, <2>2, <2>3, AutocommitKeepsSeed DEF db
<1>3. CASE Busy(p)
  <2>1. /\ UNCHANGED <<disk, work, at>> /\ Goto(p, "threw") /\ intruded'[p]
        /\ \A q \in Processes \ {p} : intruded'[q] = intruded[q]
    BY <1>3 DEF Busy, BootInv, BootTypeOK
  <2> QED BY <2>1, GotoKeepsSeed
<1> QED BY <1>1, <1>2, <1>3

\* The order of the wipe: by the time a table is deleted, those that refer to it are empty.
LEMMA WipeNeverRefused ==
    ASSUME NEW db, NEW a \in DOMAIN WipeOrder, WipeAt(db, a)
    PROVE  ~ Referenced(db, WipeOrder[a])
<1>1. /\ a \in 1 .. 8
      /\ \A j \in 1 .. 8 : j < a => db.rows[WipeOrder[j]] = {}
  BY DEF WipeAt, WipeOrder
<1>2. /\ WipeOrder[1] = "refunds" /\ WipeOrder[2] = "ticket_messages"
      /\ WipeOrder[3] = "subscriptions" /\ WipeOrder[4] = "tickets"
      /\ WipeOrder[5] = "kb_articles" /\ WipeOrder[6] = "audit_log"
      /\ WipeOrder[7] = "transactions" /\ WipeOrder[8] = "users"
  BY DEF WipeOrder
<1>3. /\ a > 1 => db.rows["refunds"] = {}
      /\ a > 2 => db.rows["ticket_messages"] = {}
      /\ a > 3 => db.rows["subscriptions"] = {}
      /\ a > 4 => db.rows["tickets"] = {}
      /\ a > 6 => db.rows["audit_log"] = {}
      /\ a > 7 => db.rows["transactions"] = {}
  BY <1>1, <1>2
<1>4. ASSUME NEW c \in DOMAIN References, References[c] = WipeOrder[a]
      PROVE  db.rows[c] = {}
  <2>1. \/ c \in {"audit_log", "transactions", "subscriptions", "tickets"} /\ WipeOrder[a] = "users"
        \/ c = "ticket_messages" /\ WipeOrder[a] = "tickets"
        \/ c = "refunds" /\ WipeOrder[a] = "subscriptions"
    BY <1>4 DEF References
  <2>2. /\ WipeOrder[a] = "users" => a = 8
        /\ WipeOrder[a] = "tickets" => a = 4
        /\ WipeOrder[a] = "subscriptions" => a = 3
    BY <1>1, <1>2
  <2> QED BY <1>3, <2>1, <2>2
<1> QED BY <1>4 DEF Referenced

LEMMA WipeEnds ==
    ASSUME NEW db, WipeAt(db, Len(WipeOrder) + 2)
    PROVE  Blank(db)
<1>1. Len(WipeOrder) = 8 /\ DOMAIN WipeOrder = 1 .. 8
  BY DEF WipeOrder
<1>2. \A j \in 1 .. 8 : db.rows[WipeOrder[j]] = {}
  BY <1>1 DEF WipeAt
<1>3. /\ WipeOrder[1] = "refunds" /\ WipeOrder[2] = "ticket_messages"
      /\ WipeOrder[3] = "subscriptions" /\ WipeOrder[4] = "tickets"
      /\ WipeOrder[5] = "kb_articles" /\ WipeOrder[6] = "audit_log"
      /\ WipeOrder[7] = "transactions" /\ WipeOrder[8] = "users"
  BY DEF WipeOrder
<1>4. \A t \in Tables : db.rows[t] = {}
  BY <1>2, <1>3, TableNames
<1> QED BY <1>4 DEF WipeAt, Blank

\* A transaction that is committed disturbs the other boots.
LEMMA CommitKeepsSeed ==
    ASSUME BootInv, SeedInv, NEW p \in Processes, pc[p] \in {"wiping", "seeding"},
           Commit(p), NEW label \in {"wiped", "ready"}, Goto(p, label), Intrude(p),
           Whole(work),
           ~ intruded[p] => IF label = "wiped" THEN Blank(work) ELSE WholeSeed(work, 0)
    PROVE  SeedInv'
<1>1. disk' = work /\ pc'[p] = label
  BY DEF Commit, Goto, BootInv, BootTypeOK
<1>2. \A q \in Processes : intruded'[q] = (intruded[q] \/ q # p)
  BY DEF Intrude
<1>3. \A q \in Processes : pc'[q] \notin {"wiping", "seeding"}
  BY DEF Goto, BootInv, BootTypeOK
<1>4. ProgressInv'
  BY <1>1, <1>3 DEF ProgressInv
<1>5. UndisturbedInv'
  BY <1>1, <1>2 DEF UndisturbedInv
<1> QED BY <1>4, <1>5 DEF SeedInv

LEMMA WipingKeepsSeed ==
    ASSUME BootInv, SeedInv, NEW p \in Processes,
           \/ BeginWipe(p) \/ DeleteTable(p) \/ ResetSequences(p)
           \/ CommitWipe(p) \/ CountUsers(p)
    PROVE  SeedInv'
<1>1. Len(WipeOrder) = 8 /\ DOMAIN WipeOrder = 1 .. 8 /\ at[p] \in Nat
  BY BootAssumption DEF WipeOrder, BootInv, BootTypeOK
<1>2. pc[p] = "wiping" => WipeAt(work, at[p])
  BY DEF SeedInv, ProgressInv
<1>3. CASE BeginWipe(p)
  <2>1. /\ disk' = disk /\ work' = work /\ at'[p] = 1 /\ pc'[p] = "wiping" /\ writer = None
        /\ \A q \in Processes : q # p => pc'[q] = pc[q] /\ intruded'[q] = intruded[q]
    BY <1>3 DEF BeginWipe, BeginTransaction, Goto, BootInv, BootTypeOK
  <2>2. WipeAt(work, 1)
    BY <1>1 DEF WipeAt
  <2>3. \A q \in Processes : q # p => pc'[q] \notin {"wiping", "seeding"}
    BY <2>1, BootAssumption DEF BootInv, BootTypeOK
  <2>4. ProgressInv'
    BY <2>1, <2>2, <2>3 DEF SeedInv, ProgressInv
  <2>5. UndisturbedInv'
    BY <2>1 DEF SeedInv, UndisturbedInv
  <2> QED BY <2>4, <2>5 DEF SeedInv
<1>4. CASE DeleteTable(p)
  <2> DEFINE t == WipeOrder[at[p]]
             db == [work EXCEPT !.rows[t] = {}]
  <2>1. pc[p] = "wiping" /\ at[p] \in DOMAIN WipeOrder
    BY <1>4 DEF DeleteTable
  <2>2. ~ Referenced(work, t)
    BY <1>2, <2>1, WipeNeverRefused
  <2>3. Statement(p, db)
    BY <1>4, <2>2 DEF DeleteTable
  <2>4. \A j \in DOMAIN WipeOrder : WipeOrder[j] \in Tables
    <3>1. \A j \in DOMAIN WipeOrder :
            WipeOrder[j] \in {"refunds", "ticket_messages", "subscriptions", "tickets",
                              "kb_articles", "audit_log", "transactions", "users"}
      BY DEF WipeOrder
    <3> QED BY <3>1, TableNames
  <2>5. db.rows[t] = {} /\ \A u \in Tables : u # t => db.rows[u] = work.rows[u]
    <3>1. t \in Tables
      BY <2>1, <2>4
    <3> HIDE DEF t
    <3> QED BY <3>1 DEF BootInv, BootTypeOK, Database
  <2> HIDE DEF db
  <2>6. \A j \in DOMAIN WipeOrder : j < at[p] + 1 => db.rows[WipeOrder[j]] = {}
    <3>1. \A j \in DOMAIN WipeOrder : j < at[p] => db.rows[WipeOrder[j]] = {}
      BY <1>2, <2>1, <2>5, <2>4 DEF WipeAt
    <3>2. \A j \in DOMAIN WipeOrder : j < at[p] + 1 => j < at[p] \/ j = at[p]
      BY <1>1
    <3> QED BY <2>5, <3>1, <3>2
  <2>7. WipeAt(db, at[p] + 1)
    BY <1>1, <2>1, <2>6 DEF WipeAt
  <2> QED BY <2>1, <2>3, <2>7, StatementKeepsSeed
<1>5. CASE ResetSequences(p)
  <2> DEFINE db == [work EXCEPT !.lastUserId = 0]
  <2>1. pc[p] = "wiping" /\ at[p] = 9 /\ Statement(p, db)
    BY <1>1, <1>5 DEF ResetSequences
  <2>2. db.lastUserId = 0 /\ db.rows = work.rows
    BY DEF BootInv, BootTypeOK, Database
  <2> HIDE DEF db
  <2>3. WipeAt(db, at[p] + 1)
    BY <1>1, <1>2, <2>1, <2>2 DEF WipeAt
  <2> QED BY <2>1, <2>3, StatementKeepsSeed
<1>6. CASE CommitWipe(p)
  <2>1. Blank(work)
    BY <1>2, <1>6, WipeEnds DEF CommitWipe
  <2>2. Whole(work)
    BY <2>1, BlankIsUnseeded DEF Whole
  <2> QED BY <1>6, <2>1, <2>2, CommitKeepsSeed DEF CommitWipe
<1>7. CASE CountUsers(p)
  <2> DEFINE label == IF disk.rows["users"] = {} THEN "empty" ELSE "ready"
  <2>1. Goto(p, label) /\ UNCHANGED <<disk, work, at>> /\ pc[p] = "wiped" /\ intruded' = intruded
    BY <1>7 DEF CountUsers
  <2>2. ~ intruded[p] => Blank(disk)
    BY <2>1 DEF SeedInv, UndisturbedInv
  <2>3. ~ intruded[p] => label = "empty"
    BY <2>2, TableNames DEF Blank
  <2>4. label \in {"empty", "ready"}
    OBVIOUS
  <2> HIDE DEF label
  <2> QED BY <2>1, <2>2, <2>3, <2>4, GotoKeepsSeed
<1> QED BY <1>3, <1>4, <1>5, <1>6, <1>7

\* Over blank tables each address of the seed is new, and ids count its users.
LEMMA BlankSeedFree ==
    ASSUME NEW base \in Database, Blank(base), NEW db, NEW k \in Nat, SeedAt(base, db, k)
    PROVE  /\ db.lastUserId = UsersAfter(k)
           /\ \A n \in Nat : n > UsersAfter(k) => ~ Taken(db, n)
<1>1. base.lastUserId = 0 /\ Unseeded(base) /\ Aligned(base.lastUserId)
      /\ LiveRows(base, "users") = {}
  BY BlankIsUnseeded DEF Blank
<1>2. UsersAfter(k) \in Int
  BY DEF UsersAfter
<1>3. /\ db.lastUserId = base.lastUserId + UsersAfter(k)
      /\ SeedSoFar(db, base.lastUserId, UsersAfter(k), ArticlesAfter(k))
      /\ LiveRows(db, "users") = {}
  BY <1>1 DEF SeedAt
<1> DEFINE m == UsersAfter(k)
<1>4. SeededIn(db, "users") = {Row(base.lastUserId + i, i, FALSE) : i \in 1 .. m}
  BY <1>3 DEF SeedSoFar
<1> HIDE DEF m
<1>5. ASSUME NEW u \in db.rows["users"]
      PROVE  u.n \in 1 .. m
  <2>1. u \in SeededIn(db, "users")
    BY <1>3 DEF SeededIn, LiveRows
  <2>2. PICK i \in 1 .. m : u = Row(base.lastUserId + i, i, FALSE)
    BY <1>4, <2>1
  <2> QED BY <2>2 DEF Row
<1>6. \A n \in Nat : n > m => ~ Taken(db, n)
  BY <1>2, <1>5 DEF Taken, m
<1> QED BY <1>1, <1>2, <1>3, <1>6 DEF m

\* An undisturbed seed is never refused: neither an address nor an id stops it.
LEMMA SeedNeverRefused ==
    ASSUME BootInv, SeedInv, NEW p \in Processes, pc[p] = "seeding", ~ intruded[p]
    PROVE  /\ work.lastUserId = UsersAfter(at[p] - 1)
           /\ \A n \in Nat : n > UsersAfter(at[p] - 1) => ~ Taken(work, n)
<1>1. disk \in Database /\ Blank(disk) /\ SeedAt(disk, work, at[p] - 1)
  BY DEF SeedInv, ProgressInv, UndisturbedInv, BootInv, BootTypeOK
<1>2. at[p] - 1 \in Nat
  BY DEF BootInv, BootTypeOK
<1> QED BY <1>1, <1>2, BlankSeedFree

LEMMA ThrowKeepsSeed ==
    ASSUME BootInv, SeedInv, NEW p \in Processes, Throw(p), intruded[p]
    PROVE  SeedInv'
BY RollBackKeepsSeed DEF Throw

LEMMA SeedUserKeepsSeed ==
    ASSUME BootInv, SeedInv, NEW p \in Processes, SeedUser(p)
    PROVE  SeedInv'
<1> DEFINE n == at[p]
           id == work.lastUserId + 1
           user == AddUser(work, n, FALSE)
           k == at[p] - 1
<1>1. /\ SEED_COUNT \in Nat /\ n \in Nat /\ k \in Nat /\ n = k + 1 /\ n <= SEED_COUNT
      /\ pc[p] = "seeding" /\ work \in Database /\ disk \in Database
  BY BootAssumption DEF BootInv, BootTypeOK, SeedUser
<1>2. SeedAt(disk, work, k)
  BY <1>1 DEF SeedInv, ProgressInv
<1>3. UsersAfter(k) = k
  BY <1>1 DEF UsersAfter
<1>4. ~ intruded[p] => ~ Taken(work, n) /\ id = n
  BY <1>1, <1>3, SeedNeverRefused
<1>5. CASE Taken(work, n) /\ Throw(p)
  BY <1>4, <1>5, ThrowKeepsSeed DEF BootInv, BootTypeOK
<1>6. CASE n % 4 # 0 /\ Statement(p, user)
  <2>1. SeedAt(disk, user, k + 1)
    BY <1>1, <1>2, <1>6, GeneratedUserProgress
  <2> QED BY <1>1, <1>6, <2>1, StatementKeepsSeed
<1>7. CASE n % 4 = 0 /\ id % 4 # 0 /\ Throw(p)
  BY <1>4, <1>7, ThrowKeepsSeed DEF BootInv, BootTypeOK
<1>8. CASE n % 4 = 0 /\ id % 4 = 0 /\ Statement(p, CustomerData(user, id))
  <2>1. SeedAt(disk, CustomerData(user, id), k + 1)
    BY <1>1, <1>2, <1>8, GeneratedUserProgress
  <2> QED BY <1>1, <1>8, <2>1, StatementKeepsSeed
<1> QED BY <1>5, <1>6, <1>7, <1>8 DEF SeedUser

LEMMA SeedDemoKeepsSeed ==
    ASSUME BootInv, SeedInv, NEW p \in Processes, SeedDemo(p)
    PROVE  SeedInv'
<1> DEFINE n == at[p] - 1
           m == at[p] - 2
           id == work.lastUserId + 1
           thread == IF n = SEED_COUNT + 3 THEN 1 .. DemoThread ELSE 1 .. 1
           user == AddUser(work, n, FALSE)
           new == DemoData(user, id, thread)
<1>1. /\ SEED_COUNT \in Nat /\ m \in Nat /\ n \in Nat /\ n = m + 1
      /\ n \in SEED_COUNT + 1 .. SEED_COUNT + 3
      /\ pc[p] = "seeding" /\ work \in Database /\ disk \in Database
  BY BootAssumption DEF BootInv, BootTypeOK, SeedDemo
<1>2. SeedAt(disk, work, n)
  BY <1>1 DEF SeedInv, ProgressInv
<1>3. UsersAfter(n) = m
  BY <1>1 DEF UsersAfter
<1>4. thread \in SUBSET Nat /\ thread # {}
  <2>1. DemoThread \in Nat \ {0}
    BY BootAssumption
  <2>2. 1 \in 1 .. DemoThread /\ 1 \in 1 .. 1
    BY <2>1
  <2> QED BY <2>2
<1>5. Taken(work, n) => intruded[p]
  BY <1>1, <1>3, SeedNeverRefused DEF BootInv, BootTypeOK
<1>6. CASE Taken(work, n)
  <2>1. Throw(p)
    BY <1>6 DEF SeedDemo
  <2> QED BY <1>5, <1>6, <2>1, ThrowKeepsSeed
<1>7. CASE ~ Taken(work, n)
  <2>1. Statement(p, new)
    BY <1>7 DEF SeedDemo, DemoData
  <2> HIDE DEF thread
  <2>2. SeedAt(disk, new, n + 1)
    BY <1>1, <1>2, <1>4, <1>7, DemoUserProgress
  <2>3. n + 1 = at[p]
    BY <1>1 DEF BootInv, BootTypeOK
  <2> HIDE DEF new
  <2> QED BY <1>1, <2>1, <2>2, <2>3, StatementKeepsSeed
<1> QED BY <1>6, <1>7

LEMMA SeedingKeepsSeed ==
    ASSUME BootInv, SeedInv, NEW p \in Processes,
           BeginSeed(p) \/ SeedUser(p) \/ SeedArticles(p) \/ SeedDemo(p) \/ CommitSeed(p)
    PROVE  SeedInv'
<1>1. SEED_COUNT \in Nat /\ at[p] \in Nat /\ at[p] - 1 \in Nat /\ disk \in Database
      /\ work \in Database
  BY BootAssumption DEF BootInv, BootTypeOK
<1>2. pc[p] = "seeding" => SeedAt(disk, work, at[p] - 1)
  BY DEF SeedInv, ProgressInv
<1>3. CASE BeginSeed(p)
  <2>1. /\ disk' = disk /\ work' = work /\ at'[p] = 1 /\ pc[p] = "empty" /\ pc'[p] = "seeding"
        /\ writer = None /\ intruded' = intruded
        /\ \A q \in Processes : q # p => pc'[q] = pc[q]
    BY <1>3 DEF BeginSeed, BeginTransaction, Goto, BootInv, BootTypeOK
  <2>2. SeedAt(disk, work, 0)
    BY <1>1, <2>1, SeedBegins DEF SeedInv, ProgressInv, BootInv, BootTypeOK
  <2>3. \A q \in Processes : q # p => pc'[q] \notin {"wiping", "seeding"}
    BY <2>1, BootAssumption DEF BootInv, BootTypeOK
  <2>4. ProgressInv'
    BY <2>1, <2>2, <2>3 DEF SeedInv, ProgressInv
  <2>5. UndisturbedInv'
    BY <2>1 DEF SeedInv, UndisturbedInv
  <2> QED BY <2>4, <2>5 DEF SeedInv
<1>4. CASE SeedUser(p)
  BY <1>4, SeedUserKeepsSeed
<1>5. CASE SeedArticles(p)
  <2> DEFINE new == Attach(work, "kb_articles", 0, 1 .. Articles)
             k == at[p] - 1
  <2>1. pc[p] = "seeding" /\ k = SEED_COUNT /\ k \in Nat /\ k + 1 = at[p] /\ Statement(p, new)
    BY <1>1, <1>5 DEF SeedArticles
  <2>2. SeedAt(disk, work, k)
    BY <1>2, <2>1
  <2> HIDE DEF k
  <2>3. SeedAt(disk, new, k + 1)
    BY <1>1, <2>1, <2>2, ArticlesProgress
  <2> QED BY <2>1, <2>3, StatementKeepsSeed
<1>6. CASE SeedDemo(p)
  BY <1>6, SeedDemoKeepsSeed
<1>7. CASE CommitSeed(p)
  <2>1. pc[p] = "seeding" /\ at[p] - 1 = SEED_COUNT + 4
    BY <1>1, <1>7 DEF CommitSeed
  <2>2. WholeSeed(work, disk.lastUserId)
    BY <1>1, <1>2, <2>1, SeedEnds
  <2>3. Whole(work)
    BY <1>1, <2>2 DEF Whole, Database
  <2>4. ~ intruded[p] => WholeSeed(work, 0)
    BY <2>1, <2>2 DEF SeedInv, UndisturbedInv, Blank
  <2> QED BY <1>7, <2>1, <2>3, <2>4, CommitKeepsSeed DEF CommitSeed
<1> QED BY <1>3, <1>4, <1>5, <1>6, <1>7

LEMMA InsertRefundUnseeded ==
    ASSUME NEW db, Sound(db), NEW of \in Nat, ParentExists(db, "refunds", of)
    PROVE  \A t \in Tables : SeededIn(InsertRefund(db, of), t) = SeededIn(db, t)
<1> DEFINE d1 == AddLive(db, "refunds", of)
           d2 == AddLive(d1, "transactions", of)
           d3 == AddLive(d2, "audit_log", of)
<1>1. /\ {"refunds", "transactions", "audit_log", "subscriptions"} \subseteq DOMAIN References
      /\ References["refunds"] = "subscriptions" /\ References["subscriptions"] = "users"
      /\ References["transactions"] = "users" /\ References["audit_log"] = "users"
  BY DEF References
<1>2. {"refunds", "transactions", "audit_log"} \subseteq Tables
  BY TableNames
<1>3. ParentExists(db, "transactions", of)
  BY <1>1 DEF ParentExists, Sound
<1>4. Sound(d1) /\ ParentExists(d1, "transactions", of)
  BY <1>1, <1>3, AddLiveSound
<1>5. \A t \in Tables : SeededIn(d1, t) = SeededIn(db, t)
  BY <1>2, LiveRowUnseeded DEF Sound
<1> HIDE DEF d1
<1>6. Sound(d2)
  BY <1>1, <1>4, AddLiveSound
<1>7. \A t \in Tables : SeededIn(d2, t) = SeededIn(d1, t)
  BY <1>2, <1>4, LiveRowUnseeded DEF Sound
<1> HIDE DEF d2
<1>8. \A t \in Tables : SeededIn(d3, t) = SeededIn(d2, t)
  BY <1>2, <1>6, LiveRowUnseeded DEF Sound
<1> QED BY <1>5, <1>7, <1>8 DEF InsertRefund, d1, d2

LEMMA ServingKeepsSeed ==
    ASSUME BootInv, SeedInv, NEW p \in Processes, Serve(p)
    PROVE  SeedInv'
<1>1. disk \in Database /\ {"audit_log", "refunds", "transactions", "ticket_messages"} \subseteq Tables
  BY TableNames DEF BootInv, BootTypeOK
<1>2. ASSUME NEW n \in {0, SEED_COUNT + 1}, CreateUser(p, n)
      PROVE  SeedInv'
  <2> DEFINE user == AddUser(disk, n, TRUE)
             db == AddLive(user, "audit_log", user.lastUserId)
  <2>1. n \in Nat
    BY BootAssumption
  <2>2. user \in Database /\ \A t \in Tables : SeededIn(user, t) = SeededIn(disk, t)
    BY <1>1, <2>1, AddUserAdds, LiveUserUnseeded
  <2>3. Autocommit(p, db) /\ pc[p] = "ready" /\ Goto(p, "ready")
    BY <1>2 DEF CreateUser, Goto, BootInv, BootTypeOK
  <2> HIDE DEF user
  <2>4. \A t \in Tables : SeededIn(db, t) = SeededIn(disk, t)
    BY <1>1, <2>2, LiveRowUnseeded
  <2> HIDE DEF db
  <2> QED BY <2>3, <2>4, AutocommitKeepsSeed
<1>3. ASSUME NEW t \in {"refunds", "ticket_messages"}, ReadParent(p, t)
      PROVE  SeedInv'
  <2>1. pc[p] = "ready" /\ Goto(p, t) /\ UNCHANGED <<disk, work, at>> /\ intruded' = intruded
    BY <1>3 DEF ReadParent
  <2>2. ~ intruded[p] => WholeSeed(disk, 0)
    BY <2>1 DEF SeedInv, UndisturbedInv
  <2> QED BY <2>1, <2>2, GotoKeepsSeed
<1>4. CASE WriteChild(p)
  <2>1. pc[p] \in {"refunds", "ticket_messages"} /\ Goto(p, "ready") /\ at' = at
    BY <1>4 DEF WriteChild
  <2>2. CASE ~ ParentExists(disk, pc[p], read[p])
    <3>1. UNCHANGED <<disk, work, at>> /\ intruded' = intruded
      BY <1>4, <2>1, <2>2 DEF WriteChild
    <3>2. ~ intruded[p] => WholeSeed(disk, 0)
      BY <2>1 DEF SeedInv, UndisturbedInv
    <3> QED BY <2>1, <3>1, <3>2, GotoKeepsSeed
  <2>3. CASE ParentExists(disk, pc[p], read[p])
    <3> DEFINE of == read[p]
               db == IF pc[p] = "refunds" THEN InsertRefund(disk, of)
                     ELSE AddLive(disk, "ticket_messages", of)
    <3>1. Autocommit(p, db)
      BY <1>4, <2>3 DEF WriteChild
    <3>2. \A t \in Tables : SeededIn(db, t) = SeededIn(disk, t)
      <4>1. of \in Nat
        <5>1. pc[p] \in DOMAIN References /\ References[pc[p]] \in Tables
          BY <2>1, TableNames
        <5> QED BY <1>1, <2>3, <5>1 DEF ParentExists, Database, RowType
      <4> HIDE DEF of
      <4>2. pc[p] = "refunds" =>
              \A t \in Tables : SeededIn(InsertRefund(disk, of), t) = SeededIn(disk, t)
        BY <2>3, <4>1, InsertRefundUnseeded DEF BootInv, of
      <4>3. \A t \in Tables : SeededIn(AddLive(disk, "ticket_messages", of), t) = SeededIn(disk, t)
        BY <1>1, LiveRowUnseeded
      <4> QED BY <2>1, <4>2, <4>3
    <3> HIDE DEF db
    <3> QED BY <2>1, <3>1, <3>2, AutocommitKeepsSeed
  <2> QED BY <2>2, <2>3
<1> QED BY <1>2, <1>3, <1>4 DEF Serve

LEMMA BootStepKeepsSeed == BootInv /\ SeedInv /\ [Next]_vars => SeedInv'
<1> SUFFICES ASSUME BootInv, SeedInv, [Next]_vars PROVE SeedInv'
  OBVIOUS
<1>1. ASSUME NEW p \in Processes, Start(p) \/ BootStep(p)
      PROVE  SeedInv'
  BY <1>1, CreatingKeepsSeed, WipingKeepsSeed, SeedingKeepsSeed DEF BootStep
<1>2. ASSUME NEW p \in Processes, Crash(p)
      PROVE  SeedInv'
  BY <1>2, RollBackKeepsSeed DEF Crash
<1>3. ASSUME NEW p \in Processes, Serve(p)
      PROVE  SeedInv'
  BY <1>3, ServingKeepsSeed
<1>4. CASE UNCHANGED vars
  BY <1>4 DEF vars, SeedInv, ProgressInv, UndisturbedInv
<1> QED BY <1>1, <1>2, <1>3, <1>4 DEF Next

LEMMA SeedStarts == Init => SeedInv
<1> SUFFICES ASSUME Init PROVE SeedInv
  OBVIOUS
<1>1. \A t \in Tables : disk.rows[t] = {}
  BY DEF Init
<1>2. Unseeded(disk)
  BY <1>1 DEF Unseeded, SeededIn
<1>3. ProgressInv
  BY <1>2 DEF Init, ProgressInv, Whole
<1>4. UndisturbedInv
  BY DEF Init, UndisturbedInv
<1> QED BY <1>3, <1>4 DEF SeedInv

\* What is committed shows a whole seed or nothing of one, wherever the processes that
\* wipe, seed and serve die or overtake each other.
THEOREM SeedsAreWhole == Spec => []SeedIsWhole
<1>1. BootInv /\ SeedInv => SeedIsWhole
  <2> SUFFICES ASSUME SeedInv PROVE SeedIsWhole
    OBVIOUS
  <2>1. CASE Unseeded(disk)
    BY <2>1 DEF Unseeded, SeededIn, Seeded, SeedIsWhole
  <2>2. ASSUME NEW first \in Nat, WholeSeed(disk, first)
        PROVE  SeedIsWhole
    <3>1. OneSeed(first)
      BY <2>2, WholeSeedIsOneSeed
    <3>2. 1 \in SeedNumbers
      BY BootAssumption DEF SeedNumbers
    <3>3. Row(first + 1, 1, FALSE) \in Seeded("users")
      BY <3>1, <3>2 DEF OneSeed
    <3>4. Row(first + 1, 1, FALSE).n = 1 /\ Row(first + 1, 1, FALSE).of - 1 = first
      BY DEF Row
    <3> QED BY <3>1, <3>3, <3>4 DEF SeedIsWhole
  <2> QED BY <2>1, <2>2 DEF SeedInv, ProgressInv, Whole
<1> QED BY <1>1, BootStarts, BootStepKeepsInv, SeedStarts, BootStepKeepsSeed, PTL DEF Spec

\* A boot that nobody wrote into does not throw, and serves over ids that start from 1:
\* the foreign keys never refuse its wipe, nor an address or an id its seed.
THEOREM UndisturbedBootsSeed == Spec => []UndisturbedBootSeeds
<1>1. BootInv /\ SeedInv => UndisturbedBootSeeds
  BY WholeSeedIsOneSeed DEF SeedInv, UndisturbedInv, UndisturbedBootSeeds
<1> QED BY <1>1, BootStarts, BootStepKeepsInv, SeedStarts, BootStepKeepsSeed, PTL DEF Spec
=============================================================================
