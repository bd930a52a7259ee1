-------------------------- MODULE UserFlowProofs ---------------------------
(***************************************************************************)
(* What the flows over the users table promise: a batch is all or nothing, *)
(* and create accepts the rows it planned as long as its actor may create; *)
(* a domain suspension stays within its guardrails, also when it throws,   *)
(* and is complete when it ends normally, the answer of a flow is what the *)
(* log holds of it, and the risk score never decides what the other two    *)
(* gates do not.                                                           *)
(***************************************************************************)
EXTENDS UserAdminProofs, FiniteSetTheorems, WellFoundedInduction

-----------------------------------------------------------------------------
(* A batch is all or nothing *)

BatchInv ==
    /\ Running("onboard") => Lines("write_failed") = {}
    /\ OnboardIsAllOrNothing

\* No row fails its write before the write phase.
LEMMA VerdictIsNoFailure ==
    ASSUME NEW rows, NEW i PROVE Verdict(rows, i) # "write_failed"
BY DEF Verdict

LEMMA BatchStep == AdminInv /\ BatchInv /\ [Next]_vars => BatchInv'
<1> SUFFICES ASSUME AdminInv, BatchInv, [Next]_vars PROVE BatchInv'
  OBVIOUS
<1>0. FlowShape
  BY DEF AdminInv, FlowInv
<1>1. ASSUME flow'.kind # "onboard" PROVE BatchInv'
  BY <1>1 DEF BatchInv, OnboardIsAllOrNothing, Running
<1>2. CASE CreateUser \/ UpdateUser \/ SuspendUser
  BY <1>1, <1>2 DEF CreateUser, UpdateUser, SuspendUser, BeginCall, NoFlow
<1>3. ASSUME NEW actor \in Actors, NEW domain \in Domains, SuspendDomain(actor, domain)
      PROVE  BatchInv'
  <2>1. flow'.kind = "suspend"
    BY <1>3 DEF SuspendDomain, Begin
  <2> QED BY <1>1, <2>1
<1>4. ASSUME NEW actor \in Actors, NEW rows \in Batches, Onboard(actor, rows)
      PROVE  BatchInv'
  <2>1. CASE Begin("onboard", actor, rows, <<>>, "rejected")
    BY <2>1 DEF Begin, BatchInv, OnboardIsAllOrNothing, Running, Lines
  <2>2. CASE Begin("onboard", actor, rows, [i \in DOMAIN rows |-> Verdict(rows, i)], "running")
    BY <2>2, VerdictIsNoFailure DEF Begin, BatchInv, OnboardIsAllOrNothing, Running, Idle, Lines
  <2> QED BY <1>4, <2>1, <2>2 DEF Onboard
<1>5. ASSUME NEW actor \in Actors, NEW file \in Files, Import(actor, file)
      PROVE  BatchInv'
  <2>1. flow'.kind = "import"
    BY <1>5 DEF Import, Begin
  <2> QED BY <1>1, <2>1
<1>6. CASE SuspendNext \/ SuspendThrows \/ SuspendDone \/ ImportRow \/ ImportDone
  <2>1. flow.kind # "onboard"
    BY <1>6 DEF SuspendNext, SuspendThrows, SuspendDone, ImportRow, ImportDone, Running
  <2>2. flow'.kind = flow.kind
    BY <1>0, <1>6 DEF FlowShape, SuspendNext, SuspendThrows, SuspendDone, ImportRow, ImportDone, Mark
  <2> QED BY <1>1, <2>1, <2>2
<1>7. CASE OnboardRow
  <2>1. PICK i \in Lines("pending") : Mark(i, "created")
    BY <1>7 DEF OnboardRow
  <2>2. flow'.outcome = "running" /\ DOMAIN flow'.verdict = DOMAIN flow.verdict
        /\ \A j \in DOMAIN flow.verdict :
             flow'.verdict[j] = IF j = i THEN "created" ELSE flow.verdict[j]
    BY <1>0, <1>7, <2>1 DEF FlowShape, Mark, OnboardRow, Running, Lines
  <2>3. Lines("write_failed")' = {}
    BY <1>7, <2>2 DEF Lines, BatchInv, OnboardRow
  <2> QED BY <2>2, <2>3 DEF BatchInv, OnboardIsAllOrNothing, Idle
<1>8. CASE OnboardRollsBack
  <2> DEFINE w == [i \in DOMAIN flow.verdict |->
                     IF flow.verdict[i] \in {"pending", "created"} THEN "write_failed"
                     ELSE flow.verdict[i]]
  <2>1. flow'.outcome = "processed" /\ flow'.verdict = w /\ flow'.saved = flow.saved
        /\ flow'.first = flow.first
    BY <1>0, <1>8 DEF FlowShape, OnboardRollsBack, WriteFailed
  <2>2. Lines("created")' = {}
    BY <2>1 DEF Lines
  <2>3. Len(audit') = flow.first
    <3>1. /\ Running("onboard") /\ users' = flow.saved
          /\ audit' = SubSeq(audit, 1, flow.first) /\ past' = SubSeq(past, 1, flow.first)
      BY <1>8 DEF OnboardRollsBack, OnboardThrows
    <3> QED BY <3>1, RollbackKeepsLog
  <2> QED BY <1>8, <2>1, <2>2, <2>3 DEF BatchInv, OnboardIsAllOrNothing, Running, OnboardRollsBack
<1>9. CASE OnboardDone
  <2>1. flow'.outcome = "processed" /\ flow'.verdict = flow.verdict
    BY <1>0, <1>9 DEF FlowShape, OnboardDone
  <2>2. Lines("pending")' = {} /\ Lines("write_failed")' = {}
    BY <1>9, <2>1 DEF OnboardDone, BatchInv, Lines
  <2> QED BY <2>1, <2>2 DEF BatchInv, OnboardIsAllOrNothing, Running
<1>10. CASE UNCHANGED vars
  BY <1>10 DEF vars, BatchInv, OnboardIsAllOrNothing, Running, Idle, Lines
<1> QED BY <1>2, <1>3, <1>4, <1>5, <1>6, <1>7, <1>8, <1>9, <1>10 DEF Next

\* bulk_onboard_users creates every row that passed validation, or changes nothing.
THEOREM BatchesAreAllOrNothing == Spec => []OnboardIsAllOrNothing
<1>1. Init => BatchInv
  BY DEF Init, NoFlow, BatchInv, OnboardIsAllOrNothing, Running
<1>2. BatchInv => OnboardIsAllOrNothing
  BY DEF BatchInv
<1> QED BY <1>1, <1>2, BatchStep, AdminInvariant, PTL DEF Spec

-----------------------------------------------------------------------------
(* The rows a batch plans can be created *)

Creatable(row, table) ==
    /\ WellFormed(row) /\ row.role \in ROLES
    /\ ~ emailExists(table, Normal[row.email])

\* The rows still planned are free of the table and of each other.
PlannedInv ==
    Running("onboard") =>
        /\ \A i \in Lines("pending") : Creatable(flow.about[i], users)
        /\ \A i, j \in Lines("pending") : i # j => ~ SameEmail(flow.about[i], flow.about[j])

LEMMA PlanBegins ==
    ASSUME AdminInv, NEW actor \in Actors, NEW rows \in Batches, Onboard(actor, rows)
    PROVE  PlannedInv'
<1> DEFINE V == [i \in DOMAIN rows |-> Verdict(rows, i)]
<1>1. CASE Begin("onboard", actor, rows, <<>>, "rejected")
  BY <1>1 DEF Begin, PlannedInv, Running
<1>2. CASE Begin("onboard", actor, rows, V, "running")
  <2>1. flow'.about = rows /\ users' = users /\ flow'.verdict = V
    BY <1>2 DEF Onboard, Begin
  <2>2. rows \in Seq(InputRows) /\ DOMAIN rows = 1 .. Len(rows) /\ Len(rows) \in Nat
    BY UserAdminAssumption
  <2>3. \A i \in Lines("pending")' : i \in DOMAIN rows /\ Verdict(rows, i) = "pending"
    BY <2>1 DEF Lines
  <2>4. ASSUME NEW i \in DOMAIN rows, Verdict(rows, i) = "pending"
        PROVE  /\ Creatable(rows[i], users)
               /\ \A j \in 1 .. i - 1 : SameEmail(rows[j], rows[i]) => ~ Creatable(rows[j], users)
    BY <2>4 DEF Verdict, Creatable
  <2>5. ASSUME NEW i \in Lines("pending")', NEW j \in Lines("pending")', i # j
        PROVE  ~ SameEmail(rows[i], rows[j])
    <3>1. i \in 1 .. Len(rows) /\ j \in 1 .. Len(rows)
      BY <2>2, <2>3
    <3>2. Creatable(rows[i], users) /\ Creatable(rows[j], users)
      BY <2>3, <2>4
    <3>3. CASE i < j
      <4>1. i \in 1 .. j - 1
        BY <3>1, <3>3
      <4> QED BY <4>1, <3>2, <2>3, <2>4
    <3>4. CASE j < i
      <4>1. j \in 1 .. i - 1
        BY <3>1, <3>4
      <4>2. ~ SameEmail(rows[j], rows[i])
        BY <4>1, <3>2, <2>3, <2>4
      <4> QED BY <4>2 DEF SameEmail
    <3> QED BY <3>1, <3>3, <3>4, <2>5
  <2> QED BY <2>1, <2>3, <2>4, <2>5 DEF PlannedInv
<1> QED BY <1>1, <1>2 DEF Onboard

LEMMA PlanGoesOn ==
    ASSUME AdminInv, PlannedInv, OnboardRow
    PROVE  PlannedInv'
<1>1. FlowShape /\ Running("onboard")
  BY DEF AdminInv, FlowInv, OnboardRow
<1>2. PICK i \in Lines("pending") : create(flow.actor, flow.about[i]) /\ Mark(i, "created")
  BY DEF OnboardRow
<1>3. flow'.about = flow.about /\ Lines("pending")' = Lines("pending") \ {i}
  BY <1>1, <1>2 DEF FlowShape, Mark, Lines
<1>4. users \in Seq(UserRows)
  BY DEF AdminInv, LogInv, Tables
<1> DEFINE row == flow.about[i]
           new == [email |-> Normal[row.email], role |-> row.role, status |-> "active"]
<1>5. users' = Append(users, new)
  BY <1>2 DEF create
<1>6. ASSUME NEW j \in Lines("pending")'
      PROVE  Creatable(flow.about[j], users')
  <2>1. /\ Creatable(flow.about[j], users)
        /\ ~ SameEmail(flow.about[i], flow.about[j])
    BY <1>1, <1>2, <1>3 DEF PlannedInv
  <2>2. new.email # Normal[flow.about[j].email]
    BY <2>1 DEF SameEmail
  <2> HIDE DEF new
  <2>3. \A id \in DOMAIN users' : \/ id \in DOMAIN users /\ users'[id] = users[id]
                                 \/ users'[id] = new
    BY <1>4, <1>5
  <2>4. ~ emailExists(users', Normal[flow.about[j].email])
    BY <2>1, <2>2, <2>3 DEF Creatable, emailExists
  <2> QED BY <2>1, <2>4 DEF Creatable
<1> QED BY <1>1, <1>3, <1>6 DEF PlannedInv

LEMMA PlanStep == AdminInv /\ PlannedInv /\ [Next]_vars => PlannedInv'
<1> SUFFICES ASSUME AdminInv, PlannedInv, [Next]_vars PROVE PlannedInv'
  OBVIOUS
<1>0. FlowShape
  BY DEF AdminInv, FlowInv
<1>1. ASSUME ~ Running("onboard")' PROVE PlannedInv'
  BY <1>1 DEF PlannedInv
<1>2. CASE CreateUser \/ UpdateUser \/ SuspendUser
  BY <1>1, <1>2 DEF CreateUser, UpdateUser, SuspendUser, BeginCall, NoFlow, Running
<1>3. ASSUME NEW actor, NEW given, SuspendDomain(actor, given) \/ Import(actor, given)
      PROVE  PlannedInv'
  BY <1>1, <1>3 DEF SuspendDomain, Import, Begin, Running
<1>4. CASE SuspendNext \/ SuspendThrows \/ SuspendDone \/ ImportRow \/ ImportDone
  <2>1. flow.kind # "onboard"
    BY <1>4 DEF SuspendNext, SuspendThrows, SuspendDone, ImportRow, ImportDone, Running
  <2>2. flow'.kind = flow.kind
    BY <1>0, <1>4 DEF FlowShape, SuspendNext, SuspendThrows, SuspendDone, ImportRow, ImportDone, Mark
  <2> QED BY <1>1, <2>1, <2>2 DEF Running
<1>5. CASE OnboardRollsBack \/ OnboardDone
  <2>1. flow'.outcome = "processed"
    BY <1>0, <1>5 DEF FlowShape, OnboardRollsBack, WriteFailed, OnboardDone
  <2> QED BY <1>1, <2>1 DEF Running
<1>6. CASE UNCHANGED vars
  BY <1>6 DEF vars, PlannedInv, Running, Lines
<1> QED BY <1>2, <1>3, <1>4, <1>5, <1>6, PlanBegins, PlanGoesOn DEF Next

\* create accepts every row a running batch still plans, as long as its actor may create.
THEOREM PlansCanBeCarriedOut == Spec => []PlannedRowsCanBeCreated
<1>1. Init => PlannedInv
  BY DEF Init, NoFlow, PlannedInv, Running
<1>2. PlannedInv => PlannedRowsCanBeCreated
  BY DEF PlannedInv, PlannedRowsCanBeCreated, Creatable, WellFormed, mayCreate
<1> QED BY <1>1, <1>2, PlanStep, AdminInvariant, PTL DEF Spec

-----------------------------------------------------------------------------
(* An import reports every line of its file *)

ImportInv ==
    flow.kind = "import" =>
        /\ flow.about \in Files /\ DOMAIN flow.verdict = DOMAIN parseCsv(flow.about)
        /\ \A n \in DOMAIN flow.verdict : flow.verdict[n] \in {"pending", "created", "failed"}
        /\ flow.outcome # "running" => Lines("pending") = {}
        /\ \A n \in Lines("created") : \E k \in Since :
             /\ audit[k].applied.email = Normal[parseCsv(flow.about)[n].email]
             /\ audit[k].applied.email \in ValidEmails

LEMMA ImportGoesOn == AdminInv /\ ImportInv /\ ImportRow => ImportInv'
<1> SUFFICES ASSUME AdminInv, ImportInv, ImportRow PROVE ImportInv'
  OBVIOUS
<1> DEFINE email(n) == Normal[parseCsv(flow.about)[n].email]
<1>1. FlowShape /\ flow.kind = "import" /\ flow.outcome = "running"
  BY DEF AdminInv, FlowInv, ImportRow, Running
<1>2. PICK i \in Lines("pending") :
         \/ create(flow.actor, parseCsv(flow.about)[i]) /\ Mark(i, "created")
         \/ Mark(i, "failed") /\ UNCHANGED <<users, audit, past>>
  BY DEF ImportRow
<1>3. PICK v \in {"created", "failed"} :
         /\ Mark(i, v)
         /\ v = "created" => create(flow.actor, parseCsv(flow.about)[i])
         /\ v = "failed" => UNCHANGED <<users, audit, past>>
  BY <1>2
<1>4. i \in DOMAIN flow.verdict
  BY DEF Lines
<1>5. /\ flow'.kind = flow.kind /\ flow'.about = flow.about /\ flow'.first = flow.first
      /\ flow'.outcome = "running" /\ DOMAIN flow'.verdict = DOMAIN flow.verdict
      /\ \A j \in DOMAIN flow.verdict :
           flow'.verdict[j] = IF j = i THEN v ELSE flow.verdict[j]
  BY <1>1, <1>3, <1>4 DEF FlowShape, Mark
<1>6. Len(audit) \in Nat /\ flow.first \in 0 .. Len(audit) /\ audit \in Seq(Entries)
  BY DEF AdminInv, LogInv, FlowInv
<1>7. /\ Since \subseteq Since' /\ \A k \in Since : audit'[k] = audit[k]
      /\ v = "created" => \E k \in Since' : /\ audit'[k].applied.email = email(i)
                                             /\ audit'[k].applied.email \in ValidEmails
  <2>1. CASE v = "failed"
    BY <1>3, <1>5, <2>1 DEF Since
  <2>2. CASE v = "created"
    <3> DEFINE row == parseCsv(flow.about)[i]
               new == [email |-> Normal[row.email], role |-> row.role, status |-> "active"]
               e == [actor |-> flow.actor, action |-> "create_user",
                     target |-> Len(users) + 1, before |-> Nothing, applied |-> new]
    <3>1. audit' = Append(audit, e) /\ new.email \in ValidEmails
      BY <1>3, <2>2 DEF create, mayCreate, Record
    <3>2. e.applied.email = email(i)
      OBVIOUS
    <3> HIDE DEF e
    <3>3. /\ Len(audit') = Len(audit) + 1 /\ audit'[Len(audit) + 1] = e
          /\ \A k \in 1 .. Len(audit) : audit'[k] = audit[k]
      BY <1>6, <3>1
    <3>4. Len(audit) + 1 \in Since' /\ Since \subseteq Since' /\ Since \subseteq 1 .. Len(audit)
      BY <1>5, <1>6, <3>3 DEF Since
    <3>5. e.applied.email \in ValidEmails
      BY <3>1 DEF e
    <3> QED BY <3>2, <3>3, <3>4, <3>5
  <2> QED BY <2>1, <2>2
<1> HIDE DEF email
<1>8. ASSUME NEW n \in Lines("created")'
      PROVE  \E k \in Since' : /\ audit'[k].applied.email = email(n)
                               /\ audit'[k].applied.email \in ValidEmails
  <2>1. CASE n = i
    <3>1. v = "created"
      BY <1>4, <1>5, <2>1 DEF Lines
    <3> QED BY <1>7, <2>1, <3>1
  <2>2. CASE n # i
    <3>1. n \in Lines("created")
      BY <1>5, <2>2 DEF Lines
    <3>2. PICK k \in Since : /\ audit[k].applied.email = email(n)
                             /\ audit[k].applied.email \in ValidEmails
      BY <1>1, <3>1 DEF ImportInv, email
    <3> QED BY <1>7, <3>2
  <2> QED BY <2>1, <2>2
<1>9. \A n \in DOMAIN flow'.verdict : flow'.verdict[n] \in {"pending", "created", "failed"}
  BY <1>1, <1>3, <1>5 DEF ImportInv
<1> QED BY <1>1, <1>5, <1>8, <1>9 DEF ImportInv, email

LEMMA ImportStep == AdminInv /\ ImportInv /\ [Next]_vars => ImportInv'
<1> SUFFICES ASSUME AdminInv, ImportInv, [Next]_vars PROVE ImportInv'
  OBVIOUS
<1>0. FlowShape
  BY DEF AdminInv, FlowInv
<1>1. ASSUME flow'.kind # "import" PROVE ImportInv'
  BY <1>1 DEF ImportInv
<1>2. CASE CreateUser \/ UpdateUser \/ SuspendUser
  BY <1>1, <1>2 DEF CreateUser, UpdateUser, SuspendUser, BeginCall, NoFlow
<1>3. ASSUME NEW actor \in Actors, NEW given, SuspendDomain(actor, given) \/ Onboard(actor, given)
      PROVE  ImportInv'
  <2>1. flow'.kind # "import"
    BY <1>3 DEF SuspendDomain, Onboard, Begin
  <2> QED BY <1>1, <2>1
<1>4. ASSUME NEW actor \in Actors, NEW file \in Files, Import(actor, file) PROVE ImportInv'
  <2> DEFINE V == [n \in DOMAIN parseCsv(file) |-> "pending"]
  <2>1. flow' = [kind |-> "import", actor |-> actor, about |-> file, verdict |-> V,
                 outcome |-> "running", first |-> Len(audit), saved |-> users]
    BY <1>4 DEF Import, Begin
  <2>2. Lines("created")' = {}
    BY <2>1 DEF Lines
  <2> QED BY <2>1, <2>2 DEF ImportInv
<1>5. CASE SuspendNext \/ SuspendThrows \/ SuspendDone \/ OnboardRow \/ OnboardRollsBack \/ OnboardDone
  <2>1. flow.kind # "import"
    BY <1>5 DEF SuspendNext, SuspendThrows, SuspendDone, OnboardRow, OnboardRollsBack,
       OnboardThrows, OnboardDone, Running
  <2>2. flow'.kind = flow.kind
    BY <1>0, <1>5 DEF FlowShape, SuspendNext, SuspendThrows, SuspendDone, OnboardRow,
       OnboardRollsBack, WriteFailed, OnboardDone, Mark
  <2> QED BY <1>1, <2>1, <2>2
<1>6. CASE ImportDone
  <2>1. /\ flow'.kind = flow.kind /\ flow'.about = flow.about /\ flow'.verdict = flow.verdict
        /\ flow'.first = flow.first /\ audit' = audit /\ Lines("pending") = {}
    BY <1>0, <1>6 DEF FlowShape, ImportDone
  <2>2. /\ Lines("created")' = Lines("created") /\ Lines("pending")' = Lines("pending")
        /\ Since' = Since
    BY <2>1 DEF Lines, Since
  <2> QED BY <2>1, <2>2 DEF ImportInv
<1>7. CASE UNCHANGED vars
  <2>1. /\ Lines("created")' = Lines("created") /\ Lines("pending")' = Lines("pending")
        /\ Since' = Since
    BY <1>7 DEF vars, Lines, Since
  <2> QED BY <1>7, <2>1 DEF vars, ImportInv
<1> QED BY <1>2, <1>3, <1>4, <1>5, <1>6, <1>7, ImportGoesOn DEF Next

\* What the invariant says of the parsed rows, said of the file.
LEMMA ReportedLines ==
    ASSUME AdminInv, ImportInv
    PROVE  ImportReportsTheFile
<1> DEFINE file == flow.about
           reported == Lines("created") \cup Lines("failed")
           InLine(n, email) == \E i \in DOMAIN file[n] : Normal[file[n][i]] = email
<1> SUFFICES ASSUME flow.kind = "import", Idle
             PROVE  /\ \A n \in reported : n \in DOMAIN file /\ file[n] # <<>>
                    /\ \A n \in Lines("created") : \E k \in Since : InLine(n, audit[k].applied.email)
                    /\ \A n \in DOMAIN file \ reported :
                         file[n] # <<>> => InLine(n, "email") /\ \A m \in 1 .. n - 1 : file[m] = <<>>
  BY DEF ImportReportsTheFile
<1>1. reported = Written(file) \ HeaderLines(file)
  BY DEF ImportInv, Idle, Lines, parseCsv
<1>2. \A n \in reported : n \in DOMAIN file /\ file[n] # <<>>
  BY <1>1 DEF Written
<1>3. ASSUME NEW n \in Lines("created")
      PROVE  \E k \in Since : InLine(n, audit[k].applied.email)
  <2>1. n \in Written(file) \ HeaderLines(file)
    BY <1>1
  <2>2. PICK k \in Since : /\ audit[k].applied.email = Normal[parseCsv(file)[n].email]
                           /\ audit[k].applied.email \in ValidEmails
    BY DEF ImportInv
  <2>3. parseCsv(file)[n].email = CellAt(file[n], Columns(file).email)
    BY <2>1 DEF parseCsv, RowAt
  <2>4. Columns(file).email \in DOMAIN file[n]
    <3>1. SUFFICES ASSUME Columns(file).email \notin DOMAIN file[n]
                   PROVE  FALSE
      OBVIOUS
    <3>2. parseCsv(file)[n].email = Blank
      BY <3>1, <2>3 DEF CellAt
    <3>3. Normal[Blank] \notin ValidEmails
      BY UserAdminAssumption
    <3> QED BY <3>2, <3>3, <2>2
  <2>5. audit[k].applied.email = Normal[file[n][Columns(file).email]]
    BY <2>2, <2>3, <2>4 DEF CellAt
  <2> QED BY <2>4, <2>5
<1>4. ASSUME NEW n \in DOMAIN file \ reported, file[n] # <<>>
      PROVE  InLine(n, "email") /\ \A m \in 1 .. n - 1 : file[m] = <<>>
  <2>1. n \in HeaderLines(file)
    BY <1>1, <1>4 DEF Written
  <2>2. InLine(n, "email")
    BY <2>1 DEF HeaderLines, Places
  <2>3. DOMAIN file = 1 .. Len(file) /\ Len(file) \in Nat
    BY DEF ImportInv
  <2>4. ASSUME NEW m \in 1 .. n - 1 PROVE file[m] = <<>>
    <3>1. n \in 1 .. Len(file) /\ m \in DOMAIN file /\ ~ (n <= m)
      BY <2>3
    <3> QED BY <2>1, <3>1 DEF HeaderLines, Written
  <2> QED BY <2>2, <2>4
<1> QED BY <1>2, <1>3, <1>4

\* Whatever the file, an import accounts for every written line of it but a header.
THEOREM ImportsReportTheFile == Spec => []ImportReportsTheFile
<1>1. Init => ImportInv
  BY DEF Init, NoFlow, ImportInv
<1> QED BY <1>1, ImportStep, ReportedLines, AdminInvariant, PTL DEF Spec

-----------------------------------------------------------------------------
(* A domain suspension stays within its guardrails *)

Spared(row) == row.role # "admin" /\ row.status # "deleted"

SuspensionInv ==
    flow.kind = "suspend" =>
        /\ IsFiniteSet(DOMAIN flow.verdict) /\ Cardinality(DOMAIN flow.verdict) <= MaxAutoSuspend
        /\ Len(audit) = flow.first + Cardinality(Lines("suspended"))
        /\ flow.outcome = "running" => \A id \in Lines("pending") : Spared(users[id])
        /\ \A n \in Since : Spared(TableAt(n)[audit[n].target])

LEMMA SuspensionBegins ==
    ASSUME AdminInv, NEW actor \in Actors, NEW domain \in Domains, SuspendDomain(actor, domain)
    PROVE  SuspensionInv'
<1> DEFINE ids == findByDomain(domain)
           V == [id \in ids |-> IF users[id].status = "deleted" THEN "left_alone" ELSE "pending"]
<1>1. Len(audit) \in Nat /\ audit' = audit /\ users' = users
  BY DEF AdminInv, LogInv, SuspendDomain
<1>2. flow'.first = Len(audit) => Since' = {}
  BY <1>1 DEF Since
<1>3. ASSUME NEW outcome \in {"no_matches", "escalated"},
             Begin("suspend", actor, domain, <<>>, outcome)
      PROVE  SuspensionInv'
  <2>1. DOMAIN flow'.verdict = {} /\ flow'.first = Len(audit) /\ flow'.outcome # "running"
    BY <1>3 DEF Begin
  <2>2. Lines("suspended")' = {}
    BY <2>1 DEF Lines
  <2>3. IsFiniteSet({}) /\ Cardinality({}) = 0 /\ MaxAutoSuspend \in Nat
    BY FS_EmptySet, UserAdminAssumption
  <2>4. IsFiniteSet(DOMAIN flow'.verdict) /\ Cardinality(DOMAIN flow'.verdict) <= MaxAutoSuspend
    BY <2>1, <2>3
  <2>5. Len(audit') = flow'.first + Cardinality(Lines("suspended")')
    <3>1. Cardinality(Lines("suspended")') = 0
      BY <2>2, <2>3
    <3>2. Len(audit') = flow'.first /\ flow'.first \in Nat
      BY <1>1, <2>1
    <3> QED BY <3>1, <3>2
  <2> QED BY <1>2, <2>1, <2>4, <2>5 DEF SuspensionInv
<1>4. CASE /\ Begin("suspend", actor, domain, V, "running") /\ ~ NeedsHuman(ids)
  <2>1. flow'.verdict = V /\ DOMAIN V = ids /\ flow'.first = Len(audit)
    BY <1>4 DEF Begin
  <2>2. ids \subseteq 1 .. Len(users) /\ Len(users) \in Nat
    BY DEF findByDomain, AdminInv, LogInv, Tables
  <2>3. IsFiniteSet(ids)
    <3>1. IsFiniteSet(1 .. Len(users))
      BY <2>2, FS_Interval
    <3> QED BY <2>2, <3>1, FS_Subset
  <2>4. Cardinality(ids) <= MaxAutoSuspend /\ \A id \in ids : users[id].role # "admin"
    <3>1. ~ (Cardinality(ids) > MaxAutoSuspend) /\ \A id \in ids : users[id].role # "admin"
      BY <1>4 DEF NeedsHuman
    <3>2. Cardinality(ids) \in Nat
      BY <2>3, FS_CardinalityType
    <3> HIDE DEF ids
    <3> QED BY <3>1, <3>2, UserAdminAssumption
  <2>5. Lines("suspended")' = {}
    BY <2>1 DEF Lines
  <2>6. \A id \in Lines("pending")' : Spared(users[id])
    BY <2>1, <2>4 DEF Lines, Spared
  <2>7. Len(audit') = flow'.first + Cardinality(Lines("suspended")')
    <3>1. Cardinality({}) = 0
      BY FS_EmptySet
    <3>2. Cardinality(Lines("suspended")') = 0
      BY <2>5, <3>1
    <3>3. Len(audit') = flow'.first /\ flow'.first \in Nat
      BY <1>1, <2>1
    <3> QED BY <3>2, <3>3
  <2>8. \A id \in Lines("pending")' : Spared(users'[id])
    BY <1>1, <2>6
  <2>9. IsFiniteSet(DOMAIN flow'.verdict) /\ Cardinality(DOMAIN flow'.verdict) <= MaxAutoSuspend
    BY <2>1, <2>3, <2>4
  <2>10. Since' = {}
    BY <1>2, <2>1
  <2> QED BY <2>7, <2>8, <2>9, <2>10 DEF SuspensionInv
<1> QED BY <1>3, <1>4 DEF SuspendDomain

LEMMA SuspensionGoesOn ==
    ASSUME AdminInv, SuspensionInv, SuspendNext
    PROVE  SuspensionInv'
<1>1. FlowShape /\ flow.kind = "suspend" /\ flow.outcome = "running"
  BY DEF AdminInv, FlowInv, SuspendNext, Running
<1>2. PICK id \in Lines("pending") : suspend(flow.actor, id) /\ Mark(id, "suspended")
  BY DEF SuspendNext
<1>3. id \in DOMAIN flow.verdict /\ id \in DOMAIN users /\ flow.actor \in Actors
      /\ flow.verdict[id] = "pending"
  BY <1>1, <1>2 DEF AdminInv, FlowInv, Running, Lines
<1>4. /\ Len(audit') = Len(audit) + 1
      /\ \A i \in 1 .. Len(audit) + 1 : TableAt(i)' = TableAt(i)
      /\ \A i \in 1 .. Len(audit) : audit'[i] = audit[i]
  BY <1>2, <1>3, SuspendKeepsLog DEF AdminInv
<1>5. Len(audit) \in Nat /\ flow.first \in 0 .. Len(audit) /\ audit \in Seq(Entries)
      /\ users \in Seq(UserRows)
  BY DEF AdminInv, LogInv, FlowInv, Tables
<1>6. /\ flow'.first = flow.first /\ flow'.outcome = "running"
      /\ DOMAIN flow'.verdict = DOMAIN flow.verdict
      /\ \A j \in DOMAIN flow.verdict :
           flow'.verdict[j] = IF j = id THEN "suspended" ELSE flow.verdict[j]
  BY <1>1, <1>2, <1>3 DEF FlowShape, Mark
<1>7. audit'[Len(audit) + 1].target = id
  BY <1>2, <1>5 DEF suspend, Record
<1>8. TableAt(Len(audit) + 1) = users
  BY <1>5 DEF TableAt
<1>9. Spared(users[id])
  BY <1>1, <1>2 DEF SuspensionInv
<1>10. \A n \in Since' : Spared(TableAt(n)'[audit'[n].target])
  <2> SUFFICES ASSUME NEW n \in Since' PROVE Spared(TableAt(n)'[audit'[n].target])
    OBVIOUS
  <2>1. n \in flow.first + 1 .. Len(audit) + 1 /\ n \in 1 .. Len(audit) + 1
    BY <1>4, <1>5, <1>6 DEF Since
  <2>2. CASE n = Len(audit) + 1
    BY <2>1, <2>2, <1>4, <1>7, <1>8, <1>9
  <2>3. CASE n \in flow.first + 1 .. Len(audit)
    <3>1. TableAt(n)' = TableAt(n) /\ audit'[n] = audit[n]
      BY <2>1, <2>3, <1>4, <1>5
    <3> QED BY <3>1, <2>3, <1>1 DEF SuspensionInv, Since
  <2> QED BY <2>1, <2>2, <2>3, <1>5
<1>11. \A j \in Lines("pending")' : Spared(users'[j])
  <2> SUFFICES ASSUME NEW j \in Lines("pending")' PROVE Spared(users'[j])
    OBVIOUS
  <2>1. j \in Lines("pending") /\ j # id
    BY <1>6 DEF Lines
  <2>2. j \in DOMAIN users
    BY <2>1, <1>1 DEF Lines, AdminInv, FlowInv, Running
  <2>3. users'[j] = users[j]
    BY <1>2, <2>1, <2>2 DEF suspend
  <2> QED BY <2>1, <2>3, <1>1 DEF SuspensionInv
<1>12. Lines("suspended")' = Lines("suspended") \cup {id} /\ id \notin Lines("suspended")
  BY <1>3, <1>6 DEF Lines
<1>13. Cardinality(Lines("suspended")') = Cardinality(Lines("suspended")) + 1
  <2>1. Lines("suspended") \in SUBSET DOMAIN flow.verdict
    BY DEF Lines
  <2>2. IsFiniteSet(Lines("suspended"))
    BY <1>1, <2>1, FS_Subset DEF SuspensionInv
  <2> QED BY <1>12, <2>2, FS_AddElement
<1>14. Len(audit') = flow'.first + Cardinality(Lines("suspended")')
  <2>1. Len(audit) = flow.first + Cardinality(Lines("suspended"))
    BY <1>1 DEF SuspensionInv
  <2>2. Cardinality(Lines("suspended")) \in Nat
    <3>1. Lines("suspended") \in SUBSET DOMAIN flow.verdict
      BY DEF Lines
    <3> QED BY <1>1, <3>1, FS_Subset, FS_CardinalityType DEF SuspensionInv
  <2> QED BY <2>1, <2>2, <1>4, <1>5, <1>6, <1>13
<1> QED BY <1>1, <1>6, <1>10, <1>11, <1>14 DEF SuspensionInv

LEMMA SuspensionStep == AdminInv /\ SuspensionInv /\ [Next]_vars => SuspensionInv'
<1> SUFFICES ASSUME AdminInv, SuspensionInv, [Next]_vars PROVE SuspensionInv'
  OBVIOUS
<1>0. FlowShape
  BY DEF AdminInv, FlowInv
<1>1. ASSUME flow'.kind # "suspend" PROVE SuspensionInv'
  BY <1>1 DEF SuspensionInv
<1>2. CASE CreateUser \/ UpdateUser \/ SuspendUser
  BY <1>1, <1>2 DEF CreateUser, UpdateUser, SuspendUser, BeginCall, NoFlow
<1>3. ASSUME NEW actor \in Actors, NEW given, Onboard(actor, given) \/ Import(actor, given)
      PROVE  SuspensionInv'
  BY <1>1, <1>3 DEF Onboard, Import, Begin
<1>4. CASE OnboardRow \/ OnboardRollsBack \/ OnboardDone \/ ImportRow \/ ImportDone
  <2>1. flow.kind # "suspend"
    BY <1>4 DEF OnboardRow, OnboardRollsBack, OnboardThrows, OnboardDone, ImportRow, ImportDone, Running
  <2>2. flow'.kind = flow.kind
    BY <1>0, <1>4 DEF FlowShape, OnboardRow, OnboardRollsBack, WriteFailed, OnboardDone, ImportRow,
                      ImportDone, Mark
  <2> QED BY <1>1, <2>1, <2>2
<1>5. CASE SuspendThrows \/ SuspendDone
  <2>1. /\ UNCHANGED <<users, audit, past>> /\ flow'.verdict = flow.verdict
        /\ flow'.first = flow.first /\ flow'.kind = flow.kind /\ flow'.outcome # "running"
    BY <1>0, <1>5 DEF FlowShape, SuspendThrows, SuspendDone
  <2>2. /\ Lines("suspended")' = Lines("suspended") /\ Since' = Since
        /\ \A n \in Since' : TableAt(n)' = TableAt(n)
    BY <2>1 DEF Lines, Since, TableAt
  <2> QED BY <2>1, <2>2 DEF SuspensionInv
<1>6. CASE UNCHANGED vars
  <2>1. /\ Lines("suspended")' = Lines("suspended") /\ Since' = Since
        /\ Lines("pending")' = Lines("pending")
        /\ \A n \in Since' : TableAt(n)' = TableAt(n)
    BY <1>6 DEF vars, Lines, Since, TableAt
  <2> QED BY <1>6, <2>1 DEF vars, SuspensionInv
<1> QED BY <1>2, <1>3, <1>4, <1>5, <1>6, SuspensionBegins, SuspensionGoesOn DEF Next

\* One invocation of suspend_users_by_domain suspends at most MAX_AUTO_SUSPEND accounts,
\* no administrator's and no deleted one, however it ends.
THEOREM DomainSuspensionsAreBounded == Spec => []DomainSuspensionIsBounded
<1>1. Init => SuspensionInv
  BY DEF Init, NoFlow, SuspensionInv
<1>2. AdminInv /\ SuspensionInv => DomainSuspensionIsBounded
  <2> SUFFICES ASSUME AdminInv, SuspensionInv, flow.kind = "suspend"
               PROVE  /\ Cardinality(Since) <= MaxAutoSuspend
                      /\ \A n \in Since : Spared(TableAt(n)[audit[n].target])
    BY DEF DomainSuspensionIsBounded, Spared
  <2>1. flow.first \in 0 .. Len(audit) /\ Len(audit) \in Nat
    BY DEF AdminInv, LogInv, FlowInv
  <2>2. Cardinality(Since) = Len(audit) - flow.first
    <3>1. flow.first + 1 \in Int /\ Len(audit) \in Int
      BY <2>1
    <3>2. Cardinality(flow.first + 1 .. Len(audit)) =
            IF flow.first + 1 > Len(audit) THEN 0 ELSE Len(audit) - (flow.first + 1) + 1
      BY <3>1, FS_Interval
    <3> QED BY <2>1, <3>2 DEF Since
  <2>3. /\ Cardinality(Lines("suspended")) <= Cardinality(DOMAIN flow.verdict)
        /\ Cardinality(Lines("suspended")) \in Nat /\ Cardinality(DOMAIN flow.verdict) \in Nat
    <3>1. Lines("suspended") \in SUBSET DOMAIN flow.verdict /\ IsFiniteSet(DOMAIN flow.verdict)
      BY DEF Lines, SuspensionInv
    <3> QED BY <3>1, FS_Subset, FS_CardinalityType
  <2>4. Cardinality(Since) = Cardinality(Lines("suspended"))
    BY <2>1, <2>2, <2>3 DEF SuspensionInv
  <2> QED BY <2>3, <2>4, UserAdminAssumption DEF SuspensionInv
<1> QED BY <1>1, <1>2, SuspensionStep, AdminInvariant, PTL DEF Spec

-----------------------------------------------------------------------------
(* The score of a small domain without an administrator *)

\* With at most five accounts and no administrator the score stays below "high".
LEMMA SmallDomainsScoreLow ==
    ASSUME NEW editors \in Nat, NEW matched \in Nat, NEW active \in Nat,
           editors <= matched, active <= matched, matched <= 5
    PROVE  RiskScore(0, editors, matched, active) < HighRisk
BY DEF RiskScore, AtMost, HighRisk

\* At the limits of the code (MAX_AUTO_SUSPEND = 3, MAX_SUSPEND_PER_INVOCATION = 50) the
\* number of matches and the administrators among them decide: neither the risk level
\* nor the hard ceiling of suspend_users_by_domain ever adds an escalation.
THEOREM FirstGatesDecide ==
    ASSUME MaxAutoSuspend <= 5, MaxAutoSuspend <= MaxSuspendPerInvocation,
           NEW ids, IsFiniteSet(ids)
    PROVE  NeedsHuman(ids) <=> \/ Cardinality(ids) > MaxAutoSuspend
                               \/ \E id \in ids : users[id].role = "admin"
<1> DEFINE admins == {id \in ids : users[id].role = "admin"}
           editors == {id \in ids : users[id].role = "editor"}
           active == {id \in ids : users[id].status = "active"}
<1>1. MaxAutoSuspend \in Nat /\ MaxSuspendPerInvocation \in Nat
  BY UserAdminAssumption
<1>2. Cardinality(ids) \in Nat
  BY FS_CardinalityType
<1>3. ASSUME Cardinality(ids) <= MaxAutoSuspend, \A id \in ids : users[id].role # "admin"
      PROVE  ~ NeedsHuman(ids)
  <2>1. admins = {} /\ Cardinality(admins) = 0
    <3>1. admins = {}
      BY <1>3
    <3>2. Cardinality({}) = 0
      BY FS_EmptySet
    <3> QED BY <3>1, <3>2
  <2>2. /\ Cardinality(editors) \in Nat /\ Cardinality(editors) <= Cardinality(ids)
        /\ Cardinality(active) \in Nat /\ Cardinality(active) <= Cardinality(ids)
    <3>1. editors \in SUBSET ids /\ active \in SUBSET ids
      OBVIOUS
    <3>2. IsFiniteSet(editors) /\ IsFiniteSet(active)
      BY <3>1, FS_Subset
    <3>3. Cardinality(editors) <= Cardinality(ids) /\ Cardinality(active) <= Cardinality(ids)
      BY <3>1, FS_Subset
    <3> HIDE DEF editors, active
    <3> QED BY <3>2, <3>3, FS_CardinalityType
  <2>3. assessDomainRisk(ids) = RiskScore(0, Cardinality(editors), Cardinality(ids), Cardinality(active))
    BY <2>1 DEF assessDomainRisk
  <2> HIDE DEF admins, editors, active
  <2>4. Cardinality(ids) <= 5
    BY <1>1, <1>2, <1>3
  <2>5. RiskScore(0, Cardinality(editors), Cardinality(ids), Cardinality(active)) < HighRisk
    BY <1>2, <2>2, <2>4, SmallDomainsScoreLow
  <2>6. RiskScore(0, Cardinality(editors), Cardinality(ids), Cardinality(active)) \in Nat
    BY <1>2, <2>2 DEF RiskScore, AtMost
  <2> QED BY <1>1, <1>2, <1>3, <2>3, <2>5, <2>6 DEF NeedsHuman, HighRisk
<1> QED BY <1>1, <1>2, <1>3 DEF NeedsHuman

-----------------------------------------------------------------------------
(* The answer of a flow and the log *)

Done == Lines("created") \cup Lines("suspended")

\* The entry that line i of the running flow should have left.
Backs(e, i) ==
    /\ e.actor = flow.actor
    /\ \/ /\ flow.kind = "suspend"
          /\ e.action = "suspend_user" /\ e.target = i
       \/ /\ flow.kind # "suspend"
          /\ e.action = "create_user"
          /\ e.applied.email = Normal[GivenRows[i].email]

\* One entry for each line reported as done and no other since the flow began; the batch
\* that is rolled back knows that it has only created rows to take back.
ReportInv ==
    /\ \A i \in Done : \E n \in Since : Backs(audit[n], i)
    /\ flow.kind # "none" =>
         /\ IsFiniteSet(DOMAIN flow.verdict)
         /\ Len(audit) = flow.first + Cardinality(Done)
    /\ flow.kind = "onboard" => Lines("suspended") = {}

LEMMA ReportBegins ==
    ASSUME AdminInv, flow'.first = Len(audit), audit' = audit, Done' = {},
           IsFiniteSet(DOMAIN flow'.verdict)
    PROVE  ReportInv'
<1>1. Len(audit) \in Nat
  BY DEF AdminInv, LogInv
<1>2. Cardinality({}) = 0
  BY FS_EmptySet
<1>3. Cardinality(Done') = 0
  BY <1>2
<1>4. Len(audit') = flow'.first + Cardinality(Done')
  BY <1>1, <1>3
<1>5. Lines("suspended")' = {}
  BY DEF Done
<1> QED BY <1>4, <1>5 DEF ReportInv

\* A line is reported as done in the step that logs it.
LEMMA ReportGoesOn ==
    ASSUME AdminInv, ReportInv, flow.kind # "none", NEW i \in Lines("pending"),
           NEW v \in {"created", "suspended"}, Mark(i, v),
           v = "suspended" => flow.kind = "suspend",
           NEW e, audit' = Append(audit, e), Backs(e, i)
    PROVE  ReportInv'
<1>1. FlowShape /\ audit \in Seq(Entries) /\ flow.first \in 0 .. Len(audit) /\ Len(audit) \in Nat
  BY DEF AdminInv, LogInv, FlowInv
<1>2. i \in DOMAIN flow.verdict /\ flow.verdict[i] = "pending"
  BY DEF Lines
<1>3. /\ flow'.kind = flow.kind /\ flow'.about = flow.about /\ flow'.first = flow.first
      /\ flow'.actor = flow.actor /\ DOMAIN flow'.verdict = DOMAIN flow.verdict
      /\ \A j \in DOMAIN flow.verdict :
           flow'.verdict[j] = IF j = i THEN v ELSE flow.verdict[j]
  BY <1>1, <1>2 DEF FlowShape, Mark
<1>4. Done' = Done \cup {i} /\ i \notin Done
  BY <1>2, <1>3 DEF Done, Lines
<1>5. /\ Len(audit') = Len(audit) + 1 /\ audit'[Len(audit) + 1] = e
      /\ \A n \in 1 .. Len(audit) : audit'[n] = audit[n]
  BY <1>1
<1>6. Len(audit) + 1 \in Since' /\ Since \subseteq Since' /\ Since \subseteq 1 .. Len(audit)
  BY <1>1, <1>3, <1>5 DEF Since
<1>7. GivenRows' = GivenRows
  BY <1>3 DEF GivenRows
<1>8. \A j \in Done' : \E n \in Since' : Backs(audit[n], j)'
  <2> SUFFICES ASSUME NEW j \in Done' PROVE \E n \in Since' : Backs(audit[n], j)'
    OBVIOUS
  <2>1. CASE j = i
    <3>1. PICK n \in Since' : audit'[n] = e
      BY <1>5, <1>6
    <3>2. Backs(audit[n], j)'
      BY <1>3, <1>7, <2>1, <3>1 DEF Backs
    <3> QED BY <3>1, <3>2
  <2>2. CASE j # i
    <3>1. PICK n \in Since : Backs(audit[n], j)
      BY <1>4, <2>2 DEF ReportInv
    <3>2. audit'[n] = audit[n]
      BY <1>5, <1>6
    <3>3. Backs(audit[n], j)'
      BY <1>3, <1>7, <3>1, <3>2 DEF Backs
    <3> QED BY <1>6, <3>3
  <2> QED BY <2>1, <2>2
<1>9. Cardinality(Done') = Cardinality(Done) + 1 /\ Cardinality(Done) \in Nat
  <2>1. Done \in SUBSET DOMAIN flow.verdict
    BY DEF Done, Lines
  <2>2. IsFiniteSet(Done)
    BY <2>1, FS_Subset DEF ReportInv
  <2> HIDE DEF Done
  <2> QED BY <1>4, <2>2, FS_AddElement, FS_CardinalityType
<1>10. Len(audit') = flow'.first + Cardinality(Done')
  <2>1. Len(audit) = flow.first + Cardinality(Done)
    BY DEF ReportInv
  <2> QED BY <1>1, <1>3, <1>5, <1>9, <2>1
<1>11. flow'.kind = "onboard" => Lines("suspended")' = {}
  BY <1>3 DEF ReportInv, Lines
<1> QED BY <1>3, <1>8, <1>10, <1>11 DEF ReportInv

LEMMA ReportCalls ==
    ASSUME AdminInv,
           \/ CreateUser \/ UpdateUser \/ SuspendUser
           \/ \E actor \in Actors :
                \/ \E domain \in Domains : SuspendDomain(actor, domain)
                \/ \E rows \in Batches : Onboard(actor, rows)
                \/ \E file \in Files : Import(actor, file)
    PROVE  ReportInv'
<1>1. IsFiniteSet({}) /\ \A n \in Nat : IsFiniteSet(1 .. n)
  BY FS_EmptySet, FS_Interval
<1>2. CASE CreateUser \/ UpdateUser \/ SuspendUser
  <2>1. flow' = NoFlow
    BY <1>2 DEF CreateUser, UpdateUser, SuspendUser, BeginCall
  <2>2. Done' = {}
    BY <2>1 DEF NoFlow, Done, Lines
  <2> QED BY <2>1, <2>2 DEF NoFlow, ReportInv, Done
<1>3. ASSUME NEW actor \in Actors, NEW domain \in Domains, SuspendDomain(actor, domain)
      PROVE  ReportInv'
  <2>1. /\ flow'.first = Len(audit) /\ audit' = audit
        /\ DOMAIN flow'.verdict \subseteq DOMAIN users
        /\ \A i \in DOMAIN flow'.verdict : flow'.verdict[i] \in {"left_alone", "pending"}
    BY <1>3 DEF SuspendDomain, Begin, findByDomain
  <2>2. Done' = {}
    BY <2>1 DEF Done, Lines
  <2>3. DOMAIN users = 1 .. Len(users) /\ Len(users) \in Nat
    BY DEF AdminInv, LogInv, Tables
  <2>4. IsFiniteSet(DOMAIN flow'.verdict)
    BY <1>1, <2>1, <2>3, FS_Subset
  <2> QED BY <2>1, <2>2, <2>4, ReportBegins
<1>4. ASSUME NEW actor \in Actors, NEW rows \in Batches, Onboard(actor, rows)
      PROVE  ReportInv'
  <2>1. DOMAIN rows = 1 .. Len(rows) /\ Len(rows) \in Nat
    BY UserAdminAssumption
  <2>2. \A i : Verdict(rows, i) \notin {"created", "suspended"}
    BY DEF Verdict
  <2>3. /\ flow'.first = Len(audit) /\ audit' = audit
        /\ DOMAIN flow'.verdict \in {{}, DOMAIN rows}
        /\ \A i \in DOMAIN flow'.verdict : flow'.verdict[i] \notin {"created", "suspended"}
    BY <1>4, <2>2 DEF Onboard, Begin
  <2>4. Done' = {}
    BY <2>3 DEF Done, Lines
  <2>5. IsFiniteSet(DOMAIN flow'.verdict)
    BY <1>1, <2>1, <2>3
  <2> QED BY <2>3, <2>4, <2>5, ReportBegins
<1>5. ASSUME NEW actor \in Actors, NEW file \in Files, Import(actor, file)
      PROVE  ReportInv'
  <2>1. DOMAIN file = 1 .. Len(file) /\ Len(file) \in Nat
    BY UserAdminAssumption
  <2>2. DOMAIN parseCsv(file) \subseteq DOMAIN file
    BY DEF parseCsv, Written
  <2>3. /\ flow'.first = Len(audit) /\ audit' = audit
        /\ DOMAIN flow'.verdict = DOMAIN parseCsv(file)
        /\ \A i \in DOMAIN flow'.verdict : flow'.verdict[i] = "pending"
    BY <1>5 DEF Import, Begin
  <2>4. Done' = {}
    BY <2>3 DEF Done, Lines
  <2>5. IsFiniteSet(DOMAIN flow'.verdict)
    BY <1>1, <2>1, <2>2, <2>3, FS_Subset
  <2> QED BY <2>3, <2>4, <2>5, ReportBegins
<1> QED BY <1>2, <1>3, <1>4, <1>5

LEMMA ReportSame ==
    ASSUME AdminInv, ReportInv, audit' = audit, Done' = Done,
           flow'.kind = flow.kind, flow'.actor = flow.actor, flow'.about = flow.about,
           flow'.first = flow.first, DOMAIN flow'.verdict = DOMAIN flow.verdict,
           Lines("suspended")' = Lines("suspended")
    PROVE  ReportInv'
<1>1. Since' = Since /\ GivenRows' = GivenRows
  BY DEF Since, GivenRows
<1>2. ASSUME NEW i \in Done' PROVE \E n \in Since' : Backs(audit[n], i)'
  <2>1. PICK n \in Since : Backs(audit[n], i)
    BY DEF ReportInv
  <2>2. Backs(audit[n], i)'
    BY <1>1, <2>1 DEF Backs
  <2> QED BY <1>1, <2>2
<1> QED BY <1>2 DEF ReportInv

LEMMA ReportLines ==
    ASSUME AdminInv, ReportInv, SuspendNext \/ OnboardRow \/ ImportRow
    PROVE  ReportInv'
<1>1. FlowShape
  BY DEF AdminInv, FlowInv
<1>2. CASE SuspendNext
  <2>1. PICK id \in Lines("pending") : suspend(flow.actor, id) /\ Mark(id, "suspended")
    BY <1>2 DEF SuspendNext
  <2>2. flow.kind = "suspend"
    BY <1>2 DEF SuspendNext, Running
  <2> DEFINE e == [actor |-> flow.actor, action |-> "suspend_user", target |-> id,
                   before |-> [email |-> Nothing, role |-> Nothing, status |-> users[id].status],
                   applied |-> [email |-> Nothing, role |-> Nothing, status |-> "suspended"]]
  <2>3. audit' = Append(audit, e)
    BY <2>1 DEF suspend, Record
  <2>4. Backs(e, id)
    BY <2>2 DEF Backs
  <2> HIDE DEF e
  <2> QED BY <2>1, <2>2, <2>3, <2>4, ReportGoesOn
<1>3. ASSUME NEW i \in Lines("pending"), flow.kind \in {"onboard", "import"},
             create(flow.actor, GivenRows[i]), Mark(i, "created")
      PROVE  ReportInv'
  <2> DEFINE row == GivenRows[i]
             new == [email |-> Normal[row.email], role |-> row.role, status |-> "active"]
             e == [actor |-> flow.actor, action |-> "create_user", target |-> Len(users) + 1,
                   before |-> Nothing, applied |-> new]
  <2>1. audit' = Append(audit, e)
    BY <1>3 DEF create, Record
  <2>2. Backs(e, i)
    BY <1>3 DEF Backs
  <2> HIDE DEF e
  <2> QED BY <1>3, <2>1, <2>2, ReportGoesOn
<1>4. CASE OnboardRow
  BY <1>3, <1>4 DEF OnboardRow, Running, GivenRows, RowsOf
<1>5. CASE ImportRow
  <2>1. flow.kind = "import" /\ GivenRows = parseCsv(flow.about)
    BY <1>5 DEF ImportRow, Running, GivenRows, RowsOf
  <2>2. PICK n \in Lines("pending") :
          \/ create(flow.actor, parseCsv(flow.about)[n]) /\ Mark(n, "created")
          \/ Mark(n, "failed") /\ UNCHANGED <<users, audit, past>>
    BY <1>5 DEF ImportRow
  <2>3. CASE create(flow.actor, parseCsv(flow.about)[n]) /\ Mark(n, "created")
    BY <1>3, <2>1, <2>3
  <2>4. CASE Mark(n, "failed") /\ UNCHANGED <<users, audit, past>>
    <3>1. n \in DOMAIN flow.verdict /\ flow.verdict[n] = "pending"
      BY DEF Lines
    <3>2. /\ flow'.kind = flow.kind /\ flow'.about = flow.about /\ flow'.first = flow.first
          /\ flow'.actor = flow.actor /\ DOMAIN flow'.verdict = DOMAIN flow.verdict
          /\ \A j \in DOMAIN flow.verdict :
               flow'.verdict[j] = IF j = n THEN "failed" ELSE flow.verdict[j]
      BY <1>1, <2>4, <3>1 DEF FlowShape, Mark
    <3>3. Done' = Done /\ Lines("suspended")' = Lines("suspended")
      BY <3>1, <3>2 DEF Done, Lines
    <3> QED BY <2>4, <3>2, <3>3, ReportSame
  <2> QED BY <2>2, <2>3, <2>4
<1> QED BY <1>2, <1>4, <1>5

LEMMA ReportEnds ==
    ASSUME AdminInv, ReportInv,
           \/ SuspendThrows \/ SuspendDone \/ OnboardDone \/ ImportDone
           \/ OnboardRollsBack \/ UNCHANGED vars
    PROVE  ReportInv'
<1>1. FlowShape
  BY DEF AdminInv, FlowInv
<1>2. CASE SuspendThrows \/ SuspendDone \/ OnboardDone \/ ImportDone \/ UNCHANGED vars
  <2>1. /\ audit' = audit /\ flow'.kind = flow.kind /\ flow'.about = flow.about
        /\ flow'.first = flow.first /\ flow'.actor = flow.actor /\ flow'.verdict = flow.verdict
    BY <1>1, <1>2 DEF FlowShape, SuspendThrows, SuspendDone, OnboardDone, ImportDone, vars
  <2>2. Done' = Done /\ Lines("suspended")' = Lines("suspended")
    BY <2>1 DEF Done, Lines
  <2> QED BY <2>1, <2>2, ReportSame
<1>3. CASE OnboardRollsBack
  <2>1. /\ Running("onboard") /\ users' = flow.saved
        /\ audit' = SubSeq(audit, 1, flow.first) /\ past' = SubSeq(past, 1, flow.first)
    BY <1>3 DEF OnboardRollsBack, OnboardThrows
  <2>2. Len(audit') = flow.first /\ flow.first \in Nat
    BY <2>1, RollbackKeepsLog DEF AdminInv, LogInv, FlowInv
  <2>3. /\ flow'.first = flow.first /\ flow'.kind = "onboard"
        /\ DOMAIN flow'.verdict = DOMAIN flow.verdict
        /\ \A j \in DOMAIN flow.verdict :
             flow'.verdict[j] = IF flow.verdict[j] \in {"pending", "created"} THEN "write_failed"
                                ELSE flow.verdict[j]
    BY <1>1, <1>3, <2>1 DEF FlowShape, OnboardRollsBack, WriteFailed, Running
  <2>4. Lines("suspended") = {} /\ flow.kind = "onboard"
    BY <2>1 DEF ReportInv, Running
  <2>5. Done' = {} /\ Lines("suspended")' = {}
    BY <2>3, <2>4 DEF Done, Lines
  <2>6. Cardinality(Done') = 0
    BY <2>5, FS_EmptySet
  <2>7. Len(audit') = flow'.first + Cardinality(Done')
    BY <2>2, <2>3, <2>6
  <2>8. IsFiniteSet(DOMAIN flow'.verdict)
    BY <2>3, <2>4 DEF ReportInv
  <2> QED BY <2>5, <2>7, <2>8 DEF ReportInv
<1> QED BY <1>2, <1>3

\* What a flow answers is what the log holds of it: an entry for each line it reports as
\* created or suspended, and no other, whatever threw or was rolled back.
THEOREM ReportsMatchTheLog == Spec => []ReportMatchesLog
<1>1. Init => ReportInv
  BY DEF Init, NoFlow, ReportInv, Done, Lines
<1>2. AdminInv /\ ReportInv /\ [Next]_vars => ReportInv'
  BY ReportCalls, ReportLines, ReportEnds DEF Next
<1>3. AdminInv /\ ReportInv => ReportMatchesLog
  <2> SUFFICES ASSUME AdminInv, ReportInv PROVE ReportMatchesLog
    OBVIOUS
  <2>1. \A i \in Done : \E n \in Since : Backs(audit[n], i)
    BY DEF ReportInv
  <2>2. flow.first \in 0 .. Len(audit) /\ Len(audit) \in Nat
    BY DEF AdminInv, LogInv, FlowInv
  <2>3. Cardinality(Since) = Len(audit) - flow.first
    <3>1. flow.first + 1 \in Int /\ Len(audit) \in Int
      BY <2>2
    <3>2. Cardinality(flow.first + 1 .. Len(audit)) =
            IF flow.first + 1 > Len(audit) THEN 0 ELSE Len(audit) - (flow.first + 1) + 1
      BY <3>1, FS_Interval
    <3> QED BY <2>2, <3>2 DEF Since
  <2>4. flow.kind # "none" => Cardinality(Since) = Cardinality(Done)
    <3>1. ASSUME flow.kind # "none" PROVE Cardinality(Done) \in Nat
      <4>1. Done \in SUBSET DOMAIN flow.verdict /\ IsFiniteSet(DOMAIN flow.verdict)
        BY <3>1 DEF Done, Lines, ReportInv
      <4> QED BY <4>1, FS_Subset, FS_CardinalityType
    <3>2. flow.kind # "none" => Len(audit) = flow.first + Cardinality(Done)
      BY DEF ReportInv
    <3> QED BY <2>2, <2>3, <3>1, <3>2
  <2> QED BY <2>1, <2>4 DEF ReportMatchesLog, Done, Backs
<1> QED BY <1>1, <1>2, <1>3, AdminInvariant, PTL DEF Spec
-----------------------------------------------------------------------------
(* Every pattern matches itself: what LIKE returns includes the domain asked for *)

\* The places of Like, and the function it chooses.
MatchFrom(m, pattern, text, i) ==
    IF i > Len(pattern) THEN {Len(text) + 1}
    ELSE IF pattern[i] = "%" THEN {j \in 1 .. Len(text) + 1 : \E k \in m[i + 1] : j <= k}
    ELSE {j \in 1 .. Len(text) : pattern[i] \in {"_", text[j]} /\ j + 1 \in m[i + 1]}

IsMatch(m, pattern, text) ==
    m = [i \in 1 .. Len(pattern) + 1 |-> MatchFrom(m, pattern, text, i)]

LEMMA LeastOf ==
    ASSUME NEW T \in SUBSET Nat, T # {}
    PROVE  \E x \in T : \A y \in T : ~ (y < x)
<1>1. \E x \in T : \A y \in T : ~ (<<y, x>> \in OpToRel(<, Nat))
  BY NatLessThanWellFounded, WFMin
<1> QED BY <1>1 DEF OpToRel

\* The recursion is well founded: it is answered from the end of the pattern.
LEMMA MatchExists ==
    ASSUME NEW pattern \in Seq(STRING), NEW text \in Seq(STRING)
    PROVE  \E m : IsMatch(m, pattern, text)
<1> DEFINE N == Len(pattern)
           Good(f, n) == \A i \in 1 .. N + 1 :
                           i >= N + 1 - n => f[i] = MatchFrom(f, pattern, text, i)
           T == {n \in Nat : ~ \E f : Good(f, n)}
<1>1. N \in Nat
  OBVIOUS
<1>2. ASSUME NEW f, NEW g, NEW i \in 1 .. N + 1, i <= N => g[i + 1] = f[i + 1]
      PROVE  MatchFrom(g, pattern, text, i) = MatchFrom(f, pattern, text, i)
  <2>1. CASE i = N + 1
    <3>1. i > Len(pattern)
      BY <1>1, <2>1
    <3>2. \A h : MatchFrom(h, pattern, text, i) = {Len(text) + 1}
      BY <3>1, Zenon DEF MatchFrom
    <3> QED BY <3>2
  <2>2. CASE i <= N
    <3>1. g[i + 1] = f[i + 1]
      BY <1>2, <2>2
    <3> QED BY <3>1 DEF MatchFrom
  <2> QED BY <1>1, <2>1, <2>2
<1> HIDE DEF N
<1>3. T = {}
  <2> SUFFICES ASSUME T # {} PROVE FALSE
    OBVIOUS
  <2>1. PICK n \in T : \A k \in T : ~ (k < n)
    BY LeastOf
  <2>2. CASE n = 0
    <3> DEFINE g == [i \in 1 .. N + 1 |-> MatchFrom([k \in {} |-> {}], pattern, text, i)]
    <3>1. \A i \in 1 .. N + 1 : i >= N + 1 - n => i = N + 1 /\ ~ i <= N
      BY <1>1, <2>2
    <3>2. \A i \in 1 .. N + 1 : g[i] = MatchFrom([k \in {} |-> {}], pattern, text, i)
      OBVIOUS
    <3> HIDE DEF g
    <3>3. Good(g, n)
      BY <1>2, <3>1, <3>2
    <3> QED BY <2>1, <3>3
  <2>3. CASE n # 0
    <3>1. n - 1 \in Nat /\ n - 1 < n
      BY <2>3
    <3>2. PICK f : Good(f, n - 1)
      BY <2>1, <3>1
    <3> DEFINE near(i) == i >= N + 1 - (n - 1)
               g == [i \in 1 .. N + 1 |-> IF near(i) THEN f[i] ELSE MatchFrom(f, pattern, text, i)]
    <3>3. ASSUME NEW i \in 1 .. N + 1, i >= N + 1 - n
          PROVE  g[i] = MatchFrom(g, pattern, text, i)
      <4>1. i <= N => i + 1 \in 1 .. N + 1 /\ near(i + 1)
        BY <1>1, <3>3
      <4>2. i <= N => g[i + 1] = f[i + 1]
        BY <4>1
      <4>3. MatchFrom(g, pattern, text, i) = MatchFrom(f, pattern, text, i)
        <5> HIDE DEF g
        <5> QED BY <1>2, <4>2
      <4>4. near(i) => f[i] = MatchFrom(f, pattern, text, i)
        BY <3>2
      <4>5. g[i] = IF near(i) THEN f[i] ELSE MatchFrom(f, pattern, text, i)
        OBVIOUS
      <4> QED BY <4>3, <4>4, <4>5
    <3> HIDE DEF g
    <3> QED BY <2>1, <3>3
  <2> QED BY <2>2, <2>3
<1>4. PICK f : Good(f, N)
  BY <1>1, <1>3
<1> DEFINE m == [i \in 1 .. N + 1 |-> f[i]]
<1>5. ASSUME NEW i \in 1 .. N + 1
      PROVE  m[i] = MatchFrom(m, pattern, text, i)
  <2>1. i >= N + 1 - N /\ (i <= N => i + 1 \in 1 .. N + 1)
    BY <1>1
  <2>2. m[i] = f[i] /\ (i <= N => m[i + 1] = f[i + 1])
    BY <2>1
  <2> HIDE DEF m
  <2>3. MatchFrom(m, pattern, text, i) = MatchFrom(f, pattern, text, i)
    BY <1>2, <2>2
  <2> QED BY <1>4, <2>1, <2>2, <2>3
<1>6. m = [i \in 1 .. N + 1 |-> m[i]]
  OBVIOUS
<1> HIDE DEF m
<1>7. m = [i \in 1 .. N + 1 |-> MatchFrom(m, pattern, text, i)]
  BY <1>5, <1>6
<1> QED BY <1>7 DEF IsMatch, N

LEMMA LikeItself ==
    ASSUME NEW d \in Seq(STRING)
    PROVE  Like(d, d)
<1> DEFINE m == CHOOSE f : IsMatch(f, d, d)
           N == Len(d)
           T == {n \in 0 .. N : N + 1 - n \notin m[N + 1 - n]}
<1>1. Like(d, d) <=> 1 \in m[1]
  BY DEF Like, IsMatch, MatchFrom
<1>2. IsMatch(m, d, d)
  BY MatchExists
<1> HIDE DEF m
<1>3. N \in Nat /\ \A i \in 1 .. N + 1 : m[i] = MatchFrom(m, d, d, i)
  BY <1>2 DEF IsMatch
<1>4. ASSUME T # {} PROVE FALSE
  <2>1. T \in SUBSET Nat
    BY <1>3
  <2>2. PICK n \in T : \A k \in T : ~ (k < n)
    <3> HIDE DEF T
    <3> QED BY <1>4, <2>1, LeastOf
  <2> DEFINE i == N + 1 - n
  <2>3. i \in 1 .. N + 1 /\ i \notin m[i]
    BY <1>3, <2>2
  <2>4. i <= N
    <3>1. N + 1 \in 1 .. N + 1 /\ ~ N + 1 <= N
      BY <1>3
    <3>2. m[N + 1] = {Len(d) + 1}
      <4>1. N + 1 > Len(d)
        BY <1>3
      <4>2. m[N + 1] = MatchFrom(m, d, d, N + 1)
        BY <1>3, <3>1
      <4> HIDE DEF N
      <4> QED BY <4>1, <4>2, Zenon DEF MatchFrom
    <3>3. i # N + 1
      BY <2>3, <3>2
    <3> QED BY <1>3, <2>3, <3>3
  <2>5. i + 1 \in m[i + 1]
    <3>1. n - 1 \in 0 .. N /\ n - 1 < n /\ N + 1 - (n - 1) = i + 1
      BY <1>3, <2>2, <2>4
    <3>2. n - 1 \notin T
      BY <2>2, <3>1
    <3> QED BY <3>1, <3>2
  <2> HIDE DEF i
  <2>6. m[i] = MatchFrom(m, d, d, i)
    BY <1>3, <2>3
  <2>7. i \in 1 .. Len(d) /\ i \in 1 .. Len(d) + 1 /\ i <= i + 1 /\ ~ i > Len(d)
    BY <1>3, <2>3, <2>4
  <2>8. i \in MatchFrom(m, d, d, i)
    <3>1. CASE d[i] = "%"
      <4>1. \E k \in m[i + 1] : i <= k
        BY <2>5, <2>7
      <4> QED BY <2>7, <3>1, <4>1 DEF MatchFrom
    <3>2. CASE d[i] # "%"
      BY <2>5, <2>7, <3>2 DEF MatchFrom
    <3> QED BY <3>1, <3>2
  <2> QED BY <2>3, <2>6, <2>8
<1>5. N \in 0 .. N /\ N + 1 - N = 1
  BY <1>3
<1>6. 1 \in m[1]
  BY <1>4, <1>5
<1> QED BY <1>1, <1>6
-----------------------------------------------------------------------------
(* A domain suspension that ends normally is complete *)

\* The lines of the flow are the accounts LIKE returned, and a line dealt with is of an
\* account that is no longer active: nothing else is called before the flow ends.
CompletionInv ==
    flow.kind = "suspend" /\ flow.outcome \in {"running", "suspended"} =>
        /\ flow.about \in Domains /\ flow.about # <<>>
        /\ DOMAIN flow.verdict = findByDomain(flow.about)
        /\ \A id \in DOMAIN flow.verdict \ Lines("pending") : users[id].status # "active"
        /\ flow.outcome = "suspended" => Lines("pending") = {}

LEMMA CompletionBegins ==
    ASSUME NEW actor \in Actors, NEW domain \in Domains, SuspendDomain(actor, domain)
    PROVE  CompletionInv'
<1> DEFINE ids == findByDomain(domain)
           V == [id \in ids |-> IF users[id].status = "deleted" THEN "left_alone" ELSE "pending"]
<1>1. ASSUME NEW outcome \in {"no_matches", "escalated"},
             Begin("suspend", actor, domain, <<>>, outcome)
      PROVE  CompletionInv'
  <2>1. flow'.outcome \notin {"running", "suspended"}
    BY <1>1 DEF Begin
  <2> QED BY <2>1 DEF CompletionInv
<1>2. CASE Begin("suspend", actor, domain, V, "running") /\ ids # {}
  <2>1. /\ flow'.about = domain /\ flow'.verdict = V /\ DOMAIN V = ids
        /\ flow'.outcome = "running" /\ users' = users
    BY <1>2 DEF Begin, SuspendDomain
  <2>2. domain # <<>>
    BY <1>2 DEF findByDomain
  <2>3. findByDomain(domain)' = ids
    BY <2>1 DEF findByDomain
  <2>4. \A id \in DOMAIN flow'.verdict \ Lines("pending")' : users'[id].status # "active"
    BY <2>1 DEF Lines
  <2> HIDE DEF V, ids
  <2>5. DOMAIN flow'.verdict = findByDomain(flow.about)'
    BY <2>1, <2>3 DEF findByDomain
  <2> QED BY <2>1, <2>2, <2>4, <2>5 DEF CompletionInv
<1> QED BY <1>1, <1>2 DEF SuspendDomain

LEMMA CompletionGoesOn ==
    ASSUME AdminInv, CompletionInv, SuspendNext
    PROVE  CompletionInv'
<1>1. FlowShape /\ flow.kind = "suspend" /\ flow.outcome = "running"
  BY DEF AdminInv, FlowInv, SuspendNext, Running
<1>2. PICK id \in Lines("pending") : suspend(flow.actor, id) /\ Mark(id, "suspended")
  BY DEF SuspendNext
<1>3. /\ flow'.about = flow.about /\ flow'.outcome = "running"
      /\ DOMAIN flow'.verdict = DOMAIN flow.verdict
      /\ \A j \in DOMAIN flow.verdict :
           flow'.verdict[j] = IF j = id THEN "suspended" ELSE flow.verdict[j]
  BY <1>1, <1>2 DEF FlowShape, Mark
<1>4. DOMAIN flow.verdict \subseteq DOMAIN users /\ users \in Seq(UserRows)
  BY <1>1 DEF AdminInv, LogInv, FlowInv, Tables, Running
<1>5. /\ DOMAIN users' = DOMAIN users
      /\ \A j \in DOMAIN users : /\ users'[j].email = users[j].email
                                 /\ j # id => users'[j] = users[j]
      /\ id \in DOMAIN users => users'[id].status = "suspended"
  BY <1>2, <1>4 DEF suspend, UserRows
<1>6. findByDomain(flow.about)' = findByDomain(flow.about)
  BY <1>3, <1>5 DEF findByDomain
<1>7. ASSUME NEW j \in DOMAIN flow'.verdict \ Lines("pending")'
      PROVE  users'[j].status # "active"
  <2>1. j \in DOMAIN flow.verdict /\ j \in DOMAIN users
    BY <1>3, <1>4
  <2>2. CASE j = id
    BY <1>5, <2>1, <2>2
  <2>3. CASE j # id
    <3>1. j \in DOMAIN flow.verdict \ Lines("pending")
      BY <1>3, <2>1, <2>3 DEF Lines
    <3> QED BY <1>1, <1>5, <2>1, <2>3, <3>1 DEF CompletionInv
  <2> QED BY <2>2, <2>3
<1> QED BY <1>1, <1>3, <1>6, <1>7 DEF CompletionInv

LEMMA CompletionStep == AdminInv /\ CompletionInv /\ [Next]_vars => CompletionInv'
<1> SUFFICES ASSUME AdminInv, CompletionInv, [Next]_vars PROVE CompletionInv'
  OBVIOUS
<1>0. FlowShape
  BY DEF AdminInv, FlowInv
<1>1. ASSUME flow'.kind # "suspend" \/ flow'.outcome = "error" PROVE CompletionInv'
  BY <1>1 DEF CompletionInv
<1>2. CASE CreateUser \/ UpdateUser \/ SuspendUser
  BY <1>1, <1>2 DEF CreateUser, UpdateUser, SuspendUser, BeginCall, NoFlow
<1>3. ASSUME NEW actor \in Actors, NEW given, Onboard(actor, given) \/ Import(actor, given)
      PROVE  CompletionInv'
  BY <1>1, <1>3 DEF Onboard, Import, Begin
<1>4. CASE OnboardRow \/ OnboardRollsBack \/ OnboardDone \/ ImportRow \/ ImportDone
  <2>1. flow.kind # "suspend"
    BY <1>4 DEF OnboardRow, OnboardRollsBack, OnboardThrows, OnboardDone, ImportRow, ImportDone, Running
  <2>2. flow'.kind = flow.kind
    BY <1>0, <1>4 DEF FlowShape, OnboardRow, OnboardRollsBack, WriteFailed, OnboardDone, ImportRow,
                      ImportDone, Mark
  <2> QED BY <1>1, <2>1, <2>2
<1>5. CASE SuspendThrows
  BY <1>0, <1>1, <1>5 DEF FlowShape, SuspendThrows
<1>6. CASE SuspendDone
  <2>1. /\ users' = users /\ flow'.verdict = flow.verdict /\ flow'.about = flow.about
        /\ flow.kind = "suspend" /\ flow.outcome = "running" /\ Lines("pending") = {}
    BY <1>0, <1>6 DEF FlowShape, SuspendDone, Running
  <2>2. Lines("pending")' = {} /\ findByDomain(flow.about)' = findByDomain(flow.about)
    BY <2>1 DEF Lines, findByDomain
  <2> QED BY <2>1, <2>2 DEF CompletionInv
<1>7. CASE UNCHANGED vars
  <2>1. /\ Lines("pending")' = Lines("pending") /\ users' = users /\ flow' = flow
        /\ findByDomain(flow.about)' = findByDomain(flow.about)
    BY <1>7 DEF vars, Lines, findByDomain
  <2> QED BY <2>1 DEF CompletionInv
<1> QED BY <1>2, <1>3, <1>4, <1>5, <1>6, <1>7, CompletionBegins, CompletionGoesOn DEF Next

\* suspend_users_by_domain, when it answers "suspended", has left no account of the domain
\* active: LIKE returned every one, and each was suspended or was deleted before.
THEOREM DomainSuspensionsAreComplete == Spec => []DomainSuspensionIsComplete
<1>1. Init => CompletionInv
  BY DEF Init, NoFlow, CompletionInv
<1>2. CompletionInv => DomainSuspensionIsComplete
  <2> SUFFICES ASSUME CompletionInv, flow.kind = "suspend", flow.outcome = "suspended",
                      NEW id \in DOMAIN users, DomainOf[users[id].email] = flow.about
               PROVE  users[id].status # "active"
    BY DEF DomainSuspensionIsComplete
  <2>1. /\ flow.about \in Domains /\ flow.about # <<>>
        /\ DOMAIN flow.verdict = findByDomain(flow.about)
        /\ \A i \in DOMAIN flow.verdict : users[i].status # "active"
    BY DEF CompletionInv
  <2>2. Like(flow.about, DomainOf[users[id].email])
    BY <2>1, LikeItself, DomainsAreTexts
  <2>3. id \in findByDomain(flow.about)
    BY <2>1, <2>2 DEF findByDomain
  <2> QED BY <2>1, <2>3
<1> QED BY <1>1, <1>2, CompletionStep, AdminInvariant, PTL DEF Spec
=============================================================================
