-------------------------- MODULE UserAdminProofs --------------------------
(***************************************************************************)
(* For every users table and every sequence of calls: the log explains the *)
(* table, every entry was lawful when it was written, and a rollback loses *)
(* nothing but its own batch.  The invariant adds to the properties what a *)
(* rollback needs to know: the saved table is the one the log had reached  *)
(* when the flow began, and the rows a flow works on are of their types.   *)
(***************************************************************************)
EXTENDS UserAdminProperties, TLAPS

USE UserAdminAssumption

Tables == {t \in Seq(UserRows) : EmailsUnique(t)}

LogInv ==
    /\ users \in Tables
    /\ audit \in Seq(Entries)
    /\ past \in Seq(Tables)
    /\ Len(past) = Len(audit)
    /\ LogExplainsTable
    /\ EntriesAreLawful

FlowShape ==
    flow = [kind |-> flow.kind, actor |-> flow.actor, about |-> flow.about,
            verdict |-> [i \in DOMAIN flow.verdict |-> flow.verdict[i]],
            outcome |-> flow.outcome, first |-> flow.first, saved |-> flow.saved]

FlowInv ==
    /\ FlowShape
    /\ flow.outcome \in Outcomes
    /\ flow.kind \in {"none", "suspend", "onboard", "import"}
    /\ flow.first \in 0 .. Len(audit)
    /\ flow.outcome = "running" => flow.actor \in Actors
    /\ flow.outcome = "running" /\ flow.kind \in {"onboard", "import"} =>
         /\ DOMAIN flow.verdict = DOMAIN GivenRows
         /\ \A i \in DOMAIN GivenRows : GivenRows[i] \in InputRows
    /\ Running("suspend") => DOMAIN flow.verdict \subseteq DOMAIN users
    /\ Running("onboard") => flow.saved = TableAt(flow.first + 1)

AdminInv == LogInv /\ FlowInv

\* The parser gives rows of the type the flow needs, whatever the file.
LEMMA ParsedRows ==
    ASSUME NEW file \in Files
    PROVE  \A n \in DOMAIN parseCsv(file) : parseCsv(file)[n] \in InputRows
<1>1. ASSUME NEW cells \in Seq(Texts), NEW i PROVE CellAt(cells, i) \in Texts
  BY DEF CellAt
<1>2. ASSUME NEW n \in Written(file) PROVE RowAt(file, n) \in InputRows
  <2>1. file[n] \in Seq(Texts)
    BY DEF Written
  <2> QED BY <1>1, <2>1 DEF RowAt, InputRows
<1> QED BY <1>2 DEF parseCsv

-----------------------------------------------------------------------------
(* What one written entry keeps *)

\* A mutation that writes a row and its entry together extends the explanation by one.
LEMMA WrittenTogether ==
    ASSUME LogInv, NEW actor \in Actors, NEW action \in DOMAIN ActionPermissions,
           NEW target \in Nat \ {0}, NEW applied \in AppliedFields,
           NEW before \in AppliedFields \cup {Nothing},
           authorize(users, actor, action),
           Record(actor, action, target, before, applied),
           users' \in Tables,
           users' = Apply(users, [actor |-> actor, action |-> action, target |-> target,
                                  before |-> before, applied |-> applied]),
           users = Undo(users', [actor |-> actor, action |-> action, target |-> target,
                                 before |-> before, applied |-> applied])
    PROVE  /\ LogInv'
           /\ Len(audit') = Len(audit) + 1
           /\ \A i \in 1 .. Len(audit) + 1 : TableAt(i)' = TableAt(i)
           /\ \A i \in 1 .. Len(audit) : audit'[i] = audit[i]
<1> DEFINE e == [actor |-> actor, action |-> action, target |-> target,
                 before |-> before, applied |-> applied]
<1>1. e \in Entries
  BY DEF Entries
<1>2. audit' = Append(audit, e) /\ past' = Append(past, users)
  BY DEF Record
<1> HIDE DEF e
<1>3. /\ audit' \in Seq(Entries) /\ Len(audit') = Len(audit) + 1
      /\ \A i \in 1 .. Len(audit) : audit'[i] = audit[i]
      /\ audit'[Len(audit) + 1] = e
      /\ DOMAIN audit' = 1 .. Len(audit) + 1 /\ DOMAIN audit = 1 .. Len(audit)
      /\ Len(audit) \in Nat
  BY <1>1, <1>2 DEF LogInv
<1>4. /\ past' \in Seq(Tables) /\ Len(past') = Len(audit')
      /\ \A i \in 1 .. Len(audit) : past'[i] = past[i]
      /\ past'[Len(audit) + 1] = users
  BY <1>2, <1>3 DEF LogInv
<1>5. \A i \in 1 .. Len(audit) + 1 : TableAt(i)' = TableAt(i)
  BY <1>3, <1>4 DEF TableAt
<1>6. /\ TableAt(Len(audit) + 1) = users
      /\ \A i \in Nat : i > Len(audit) + 1 => TableAt(i)' = users'
  BY <1>3 DEF TableAt
<1>7. LogExplainsTable'
  <2>1. TableAt(1)' = SeedUsers
    BY <1>3, <1>5 DEF LogInv, LogExplainsTable
  <2>2. ASSUME NEW i \in 1 .. Len(audit) + 1
        PROVE  TableAt(i + 1)' = Apply(TableAt(i)', audit'[i])
    <3>1. CASE i \in 1 .. Len(audit)
      <4>1. i + 1 \in 1 .. Len(audit) + 1
        BY <3>1, <1>3
      <4>2. TableAt(i + 1)' = TableAt(i + 1) /\ TableAt(i)' = TableAt(i) /\ audit'[i] = audit[i]
        BY <4>1, <3>1, <1>3, <1>5
      <4>3. TableAt(i + 1) = Apply(TableAt(i), audit[i])
        BY <3>1, <1>3 DEF LogInv, LogExplainsTable
      <4> QED BY <4>2, <4>3
    <3>2. CASE i = Len(audit) + 1
      <4>1. TableAt(i + 1)' = users' /\ TableAt(i)' = users /\ audit'[i] = e
        <5>1. i + 1 \in Nat /\ i + 1 > Len(audit) + 1
          BY <3>2, <1>3
        <5> QED BY <3>2, <5>1, <1>3, <1>5, <1>6
      <4>2. users' = Apply(users, e)
        BY DEF e
      <4> QED BY <4>1, <4>2
    <3> QED BY <3>1, <3>2, <1>3
  <2> QED BY <2>1, <2>2, <1>3 DEF LogExplainsTable
<1>8. EntriesAreLawful'
  <2> SUFFICES ASSUME NEW i \in 1 .. Len(audit) + 1
               PROVE  /\ authorize(TableAt(i)', audit'[i].actor, audit'[i].action)
                      /\ Undo(TableAt(i + 1)', audit'[i]) = TableAt(i)'
    BY <1>3 DEF EntriesAreLawful
  <2>1. CASE i \in 1 .. Len(audit)
    <3>1. i + 1 \in 1 .. Len(audit) + 1 /\ i \in 1 .. Len(audit) + 1
      BY <2>1, <1>3
    <3>2. TableAt(i + 1)' = TableAt(i + 1) /\ TableAt(i)' = TableAt(i) /\ audit'[i] = audit[i]
      BY <2>1, <3>1, <1>3, <1>5
    <3>3. /\ authorize(TableAt(i), audit[i].actor, audit[i].action)
          /\ Undo(TableAt(i + 1), audit[i]) = TableAt(i)
      BY <2>1, <1>3 DEF LogInv, EntriesAreLawful
    <3> QED BY <3>2, <3>3
  <2>2. CASE i = Len(audit) + 1
    <3>1. i + 1 \in Nat /\ i + 1 > Len(audit) + 1
      BY <2>2, <1>3
    <3>2. TableAt(i + 1)' = users' /\ TableAt(i)' = users /\ audit'[i] = e
      BY <2>2, <3>1, <1>3, <1>5, <1>6
    <3>3. e.actor = actor /\ e.action = action /\ Undo(users', e) = users
      BY DEF e
    <3> QED BY <3>2, <3>3
  <2> QED BY <2>1, <2>2, <1>3
<1> QED BY <1>3, <1>4, <1>5, <1>7, <1>8 DEF LogInv

\* create extends the explanation by the new row's entry.
LEMMA CreateKeepsLog ==
    ASSUME LogInv, NEW actor \in Actors, NEW row \in InputRows, create(actor, row)
    PROVE  /\ LogInv'
           /\ Len(audit') = Len(audit) + 1
           /\ DOMAIN users \subseteq DOMAIN users'
           /\ \A i \in 1 .. Len(audit) + 1 : TableAt(i)' = TableAt(i)
           /\ \A i \in 1 .. Len(audit) : audit'[i] = audit[i]
<1> DEFINE new == [email |-> Normal[row.email], role |-> row.role, status |-> "active"]
<1>1. /\ users \in Seq(UserRows) /\ EmailsUnique(users)
      /\ Len(users) \in Nat /\ DOMAIN users = 1 .. Len(users)
  BY DEF LogInv, Tables
<1>2. new \in UserRows /\ ~ emailExists(users, new.email)
  BY DEF create, mayCreate, UserRows, STATUSES
<1>3. new \in AppliedFields
  BY <1>2 DEF UserRows, AppliedFields
<1>4. users' = Append(users, new)
  BY DEF create
<1> HIDE DEF new
<1>5. users' \in Seq(UserRows) /\ DOMAIN users' = 1 .. Len(users) + 1
      /\ \A i \in 1 .. Len(users) : users'[i] = users[i]
      /\ users'[Len(users) + 1] = new
  BY <1>1, <1>2, <1>4
<1>6. EmailsUnique(users')
  <2> SUFFICES ASSUME NEW i \in 1 .. Len(users) + 1, NEW j \in 1 .. Len(users) + 1,
                      users'[i].email = users'[j].email
               PROVE  i = j
    BY <1>5 DEF EmailsUnique
  <2>1. CASE i \in 1 .. Len(users) /\ j \in 1 .. Len(users)
    BY <2>1, <1>1, <1>5 DEF EmailsUnique
  <2>2. \A k \in 1 .. Len(users) : users'[k].email # new.email
    BY <1>1, <1>2, <1>5 DEF emailExists
  <2>3. CASE i = Len(users) + 1 /\ j # Len(users) + 1
    BY <2>2, <2>3, <1>1, <1>5
  <2>4. CASE j = Len(users) + 1 /\ i # Len(users) + 1
    BY <2>2, <2>4, <1>1, <1>5
  <2>5. i \in 1 .. Len(users) \/ i = Len(users) + 1
    BY <1>1
  <2>6. j \in 1 .. Len(users) \/ j = Len(users) + 1
    BY <1>1
  <2> QED BY <2>1, <2>3, <2>4, <2>5, <2>6
<1> DEFINE e == [actor |-> actor, action |-> "create_user", target |-> Len(users) + 1,
                 before |-> Nothing, applied |-> new]
<1>7. users = Undo(users', e)
  <2>1. SubSeq(users', 1, Len(users)) = users
    BY <1>1, <1>2, <1>4
  <2>2. Undo(users', e) = SubSeq(users', 1, Len(users))
    BY <1>1 DEF Undo
  <2> QED BY <2>1, <2>2
<1>8. Record(actor, "create_user", Len(users) + 1, Nothing, new)
  BY DEF create, new
<1>9. authorize(users, actor, "create_user") /\ "create_user" \in DOMAIN ActionPermissions
  BY DEF create, mayCreate, ActionPermissions
<1>10. users' = Apply(users, e)
  BY <1>4 DEF Apply
<1>11. users' \in Tables /\ Len(users) + 1 \in Nat \ {0}
  BY <1>1, <1>5, <1>6 DEF Tables
<1> QED BY <1>1, <1>3, <1>5, <1>7, <1>8, <1>9, <1>10, <1>11, WrittenTogether

\* A change of one row that keeps the addresses apart extends it too.
LEMMA ChangeKeepsLog ==
    ASSUME LogInv, NEW actor \in Actors, NEW action \in {"update_user", "suspend_user"},
           NEW id \in DOMAIN users, NEW applied \in AppliedFields, NEW before \in AppliedFields,
           authorize(users, actor, action),
           Record(actor, action, id, before, applied),
           Merge(Merge(users[id], applied), before) = users[id],
           users' = [users EXCEPT ![id] = Merge(@, applied)],
           \A o \in DOMAIN users \ {id} : users[o].email # Given(applied.email, users[id].email)
    PROVE  /\ LogInv'
           /\ Len(audit') = Len(audit) + 1
           /\ DOMAIN users \subseteq DOMAIN users'
           /\ \A i \in 1 .. Len(audit) + 1 : TableAt(i)' = TableAt(i)
           /\ \A i \in 1 .. Len(audit) : audit'[i] = audit[i]
<1>1. /\ users \in Seq(UserRows) /\ EmailsUnique(users)
      /\ Len(users) \in Nat /\ DOMAIN users = 1 .. Len(users)
  BY DEF LogInv, Tables
<1>2. users[id] \in UserRows
  BY <1>1
<1>3. Merge(users[id], applied) \in UserRows
  BY <1>2 DEF Merge, Given, UserRows, AppliedFields
<1>4. /\ users' \in Seq(UserRows) /\ DOMAIN users' = DOMAIN users
      /\ users'[id] = Merge(users[id], applied)
      /\ \A o \in DOMAIN users \ {id} : users'[o] = users[o]
  BY <1>1, <1>3
<1>5. users'[id].email = Given(applied.email, users[id].email)
  BY <1>4 DEF Merge
<1>6. EmailsUnique(users')
  <2> SUFFICES ASSUME NEW i \in DOMAIN users, NEW j \in DOMAIN users,
                      users'[i].email = users'[j].email
               PROVE  i = j
    BY <1>4 DEF EmailsUnique
  <2> QED BY <1>1, <1>4, <1>5 DEF EmailsUnique
<1> DEFINE e == [actor |-> actor, action |-> action, target |-> id,
                 before |-> before, applied |-> applied]
<1>7. action \in DOMAIN ActionPermissions /\ action # "create_user" /\ id \in Nat \ {0}
  BY <1>1 DEF ActionPermissions
<1>8. users = Undo(users', e)
  <2> DEFINE undone == [users' EXCEPT ![id] = Merge(users'[id], before)]
  <2>1. Undo(users', e) = undone
    BY <1>7 DEF Undo
  <2>2. Merge(users'[id], before) = users[id]
    BY <1>4
  <2>3. undone = [users' EXCEPT ![id] = users[id]]
    BY <2>2
  <2>4. [users' EXCEPT ![id] = users[id]] = users
    <3>1. users = [o \in DOMAIN users |-> users[o]]
      BY <1>1
    <3>2. [users' EXCEPT ![id] = users[id]]
            = [o \in DOMAIN users |-> IF o = id THEN users[id] ELSE users'[o]]
      BY <1>4
    <3> QED BY <1>4, <3>1, <3>2
  <2> QED BY <2>1, <2>3, <2>4
<1>9. users' = Apply(users, e)
  BY <1>7 DEF Apply
<1>10. users' \in Tables
  BY <1>4, <1>6 DEF Tables
<1> QED BY <1>4, <1>7, <1>8, <1>9, <1>10, WrittenTogether

LEMMA UpdateKeepsLog ==
    ASSUME LogInv, NEW actor \in Actors, NEW id \in DOMAIN users, NEW fields \in Updates,
           update(actor, id, fields)
    PROVE  /\ LogInv'
           /\ Len(audit') = Len(audit) + 1
           /\ DOMAIN users \subseteq DOMAIN users'
           /\ \A i \in 1 .. Len(audit) + 1 : TableAt(i)' = TableAt(i)
           /\ \A i \in 1 .. Len(audit) : audit'[i] = audit[i]
<1>1. fields \in UpdatableUserFields
  OBVIOUS
<1>2. fields.email # Nothing => Normal[fields.email] # Nothing
  <2>1. fields.email # Nothing => fields.email \in Texts
    BY <1>1 DEF UpdatableUserFields
  <2> QED BY <2>1 DEF Emails
<1>3. Applied(fields) \in AppliedFields
  BY <1>1 DEF update, mayUpdate, Applied, AppliedFields, UpdatableUserFields
<1>4. \A o \in DOMAIN users \ {id} :
         users[o].email # Given(Applied(fields).email, users[id].email)
  <2>1. CASE fields.email = Nothing
    BY <2>1 DEF LogInv, Tables, EmailsUnique, Applied, Given
  <2>2. CASE fields.email # Nothing
    BY <2>2, <1>2 DEF update, mayUpdate, Clash, Applied, Given
  <2> QED BY <2>1, <2>2
<1>5. /\ authorize(users, actor, "update_user")
      /\ Record(actor, "update_user", id, users[id], Applied(fields))
      /\ users' = [users EXCEPT ![id] = Merge(@, Applied(fields))]
  BY DEF update, mayUpdate
<1>6. users[id] \in UserRows
  BY DEF LogInv, Tables
<1>7. users[id] \in AppliedFields
  BY <1>6 DEF UserRows, AppliedFields
<1>8. Merge(Merge(users[id], Applied(fields)), users[id]) = users[id]
  BY <1>6 DEF Merge, Given, UserRows
<1> QED BY <1>3, <1>4, <1>5, <1>7, <1>8, ChangeKeepsLog

LEMMA SuspendKeepsLog ==
    ASSUME LogInv, NEW actor \in Actors, NEW id \in DOMAIN users, suspend(actor, id)
    PROVE  /\ LogInv'
           /\ Len(audit') = Len(audit) + 1
           /\ DOMAIN users \subseteq DOMAIN users'
           /\ \A i \in 1 .. Len(audit) + 1 : TableAt(i)' = TableAt(i)
           /\ \A i \in 1 .. Len(audit) : audit'[i] = audit[i]
<1> DEFINE applied == [email |-> Nothing, role |-> Nothing, status |-> "suspended"]
<1>1. applied \in AppliedFields
  BY DEF AppliedFields, STATUSES
<1>2. users \in Seq(UserRows) /\ users[id] \in UserRows
  BY DEF LogInv, Tables
<1>3. Merge(users[id], applied) = [users[id] EXCEPT !.status = "suspended"]
  <2>1. "suspended" # Nothing
    BY DEF STATUSES
  <2> QED BY <1>2, <2>1 DEF Merge, Given, UserRows
<1>4. users' = [users EXCEPT ![id] = Merge(@, applied)]
  BY <1>3 DEF suspend
<1>5. \A o \in DOMAIN users \ {id} : users[o].email # Given(applied.email, users[id].email)
  BY DEF LogInv, Tables, EmailsUnique, Given
<1> DEFINE before == [email |-> Nothing, role |-> Nothing, status |-> users[id].status]
<1>6. authorize(users, actor, "suspend_user") /\ Record(actor, "suspend_user", id, before, applied)
  BY DEF suspend
<1>7. before \in AppliedFields
  BY <1>2 DEF UserRows, AppliedFields
<1>8. Merge(Merge(users[id], applied), before) = users[id]
  BY <1>2 DEF Merge, Given, UserRows
<1> QED BY <1>1, <1>4, <1>5, <1>6, <1>7, <1>8, ChangeKeepsLog

-----------------------------------------------------------------------------
(* The invariant *)

LEMMA InitAdminInv == Init => AdminInv
<1> SUFFICES ASSUME Init PROVE AdminInv
  OBVIOUS
<1>1. users \in Tables
  BY DEF Init, Tables, EmailsUnique
<1>2. audit \in Seq(Entries) /\ past \in Seq(Tables) /\ Len(audit) = 0 /\ Len(past) = 0
  BY DEF Init
<1>3. LogExplainsTable /\ EntriesAreLawful
  BY DEF Init, LogExplainsTable, EntriesAreLawful, TableAt
<1>4. FlowInv
  BY <1>2 DEF Init, NoFlow, FlowInv, FlowShape, Running, Outcomes
<1> QED BY <1>1, <1>2, <1>3, <1>4 DEF AdminInv, LogInv

\* A step that leaves the tables alone leaves what is said of them alone.
LEMMA SameTables ==
    ASSUME LogInv, UNCHANGED <<users, audit, past>>
    PROVE  LogInv' /\ \A i \in Nat : TableAt(i)' = TableAt(i)
BY DEF LogInv, LogExplainsTable, EntriesAreLawful, TableAt

\* A flow that begins is well formed.
LEMMA BeginKeepsFlow ==
    ASSUME LogInv, UNCHANGED <<users, audit, past>>, NEW actor \in Actors, NEW about, NEW verdict,
           NEW kind \in {"suspend", "onboard", "import"}, NEW outcome \in Outcomes,
           Begin(kind, actor, about, verdict, outcome),
           verdict = [i \in DOMAIN verdict |-> verdict[i]],
           outcome = "running" /\ kind # "suspend" =>
             /\ DOMAIN verdict = DOMAIN RowsOf(kind, about)
             /\ \A i \in DOMAIN RowsOf(kind, about) : RowsOf(kind, about)[i] \in InputRows,
           outcome = "running" /\ kind = "suspend" => DOMAIN verdict \subseteq DOMAIN users
    PROVE  FlowInv'
<1>1. flow' = [kind |-> kind, actor |-> actor, about |-> about, verdict |-> verdict,
               outcome |-> outcome, first |-> Len(audit), saved |-> users]
  BY DEF Begin
<1>2. Len(audit) \in Nat /\ flow'.first = Len(audit) /\ flow'.saved = users
  BY <1>1 DEF LogInv
<1>3. FlowShape'
  BY <1>1 DEF FlowShape
<1>4. Running("onboard")' => flow'.saved = TableAt(flow.first + 1)'
  BY <1>2 DEF TableAt
<1>5. GivenRows' = RowsOf(kind, about)
  BY <1>1 DEF GivenRows, RowsOf
<1> QED BY <1>1, <1>2, <1>3, <1>4, <1>5 DEF FlowInv, Running

\* A line that gets its verdict while its entry is written, or without one.
LEMMA MarkKeepsFlow ==
    ASSUME AdminInv, flow.outcome = "running", NEW i \in DOMAIN flow.verdict, NEW v, Mark(i, v),
           Len(audit') \in Nat, Len(audit') >= Len(audit),
           DOMAIN users \subseteq DOMAIN users',
           \A n \in 1 .. Len(audit) + 1 : TableAt(n)' = TableAt(n)
    PROVE  FlowInv'
<1> DEFINE w == [j \in DOMAIN flow.verdict |-> IF j = i THEN v ELSE flow.verdict[j]]
<1>1. flow' = [kind |-> flow.kind, actor |-> flow.actor, about |-> flow.about, verdict |-> w,
               outcome |-> flow.outcome, first |-> flow.first, saved |-> flow.saved]
  <2>1. FlowShape
    BY DEF AdminInv, FlowInv
  <2>2. [flow.verdict EXCEPT ![i] = v] = w
    BY <2>1 DEF FlowShape
  <2>3. flow' = [flow EXCEPT !.verdict = w]
    BY <2>2 DEF Mark
  <2> QED BY <2>1, <2>3 DEF FlowShape
<1>2. DOMAIN w = DOMAIN flow.verdict /\ w = [j \in DOMAIN w |-> w[j]]
  OBVIOUS
<1> HIDE DEF w
<1>3. FlowShape'
  BY <1>1, <1>2 DEF FlowShape
<1>4. flow.first \in 0 .. Len(audit) /\ Len(audit) \in Nat
  BY DEF AdminInv, FlowInv, LogInv
<1>5. flow'.first = flow.first /\ flow'.first \in 0 .. Len(audit')
  BY <1>1, <1>4
<1>6. Running("onboard")' => flow'.saved = TableAt(flow.first + 1)'
  <2>1. flow.first + 1 \in 1 .. Len(audit) + 1
    BY <1>4
  <2>2. \A n \in 1 .. Len(audit) + 1 : n = flow'.first + 1 => TableAt(flow.first + 1)' = TableAt(n)
    BY <1>5
  <2>3. Running("onboard")' => Running("onboard") /\ flow'.saved = flow.saved
    BY <1>1 DEF Running
  <2> QED BY <2>1, <2>2, <2>3, <1>5 DEF AdminInv, FlowInv
<1>7. GivenRows' = GivenRows
  BY <1>1 DEF GivenRows, RowsOf
<1> QED BY <1>1, <1>2, <1>3, <1>5, <1>6, <1>7 DEF AdminInv, FlowInv, Running

\* A flow that ends: its outcome changes and, in a rolled-back batch, its verdicts.
LEMMA EndKeepsFlow ==
    ASSUME AdminInv, NEW outcome \in Outcomes \ {"running"}, NEW verdict,
           flow' = [flow EXCEPT !.outcome = outcome, !.verdict = verdict],
           verdict = [i \in DOMAIN verdict |-> verdict[i]],
           flow.first \in 0 .. Len(audit')
    PROVE  FlowInv'
<1>1. FlowShape
  BY DEF AdminInv, FlowInv
<1>2. flow' = [kind |-> flow.kind, actor |-> flow.actor, about |-> flow.about,
               verdict |-> verdict,
               outcome |-> outcome, first |-> flow.first, saved |-> flow.saved]
  BY <1>1 DEF FlowShape
<1>3. FlowShape'
  BY <1>2 DEF FlowShape
<1> QED BY <1>2, <1>3 DEF AdminInv, FlowInv, Running

\* A rollback returns to the tables the flow began with, and to nothing earlier.
LEMMA RollbackKeepsLog ==
    ASSUME AdminInv, Running("onboard"),
           users' = flow.saved,
           audit' = SubSeq(audit, 1, flow.first),
           past' = SubSeq(past, 1, flow.first)
    PROVE  /\ LogInv' /\ Len(audit') = flow.first
           /\ \A i \in 1 .. flow.first : audit'[i] = audit[i]
           /\ \A i \in 1 .. flow.first + 1 : TableAt(i)' = TableAt(i)
<1> DEFINE n == flow.first
<1>1. n \in 0 .. Len(audit) /\ Len(audit) \in Nat /\ Len(past) = Len(audit)
  BY DEF AdminInv, FlowInv, LogInv
<1>2. users' = TableAt(n + 1)
  BY DEF AdminInv, FlowInv
<1> HIDE DEF n
<1>3. audit \in Seq(Entries) /\ past \in Seq(Tables)
  BY DEF AdminInv, LogInv
<1>4. /\ audit' \in Seq(Entries) /\ Len(audit') = n /\ DOMAIN audit' = 1 .. n
      /\ \A i \in 1 .. n : audit'[i] = audit[i]
  BY <1>1, <1>3 DEF n
<1>5. /\ past' \in Seq(Tables) /\ Len(past') = n
      /\ \A i \in 1 .. n : past'[i] = past[i]
  BY <1>1, <1>3 DEF n
<1>6. \A i \in 1 .. n + 1 : TableAt(i)' = TableAt(i)
  <2> SUFFICES ASSUME NEW i \in 1 .. n + 1 PROVE TableAt(i)' = TableAt(i)
    OBVIOUS
  <2>1. CASE i \in 1 .. n
    BY <2>1, <1>1, <1>4, <1>5 DEF TableAt
  <2>2. CASE i = n + 1
    BY <2>2, <1>1, <1>2, <1>4 DEF TableAt
  <2> QED BY <2>1, <2>2, <1>1
<1>7. users' \in Tables
  <2>1. CASE n + 1 > Len(audit)
    BY <2>1, <1>2 DEF TableAt, AdminInv, LogInv
  <2>2. CASE n + 1 <= Len(audit)
    <3>1. n + 1 \in 1 .. Len(past) /\ users' = past[n + 1]
      BY <2>2, <1>1, <1>2 DEF TableAt
    <3> QED BY <3>1, <1>3
  <2> QED BY <2>1, <2>2, <1>1
<1>8. DOMAIN audit = 1 .. Len(audit)
  BY <1>3
<1>9. LogExplainsTable'
  <2>1. TableAt(1)' = SeedUsers
    BY <1>1, <1>6 DEF AdminInv, LogInv, LogExplainsTable
  <2>2. ASSUME NEW i \in 1 .. n
        PROVE  TableAt(i + 1)' = Apply(TableAt(i)', audit'[i])
    <3>1. i \in 1 .. Len(audit) /\ i + 1 \in 1 .. n + 1 /\ i \in 1 .. n + 1
      BY <1>1
    <3>2. TableAt(i + 1) = Apply(TableAt(i), audit[i])
      BY <3>1, <1>8 DEF AdminInv, LogInv, LogExplainsTable
    <3>3. TableAt(i + 1)' = TableAt(i + 1) /\ TableAt(i)' = TableAt(i) /\ audit'[i] = audit[i]
      BY <3>1, <1>4, <1>6
    <3> QED BY <3>2, <3>3
  <2> QED BY <2>1, <2>2, <1>4 DEF LogExplainsTable
<1>10. EntriesAreLawful'
  <2> SUFFICES ASSUME NEW i \in 1 .. n
               PROVE  /\ authorize(TableAt(i)', audit'[i].actor, audit'[i].action)
                      /\ Undo(TableAt(i + 1)', audit'[i]) = TableAt(i)'
    BY <1>4 DEF EntriesAreLawful
  <2>1. i \in DOMAIN audit /\ i \in 1 .. n + 1 /\ i + 1 \in 1 .. n + 1
    BY <1>1, <1>8
  <2>2. TableAt(i)' = TableAt(i) /\ TableAt(i + 1)' = TableAt(i + 1) /\ audit'[i] = audit[i]
    BY <2>1, <1>4, <1>6
  <2>3. /\ authorize(TableAt(i), audit[i].actor, audit[i].action)
        /\ Undo(TableAt(i + 1), audit[i]) = TableAt(i)
    BY <2>1 DEF AdminInv, LogInv, EntriesAreLawful
  <2> QED BY <2>2, <2>3
<1> QED BY <1>4, <1>5, <1>6, <1>7, <1>9, <1>10 DEF LogInv, n

-----------------------------------------------------------------------------
(* Every action keeps the invariant and every committed entry *)

Extends == /\ Len(Committed) <= Len(Committed')
           /\ SubSeq(Committed', 1, Len(Committed)) = Committed

LEMMA CommittedFacts ==
    ASSUME AdminInv
    PROVE  /\ Committed \in Seq(Entries)
           /\ Len(Committed) = IF Running("onboard") THEN flow.first ELSE Len(audit)
           /\ \A i \in 1 .. Len(Committed) : Committed[i] = audit[i]
           /\ Len(Committed) \in 0 .. Len(audit) /\ Len(audit) \in Nat
<1>1. audit \in Seq(Entries) /\ Len(audit) \in Nat /\ flow.first \in 0 .. Len(audit)
  BY DEF AdminInv, LogInv, FlowInv
<1>2. CASE Running("onboard")
  BY <1>1, <1>2 DEF Committed
<1>3. CASE ~ Running("onboard")
  BY <1>1, <1>3 DEF Committed
<1> QED BY <1>2, <1>3

LEMMA CommittedFactsNext ==
    ASSUME AdminInv'
    PROVE  /\ Committed' \in Seq(Entries)
           /\ Len(Committed') = IF Running("onboard")' THEN flow'.first ELSE Len(audit')
           /\ \A i \in 1 .. Len(Committed') : Committed'[i] = audit'[i]
           /\ Len(Committed') \in 0 .. Len(audit') /\ Len(audit') \in Nat
<1>1. audit' \in Seq(Entries) /\ Len(audit') \in Nat /\ flow'.first \in 0 .. Len(audit')
  BY DEF AdminInv, LogInv, FlowInv
<1>2. CASE Running("onboard")'
  BY <1>1, <1>2 DEF Committed
<1>3. CASE ~ Running("onboard")'
  BY <1>1, <1>3 DEF Committed
<1> QED BY <1>2, <1>3

\* A step that keeps the committed part of the log in place extends it.
LEMMA CommittedKept ==
    ASSUME AdminInv, AdminInv',
           Len(Committed') >= Len(Committed),
           \A i \in 1 .. Len(Committed) : audit'[i] = audit[i]
    PROVE  Extends
<1>1. /\ Committed \in Seq(Entries) /\ Len(Committed) \in Nat
      /\ \A i \in 1 .. Len(Committed) : Committed[i] = audit[i]
  BY CommittedFacts
<1>2. /\ Committed' \in Seq(Entries) /\ Len(Committed') \in Nat
      /\ \A i \in 1 .. Len(Committed') : Committed'[i] = audit'[i]
  BY CommittedFactsNext
<1> QED BY <1>1, <1>2 DEF Extends

\* What a step owes: the invariant, and every committed entry in its place.
Kept == /\ AdminInv'
        /\ Len(Committed') >= Len(Committed)
        /\ \A i \in 1 .. Len(Committed) : audit'[i] = audit[i]
        /\ \A i \in 1 .. Len(Committed) + 1 : TableAt(i)' = TableAt(i)

\* A call outside of any flow.
LEMMA CallKept ==
    ASSUME AdminInv, Idle, flow' = NoFlow, LogInv',
           Len(audit') = Len(audit) + 1, \A i \in 1 .. Len(audit) : audit'[i] = audit[i],
           \A i \in 1 .. Len(audit) + 1 : TableAt(i)' = TableAt(i)
    PROVE  Kept
<1>1. Len(audit) \in Nat /\ Len(audit') \in Nat
  BY DEF AdminInv, LogInv
<1>2. FlowInv'
  BY <1>1 DEF NoFlow, FlowInv, FlowShape, Running, Outcomes
<1>3. ~ Running("onboard") /\ ~ Running("onboard")'
  BY DEF Idle, Running, NoFlow
<1> QED BY <1>1, <1>2, <1>3 DEF AdminInv, Kept, Committed

\* A step that only begins or ends a flow.
LEMMA SameTablesKept ==
    ASSUME AdminInv, UNCHANGED <<users, audit, past>>, FlowInv',
           Running("onboard")' => \/ Running("onboard") /\ flow'.first = flow.first
                                  \/ flow'.first = Len(audit)
    PROVE  Kept
<1>1. LogInv'
  BY SameTables DEF AdminInv
<1>2. AdminInv'
  BY <1>1 DEF AdminInv
<1>3. Len(Committed) = (IF Running("onboard") THEN flow.first ELSE Len(audit))
      /\ Len(Committed) \in 0 .. Len(audit) /\ Len(audit) \in Nat
  BY CommittedFacts
<1>4. Len(Committed') >= Len(Committed)
  <2>1. CASE Running("onboard")'
    <3>1. Len(Committed') = flow'.first
      BY <2>1, <1>2 DEF Committed, AdminInv, LogInv, FlowInv
    <3> QED BY <2>1, <3>1, <1>3
  <2>2. CASE ~ Running("onboard")'
    <3>1. Committed' = audit
      BY <2>2 DEF Committed
    <3> QED BY <3>1, <1>3
  <2> QED BY <2>1, <2>2
<1>5. \A i \in 1 .. Len(Committed) + 1 : TableAt(i)' = TableAt(i)
  BY <1>3, SameTables DEF AdminInv
<1> QED BY <1>2, <1>4, <1>5 DEF Kept

\* A line of a running flow that writes its entry.
LEMMA LineKept ==
    ASSUME AdminInv, flow.outcome = "running", NEW i \in DOMAIN flow.verdict, NEW v, Mark(i, v),
           LogInv', Len(audit') = Len(audit) + 1,
           DOMAIN users \subseteq DOMAIN users',
           \A n \in 1 .. Len(audit) + 1 : TableAt(n)' = TableAt(n),
           \A n \in 1 .. Len(audit) : audit'[n] = audit[n]
    PROVE  Kept
<1>1. Len(audit) \in Nat /\ Len(audit') \in Nat
  BY DEF AdminInv, LogInv
<1>2. FlowInv'
  BY <1>1, MarkKeepsFlow
<1>3. AdminInv'
  BY <1>2 DEF AdminInv
<1>4. FlowShape
  BY DEF AdminInv, FlowInv
<1>5. Running("onboard")' <=> Running("onboard")
  BY <1>4 DEF Mark, FlowShape, Running
<1>6. flow'.first = flow.first
  BY <1>4 DEF Mark, FlowShape
<1>7. Len(Committed) = (IF Running("onboard") THEN flow.first ELSE Len(audit))
      /\ Len(Committed) \in 0 .. Len(audit)
  BY CommittedFacts
<1>8. Len(Committed') = (IF Running("onboard") THEN flow.first ELSE Len(audit'))
  <2>1. audit' \in Seq(Entries) /\ flow'.first \in 0 .. Len(audit')
    BY <1>3 DEF AdminInv, LogInv, FlowInv
  <2> QED BY <2>1, <1>5, <1>6 DEF Committed
<1> QED BY <1>1, <1>3, <1>7, <1>8 DEF Kept

LEMMA StepKept == AdminInv /\ [Next]_vars => Kept
<1> SUFFICES ASSUME AdminInv, [Next]_vars PROVE Kept
  OBVIOUS
<1> USE DEF AdminInv
<1>0. FlowShape
  BY DEF FlowInv
<1>1. CASE CreateUser
  <2>1. PICK actor \in Actors, row \in NewUsers : create(actor, row)
    BY <1>1 DEF CreateUser
  <2>2. row \in InputRows
    OBVIOUS
  <2> QED BY <1>1, <2>1, <2>2, CreateKeepsLog, CallKept DEF CreateUser, BeginCall, Free
<1>2. CASE UpdateUser
  <2>1. PICK actor \in Actors, id \in DOMAIN users, fields \in Updates : update(actor, id, fields)
    BY <1>2 DEF UpdateUser
  <2> QED BY <1>2, <2>1, UpdateKeepsLog, CallKept DEF UpdateUser, BeginCall, Free
<1>3. CASE SuspendUser
  <2>1. PICK actor \in Actors, id \in DOMAIN users : suspend(actor, id)
    BY <1>3 DEF SuspendUser
  <2> QED BY <1>3, <2>1, SuspendKeepsLog, CallKept DEF SuspendUser, BeginCall, Free
<1>4. ASSUME NEW actor \in Actors, NEW domain \in Domains, SuspendDomain(actor, domain)
      PROVE  Kept
  <2> DEFINE ids == findByDomain(domain)
             V == [id \in ids |-> IF users[id].status = "deleted" THEN "left_alone" ELSE "pending"]
             E == [id \in {} |-> "pending"]
  <2>1. ids \subseteq DOMAIN users /\ DOMAIN V = ids /\ V = [id \in DOMAIN V |-> V[id]]
    BY DEF findByDomain
  <2>2. UNCHANGED <<users, audit, past>>
    BY <1>4 DEF SuspendDomain
  <2>3. flow'.kind = "suspend" /\ FlowInv'
    <3>1. <<>> = [i \in DOMAIN <<>> |-> <<>>[i]]
      OBVIOUS
    <3>2. CASE Begin("suspend", actor, domain, <<>>, "no_matches")
      BY <2>2, <3>1, <3>2, BeginKeepsFlow DEF Begin, Outcomes
    <3>3. CASE Begin("suspend", actor, domain, <<>>, "escalated")
      BY <2>2, <3>1, <3>3, BeginKeepsFlow DEF Begin, Outcomes
    <3>4. CASE Begin("suspend", actor, domain, V, "running")
      <4> HIDE DEF V
      <4> QED BY <2>1, <2>2, <3>4, BeginKeepsFlow DEF Begin, Outcomes
    <3> QED BY <1>4, <3>2, <3>3, <3>4 DEF SuspendDomain
  <2> QED BY <2>2, <2>3, SameTablesKept DEF Running
<1>5. ASSUME NEW actor \in Actors, NEW rows \in Batches, Onboard(actor, rows)
      PROVE  Kept
  <2> DEFINE V == [i \in DOMAIN rows |-> Verdict(rows, i)]
  <2>1. /\ DOMAIN V = DOMAIN rows /\ V = [i \in DOMAIN V |-> V[i]]
        /\ RowsOf("onboard", rows) = rows /\ \A i \in DOMAIN rows : rows[i] \in InputRows
    BY DEF RowsOf
  <2>2. UNCHANGED <<users, audit, past>>
    BY <1>5 DEF Onboard
  <2>3. flow'.first = Len(audit) /\ FlowInv'
    <3>1. <<>> = [i \in DOMAIN <<>> |-> <<>>[i]]
      OBVIOUS
    <3>2. CASE Begin("onboard", actor, rows, <<>>, "rejected")
      BY <2>2, <3>1, <3>2, BeginKeepsFlow DEF Begin, Outcomes
    <3>3. CASE Begin("onboard", actor, rows, V, "running")
      <4> HIDE DEF V
      <4> QED BY <2>1, <2>2, <3>3, BeginKeepsFlow DEF Begin, Outcomes
    <3> QED BY <1>5, <3>2, <3>3 DEF Onboard
  <2> QED BY <2>2, <2>3, SameTablesKept
<1>6. ASSUME NEW actor \in Actors, NEW file \in Files, Import(actor, file)
      PROVE  Kept
  <2> DEFINE V == [n \in DOMAIN parseCsv(file) |-> "pending"]
  <2>1. /\ DOMAIN V = DOMAIN RowsOf("import", file) /\ V = [n \in DOMAIN V |-> V[n]]
        /\ \A n \in DOMAIN RowsOf("import", file) : RowsOf("import", file)[n] \in InputRows
    BY ParsedRows DEF RowsOf
  <2>2. UNCHANGED <<users, audit, past>> /\ Begin("import", actor, file, V, "running")
    BY <1>6 DEF Import
  <2> HIDE DEF V
  <2>3. flow'.first = Len(audit) /\ FlowInv'
    BY <2>1, <2>2, BeginKeepsFlow DEF Begin, Outcomes
  <2> QED BY <2>2, <2>3, SameTablesKept
<1>7. CASE SuspendNext
  <2>1. PICK id \in Lines("pending") : suspend(flow.actor, id) /\ Mark(id, "suspended")
    BY <1>7 DEF SuspendNext
  <2>2. id \in DOMAIN flow.verdict /\ id \in DOMAIN users /\ flow.actor \in Actors
        /\ flow.outcome = "running"
    BY <1>7, <2>1 DEF SuspendNext, Lines, FlowInv, Running
  <2> QED BY <2>1, <2>2, SuspendKeepsLog, LineKept
<1>8. ASSUME NEW outcome \in Outcomes \ {"running"}, flow' = [flow EXCEPT !.outcome = outcome],
             UNCHANGED <<users, audit, past>>
      PROVE  Kept
  <2>1. flow.verdict = [i \in DOMAIN flow.verdict |-> flow.verdict[i]]
    BY <1>0 DEF FlowShape
  <2>2. flow' = [flow EXCEPT !.outcome = outcome, !.verdict = flow.verdict]
    BY <1>0, <1>8 DEF FlowShape
  <2>3. flow.first \in 0 .. Len(audit')
    BY <1>8 DEF FlowInv
  <2>4. FlowInv'
    BY <2>1, <2>2, <2>3, EndKeepsFlow
  <2>5. flow'.outcome = outcome
    BY <1>0, <1>8 DEF FlowShape
  <2> QED BY <1>8, <2>4, <2>5, SameTablesKept DEF Running
<1>9. CASE SuspendThrows \/ SuspendDone \/ OnboardDone \/ ImportDone
  BY <1>8, <1>9 DEF SuspendThrows, SuspendDone, OnboardDone, ImportDone, Outcomes
<1>10. CASE OnboardRow
  <2>1. PICK i \in Lines("pending") : create(flow.actor, flow.about[i]) /\ Mark(i, "created")
    BY <1>10 DEF OnboardRow
  <2>2. i \in DOMAIN flow.verdict /\ flow.about[i] \in InputRows /\ flow.actor \in Actors
        /\ flow.outcome = "running"
    BY <1>10, <2>1 DEF OnboardRow, Lines, FlowInv, Running, GivenRows, RowsOf
  <2> QED BY <2>1, <2>2, CreateKeepsLog, LineKept
<1>11. CASE OnboardRollsBack
  <2>1. Running("onboard")
    BY <1>11 DEF OnboardRollsBack, OnboardThrows
  <2>2. /\ LogInv' /\ Len(audit') = flow.first
        /\ \A i \in 1 .. flow.first : audit'[i] = audit[i]
        /\ \A n \in 1 .. flow.first + 1 : TableAt(n)' = TableAt(n)
    BY <1>11, <2>1, RollbackKeepsLog DEF OnboardRollsBack
  <2> DEFINE w == [i \in DOMAIN flow.verdict |->
                     IF flow.verdict[i] \in {"pending", "created"} THEN "write_failed"
                     ELSE flow.verdict[i]]
  <2>3. flow' = [flow EXCEPT !.outcome = "processed", !.verdict = w]
    BY <1>0, <1>11 DEF OnboardRollsBack, WriteFailed, FlowShape
  <2>4. w = [i \in DOMAIN w |-> w[i]]
    OBVIOUS
  <2> HIDE DEF w
  <2>5. flow.first \in Nat
    BY DEF FlowInv, LogInv
  <2>6. FlowInv'
    <3>1. flow.first \in 0 .. Len(audit')
      BY <2>2, <2>5
    <3> QED BY <2>3, <2>4, <3>1, EndKeepsFlow DEF Outcomes
  <2>7. Len(Committed) = flow.first
    BY <2>1, CommittedFacts
  <2>8. flow'.outcome = "processed"
    BY <1>0, <2>3 DEF FlowShape
  <2>9. Committed' = audit'
    BY <2>8 DEF Committed, Running
  <2>10. /\ \A i \in 1 .. Len(Committed) : audit'[i] = audit[i]
         /\ \A n \in 1 .. Len(Committed) + 1 : TableAt(n)' = TableAt(n)
    BY <2>2, <2>5, <2>7
  <2>11. Len(Committed') >= Len(Committed)
    BY <2>2, <2>5, <2>7, <2>9
  <2> QED BY <2>2, <2>6, <2>10, <2>11 DEF Kept
<1>12. CASE ImportRow
  <2> DEFINE row(i) == parseCsv(flow.about)[i]
  <2>1. PICK i \in Lines("pending") :
           \/ create(flow.actor, row(i)) /\ Mark(i, "created")
           \/ Mark(i, "failed") /\ UNCHANGED <<users, audit, past>>
    BY <1>12 DEF ImportRow
  <2>2. i \in DOMAIN flow.verdict /\ row(i) \in InputRows /\ flow.actor \in Actors
        /\ flow.outcome = "running" /\ Running("import")
    BY <1>12, <2>1 DEF ImportRow, Lines, FlowInv, Running, GivenRows, RowsOf
  <2> HIDE DEF row
  <2>3. CASE create(flow.actor, row(i)) /\ Mark(i, "created")
    BY <2>2, <2>3, CreateKeepsLog, LineKept
  <2>4. CASE Mark(i, "failed") /\ UNCHANGED <<users, audit, past>>
    <3>1. Len(audit') \in Nat /\ Len(audit') >= Len(audit)
      BY <2>4 DEF LogInv
    <3>2. \A n \in 1 .. Len(audit) + 1 : TableAt(n)' = TableAt(n)
      BY <2>4, <3>1, SameTables
    <3>3. FlowInv'
      BY <2>2, <2>4, <3>1, <3>2, MarkKeepsFlow
    <3>4. ~ Running("onboard")'
      BY <1>0, <2>2, <2>4 DEF Mark, FlowShape, Running
    <3> QED BY <2>4, <3>3, <3>4, SameTablesKept
  <2> QED BY <2>1, <2>3, <2>4
<1>13. CASE UNCHANGED vars
  <2>1. UNCHANGED <<users, audit, past>> /\ flow' = flow
    BY <1>13 DEF vars
  <2>2. FlowInv'
    <3>1. Running("onboard") => TableAt(flow.first + 1)' = TableAt(flow.first + 1)
      BY <2>1 DEF TableAt
    <3>2. GivenRows' = GivenRows
      BY <2>1 DEF GivenRows, RowsOf
    <3> QED BY <2>1, <3>1, <3>2 DEF FlowInv, FlowShape, Running
  <2> QED BY <2>1, <2>2, SameTablesKept DEF Running
<1> QED BY <1>1, <1>2, <1>3, <1>4, <1>5, <1>6, <1>7, <1>9, <1>10, <1>11, <1>12, <1>13 DEF Next

-----------------------------------------------------------------------------
(* The theorems *)

THEOREM AdminInvariant == Spec => []AdminInv
<1>1. AdminInv /\ [Next]_vars => AdminInv'
  BY StepKept DEF Kept
<1> QED BY <1>1, InitAdminInv, PTL DEF Spec

\* The users table is the one the audit log tells, after any calls and any failures.
THEOREM LogTellsTheTable == Spec => []LogExplainsTable
<1>1. AdminInv => LogExplainsTable
  BY DEF AdminInv, LogInv
<1> QED BY <1>1, AdminInvariant, PTL

\* Every entry was written by an actor allowed to on the table of that moment.
THEOREM EntriesWereLawful == Spec => []EntriesAreLawful
<1>1. AdminInv => EntriesAreLawful
  BY DEF AdminInv, LogInv
<1> QED BY <1>1, AdminInvariant, PTL

\* Types, and no two users with one address.
THEOREM UsersTyped == Spec => []UsersTypeOK
<1>1. AdminInv => UsersTypeOK
  BY DEF AdminInv, LogInv, FlowInv, UsersTypeOK, Tables
<1> QED BY <1>1, AdminInvariant, PTL

\* A step of the invariant's kind is a step of the audited table.
LEMMA StepCommits ==
    ASSUME AdminInv, Kept
    PROVE  [Table!Commit]_(Table!tableVars)
<1> DEFINE C == Len(Committed)
           D == Len(Committed')
           before == IF Running("onboard") THEN SubSeq(past, 1, flow.first) ELSE past
           table == IF Running("onboard") THEN flow.saved ELSE users
<1>1. /\ Committed \in Seq(Entries) /\ C \in 0 .. Len(audit) /\ Len(audit) \in Nat
      /\ C = IF Running("onboard") THEN flow.first ELSE Len(audit)
      /\ \A i \in 1 .. C : Committed[i] = audit[i]
  BY CommittedFacts
<1>2. /\ Committed' \in Seq(Entries) /\ D \in 0 .. Len(audit') /\ Len(audit') \in Nat
      /\ D = IF Running("onboard")' THEN flow'.first ELSE Len(audit')
      /\ \A i \in 1 .. D : Committed'[i] = audit'[i]
  BY CommittedFactsNext DEF Kept
<1>3. /\ before \in Seq(Tables) /\ Len(before) = C /\ \A i \in 1 .. C : before[i] = TableAt(i)
      /\ table = TableAt(C + 1)
  <2>1. /\ past \in Seq(Tables) /\ Len(past) = Len(audit)
        /\ Running("onboard") => flow.saved = TableAt(flow.first + 1)
    BY DEF AdminInv, LogInv, FlowInv
  <2>2. CASE Running("onboard")
    BY <1>1, <2>1, <2>2 DEF TableAt
  <2>3. CASE ~ Running("onboard")
    BY <1>1, <2>1, <2>3 DEF TableAt
  <2> QED BY <2>2, <2>3
<1>4. /\ before' \in Seq(Tables) /\ Len(before') = D
      /\ \A i \in 1 .. D : before'[i] = TableAt(i)'
      /\ \A n \in 1 .. D + 1 : n = D + 1 => table' = TableAt(n)'
  <2>1. /\ past' \in Seq(Tables) /\ Len(past') = Len(audit')
        /\ Running("onboard")' => flow'.saved = TableAt(flow.first + 1)'
    BY DEF Kept, AdminInv, LogInv, FlowInv
  <2>2. CASE Running("onboard")'
    BY <1>2, <2>1, <2>2 DEF TableAt
  <2>3. CASE ~ Running("onboard")'
    BY <1>2, <2>1, <2>3 DEF TableAt
  <2> QED BY <2>2, <2>3
<1>5. /\ D >= C /\ SubSeq(Committed', 1, C) = Committed
      /\ \A i \in 1 .. C + 1 : TableAt(i)' = TableAt(i)
  BY CommittedKept DEF Kept, Extends
<1>6. /\ \A i \in 1 .. C + 1 : Table!At(i) = TableAt(i)
      /\ \A i \in 1 .. D + 1 : Table!At(i)' = TableAt(i)'
  BY <1>1, <1>2, <1>3, <1>4 DEF Table!At
<1>7. ASSUME NEW i \in C + 1 .. D
      PROVE  /\ authorize(Table!At(i)', Committed'[i].actor, Committed'[i].action)
             /\ Undo(Apply(Table!At(i)', Committed'[i]), Committed'[i]) = Table!At(i)'
             /\ Table!At(i + 1)' = Apply(Table!At(i)', Committed'[i])
  <2>1. i \in DOMAIN audit' /\ i \in 1 .. D /\ i + 1 \in 1 .. D + 1 /\ i \in 1 .. D + 1
    BY <1>1, <1>2 DEF Kept, AdminInv, LogInv
  <2>2. /\ authorize(TableAt(i)', audit'[i].actor, audit'[i].action)
        /\ Undo(TableAt(i + 1)', audit'[i]) = TableAt(i)'
        /\ TableAt(i + 1)' = Apply(TableAt(i)', audit'[i])
    BY <2>1 DEF Kept, AdminInv, LogInv, EntriesAreLawful, LogExplainsTable
  <2> QED BY <1>2, <1>6, <2>1, <2>2
<1>8. CASE D > C
  <2>1. \A i \in 1 .. C + 1 : Table!At(i)' = Table!At(i)
    BY <1>1, <1>2, <1>5, <1>6, <1>8
  <2> QED BY <1>5, <1>7, <1>8, <2>1 DEF Table!Commit
<1>9. CASE D = C
  <2>1. Committed' = Committed
    BY <1>2, <1>5, <1>9
  <2>2. table' = table
    <3>1. C + 1 \in 1 .. C + 1 /\ C + 1 \in 1 .. D + 1 /\ C + 1 = D + 1
      BY <1>1, <1>9
    <3>2. table' = TableAt(C + 1)
      BY <1>4, <1>5, <3>1
    <3> QED BY <1>3, <3>2
  <2> HIDE DEF before, table
  <2>3. before' = before
    <3>1. \A i \in 1 .. C : before'[i] = before[i]
      BY <1>1, <1>3, <1>4, <1>5, <1>9
    <3> QED BY <1>3, <1>4, <1>9, <3>1
  <2> QED BY <2>1, <2>2, <2>3 DEF Table!tableVars, before, table
<1> QED BY <1>1, <1>2, <1>5, <1>8, <1>9

\* Whatever is called, thrown or rolled back, what is committed moves as an audited table:
\* by whole groups of lawful entries, none of them ever lost or rewritten.
THEOREM UsersAreAnAuditedTable == Spec => ImplementsAuditedTable
<1>1. Init => Table!Init
  BY DEF Init, NoFlow, Running, Committed, Table!Init
<1>2. AdminInv /\ [Next]_vars => [Table!Commit]_(Table!tableVars)
  BY StepKept, StepCommits
<1> QED BY <1>1, <1>2, AdminInvariant, PTL DEF Spec, ImplementsAuditedTable, Table!Spec
=============================================================================
