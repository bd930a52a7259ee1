--------------------------- MODULE OutcomeProofs ---------------------------
(***************************************************************************)
(* What the desk shows of what was done, for every set of requests,        *)
(* tickets and amounts, with or without failing writes: a resolved ticket  *)
(* was refunded, a notice has its refund, an answer says what the tables   *)
(* hold, a status was told, and a refund has its own request.              *)
(***************************************************************************)
EXTENDS DeskProofs, FiniteSetTheorems

-----------------------------------------------------------------------------
(* Counting the entries of a sequence *)

EntriesIn(s, M) == Cardinality({k \in 1 .. Len(s) : s[k] \in M})

\* An appended element counts once, if it counts at all.
LEMMA CountAppend ==
    ASSUME NEW S, NEW s \in Seq(S), NEW x \in S, NEW M
    PROVE  /\ EntriesIn(s, M) \in Nat
           /\ EntriesIn(Append(s, x), M) = EntriesIn(s, M) + (IF x \in M THEN 1 ELSE 0)
<1> DEFINE n == Len(s)
           A == {k \in 1 .. n : s[k] \in M}
           B == {k \in 1 .. Len(Append(s, x)) : Append(s, x)[k] \in M}
<1>1. n \in Nat /\ Len(Append(s, x)) = n + 1 /\ Append(s, x)[n + 1] = x
        /\ \A k \in 1 .. n : Append(s, x)[k] = s[k]
  OBVIOUS
<1>2. IsFiniteSet(A) /\ Cardinality(A) \in Nat
  <2>1. IsFiniteSet(1 .. n)
    BY <1>1, FS_Interval
  <2>2. A \in SUBSET (1 .. n)
    OBVIOUS
  <2> HIDE DEF A
  <2>3. IsFiniteSet(A)
    BY <2>1, <2>2, FS_Subset
  <2> QED
    BY <2>3, FS_CardinalityType
<1>3. B = IF x \in M THEN A \cup {n + 1} ELSE A
  <2>1. \A k \in 1 .. n + 1 : k \in 1 .. n \/ k = n + 1
    BY <1>1
  <2>2. 1 .. n \subseteq 1 .. n + 1 /\ n + 1 \in 1 .. n + 1
    BY <1>1
  <2> HIDE DEF n
  <2>3. B = {k \in 1 .. n + 1 : Append(s, x)[k] \in M}
    BY <1>1
  <2> QED
    BY <1>1, <2>1, <2>2, <2>3 DEF A
<1>4. n + 1 \notin A
  BY <1>1
<1>5. Cardinality(B) = Cardinality(A) + (IF x \in M THEN 1 ELSE 0)
  <2> HIDE DEF A, B, n
  <2>1. CASE x \in M
    <3>1. B = A \cup {n + 1}
      BY <1>3, <2>1
    <3>2. Cardinality(A \cup {n + 1}) = Cardinality(A) + 1
      BY <1>2, <1>4, FS_AddElement
    <3> QED
      BY <2>1, <3>1, <3>2
  <2>2. CASE x \notin M
    BY <1>2, <1>3, <2>2
  <2> QED
    BY <2>1, <2>2
<1> QED
  BY <1>2, <1>5 DEF EntriesIn

\* The notices of an amount in a thread, and the refunds of that amount for a ticket.
NoticesIn(s, amount) ==
    Cardinality({k \in 1 .. Len(s) : s[k].text = "refund_notice" /\ s[k].amount = amount})
RefundsFor(s, t, amount) ==
    Cardinality({i \in 1 .. Len(s) : s[i].reason = t /\ s[i].amount = amount})

LEMMA NoticeAppended ==
    ASSUME NEW s \in Seq(Messages), NEW m \in Messages, NEW amount
    PROVE  /\ NoticesIn(s, amount) \in Nat
           /\ NoticesIn(Append(s, m), amount) = NoticesIn(s, amount)
                + (IF m.text = "refund_notice" /\ m.amount = amount THEN 1 ELSE 0)
<1> DEFINE M == {x \in Messages : x.text = "refund_notice" /\ x.amount = amount}
<1>1. \A z \in Seq(Messages) :
        {k \in 1 .. Len(z) : z[k].text = "refund_notice" /\ z[k].amount = amount}
          = {k \in 1 .. Len(z) : z[k] \in M}
  OBVIOUS
<1>2. Append(s, m) \in Seq(Messages)
  OBVIOUS
<1>3. m \in M <=> m.text = "refund_notice" /\ m.amount = amount
  OBVIOUS
<1> HIDE DEF M
<1>4. /\ EntriesIn(s, M) \in Nat
      /\ EntriesIn(Append(s, m), M) = EntriesIn(s, M) + (IF m \in M THEN 1 ELSE 0)
  BY CountAppend
<1> QED
  BY <1>1, <1>2, <1>3, <1>4 DEF NoticesIn, EntriesIn

LEMMA RefundAppended ==
    ASSUME NEW s \in Seq(RefundRows), NEW row \in RefundRows, NEW t, NEW amount
    PROVE  /\ RefundsFor(s, t, amount) \in Nat
           /\ RefundsFor(Append(s, row), t, amount) = RefundsFor(s, t, amount)
                + (IF row.reason = t /\ row.amount = amount THEN 1 ELSE 0)
<1> DEFINE M == {x \in RefundRows : x.reason = t /\ x.amount = amount}
<1>1. \A z \in Seq(RefundRows) :
        {i \in 1 .. Len(z) : z[i].reason = t /\ z[i].amount = amount}
          = {i \in 1 .. Len(z) : z[i] \in M}
  OBVIOUS
<1>2. Append(s, row) \in Seq(RefundRows)
  OBVIOUS
<1>3. row \in M <=> row.reason = t /\ row.amount = amount
  OBVIOUS
<1> HIDE DEF M
<1>4. /\ EntriesIn(s, M) \in Nat
      /\ EntriesIn(Append(s, row), M) = EntriesIn(s, M) + (IF row \in M THEN 1 ELSE 0)
  BY CountAppend
<1> QED
  BY <1>1, <1>2, <1>3, <1>4 DEF RefundsFor, EntriesIn

-----------------------------------------------------------------------------
(* The inductive invariant *)

\* Where a request has ended.
Over == {"done", "failed"}

\* What the answer of a request is about.
OnTicket == {"refunded", "replied_no_refund", "escalated", "legal"}

\* A request record by itself: no answer before the end, no refund without one, an answer
\* about a ticket that exists, and at the last await a subscription of its customer.
Consistent(q) ==
    /\ q.pc # "done" => q.decision = "none"
    /\ q.decision # "refunded" => q.refund = 0
    /\ q.decision \in OnTicket => q.ticket \in Tickets
    /\ q.pc = "fetched" => SubUser[q.sub] = TicketUser[q.ticket]

\* NoticesAreBacked, for every amount and not only for those of a notice.
NoticesCounted ==
    \A t \in Tickets, amount \in Nat :
      NoticesIn(thread[t], amount) <= RefundsFor(refunds, t, amount)

OutcomeInv ==
    /\ \A r \in Requests : Consistent(req[r])
    /\ ResolvedMeansRefunded
    /\ NoticesCounted
    /\ AnswerMatchesDesk
    /\ StatusWasTold

-----------------------------------------------------------------------------
(* What a step does.  A flow's refund is one of two actions; any other step resolves no
   ticket, writes no notice and makes no refund for a ticket. *)

\* The tables after a step that is not a flow's refund.
LeavesOutcomes ==
    /\ \A t \in Tickets : ticketStatus'[t] \in {ticketStatus[t], "escalated"}
    /\ \A t \in Tickets :
         \/ thread'[t] = thread[t]
         \/ \E m \in Messages : thread'[t] = Append(thread[t], m) /\ m.text # "refund_notice"
    /\ \/ refunds' = refunds
       \/ \E row \in RefundRows : refunds' = Append(refunds, row) /\ row.reason \notin TicketIds

\* A request record that tells its caller of an escalation of t.
Tells(q, t) == \/ q.decision \in {"escalated", "legal"} /\ q.ticket = t
               \/ q.decision = "agent_escalated"

\* What such a step makes of its request: if it answers, the tables bear it out, and if it
\* changes a status, it answers so.
Handles(r, q) ==
    /\ req' = [req EXCEPT ![r] = q]
    /\ \A t \in Tickets : \/ ticketStatus'[t] = ticketStatus[t]
                          \/ ticketStatus'[t] = "escalated" /\ Tells(q, t)
    /\ Consistent(q)
    /\ q.decision # "refunded"
    /\ q.decision = "replied_no_refund" =>
         \E n \in 1 .. Len(thread'[q.ticket]) : thread'[q.ticket][n].text = "routing"
    /\ q.decision \in {"escalated", "legal"} => ticketStatus'[q.ticket] = "escalated"

\* A step of request r that is not a flow's refund.
Handled(r) ==
    /\ req[r].pc \notin Over
    /\ LeavesOutcomes
    /\ \E q : Handles(r, q)

\* A request record on its way: no answer and no refund yet.
Underway(q) == q \in RequestStates /\ q.decision = "none" /\ q.refund = 0

\* Every request that can move is on its way.
LEMMA MovingIsUnderway ==
    ASSUME TypeOK, OutcomeInv, NEW r \in Requests, req[r].pc \notin Over
    PROVE  Underway(req[r])
  BY DEF TypeOK, RowsTypeOK, OutcomeInv, Consistent, Underway, Over

\* A step that leaves the tables alone and answers nothing about a ticket.
LEMMA QuietStep ==
    ASSUME TypeOK, NEW r \in Requests, req[r].pc \notin Over, NEW q, Underway(q),
           UNCHANGED <<ticketStatus, thread, refunds>>,
           \/ \E pc \in PCs \ {"done", "fetched"} : req' = [req EXCEPT ![r] = [q EXCEPT !.pc = pc]]
           \/ \E d \in Decisions \ OnTicket : Answer(r, q, d)
    PROVE  Handled(r)
<1>1. LeavesOutcomes
  BY DEF LeavesOutcomes
<1>2. CASE \E pc \in PCs \ {"done", "fetched"} :
             req' = [req EXCEPT ![r] = [q EXCEPT !.pc = pc]]
  <2>1. PICK pc \in PCs \ {"done", "fetched"} :
             req' = [req EXCEPT ![r] = [q EXCEPT !.pc = pc]]
    BY <1>2
  <2>2. Handles(r, [q EXCEPT !.pc = pc])
    BY <2>1 DEF Handles, Consistent, Underway, RequestStates, OnTicket
  <2> QED
    BY <1>1, <2>2 DEF Handled
<1>3. CASE \E d \in Decisions \ OnTicket : Answer(r, q, d)
  <2>1. PICK d \in Decisions \ OnTicket :
             req' = [req EXCEPT ![r] = [q EXCEPT !.pc = "done", !.decision = d]]
    BY <1>3 DEF Answer
  <2>2. Handles(r, [q EXCEPT !.pc = "done", !.decision = d])
    BY <2>1 DEF Handles, Consistent, Underway, RequestStates, OnTicket
  <2> QED
    BY <1>1, <2>2 DEF Handled
<1> QED
  BY <1>2, <1>3

\* An escalation.
LEMMA EscalationStep ==
    ASSUME TypeOK, NEW r \in Requests, req[r].pc \notin Over, NEW q, Underway(q),
           q.ticket \in Tickets, NEW d \in {"escalated", "legal"}, EscalateTicket(r, q, d)
    PROVE  Handled(r)
<1> DEFINE p == [q EXCEPT !.pc = "done", !.decision = d]
<1>1. req' = [req EXCEPT ![r] = p] /\ p.ticket = q.ticket /\ p.decision = d /\ p.refund = 0
        /\ p.pc = "done"
  BY DEF EscalateTicket, Answer, Underway, RequestStates
<1>2. ticketStatus' = [ticketStatus EXCEPT ![q.ticket] = "escalated"]
        /\ UNCHANGED <<thread, refunds>>
  BY DEF EscalateTicket, updateStatus, moneyVars
<1>3. ticketStatus'[q.ticket] = "escalated" /\ LeavesOutcomes
  BY <1>2 DEF TypeOK, RowsTypeOK, TicketTypeOK, LeavesOutcomes
<1> HIDE DEF p
<1>5. \A t \in Tickets : \/ ticketStatus'[t] = ticketStatus[t]
                         \/ ticketStatus'[t] = "escalated" /\ Tells(p, t)
  BY <1>1, <1>2 DEF TypeOK, RowsTypeOK, TicketTypeOK, Tells
<1>4. Handles(r, p)
  BY <1>1, <1>3, <1>5 DEF Handles, Consistent, OnTicket
<1> QED
  BY <1>3, <1>4 DEF Handled

\* The first stretch of a flow.
LEMMA ScreenedStep ==
    ASSUME TypeOK, NEW r \in Requests, req[r].pc \notin Over, NEW q, Underway(q),
           NEW pc \in {"category", "intent"}, NEW d \in {"escalated", "legal"},
           Screened(r, q, pc, d)
    PROVE  Handled(r)
  BY QuietStep, EscalationStep
     DEF Screened, Fail, Await, deskVars, PCs, Awaiting

\* The arrivals.
LEMMA ArrivesStep ==
    ASSUME TypeOK, OutcomeInv, NEW r \in Requests, Arrives(r)
    PROVE  Handled(r)
<1> DEFINE q(k, a) == [req[r] EXCEPT !.ticket = k, !.actor = a]
<1>1. req[r].pc = "idle" /\ req[r].pc \notin Over /\ Underway(req[r])
  BY MovingIsUnderway DEF Over, Arrives, PostResolve, PostTriage, PostPrompt
<1>2. ASSUME NEW k \in TicketIds, NEW a \in Actors PROVE Underway(q(k, a))
  BY <1>1 DEF Underway, RequestStates
<1>3. CASE PostResolve(r)
  <2>1. PICK k \in TicketIds, a \in Actors : BeginResolve(r, q(k, a))
    BY <1>3 DEF PostResolve
  <2>2. Underway(q(k, a))
    BY <1>2
  <2> HIDE DEF q
  <2> QED
    BY <1>1, <2>1, <2>2, ScreenedStep DEF BeginResolve
<1>4. CASE PostTriage(r)
  <2>1. PICK k \in TicketIds, a \in Actors : BeginTriage(r, q(k, a))
    BY <1>4 DEF PostTriage
  <2>2. Underway(q(k, a))
    BY <1>2
  <2> HIDE DEF q
  <2> QED
    BY <1>1, <2>1, <2>2, ScreenedStep DEF BeginTriage
<1>5. CASE PostPrompt(r)
  <2>1. PICK a \in Actors : Await(r, [req[r] EXCEPT !.actor = a], "classify")
    BY <1>5 DEF PostPrompt
  <2>2. Underway([req[r] EXCEPT !.actor = a])
    BY <1>1 DEF Underway, RequestStates
  <2> QED
    BY <1>1, <1>5, <2>1, <2>2, QuietStep DEF PostPrompt, Await, deskVars, PCs, Awaiting
<1> QED
  BY <1>3, <1>4, <1>5 DEF Arrives

\* The classifier's answer.
LEMMA ClassifierStep ==
    ASSUME TypeOK, OutcomeInv, NEW r \in Requests, ClassifierAnswers(r)
    PROVE  Handled(r)
<1>1. PICK k \in TicketIds \cup {NoTicket},
           flow \in {"user_admin", "resolve", "triage", "model_driven"} :
             Dispatch(r, [req[r] EXCEPT !.ticket = k], flow)
  BY EngineRange DEF ClassifierAnswers
<1> DEFINE q == [req[r] EXCEPT !.ticket = k]
<1>2. req[r].pc \notin Over /\ Underway(q)
  BY MovingIsUnderway DEF Over, ClassifierAnswers, Underway, RequestStates
<1>3. Dispatch(r, q, flow)
  BY <1>1
<1> HIDE DEF q
<1>4. CASE Fail(r, q) \/ (Await(r, q, "agent") /\ UNCHANGED <<deskVars, exposed>>)
  BY <1>2, <1>4, QuietStep DEF Fail, Await, deskVars, PCs, Awaiting
<1>5. CASE q.ticket \in Tickets /\ EscalateTicket(r, q, "legal")
  BY <1>2, <1>5, EscalationStep
<1>6. CASE flow = "user_admin" /\ Answer(r, q, flow) /\ UNCHANGED <<deskVars, exposed>>
  BY <1>2, <1>6, QuietStep DEF deskVars, Decisions, OnTicket
<1>7. CASE BeginResolve(r, q) \/ BeginTriage(r, q)
  BY <1>2, <1>7, ScreenedStep DEF BeginResolve, BeginTriage
<1> QED
  BY <1>3, <1>4, <1>5, <1>6, <1>7 DEF Dispatch

\* The model's verdict on a ticket.
LEMMA VerdictStep ==
    ASSUME TypeOK, OutcomeInv, NEW r \in Requests,
           CategoryAnswers(r) \/ IntentIsNoRefund(r) \/ IntentIsRefund(r)
    PROVE  Handled(r)
<1> DEFINE q == req[r]
<1>1. q.pc \notin Over /\ Underway(q) /\ q.ticket \in Tickets
  BY MovingIsUnderway
     DEF Over, CategoryAnswers, IntentIsNoRefund, IntentIsRefund, TypeOK, RowsTypeOK
<1>2. CASE CategoryAnswers(r)
  <2>1. \/ EscalateTicket(r, q, "legal")
        \/ BeginResolve(r, q)
        \/ Answer(r, q, "unhandled") /\ UNCHANGED <<deskVars, exposed>>
    BY <1>2 DEF CategoryAnswers
  <2>2. "unhandled" \in Decisions \ OnTicket
    BY DEF Decisions, OnTicket
  <2>3. CASE EscalateTicket(r, q, "legal")
    BY <1>1, <2>3, EscalationStep
  <2>4. CASE BeginResolve(r, q)
    BY <1>1, <2>4, ScreenedStep DEF BeginResolve
  <2>5. CASE Answer(r, q, "unhandled") /\ UNCHANGED <<deskVars, exposed>>
    BY <1>1, <2>2, <2>5, QuietStep DEF deskVars
  <2> QED
    BY <2>1, <2>3, <2>4, <2>5
<1>3. CASE IntentIsNoRefund(r)
  <2> DEFINE p == [q EXCEPT !.pc = "done", !.decision = "replied_no_refund"]
             m == [text |-> "routing", amount |-> 0, flagged |-> FALSE]
  <2>1. /\ thread' = [thread EXCEPT ![q.ticket] = Append(@, m)]
        /\ req' = [req EXCEPT ![r] = p]
        /\ UNCHANGED <<ticketStatus, refunds>>
    BY <1>3 DEF IntentIsNoRefund, addMessage, Answer, moneyVars
  <2>2. p.ticket = q.ticket /\ p.decision = "replied_no_refund" /\ p.refund = 0 /\ p.pc = "done"
    BY <1>1 DEF Underway, RequestStates
  <2>3. m \in Messages /\ m.text = "routing"
    BY DEF Messages
  <2> HIDE DEF p, q, m
  <2>4. thread[q.ticket] \in Seq(Messages)
    BY <1>1 DEF TypeOK, RowsTypeOK, TicketTypeOK
  <2>5. thread'[q.ticket] = Append(thread[q.ticket], m)
    BY <1>1, <2>1 DEF TypeOK, RowsTypeOK, TicketTypeOK
  <2>6. \E n \in 1 .. Len(thread'[q.ticket]) : thread'[q.ticket][n].text = "routing"
    <3>1. Len(thread[q.ticket]) + 1 \in 1 .. Len(thread'[q.ticket])
            /\ thread'[q.ticket][Len(thread[q.ticket]) + 1] = m
      BY <2>3, <2>4, <2>5
    <3> QED
      BY <2>3, <3>1
  <2>7. LeavesOutcomes
    <3>1. \A t \in Tickets : thread'[t] = thread[t] \/ thread'[t] = Append(thread[t], m)
      BY <2>1 DEF TypeOK, RowsTypeOK, TicketTypeOK
    <3>2. m.text # "refund_notice"
      BY <2>3
    <3> QED
      BY <2>1, <2>3, <3>1, <3>2 DEF LeavesOutcomes
  <2>8. Handles(r, p)
    BY <1>1, <2>1, <2>2, <2>6 DEF Handles, Consistent, OnTicket
  <2> QED
    BY <1>1, <2>7, <2>8 DEF Handled, q
<1>4. CASE IntentIsRefund(r)
  <2> DEFINE user == TicketUser[q.ticket]
  <2>1. PICK amount \in Amounts :
          \/ /\ SubscriptionsOf(user) # {}
             /\ Await(r, [q EXCEPT !.amount = amount, !.sub = getByUserId(user)], "fetched")
             /\ UNCHANGED <<deskVars, exposed>>
          \/ SubscriptionsOf(user) = {} /\ Fail(r, q)
    BY <1>4 DEF IntentIsRefund
  <2>2. user \in Users
    BY <1>1, DeskAssumption
  <2>3. CASE /\ SubscriptionsOf(user) # {}
             /\ Await(r, [q EXCEPT !.amount = amount, !.sub = getByUserId(user)], "fetched")
             /\ UNCHANGED <<deskVars, exposed>>
    <3> DEFINE p == [[q EXCEPT !.amount = amount, !.sub = getByUserId(user)]
                       EXCEPT !.pc = "fetched"]
    <3>1. SubUser[getByUserId(user)] = user
      BY <2>2, <2>3, FetchedSubscription
    <3>2. /\ p.pc = "fetched" /\ p.decision = "none" /\ p.refund = 0
          /\ p.ticket = q.ticket /\ p.sub = getByUserId(user)
      BY <1>1 DEF Underway, RequestStates
    <3>3. req' = [req EXCEPT ![r] = p] /\ LeavesOutcomes /\ UNCHANGED ticketStatus
      BY <2>3 DEF Await, deskVars, LeavesOutcomes
    <3> HIDE DEF p
    <3>4. Handles(r, p)
      BY <3>1, <3>2, <3>3 DEF Handles, Consistent, OnTicket
    <3> QED
      BY <1>1, <3>3, <3>4 DEF Handled
  <2>4. CASE Fail(r, q)
    BY <1>1, <2>4, QuietStep DEF Fail, deskVars, PCs
  <2> QED
    BY <2>1, <2>3, <2>4
<1> QED
  BY <1>2, <1>3, <1>4

\* A step of a Mode A session, a refused refund, a failed call.
LEMMA OtherStep ==
    ASSUME TypeOK, OutcomeInv, NEW r \in Requests,
           \/ AgentReadsTicket(r) \/ AgentRefunds(r) \/ AgentReplies(r)
           \/ AgentCallChangesNothing(r) \/ AgentEscalates(r) \/ AgentFinishes(r)
           \/ RefundRejected(r) \/ RequestFails(r)
    PROVE  Handled(r)
<1> DEFINE q == req[r]
<1>1. q.pc \notin Over /\ Underway(q)
  BY MovingIsUnderway
     DEF Over, Awaiting, AgentReadsTicket, AgentRefunds, AgentReplies, AgentCallChangesNothing,
         AgentEscalates, AgentFinishes, RefundRejected, RequestFails, Calling
<1>2. ASSUME Called(r), UNCHANGED ticketStatus PROVE \E p : Handles(r, p)
  <2> DEFINE p == [[q EXCEPT !.calls = @ + 1] EXCEPT !.pc = "agent"]
  <2>1. req' = [req EXCEPT ![r] = p]
    BY <1>2 DEF Called, Await
  <2>2. p.pc = "agent" /\ p.decision = "none" /\ p.refund = 0
    BY <1>1 DEF Underway, RequestStates
  <2> HIDE DEF p
  <2>3. Handles(r, p)
    BY <1>2, <2>1, <2>2 DEF Handles, Consistent, OnTicket
  <2> QED
    BY <2>3
<1>3. CASE AgentReadsTicket(r) \/ AgentCallChangesNothing(r)
  BY <1>1, <1>2, <1>3
     DEF AgentReadsTicket, AgentCallChangesNothing, deskVars, LeavesOutcomes, Handled
<1>4. CASE AgentRefunds(r)
  <2>1. PICK s \in SubscriptionIds, amount \in Amounts, reason \in {FreeText, Blank},
             flag \in BOOLEAN :
          /\ mayRefund(q.actor, s, amount, reason, flag)
          /\ recordRefund(q.actor, s, amount, reason, flag)
    BY <1>4 DEF AgentRefunds
  <2> DEFINE row == [subscription |-> s, amount |-> amount, reason |-> reason,
                     issued_by |-> q.actor, approved |-> flag, created_at |-> today]
  <2>2. refunds' = Append(refunds, row) /\ row.reason \notin TicketIds
    BY <2>1, DeskAssumption DEF recordRefund
  <2>3. row \in RefundRows
    <3>1. s \in Subscriptions /\ amount \in Nat /\ reason \in Reasons
      BY <2>1, FlowsAssumption DEF mayRefund, Reasons
    <3>2. q.actor \in Actors
      BY <1>4 DEF AgentRefunds, Calling, TypeOK, RowsTypeOK, Awaiting
    <3> QED
      BY <3>1, <3>2 DEF RefundRows, TypeOK, RowsTypeOK, MoneyTypeOK
  <2>4. UNCHANGED <<ticketStatus, thread>> /\ Called(r)
    BY <1>4 DEF AgentRefunds
  <2> HIDE DEF row
  <2>5. LeavesOutcomes
    BY <2>2, <2>3, <2>4 DEF LeavesOutcomes
  <2> QED
    BY <1>1, <1>2, <2>4, <2>5 DEF Handled
<1>5. CASE AgentReplies(r)
  <2>1. PICK t \in Tickets, flagged \in BOOLEAN : addMessage(t, "reply", 0, flagged)
    BY <1>5 DEF AgentReplies
  <2> DEFINE m == [text |-> "reply", amount |-> 0, flagged |-> flagged]
  <2>2. m \in Messages /\ m.text # "refund_notice"
    BY DEF Messages
  <2>3. \A k \in Tickets : thread'[k] = thread[k] \/ thread'[k] = Append(thread[k], m)
    BY <2>1 DEF addMessage, TypeOK, RowsTypeOK, TicketTypeOK
  <2> HIDE DEF m
  <2>4. LeavesOutcomes
    BY <1>5, <2>2, <2>3 DEF AgentReplies, moneyVars, LeavesOutcomes
  <2> QED
    BY <1>1, <1>2, <1>5, <2>4 DEF AgentReplies, Handled
<1>6. CASE AgentEscalates(r)
  <2> DEFINE p == [q EXCEPT !.pc = "done", !.decision = "agent_escalated"]
  <2>1. \A t \in Tickets : ticketStatus'[t] \in {ticketStatus[t], "escalated"}
    BY <1>6 DEF AgentEscalates, updateStatus, TypeOK, RowsTypeOK, TicketTypeOK
  <2>2. p.pc = "done" /\ p.decision = "agent_escalated" /\ p.refund = 0
    BY <1>1 DEF Underway, RequestStates
  <2>3. req' = [req EXCEPT ![r] = p]
    BY <1>6 DEF AgentEscalates, Answer
  <2> HIDE DEF p
  <2>4. Handles(r, p)
    BY <2>1, <2>2, <2>3 DEF Handles, Consistent, OnTicket, Tells
  <2> QED
    BY <1>1, <1>6, <2>1, <2>4 DEF AgentEscalates, moneyVars, LeavesOutcomes, Handled
<1>7. CASE AgentFinishes(r)
  BY <1>1, <1>7, QuietStep DEF AgentFinishes, deskVars, Decisions, OnTicket
<1>8. CASE RefundRejected(r)
  <2>1. EscalateTicket(r, q, "escalated") /\ q.ticket \in Tickets
    BY <1>8 DEF RefundRejected, TypeOK, RowsTypeOK
  <2> QED
    BY <1>1, <2>1, EscalationStep
<1>9. CASE RequestFails(r)
  BY <1>1, <1>9, QuietStep DEF RequestFails, Fail, deskVars, PCs
<1> QED
  BY <1>3, <1>4, <1>5, <1>6, <1>7, <1>8, <1>9

\* Every step.
LEMMA EveryStepIsDeskStep ==
    ASSUME TypeOK, OutcomeInv, [Next]_vars
    PROVE  \/ UNCHANGED <<ticketStatus, thread, refunds, req>>
           \/ \E r \in Requests : Handled(r) \/ Refund(r) \/ CommittedThenFailed(r)
<1>1. CASE ClockTicks \/ UserAdministers \/ UNCHANGED vars
  BY <1>1 DEF ClockTicks, Tick, UserAdministers, ChangeRole, vars, flowVars, deskVars
<1>2. ASSUME NEW r \in Requests, Proceeds(r)
      PROVE  Handled(r) \/ Refund(r) \/ CommittedThenFailed(r)
  BY <1>2, ClassifierStep, VerdictStep, OtherStep DEF Proceeds
<1> QED
  BY <1>1, <1>2, ArrivesStep DEF Next

-----------------------------------------------------------------------------
(* The invariant is kept *)

\* The desk's tables only grow, and a handled ticket is not reopened.
Grown ==
    /\ \A t \in Tickets : ticketStatus[t] # "open" => ticketStatus'[t] # "open"
    /\ \A t \in Tickets : \A n \in 1 .. Len(thread[t]) :
         n \in 1 .. Len(thread'[t]) /\ thread'[t][n] = thread[t][n]
    /\ \A i \in 1 .. Len(refunds) : i \in 1 .. Len(refunds') /\ refunds'[i] = refunds[i]

LEMMA TablesGrow ==
    ASSUME TypeOK,
           \A t \in Tickets : ticketStatus'[t] \in {ticketStatus[t], "escalated", "resolved"},
           \A t \in Tickets : \/ thread'[t] = thread[t]
                              \/ \E m \in Messages : thread'[t] = Append(thread[t], m),
           refunds' = refunds \/ \E row \in RefundRows : refunds' = Append(refunds, row)
    PROVE  Grown
<1>1. ASSUME NEW t \in Tickets
      PROVE  \A n \in 1 .. Len(thread[t]) :
               n \in 1 .. Len(thread'[t]) /\ thread'[t][n] = thread[t][n]
  <2>1. thread[t] \in Seq(Messages)
    BY DEF TypeOK, RowsTypeOK, TicketTypeOK
  <2>2. CASE thread'[t] = thread[t]
    BY <2>2
  <2>3. ASSUME NEW m \in Messages, thread'[t] = Append(thread[t], m)
        PROVE  \A n \in 1 .. Len(thread[t]) :
                 n \in 1 .. Len(thread'[t]) /\ thread'[t][n] = thread[t][n]
    BY <2>1, <2>3
  <2> QED
    BY <2>2, <2>3
<1>2. \A i \in 1 .. Len(refunds) : i \in 1 .. Len(refunds') /\ refunds'[i] = refunds[i]
  <2>1. refunds \in Seq(RefundRows)
    BY DEF TypeOK, RowsTypeOK, MoneyTypeOK
  <2>2. CASE refunds' = refunds
    BY <2>2
  <2>3. ASSUME NEW row \in RefundRows, refunds' = Append(refunds, row)
        PROVE  \A i \in 1 .. Len(refunds) : i \in 1 .. Len(refunds') /\ refunds'[i] = refunds[i]
    BY <2>1, <2>3
  <2> QED
    BY <2>2, <2>3
<1>3. \A t \in Tickets : ticketStatus[t] # "open" => ticketStatus'[t] # "open"
  OBVIOUS
<1> QED
  BY <1>1, <1>2, <1>3 DEF Grown

\* What AnswerMatchesDesk says of one request, by itself and beside the others.
Shown(q) ==
    /\ q.decision = "refunded" =>
         /\ q.refund \in 1 .. Len(refunds)
         /\ refunds[q.refund].reason = q.ticket
         /\ refunds[q.refund].amount = q.amount
         /\ refunds[q.refund].issued_by = q.actor
         /\ ticketStatus[q.ticket] # "open"
    /\ q.decision = "replied_no_refund" =>
         \E n \in 1 .. Len(thread[q.ticket]) : thread[q.ticket][n].text = "routing"
    /\ q.decision \in {"escalated", "legal"} => ticketStatus[q.ticket] # "open"
    /\ q.decision # "refunded" => q.refund = 0

OwnRefunds ==
    \A r, o \in Requests :
      req[r].decision = "refunded" /\ o # r => req[o].refund # req[r].refund

LEMMA AnswersMatch ==
    AnswerMatchesDesk <=> (\A r \in Requests : Shown(req[r])) /\ OwnRefunds
  BY DEF AnswerMatchesDesk, Shown, OwnRefunds

LEMMA AnswersMatchNext ==
    AnswerMatchesDesk' <=> (\A r \in Requests : Shown(req[r])') /\ OwnRefunds'
  BY DEF AnswerMatchesDesk, Shown, OwnRefunds

\* An answer the tables bore out stays borne out.
LEMMA ShownStays ==
    ASSUME Grown, NEW o \in Requests, Consistent(req[o]), Shown(req[o]), req'[o] = req[o]
    PROVE  Shown(req[o])'
<1> DEFINE q == req[o]
<1>1. CASE q.decision = "refunded"
  BY <1>1 DEF Grown, Consistent, OnTicket, Shown
<1>2. CASE q.decision = "replied_no_refund"
  <2>1. q.ticket \in Tickets
    BY <1>2 DEF Consistent, OnTicket
  <2>2. PICK n \in 1 .. Len(thread[q.ticket]) : thread[q.ticket][n].text = "routing"
    BY <1>2 DEF Shown
  <2>3. n \in 1 .. Len(thread'[q.ticket]) /\ thread'[q.ticket][n].text = "routing"
    BY <2>1, <2>2 DEF Grown
  <2> QED
    BY <1>2, <2>3 DEF Shown
<1>3. CASE q.decision \in {"escalated", "legal"}
  BY <1>3 DEF Grown, Consistent, OnTicket, Shown
<1> QED
  BY <1>1, <1>2, <1>3 DEF Shown

\* A ticket that was resolved before the step keeps its refund and its notice.
LEMMA ResolvedStays ==
    ASSUME Grown, ResolvedMeansRefunded, NEW t \in Tickets, ticketStatus[t] = "resolved"
    PROVE  \E i \in 1 .. Len(refunds'), n \in 1 .. Len(thread'[t]) :
             /\ refunds'[i].reason = t
             /\ SubUser[refunds'[i].subscription] = TicketUser[t]
             /\ thread'[t][n].text = "refund_notice"
             /\ thread'[t][n].amount = refunds'[i].amount
<1>1. PICK i \in 1 .. Len(refunds), n \in 1 .. Len(thread[t]) :
        /\ refunds[i].reason = t
        /\ SubUser[refunds[i].subscription] = TicketUser[t]
        /\ thread[t][n].text = "refund_notice"
        /\ thread[t][n].amount = refunds[i].amount
  BY DEF ResolvedMeansRefunded
<1>2. i \in 1 .. Len(refunds') /\ refunds'[i] = refunds[i]
      /\ n \in 1 .. Len(thread'[t]) /\ thread'[t][n] = thread[t][n]
  BY DEF Grown
<1> QED
  BY <1>1, <1>2

\* A step whose request tells its caller of the status it sets keeps every status told: the
\* requests that told of the others have ended and answer what they answered.
LEMMA StatusStaysTold ==
    ASSUME OutcomeInv, NEW r \in Requests, req[r].pc \notin Over, NEW q, req'[r] = q,
           \A o \in Requests \ {r} : req'[o] = req[o],
           \A t \in Tickets :
             \/ ticketStatus'[t] = ticketStatus[t]
             \/ ticketStatus'[t] = "escalated" /\ Tells(q, t)
             \/ ticketStatus'[t] = "resolved" /\ q.decision = "refunded" /\ q.ticket = t
    PROVE  StatusWasTold'
<1>1. req[r].decision = "none"
  BY DEF OutcomeInv, Consistent, Over
<1>2. ASSUME NEW t \in Tickets, ticketStatus'[t] = "resolved"
      PROVE  \E o \in Requests : req'[o].decision = "refunded" /\ req'[o].ticket = t
  BY <1>1, <1>2 DEF OutcomeInv, StatusWasTold
<1>3. ASSUME NEW t \in Tickets, ticketStatus'[t] = "escalated"
      PROVE  \E o \in Requests : Tells(req'[o], t)
  BY <1>1, <1>3 DEF OutcomeInv, StatusWasTold, Tells
<1> QED
  BY <1>2, <1>3 DEF StatusWasTold, Tells

\* A step that is not a flow's refund.
LEMMA HandledKeeps ==
    ASSUME TypeOK, OutcomeInv, NEW r \in Requests, Handled(r)
    PROVE  OutcomeInv'
<1>1. PICK q : Handles(r, q)
  BY DEF Handled
<1>2. req'[r] = q /\ \A o \in Requests \ {r} : req'[o] = req[o]
  BY <1>1 DEF Handles, TypeOK, RowsTypeOK
<1>3. Grown
  BY TablesGrow DEF Handled, LeavesOutcomes
<1>4. \A o \in Requests : Consistent(req'[o])
  BY <1>1, <1>2 DEF Handles, OutcomeInv
<1>5. ResolvedMeansRefunded'
  <2>1. ASSUME NEW t \in Tickets, ticketStatus'[t] = "resolved" PROVE ticketStatus[t] = "resolved"
    BY <2>1 DEF Handled, LeavesOutcomes
  <2> QED
    BY <1>3, <2>1, ResolvedStays DEF OutcomeInv, ResolvedMeansRefunded
<1>6. NoticesCounted'
  <2> SUFFICES ASSUME NEW t \in Tickets, NEW amount \in Nat
               PROVE  NoticesIn(thread'[t], amount) <= RefundsFor(refunds', t, amount)
    BY DEF NoticesCounted
  <2>1. thread[t] \in Seq(Messages) /\ refunds \in Seq(RefundRows) /\ t \in TicketIds
    BY DeskAssumption DEF TypeOK, RowsTypeOK, TicketTypeOK, MoneyTypeOK
  <2>2. NoticesIn(thread'[t], amount) = NoticesIn(thread[t], amount)
    <3>1. CASE thread'[t] = thread[t]
      BY <3>1
    <3>2. ASSUME NEW m \in Messages, thread'[t] = Append(thread[t], m), m.text # "refund_notice"
          PROVE  NoticesIn(thread'[t], amount) = NoticesIn(thread[t], amount)
      BY <2>1, <3>2, NoticeAppended
    <3> QED
      BY <3>1, <3>2 DEF Handled, LeavesOutcomes
  <2>3. RefundsFor(refunds', t, amount) = RefundsFor(refunds, t, amount)
    <3>1. ASSUME NEW row \in RefundRows, refunds' = Append(refunds, row),
                 row.reason \notin TicketIds
          PROVE  RefundsFor(refunds', t, amount) = RefundsFor(refunds, t, amount)
      BY <2>1, <3>1, RefundAppended
    <3> QED
      BY <3>1 DEF Handled, LeavesOutcomes
  <2> QED
    BY <2>2, <2>3 DEF OutcomeInv, NoticesCounted
<1>7. AnswerMatchesDesk'
  <2>1. (\A o \in Requests : Shown(req[o])) /\ OwnRefunds
    BY AnswersMatch DEF OutcomeInv
  <2>2. ASSUME NEW o \in Requests \ {r} PROVE Shown(req[o])'
    BY <1>2, <1>3, <2>1, ShownStays DEF OutcomeInv
  <2>3. Shown(req[r])'
    BY <1>1, <1>2 DEF Handles, Consistent, Shown
  <2>4. OwnRefunds'
    <3>1. q.decision # "refunded" /\ q.refund = 0
      BY <1>1 DEF Handles, Consistent
    <3>2. \A o \in Requests : req[o].decision = "refunded" => req[o].refund # 0
      BY <2>1 DEF Shown
    <3> QED
      BY <1>2, <2>1, <3>1, <3>2 DEF OwnRefunds
  <2> QED
    BY <2>2, <2>3, <2>4, AnswersMatchNext
<1>8. StatusWasTold'
  BY <1>1, <1>2, StatusStaysTold DEF Handled, Handles
<1> QED
  BY <1>4, <1>5, <1>6, <1>7, <1>8 DEF OutcomeInv

\* The row a flow's refund adds is the ticket's: its amount, its customer's subscription.
LEMMA FlowRefundRow ==
    ASSUME TypeOK, OutcomeInv, NEW r \in Requests, req[r].pc = "fetched", refundFor(req[r])
    PROVE  \E row \in RefundRows :
             /\ refunds' = Append(refunds, row)
             /\ row.reason = req[r].ticket /\ row.amount = req[r].amount
             /\ row.issued_by = req[r].actor
             /\ SubUser[row.subscription] = TicketUser[req[r].ticket]
<1> DEFINE q == req[r]
           row == [subscription |-> q.sub, amount |-> q.amount, reason |-> q.ticket,
                   issued_by |-> q.actor, approved |-> FALSE, created_at |-> today]
<1>1. refunds' = Append(refunds, row)
  BY DEF refundFor, recordRefund
<1>2. /\ q.sub \in Subscriptions /\ q.ticket \in Reasons /\ q.actor \in Actors
      /\ SubUser[q.sub] = TicketUser[q.ticket]
  BY DeskAssumption DEF TypeOK, RowsTypeOK, OutcomeInv, Consistent, Reasons, Awaiting
<1>3. q.amount \in Nat
  <2>1. q.amount \in Amounts \cup {0}
    BY DEF TypeOK, RowsTypeOK, RequestStates
  <2>2. Amounts \cup {0} \subseteq Nat
    BY FlowsAssumption
  <2> QED
    BY <2>1, <2>2
<1>4. row \in RefundRows
  BY <1>2, <1>3 DEF RefundRows, TypeOK, RowsTypeOK, MoneyTypeOK
<1> QED
  BY <1>1, <1>2, <1>4

\* After a flow's refund, with or without its notice, the notices are still covered.
LEMMA RefundCoversNotice ==
    ASSUME TypeOK, NoticesCounted, NEW k \in Tickets, NEW row \in RefundRows,
           refunds' = Append(refunds, row), row.reason = k,
           \/ UNCHANGED thread
           \/ addMessage(k, "refund_notice", row.amount, FALSE)
    PROVE  NoticesCounted'
<1> SUFFICES ASSUME NEW t \in Tickets, NEW amount \in Nat
             PROVE  NoticesIn(thread'[t], amount) <= RefundsFor(refunds', t, amount)
  BY DEF NoticesCounted
<1> DEFINE m == [text |-> "refund_notice", amount |-> row.amount, flagged |-> FALSE]
           new == IF t = k /\ amount = row.amount THEN 1 ELSE 0
<1>1. thread[t] \in Seq(Messages) /\ refunds \in Seq(RefundRows)
  BY DEF TypeOK, RowsTypeOK, TicketTypeOK, MoneyTypeOK
<1>2. m \in Messages
  BY DEF Messages, RefundRows
<1>3. /\ NoticesIn(thread[t], amount) \in Nat
      /\ \/ NoticesIn(thread'[t], amount) = NoticesIn(thread[t], amount)
         \/ NoticesIn(thread'[t], amount) = NoticesIn(thread[t], amount) + new
  <2>1. thread'[t] = thread[t] \/ (t = k /\ thread'[t] = Append(thread[t], m))
    BY DEF addMessage, TypeOK, RowsTypeOK, TicketTypeOK
  <2>2. m.text = "refund_notice" /\ m.amount = row.amount
    OBVIOUS
  <2> HIDE DEF m
  <2>3. /\ NoticesIn(thread[t], amount) \in Nat
        /\ NoticesIn(Append(thread[t], m), amount) = NoticesIn(thread[t], amount)
             + (IF m.text = "refund_notice" /\ m.amount = amount THEN 1 ELSE 0)
    BY <1>1, <1>2, NoticeAppended
  <2> QED
    BY <2>1, <2>2, <2>3
<1>4. /\ RefundsFor(refunds, t, amount) \in Nat
      /\ RefundsFor(refunds', t, amount) = RefundsFor(refunds, t, amount) + new
  <2>1. /\ RefundsFor(refunds, t, amount) \in Nat
        /\ RefundsFor(Append(refunds, row), t, amount) = RefundsFor(refunds, t, amount)
             + (IF row.reason = t /\ row.amount = amount THEN 1 ELSE 0)
    BY <1>1, RefundAppended
  <2> QED
    BY <2>1
<1>5. NoticesIn(thread[t], amount) <= RefundsFor(refunds, t, amount)
  BY DEF NoticesCounted
<1>6. new \in {0, 1}
  OBVIOUS
<1> HIDE DEF new
<1> QED
  BY <1>3, <1>4, <1>5, <1>6

\* The billing flow refunds, tells the customer and resolves the ticket.
LEMMA RefundKeeps ==
    ASSUME TypeOK, OutcomeInv, NEW r \in Requests, Refund(r)
    PROVE  OutcomeInv'
<1> DEFINE q == req[r]
           id == Len(refunds) + 1
           p == [[q EXCEPT !.refund = id] EXCEPT !.pc = "done", !.decision = "refunded"]
<1>1. /\ q.pc = "fetched" /\ refundFor(q) /\ noticeFor(q)
      /\ ticketStatus' = [ticketStatus EXCEPT ![q.ticket] = "resolved"]
      /\ req' = [req EXCEPT ![r] = p]
  BY DEF Refund, Answer, updateStatus
<1>2. PICK row \in RefundRows :
        /\ refunds' = Append(refunds, row)
        /\ row.reason = q.ticket /\ row.amount = q.amount
        /\ row.issued_by = q.actor
        /\ SubUser[row.subscription] = TicketUser[q.ticket]
  BY <1>1, FlowRefundRow
<1>3. q.ticket \in Tickets /\ q \in RequestStates
  BY <1>1 DEF TypeOK, RowsTypeOK
<1>4. /\ p.pc = "done" /\ p.decision = "refunded" /\ p.refund = id
      /\ p.ticket = q.ticket /\ p.amount = q.amount /\ p.actor = q.actor
  BY <1>3 DEF RequestStates
<1>5. req'[r] = p /\ \A o \in Requests \ {r} : req'[o] = req[o]
  BY <1>1 DEF TypeOK, RowsTypeOK
<1> DEFINE m == [text |-> "refund_notice", amount |-> q.amount, flagged |-> FALSE]
<1>6. thread' = [thread EXCEPT ![q.ticket] = Append(@, m)]
  BY <1>1 DEF noticeFor, addMessage
<1>7. m \in Messages /\ m.text = "refund_notice" /\ m.amount = q.amount
  BY <1>2 DEF Messages, RefundRows
<1> HIDE DEF p, q, m
<1>8. refunds \in Seq(RefundRows) /\ thread[q.ticket] \in Seq(Messages)
  BY <1>3 DEF TypeOK, RowsTypeOK, TicketTypeOK, MoneyTypeOK
<1>9. /\ id \in 1 .. Len(refunds') /\ refunds'[id] = row
      /\ id \notin 1 .. Len(refunds) /\ id # 0
  BY <1>2, <1>8
<1>10. Grown
  <2>1. \A t \in Tickets : ticketStatus'[t] \in {ticketStatus[t], "resolved"}
    BY <1>1 DEF TypeOK, RowsTypeOK, TicketTypeOK
  <2>2. \A t \in Tickets : thread'[t] = thread[t] \/ thread'[t] = Append(thread[t], m)
    BY <1>6 DEF TypeOK, RowsTypeOK, TicketTypeOK
  <2> QED
    BY <1>2, <1>7, <2>1, <2>2, TablesGrow
<1>11. \A o \in Requests : Consistent(req'[o])
  BY <1>3, <1>4, <1>5 DEF Consistent, OutcomeInv
<1>12. ResolvedMeansRefunded'
  <2> SUFFICES ASSUME NEW t \in Tickets, ticketStatus'[t] = "resolved"
               PROVE  \E i \in 1 .. Len(refunds'), n \in 1 .. Len(thread'[t]) :
                        /\ refunds'[i].reason = t
                        /\ SubUser[refunds'[i].subscription] = TicketUser[t]
                        /\ thread'[t][n].text = "refund_notice"
                        /\ thread'[t][n].amount = refunds'[i].amount
    BY DEF ResolvedMeansRefunded
  <2>1. CASE t = q.ticket
    <3>1. thread'[t] = Append(thread[t], m)
      BY <1>6, <2>1 DEF TypeOK, RowsTypeOK, TicketTypeOK
    <3>2. Len(thread[t]) + 1 \in 1 .. Len(thread'[t])
            /\ thread'[t][Len(thread[t]) + 1] = m
      BY <1>7, <1>8, <2>1, <3>1
    <3> QED
      BY <1>2, <1>7, <1>9, <2>1, <3>2
  <2>2. CASE t # q.ticket
    <3>1. ticketStatus[t] = "resolved"
      BY <1>1, <2>2 DEF TypeOK, RowsTypeOK, TicketTypeOK
    <3> QED
      BY <1>10, <3>1, ResolvedStays DEF OutcomeInv
  <2> QED
    BY <2>1, <2>2
<1>13. NoticesCounted'
  <2>1. addMessage(q.ticket, "refund_notice", row.amount, FALSE)
    BY <1>1, <1>2 DEF noticeFor
  <2> QED
    BY <1>2, <1>3, <2>1, RefundCoversNotice DEF OutcomeInv
<1>14. AnswerMatchesDesk'
  <2>1. (\A o \in Requests : Shown(req[o])) /\ OwnRefunds
    BY AnswersMatch DEF OutcomeInv
  <2>2. ASSUME NEW o \in Requests \ {r} PROVE Shown(req[o])'
    BY <1>5, <1>10, <2>1, ShownStays DEF OutcomeInv
  <2>3. Shown(req[r])'
    <3>1. ticketStatus'[q.ticket] = "resolved"
      BY <1>1, <1>3 DEF TypeOK, RowsTypeOK, TicketTypeOK
    <3> QED
      BY <1>2, <1>4, <1>5, <1>9, <3>1 DEF Shown
  <2>4. OwnRefunds'
    <3>1. \A o \in Requests : req[o].refund = 0 \/ req[o].refund \in 1 .. Len(refunds)
      BY <2>1 DEF Shown
    <3>2. \A o \in Requests \ {r} : req'[o].refund # p.refund
      BY <1>4, <1>5, <1>9, <3>1
    <3> QED
      BY <1>5, <2>1, <3>2 DEF OwnRefunds
  <2> QED
    BY <2>2, <2>3, <2>4, AnswersMatchNext
<1>15. StatusWasTold'
  <2>1. \A t \in Tickets : \/ ticketStatus'[t] = ticketStatus[t]
                           \/ ticketStatus'[t] = "resolved" /\ p.ticket = t
    BY <1>1, <1>4 DEF TypeOK, RowsTypeOK, TicketTypeOK
  <2>2. req[r].pc \notin Over
    BY <1>1 DEF q, Over
  <2> QED
    BY <1>4, <1>5, <2>1, <2>2, StatusStaysTold
<1> QED
  BY <1>11, <1>12, <1>13, <1>14, <1>15 DEF OutcomeInv

\* The refund is made and a later statement throws.
LEMMA CommittedThenFailedKeeps ==
    ASSUME TypeOK, OutcomeInv, NEW r \in Requests, CommittedThenFailed(r)
    PROVE  OutcomeInv'
<1> DEFINE q == req[r]
<1>1. q.pc = "fetched" /\ refundFor(q) /\ (noticeFor(q) \/ UNCHANGED thread)
  BY DEF CommittedThenFailed
<1>2. PICK row \in RefundRows :
        /\ refunds' = Append(refunds, row)
        /\ row.reason = q.ticket /\ row.amount = q.amount
        /\ row.issued_by = q.actor
        /\ SubUser[row.subscription] = TicketUser[q.ticket]
  BY <1>1, FlowRefundRow
<1>3. q.ticket \in Tickets /\ Underway(q)
  BY <1>1, MovingIsUnderway DEF Over, TypeOK, RowsTypeOK
<1>4. PICK p :
        /\ req' = [req EXCEPT ![r] = p]
        /\ p.pc \in {"done", "failed"} /\ p.refund = 0 /\ p.ticket = q.ticket
        /\ \/ p.pc = "done" /\ p.decision = "escalated" /\ updateStatus(q.ticket, "escalated")
           \/ p.pc = "failed" /\ p.decision = "none" /\ UNCHANGED ticketStatus
  <2>1. CASE updateStatus(q.ticket, "escalated") /\ Answer(r, q, "escalated")
    <3> DEFINE p == [q EXCEPT !.pc = "done", !.decision = "escalated"]
    <3>1. /\ req' = [req EXCEPT ![r] = p]
          /\ p.pc = "done" /\ p.refund = 0 /\ p.ticket = q.ticket /\ p.decision = "escalated"
      BY <1>3, <2>1 DEF Answer, Underway, RequestStates
    <3> HIDE DEF p
    <3> QED
      BY <2>1, <3>1
  <2>2. CASE req' = [req EXCEPT ![r] = [q EXCEPT !.pc = "failed"]] /\ UNCHANGED ticketStatus
    <3> DEFINE p == [q EXCEPT !.pc = "failed"]
    <3>1. /\ req' = [req EXCEPT ![r] = p]
          /\ p.pc = "failed" /\ p.refund = 0 /\ p.ticket = q.ticket /\ p.decision = "none"
      BY <1>3, <2>2 DEF Underway, RequestStates
    <3> HIDE DEF p
    <3> QED
      BY <2>2, <3>1
  <2> QED
    BY <2>1, <2>2 DEF CommittedThenFailed
<1>5. req'[r] = p /\ \A o \in Requests \ {r} : req'[o] = req[o]
  BY <1>4 DEF TypeOK, RowsTypeOK
<1> DEFINE m == [text |-> "refund_notice", amount |-> q.amount, flagged |-> FALSE]
<1>6. m \in Messages
  BY <1>2 DEF Messages, RefundRows
<1>7. \A t \in Tickets : thread'[t] = thread[t] \/ thread'[t] = Append(thread[t], m)
  BY <1>1 DEF noticeFor, addMessage, TypeOK, RowsTypeOK, TicketTypeOK
<1>8. \A t \in Tickets : ticketStatus'[t] \in {ticketStatus[t], "escalated"}
  BY <1>4 DEF updateStatus, TypeOK, RowsTypeOK, TicketTypeOK
<1> HIDE DEF q, m
<1>9. Grown
  BY <1>2, <1>6, <1>7, <1>8, TablesGrow
<1>10. \A o \in Requests : Consistent(req'[o])
  BY <1>3, <1>4, <1>5 DEF Consistent, OutcomeInv
<1>11. ResolvedMeansRefunded'
  <2>1. ASSUME NEW t \in Tickets, ticketStatus'[t] = "resolved" PROVE ticketStatus[t] = "resolved"
    BY <1>8, <2>1
  <2> QED
    BY <1>9, <2>1, ResolvedStays DEF OutcomeInv, ResolvedMeansRefunded
<1>12. NoticesCounted'
  <2>1. UNCHANGED thread \/ addMessage(q.ticket, "refund_notice", row.amount, FALSE)
    BY <1>1, <1>2 DEF noticeFor
  <2> QED
    BY <1>2, <1>3, <2>1, RefundCoversNotice DEF OutcomeInv
<1>13. AnswerMatchesDesk'
  <2>1. (\A o \in Requests : Shown(req[o])) /\ OwnRefunds
    BY AnswersMatch DEF OutcomeInv
  <2>2. ASSUME NEW o \in Requests \ {r} PROVE Shown(req[o])'
    BY <1>5, <1>9, <2>1, ShownStays DEF OutcomeInv
  <2>3. Shown(req[r])'
    <3>1. p.decision = "escalated" => ticketStatus'[q.ticket] = "escalated"
      BY <1>3, <1>4 DEF updateStatus, TypeOK, RowsTypeOK, TicketTypeOK
    <3> QED
      BY <1>4, <1>5, <3>1 DEF Shown
  <2>4. OwnRefunds'
    <3>1. \A o \in Requests : req[o].decision = "refunded" => req[o].refund # 0
      BY <2>1 DEF Shown
    <3> QED
      BY <1>4, <1>5, <2>1, <3>1 DEF OwnRefunds
  <2> QED
    BY <2>2, <2>3, <2>4, AnswersMatchNext
<1>14. StatusWasTold'
  <2>1. \A t \in Tickets : \/ ticketStatus'[t] = ticketStatus[t]
                           \/ ticketStatus'[t] = "escalated" /\ Tells(p, t)
    BY <1>4 DEF updateStatus, TypeOK, RowsTypeOK, TicketTypeOK, Tells
  <2>2. req[r].pc \notin Over
    BY <1>1 DEF q, Over
  <2> QED
    BY <1>5, <2>1, <2>2, StatusStaysTold
<1> QED
  BY <1>10, <1>11, <1>12, <1>13, <1>14 DEF OutcomeInv

-----------------------------------------------------------------------------

LEMMA InitOutcome == Init => OutcomeInv
<1> SUFFICES ASSUME Init PROVE OutcomeInv
  OBVIOUS
<1>1. \A r \in Requests : req[r] = Idle
  BY DEF Init
<1>2. \A t \in Tickets : ticketStatus[t] = "open" /\ thread[t] = <<>>
  BY DEF Init, DeskInit
<1>3. refunds = <<>>
  BY DEF Init, DeskInit
<1>4. NoticesCounted
  <2>1. ASSUME NEW t, NEW amount
        PROVE  NoticesIn(<<>>, amount) = 0 /\ RefundsFor(<<>>, t, amount) = 0
    <3>1. {k \in 1 .. Len(<<>>) : <<>>[k].text = "refund_notice" /\ <<>>[k].amount = amount} = {}
            /\ {i \in 1 .. Len(<<>>) : <<>>[i].reason = t /\ <<>>[i].amount = amount} = {}
      OBVIOUS
    <3> QED
      BY <3>1, FS_EmptySet DEF NoticesIn, RefundsFor
  <2> QED
    BY <1>2, <1>3, <2>1 DEF NoticesCounted
<1> QED
  BY <1>1, <1>2, <1>4
     DEF Idle, OutcomeInv, Consistent, OnTicket, ResolvedMeansRefunded, AnswerMatchesDesk,
         StatusWasTold

LEMMA NextOutcome ==
    ASSUME TypeOK, OutcomeInv, [Next]_vars
    PROVE  OutcomeInv'
<1>1. CASE UNCHANGED <<ticketStatus, thread, refunds, req>>
  BY <1>1 DEF OutcomeInv, ResolvedMeansRefunded, NoticesCounted, AnswerMatchesDesk,
             StatusWasTold
<1> QED
  BY <1>1, EveryStepIsDeskStep, HandledKeeps, RefundKeeps, CommittedThenFailedKeeps

LEMMA OutcomeInvariant == Spec => []OutcomeInv
  BY InitOutcome, NextOutcome, TypeCorrect, PTL DEF Spec

\* A ticket is resolved only by a refund to its customer and the notice of that refund.
THEOREM ResolvedWasRefunded == Spec => []ResolvedMeansRefunded
<1>1. OutcomeInv => ResolvedMeansRefunded
  BY DEF OutcomeInv
<1> QED
  BY <1>1, OutcomeInvariant, PTL

\* A refund notice of some amount is said at most as often as that refund was made.
THEOREM NoticesHaveRefunds == Spec => []NoticesAreBacked
<1>1. TypeOK /\ OutcomeInv => NoticesAreBacked
  <2> SUFFICES ASSUME TypeOK, NoticesCounted,
                      NEW t \in Tickets, NEW n \in 1 .. Len(thread[t])
               PROVE  NoticesIn(thread[t], thread[t][n].amount)
                        <= RefundsFor(refunds, t, thread[t][n].amount)
    BY DEF OutcomeInv, NoticesAreBacked, NoticesIn, RefundsFor
  <2>1. thread[t] \in Seq(Messages)
    BY DEF TypeOK, RowsTypeOK, TicketTypeOK
  <2>2. thread[t][n] \in Messages
    BY <2>1
  <2>3. thread[t][n].amount \in Nat
    BY <2>2 DEF Messages
  <2> QED
    BY <2>3 DEF NoticesCounted
<1> QED
  BY <1>1, TypeCorrect, OutcomeInvariant, PTL

\* What a request answered is what the desk shows, then and ever after.
THEOREM AnswersMatchDesk == Spec => []AnswerMatchesDesk
<1>1. OutcomeInv => AnswerMatchesDesk
  BY DEF OutcomeInv
<1> QED
  BY <1>1, OutcomeInvariant, PTL

\* The status of a ticket is what some request told its caller, whoever wrote it last.
THEOREM StatusesWereTold == Spec => []StatusWasTold
<1>1. OutcomeInv => StatusWasTold
  BY DEF OutcomeInv
<1> QED
  BY <1>1, OutcomeInvariant, PTL

-----------------------------------------------------------------------------
(* Every refund for a ticket has its own request.  The witness of the invariant, which
   request made which refund, is extended at every flow's refund. *)

\* The parts of EveryRefundHasItsRequest for given tables, and with the assignment f.
RowsOfFlows(rows) == {i \in 1 .. Len(rows) : rows[i].reason \in TicketIds}

AccountsIn(rows, q, i) ==
    /\ q.ticket = rows[i].reason
    /\ q.amount = rows[i].amount
    /\ q.actor = rows[i].issued_by
    /\ \/ q.decision = "refunded" /\ q.refund = i
       \/ q.decision = "escalated"
       \/ q.pc = "failed"

Accounted(rows, reqs, f) ==
    /\ \A i \in RowsOfFlows(rows) : f[i] \in Requests /\ AccountsIn(rows, reqs[f[i]], i)
    /\ \A i, j \in RowsOfFlows(rows) : f[i] = f[j] => i = j

LEMMA InjectionAccounts ==
    ASSUME NEW rows, NEW reqs
    PROVE  (\E maker \in Injection(RowsOfFlows(rows), Requests) :
              \A i \in RowsOfFlows(rows) : AccountsIn(rows, reqs[maker[i]], i))
           <=> \E f : Accounted(rows, reqs, f)
<1> DEFINE F == RowsOfFlows(rows)
<1>1. ASSUME NEW f, Accounted(rows, reqs, f)
      PROVE  \E maker \in Injection(F, Requests) :
               \A i \in F : AccountsIn(rows, reqs[maker[i]], i)
  <2> DEFINE g == [i \in F |-> f[i]]
  <2>1. g \in Injection(F, Requests)
    BY <1>1 DEF Injection, IsInjective, Accounted
  <2>2. \A i \in F : AccountsIn(rows, reqs[g[i]], i)
    BY <1>1 DEF Accounted
  <2> HIDE DEF g, F
  <2> QED
    BY <2>1, <2>2
<1>2. ASSUME NEW f \in Injection(F, Requests), \A i \in F : AccountsIn(rows, reqs[f[i]], i)
      PROVE  Accounted(rows, reqs, f)
  BY <1>2 DEF Injection, IsInjective, Accounted
<1> QED
  BY <1>1, <1>2

LEMMA SomeAccounted ==
    /\ EveryRefundHasItsRequest <=> \E f : Accounted(refunds, req, f)
    /\ EveryRefundHasItsRequest' <=> \E f : Accounted(refunds', req', f)
<1>1. EveryRefundHasItsRequest <=>
        \E maker \in Injection(RowsOfFlows(refunds), Requests) :
          \A i \in RowsOfFlows(refunds) : AccountsIn(refunds, req[maker[i]], i)
  BY DEF EveryRefundHasItsRequest, FlowRefunds, AccountsFor, RowsOfFlows, AccountsIn
<1>2. EveryRefundHasItsRequest' <=>
        \E maker \in Injection(RowsOfFlows(refunds'), Requests) :
          \A i \in RowsOfFlows(refunds') : AccountsIn(refunds', req'[maker[i]], i)
  BY DEF EveryRefundHasItsRequest, FlowRefunds, AccountsFor, RowsOfFlows, AccountsIn
<1> QED
  BY <1>1, <1>2, InjectionAccounts

\* A request that is not over accounts for nothing yet.
LEMMA MovingAccountsForNothing ==
    ASSUME OutcomeInv, NEW r \in Requests, req[r].pc \notin Over, NEW rows, NEW i
    PROVE  ~AccountsIn(rows, req[r], i)
  BY DEF OutcomeInv, Consistent, Over, AccountsIn

\* What is accounted for stays so when a request that is not over moves on.
LEMMA AccountStays ==
    ASSUME OutcomeInv, NEW r \in Requests, req[r].pc \notin Over,
           \A o \in Requests \ {r} : req'[o] = req[o],
           NEW f, Accounted(refunds, req, f),
           NEW i \in RowsOfFlows(refunds), refunds'[i] = refunds[i]
    PROVE  f[i] \in Requests \ {r} /\ AccountsIn(refunds', req'[f[i]], i)
<1>1. f[i] \in Requests /\ AccountsIn(refunds, req[f[i]], i)
  BY DEF Accounted
<1>2. f[i] # r
  BY <1>1, MovingAccountsForNothing
<1>3. req'[f[i]] = req[f[i]]
  BY <1>1, <1>2
<1> QED
  BY <1>1, <1>2, <1>3 DEF AccountsIn

\* A step of a request that makes no refund for a ticket.
LEMMA NoFlowRefundKeepsAccount ==
    ASSUME OutcomeInv, NEW r \in Requests, req[r].pc \notin Over,
           \A o \in Requests \ {r} : req'[o] = req[o],
           RowsOfFlows(refunds') = RowsOfFlows(refunds),
           \A i \in RowsOfFlows(refunds) : refunds'[i] = refunds[i],
           NEW f, Accounted(refunds, req, f)
    PROVE  Accounted(refunds', req', f)
<1>1. ASSUME NEW i \in RowsOfFlows(refunds)
      PROVE  f[i] \in Requests /\ AccountsIn(refunds', req'[f[i]], i)
  BY AccountStays
<1>2. \A i, j \in RowsOfFlows(refunds) : f[i] = f[j] => i = j
  BY DEF Accounted
<1> QED
  BY <1>1, <1>2 DEF Accounted

\* A flow's refund: the request that made it is over, and accounts for the new row.
LEMMA FlowRefundExtendsAccount ==
    ASSUME TypeOK, OutcomeInv, NEW r \in Requests, req[r].pc \notin Over,
           \A o \in Requests \ {r} : req'[o] = req[o],
           NEW row \in RefundRows, refunds' = Append(refunds, row),
           AccountsIn(refunds', req'[r], Len(refunds) + 1),
           NEW f, Accounted(refunds, req, f)
    PROVE  \E g : Accounted(refunds', req', g)
<1> DEFINE id == Len(refunds) + 1
           F == RowsOfFlows(refunds)
           g == [i \in F \cup {id} |-> IF i = id THEN r ELSE f[i]]
<1>1. refunds \in Seq(RefundRows)
  BY DEF TypeOK, RowsTypeOK, MoneyTypeOK
<1>2. /\ RowsOfFlows(refunds') \subseteq F \cup {id}
      /\ id \notin F
      /\ \A i \in F : refunds'[i] = refunds[i]
  BY <1>1 DEF RowsOfFlows
<1> HIDE DEF id, F
<1>3. g[id] = r /\ \A i \in F : g[i] = f[i]
  BY <1>2
<1> HIDE DEF g
<1>4. ASSUME NEW i \in F
      PROVE  f[i] \in Requests \ {r} /\ AccountsIn(refunds', req'[f[i]], i)
  BY <1>2, AccountStays DEF F
<1>5. ASSUME NEW i \in RowsOfFlows(refunds')
      PROVE  g[i] \in Requests /\ AccountsIn(refunds', req'[g[i]], i)
  <2>1. CASE i = id
    BY <1>3, <2>1 DEF id
  <2>2. CASE i \in F
    BY <1>3, <1>4, <2>2
  <2> QED
    BY <1>2, <2>1, <2>2
<1>6. ASSUME NEW i \in RowsOfFlows(refunds'), NEW j \in RowsOfFlows(refunds'), g[i] = g[j]
      PROVE  i = j
  <2>1. \A k, l \in F : f[k] = f[l] => k = l
    BY DEF Accounted, F
  <2> QED
    BY <1>2, <1>3, <1>4, <1>6, <2>1
<1> QED
  BY <1>5, <1>6 DEF Accounted

LEMMA NextAccounted ==
    ASSUME TypeOK, OutcomeInv, [Next]_vars, EveryRefundHasItsRequest
    PROVE  EveryRefundHasItsRequest'
<1>1. PICK f : Accounted(refunds, req, f)
  BY SomeAccounted
<1>2. refunds \in Seq(RefundRows)
  BY DEF TypeOK, RowsTypeOK, MoneyTypeOK
<1>3. CASE UNCHANGED <<ticketStatus, thread, refunds, req>>
  BY <1>1, <1>3, SomeAccounted
<1>4. ASSUME NEW r \in Requests, Handled(r) PROVE EveryRefundHasItsRequest'
  <2>1. req[r].pc \notin Over /\ \A o \in Requests \ {r} : req'[o] = req[o]
    BY <1>4 DEF Handled, Handles, TypeOK, RowsTypeOK
  <2>2. /\ RowsOfFlows(refunds') = RowsOfFlows(refunds)
        /\ \A i \in RowsOfFlows(refunds) : refunds'[i] = refunds[i]
    <3>1. CASE refunds' = refunds
      BY <3>1 DEF RowsOfFlows
    <3>2. ASSUME NEW row \in RefundRows, refunds' = Append(refunds, row),
                 row.reason \notin TicketIds
          PROVE  /\ RowsOfFlows(refunds') = RowsOfFlows(refunds)
                 /\ \A i \in RowsOfFlows(refunds) : refunds'[i] = refunds[i]
      <4>1. \A i \in 1 .. Len(refunds') :
              \/ i \in 1 .. Len(refunds) /\ refunds'[i] = refunds[i]
              \/ i \notin 1 .. Len(refunds) /\ refunds'[i] = row
        BY <1>2, <3>2
      <4>2. 1 .. Len(refunds) \subseteq 1 .. Len(refunds')
        BY <1>2, <3>2
      <4> QED
        BY <3>2, <4>1, <4>2 DEF RowsOfFlows
    <3> QED
      BY <1>4, <3>1, <3>2 DEF Handled, LeavesOutcomes
  <2>3. Accounted(refunds', req', f)
    BY <1>1, <2>1, <2>2, NoFlowRefundKeepsAccount
  <2> QED
    BY <2>3, SomeAccounted
<1>5. ASSUME NEW r \in Requests, Refund(r) \/ CommittedThenFailed(r)
      PROVE  EveryRefundHasItsRequest'
  <2> DEFINE q == req[r]
             id == Len(refunds) + 1
  <2>1. q.pc = "fetched" /\ refundFor(q) /\ q \in RequestStates
    BY <1>5 DEF Refund, CommittedThenFailed, TypeOK, RowsTypeOK
  <2>2. PICK row \in RefundRows :
          /\ refunds' = Append(refunds, row)
          /\ row.reason = q.ticket /\ row.amount = q.amount
          /\ row.issued_by = q.actor
    BY <2>1, FlowRefundRow
  <2>3. refunds'[id] = row
    BY <1>2, <2>2
  <2>4. PICK p :
          /\ req' = [req EXCEPT ![r] = p]
          /\ p.ticket = q.ticket /\ p.amount = q.amount /\ p.actor = q.actor
          /\ \/ p.decision = "refunded" /\ p.refund = id
             \/ p.decision = "escalated"
             \/ p.pc = "failed"
    <3>1. CASE Refund(r)
      <4> DEFINE p == [[q EXCEPT !.refund = id] EXCEPT !.pc = "done", !.decision = "refunded"]
      <4>1. req' = [req EXCEPT ![r] = p]
        BY <3>1 DEF Refund, Answer
      <4>2. /\ p.ticket = q.ticket /\ p.amount = q.amount /\ p.actor = q.actor
            /\ p.decision = "refunded" /\ p.refund = id
        BY <2>1 DEF RequestStates
      <4> HIDE DEF p, q, id
      <4> QED
        BY <4>1, <4>2
    <3>2. CASE Answer(r, q, "escalated")
      <4> DEFINE p == [q EXCEPT !.pc = "done", !.decision = "escalated"]
      <4>1. req' = [req EXCEPT ![r] = p]
        BY <3>2 DEF Answer
      <4>2. /\ p.ticket = q.ticket /\ p.amount = q.amount /\ p.actor = q.actor
            /\ p.decision = "escalated"
        BY <2>1 DEF RequestStates
      <4> HIDE DEF p, q, id
      <4> QED
        BY <4>1, <4>2
    <3>3. CASE req' = [req EXCEPT ![r] = [q EXCEPT !.pc = "failed"]]
      <4> DEFINE p == [q EXCEPT !.pc = "failed"]
      <4>1. /\ req' = [req EXCEPT ![r] = p]
            /\ p.ticket = q.ticket /\ p.amount = q.amount /\ p.actor = q.actor
            /\ p.pc = "failed"
        BY <2>1, <3>3 DEF RequestStates
      <4> HIDE DEF p, q, id
      <4> QED
        BY <4>1
    <3> QED
      BY <1>5, <3>1, <3>2, <3>3 DEF CommittedThenFailed
  <2>5. req'[r] = p /\ \A o \in Requests \ {r} : req'[o] = req[o]
    BY <2>4 DEF TypeOK, RowsTypeOK
  <2>6. req[r].pc \notin Over
    BY <2>1 DEF Over
  <2> HIDE DEF q
  <2>7. AccountsIn(refunds', req'[r], id)
    BY <2>2, <2>3, <2>4, <2>5 DEF AccountsIn
  <2>8. \E g : Accounted(refunds', req', g)
    BY <1>1, <2>2, <2>5, <2>6, <2>7, FlowRefundExtendsAccount
  <2> QED
    BY <2>8, SomeAccounted
<1> QED
  BY <1>3, <1>4, <1>5, EveryStepIsDeskStep

\* Whatever fails after a commit, the refunds made for tickets belong to different requests,
\* each of which names its refund, was handed to a human or ended in an error.
THEOREM RefundsHaveRequests == Spec => []EveryRefundHasItsRequest
<1>1. Init => EveryRefundHasItsRequest
  <2> SUFFICES ASSUME Init PROVE EveryRefundHasItsRequest
    OBVIOUS
  <2>1. RowsOfFlows(refunds) = {}
    BY DEF Init, DeskInit, RowsOfFlows
  <2>2. Accounted(refunds, req, <<>>)
    BY <2>1 DEF Accounted
  <2> QED
    BY <2>2, SomeAccounted
<1> QED
  BY <1>1, NextAccounted, TypeCorrect, OutcomeInvariant, PTL DEF Spec

=============================================================================
