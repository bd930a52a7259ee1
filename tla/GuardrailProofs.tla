-------------------------- MODULE GuardrailProofs --------------------------
(***************************************************************************)
(* The legal/security guardrail of TicketFlows, for every set of requests  *)
(* and tickets: no flagged text reaches a model, and a ticket whose seeded *)
(* text has a keyword is never past the check, refunded, answered by a     *)
(* flow or resolved.                                                       *)
(***************************************************************************)
EXTENDS DeskProofs

\* A request that holds ticket t is over.
Apart(q, t) == q.ticket = t => q.pc \in {"done", "failed"}

\* The inductive invariant: LegalTicketsStayWithHumans, and no request is about to start
\* with a flagged ticket either.
GuardrailInv ==
    /\ LegalTicketsStayWithHumans
    /\ \A t \in SeedFlagged, r \in Requests : Apart(req[r], t)

\* What a step may do to a ticket the seed flagged: escalate it, add a session's reply.
\* It makes no refund for it and takes no request with it to an await.
LeavesToHumans(t) ==
    /\ ticketStatus'[t] \in {ticketStatus[t], "escalated"}
    /\ \/ UNCHANGED refunds
       \/ \E row : refunds' = Append(refunds, row) /\ row.reason # t
    /\ \/ thread'[t] = thread[t]
       \/ \E m : thread'[t] = Append(thread[t], m) /\ m.text = "reply"
    /\ \A r \in Requests : req'[r] = req[r] \/ Apart(req'[r], t)

\* Only r changes, and it does not hold t at an await.
LEMMA OneRequestApart ==
    ASSUME TypeOK, NEW r \in Requests, NEW t, NEW q, req' = [req EXCEPT ![r] = q], Apart(q, t)
    PROVE  \A o \in Requests : req'[o] = req[o] \/ Apart(req'[o], t)
  BY DEF TypeOK, RowsTypeOK

\* A request that stands at an await works on another ticket.
LEMMA WaitingElsewhere ==
    ASSUME GuardrailInv, NEW t \in SeedFlagged, NEW r \in Requests, req[r].pc \in Awaiting
    PROVE  req[r].ticket # t
  BY DEF GuardrailInv, Apart, Awaiting

\* The first stretch of a flow.
LEMMA ScreenedGuards ==
    ASSUME TypeOK, NEW t \in SeedFlagged, NEW r \in Requests, NEW q \in RequestStates,
           NEW pc, NEW decision, Screened(r, q, pc, decision)
    PROVE  LeavesToHumans(t)
<1>1. CASE Fail(r, q)
  <2>1. Apart([q EXCEPT !.pc = "failed"], t)
    BY DEF Apart, RequestStates
  <2> QED
    BY <1>1, <2>1, OneRequestApart DEF Fail, deskVars, LeavesToHumans
<1>2. CASE q.ticket \in Tickets /\ EscalateTicket(r, q, decision)
  <2>1. Apart([q EXCEPT !.pc = "done", !.decision = decision], t)
    BY DEF Apart, RequestStates
  <2>2. ticketStatus'[t] \in {ticketStatus[t], "escalated"}
    BY <1>2, DeskAssumption DEF EscalateTicket, updateStatus, TypeOK, RowsTypeOK, TicketTypeOK
  <2> QED
    BY <1>2, <2>1, <2>2, OneRequestApart
       DEF EscalateTicket, Answer, moneyVars, LeavesToHumans
<1>3. CASE ~checkLegalOrSecurityFlags(q.ticket) /\ Await(r, q, pc)
             /\ Expose(r, pc, q.ticket) /\ UNCHANGED deskVars
  <2>1. q.ticket # t
    BY <1>3 DEF checkLegalOrSecurityFlags
  <2>2. Apart([q EXCEPT !.pc = pc], t)
    BY <2>1 DEF Apart, RequestStates
  <2> QED
    BY <1>3, <2>2, OneRequestApart DEF Await, deskVars, LeavesToHumans
<1> QED
  BY <1>1, <1>2, <1>3 DEF Screened

\* The arrivals.
LEMMA ArrivesGuards ==
    ASSUME TypeOK, GuardrailInv, NEW t \in SeedFlagged, NEW r \in Requests, Arrives(r)
    PROVE  LeavesToHumans(t)
<1> DEFINE q(k, a) == [req[r] EXCEPT !.ticket = k, !.actor = a]
<1>1. req[r] \in RequestStates
  BY DEF TypeOK, RowsTypeOK
<1>2. ASSUME NEW k \in TicketIds, NEW a \in Actors PROVE q(k, a) \in RequestStates
  BY <1>1 DEF RequestStates
<1>3. CASE PostResolve(r)
  <2>1. PICK k \in TicketIds, a \in Actors : BeginResolve(r, q(k, a))
    BY <1>3 DEF PostResolve
  <2>2. q(k, a) \in RequestStates
    BY <1>2
  <2> HIDE DEF q
  <2> QED
    BY <2>1, <2>2, ScreenedGuards DEF BeginResolve
<1>4. CASE PostTriage(r)
  <2>1. PICK k \in TicketIds, a \in Actors : BeginTriage(r, q(k, a))
    BY <1>4 DEF PostTriage
  <2>2. q(k, a) \in RequestStates
    BY <1>2
  <2> HIDE DEF q
  <2> QED
    BY <2>1, <2>2, ScreenedGuards DEF BeginTriage
<1>5. CASE PostPrompt(r)
  <2>1. PICK a \in Actors : Await(r, [req[r] EXCEPT !.actor = a], "classify")
    BY <1>5 DEF PostPrompt
  <2>2. req[r].pc = "idle" /\ req[r].ticket # t
    BY <1>5 DEF PostPrompt, GuardrailInv, Apart
  <2>3. Apart([[req[r] EXCEPT !.actor = a] EXCEPT !.pc = "classify"], t)
    BY <1>1, <2>2 DEF Apart, RequestStates
  <2> QED
    BY <1>5, <2>1, <2>3, OneRequestApart
       DEF PostPrompt, Await, deskVars, LeavesToHumans
<1> QED
  BY <1>3, <1>4, <1>5 DEF Arrives

\* The classifier's answer, whatever it is: this is the orchestrator's own guardrail.
LEMMA DispatchGuards ==
    ASSUME TypeOK, NEW t \in SeedFlagged, NEW r \in Requests, ClassifierAnswers(r)
    PROVE  LeavesToHumans(t)
<1>1. PICK k \in TicketIds \cup {NoTicket},
           flow \in {"user_admin", "resolve", "triage", "model_driven"} :
             Dispatch(r, [req[r] EXCEPT !.ticket = k], flow)
  BY EngineRange DEF ClassifierAnswers
<1> DEFINE q == [req[r] EXCEPT !.ticket = k]
<1>2. q \in RequestStates
  BY DEF TypeOK, RowsTypeOK, RequestStates
<1>3. Dispatch(r, q, flow)
  BY <1>1
<1> HIDE DEF q
<1>4. ASSUME NEW d, EscalateTicket(r, q, d) PROVE LeavesToHumans(t)
  <2>1. Apart([q EXCEPT !.pc = "done", !.decision = d], t)
    BY <1>2 DEF Apart, RequestStates
  <2>2. ticketStatus'[t] \in {ticketStatus[t], "escalated"}
    BY <1>4, DeskAssumption DEF EscalateTicket, updateStatus, TypeOK, RowsTypeOK, TicketTypeOK
  <2> QED
    BY <1>4, <2>1, <2>2, OneRequestApart
       DEF EscalateTicket, Answer, moneyVars, LeavesToHumans
<1>5. CASE Fail(r, q)
  <2>1. Apart([q EXCEPT !.pc = "failed"], t)
    BY <1>2 DEF Apart, RequestStates
  <2> QED
    BY <1>5, <2>1, OneRequestApart DEF Fail, deskVars, LeavesToHumans
<1>6. CASE Answer(r, q, flow) /\ UNCHANGED <<deskVars, exposed>>
  <2>1. Apart([q EXCEPT !.pc = "done", !.decision = flow], t)
    BY <1>2 DEF Apart, RequestStates
  <2> QED
    BY <1>6, <2>1, OneRequestApart DEF Answer, deskVars, LeavesToHumans
<1>7. CASE BeginResolve(r, q) \/ BeginTriage(r, q)
  BY <1>2, <1>7, ScreenedGuards DEF BeginResolve, BeginTriage
<1>8. CASE /\ q.ticket \in Tickets => ~checkLegalOrSecurityFlags(q.ticket)
           /\ Await(r, q, "agent") /\ UNCHANGED <<deskVars, exposed>>
  <2>1. q.ticket # t
    BY <1>8, DeskAssumption DEF checkLegalOrSecurityFlags
  <2>2. Apart([q EXCEPT !.pc = "agent"], t)
    BY <1>2, <2>1 DEF Apart, RequestStates
  <2> QED
    BY <1>8, <2>2, OneRequestApart DEF Await, deskVars, LeavesToHumans
<1> QED
  BY <1>3, <1>4, <1>5, <1>6, <1>7, <1>8 DEF Dispatch

\* A step of a request that waited at one of a flow's awaits.
LEMMA FlowStepGuards ==
    ASSUME TypeOK, GuardrailInv, NEW t \in SeedFlagged, NEW r \in Requests,
           \/ CategoryAnswers(r) \/ IntentIsNoRefund(r) \/ IntentIsRefund(r)
           \/ Refund(r) \/ RefundRejected(r) \/ CommittedThenFailed(r)
    PROVE  LeavesToHumans(t)
<1> DEFINE q == req[r]
<1>1. q \in RequestStates /\ q.pc \in Awaiting
  BY DEF TypeOK, RowsTypeOK, Awaiting, CategoryAnswers, IntentIsNoRefund, IntentIsRefund, Refund,
     RefundRejected, CommittedThenFailed
<1>2. q.ticket # t
  BY <1>1, WaitingElsewhere
<1>3. t \in Tickets
  BY DeskAssumption
<1>4. ASSUME NEW pc, NEW d, NEW id, NEW amount, NEW s
      PROVE  /\ Apart([q EXCEPT !.pc = pc], t)
             /\ Apart([q EXCEPT !.pc = pc, !.decision = d], t)
             /\ Apart([[q EXCEPT !.refund = id] EXCEPT !.pc = pc, !.decision = d], t)
             /\ Apart([[q EXCEPT !.amount = amount, !.sub = s] EXCEPT !.pc = pc], t)
  BY <1>1, <1>2 DEF Apart, RequestStates
<1>5. ASSUME EscalateTicket(r, q, "legal") \/ EscalateTicket(r, q, "escalated")
      PROVE  LeavesToHumans(t)
  <2>1. PICK d : EscalateTicket(r, q, d)
    BY <1>5
  <2>2. ticketStatus'[t] = ticketStatus[t]
    BY <1>2, <1>3, <2>1 DEF EscalateTicket, updateStatus, TypeOK, RowsTypeOK, TicketTypeOK
  <2> HIDE DEF q
  <2> QED
    BY <1>4, <2>1, <2>2, OneRequestApart
       DEF EscalateTicket, Answer, moneyVars, LeavesToHumans
<1>6. CASE CategoryAnswers(r)
  <2>1. CASE EscalateTicket(r, q, "legal")
    BY <1>5, <2>1
  <2>2. CASE BeginResolve(r, q)
    BY <1>1, <2>2, ScreenedGuards DEF BeginResolve
  <2>3. CASE Answer(r, q, "unhandled") /\ UNCHANGED <<deskVars, exposed>>
    <3> HIDE DEF q
    <3> QED
      BY <1>4, <2>3, OneRequestApart DEF Answer, deskVars, LeavesToHumans
  <2> QED
    BY <1>6, <2>1, <2>2, <2>3 DEF CategoryAnswers
<1>7. ASSUME NEW text, NEW amount, NEW flagged, addMessage(q.ticket, text, amount, flagged)
      PROVE  thread'[t] = thread[t]
  BY <1>2, <1>3, <1>7 DEF addMessage, TypeOK, RowsTypeOK, TicketTypeOK
<1>8. CASE IntentIsNoRefund(r)
  <2>1. /\ addMessage(q.ticket, "routing", 0, FALSE)
        /\ Answer(r, q, "replied_no_refund")
        /\ UNCHANGED <<ticketStatus, moneyVars, exposed>>
    BY <1>8 DEF IntentIsNoRefund
  <2> HIDE DEF q
  <2> QED
    BY <1>4, <1>7, <2>1, OneRequestApart DEF Answer, moneyVars, LeavesToHumans
<1>9. CASE IntentIsRefund(r)
  <2>1. PICK amount, s :
          \/ /\ Await(r, [q EXCEPT !.amount = amount, !.sub = s], "fetched")
             /\ UNCHANGED <<deskVars, exposed>>
          \/ Fail(r, q)
    BY <1>9 DEF IntentIsRefund
  <2> HIDE DEF q
  <2> QED
    BY <1>4, <2>1, OneRequestApart DEF Await, Fail, deskVars, LeavesToHumans
<1>10. ASSUME refundFor(q)
       PROVE  \E row : refunds' = Append(refunds, row) /\ row.reason # t
  <2> DEFINE row == [subscription |-> q.sub, amount |-> q.amount, reason |-> q.ticket,
                     issued_by |-> q.actor, approved |-> FALSE, created_at |-> today]
  <2>1. refunds' = Append(refunds, row)
    BY <1>10 DEF refundFor, recordRefund
  <2>2. row.reason # t
    BY <1>2
  <2> QED
    BY <2>1, <2>2
<1>11. ASSUME NEW status, updateStatus(q.ticket, status) PROVE ticketStatus'[t] = ticketStatus[t]
  BY <1>2, <1>3, <1>11 DEF updateStatus, TypeOK, RowsTypeOK, TicketTypeOK
<1>12. CASE Refund(r)
  <2>1. /\ refundFor(q) /\ noticeFor(q) /\ updateStatus(q.ticket, "resolved")
        /\ Answer(r, [q EXCEPT !.refund = Len(refunds) + 1], "refunded")
        /\ UNCHANGED exposed
    BY <1>12 DEF Refund
  <2>2. thread'[t] = thread[t]
    BY <1>7, <2>1 DEF noticeFor
  <2> HIDE DEF q
  <2> QED
    BY <1>4, <1>10, <1>11, <2>1, <2>2, OneRequestApart DEF Answer, LeavesToHumans
<1>13. CASE RefundRejected(r)
  BY <1>5, <1>13 DEF RefundRejected
<1>14. CASE CommittedThenFailed(r)
  <2>1. /\ refundFor(q) /\ (noticeFor(q) \/ UNCHANGED thread)
        /\ \/ updateStatus(q.ticket, "escalated") /\ Answer(r, q, "escalated")
           \/ /\ req' = [req EXCEPT ![r] = [q EXCEPT !.pc = "failed"]]
              /\ UNCHANGED ticketStatus
        /\ UNCHANGED exposed
    BY <1>14 DEF CommittedThenFailed
  <2>2. thread'[t] = thread[t]
    BY <1>7, <2>1 DEF noticeFor
  <2> HIDE DEF q
  <2> QED
    BY <1>4, <1>10, <1>11, <2>1, <2>2, OneRequestApart DEF Answer, LeavesToHumans
<1> QED
  BY <1>6, <1>8, <1>9, <1>12, <1>13, <1>14

\* A step of a Mode A session: its tools withhold a flagged ticket, and its refunds name
\* no ticket.
LEMMA AgentStepGuards ==
    ASSUME TypeOK, GuardrailInv, NEW t \in SeedFlagged, NEW r \in Requests,
           \/ AgentReadsTicket(r) \/ AgentRefunds(r) \/ AgentReplies(r)
           \/ AgentCallChangesNothing(r) \/ AgentEscalates(r) \/ AgentFinishes(r)
    PROVE  LeavesToHumans(t)
<1> DEFINE q == req[r]
<1>1. q \in RequestStates /\ q.pc \in Awaiting
  BY DEF TypeOK, RowsTypeOK, Awaiting, AgentReadsTicket, AgentRefunds, AgentReplies,
     AgentCallChangesNothing, AgentEscalates, AgentFinishes, Calling
<1>2. q.ticket # t
  BY <1>1, WaitingElsewhere
<1>3. t \in Tickets /\ t \in TicketIds
  BY DeskAssumption
<1>4. ASSUME NEW pc, NEW d, NEW n
      PROVE  /\ Apart([q EXCEPT !.pc = pc, !.decision = d], t)
             /\ Apart([[q EXCEPT !.calls = n] EXCEPT !.pc = pc], t)
  BY <1>1, <1>2 DEF Apart, RequestStates
<1>5. ASSUME Called(r) PROVE \A o \in Requests : req'[o] = req[o] \/ Apart(req'[o], t)
  <2>1. req' = [req EXCEPT ![r] = [[q EXCEPT !.calls = q.calls + 1] EXCEPT !.pc = "agent"]]
    BY <1>5 DEF Called, Await
  <2> HIDE DEF q
  <2> QED
    BY <1>4, <2>1, OneRequestApart
<1>6. ASSUME NEW d, Answer(r, q, d)
      PROVE  \A o \in Requests : req'[o] = req[o] \/ Apart(req'[o], t)
  <2> HIDE DEF q
  <2> QED
    BY <1>4, <1>6, OneRequestApart DEF Answer
<1>7. CASE AgentReadsTicket(r)
  BY <1>5, <1>7 DEF AgentReadsTicket, deskVars, LeavesToHumans
<1>8. CASE AgentRefunds(r)
  <2>1. PICK s \in SubscriptionIds, amount \in Amounts, reason \in {FreeText, Blank},
             flag \in BOOLEAN : recordRefund(q.actor, s, amount, reason, flag)
    BY <1>8 DEF AgentRefunds
  <2> DEFINE row == [subscription |-> s, amount |-> amount, reason |-> reason,
                     issued_by |-> q.actor, approved |-> flag, created_at |-> today]
  <2>2. refunds' = Append(refunds, row)
    BY <2>1 DEF recordRefund
  <2>3. row.reason # t
    BY <1>3, <2>1, DeskAssumption
  <2>4. \E x : refunds' = Append(refunds, x) /\ x.reason # t
    BY <2>2, <2>3
  <2> QED
    BY <1>5, <1>8, <2>4 DEF AgentRefunds, LeavesToHumans
<1>9. CASE AgentReplies(r)
  <2>1. PICK k \in Tickets, flagged \in BOOLEAN : addMessage(k, "reply", 0, flagged)
    BY <1>9 DEF AgentReplies
  <2> DEFINE m == [text |-> "reply", amount |-> 0, flagged |-> flagged]
  <2>2. thread'[t] = thread[t] \/ thread'[t] = Append(thread[t], m)
    BY <1>3, <2>1 DEF addMessage, TypeOK, RowsTypeOK, TicketTypeOK
  <2>3. m.text = "reply"
    OBVIOUS
  <2>4. thread'[t] = thread[t] \/ \E x : thread'[t] = Append(thread[t], x) /\ x.text = "reply"
    BY <2>2, <2>3
  <2> QED
    BY <1>5, <1>9, <2>4 DEF AgentReplies, moneyVars, LeavesToHumans
<1>10. CASE AgentCallChangesNothing(r)
  BY <1>5, <1>10 DEF AgentCallChangesNothing, deskVars, LeavesToHumans
<1>11. CASE AgentEscalates(r)
  <2>1. PICK k \in TicketIds \cup {NoTicket} :
          \/ k \in Tickets /\ updateStatus(k, "escalated")
          \/ k = NoTicket /\ UNCHANGED ticketStatus
    BY <1>11 DEF AgentEscalates
  <2>2. ticketStatus'[t] \in {ticketStatus[t], "escalated"}
    BY <1>3, <2>1 DEF updateStatus, TypeOK, RowsTypeOK, TicketTypeOK
  <2> QED
    BY <1>6, <1>11, <2>2 DEF AgentEscalates, moneyVars, LeavesToHumans
<1>12. CASE AgentFinishes(r)
  BY <1>6, <1>12 DEF AgentFinishes, deskVars, LeavesToHumans
<1> QED
  BY <1>7, <1>8, <1>9, <1>10, <1>11, <1>12

\* Every step.
LEMMA NextGuards ==
    ASSUME TypeOK, GuardrailInv, NEW t \in SeedFlagged, [Next]_vars
    PROVE  LeavesToHumans(t)
<1>1. ASSUME NEW r \in Requests, RequestFails(r) PROVE LeavesToHumans(t)
  <2> DEFINE q == req[r]
  <2>1. q \in RequestStates /\ Fail(r, q)
    BY <1>1 DEF RequestFails, TypeOK, RowsTypeOK
  <2> HIDE DEF q
  <2>2. Apart([q EXCEPT !.pc = "failed"], t)
    BY <2>1 DEF Apart, RequestStates
  <2> QED
    BY <2>1, <2>2, OneRequestApart DEF Fail, deskVars, LeavesToHumans
<1>2. ASSUME NEW r \in Requests, Proceeds(r) PROVE LeavesToHumans(t)
  BY <1>1, <1>2, DispatchGuards, FlowStepGuards, AgentStepGuards DEF Proceeds
<1>3. CASE ClockTicks \/ UserAdministers \/ UNCHANGED vars
  BY <1>3 DEF ClockTicks, Tick, UserAdministers, ChangeRole, vars, flowVars, deskVars,
     LeavesToHumans
<1> QED
  BY <1>2, <1>3, ArrivesGuards DEF Next

-----------------------------------------------------------------------------

\* What a step shows to models was not flagged.
ShowsUnflagged ==
    \A r \in Requests : \A e \in exposed'[r] \ exposed[r] : ~checkLegalOrSecurityFlags(e[2])

\* A text goes to a model in two places only, and both check it first.
LEMMA EveryStepShowsUnflagged ==
    ASSUME TypeOK, [Next]_vars
    PROVE  ShowsUnflagged
<1>1. ASSUME UNCHANGED exposed PROVE ShowsUnflagged
  BY <1>1 DEF ShowsUnflagged
<1>2. ASSUME NEW r \in Requests, NEW pc, NEW t, ~checkLegalOrSecurityFlags(t), Expose(r, pc, t)
      PROVE  ShowsUnflagged
  BY <1>2 DEF Expose, TypeOK, RowsTypeOK, ShowsUnflagged
<1>3. ASSUME NEW r \in Requests, NEW q, NEW pc, NEW d, Screened(r, q, pc, d)
      PROVE  ShowsUnflagged
  BY <1>1, <1>2, <1>3 DEF Screened, Fail, EscalateTicket
<1>4. ASSUME NEW r \in Requests, Arrives(r) PROVE ShowsUnflagged
  BY <1>1, <1>3, <1>4 DEF Arrives, PostResolve, PostTriage, PostPrompt, BeginResolve, BeginTriage
<1>5. ASSUME NEW r \in Requests, ClassifierAnswers(r) PROVE ShowsUnflagged
  <2>1. PICK q, flow : Dispatch(r, q, flow)
    BY <1>5 DEF ClassifierAnswers
  <2> QED
    BY <1>1, <1>3, <2>1 DEF Dispatch, BeginResolve, BeginTriage, Fail, EscalateTicket
<1>6. ASSUME NEW r \in Requests,
             \/ CategoryAnswers(r) \/ AgentReadsTicket(r)
      PROVE  ShowsUnflagged
  BY <1>1, <1>2, <1>3, <1>6 DEF CategoryAnswers, AgentReadsTicket, BeginResolve, EscalateTicket
<1>7. ASSUME NEW r \in Requests,
             \/ IntentIsNoRefund(r) \/ IntentIsRefund(r)
             \/ Refund(r) \/ RefundRejected(r) \/ CommittedThenFailed(r)
             \/ AgentRefunds(r) \/ AgentReplies(r) \/ AgentCallChangesNothing(r)
             \/ AgentEscalates(r) \/ AgentFinishes(r) \/ RequestFails(r)
      PROVE  ShowsUnflagged
  BY <1>1, <1>7 DEF IntentIsNoRefund, IntentIsRefund, Refund, RefundRejected,
     CommittedThenFailed, AgentRefunds, AgentReplies, AgentCallChangesNothing, AgentEscalates,
     AgentFinishes, RequestFails, Fail, EscalateTicket
<1>8. ASSUME NEW r \in Requests, Proceeds(r) PROVE ShowsUnflagged
  BY <1>5, <1>6, <1>7, <1>8 DEF Proceeds
<1>9. CASE ClockTicks \/ UserAdministers \/ UNCHANGED vars
  BY <1>1, <1>9 DEF ClockTicks, UserAdministers, vars, flowVars
<1> QED
  BY <1>4, <1>8, <1>9 DEF Next

\* No step, in any interleaving, puts before a model the text of a ticket flagged then.
THEOREM FlaggedNeverShown == Spec => FlaggedTicketNeverReachesModel
<1>1. TypeOK /\ [Next]_vars =>
        [\A r \in Requests : \A e \in exposed'[r] \ exposed[r] :
           ~checkLegalOrSecurityFlags(e[2])]_vars
  BY EveryStepShowsUnflagged DEF ShowsUnflagged
<1> QED
  BY <1>1, TypeCorrect, PTL DEF Spec, FlaggedTicketNeverReachesModel

-----------------------------------------------------------------------------

\* The initial state.
LEMMA InitGuardrail == Init => GuardrailInv
  BY DeskAssumption DEF Init, DeskInit, Idle, Awaiting, GuardrailInv, Apart,
     LegalTicketsStayWithHumans

\* Every step keeps the invariant: what it does is to leave flagged tickets to humans.
LEMMA NextGuardrail ==
    ASSUME TypeOK, GuardrailInv, [Next]_vars
    PROVE  GuardrailInv'
<1> SUFFICES ASSUME NEW t \in SeedFlagged
             PROVE  /\ ticketStatus'[t] # "resolved"
                    /\ \A i \in 1 .. Len(refunds') : refunds'[i].reason # t
                    /\ \A n \in 1 .. Len(thread'[t]) : thread'[t][n].text = "reply"
                    /\ \A r \in Requests : \A e \in exposed'[r] : e[2] # t
                    /\ \A r \in Requests : Apart(req'[r], t)
  BY DEF GuardrailInv, LegalTicketsStayWithHumans, Apart, Awaiting
<1>1. LeavesToHumans(t) /\ ShowsUnflagged
  BY NextGuards, EveryStepShowsUnflagged
<1>2. /\ ticketStatus[t] # "resolved"
      /\ \A i \in 1 .. Len(refunds) : refunds[i].reason # t
      /\ \A n \in 1 .. Len(thread[t]) : thread[t][n].text = "reply"
      /\ \A r \in Requests : \A e \in exposed[r] : e[2] # t
      /\ \A r \in Requests : Apart(req[r], t)
  BY DEF GuardrailInv, LegalTicketsStayWithHumans
<1>3. ticketStatus'[t] # "resolved"
  BY <1>1, <1>2 DEF LeavesToHumans
<1>4. \A i \in 1 .. Len(refunds') : refunds'[i].reason # t
  <2>1. refunds \in Seq(RefundRows)
    BY DEF TypeOK, RowsTypeOK, MoneyTypeOK
  <2>2. CASE UNCHANGED refunds
    BY <1>2, <2>2
  <2>3. ASSUME NEW row, refunds' = Append(refunds, row), row.reason # t
        PROVE  \A i \in 1 .. Len(refunds') : refunds'[i].reason # t
    BY <1>2, <2>1, <2>3
  <2> QED
    BY <1>1, <2>2, <2>3 DEF LeavesToHumans
<1>5. \A n \in 1 .. Len(thread'[t]) : thread'[t][n].text = "reply"
  <2>1. thread[t] \in Seq(Messages)
    BY DeskAssumption DEF TypeOK, RowsTypeOK, TicketTypeOK
  <2>2. CASE thread'[t] = thread[t]
    BY <1>2, <2>2
  <2>3. ASSUME NEW m, thread'[t] = Append(thread[t], m), m.text = "reply"
        PROVE  \A n \in 1 .. Len(thread'[t]) : thread'[t][n].text = "reply"
    BY <1>2, <2>1, <2>3
  <2> QED
    BY <1>1, <2>2, <2>3 DEF LeavesToHumans
<1>6. \A r \in Requests : \A e \in exposed'[r] : e[2] # t
  BY <1>1, <1>2 DEF ShowsUnflagged, checkLegalOrSecurityFlags
<1>7. \A r \in Requests : Apart(req'[r], t)
  BY <1>1, <1>2 DEF LeavesToHumans
<1> QED
  BY <1>3, <1>4, <1>5, <1>6, <1>7

\* A ticket whose own text has a legal or security keyword stays with humans.
THEOREM LegalTicketsAreSafe == Spec => []LegalTicketsStayWithHumans
<1>1. GuardrailInv => LegalTicketsStayWithHumans
  BY DEF GuardrailInv
<1> QED
  BY <1>1, InitGuardrail, NextGuardrail, TypeCorrect, PTL DEF Spec

=============================================================================
