----------------------------- MODULE DeskProofs -----------------------------
(***************************************************************************)
(* Theorems about TicketFlows, for every set of requests, tickets,         *)
(* subscriptions, actors and amounts, either enforcement mode, with or     *)
(* without failing writes.                                                 *)
(***************************************************************************)
EXTENDS DeskProperties, RefundPolicyProofs, SequenceTheorems

PCs == {"idle", "done", "failed"} \cup Awaiting

\* Where a request stands when its helpers are applied: a request record whose ticket
\* check, if it is past it, was on a real ticket.
Sound(q) ==
    /\ q \in RequestStates
    /\ q.pc \in {"category", "intent", "fetched"} => q.ticket \in Tickets
    /\ q.pc = "fetched" => q.sub \in Subscriptions
    /\ q.pc \in Awaiting => q.actor \in Actors

\* TypeOK, request by request.
LEMMA SoundRequests ==
    ASSUME TypeOK, NEW r \in Requests
    PROVE  Sound(req[r])
  BY DEF TypeOK, RowsTypeOK, Sound

\* Replacing one request by a sound one keeps the conjunct of TypeOK about requests.
LEMMA ReplaceRequest ==
    ASSUME TypeOK, NEW r \in Requests, NEW q, Sound(q), req' = [req EXCEPT ![r] = q]
    PROVE  /\ req' \in [Requests -> RequestStates]
           /\ \A o \in Requests : Sound(req'[o])
  BY SoundRequests DEF TypeOK, RowsTypeOK, Sound

\* A message appended to a thread leaves a typed thread.
LEMMA AddMessageType ==
    ASSUME TicketTypeOK, NEW t \in Tickets, NEW text \in {"routing", "refund_notice", "reply"},
           NEW amount \in Nat, NEW flagged \in BOOLEAN, addMessage(t, text, amount, flagged)
    PROVE  thread' \in [Tickets -> Seq(Messages)]
<1> DEFINE m == [text |-> text, amount |-> amount, flagged |-> flagged]
<1>1. m \in Messages
  BY DEF Messages
<1>2. thread[t] \in Seq(Messages)
  BY DEF TicketTypeOK
<1>3. Append(thread[t], m) \in Seq(Messages)
  BY <1>1, <1>2
<1> QED
  BY <1>3 DEF addMessage, TicketTypeOK

\* A status update leaves a typed table.
LEMMA UpdateStatusType ==
    ASSUME TicketTypeOK, NEW t \in Tickets, NEW status \in TicketStatuses,
           updateStatus(t, status)
    PROVE  ticketStatus' \in [Tickets -> TicketStatuses]
  BY DEF updateStatus, TicketTypeOK

\* issueRefund leaves typed tables.
LEMMA RecordRefundType ==
    ASSUME MoneyTypeOK, NEW actor \in Actors, NEW s \in Subscriptions, NEW amount \in Nat,
           NEW reason \in Reasons, NEW flag \in BOOLEAN,
           recordRefund(actor, s, amount, reason, flag), UNCHANGED today
    PROVE  MoneyTypeOK'
<1> DEFINE row == [subscription |-> s, amount |-> amount, reason |-> reason,
                   issued_by |-> actor, approved |-> flag, created_at |-> today]
           tx == [user |-> SubUser[s], amount |-> amount, refund_id |-> Len(refunds) + 1]
           entry == [actor |-> actor, target_user |-> SubUser[s],
                     refund_id |-> Len(refunds) + 1, subscription |-> s,
                     amount |-> amount, approval_flag |-> flag]
<1>1. row \in RefundRows
  BY DEF MoneyTypeOK, RefundRows
<1>2. SubUser[s] \in Users /\ Len(refunds) + 1 \in Nat
  BY DeskAssumption DEF MoneyTypeOK
<1>3. tx \in [user : Users, amount : Nat, refund_id : Nat]
  BY <1>2
<1>4. entry \in [actor : Actors, target_user : Users, refund_id : Nat,
                 subscription : Subscriptions, amount : Nat, approval_flag : BOOLEAN]
  BY <1>2
<1>5. refunds' = Append(refunds, row) /\ transactions' = Append(transactions, tx)
        /\ audit_log' = Append(audit_log, entry)
  BY DEF recordRefund
<1> HIDE DEF row, tx, entry
<1>6. refunds' \in Seq(RefundRows)
  BY <1>1, <1>5 DEF MoneyTypeOK
<1>7. transactions' \in Seq([user : Users, amount : Nat, refund_id : Nat])
  BY <1>3, <1>5 DEF MoneyTypeOK
<1>8. audit_log' \in Seq([actor : Actors, target_user : Users, refund_id : Nat,
                 subscription : Subscriptions, amount : Nat, approval_flag : BOOLEAN])
  BY <1>4, <1>5 DEF MoneyTypeOK
<1> QED
  BY <1>6, <1>7, <1>8 DEF MoneyTypeOK

\* The subscription a flow fetches is one of the customer's.
LEMMA FetchedSubscription ==
    ASSUME NEW user \in Users, SubscriptionsOf(user) # {}
    PROVE  getByUserId(user) \in Subscriptions /\ SubUser[getByUserId(user)] = user
<1>1. getByUserId(user) \in SubscriptionsOf(user)
  BY NewestSubscriptionAssumption DEF getByUserId
<1> QED
  BY <1>1 DEF SubscriptionsOf

\* An escalation keeps the types.
LEMMA EscalateTicketType ==
    ASSUME TypeOK, NEW r \in Requests, NEW q, Sound(q), q.ticket \in Tickets,
           NEW decision \in Decisions, EscalateTicket(r, q, decision), UNCHANGED today
    PROVE  RowsTypeOK'
<1>1. Sound([q EXCEPT !.pc = "done", !.decision = decision])
  BY DEF Sound, RequestStates, Awaiting
<1>2. /\ req' \in [Requests -> RequestStates]
      /\ \A o \in Requests : Sound(req'[o])
  BY <1>1, ReplaceRequest DEF EscalateTicket, Answer
<1>3. "escalated" \in TicketStatuses
  BY DEF TicketStatuses
<1>4. ticketStatus' \in [Tickets -> TicketStatuses]
  BY <1>3, UpdateStatusType DEF TypeOK, RowsTypeOK, EscalateTicket
<1> QED
  BY <1>2, <1>4 DEF TypeOK, RowsTypeOK, EscalateTicket, TicketTypeOK, MoneyTypeOK, moneyVars, Sound

\* So does the first stretch of a flow, whatever the ticket id.
LEMMA ScreenedType ==
    ASSUME TypeOK, NEW r \in Requests, NEW q, Sound(q), q.actor \in Actors,
           q.ticket \in TicketIds, NEW pc \in {"category", "intent"},
           NEW decision \in Decisions, Screened(r, q, pc, decision), UNCHANGED today
    PROVE  RowsTypeOK'
<1>1. CASE q.ticket \notin Tickets /\ Fail(r, q)
  <2>1. Sound([q EXCEPT !.pc = "failed"])
    BY DEF Sound, RequestStates, Awaiting
  <2>2. /\ req' \in [Requests -> RequestStates]
        /\ \A o \in Requests : Sound(req'[o])
    BY <1>1, <2>1, ReplaceRequest DEF Fail
  <2> QED
    BY <1>1, <2>2 DEF Fail, deskVars, TypeOK, RowsTypeOK, TicketTypeOK, MoneyTypeOK, Sound
<1>2. CASE q.ticket \in Tickets /\ EscalateTicket(r, q, decision)
  BY <1>2, EscalateTicketType
<1>3. CASE q.ticket \in Tickets /\ Await(r, q, pc) /\ Expose(r, pc, q.ticket)
             /\ UNCHANGED deskVars
  <2>1. Sound([q EXCEPT !.pc = pc])
    BY <1>3 DEF Sound, RequestStates, Awaiting
  <2>2. /\ req' \in [Requests -> RequestStates]
        /\ \A o \in Requests : Sound(req'[o])
    BY <1>3, <2>1, ReplaceRequest DEF Await
  <2>3. exposed' \in [Requests -> SUBSET ({"category", "intent", "agent"} \X Tickets)]
    BY <1>3 DEF Expose, TypeOK, RowsTypeOK
  <2> QED
    BY <1>3, <2>2, <2>3 DEF deskVars, TypeOK, RowsTypeOK, TicketTypeOK, MoneyTypeOK, Sound
<1> QED
  BY <1>1, <1>2, <1>3 DEF Screened

\* A request that only changes its own record keeps the types.
LEMMA OwnStepType ==
    ASSUME TypeOK, NEW r \in Requests, NEW q, Sound(q), req' = [req EXCEPT ![r] = q],
           UNCHANGED <<deskVars, today, exposed>>
    PROVE  RowsTypeOK'
<1>1. /\ req' \in [Requests -> RequestStates]
      /\ \A o \in Requests : Sound(req'[o])
  BY ReplaceRequest
<1> QED
  BY <1>1 DEF deskVars, TypeOK, RowsTypeOK, TicketTypeOK, MoneyTypeOK, Sound

\* The initial state is typed.
LEMMA InitType == Init => TypeOK
<1> SUFFICES ASSUME Init PROVE TypeOK
  OBVIOUS
<1>1. Idle \in RequestStates
  BY DEF Idle, RequestStates, Decisions
<1>2. req \in [Requests -> RequestStates] /\ \A r \in Requests : req[r].pc = "idle"
  BY <1>1 DEF Init, Idle
<1>3. TicketTypeOK
  BY DEF Init, DeskInit, TicketTypeOK, TicketStatuses
<1>4. MoneyTypeOK
  BY DeskAssumption DEF Init, DeskInit, MoneyTypeOK
<1>5. role \in [Actors -> Roles]
  BY DeskAssumption DEF Init, DeskInit, Roles
<1> QED
  BY <1>2, <1>3, <1>4, <1>5 DEF Init, TypeOK, RowsTypeOK, Awaiting

\* Arrivals keep the types.
LEMMA ArrivesType ==
    ASSUME TypeOK, NEW r \in Requests, Arrives(r)
    PROVE  RowsTypeOK'
<1> USE SoundRequests
<1>1. CASE PostResolve(r)
  <2>1. PICK t \in TicketIds, a \in Actors :
              BeginResolve(r, [req[r] EXCEPT !.ticket = t, !.actor = a])
    BY <1>1 DEF PostResolve
  <2> DEFINE q == [req[r] EXCEPT !.ticket = t, !.actor = a]
  <2>2. Sound(q) /\ q.actor \in Actors /\ q.ticket \in TicketIds
    BY <1>1 DEF PostResolve, Sound, RequestStates, Awaiting
  <2>3. Screened(r, q, "intent", "escalated") /\ UNCHANGED today
    BY <1>1, <2>1 DEF BeginResolve, PostResolve
  <2>4. "escalated" \in Decisions
    BY DEF Decisions
  <2> QED
    BY <2>2, <2>3, <2>4, ScreenedType
<1>2. CASE PostTriage(r)
  <2>1. PICK t \in TicketIds, a \in Actors :
              BeginTriage(r, [req[r] EXCEPT !.ticket = t, !.actor = a])
    BY <1>2 DEF PostTriage
  <2> DEFINE q == [req[r] EXCEPT !.ticket = t, !.actor = a]
  <2>2. Sound(q) /\ q.actor \in Actors /\ q.ticket \in TicketIds
    BY <1>2 DEF PostTriage, Sound, RequestStates, Awaiting
  <2>3. Screened(r, q, "category", "legal") /\ UNCHANGED today
    BY <1>2, <2>1 DEF BeginTriage, PostTriage
  <2>4. "legal" \in Decisions
    BY DEF Decisions
  <2> QED
    BY <2>2, <2>3, <2>4, ScreenedType
<1>3. CASE PostPrompt(r)
  <2>1. PICK a \in Actors : Await(r, [req[r] EXCEPT !.actor = a], "classify")
    BY <1>3 DEF PostPrompt
  <2> DEFINE q == [[req[r] EXCEPT !.actor = a] EXCEPT !.pc = "classify"]
  <2>2. Sound(q)
    BY DEF Sound, RequestStates, Awaiting
  <2> QED
    BY <1>3, <2>1, <2>2, OwnStepType DEF Await, PostPrompt
<1> QED
  BY <1>1, <1>2, <1>3 DEF Arrives

\* Whatever the classifier returned, the engine is one of four.
LEMMA EngineRange ==
    ASSUME NEW c \in Classifications
    PROVE  Engine(c) \in {"user_admin", "resolve", "triage", "model_driven"}
  BY DEF Engine

\* What the classifier's answer leads to keeps the types.
LEMMA ClassifierAnswersType ==
    ASSUME TypeOK, NEW r \in Requests, ClassifierAnswers(r)
    PROVE  RowsTypeOK'
<1>1. PICK t \in TicketIds \cup {NoTicket},
           flow \in {"user_admin", "resolve", "triage", "model_driven"} :
             Dispatch(r, [req[r] EXCEPT !.ticket = t], flow)
  BY EngineRange DEF ClassifierAnswers
<1> DEFINE q == [req[r] EXCEPT !.ticket = t]
<1>2. Sound(q) /\ q.actor \in Actors /\ q.ticket \in TicketIds \cup {NoTicket}
        /\ q.pc = "classify"
  BY SoundRequests DEF ClassifierAnswers, Sound, RequestStates, Awaiting
<1>3. Dispatch(r, q, flow) /\ UNCHANGED today
  BY <1>1 DEF ClassifierAnswers
<1>4. {"legal", "escalated", "user_admin"} \subseteq Decisions
  BY DEF Decisions
<1> HIDE DEF q
<1>5. CASE Fail(r, q)
  <2>1. Sound([q EXCEPT !.pc = "failed"])
    BY <1>2 DEF Sound, RequestStates, Awaiting
  <2> QED
    BY <1>3, <1>5, <2>1, OwnStepType DEF Fail
<1>6. CASE q.ticket \in Tickets /\ EscalateTicket(r, q, "legal")
  BY <1>2, <1>3, <1>4, <1>6, EscalateTicketType
<1>7. CASE flow = "user_admin" /\ Answer(r, q, flow) /\ UNCHANGED <<deskVars, exposed>>
  <2>1. Sound([q EXCEPT !.pc = "done", !.decision = flow])
    BY <1>2, <1>4, <1>7 DEF Sound, RequestStates, Awaiting
  <2> QED
    BY <1>3, <1>7, <2>1, OwnStepType DEF Answer
<1>8. CASE q.ticket # NoTicket /\ BeginResolve(r, q)
  BY <1>2, <1>3, <1>4, <1>8, ScreenedType DEF BeginResolve
<1>9. CASE q.ticket # NoTicket /\ BeginTriage(r, q)
  BY <1>2, <1>3, <1>4, <1>9, ScreenedType DEF BeginTriage
<1>10. CASE Await(r, q, "agent") /\ UNCHANGED <<deskVars, exposed>>
  <2>1. Sound([q EXCEPT !.pc = "agent"])
    BY <1>2 DEF Sound, RequestStates, Awaiting
  <2> QED
    BY <1>3, <1>10, <2>1, OwnStepType DEF Await
<1> QED
  BY <1>3, <1>5, <1>6, <1>7, <1>8, <1>9, <1>10 DEF Dispatch

\* The model's verdict on a ticket keeps the types.
LEMMA VerdictType ==
    ASSUME TypeOK, NEW r \in Requests,
           CategoryAnswers(r) \/ IntentIsNoRefund(r) \/ IntentIsRefund(r)
    PROVE  RowsTypeOK'
<1> DEFINE q == req[r]
<1>1. Sound(q)
  BY SoundRequests
<1>2. {"legal", "escalated", "unhandled", "replied_no_refund"} \subseteq Decisions
  BY DEF Decisions
<1>3. CASE CategoryAnswers(r)
  <2>1. q.pc = "category" /\ UNCHANGED today
    BY <1>3 DEF CategoryAnswers
  <2>2. q.ticket \in Tickets /\ q.ticket \in TicketIds /\ q.actor \in Actors
    BY <1>1, <2>1, DeskAssumption DEF Sound, Awaiting
  <2> HIDE DEF q
  <2>3. CASE EscalateTicket(r, q, "legal")
    BY <1>1, <1>2, <2>1, <2>2, <2>3, EscalateTicketType
  <2>4. CASE BeginResolve(r, q)
    BY <1>1, <1>2, <2>1, <2>2, <2>4, ScreenedType DEF BeginResolve
  <2>5. CASE Answer(r, q, "unhandled") /\ UNCHANGED <<deskVars, exposed>>
    <3>1. Sound([q EXCEPT !.pc = "done", !.decision = "unhandled"])
      BY <1>1, <1>2 DEF Sound, RequestStates, Awaiting
    <3> QED
      BY <2>1, <2>5, <3>1, OwnStepType DEF Answer
  <2> QED
    BY <1>3, <2>3, <2>4, <2>5 DEF CategoryAnswers, q
<1>4. CASE IntentIsNoRefund(r)
  <2>1. /\ q.pc = "intent"
        /\ addMessage(q.ticket, "routing", 0, FALSE)
        /\ Answer(r, q, "replied_no_refund")
        /\ UNCHANGED <<ticketStatus, moneyVars, today, exposed>>
    BY <1>4 DEF IntentIsNoRefund
  <2> HIDE DEF q
  <2>2. thread' \in [Tickets -> Seq(Messages)]
    BY <1>1, <2>1, AddMessageType DEF Sound, TypeOK, RowsTypeOK
  <2>3. Sound([q EXCEPT !.pc = "done", !.decision = "replied_no_refund"])
    BY <1>1, <1>2 DEF Sound, RequestStates, Awaiting
  <2>4. /\ req' \in [Requests -> RequestStates]
        /\ \A o \in Requests : Sound(req'[o])
    BY <2>1, <2>3, ReplaceRequest DEF Answer
  <2> QED
    BY <2>1, <2>2, <2>4 DEF TypeOK, RowsTypeOK, TicketTypeOK, MoneyTypeOK, moneyVars, Sound
<1>5. CASE IntentIsRefund(r)
  <2> DEFINE user == TicketUser[q.ticket]
  <2>1. PICK amount \in Amounts :
          \/ /\ SubscriptionsOf(user) # {}
             /\ Await(r, [q EXCEPT !.amount = amount, !.sub = getByUserId(user)], "fetched")
             /\ UNCHANGED <<deskVars, exposed>>
          \/ SubscriptionsOf(user) = {} /\ Fail(r, q)
    BY <1>5 DEF IntentIsRefund
  <2>2. q.pc = "intent" /\ UNCHANGED today
    BY <1>5 DEF IntentIsRefund
  <2>3. user \in Users
    BY <1>1, <2>2, DeskAssumption DEF Sound
  <2> HIDE DEF q, user
  <2>4. CASE SubscriptionsOf(user) # {} /\ UNCHANGED <<deskVars, exposed>>
              /\ Await(r, [q EXCEPT !.amount = amount, !.sub = getByUserId(user)], "fetched")
    <3>1. getByUserId(user) \in Subscriptions /\ getByUserId(user) \in SubscriptionIds
      BY <2>3, <2>4, FetchedSubscription, DeskAssumption
    <3>2. Sound([[q EXCEPT !.amount = amount, !.sub = getByUserId(user)]
                   EXCEPT !.pc = "fetched"])
      BY <1>1, <2>2, <3>1, FlowsAssumption DEF Sound, RequestStates, Awaiting
    <3> QED
      BY <2>2, <2>4, <3>2, OwnStepType DEF Await
  <2>5. CASE Fail(r, q)
    <3>1. Sound([q EXCEPT !.pc = "failed"])
      BY <1>1 DEF Sound, RequestStates, Awaiting
    <3> QED
      BY <2>2, <2>5, <3>1, OwnStepType DEF Fail
  <2> QED
    BY <2>1, <2>4, <2>5
<1> QED
  BY <1>3, <1>4, <1>5

\* What follows the last await of the billing flow keeps the types.
LEMMA SettlesType ==
    ASSUME TypeOK, NEW r \in Requests, Refund(r) \/ RefundRejected(r) \/ CommittedThenFailed(r)
    PROVE  RowsTypeOK'
<1> DEFINE q == req[r]
<1>1. Sound(q) /\ q.pc = "fetched" /\ UNCHANGED <<today, exposed>>
  BY SoundRequests DEF Refund, RefundRejected, CommittedThenFailed, EscalateTicket
<1>2. /\ q.ticket \in Tickets /\ q.ticket \in Reasons /\ q.actor \in Actors
      /\ q.sub \in Subscriptions /\ q.amount \in Nat
  <2> HIDE DEF q
  <2>1. q.ticket \in Tickets /\ q.actor \in Actors /\ q.sub \in Subscriptions
    BY <1>1 DEF Sound, Awaiting
  <2>2. q.amount \in Amounts \cup {0}
    BY <1>1 DEF Sound, RequestStates
  <2>3. q.amount \in Nat
    <3>1. Amounts \cup {0} \subseteq Nat
      BY FlowsAssumption
    <3> QED
      BY <2>2, <3>1
  <2>4. q.ticket \in Reasons
    BY <2>1, DeskAssumption DEF Reasons
  <2> QED
    BY <2>1, <2>3, <2>4
<1>3. {"refunded", "escalated"} \subseteq Decisions /\ Len(refunds) + 1 \in Nat
        /\ {"resolved", "escalated"} \subseteq TicketStatuses
  BY DEF Decisions, TicketStatuses, TypeOK, RowsTypeOK, MoneyTypeOK
<1> DEFINE answered(d, id) == [[q EXCEPT !.refund = id] EXCEPT !.pc = "done", !.decision = d]
<1>4. CASE RefundRejected(r)
  <2>1. EscalateTicket(r, q, "escalated") /\ UNCHANGED today
    BY <1>4 DEF RefundRejected
  <2> HIDE DEF q
  <2> QED
    BY <1>1, <1>2, <1>3, <2>1, EscalateTicketType
<1>5. ASSUME refundFor(q), noticeFor(q) \/ UNCHANGED thread
      PROVE  MoneyTypeOK' /\ thread' \in [Tickets -> Seq(Messages)]
  <2> HIDE DEF q
  <2>1. MoneyTypeOK'
    BY <1>1, <1>2, <1>5, RecordRefundType DEF refundFor, TypeOK, RowsTypeOK
  <2>2. thread' \in [Tickets -> Seq(Messages)]
    BY <1>2, <1>5, AddMessageType DEF noticeFor, TypeOK, RowsTypeOK, TicketTypeOK
  <2> QED
    BY <2>1, <2>2
<1>6. CASE Refund(r)
  <2>1. refundFor(q) /\ noticeFor(q) /\ updateStatus(q.ticket, "resolved")
          /\ req' = [req EXCEPT ![r] = answered("refunded", Len(refunds) + 1)]
    BY <1>6 DEF Refund, Answer
  <2> HIDE DEF q
  <2>2. Sound(answered("refunded", Len(refunds) + 1))
    BY <1>1, <1>3 DEF Sound, RequestStates, Awaiting
  <2>3. /\ req' \in [Requests -> RequestStates]
        /\ \A o \in Requests : Sound(req'[o])
    BY <2>1, <2>2, ReplaceRequest
  <2>4. ticketStatus' \in [Tickets -> TicketStatuses]
    BY <1>2, <1>3, <2>1, UpdateStatusType DEF TypeOK, RowsTypeOK
  <2> QED
    BY <1>1, <1>5, <2>1, <2>3, <2>4 DEF TypeOK, RowsTypeOK, TicketTypeOK, Sound
<1>7. CASE CommittedThenFailed(r)
  <2>1. refundFor(q) /\ (noticeFor(q) \/ UNCHANGED thread)
    BY <1>7 DEF CommittedThenFailed
  <2>2. PICK n \in {[q EXCEPT !.pc = "done", !.decision = "escalated"],
                    [q EXCEPT !.pc = "failed"]} :
          req' = [req EXCEPT ![r] = n]
    BY <1>7 DEF CommittedThenFailed, Answer
  <2>3. updateStatus(q.ticket, "escalated") \/ UNCHANGED ticketStatus
    BY <1>7 DEF CommittedThenFailed
  <2> HIDE DEF q
  <2>4. Sound(n)
    BY <1>1, <1>3, <2>2 DEF Sound, RequestStates, Awaiting
  <2>5. /\ req' \in [Requests -> RequestStates]
        /\ \A o \in Requests : Sound(req'[o])
    BY <2>2, <2>4, ReplaceRequest
  <2>6. ticketStatus' \in [Tickets -> TicketStatuses]
    BY <1>2, <1>3, <2>3, UpdateStatusType DEF TypeOK, RowsTypeOK, TicketTypeOK
  <2> QED
    BY <1>1, <1>5, <2>1, <2>5, <2>6 DEF TypeOK, RowsTypeOK, TicketTypeOK, Sound
<1> QED
  BY <1>4, <1>6, <1>7

\* The steps of a Mode A session keep the types.
LEMMA AgentType ==
    ASSUME TypeOK, NEW r \in Requests,
           \/ AgentReadsTicket(r) \/ AgentRefunds(r) \/ AgentReplies(r)
           \/ AgentCallChangesNothing(r) \/ AgentEscalates(r) \/ AgentFinishes(r)
    PROVE  RowsTypeOK'
<1> DEFINE q == req[r]
           called == [[q EXCEPT !.calls = @ + 1] EXCEPT !.pc = "agent"]
           answered(d) == [q EXCEPT !.pc = "done", !.decision = d]
<1>1. Sound(q) /\ q.pc = "agent" /\ q.actor \in Actors /\ UNCHANGED today
  BY SoundRequests DEF Sound, Awaiting, AgentReadsTicket, AgentRefunds, AgentReplies,
     AgentCallChangesNothing, AgentEscalates, AgentFinishes, Calling
<1>2. Sound(called)
  <2>1. q.calls + 1 \in Nat
    BY <1>1 DEF Sound, RequestStates
  <2> HIDE DEF q
  <2>2. Sound([q EXCEPT !.calls = q.calls + 1])
    BY <1>1, <2>1 DEF Sound, RequestStates
  <2> QED
    BY <1>1, <2>2 DEF Sound, RequestStates, Awaiting
<1>3. ASSUME NEW d \in {"answered", "agent_escalated"} PROVE Sound(answered(d))
  BY <1>1 DEF Sound, RequestStates, Awaiting, Decisions
<1>4. ASSUME Called(r)
      PROVE  /\ req' = [req EXCEPT ![r] = called]
             /\ req' \in [Requests -> RequestStates]
             /\ \A o \in Requests : Sound(req'[o])
  <2>1. req' = [req EXCEPT ![r] = called]
    BY <1>4 DEF Called, Await
  <2> HIDE DEF called, q
  <2> QED
    BY <1>2, <2>1, ReplaceRequest
<1>5. ASSUME NEW d \in {"answered", "agent_escalated"}, Answer(r, q, d)
      PROVE  /\ req' \in [Requests -> RequestStates]
             /\ \A o \in Requests : Sound(req'[o])
  <2>1. req' = [req EXCEPT ![r] = answered(d)] /\ Sound(answered(d))
    BY <1>3, <1>5 DEF Answer
  <2> HIDE DEF answered, q
  <2> QED
    BY <2>1, ReplaceRequest
<1>6. CASE AgentReadsTicket(r)
  <2>1. PICK t \in Tickets : Expose(r, "agent", t)
    BY <1>6 DEF AgentReadsTicket
  <2>2. exposed' \in [Requests -> SUBSET ({"category", "intent", "agent"} \X Tickets)]
    BY <2>1 DEF Expose, TypeOK, RowsTypeOK
  <2> QED
    BY <1>4, <1>6, <2>2
       DEF AgentReadsTicket, deskVars, TypeOK, RowsTypeOK, TicketTypeOK, MoneyTypeOK, Sound
<1>7. CASE AgentRefunds(r)
  <2>1. PICK s \in SubscriptionIds, amount \in Amounts, reason \in {FreeText, Blank},
             flag \in BOOLEAN :
          /\ mayRefund(q.actor, s, amount, reason, flag)
          /\ recordRefund(q.actor, s, amount, reason, flag)
    BY <1>7 DEF AgentRefunds
  <2>2. s \in Subscriptions /\ amount \in Nat /\ reason \in Reasons
    BY <2>1, FlowsAssumption DEF mayRefund, Reasons
  <2>3. MoneyTypeOK'
    BY <1>1, <2>1, <2>2, RecordRefundType DEF TypeOK, RowsTypeOK
  <2> QED
    BY <1>4, <1>7, <2>3 DEF AgentRefunds, TypeOK, RowsTypeOK, TicketTypeOK, Sound
<1>8. CASE AgentReplies(r)
  <2>1. PICK t \in Tickets, flagged \in BOOLEAN : addMessage(t, "reply", 0, flagged)
    BY <1>8 DEF AgentReplies
  <2>2. thread' \in [Tickets -> Seq(Messages)]
    BY <2>1, AddMessageType DEF TypeOK, RowsTypeOK
  <2> QED
    BY <1>4, <1>8, <2>2
       DEF AgentReplies, moneyVars, TypeOK, RowsTypeOK, TicketTypeOK, MoneyTypeOK, Sound
<1>9. CASE AgentCallChangesNothing(r)
  BY <1>4, <1>9
     DEF AgentCallChangesNothing, deskVars, TypeOK, RowsTypeOK, TicketTypeOK, MoneyTypeOK, Sound
<1>10. CASE AgentEscalates(r)
  <2>1. PICK t \in TicketIds \cup {NoTicket} :
          \/ t \in Tickets /\ updateStatus(t, "escalated")
          \/ t = NoTicket /\ UNCHANGED ticketStatus
    BY <1>10 DEF AgentEscalates
  <2>2. ticketStatus' \in [Tickets -> TicketStatuses]
    BY <2>1, UpdateStatusType DEF TypeOK, RowsTypeOK, TicketTypeOK, TicketStatuses
  <2> QED
    BY <1>5, <1>10, <2>2
       DEF AgentEscalates, moneyVars, TypeOK, RowsTypeOK, TicketTypeOK, MoneyTypeOK, Sound
<1>11. CASE AgentFinishes(r)
  BY <1>5, <1>11 DEF AgentFinishes, deskVars, TypeOK, RowsTypeOK, TicketTypeOK, MoneyTypeOK, Sound
<1> QED
  BY <1>6, <1>7, <1>8, <1>9, <1>10, <1>11

\* Every step keeps the types.
LEMMA NextType == TypeOK /\ [Next]_vars => TypeOK'
<1> SUFFICES ASSUME TypeOK, [Next]_vars PROVE TypeOK'
  OBVIOUS
<1>1. ASSUME NEW r \in Requests, RequestFails(r) PROVE RowsTypeOK'
  <2> DEFINE q == req[r]
  <2>1. Sound(q) /\ Fail(r, q) /\ UNCHANGED today
    BY <1>1, SoundRequests DEF RequestFails
  <2> HIDE DEF q
  <2>2. Sound([q EXCEPT !.pc = "failed"])
    BY <2>1 DEF Sound, RequestStates, Awaiting
  <2> QED
    BY <2>1, <2>2, OwnStepType DEF Fail
<1>2. ASSUME NEW r \in Requests, Proceeds(r) PROVE TypeOK'
  <2>1. RowsTypeOK'
    BY <1>1, <1>2, ClassifierAnswersType, VerdictType, SettlesType, AgentType DEF Proceeds
  <2>2. role' = role
    BY <1>2 DEF Proceeds
  <2> QED
    BY <2>1, <2>2 DEF TypeOK
<1>3. ASSUME NEW r \in Requests, Arrives(r) PROVE TypeOK'
  <2>1. RowsTypeOK'
    BY <1>3, ArrivesType
  <2>2. role' = role
    BY <1>3 DEF Arrives
  <2> QED
    BY <2>1, <2>2 DEF TypeOK
<1>4. CASE ClockTicks
  <2>1. today' \in 0 .. MaxDay
    BY <1>4, DeskAssumption DEF ClockTicks, Tick, TypeOK, RowsTypeOK, MoneyTypeOK
  <2> QED
    BY <1>4, <2>1
       DEF ClockTicks, Tick, flowVars, deskVars, TypeOK, RowsTypeOK, TicketTypeOK, MoneyTypeOK
<1>5. CASE UserAdministers
  <2>1. PICK change \in RoleChanges : role' = [role EXCEPT ![change[1]] = change[2]]
    BY <1>5 DEF UserAdministers, ChangeRole
  <2>2. change[1] \in Actors /\ change[2] \in Roles
    BY DeskAssumption
  <2>3. role' \in [Actors -> Roles]
    BY <2>1, <2>2 DEF TypeOK
  <2> QED
    BY <1>5, <2>3 DEF UserAdministers, ChangeRole, flowVars, deskVars, TypeOK, RowsTypeOK,
       TicketTypeOK, MoneyTypeOK
<1>6. CASE UNCHANGED vars
  BY <1>6 DEF vars, flowVars, deskVars, TypeOK, RowsTypeOK, TicketTypeOK, MoneyTypeOK
<1> QED
  BY <1>2, <1>3, <1>4, <1>5, <1>6 DEF Next

\* The tables and the requests keep their types in every behaviour.
THEOREM TypeCorrect == Spec => []TypeOK
  BY InitType, NextType, PTL DEF Spec

-----------------------------------------------------------------------------
(* The money.  Whatever a step does, it either leaves the three money tables alone or is
   one issueRefund that passed its checks; a flow's refund never claims an approval. *)

MoneyStep ==
    \/ UNCHANGED moneyVars
    \/ /\ UNCHANGED <<role, today>>
       /\ \E actor \in Actors, s \in Subscriptions, amount \in Amounts,
             reason \in Reasons \ {Blank}, flag \in BOOLEAN :
            /\ mayRefund(actor, s, amount, reason, flag)
            /\ recordRefund(actor, s, amount, reason, flag)
            /\ reason \in TicketIds => ~flag

LEMMA EveryStepIsMoneyStep ==
    ASSUME TypeOK, [Next]_vars
    PROVE  MoneyStep
<1>1. ASSUME NEW r \in Requests, Refund(r) \/ CommittedThenFailed(r), role' = role
      PROVE  MoneyStep
  <2> DEFINE q == req[r]
  <2>1. /\ mayRefund(q.actor, q.sub, q.amount, q.ticket, FALSE)
        /\ recordRefund(q.actor, q.sub, q.amount, q.ticket, FALSE)
        /\ q.pc = "fetched" /\ today' = today
    BY <1>1 DEF Refund, CommittedThenFailed, allowed, refundFor
  <2>2. /\ q.actor \in Actors /\ q.sub \in Subscriptions /\ q.ticket \in Tickets
        /\ q.amount \in Amounts \cup {0}
    BY <2>1, SoundRequests DEF Sound, RequestStates, Awaiting
  <2>3. q.amount \in Amounts
    BY <2>1, <2>2 DEF mayRefund
  <2>4. q.ticket \in Reasons \ {Blank}
    BY <2>2, DeskAssumption DEF Reasons
  <2> QED
    BY <1>1, <2>1, <2>2, <2>3, <2>4 DEF MoneyStep
<1>2. ASSUME NEW r \in Requests, AgentRefunds(r), role' = role PROVE MoneyStep
  <2>1. PICK s \in SubscriptionIds, amount \in Amounts, reason \in {FreeText, Blank},
             flag \in BOOLEAN :
          /\ mayRefund(req[r].actor, s, amount, reason, flag)
          /\ recordRefund(req[r].actor, s, amount, reason, flag)
    BY <1>2 DEF AgentRefunds
  <2>2. s \in Subscriptions /\ reason \in Reasons \ {Blank} /\ reason \notin TicketIds
    BY <2>1, DeskAssumption DEF mayRefund, Reasons
  <2>3. req[r].actor \in Actors /\ today' = today
    BY <1>2, SoundRequests DEF Sound, Awaiting, AgentRefunds, Calling
  <2> QED
    BY <1>2, <2>1, <2>2, <2>3 DEF MoneyStep
<1>3. ASSUME NEW r \in Requests, NEW q, NEW pc, NEW d, Screened(r, q, pc, d)
      PROVE  UNCHANGED moneyVars
  BY <1>3 DEF Screened, Fail, EscalateTicket, deskVars, moneyVars
<1>4. ASSUME NEW r \in Requests, Arrives(r) PROVE UNCHANGED moneyVars
  BY <1>3, <1>4 DEF Arrives, PostResolve, PostTriage, PostPrompt, BeginResolve, BeginTriage,
     deskVars, moneyVars
<1>5. ASSUME NEW r \in Requests, ClassifierAnswers(r) PROVE UNCHANGED moneyVars
  <2>1. PICK q, flow : Dispatch(r, q, flow)
    BY <1>5 DEF ClassifierAnswers
  <2> QED
    BY <1>3, <2>1 DEF Dispatch, BeginResolve, BeginTriage, Fail, EscalateTicket, deskVars,
       moneyVars
<1>6. ASSUME NEW r \in Requests,
             \/ CategoryAnswers(r) \/ IntentIsNoRefund(r) \/ IntentIsRefund(r)
             \/ RefundRejected(r) \/ AgentReadsTicket(r) \/ AgentReplies(r)
             \/ AgentCallChangesNothing(r) \/ AgentEscalates(r) \/ AgentFinishes(r)
             \/ RequestFails(r)
      PROVE  UNCHANGED moneyVars
  BY <1>3, <1>6 DEF CategoryAnswers, IntentIsNoRefund, IntentIsRefund, RefundRejected,
     AgentReadsTicket, AgentReplies, AgentCallChangesNothing, AgentEscalates, AgentFinishes,
     RequestFails, BeginResolve, Fail, EscalateTicket, deskVars, moneyVars
<1>7. CASE ClockTicks \/ UserAdministers \/ UNCHANGED vars
  BY <1>7 DEF ClockTicks, Tick, UserAdministers, ChangeRole, vars, deskVars, moneyVars, MoneyStep
<1>8. ASSUME NEW r \in Requests, Proceeds(r) PROVE MoneyStep
  BY <1>1, <1>2, <1>5, <1>6, <1>8 DEF Proceeds, MoneyStep
<1> QED
  BY <1>4, <1>7, <1>8 DEF Next, MoneyStep

\* The refunds table, the ledger and the audit log stay in step.
LEMMA RefundTripleStep ==
    ASSUME TypeOK, MoneyStep, RefundTriple
    PROVE  RefundTriple'
<1>1. CASE UNCHANGED moneyVars
  BY <1>1 DEF RefundTriple, moneyVars
<1>2. ASSUME NEW actor \in Actors, NEW s \in Subscriptions, NEW amount \in Amounts,
             NEW reason \in Reasons, NEW flag \in BOOLEAN,
             recordRefund(actor, s, amount, reason, flag)
      PROVE  RefundTriple'
  <2>1. PICK n \in Nat : n = Len(refunds)
    BY DEF TypeOK, RowsTypeOK, MoneyTypeOK
  <2> DEFINE row == [subscription |-> s, amount |-> amount, reason |-> reason,
                     issued_by |-> actor, approved |-> flag, created_at |-> today]
             tx == [user |-> SubUser[s], amount |-> amount, refund_id |-> n + 1]
             entry == [actor |-> actor, target_user |-> SubUser[s], refund_id |-> n + 1,
                       subscription |-> s, amount |-> amount, approval_flag |-> flag]
  <2>2. /\ refunds' = Append(refunds, row)
        /\ transactions' = Append(transactions, tx)
        /\ audit_log' = Append(audit_log, entry)
    BY <1>2, <2>1 DEF recordRefund
  <2>3. /\ refunds \in Seq(RefundRows) /\ n \in Nat
        /\ transactions \in Seq([user : Users, amount : Nat, refund_id : Nat])
        /\ audit_log \in Seq([actor : Actors, target_user : Users, refund_id : Nat,
                 subscription : Subscriptions, amount : Nat, approval_flag : BOOLEAN])
        /\ Len(transactions) = n /\ Len(audit_log) = n
    BY <2>1 DEF TypeOK, RowsTypeOK, MoneyTypeOK, RefundTriple
  <2> HIDE DEF row, tx, entry
  <2>4. /\ Len(refunds') = n + 1 /\ Len(transactions') = n + 1 /\ Len(audit_log') = n + 1
        /\ refunds'[n + 1] = row /\ transactions'[n + 1] = tx /\ audit_log'[n + 1] = entry
        /\ \A i \in 1 .. n : /\ refunds'[i] = refunds[i]
                             /\ transactions'[i] = transactions[i]
                             /\ audit_log'[i] = audit_log[i]
    BY <2>1, <2>2, <2>3
  <2> DEFINE Agrees(i) ==
        LET r == refunds[i] IN
        /\ transactions[i] = [user |-> SubUser[r.subscription], amount |-> r.amount,
                              refund_id |-> i]
        /\ audit_log[i] = [actor |-> r.issued_by, refund_id |-> i,
                           target_user |-> SubUser[r.subscription],
                           subscription |-> r.subscription, amount |-> r.amount,
                           approval_flag |-> r.approved]
  <2>5. ASSUME NEW i \in 1 .. n PROVE Agrees(i)'
    BY <2>1, <2>4 DEF RefundTriple
  <2>6. Agrees(n + 1)'
    BY <2>4 DEF row, tx, entry
  <2>7. \A i \in 1 .. Len(refunds') : i \in 1 .. n \/ i = n + 1
    BY <2>3, <2>4
  <2> QED
    BY <2>4, <2>5, <2>6, <2>7 DEF RefundTriple
<1> QED
  BY <1>1, <1>2 DEF MoneyStep

\* Every refund is mirrored in the ledger and audited, and nothing else is.
THEOREM RefundsAreMirrored == Spec => []RefundTriple
<1>1. Init => RefundTriple
  BY DEF Init, DeskInit, RefundTriple
<1>2. TypeOK /\ RefundTriple /\ [Next]_vars => RefundTriple'
  BY EveryStepIsMoneyStep, RefundTripleStep
<1> QED
  BY <1>1, <1>2, TypeCorrect, PTL DEF Spec

-----------------------------------------------------------------------------

\* What RefundsWithinPolicy says of one row.
Lawful(row) ==
    LET mrr == SubMrr[row.subscription]
    IN  /\ row.amount > 0
        /\ row.amount <= mrr
        /\ 2 * row.amount * BillingPeriodDays
             <= 2 * mrr * remainingDays(SubRenewedAt[row.subscription], row.created_at)
                + BillingPeriodDays
        /\ EnforcementMode = "code_enforced" =>
             /\ row.amount <= RequiresApprovalMaxCents
             /\ row.amount > AutoApproveMaxCents => row.approved
        /\ row.reason \in TicketIds => ~row.approved

\* A refund that passed the checks of issueRefund is lawful.
LEMMA AllowedRefundIsLawful ==
    ASSUME NEW actor, NEW s \in Subscriptions, NEW amount \in Nat, NEW reason,
           NEW flag \in BOOLEAN, today \in Int,
           mayRefund(actor, s, amount, reason, flag), reason \in TicketIds => ~flag
    PROVE  Lawful([subscription |-> s, amount |-> amount, reason |-> reason,
                   issued_by |-> actor, approved |-> flag, created_at |-> today])
<1> DEFINE mrr == SubMrr[s]
           left == remainingDays(SubRenewedAt[s], today)
           ceiling == CeilingOf(s, today)
           P == BillingPeriodDays
<1>1. mrr \in Nat /\ SubRenewedAt[s] \in Int
  BY DeskAssumption
<1>2. /\ ceiling \in Nat /\ ceiling <= mrr
      /\ 2 * ceiling * P <= 2 * mrr * left + P
  BY <1>1, CeilingBounds DEF CeilingOf
<1>3. left \in Nat /\ P \in Nat
  <2>1. P \in Nat
    BY PolicyAssumption
  <2>2. left \in 0 .. P
    BY <1>1, RemainingDaysBounds
  <2> HIDE DEF left, P
  <2> QED
    BY <2>1, <2>2
<1>4. amount > 0 /\ amount <= ceiling
  BY DEF mayRefund
<1>5. EnforcementMode = "code_enforced" =>
        /\ amount <= RequiresApprovalMaxCents
        /\ amount > AutoApproveMaxCents => flag
  <2>1. EnforcementMode = "code_enforced" =>
          amount <= IF flag THEN RequiresApprovalMaxCents ELSE AutoApproveMaxCents
    BY OneThreshold DEF mayRefund
  <2> QED
    BY <2>1, PolicyAssumption
<1> HIDE DEF mrr, left, ceiling, P
<1>6. 2 * amount * P <= 2 * ceiling * P
  BY <1>2, <1>3, <1>4
<1>7. amount <= mrr
  BY <1>1, <1>2, <1>4
<1>8. 2 * amount * P <= 2 * mrr * left + P
  <2>1. /\ 2 * amount * P \in Int /\ 2 * ceiling * P \in Int /\ 2 * mrr * left + P \in Int
    BY <1>1, <1>2, <1>3
  <2> QED
    BY <1>2, <1>6, <2>1
<1> QED
  BY <1>4, <1>5, <1>7, <1>8 DEF Lawful, mrr, left, P

\* Every refund ever made was within both business rules on the day it was made.
THEOREM RefundsStayWithinPolicy == Spec => []RefundsWithinPolicy
<1>1. RefundsWithinPolicy <=> \A i \in 1 .. Len(refunds) : Lawful(refunds[i])
  BY DEF RefundsWithinPolicy, Lawful
<1>2. Init => RefundsWithinPolicy
  BY DEF Init, DeskInit, RefundsWithinPolicy
<1>3. TypeOK /\ RefundsWithinPolicy /\ [Next]_vars => RefundsWithinPolicy'
  <2> SUFFICES ASSUME TypeOK, RefundsWithinPolicy, MoneyStep PROVE RefundsWithinPolicy'
    BY EveryStepIsMoneyStep
  <2>1. CASE UNCHANGED moneyVars
    BY <2>1 DEF RefundsWithinPolicy, moneyVars
  <2>2. ASSUME NEW actor \in Actors, NEW s \in Subscriptions, NEW amount \in Amounts,
               NEW reason \in Reasons, NEW flag \in BOOLEAN,
               mayRefund(actor, s, amount, reason, flag),
               recordRefund(actor, s, amount, reason, flag),
               reason \in TicketIds => ~flag
        PROVE  RefundsWithinPolicy'
    <3> DEFINE row == [subscription |-> s, amount |-> amount, reason |-> reason,
                       issued_by |-> actor, approved |-> flag, created_at |-> today]
    <3>1. refunds \in Seq(RefundRows) /\ refunds' = Append(refunds, row)
      BY <2>2 DEF TypeOK, RowsTypeOK, MoneyTypeOK, recordRefund
    <3>2. today \in Int /\ amount \in Nat
      BY DeskAssumption, FlowsAssumption DEF TypeOK, RowsTypeOK, MoneyTypeOK
    <3>3. Lawful(row)
      BY <2>2, <3>2, AllowedRefundIsLawful
    <3> HIDE DEF row
    <3>4. \A i \in 1 .. Len(refunds') : \/ refunds'[i] = row
                                        \/ i \in 1 .. Len(refunds) /\ refunds'[i] = refunds[i]
      BY <3>1
    <3>5. \A i \in 1 .. Len(refunds') : Lawful(refunds'[i])
      BY <1>1, <3>3, <3>4
    <3> QED
      BY <3>5 DEF RefundsWithinPolicy, Lawful
  <2> QED
    BY <2>1, <2>2 DEF MoneyStep
<1> QED
  BY <1>2, <1>3, TypeCorrect, PTL DEF Spec

\* No refund that issueRefund would reject becomes one it accepts, unless user
\* administration gives its actor another role: days only lower the ceiling, and nothing
\* that requests do enters the checks.
THEOREM RejectedStaysRejected == Spec => RejectionsStand
<1>1. ASSUME TypeOK, [Next]_vars PROVE today \in Int /\ today' \in Int /\ today <= today'
  <2>1. today \in Int
    BY <1>1, DeskAssumption DEF TypeOK, RowsTypeOK, MoneyTypeOK
  <2>2. today' = today \/ today' = today + 1
    BY <1>1 DEF Next, vars, ClockTicks, Tick, UserAdministers, ChangeRole, Arrives, Proceeds,
       PostResolve, PostTriage, PostPrompt,
       ClassifierAnswers, CategoryAnswers, IntentIsNoRefund, IntentIsRefund, Refund,
       RefundRejected, CommittedThenFailed, AgentReadsTicket, AgentRefunds, AgentReplies,
       AgentCallChangesNothing, AgentEscalates, AgentFinishes, RequestFails
  <2> QED
    BY <2>1, <2>2
<1>2. ASSUME TypeOK, [Next]_vars,
             NEW actor \in Actors, NEW s \in Subscriptions, NEW amount \in Amounts,
             NEW flag \in BOOLEAN, role'[actor] = role[actor],
             mayRefund(actor, s, amount, FreeText, flag)'
      PROVE  mayRefund(actor, s, amount, FreeText, flag)
  <2>1. SubMrr[s] \in Nat /\ SubRenewedAt[s] \in Int /\ amount \in Nat
    BY DeskAssumption, FlowsAssumption
  <2>2. today \in Int /\ today' \in Int /\ today <= today'
    BY <1>1, <1>2
  <2>3. CeilingOf(s, today) \in Nat /\ CeilingOf(s, today') \in Nat
    BY <2>1, <2>2, CeilingBounds DEF CeilingOf
  <2>4. CeilingOf(s, today') <= CeilingOf(s, today)
    BY <2>1, <2>2, CeilingNeverRises DEF CeilingOf
  <2>5. /\ role'[actor] \in RefundAllowedRoles
        /\ amount > 0 /\ FreeText # Blank
        /\ amount <= CeilingOf(s, today')
        /\ EnforcementMode = "code_enforced" => evaluateRefundPolicy(amount, flag)
    BY <1>2 DEF mayRefund, resolveActorRole
  <2>6. amount <= CeilingOf(s, today)
    BY <2>1, <2>3, <2>4, <2>5
  <2> QED
    BY <1>2, <2>5, <2>6 DEF mayRefund, resolveActorRole
<1>3. TypeOK /\ [Next]_vars =>
        [\A actor \in Actors, s \in Subscriptions, amount \in Amounts, flag \in BOOLEAN :
           /\ ~mayRefund(actor, s, amount, FreeText, flag)
           /\ role'[actor] = role[actor]
           => ~mayRefund(actor, s, amount, FreeText, flag)']_vars
  BY <1>2
<1> QED
  BY <1>3, TypeCorrect, PTL DEF Spec, RejectionsStand

-----------------------------------------------------------------------------
(* The desk implements RefundBook. *)

\* An allowed refund is lawful at the level of the book.
LEMMA AllowedRefundIsBookLawful ==
    ASSUME TypeOK, NEW actor \in Actors, NEW s \in Subscriptions, NEW amount \in Nat,
           NEW reason, NEW flag \in BOOLEAN, mayRefund(actor, s, amount, reason, flag)
    PROVE  Book!Lawful(s, amount, actor, flag)
<1>1. role[actor] \in {"editor", "admin"}
  BY DEF mayRefund, RefundAllowedRoles, resolveActorRole
<1>2. today \in 0 .. MaxDay /\ today \in Int
  BY DeskAssumption DEF TypeOK, RowsTypeOK, MoneyTypeOK
<1>3. CeilingOf(s, today) \in Nat
  BY <1>2, DeskAssumption, CeilingBounds DEF CeilingOf
<1>4. amount \in 1 .. CeilingOf(s, today)
  BY <1>3 DEF mayRefund
<1>5. [x \in Subscriptions |-> [d \in 0 .. MaxDay |-> CeilingOf(x, d)]][s][today]
        = CeilingOf(s, today)
  BY <1>2
<1>6. EnforcementMode = "code_enforced" =>
        amount <= (IF flag THEN RequiresApprovalMaxCents ELSE AutoApproveMaxCents)
  BY OneThreshold DEF mayRefund
<1> QED
  BY <1>1, <1>4, <1>5, <1>6 DEF Book!Lawful

\* Whatever the requests, the models and the failures do, the money moves as RefundBook
\* says: in atomic, lawful postings that are never taken back.
THEOREM DeskImplementsBook == Spec => ImplementsRefundBook
<1>1. Init => Book!Init
  BY DEF Init, DeskInit, Book!Init
<1>2. TypeOK /\ [Next]_vars => [Book!Next]_(Book!bookVars)
  <2> SUFFICES ASSUME TypeOK, [Next]_vars PROVE [Book!Next]_(Book!bookVars)
    OBVIOUS
  <2> DEFINE entitled == {a \in Actors : role[a] \in {"editor", "admin"}}
  <2>1. CASE ClockTicks
    BY <2>1 DEF ClockTicks, Tick, deskVars, Book!Next, Book!NewDay
  <2>2. CASE UNCHANGED <<moneyVars, today, role>>
    BY <2>2 DEF moneyVars, Book!bookVars
  <2>3. CASE UserAdministers
    <3>1. UNCHANGED <<refunds, transactions, audit_log, today>>
      BY <2>3 DEF UserAdministers, ChangeRole, deskVars
    <3>2. entitled' \in SUBSET Actors
      OBVIOUS
    <3> QED
      BY <3>1, <3>2 DEF Book!Next, Book!NewRoles
  <2>4. ASSUME NEW actor \in Actors, NEW s \in Subscriptions, NEW amount \in Amounts,
               NEW reason \in Reasons \ {Blank}, NEW flag \in BOOLEAN,
               mayRefund(actor, s, amount, reason, flag),
               recordRefund(actor, s, amount, reason, flag), UNCHANGED <<role, today>>
        PROVE  Book!Next
    <3>1. Book!Lawful(s, amount, actor, flag)
      BY <2>4, AllowedRefundIsBookLawful, FlowsAssumption
    <3>2. entitled' = entitled
      BY <2>4
    <3> HIDE DEF entitled
    <3>3. Book!Post(s, amount, actor, flag, reason)
      BY <2>4, <3>1, <3>2 DEF Book!Post, recordRefund, entitled
    <3> QED
      BY <3>3 DEF Book!Next
  <2>5. ClockTicks \/ UserAdministers \/ UNCHANGED <<role, today>>
    BY DEF Next, vars, Arrives, Proceeds, PostResolve, PostTriage, PostPrompt,
       ClassifierAnswers, CategoryAnswers, IntentIsNoRefund, IntentIsRefund, Refund,
       RefundRejected, CommittedThenFailed, AgentReadsTicket, AgentRefunds, AgentReplies,
       AgentCallChangesNothing, AgentEscalates, AgentFinishes, RequestFails
  <2> QED
    BY <2>1, <2>2, <2>3, <2>4, <2>5, EveryStepIsMoneyStep DEF MoneyStep
<1> QED
  BY <1>1, <1>2, TypeCorrect, PTL DEF Spec, ImplementsRefundBook, Book!Spec

=============================================================================
