---------------------------- MODULE TicketFlows ----------------------------
(***************************************************************************)
(* The requests that work on tickets, and how they interleave: the         *)
(* deterministic flows (ResolveBillingTicketFlow, TriageTicketFlow), the   *)
(* orchestrator that routes a prompt to one of them or to a Mode A         *)
(* session, and the SupportDesk tools such a session calls.                *)
(*                                                                         *)
(* Node runs one request at a time between two awaits.  Each action below  *)
(* is the code a request runs from one await to the next; pc names the     *)
(* await it has reached:                                                   *)
(*   "classify"  ClassifierService.classify   "category"  classifyTicket.. *)
(*   "intent"    classifyRefundIntent         "fetched"   Promise.all      *)
(*   "agent"     a turn of AgentService.run                                *)
(* What a model answers is a free choice.  What the code read before an    *)
(* await and uses after it is kept in the request: it may be stale.        *)
(***************************************************************************)
EXTENDS SupportDesk

CONSTANTS Requests,       \* HTTP requests; a client's retry is another one
          Amounts,        \* amounts a model may name; 0 stands for null or invalid
          MaxToolCalls,   \* bound: tool calls of one Mode A session
          WritesMayFail,  \* whether a statement after the first may throw
          NoActor

ASSUME FlowsAssumption ==
    /\ Amounts \subseteq Nat
    /\ MaxToolCalls \in Nat
    /\ WritesMayFail \in BOOLEAN
    /\ NoActor \notin Actors

VARIABLES req,      \* the requests and what they keep across an await
          exposed   \* ticket texts a request has put before a model, and at which await

flowVars == <<req, exposed>>
vars == <<deskVars, role, today, flowVars>>

Awaiting == {"classify", "category", "intent", "fetched", "agent"}
Decisions == {"none", "refunded", "replied_no_refund", "escalated", "legal",
              "unhandled", "user_admin", "answered", "agent_escalated"}

RequestStates ==
    [pc : {"idle", "done", "failed"} \cup Awaiting,
     ticket : TicketIds \cup {NoTicket}, actor : Actors \cup {NoActor},
     sub : SubscriptionIds \cup {0}, amount : Amounts \cup {0}, decision : Decisions,
     refund : Nat, calls : Nat]

Idle == [pc |-> "idle", ticket |-> NoTicket, actor |-> NoActor, sub |-> 0, amount |-> 0,
         decision |-> "none", refund |-> 0, calls |-> 0]

Init == /\ DeskInit
        /\ req = [r \in Requests |-> Idle]
        /\ exposed = [r \in Requests |-> {}]

-----------------------------------------------------------------------------
(* How a request goes on.  q is what it keeps. *)

Await(r, q, pc) == req' = [req EXCEPT ![r] = [q EXCEPT !.pc = pc]]

Answer(r, q, decision) ==
    req' = [req EXCEPT ![r] = [q EXCEPT !.pc = "done", !.decision = decision]]

\* An exception nobody catches: HTTP 500, nothing written by this step.
Fail(r, q) == /\ req' = [req EXCEPT ![r] = [q EXCEPT !.pc = "failed"]]
              /\ UNCHANGED <<deskVars, exposed>>

Expose(r, pc, t) == exposed' = [exposed EXCEPT ![r] = @ \cup {<<pc, t>>}]

\* Mutant: the caller is told the ticket was escalated, and its status is not set.
EscalateTicketUnsaved(r, q, decision) ==
    /\ Answer(r, q, decision)
    /\ UNCHANGED <<deskVars, exposed>>

\* updateStatus(ticket, "escalated"), then return.
EscalateTicket(r, q, decision) ==
    /\ updateStatus(q.ticket, "escalated")
    /\ Answer(r, q, decision)
    /\ UNCHANGED <<thread, moneyVars, exposed>>

\* What every flow does first.  A missing ticket throws, a flagged one is escalated
\* in code, and only then does a model see it, at the await named pc.
Screened(r, q, pc, decision) ==
    \/ q.ticket \notin Tickets /\ Fail(r, q)
    \/ /\ q.ticket \in Tickets
       /\ checkLegalOrSecurityFlags(q.ticket)
       /\ EscalateTicket(r, q, decision)
    \/ /\ q.ticket \in Tickets
       /\ ~checkLegalOrSecurityFlags(q.ticket)
       /\ Await(r, q, pc)
       /\ Expose(r, pc, q.ticket)
       /\ UNCHANGED deskVars

\* ResolveBillingTicketFlow.execute and TriageTicketFlow.execute up to their first await.
BeginResolve(r, q) == Screened(r, q, "intent", "escalated")
BeginTriage(r, q) == Screened(r, q, "category", "legal")

-----------------------------------------------------------------------------
(* Requests arrive *)

PostResolve(r) ==
    /\ req[r].pc = "idle"
    /\ \E t \in TicketIds, a \in Actors :
         BeginResolve(r, [req[r] EXCEPT !.ticket = t, !.actor = a])
    /\ UNCHANGED today

PostTriage(r) ==
    /\ req[r].pc = "idle"
    /\ \E t \in TicketIds, a \in Actors :
         BeginTriage(r, [req[r] EXCEPT !.ticket = t, !.actor = a])
    /\ UNCHANGED today

PostPrompt(r) ==
    /\ req[r].pc = "idle"
    /\ \E a \in Actors : Await(r, [req[r] EXCEPT !.actor = a], "classify")
    /\ UNCHANGED <<deskVars, today, exposed>>

-----------------------------------------------------------------------------
(* The model answers *)

\* Mutant: the guardrail is left to the flows, so a model_driven prompt skips it.
DispatchUnguarded(r, q, flow) ==
    \/ flow = "user_admin" /\ Answer(r, q, flow) /\ UNCHANGED <<deskVars, exposed>>
    \/ flow = "resolve" /\ q.ticket # NoTicket /\ BeginResolve(r, q)
    \/ flow = "triage" /\ q.ticket # NoTicket /\ BeginTriage(r, q)
    \/ /\ flow = "model_driven" \/ (flow # "user_admin" /\ q.ticket = NoTicket)
       /\ Await(r, q, "agent")
       /\ UNCHANGED <<deskVars, exposed>>

\* OrchestratorService.run after its classifier.  The guardrail runs on any ticket the
\* prompt names, whatever the route; a flow that needs a ticket and has none, like a
\* model_driven route, ends in a Mode A session.  The two user-administration flows
\* leave the desk alone.
Dispatch(r, q, flow) ==
    \/ q.ticket \notin Tickets \cup {NoTicket} /\ Fail(r, q)
    \/ /\ q.ticket \in Tickets
       /\ checkLegalOrSecurityFlags(q.ticket)
       /\ EscalateTicket(r, q, "legal")
    \/ /\ q.ticket \in Tickets => ~checkLegalOrSecurityFlags(q.ticket)
       /\ q.ticket \in Tickets \cup {NoTicket}
       /\ \/ flow = "user_admin" /\ Answer(r, q, flow) /\ UNCHANGED <<deskVars, exposed>>
          \/ flow = "resolve" /\ q.ticket # NoTicket /\ BeginResolve(r, q)
          \/ flow = "triage" /\ q.ticket # NoTicket /\ BeginTriage(r, q)
          \/ /\ flow = "model_driven" \/ (flow # "user_admin" /\ q.ticket = NoTicket)
             /\ Await(r, q, "agent")
             /\ UNCHANGED <<deskVars, exposed>>

\* ClassifierService.classify: whatever the model put into the forced tool call, a field
\* that is not of the schema becomes null, and no call at all is a model_driven request.
Classifications ==
    [route : {"deterministic", "model_driven"},
     flow : {"suspend_users_by_domain", "bulk_create_users_from_csv",
             "resolve_billing_ticket", "triage_ticket", "null"},
     domain : BOOLEAN, csv_text : BOOLEAN]   \* whether it is given and not blank

\* The engine OrchestratorService.run picks.  A deterministic route without a flow or
\* without that flow's parameter is a guess the code does not make (for the ticket flows,
\* Dispatch looks at the ticket id).
Engine(c) ==
    IF c.route # "deterministic" THEN "model_driven"
    ELSE IF c.flow = "suspend_users_by_domain" /\ c.domain THEN "user_admin"
    ELSE IF c.flow = "bulk_create_users_from_csv" /\ c.csv_text THEN "user_admin"
    ELSE IF c.flow = "resolve_billing_ticket" THEN "resolve"
    ELSE IF c.flow = "triage_ticket" THEN "triage"
    ELSE "model_driven"

ClassifierAnswers(r) ==
    /\ req[r].pc = "classify"
    /\ \E t \in TicketIds \cup {NoTicket}, flow \in {Engine(c) : c \in Classifications} :
         Dispatch(r, [req[r] EXCEPT !.ticket = t], flow)
    /\ UNCHANGED today

\* Mutant: triage hands over without the billing flow's own check: it has just checked.
CategoryAnswersUnscreened(r) ==
    /\ req[r].pc = "category"
    /\ \/ EscalateTicket(r, req[r], "legal")
       \/ /\ Await(r, req[r], "intent")
          /\ Expose(r, "intent", req[r].ticket)
          /\ UNCHANGED deskVars
       \/ Answer(r, req[r], "unhandled") /\ UNCHANGED <<deskVars, exposed>>
    /\ UNCHANGED today

\* TriageTicketFlow.execute after its await.
CategoryAnswers(r) ==
    /\ req[r].pc = "category"
    /\ \/ EscalateTicket(r, req[r], "legal")
       \/ BeginResolve(r, req[r])
       \/ Answer(r, req[r], "unhandled") /\ UNCHANGED <<deskVars, exposed>>
    /\ UNCHANGED today

\* Mutant: a routing reply closes the ticket.
IntentIsNoRefundResolves(r) ==
    /\ req[r].pc = "intent"
    /\ addMessage(req[r].ticket, "routing", 0, FALSE)
    /\ updateStatus(req[r].ticket, "resolved")
    /\ Answer(r, req[r], "replied_no_refund")
    /\ UNCHANGED <<moneyVars, today, exposed>>

\* ResolveBillingTicketFlow.execute between its awaits: no refund wanted.
IntentIsNoRefund(r) ==
    /\ req[r].pc = "intent"
    /\ addMessage(req[r].ticket, "routing", 0, FALSE)
    /\ Answer(r, req[r], "replied_no_refund")
    /\ UNCHANGED <<ticketStatus, moneyVars, today, exposed>>

\* Mutant: a customer without a subscription goes on, with no subscription id.
IntentIsRefundAnyway(r) ==
    LET user == TicketUser[req[r].ticket]
    IN  /\ req[r].pc = "intent"
        /\ \E amount \in Amounts :
             Await(r, [req[r] EXCEPT !.amount = amount,
                         !.sub = IF SubscriptionsOf(user) = {} THEN 0 ELSE getByUserId(user)],
                   "fetched")
        /\ UNCHANGED <<deskVars, today, exposed>>

\* A refund wanted: the customer and the subscription are read, then awaited.
IntentIsRefund(r) ==
    LET user == TicketUser[req[r].ticket]
    IN  /\ req[r].pc = "intent"
        /\ \E amount \in Amounts :
             \/ /\ SubscriptionsOf(user) # {}
                /\ Await(r, [req[r] EXCEPT !.amount = amount, !.sub = getByUserId(user)],
                         "fetched")
                /\ UNCHANGED <<deskVars, exposed>>
             \/ SubscriptionsOf(user) = {} /\ Fail(r, req[r])
        /\ UNCHANGED today

-----------------------------------------------------------------------------
(* ResolveBillingTicketFlow.execute after its last await: refund, reply and set the
   status, or catch whatever was thrown and escalate. *)

allowed(q) == mayRefund(q.actor, q.sub, q.amount, q.ticket, FALSE)
refundFor(q) == recordRefund(q.actor, q.sub, q.amount, q.ticket, FALSE)
noticeFor(q) == addMessage(q.ticket, "refund_notice", q.amount, FALSE)

Refund(r) ==
    LET q == req[r]
    IN  /\ q.pc = "fetched"
        /\ allowed(q)
        /\ refundFor(q)
        /\ noticeFor(q)
        /\ updateStatus(q.ticket, "resolved")
        /\ Answer(r, [q EXCEPT !.refund = Len(refunds) + 1], "refunded")
        /\ UNCHANGED <<today, exposed>>

\* Mutant: the customer is told before the refund is attempted.
RefundRejectedAfterNotice(r) ==
    /\ req[r].pc = "fetched"
    /\ ~allowed(req[r]) \/ WritesMayFail
    /\ noticeFor(req[r])
    /\ updateStatus(req[r].ticket, "escalated")
    /\ Answer(r, req[r], "escalated")
    /\ UNCHANGED <<moneyVars, today, exposed>>

\* Mutant: a rejection on a ticket that is already closed is dropped, not answered.
RefundRejectedIfOpen(r) ==
    /\ req[r].pc = "fetched"
    /\ ~allowed(req[r]) \/ WritesMayFail
    /\ ticketStatus[req[r].ticket] = "open"
    /\ EscalateTicket(r, req[r], "escalated")
    /\ UNCHANGED today

\* issueRefund threw: rejected by a rule, or its transaction failed and rolled back.
RefundRejected(r) ==
    /\ req[r].pc = "fetched"
    /\ ~allowed(req[r]) \/ WritesMayFail
    /\ EscalateTicket(r, req[r], "escalated")
    /\ UNCHANGED today

\* Mutant: a write that failed after the commit is tried again, refund included.
CommittedThenRetried(r) ==
    LET q == req[r]
    IN  /\ WritesMayFail
        /\ q.pc = "fetched"
        /\ allowed(q)
        /\ refundFor(q)
        /\ UNCHANGED <<ticketStatus, thread, req, today, exposed>>

\* Mutant: the status is set before the reply that fails, and nobody is told.
CommittedThenFailedResolved(r) ==
    LET q == req[r]
    IN  /\ WritesMayFail
        /\ q.pc = "fetched"
        /\ allowed(q)
        /\ refundFor(q)
        /\ noticeFor(q) \/ UNCHANGED thread
        /\ \/ updateStatus(q.ticket, "escalated") /\ Answer(r, q, "escalated")
           \/ /\ req' = [req EXCEPT ![r] = [q EXCEPT !.pc = "failed"]]
              /\ updateStatus(q.ticket, "resolved")
        /\ UNCHANGED <<today, exposed>>

\* The refund is committed, and the reply or the status update that follows throws:
\* the same handler escalates and answers refund: null.
CommittedThenFailed(r) ==
    LET q == req[r]
    IN  /\ WritesMayFail
        /\ q.pc = "fetched"
        /\ allowed(q)
        /\ refundFor(q)
        /\ noticeFor(q) \/ UNCHANGED thread
        /\ \/ updateStatus(q.ticket, "escalated") /\ Answer(r, q, "escalated")
           \/ /\ req' = [req EXCEPT ![r] = [q EXCEPT !.pc = "failed"]]
              /\ UNCHANGED ticketStatus
        /\ UNCHANGED <<today, exposed>>

-----------------------------------------------------------------------------
(* Tools of a Mode A session, one call a step.  Several calls of one turn run with
   nothing between them: a behaviour of these steps that no other request interrupts. *)

Calling(r) == req[r].pc = "agent" /\ req[r].calls < MaxToolCalls
Called(r) == Await(r, [req[r] EXCEPT !.calls = @ + 1], "agent")

\* get_ticket: a flagged ticket's text is withheld.
AgentReadsTicket(r) ==
    /\ Calling(r) /\ Called(r)
    /\ \E t \in Tickets : ~checkLegalOrSecurityFlags(t) /\ Expose(r, "agent", t)
    /\ UNCHANGED <<deskVars, today>>

AgentRefunds(r) ==
    /\ Calling(r) /\ Called(r)
    /\ \E s \in SubscriptionIds, amount \in Amounts, reason \in {FreeText, Blank},
          flag \in BOOLEAN :
         /\ mayRefund(req[r].actor, s, amount, reason, flag)
         /\ recordRefund(req[r].actor, s, amount, reason, flag)
    /\ UNCHANGED <<ticketStatus, thread, today, exposed>>

\* send_reply: the model's own words on any ticket, flagged or not.
AgentReplies(r) ==
    /\ Calling(r) /\ Called(r)
    /\ \E t \in Tickets, flagged \in BOOLEAN : addMessage(t, "reply", 0, flagged)
    /\ UNCHANGED <<ticketStatus, moneyVars, today, exposed>>

\* Any other call: a read, or an error the model gets back as an is_error result.
AgentCallChangesNothing(r) ==
    /\ Calling(r) /\ Called(r)
    /\ UNCHANGED <<deskVars, today, exposed>>

\* escalate_to_human ends the session; a ticket id that has no row throws.
AgentEscalates(r) ==
    /\ req[r].pc = "agent"
    /\ \E t \in TicketIds \cup {NoTicket} :
         \/ t \in Tickets /\ updateStatus(t, "escalated")
         \/ t = NoTicket /\ UNCHANGED ticketStatus
    /\ Answer(r, req[r], "agent_escalated")
    /\ UNCHANGED <<thread, moneyVars, today, exposed>>

\* A final answer, or the iteration cap.
AgentFinishes(r) ==
    /\ req[r].pc = "agent"
    /\ Answer(r, req[r], "answered")
    /\ UNCHANGED <<deskVars, today, exposed>>

-----------------------------------------------------------------------------

\* The model call rejects (error, timeout, missing key), or the first statement after
\* it throws: nothing of the step was written.
RequestFails(r) ==
    /\ req[r].pc \in Awaiting
    /\ req[r].pc = "fetched" => WritesMayFail
    /\ Fail(r, req[r])
    /\ UNCHANGED today

\* A request that reached an await goes on: the model answered or the call failed.
\* Nothing a desk request does changes a role.
Proceeds(r) ==
    /\ \/ ClassifierAnswers(r) \/ CategoryAnswers(r)
       \/ IntentIsNoRefund(r) \/ IntentIsRefund(r)
       \/ Refund(r) \/ RefundRejected(r) \/ CommittedThenFailed(r)
       \/ AgentReadsTicket(r) \/ AgentRefunds(r) \/ AgentReplies(r)
       \/ AgentCallChangesNothing(r) \/ AgentEscalates(r) \/ AgentFinishes(r)
       \/ RequestFails(r)
    /\ UNCHANGED role

Arrives(r) == (PostResolve(r) \/ PostTriage(r) \/ PostPrompt(r)) /\ UNCHANGED role

ClockTicks == Tick /\ UNCHANGED flowVars

UserAdministers == ChangeRole /\ UNCHANGED flowVars

Next == \/ \E r \in Requests : Arrives(r) \/ Proceeds(r)
        \/ ClockTicks
        \/ UserAdministers

Spec == Init /\ [][Next]_vars

\* Every model call ends: the Anthropic client times out and gives up after its
\* retries, and a settled promise's continuation runs.  Clients need not send anything.
FairSpec == Spec /\ \A r \in Requests : WF_vars(Proceeds(r))

=============================================================================
