--------------------------- MODULE DeskProperties ---------------------------
(***************************************************************************)
(* What TicketFlows is supposed to guarantee.                              *)
(***************************************************************************)
EXTENDS TicketFlows, Functions

TicketTypeOK == /\ ticketStatus \in [Tickets -> TicketStatuses]
                /\ thread \in [Tickets -> Seq(Messages)]

MoneyTypeOK ==
    /\ refunds \in Seq(RefundRows)
    /\ transactions \in Seq([user : Users, amount : Nat, refund_id : Nat])
    /\ audit_log \in Seq([actor : Actors, target_user : Users, refund_id : Nat,
                          subscription : Subscriptions, amount : Nat,
                          approval_flag : BOOLEAN])
    /\ today \in 0 .. MaxDay

\* What the requests read and write: the desk's tables and their own records.
RowsTypeOK ==
    /\ TicketTypeOK
    /\ MoneyTypeOK
    /\ req \in [Requests -> RequestStates]
    /\ exposed \in [Requests -> SUBSET ({"category", "intent", "agent"} \X Tickets)]
    /\ \A r \in Requests :
         /\ req[r].pc \in {"category", "intent", "fetched"} => req[r].ticket \in Tickets
         /\ req[r].pc = "fetched" => req[r].sub \in Subscriptions
         /\ req[r].pc \in Awaiting => req[r].actor \in Actors

\* Every variable has its type; a request past its ticket check works on a ticket
\* that exists, and one that fetched a subscription holds a real one.
TypeOK == RowsTypeOK /\ role \in [Actors -> Roles]

-----------------------------------------------------------------------------

\* The refunds table, the shared ledger and the audit log tell one story: row n of each
\* is about the same refund, to the subscription's owner.  issueRefund writes the three
\* in one transaction, so a failure between them must leave none.
RefundTriple ==
    /\ Len(transactions) = Len(refunds)
    /\ Len(audit_log) = Len(refunds)
    /\ \A i \in 1 .. Len(refunds) :
         LET row == refunds[i] IN
         /\ transactions[i] = [user |-> SubUser[row.subscription], amount |-> row.amount,
                               refund_id |-> i]
         /\ audit_log[i] = [actor |-> row.issued_by, refund_id |-> i,
                            target_user |-> SubUser[row.subscription],
                            subscription |-> row.subscription, amount |-> row.amount,
                            approval_flag |-> row.approved]

\* Both business rules held on the day a refund was made, whichever path asked for it:
\* the remaining-term ceiling in either enforcement mode (so never more than a month's
\* price), the dollar thresholds when code_enforced; and a deterministic flow, which
\* cannot claim an approval, never exceeded the auto-approve limit.
RefundsWithinPolicy ==
    \A i \in 1 .. Len(refunds) :
      LET row == refunds[i]
          mrr == SubMrr[row.subscription]
      IN  /\ row.amount > 0
          /\ row.amount <= mrr
          /\ 2 * row.amount * BillingPeriodDays
               <= 2 * mrr * remainingDays(SubRenewedAt[row.subscription], row.created_at)
                  + BillingPeriodDays
          /\ EnforcementMode = "code_enforced" =>
               /\ row.amount <= RequiresApprovalMaxCents
               /\ row.amount > AutoApproveMaxCents => row.approved
          /\ row.reason \in TicketIds => ~row.approved

\* A ticket is "resolved" only because a flow refunded it and told the customer: the
\* status, the thread and the refunds table agree, in every interleaving.
ResolvedMeansRefunded ==
    \A t \in Tickets : ticketStatus[t] = "resolved" =>
      \E i \in 1 .. Len(refunds), n \in 1 .. Len(thread[t]) :
        /\ refunds[i].reason = t
        /\ SubUser[refunds[i].subscription] = TicketUser[t]
        /\ thread[t][n].text = "refund_notice"
        /\ thread[t][n].amount = refunds[i].amount

\* "We've issued a refund of $X" is said at most as often as a refund of X was issued
\* for that ticket: no notice precedes its refund or outlives a rolled-back one.
NoticesAreBacked ==
    \A t \in Tickets : \A n \in 1 .. Len(thread[t]) :
      thread[t][n].text = "refund_notice" =>
        LET amount == thread[t][n].amount IN
        Cardinality({k \in 1 .. Len(thread[t]) :
                       thread[t][k].text = "refund_notice" /\ thread[t][k].amount = amount})
          <= Cardinality({i \in 1 .. Len(refunds) :
                            refunds[i].reason = t /\ refunds[i].amount = amount})

\* A ticket whose own text has a legal or security keyword is a human's: no request, by
\* any route, shows it to a model, refunds it, answers it with a flow's message or
\* resolves it, and no request is ever past the check with it.
LegalTicketsStayWithHumans ==
    \A t \in SeedFlagged :
      /\ ticketStatus[t] # "resolved"
      /\ \A i \in 1 .. Len(refunds) : refunds[i].reason # t
      /\ \A n \in 1 .. Len(thread[t]) : thread[t][n].text = "reply"
      /\ \A r \in Requests :
           /\ \A e \in exposed[r] : e[2] # t
           /\ req[r].ticket = t => req[r].pc \notin Awaiting

\* What a request answered is what the desk shows: the refund it names is the row it
\* made, its message is in the thread, an escalation it reports left the ticket
\* escalated (or a refund resolved it since), and it then names no refund.
AnswerMatchesDesk ==
    \A r \in Requests : LET q == req[r] IN
      /\ q.decision = "refunded" =>
           /\ q.refund \in 1 .. Len(refunds)
           /\ refunds[q.refund].reason = q.ticket
           /\ refunds[q.refund].amount = q.amount
           /\ refunds[q.refund].issued_by = q.actor
           /\ ticketStatus[q.ticket] # "open"
           /\ \A o \in Requests \ {r} : req[o].refund # q.refund
      /\ q.decision = "replied_no_refund" =>
           \E n \in 1 .. Len(thread[q.ticket]) : thread[q.ticket][n].text = "routing"
      /\ q.decision \in {"escalated", "legal"} => ticketStatus[q.ticket] # "open"
      /\ q.decision # "refunded" => q.refund = 0

\* A ticket's status is what some request told its caller: of two requests on one ticket the
\* last writer wins, so whoever wrote it must have answered so, and nothing that ended in
\* an error may leave a status behind.
StatusWasTold ==
    \A t \in Tickets :
      /\ ticketStatus[t] = "resolved" =>
           \E r \in Requests : req[r].decision = "refunded" /\ req[r].ticket = t
      /\ ticketStatus[t] = "escalated" =>
           \E r \in Requests :
             \/ req[r].decision \in {"escalated", "legal"} /\ req[r].ticket = t
             \/ req[r].decision = "agent_escalated"

\* Request q made refund i and is over: it names the refund in its answer, or it was handed
\* to a human or ended in an error after the refund was committed.
AccountsFor(q, i) ==
    /\ q.ticket = refunds[i].reason
    /\ q.amount = refunds[i].amount
    /\ q.actor = refunds[i].issued_by
    /\ \/ q.decision = "refunded" /\ q.refund = i
       \/ q.decision = "escalated"
       \/ q.pc = "failed"

FlowRefunds == {i \in 1 .. Len(refunds) : refunds[i].reason \in TicketIds}

\* The refunds made for tickets belong to different requests, each of which is over:
\* whatever fails after a commit, no request refunds twice and none goes on as if it had
\* not refunded (the flow of a retried, escalated or failed request included).
EveryRefundHasItsRequest ==
    \E maker \in Injection(FlowRefunds, Requests) :
      \A i \in FlowRefunds : AccountsFor(req[maker[i]], i)

\* README: "caught and turned into an escalation", and the flow's own "refund, or catch
\* the rejection and escalate": a flow that moved money says so.  Every refund made for
\* a ticket is named in the answer of a request on that ticket.
EveryRefundReported ==
    \A i \in 1 .. Len(refunds) : refunds[i].reason \in TicketIds =>
      \E r \in Requests : req[r].decision = "refunded" /\ req[r].refund = i

-----------------------------------------------------------------------------

\* The guardrail runs before any model call: no step puts before a model the text of a
\* ticket flagged at that moment, even when the flag appeared while the request was
\* waiting (triage hands over to the billing flow).
FlaggedTicketNeverReachesModel ==
    [][\A r \in Requests : \A e \in exposed'[r] \ exposed[r] :
         ~checkLegalOrSecurityFlags(e[2])]_vars

\* A refund the rules reject stays rejected: neither the days that pass nor anything other
\* requests do makes it lawful, so trying again never helps.  Only user administration
\* can, by giving its actor another role.
RejectionsStand ==
    [][\A actor \in Actors, s \in Subscriptions, amount \in Amounts, flag \in BOOLEAN :
         /\ ~mayRefund(actor, s, amount, FreeText, flag)
         /\ role'[actor] = role[actor]
         => ~mayRefund(actor, s, amount, FreeText, flag)']_vars

\* The desk as a book of refunds.
Book == INSTANCE RefundBook WITH
    Subs <- Subscriptions,
    Payee <- SubUser,
    Staff <- Actors,
    Ceiling <- [s \in Subscriptions |-> [d \in 0 .. MaxDay |-> CeilingOf(s, d)]],
    Limit <- AutoApproveMaxCents,
    ApprovedLimit <- RequiresApprovalMaxCents,
    ThresholdsEnforced <- EnforcementMode = "code_enforced",
    Amounts <- Amounts,
    Reasons <- Reasons \ {Blank},
    book <- refunds, ledger <- transactions, audit <- audit_log, day <- today,
    issuers <- {a \in Actors : role[a] \in {"editor", "admin"}}

\* Whatever the requests and the models do, the money moves as RefundBook says: atomic,
\* append-only postings, lawful for the role the actor has at that moment, however many
\* awaits ago its request came in.
ImplementsRefundBook == Book!Spec

\* A request that reached an await is answered, with a result or an error.
EveryRequestSettles ==
    \A r \in Requests : req[r].pc \in Awaiting ~> req[r].pc \in {"done", "failed"}

=============================================================================
