---------------------------- MODULE SupportDesk ----------------------------
(***************************************************************************)
(* The SupportDesk services: the tables they keep and the operations of    *)
(* TicketsService, SubscriptionsService and RefundsService on them.        *)
(* better-sqlite3 is synchronous, so one operation runs to its end before  *)
(* any other JavaScript does: each is one step of the module that calls it *)
(* (TicketFlows).  A statement can still fail (disk full, the file locked  *)
(* or rewritten by `npm run seed`, a second process): an operation that    *)
(* fails is a separate alternative of the callers.                         *)
(*                                                                         *)
(* Customers, tickets and subscriptions are never inserted or changed by   *)
(* the services, apart from a ticket's status, so they are constants: the  *)
(* rows the boot-time seed wrote.  refunds, transactions and audit_log     *)
(* hold the rows written since then, in id order.  The users table belongs *)
(* to user administration (UserAdmin), which may change what role an actor *)
(* has between any two operations.                                         *)
(***************************************************************************)
EXTENDS RefundPolicy, Sequences, FiniteSets

CONSTANTS TicketIds,        \* ids a client or a model may name
          Tickets,          \* ids that have a row in tickets
          TicketUser,       \* tickets.user_id
          SeedFlagged,      \* tickets whose seeded text matches a legal keyword
          SubscriptionIds,  \* ids a model may name
          Subscriptions,    \* ids that have a row in subscriptions
          SubUser, SubMrr, SubRenewedAt,   \* columns of subscriptions
          Users,
          Actors,           \* actor strings callers send
          RoleOf,           \* users.role of the actors that are a known email after the boot
          RoleChanges,      \* <<actor, role>>: what user administration may do meanwhile
          EnforcementMode,  \* REFUND_POLICY_ENFORCEMENT
          MaxDay,           \* bound: the last day of the run
          NoTicket, FreeText, Blank

Roles == {"admin", "editor", "viewer", "customer"}
Reasons == TicketIds \cup {FreeText, Blank}

ASSUME DeskAssumption ==
    /\ Tickets \subseteq TicketIds
    /\ NoTicket \notin TicketIds
    /\ FreeText \notin TicketIds
    /\ Blank \notin TicketIds \cup {FreeText}
    /\ TicketUser \in [Tickets -> Users]
    /\ SeedFlagged \subseteq Tickets
    /\ SubscriptionIds \subseteq Nat \ {0}
    /\ Subscriptions \subseteq SubscriptionIds
    /\ SubUser \in [Subscriptions -> Users]
    /\ SubMrr \in [Subscriptions -> Nat]
    /\ SubRenewedAt \in [Subscriptions -> Int]
    /\ DOMAIN RoleOf \subseteq Actors
    /\ \A a \in DOMAIN RoleOf : RoleOf[a] \in Roles
    /\ RoleChanges \subseteq Actors \X Roles
    /\ EnforcementMode \in {"code_enforced", "prompt_only"}
    /\ MaxDay \in Nat

VARIABLES ticketStatus,  \* tickets.status
          thread,        \* ticket_messages written by agents, per ticket
          refunds,       \* refunds; a row's id is its position
          transactions,  \* transactions of type 'refund'
          audit_log,     \* audit_log entries of action issue_refund
          role,          \* what each actor string resolves to in users today
          today          \* the clock, in days

ticketVars == <<ticketStatus, thread>>
moneyVars == <<refunds, transactions, audit_log>>
deskVars == <<ticketStatus, thread, refunds, transactions, audit_log>>

TicketStatuses == {"open", "resolved", "escalated"}

\* What a message says: the routing text, the refund notice of the flow (with its
\* amount), or a free reply of a Mode A session, which may contain a keyword.
Messages == [text : {"routing", "refund_notice", "reply"}, amount : Nat, flagged : BOOLEAN]

RefundRows == [subscription : Subscriptions, amount : Nat, reason : Reasons,
               issued_by : Actors, approved : BOOLEAN, created_at : 0 .. MaxDay]

DeskInit ==
    /\ ticketStatus = [t \in Tickets |-> "open"]
    /\ thread = [t \in Tickets |-> <<>>]
    /\ refunds = <<>>
    /\ transactions = <<>>
    /\ audit_log = <<>>
    /\ role = [a \in Actors |-> IF a \in DOMAIN RoleOf THEN RoleOf[a] ELSE "admin"]
    /\ today = 0

-----------------------------------------------------------------------------
(* TicketsService *)

addMessage(t, text, amount, flagged) ==
    thread' = [thread EXCEPT ![t] =
                 Append(@, [text |-> text, amount |-> amount, flagged |-> flagged])]

\* No condition on the current status: the last writer wins.
updateStatus(t, status) == ticketStatus' = [ticketStatus EXCEPT ![t] = status]

\* detectLegalOrSecurityKeywords over subject, body and the whole thread.
checkLegalOrSecurityFlags(t) ==
    \/ t \in SeedFlagged
    \/ \E i \in DOMAIN thread[t] : thread[t][i].flagged

-----------------------------------------------------------------------------
(* UsersService.resolveActorRole and SubscriptionsService *)

\* Mutant: roles are looked up once, at the boot.
resolveActorRoleCached(actor) ==
    IF actor \in DOMAIN RoleOf THEN RoleOf[actor] ELSE "admin"

\* The role of the user the actor string names; a string that names none is the console's
\* and counts as an admin.  Read at every refund, never kept.
resolveActorRole(actor) == role[actor]

SubscriptionsOf(user) == {s \in Subscriptions : SubUser[s] = user}

\* The table is finite: a user who has subscriptions has a newest one.
ASSUME NewestSubscriptionAssumption ==
    \A user \in Users : SubscriptionsOf(user) # {} =>
      \E s \in SubscriptionsOf(user) : \A o \in SubscriptionsOf(user) : o <= s

\* ORDER BY id DESC LIMIT 1; the callers handle the user without one.
getByUserId(user) ==
    CHOOSE s \in SubscriptionsOf(user) : \A o \in SubscriptionsOf(user) : o <= s

-----------------------------------------------------------------------------
(* RefundsService *)

RefundAllowedRoles == {"editor", "admin"}

CeilingOf(s, day) == computeRefundableCeilingCents(SubMrr[s], SubRenewedAt[s], day)

\* Mutant: an approval lifts the remaining-term ceiling along with the dollar limit.
mayRefundApprovalLiftsCeiling(actor, s, amount, reason, approvalFlag) ==
    /\ resolveActorRole(actor) \in RefundAllowedRoles
    /\ amount > 0
    /\ reason # Blank
    /\ s \in Subscriptions
    /\ amount <= CeilingOf(s, today) \/ approvalFlag
    /\ EnforcementMode = "code_enforced" => evaluateRefundPolicy(amount, approvalFlag)

\* Every check of issueRefund before its transaction.
mayRefund(actor, s, amount, reason, approvalFlag) ==
    /\ resolveActorRole(actor) \in RefundAllowedRoles
    /\ amount > 0
    /\ reason # Blank
    /\ s \in Subscriptions
    /\ amount <= CeilingOf(s, today)
    /\ EnforcementMode = "code_enforced" => evaluateRefundPolicy(amount, approvalFlag)

\* Mutant: three inserts outside a transaction, the last of which may be lost.
recordRefundPiecemeal(actor, s, amount, reason, approvalFlag) ==
    LET id == Len(refunds) + 1
    IN  /\ refunds' = Append(refunds,
              [subscription |-> s, amount |-> amount, reason |-> reason,
               issued_by |-> actor, approved |-> approvalFlag, created_at |-> today])
        /\ transactions' = Append(transactions,
              [user |-> SubUser[s], amount |-> amount, refund_id |-> id])
        /\ \/ audit_log' = Append(audit_log,
              [actor |-> actor, target_user |-> SubUser[s], refund_id |-> id,
               subscription |-> s, amount |-> amount, approval_flag |-> approvalFlag])
           \/ UNCHANGED audit_log

\* The transaction: refunds row, mirrored ledger row, audit row, or none of them.
recordRefund(actor, s, amount, reason, approvalFlag) ==
    LET id == Len(refunds) + 1
    IN  /\ refunds' = Append(refunds,
              [subscription |-> s, amount |-> amount, reason |-> reason,
               issued_by |-> actor, approved |-> approvalFlag, created_at |-> today])
        /\ transactions' = Append(transactions,
              [user |-> SubUser[s], amount |-> amount, refund_id |-> id])
        /\ audit_log' = Append(audit_log,
              [actor |-> actor, target_user |-> SubUser[s], refund_id |-> id,
               subscription |-> s, amount |-> amount, approval_flag |-> approvalFlag])

\* User administration creates a user with the actor's address, or changes the role or the
\* address of the one that has it.
ChangeRole ==
    /\ \E change \in RoleChanges : role' = [role EXCEPT ![change[1]] = change[2]]
    /\ UNCHANGED <<deskVars, today>>

\* The clock moves on between operations.
Tick ==
    /\ today < MaxDay
    /\ today' = today + 1
    /\ UNCHANGED <<deskVars, role>>

=============================================================================
