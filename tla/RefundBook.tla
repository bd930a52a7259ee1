----------------------------- MODULE RefundBook -----------------------------
(***************************************************************************)
(* What the money side of SupportDesk promises, whoever asks: a book of    *)
(* refunds that only grows, one posting at a time.  A posting is a refunds *)
(* row, its mirror in the shared ledger and its audit entry, all three or  *)
(* none, and it is lawful at the moment it is made.  Requests, tickets,    *)
(* models and failures do not exist at this level.                         *)
(***************************************************************************)
EXTENDS Integers, Sequences

CONSTANTS Subs,                  \* subscriptions
          Payee,                 \* the customer of each
          Staff,                 \* actors, whatever their role
          Ceiling,               \* Ceiling[s][d]: the refundable rest of s on day d
          Limit,                 \* dollar limit without an approval
          ApprovedLimit,         \* and with one
          ThresholdsEnforced     \* whether the dollar limits bind

VARIABLES book, ledger, audit, day,
          issuers                \* the actors whose role may move money now

bookVars == <<book, ledger, audit, day, issuers>>

Init == /\ book = <<>> /\ ledger = <<>> /\ audit = <<>> /\ day = 0
        /\ issuers \in SUBSET Staff

Lawful(s, amount, actor, approved) ==
    /\ actor \in issuers
    /\ amount \in 1 .. Ceiling[s][day]
    /\ ThresholdsEnforced => amount <= (IF approved THEN ApprovedLimit ELSE Limit)

Post(s, amount, actor, approved, reason) ==
    /\ Lawful(s, amount, actor, approved)
    /\ book' = Append(book, [subscription |-> s, amount |-> amount, reason |-> reason,
                             issued_by |-> actor, approved |-> approved, created_at |-> day])
    /\ ledger' = Append(ledger, [user |-> Payee[s], amount |-> amount,
                                 refund_id |-> Len(book) + 1])
    /\ audit' = Append(audit, [actor |-> actor, target_user |-> Payee[s],
                               refund_id |-> Len(book) + 1, subscription |-> s,
                               amount |-> amount, approval_flag |-> approved])
    /\ UNCHANGED <<day, issuers>>

CONSTANTS Amounts, Reasons   \* what may be asked for

NewDay == day' = day + 1 /\ UNCHANGED <<book, ledger, audit, issuers>>

\* Roles are given and taken at any time, and count from then on.
NewRoles == issuers' \in SUBSET Staff /\ UNCHANGED <<book, ledger, audit, day>>

Next == \/ NewDay \/ NewRoles
        \/ \E s \in Subs, amount \in Amounts, actor \in Staff, approved \in BOOLEAN,
              reason \in Reasons : Post(s, amount, actor, approved, reason)

Spec == Init /\ [][Next]_bookVars

=============================================================================
