---------------------------- MODULE RefundPolicy ----------------------------
(***************************************************************************)
(* The two business rules of support-desk/refund-policy.ts: the dollar     *)
(* thresholds of REFUND_POLICY and the remaining-term ceiling.  Both are   *)
(* pure functions; RefundsService.issueRefund is their only caller.        *)
(*                                                                         *)
(* Amounts are whole cents, dates are whole days.  The code's thresholds   *)
(* (5000 and 20000 cents, 30 days) are constants here.  Its doubles are    *)
(* exact for these products, and Math.round of a non-negative quotient     *)
(* rounds halves up, as RoundedQuotient does.                              *)
(***************************************************************************)
EXTENDS Integers

CONSTANTS AutoApproveMaxCents,       \* REFUND_POLICY.autoApproveMaxCents
          RequiresApprovalMaxCents,  \* REFUND_POLICY.requiresApprovalMaxCents
          BillingPeriodDays          \* BILLING_PERIOD_DAYS

ASSUME PolicyAssumption ==
    /\ AutoApproveMaxCents \in Nat
    /\ RequiresApprovalMaxCents \in Nat
    /\ AutoApproveMaxCents <= RequiresApprovalMaxCents
    /\ BillingPeriodDays \in Nat \ {0}

-----------------------------------------------------------------------------

\* decision.allowed of evaluateRefundPolicy.
evaluateRefundPolicy(amountCents, approvalFlag) ==
    \/ amountCents <= AutoApproveMaxCents
    \/ amountCents <= RequiresApprovalMaxCents /\ approvalFlag

\* Mutant: the days between the two dates, whichever comes first.
remainingDaysEitherWay(renewedAt, now) ==
    LET apart == IF now < renewedAt THEN renewedAt - now ELSE now - renewedAt
        left == BillingPeriodDays - apart
    IN  IF left < 0 THEN 0 ELSE left

\* The period clamped to [0, BillingPeriodDays]: a renewal date in the future
\* leaves the whole period, one older than a period leaves nothing.
remainingDays(renewedAt, now) ==
    LET left == BillingPeriodDays - (now - renewedAt)
    IN  IF left < 0 THEN 0
        ELSE IF left > BillingPeriodDays THEN BillingPeriodDays
        ELSE left

RoundedQuotient(n, d) == (2 * n + d) \div (2 * d)

computeRefundableCeilingCents(mrrCents, renewedAt, now) ==
    RoundedQuotient(mrrCents * remainingDays(renewedAt, now), BillingPeriodDays)

=============================================================================
