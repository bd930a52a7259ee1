------------------------- MODULE RefundPolicyProofs -------------------------
(***************************************************************************)
(* What the refund rules compute, for every threshold, period, price and   *)
(* date.                                                                   *)
(***************************************************************************)
EXTENDS RefundPolicy, TLAPS

\* The days left in the period are between none and all of it.
LEMMA RemainingDaysBounds ==
    ASSUME NEW renewedAt \in Int, NEW now \in Int
    PROVE  remainingDays(renewedAt, now) \in 0 .. BillingPeriodDays
  BY PolicyAssumption DEF remainingDays

\* Rounding is to the nearest integer, halves upwards.
LEMMA RoundedQuotientNearest ==
    ASSUME NEW n \in Nat, NEW d \in Nat \ {0}
    PROVE  /\ RoundedQuotient(n, d) \in Nat
           /\ (2 * d) * RoundedQuotient(n, d) <= 2 * n + d
           /\ 2 * n + d < (2 * d) * RoundedQuotient(n, d) + 2 * d
<1> DEFINE a == 2 * n + d
           b == 2 * d
           k == a \div b
<1>1. a \in Nat /\ b \in Nat /\ b > 0
  OBVIOUS
<1> HIDE DEF a, b
<1>2. k \in Nat /\ b * k <= a /\ a < b * k + b
  BY <1>1
<1> QED
  BY <1>2 DEF RoundedQuotient, a, b

\* The ceiling is a whole number of cents, within half a cent of the prorated price,
\* and never above the price of the period (computeRefundableCeilingCents).
THEOREM CeilingBounds ==
    ASSUME NEW mrrCents \in Nat, NEW renewedAt \in Int, NEW now \in Int
    PROVE  LET ceiling == computeRefundableCeilingCents(mrrCents, renewedAt, now)
               left == remainingDays(renewedAt, now)
           IN  /\ ceiling \in Nat
               /\ ceiling <= mrrCents
               /\ 2 * ceiling * BillingPeriodDays <= 2 * mrrCents * left + BillingPeriodDays
<1> DEFINE left == remainingDays(renewedAt, now)
           ceiling == computeRefundableCeilingCents(mrrCents, renewedAt, now)
           P == BillingPeriodDays
<1>1. left \in Nat /\ left <= P /\ P \in Nat \ {0}
  BY RemainingDaysBounds, PolicyAssumption
<1>2. mrrCents * left \in Nat
  BY <1>1
<1>3. ceiling = RoundedQuotient(mrrCents * left, P)
  BY DEF computeRefundableCeilingCents
<1> HIDE DEF left, ceiling, P
<1>4. /\ ceiling \in Nat
      /\ (2 * P) * ceiling <= 2 * (mrrCents * left) + P
  BY <1>1, <1>2, <1>3, RoundedQuotientNearest
<1>5. mrrCents * left <= mrrCents * P
  BY <1>1
<1>6. P * (2 * ceiling) <= P * (2 * mrrCents + 1)
  BY <1>1, <1>4, <1>5
<1>7. 2 * ceiling <= 2 * mrrCents + 1
  <2>1. SUFFICES ASSUME 2 * ceiling > 2 * mrrCents + 1 PROVE FALSE
    BY <1>4
  <2>2. P * (2 * ceiling) >= P * (2 * mrrCents + 2)
    BY <1>1, <1>4, <2>1
  <2> QED
    BY <1>1, <1>4, <1>6, <2>2
<1>8. ceiling <= mrrCents
  BY <1>4, <1>7
<1>9. 2 * ceiling * P <= 2 * mrrCents * left + P
  BY <1>1, <1>2, <1>4
<1> QED
  BY <1>4, <1>8, <1>9 DEF left, ceiling, P

\* As days pass the ceiling only falls: a refund it rejected stays rejected on a retry.
THEOREM CeilingNeverRises ==
    ASSUME NEW mrrCents \in Nat, NEW renewedAt \in Int, NEW now \in Int, NEW later \in Int,
           now <= later
    PROVE  computeRefundableCeilingCents(mrrCents, renewedAt, later)
             <= computeRefundableCeilingCents(mrrCents, renewedAt, now)
<1> DEFINE m == mrrCents * remainingDays(renewedAt, now)
           n == mrrCents * remainingDays(renewedAt, later)
           P == BillingPeriodDays
           before == RoundedQuotient(m, P)
           after == RoundedQuotient(n, P)
<1>1. /\ remainingDays(renewedAt, now) \in Nat
      /\ remainingDays(renewedAt, later) \in Nat
      /\ remainingDays(renewedAt, later) <= remainingDays(renewedAt, now)
  BY PolicyAssumption DEF remainingDays
<1>2. m \in Nat /\ n \in Nat /\ n <= m /\ P \in Nat \ {0}
  BY <1>1, PolicyAssumption
<1> HIDE DEF m, n, P
<1>3. before \in Nat /\ 2 * m + P < (2 * P) * before + 2 * P
  BY <1>2, RoundedQuotientNearest
<1>4. after \in Nat /\ (2 * P) * after <= 2 * n + P
  BY <1>2, RoundedQuotientNearest
<1> HIDE DEF before, after
<1>5. (2 * P) * after < (2 * P) * (before + 1)
  BY <1>2, <1>3, <1>4
<1>6. after <= before
  <2>1. SUFFICES ASSUME after >= before + 1 PROVE FALSE
    BY <1>3, <1>4
  <2>2. (2 * P) * after >= (2 * P) * (before + 1)
    BY <1>2, <1>3, <1>4, <2>1
  <2> QED
    BY <1>2, <1>3, <1>4, <1>5, <2>2
<1> QED
  BY <1>6 DEF computeRefundableCeilingCents, before, after, m, n, P

\* A period that is over leaves nothing to refund.
THEOREM NothingAfterThePeriod ==
    ASSUME NEW mrrCents \in Nat, NEW renewedAt \in Int, NEW now \in Int,
           now - renewedAt >= BillingPeriodDays
    PROVE  computeRefundableCeilingCents(mrrCents, renewedAt, now) = 0
<1>1. remainingDays(renewedAt, now) = 0
  BY PolicyAssumption DEF remainingDays
<1>2. mrrCents * remainingDays(renewedAt, now) = 0
  BY <1>1
<1>3. BillingPeriodDays \in Nat \ {0}
  BY PolicyAssumption
<1>4. RoundedQuotient(0, BillingPeriodDays) = 0
  <2>1. /\ RoundedQuotient(0, BillingPeriodDays) \in Nat
        /\ (2 * BillingPeriodDays) * RoundedQuotient(0, BillingPeriodDays)
             <= BillingPeriodDays
    BY <1>3, RoundedQuotientNearest
  <2> QED
    BY <1>3, <2>1
<1> QED
  BY <1>2, <1>4 DEF computeRefundableCeilingCents

\* The dollar policy is one limit, which the approval flag picks (evaluateRefundPolicy).
LEMMA OneThreshold ==
    ASSUME NEW amountCents \in Int, NEW approvalFlag \in BOOLEAN
    PROVE  evaluateRefundPolicy(amountCents, approvalFlag)
             <=> amountCents <= IF approvalFlag THEN RequiresApprovalMaxCents
                                ELSE AutoApproveMaxCents
  BY PolicyAssumption DEF evaluateRefundPolicy

=============================================================================
