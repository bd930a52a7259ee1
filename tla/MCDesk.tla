------------------------------- MODULE MCDesk -------------------------------
(* Small instances of the desk for TLC, and four statements of the repository's   *)
(* documentation that the code does not keep.                                      *)
EXTENDS DeskProperties, FiniteSetsExt, TLC

\* Dana has two subscriptions and two tickets, one with a keyword in its text; lee has a
\* ticket and no subscription.  Id 9 has no row.  Dana's first subscription renews in the
\* future, the period of her second is over on day 1.
MCTicketUser == 1 :> "dana" @@ 2 :> "dana" @@ 3 :> "lee"
MCSubUser == 1 :> "dana" @@ 2 :> "dana"
MCSubMrr == 1 :> 4 @@ 2 :> 3
MCSubRenewedAt == 1 :> 2 @@ 2 :> -1
MCRoleOf == "ed@x" :> "editor" @@ "vi@x" :> "viewer"

\* Dana alone, for the runs with more requests.
DanaTicketUser == 1 :> "dana" @@ 2 :> "dana"
OneTicketUser == 1 :> "dana"
DanaSubUser == 1 :> "dana"
DanaSubMrr == 1 :> 3
DanaSubRenewedAt == 1 :> 0
NoKnownRole == [a \in {} |-> "admin"]
DanaRoleOf == "vi@x" :> "viewer"
EdIsDemoted == {<<"ed@x", "viewer">>}

RequestSymmetry == Permutations(Requests)

-----------------------------------------------------------------------------

\* database.service.ts:305, the seeded policy article: a ticket "referencing legal action
\* ... cannot be resolved by an automated agent".  No step resolves a ticket that is
\* flagged at that moment.
FlaggedTicketNotResolved ==
    [][\A t \in Tickets :
         /\ checkLegalOrSecurityFlags(t)
         /\ ticketStatus[t] # "resolved"
         => ticketStatus'[t] # "resolved"]_vars

\* database.service.ts:274: refunds are "capped at the unused, remaining portion of your
\* current billing period".  What a subscription got back, all refunds together, is at
\* most the price of the period.
RefundedAtMostThePeriod ==
    \A s \in Subscriptions :
      MapThenSumSet(LAMBDA i : refunds[i].amount,
                    {i \in 1 .. Len(refunds) : refunds[i].subscription = s}) <= SubMrr[s]

\* agent.service.ts:27, the system prompt of Mode A: "Every mutating action is written to
\* an audit log automatically."  No step changes a desk table without an entry.
EveryMutationIsAudited ==
    [][deskVars' # deskVars => Len(audit_log') > Len(audit_log)]_vars

=============================================================================
