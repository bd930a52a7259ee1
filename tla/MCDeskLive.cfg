SPECIFICATION FairSpec
CONSTANTS
  AutoApproveMaxCents = 1
  RequiresApprovalMaxCents = 2
  BillingPeriodDays = 2
  TicketIds = {1, 2}
  Tickets = {1, 2}
  TicketUser <- DanaTicketUser
  SeedFlagged = {2}
  SubscriptionIds = {1}
  Subscriptions = {1}
  SubUser <- DanaSubUser
  SubMrr <- DanaSubMrr
  SubRenewedAt <- DanaSubRenewedAt
  Users = {"dana"}
  Actors = {"ops-console"}
  RoleOf <- NoKnownRole
  RoleChanges = {}
  EnforcementMode = "code_enforced"
  MaxDay = 0
  NoTicket = NoTicket
  FreeText = FreeText
  Blank = Blank
  Requests = {r1, r2}
  Amounts = {0, 1}
  MaxToolCalls = 2
  WritesMayFail = FALSE
  NoActor = NoActor
\* The workload is finite: every request is answered and the clock stops.
CHECK_DEADLOCK FALSE
PROPERTIES
  EveryRequestSettles
