SPECIFICATION Spec
CONSTANTS
  AutoApproveMaxCents = 1
  RequiresApprovalMaxCents = 2
  BillingPeriodDays = 2
  TicketIds = {1, 9}
  Tickets = {1}
  TicketUser <- OneTicketUser
  SeedFlagged = {}
  SubscriptionIds = {1}
  Subscriptions = {1}
  SubUser <- DanaSubUser
  SubMrr <- DanaSubMrr
  SubRenewedAt <- DanaSubRenewedAt
  Users = {"dana"}
  Actors = {"ed@x", "vi@x"}
  RoleOf <- MCRoleOf
  RoleChanges <- EdIsDemoted
  EnforcementMode = "prompt_only"
  MaxDay = 0
  NoTicket = NoTicket
  FreeText = FreeText
  Blank = Blank
  Requests = {r1, r2, r3}
  Amounts = {3}
  MaxToolCalls = 1
  WritesMayFail = TRUE
  NoActor = NoActor
SYMMETRY RequestSymmetry
\* The workload is finite: every request is answered and the clock stops.
CHECK_DEADLOCK FALSE
INVARIANTS
  EveryRefundHasItsRequest
PROPERTIES
  ImplementsRefundBook
