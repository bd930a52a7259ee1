SPECIFICATION Spec
CONSTANTS
  AutoApproveMaxCents = 1
  RequiresApprovalMaxCents = 2
  BillingPeriodDays = 2
  TicketIds = {1, 2, 3, 9}
  Tickets = {1, 2, 3}
  TicketUser <- MCTicketUser
  SeedFlagged = {2}
  SubscriptionIds = {1, 2, 9}
  Subscriptions = {1, 2}
  SubUser <- MCSubUser
  SubMrr <- MCSubMrr
  SubRenewedAt <- MCSubRenewedAt
  Users = {"dana", "lee"}
  Actors = {"ed@x", "vi@x"}
  RoleOf <- MCRoleOf
  RoleChanges = {}
  EnforcementMode = "code_enforced"
  MaxDay = 1
  NoTicket = NoTicket
  FreeText = FreeText
  Blank = Blank
  Requests = {r1, r2}
  Amounts = {0, 1, 2, 3}
  MaxToolCalls = 1
  WritesMayFail = TRUE
  NoActor = NoActor
SYMMETRY RequestSymmetry
\* The workload is finite: every request is answered and the clock stops.
CHECK_DEADLOCK FALSE
INVARIANTS
  TypeOK
  RefundTriple
  RefundsWithinPolicy
  ResolvedMeansRefunded
  NoticesAreBacked
  LegalTicketsStayWithHumans
  AnswerMatchesDesk
  StatusWasTold
PROPERTIES
  RejectionsStand
  FlaggedTicketNeverReachesModel
