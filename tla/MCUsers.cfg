SPECIFICATION Spec
CONSTANTS
  Texts <- MCTexts
  Normal <- MCNormal
  ValidEmails <- MCValid
  DomainOf <- MCDomainOf
  Domains <- MCDomains
  SeedUsers <- MCSeedUsers
  StatusNames = {"active", "deleted"}
  Actors = {"root@a", "ed@b", "con@c"}
  NewUsers <- MCNewUsers
  Updates <- MCUpdates
  Batches <- MCBatches
  Files <- MCFiles
  MaxAutoSuspend = 2
  MaxSuspendPerInvocation = 4
  MaxBatchSize = 3
  WritesMayFail = TRUE
  MaxLog = 2
  Blank = ""
  Nothing = Nothing
\* The log is bounded: once it is full no call is served.
CHECK_DEADLOCK FALSE
INVARIANTS
  UsersTypeOK
  LogExplainsTable
  EntriesAreLawful
  ReportMatchesLog
  OnboardIsAllOrNothing
  PlannedRowsCanBeCreated
  ImportReportsTheFile
  DomainSuspensionIsBounded
  DomainSuspensionIsComplete
PROPERTIES
  ImplementsAuditedTable
