SPECIFICATION Spec
CONSTANTS
  Texts <- LikeTexts
  Normal <- LikeNormal
  ValidEmails <- LikeValid
  DomainOf <- LikeDomainOf
  Domains <- LikeDomains
  SeedUsers <- LikeSeedUsers
  StatusNames = {"active", "suspended"}
  Actors = {"root@r"}
  NewUsers = {}
  Updates <- LikeUpdates
  Batches = {}
  Files = {}
  MaxAutoSuspend = 2
  MaxSuspendPerInvocation = 4
  MaxBatchSize = 3
  WritesMayFail = FALSE
  MaxLog = 2
  Blank = ""
  Nothing = Nothing
\* The log is bounded: once it is full no call is served.
CHECK_DEADLOCK FALSE
INVARIANTS
  OnlyTheDomainIsSuspended
