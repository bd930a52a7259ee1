SPECIFICATION FairSpec
CONSTANTS
  Processes = {"old", "new"}
  Servers = {"old", "new"}
  SEED_COUNT = 8
  TicketEvery = 2
  AnswerEvery = 2
  RefundEvery = 2
  DemoThread = 2
  Articles = 1
  MaxLive = 1
  None = None
INVARIANTS
  BootTypeOK
  SeedIsWhole
  ReferencesHold
  UndisturbedBootSeeds
PROPERTIES
  EveryBootEnds
