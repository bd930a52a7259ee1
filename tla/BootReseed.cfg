SPECIFICATION FairSpec
CONSTANTS
  Processes = {"server", "seeder"}
  Servers = {"server"}
  SEED_COUNT = 8
  TicketEvery = 2
  AnswerEvery = 2
  RefundEvery = 2
  DemoThread = 2
  Articles = 1
  MaxLive = 1
  None = None
PROPERTIES
  ReseedAlwaysRuns
