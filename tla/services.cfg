CONSTANTS
  owner = owner
  scout = scout
  c1 = c1
  c2 = c2
  Chats = {owner}
  Loops = {scout}
  Keys = {"primary", "fallback"}
  MaxRetries = 1
  Threshold = 2
  Iterations = 2
  Budget = 2
  Costs = {1, 2}
  Focus <- TaskGroups
  OneShots = {"startup_check"}
  FailCap = 3
  Clients = {c1, c2}
  Frames = {"1 hour", "1 day"}
  SkillPages = {"order_flow"}
  Directions = {"bullish"}
  Theses = {"A", "B"}
  MaxActive = 2
  MinEvidence = 1
  MaxFormed = 3
  TextLevels = FALSE
  Quotes = {0, 2, 4}
  Spreads = {1}
  StopPips = 2
  TargetPips = 4
  Least <- Bankrupt
  MaxTasks = 2
  MaxManual = 2
  Prices = {1, 2}
  Signals = {"BULLISH", "BEARISH", "NEUTRAL"}
  Batch = 1
  Sample = 2
  MaxPatterns = 3
  MaxCuts = 1
SPECIFICATION Spec
INVARIANTS
  OverspendBounded
  BeliefsCoherent
  BooksBalance
PROPERTIES
  CallersAnswered
  TasksKeepRunning
  KillStopsScans
  ExpiresByCreation
  StoppedLoopsEnd
  JudgedUnlessCrowded
CHECK_DEADLOCK FALSE
