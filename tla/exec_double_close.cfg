SPECIFICATION Spec
CONSTANTS
  NoTask = NoTask
  autoTrader = autoTrader
  api = api
  monitor = monitor
  stream = stream
  userA = userA
  userB = userB
  checker = checker
  Openers = {api}
  Closers = {userA, userB}
  Tickers = {}
  Checkers = {}
  CronLocked = {}
  Early = {}
  MayAbort = {}
  Live = FALSE
  ReadLimit = 20
  MaxSig = 1
  MaxTx = 3
  MaxCrash = 0
SYMMETRY InterchangeableUsers
INVARIANTS
  ResultOnce
CHECK_DEADLOCK FALSE
