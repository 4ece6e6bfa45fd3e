SPECIFICATION FairSpec
CONSTANTS
  NoTask = NoTask
  autoTrader = autoTrader
  api = api
  monitor = monitor
  stream = stream
  userA = userA
  userB = userB
  checker = checker
  Openers = {api}
  Closers = {userA}
  Tickers = {stream}
  Checkers = {}
  CronLocked = {}
  Early = {api}
  MayAbort = {api}
  Live = FALSE
  ReadLimit = 20
  MaxSig = 1
  MaxTx = 3
  MaxCrash = 1
INVARIANTS
  WALSound
  PendingOwned
PROPERTIES
  RecoveryEnds
