SPECIFICATION Spec
CONSTANTS
  NoTask = NoTask
  autoTrader = autoTrader
  api = api
  monitor = monitor
  stream = stream
  userA = userA
  userB = userB
  checker = checker
  Openers = {autoTrader, api}
  Closers = {}
  Tickers = {monitor, stream}
  Checkers = {}
  CronLocked = {autoTrader, monitor}
  Early = {api}
  MayAbort = {api, stream}
  Live = TRUE
  ReadLimit = 20
  MaxSig = 2
  MaxTx = 3
  MaxCrash = 1
INVARIANTS
  SignalBacked
  OpenWatched
  ResultOnce
PROPERTIES
  BookSpec
