CONSTANTS
  a1 = a1
  a2 = a2
  r1 = r1
  r2 = r2
  u1 = u1
  u2 = u2
  Scenes <- SceneSet
  Ballots <- BallotSet
  SwingWindow = 1
  Gap = 2
  Charts <- ChartSet
  Confluences <- ConfluenceSet
  Block = 2
  Strongest = 12
  Views <- ViewSet
  Doubts <- DoubtSet
  Lookback = 1
  Spare = 1
  MaxOpen = 2
  StopAway = 50
  TargetAway = 80
  Commission = 7
  Detect <- Follow
  Folds <- FoldPlan
  Histories <- HistorySet
  Proposals <- ProposalSet
  Reports <- ReportSet
  WorldTicks <- TickSet
  Listed = {0, 1}
  MaxUpdates = 2
  MaxScans = 1
  KillSpread = 80
  Askers = {a1, a2}
  Readers = {r1, r2}
  Sources = {"oanda"}
  Trip = 2
  Recovery = 1
  Delay = 1
  StoreTTL = 1
  AgeCap = 4
  MemTTL <- MemoryTTL
  Users = {u1, u2}
  Writers = {u1, u2}
  PoolSize = 2
  MaxPools = 2
  MaxCuts = 1
  Recipients <- RecipientList
  Messages = {"m1", "m2"}
  Muted = {}
  Unregistered = {"c2"}
  Hour = 2
  PerHour = 3
  Asian = {1}
  Quiet = {3}
  MaxNow = 4
  MaxRestart = 1
SPECIFICATION Spec
INVARIANTS
  Mirrored
  CautionKept
  StopsGuard
  ReportsHonest
  DataFresh
  ConnectionsConserved
  AnsweredDurable
PROPERTIES
  AlertsSpaced
CHECK_DEADLOCK FALSE
