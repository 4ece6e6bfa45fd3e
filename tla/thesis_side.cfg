CONSTANTS
  Reports <- ReportSet
  WorldTicks <- TickSet
  Listed = {0, 1}
  MaxUpdates = 2
  MaxScans = 1
  KillSpread = 80
SPECIFICATION WorldSpec
INVARIANTS
  ThesisServed
