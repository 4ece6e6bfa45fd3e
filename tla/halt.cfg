SPECIFICATION Spec
CONSTANTS
  Durations <- ShortSpans
  Cooldown = 3
  HaltSpan = 2
  MaxNow = 6
  MaxStop = 2
  autoTrader = autoTrader
  NoRisk = NoRisk
  Traders = {autoTrader}
  Analysts = {}
  RiskMayFail = TRUE
  CrisisSkill = TRUE
INVARIANTS
  EmergencyHasEnd
PROPERTIES
  AutoHonoursEmergency
  EmergencyEnds
  PipelineReturns
