CONSTANTS
  autoTrader = autoTrader
  NoRisk = NoRisk
  Traders = {autoTrader}
  Analysts = {}
  RiskMayFail = FALSE
  CrisisSkill = TRUE
SPECIFICATION PipelineSpec
INVARIANTS
  StopProtects
