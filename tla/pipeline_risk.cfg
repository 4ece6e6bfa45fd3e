CONSTANTS
  autoTrader = autoTrader
  NoRisk = NoRisk
  Traders = {autoTrader}
  Analysts = {}
  RiskMayFail = TRUE
  CrisisSkill = TRUE
SPECIFICATION PipelineSpec
INVARIANTS
  EveryTradeAssessed
