SPECIFICATION TradingSpec
CONSTANTS
  MinPrice = 5
  MaxPrice = 15
  Prices <- PriceRange
  autoTrader = autoTrader
  analyst = analyst
  NoRisk = NoRisk
  Traders = {autoTrader}
  Analysts = {analyst}
  RiskMayFail = TRUE
  CrisisSkill = TRUE
  MaxStarts = 1
  Entry = 10
  InitStops = {6, 7, 13, 14}
  Target = 5
  Trail = 2
  Breakeven = 2
  MaxRestarts = 1
  Calls = {c1, c2}
  Pnls <- Results
  DailyLimit = 4
  WeeklyLimit = 5
  MonthlyLimit = 6
  MaxOpen = 2
  MaxLosses = 3
  DayTime = 2
  WeekTime = 3
  MonthDays = 2
  MaxTime = 4
  MaxTrades = 3
  MaxOpened = 1
  MaxCrash = 1
  AssessAt = {2}
INVARIANTS
  StopHonoured
  StopSound
  FiguresExact
  ResultsKept
  DebatedBeforeTraded
  RiskMatchesSignal
PROPERTIES
  StopNeverRetreats
CHECK_DEADLOCK FALSE
