SPECIFICATION Spec
CONSTANTS
  eurusd = eurusd
  gbpusd = gbpusd
  Symbols = {eurusd, gbpusd}
  NewsSymbols = {}
  EquityLevels = {10000}
  StartingEquity = 10000
  WorstLoss <- MCSmallRisk
  Notional <- MCSmallRisk
  MaxDailyLossPct = 5
  MaxTotalLossPct = 10
  MaxTradesPerDay = 2
  LeverageForex = 100
  Faults = {}
  MaxDay = 1
  MaxRun = 0
  MaxFills = 2
INVARIANT CapMeansTwoToday
