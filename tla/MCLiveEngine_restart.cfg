SPECIFICATION FairSpec
CONSTANTS
  eurusd = eurusd
  gbpusd = gbpusd
  Symbols = {eurusd}
  NewsSymbols = {eurusd}
  EquityLevels = {10000}
  StartingEquity = 10000
  WorstLoss <- MCSmallRisk
  Notional <- MCSmallRisk
  MaxDailyLossPct = 5
  MaxTotalLossPct = 10
  MaxTradesPerDay = 2
  LeverageForex = 100
  Faults = {"crash", "poll"}
  MaxDay = 1
  MaxRun = 1
  MaxFills = 2
PROPERTIES LedgerSpec BarsReachEngine
