SPECIFICATION Spec
CONSTANTS
  eurusd = eurusd
  gbpusd = gbpusd
  Symbols = {eurusd, gbpusd}
  NewsSymbols = {}
  EquityLevels = {9200, 10000, 10900}
  StartingEquity = 10000
  WorstLoss <- MCSmallRisk
  Notional <- MCSmallRisk
  MaxDailyLossPct = 5
  MaxTotalLossPct = 10
  MaxTradesPerDay = 2
  LeverageForex = 100
  Faults = {"ambiguous", "misjudged", "crash", "no_account", "poll"}
  MaxDay = 1
  MaxRun = 1
  MaxFills = 2
INVARIANTS OneTradePerDirection LedgersAgree OneTrackedPerSymbol NothingUntracked FillsAreBooked KillSwitch
CONSTRAINT InScope
SYMMETRY PairsAlike
