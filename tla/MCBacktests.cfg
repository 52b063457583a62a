SPECIFICATION Spec
CONSTANTS
  RiskPct = 6
  MinHistory = 1
  UsdQuoted <- MCUsdQuoted
  Converter <- MCConverter
  StoredHtf <- MCStoredHtf
  StoredLtf <- MCStoredLtf
  LookbackDays = 3
  SwingBars = 1
  SlBuffer = 1
  Scripts <- MCScripts
  Bars <- MCBars
  CalmBars <- MCCalmBars
  Answers <- MCAnswers
  MaxTrades = 3
  ATR_5M_PERIOD = 2
  LEVEL_LOOKBACK = 480
  ZONE_MAX_DWELL_MIN = 25
  GoldCap = 2
  Stored5 <- MCStored5
  Stored15 <- MCStored15
  GoldTimes <- MCGoldTimes
  GoldBars <- MCGoldBars
  GoldNews <- MCGoldNews
INVARIANTS
  TradesAddUp
  GatesHold
  RiskIsKept
  NewestShown
  LevelsAreFresh
  ReportIsTrue
PROPERTIES
  StopOnlyTightens
