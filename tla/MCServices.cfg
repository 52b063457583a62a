SPECIFICATION FairSpec
CONSTANTS
  Lifetime = 2
  MaxNow = 3
  MaxOrders = 3
  StartingEquity = 10
  Results <- MCResults
  Floats = {0, 1}
  MaxDay = 1
  MaxEvents = 3
  MaxDeaths = 1
  MaxAttempts = 3
  RealMode = TRUE
  Balances = {0, 96, 100, 104}
  GuardPct = 5
  MaxCounted = 4
  MaxReports = 4
INVARIANTS NothingRestsForgotten DayIsTold ProbesClose EachReportedOnce
PROPERTIES ExpiredIsAsked StopEnds
