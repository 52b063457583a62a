SPECIFICATION FairSpec
CONSTANTS
  Msc <- MCDistinct
  DateOf <- MCTwoDates
  BatchSize = 3
  QueueMax = 1
  FlushSize = 2
  Faults = {"write_fails", "poll_fails", "crash", "drain_timeout"}
  MaxRun = 1
CHECK_DEADLOCK FALSE
INVARIANTS AcceptedReachDisk ReplayIsFeed
PROPERTIES PartsKept StopCompletes CatchesUp
