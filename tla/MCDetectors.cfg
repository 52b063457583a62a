SPECIFICATION MCSpec
CONSTANTS
  L_SWING = 1
  ATR_LEN = 2
  N_IMP_HTF = 2
  REJECT_VOL_LOOKBACK_BARS = 3
  LEVEL_LOOKBACK_BARS_HTF = 6
  LEVEL_MIN_TOUCHES = 3
  LEVEL_MIN_GAP_BARS = 1
  BOS_MAX_AGE_BARS_HTF = 5
  BOS_RETEST_BARS_LTF = 2
  OB_MAX_AGE_BARS_HTF = 5
  OB_RETEST_BARS_LTF = 2
  SWEEP_RECLAIM_BARS = 2
  SR_REJECT_BARS_LTF = 2
  SWEEP_LOOKBACK_BARS = 6
  SWEEP_REF_BARS = 3
  FVG_VALIDITY_BARS = 2
  FLIP_LEVEL_TOUCHES = 2
  FLIP_LEVEL_AGE_BARS = 6
  MAX_BREAK_AGE_HTF_BARS = 3
  RETEST_LOOKBACK_LTF_BARS = 2
  FLIP_HTF_BARS = 6
  HourShapes <- MCHourShapes
  LateShapes <- MCLateShapes
  QuarterShapes <- MCQuarterShapes
  FoundSignals <- MCFoundSignals
  Hours = 6
  Quarters = 2
  MoreHours = 8
  Expanded = 3
  MaxFound = 3
  PAIR_CONFIG <- MCPairConfig
  min_bars_required = 8
  BIAS_EMA_SPAN = 5
  BIAS_MIN_BARS = 6
  Pairs <- MCPairs
  Settings <- MCSettings
  HourEvents <- MCHourEvents
  history_bars = 15
INVARIANTS
  MirrorImage
  NoHindsight
  ConfluenceSound
  SignalsArePinned
  ExitsArePinned
  OrderRiskBounded
