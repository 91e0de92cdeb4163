SPECIFICATION LimitsSpec
CONSTANTS
  Windows <- TwoWindows
  Size <- Seconds
  Limits = {0, 2, 3}
  Thresholds = {1, 4}
  LargeDelay = 3
  Amounts = {0, 1, 2, 4}
  StartTime = 7
  MaxMinted = 8
  MaxTime = 18
INVARIANTS
  ReplayAgrees
  SafeAmountIsNotDelayed
  UnsafeAmountIsDelayed
CHECK_DEADLOCK FALSE
