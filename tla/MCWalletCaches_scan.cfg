\* A page cached while a scan runs is served after the scan.
CONSTANTS
  MaxTx = 3
  MaxResets = 1
  PageSize = {2}
  Modes <- ScanOverlaps
  Request = {c1}
  WalletAddress = {a1, a2}
  TwoStepThreshold = 2
  MaxChanges = 1
  BalanceCall = {c1, c2}
  NullKey = NullKey
  Letter = Letter
  BlockheightCacheTime = 1
  MaxHeight = 2
  MaxTime = 3
  HeightCall = {c1, c2}
  Stories = {"history"}
SPECIFICATION Spec
INVARIANT PageOfReadAddresses
CHECK_DEADLOCK FALSE
