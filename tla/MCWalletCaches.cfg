\* Pages, balances and heights stay right while calls, events, failures and
\* the clock interleave.
CONSTANTS
  MaxTx = 3
  MaxResets = 1
  PageSize = {2}
  Modes <- Orderly
  Request = {c1, c2}
  WalletAddress = {a1, a2}
  TwoStepThreshold = 2
  MaxChanges = 1
  BalanceCall = {c1, c2}
  NullKey = NullKey
  Letter = Letter
  BlockheightCacheTime = 1
  MaxHeight = 2
  MaxTime = 3
  HeightCall = {c1, c2}
  Stories = {"history", "balance", "height"}
SYMMETRY Symmetry
SPECIFICATION Spec
INVARIANTS
  TypeOK
  ItemsInPlace
  PageCoversResets
  BalanceSettles
  PartialCovers
  HeightFresh
CHECK_DEADLOCK FALSE
