SPECIFICATION Spec
CONSTANTS
  Output = {1, 2, 3}
  FEE_LEVELS <- MCLevels
  FEE_LEVELS_FALLBACK = 2
  Estimate <- MCEstimate
  Funds <- MCFunds
  Request <- MCRequest
  MAX_FEE_PER_KB = 1000000
  BACKOFF_OFFSET = 10
  MAX_TX_SIZE = 700
  MAX_TX_FEE = 10000000
  MIN_OUTPUT_AMOUNT = 5000
  DUST_AMOUNT = 546
  MAX_SINGLE_UTXO_FACTOR = 2
  MIN_TX_AMOUNT_VS_UTXO = 10
  MAX_FEE_VS_TX_AMOUNT = 5
  MAX_FEE_VS_SINGLE_UTXO_FEE = 1
INVARIANTS
  WellFunded
  RefusedOnlyIfPoor
  ConfirmedFirst
  SendMaxIsMax
  SendMaxCreates
CHECK_DEADLOCK FALSE
