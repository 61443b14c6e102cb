SPECIFICATION FairSpec
CONSTANTS
  Task = {a, b, c}
  Token = {k1, k2}
CHECK_DEADLOCK FALSE
INVARIANTS
  HeadRuns
  OverlapOnlyExpired
PROPERTIES
  AnsweredOnce
  IsLease
  EveryCallAnswered
