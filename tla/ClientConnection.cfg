SPECIFICATION FairSpec
CONSTANTS
  Workers = {w1, w2}
  Tokens = {t1}
  Conns = {c1, c2}
  Keys = {k1, k2}
  None = None
  ConnTTL = 1
  KeyTTL = 1
  MaxTime = 2
INVARIANTS TypeOK OnePendingPerWorker DeadlineWithinKey
PROPERTIES RefusedTokenStaysQuiet LivesByTheRules PendingResolved
CHECK_DEADLOCK FALSE
