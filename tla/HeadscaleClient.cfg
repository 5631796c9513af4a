SPECIFICATION FairSpec
CONSTANTS
  Callers = {p1, p2, p3}
  Threshold = 4
  Recovery = 2
  MaxRetries = 3
  MaxFailures = 5
INVARIANTS TypeOK ClosedIffBelowThreshold
PROPERTIES Recovers
