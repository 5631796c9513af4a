SPECIFICATION Spec
CONSTANTS
  Tasks = {t1, t2}
  Keys = {k1, k2}
  AgentTTL = 2
  ClientTTL = 1
  DedupTime = 1
  MaxTime = 3
  None = None
SYMMETRY Symmetry
INVARIANTS TypeOK OneAgentKey
 
