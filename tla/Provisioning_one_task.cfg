SPECIFICATION FairSpec
CONSTANTS
  Tasks = {t1}
  Keys = {k1, k2}
  AgentTTL = 2
  ClientTTL = 1
  DedupTime = 1
  MaxTime = 2
  None = None
PROPERTIES KeyReachesAgent DeadKeyStartsAgain
