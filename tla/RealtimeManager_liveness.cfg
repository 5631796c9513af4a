SPECIFICATION FairSpec
CONSTANTS
  Sockets = {s1}
  Tasks = {t1, t2, t3}
  MaxVersion = 2
  MaxInbox = 2
  None = None
CHECK_DEADLOCK FALSE
PROPERTIES CopiesCatchUp
