SPECIFICATION Spec
CONSTANTS
  Sockets = {s1, s2}
  Tasks = {t1, t2, t3}
  MaxVersion = 2
  MaxInbox = 2
  None = None
CHECK_DEADLOCK FALSE
SYMMETRY Symmetry
INVARIANTS TypeOK RegisteredIsOnline EndedMeansOffline AckedChangeCovered
PROPERTIES StoresCopies
