SPECIFICATION FairSpec
CONSTANTS
  c1 = c1  c2 = c2
  n1 = n1  n2 = n2
  t1 = t1
  None = None  Unrecorded = Unrecorded
  Containers <- AllContainers
  Tokens <- MCTokens
  Nodes <- OneNode
  Conns = {k1}
  Belongs <- OneBelongs
  Kind <- OneKind
  Begins <- NamesApart
  Places <- Anywhere
INVARIANTS
  TypeOK
PROPERTIES
  AppliesInOneStep
  OrphanPurged
