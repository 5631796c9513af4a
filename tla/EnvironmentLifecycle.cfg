SPECIFICATION FairSpec
CONSTANTS
  Workers = {w1, w2}
  Envs = {e1, e2}
  Used = {e1}
  Names = {Lab, lab}
  None = None
INVARIANTS TypeOK NamesApart RecordAgrees NoUserLeft
PROPERTIES DeletedInTheEnd KeysFlow
CHECK_DEADLOCK FALSE
