SPECIFICATION FairSpec
CONSTANTS
  Conns = {c1}
  MaxGen = 2
  MaxRev = 1
  MaxIds = 1
  MaxDisc = 0
  MaxPosts = 0
  MaxQueue = 1
  Kinds = {}
INVARIANTS
  TypeOK
  StatusIsOwners
  RowsAreOfTheirEpoch
  DiffsStayInTheirEpoch
  WindowsInStep
PROPERTIES
  LoserWritesNothing
  WindowsConverge
CHECK_DEADLOCK FALSE
