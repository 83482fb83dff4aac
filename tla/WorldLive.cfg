SPECIFICATION FairSpec
CONSTANTS
  Conns = {c1}
  MaxGen = 1
  MaxRev = 2
  MaxIds = 2
  MaxDisc = 1
  MaxPosts = 0
  MaxQueue = 1
  Kinds = {}
INVARIANTS
  WindowsInStep
PROPERTIES
  WindowsConverge
CHECK_DEADLOCK FALSE
