SPECIFICATION Spec
CONSTANTS
  Conns = {c1}
  MaxGen = 1
  MaxRev = 2
  MaxIds = 1
  MaxDisc = 0
  MaxPosts = 0
  MaxQueue = 0
  Kinds = {}
INVARIANTS
  EveryDiffApplies
CHECK_DEADLOCK FALSE
