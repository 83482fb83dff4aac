SPECIFICATION Spec
CONSTANTS
  Conns = {c1}
  MaxGen = 1
  MaxRev = 1
  MaxIds = 0
  MaxDisc = 0
  MaxPosts = 1
  MaxQueue = 0
  Kinds = {"define"}
INVARIANTS
  LatestDefineIsTaken
CHECK_DEADLOCK FALSE
