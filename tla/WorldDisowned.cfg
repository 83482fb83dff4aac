SPECIFICATION Spec
CONSTANTS
  Conns = {c1}
  MaxGen = 2
  MaxRev = 1
  MaxIds = 0
  MaxDisc = 0
  MaxPosts = 1
  MaxQueue = 0
  Kinds = {"ask"}
PROPERTIES
  NoDisownedAnswer
CHECK_DEADLOCK FALSE
