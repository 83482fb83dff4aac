SPECIFICATION FairSpec
CONSTANTS
  Conns = {c1}
  MaxGen = 2
  MaxRev = 1
  MaxIds = 0
  MaxDisc = 0
  MaxPosts = 2
  MaxQueue = 0
  Kinds = {"ask", "mark"}
INVARIANTS
  DoorsBelongToOwner
  MarksReachOnlyLiveFolds
PROPERTIES
  PostsAreDrained
  AttachSettles
CHECK_DEADLOCK FALSE
