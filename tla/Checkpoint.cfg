SPECIFICATION Spec
CONSTANTS
  MaxGen = 3
  MaxBytes = 2
  MaxUpsets = 1
  RewriteAfter = 1
INVARIANTS
  TypeOK
  WarmIsCold
  CheckpointIsWhole
  LandingIsKept
CHECK_DEADLOCK FALSE
