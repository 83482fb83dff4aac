SPECIFICATION Spec
CONSTANTS
  k1 = k1
  k2 = k2
  k3 = k3
  v1 = v1
  v2 = v2
  Null = Null
  None = None
  Keys <- MCKeys
  CellStates <- MCCellStates
INVARIANT DrawnIsHeld
PROPERTY NoMoveUnlessReordered
