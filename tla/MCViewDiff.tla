----------------------------- MODULE MCViewDiff -----------------------------
(* An instance of ViewDiff for TLC: three keys; a cell that never moves and *)
(* one that changes, comes and goes. *)
EXTENDS ViewDiff

CONSTANTS k1, k2, k3, v1, v2

MCKeys == {k1, k2, k3}
MCCellStates == {"name" :> v1} \cup {"name" :> v1 @@ "note" :> v : v \in {v1, v2}}
=============================================================================
