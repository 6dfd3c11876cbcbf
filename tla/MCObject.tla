------------------------------ MODULE MCObject ------------------------------
(***************************************************************************)
(* Three objects with two events, one callback of each handler for each.   *)
(***************************************************************************)
EXTENDS Object, TLC

CONSTANTS o1, o2, o3, e1, e2

MCObjects == {o1, o2, o3}
MCEvents  == {e1, e2}
Sym       == Permutations(MCObjects) \cup Permutations(MCEvents)

============================================================================
