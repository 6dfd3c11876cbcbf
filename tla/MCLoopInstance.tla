--------------------------- MODULE MCLoopInstance ---------------------------
(* LoopInstance with two loops of the program, two connections and a timer. *)
EXTENDS LoopInstance, TLC

CONSTANTS l1, l2, conn1, conn2, timer

MCLoops == {l1, l2}
MCRemoving == {conn1, conn2}
MCClients == MCRemoving \cup {timer}
MCSymmetry == Permutations(MCLoops) \cup Permutations(MCRemoving)
=============================================================================
