--------------------------- MODULE MCConnection ---------------------------
(***************************************************************************)
(* Small instances of Connection. Three serials serve four messages, so    *)
(* nextSerial wraps around, over an entry that a one-way message keeps     *)
(* forever and over entries that still wait.                               *)
(***************************************************************************)
EXTENDS Connection, TLC

CONSTANTS c1, c2, c3

MCCalls  == {c1, c2, c3}
MCTwo    == {c1, c3}
MCOneway == {c3}
Sym      == Permutations({c1, c2})

============================================================================
