----------------------------- MODULE MCFraming -----------------------------
(***************************************************************************)
(* A small instance of Framing: headers of two bytes, padded to two, and   *)
(* messages whose fields end on the boundary and before it, with and       *)
(* without a body, and one malformed message of each kind.                 *)
(***************************************************************************)
EXTENDS Framing

MCKinds == { [fields |-> 0, body |-> 0, bad |-> "no"],
             [fields |-> 1, body |-> 1, bad |-> "no"],
             [fields |-> 2, body |-> 0, bad |-> "no"],
             [fields |-> 1, body |-> 0, bad |-> "version"],
             [fields |-> 1, body |-> 0, bad |-> "fields"] }

============================================================================
