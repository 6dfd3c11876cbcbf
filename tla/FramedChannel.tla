--------------------------- MODULE FramedChannel ---------------------------
(***************************************************************************)
(* What the framing of a D-Bus stream promises: a queue of messages. What  *)
(* the bus puts in comes out whole, once and in order, until the channel   *)
(* breaks; a malformed message never comes out. Framing.tla implements it. *)
(***************************************************************************)
EXTENDS Sequences

CONSTANTS Kinds,     \* the messages
          WellFormed \* those that the reader accepts

VARIABLES queue,     \* put in and not taken out
          taken,     \* taken out, in order
          up

channelVars == <<queue, taken, up>>

Init == queue = <<>> /\ taken = <<>> /\ up = TRUE

Put(m) == queue' = Append(queue, m) /\ UNCHANGED <<taken, up>>

Take == /\ up
        /\ queue # <<>> /\ Head(queue) \in WellFormed
        /\ taken' = Append(taken, Head(queue))
        /\ queue' = Tail(queue)
        /\ UNCHANGED up

Break == up' = FALSE /\ UNCHANGED <<queue, taken>>

Next == (\E m \in Kinds : Put(m)) \/ Take \/ Break

Spec == Init /\ [][Next]_channelVars

============================================================================
