---------------------------- MODULE CallPromise ----------------------------
(***************************************************************************)
(* What a D-Bus connection promises the program that owns it, without the  *)
(* socket, the serial numbers and the table of pending replies:            *)
(*   - the link rises through the handshake and the naming to "open", and  *)
(*     once it is down it stays down;                                      *)
(*   - a call is accepted only while the link is being named or is open,   *)
(*     at most once, and it is answered at most once, by the answer the    *)
(*     bus gave to that very call;                                         *)
(*   - nothing is accepted and nothing is answered after the link is down. *)
(* Connection.tla implements this specification.                           *)
(***************************************************************************)

CONSTANTS Calls      \* the messages the program sends through the connection

VARIABLES link,      \* "handshake", "naming", "open" or "down"
          outcome    \* what has become of each call

promiseVars == <<link, outcome>>

Unsent     == [phase |-> "unsent"]
Pending    == [phase |-> "pending"]
Answer(c)  == [phase |-> "answered", to |-> c]

Usable == link \in {"naming", "open"}

Init == link = "handshake" /\ outcome = [c \in Calls |-> Unsent]

Rise == /\ \/ link = "handshake" /\ link' = "naming"
           \/ link = "naming" /\ link' = "open"
        /\ UNCHANGED outcome

Fall == link' = "down" /\ UNCHANGED outcome

Submit(c) == /\ Usable
             /\ outcome[c] = Unsent
             /\ outcome' = [outcome EXCEPT ![c] = Pending]
             /\ UNCHANGED link

Finish(c) == /\ Usable
             /\ outcome[c] = Pending
             /\ outcome' = [outcome EXCEPT ![c] = Answer(c)]
             /\ UNCHANGED link

Next == Rise \/ Fall \/ \E c \in Calls : Submit(c) \/ Finish(c)

Spec == Init /\ [][Next]_promiseVars

============================================================================
