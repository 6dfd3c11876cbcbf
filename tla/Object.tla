------------------------------- MODULE Object -------------------------------
(***************************************************************************)
(* Firmir::Object (core/firmir-object.cpp): events, subscriptions and what *)
(* the destructor undoes of them.                                          *)
(*                                                                         *)
(* connectTo notes a subscription twice: the emitter keeps the callbacks   *)
(* of each handler in m_subscribers, the handler keeps a pointer to the    *)
(* emitter in m_subscribtions. ~Object follows the second to erase the     *)
(* first. emitEvent copies the callbacks before it calls them; a callback  *)
(* may connect, emit, and destroy objects, the emitter included.           *)
(***************************************************************************)
EXTENDS Naturals, Sequences

CONSTANTS
    Objects,
    Events,
    MaxCallbacks,  \* bound on the callbacks of one handler for one event
    MaxDepth       \* bound on emissions inside callbacks of emissions

ASSUME BoundAssumption == MaxCallbacks \in Nat /\ MaxDepth \in Nat

VARIABLES
    life,            \* "new", "alive" or "gone"
    m_subscribers,   \* per emitter, event and handler: how many callbacks
    m_subscribtions, \* per handler: the emitters it points to
    emissions,       \* the emitEvent calls on the stack
    orderly,         \* every object so far outlived the handlers of its events
    dangling         \* destroyed objects whose members were used

vars == <<life, m_subscribers, m_subscribtions, emissions, orderly, dangling>>

Counts == [Objects -> 0 .. MaxCallbacks]

\* An emission: the callbacks of its copy that are still to be called, and the
\* handler whose callback is running, if one is.
Emission == [copy : Counts, busy : BOOLEAN]

TypeOK ==
    /\ life \in [Objects -> {"new", "alive", "gone"}]
    /\ m_subscribers \in [Objects -> [Events -> Counts]]
    /\ m_subscribtions \in [Objects -> SUBSET Objects]
    /\ emissions \in Seq(Emission)
    /\ orderly \in BOOLEAN
    /\ dangling \subseteq Objects

NoCallbacks == [h \in Objects |-> 0]

Init ==
    /\ life = [o \in Objects |-> "new"]
    /\ m_subscribers = [o \in Objects |-> [e \in Events |-> NoCallbacks]]
    /\ m_subscribtions = [o \in Objects |-> {}]
    /\ emissions = <<>>
    /\ orderly = TRUE
    /\ dangling = {}

Alive(o) == life[o] = "alive"

\* Program code runs: outside all emissions, or in a callback of the last one.
CodeRuns == emissions # <<>> => emissions[Len(emissions)].busy

Create(o) ==
    /\ CodeRuns
    /\ life[o] = "new"
    /\ life' = [life EXCEPT ![o] = "alive"]
    /\ UNCHANGED <<m_subscribers, m_subscribtions, emissions, orderly, dangling>>

\* Mutation: the pointer is noted on the emitter instead of the handler.
ConnectBackwards(o, e, h) ==
    /\ CodeRuns
    /\ Alive(o) /\ Alive(h)
    /\ m_subscribers[o][e][h] < MaxCallbacks
    /\ m_subscribers' = [m_subscribers EXCEPT ![o][e][h] = @ + 1]
    /\ m_subscribtions' = [m_subscribtions EXCEPT ![o] = @ \cup {h}]
    /\ UNCHANGED <<life, emissions, orderly, dangling>>

\* connectTo: the callback is appended, both sides note the subscription.
Connect(o, e, h) ==
    /\ CodeRuns
    /\ Alive(o) /\ Alive(h)
    /\ m_subscribers[o][e][h] < MaxCallbacks
    /\ m_subscribers' = [m_subscribers EXCEPT ![o][e][h] = @ + 1]
    /\ m_subscribtions' = [m_subscribtions EXCEPT ![h] = @ \cup {o}]
    /\ UNCHANGED <<life, emissions, orderly, dangling>>

\* emitEvent: the copy holds the callbacks of every handler of the event.
Emit(o, e) ==
    /\ CodeRuns
    /\ Alive(o)
    /\ m_subscribers[o][e] # NoCallbacks
    /\ Len(emissions) < MaxDepth
    /\ emissions' = Append(emissions, [copy |-> m_subscribers[o][e], busy |-> FALSE])
    /\ UNCHANGED <<life, m_subscribers, m_subscribtions, orderly, dangling>>

ReplaceTop(em) == emissions' = [emissions EXCEPT ![Len(emissions)] = em]

\* The next callback of the copy is called. The handlers come in the order of
\* an unordered_map: any.
Call(h) ==
    /\ ~CodeRuns
    /\ LET copy == emissions[Len(emissions)].copy
       IN  /\ copy[h] > 0
           /\ ReplaceTop([copy |-> [copy EXCEPT ![h] = @ - 1], busy |-> TRUE])
    /\ UNCHANGED <<life, m_subscribers, m_subscribtions, orderly, dangling>>

\* A callback returns; after the last one emitEvent returns.
Return ==
    /\ emissions # <<>> /\ CodeRuns
    /\ LET copy == emissions[Len(emissions)].copy
       IN  \/ /\ copy = NoCallbacks
              /\ emissions' = SubSeq(emissions, 1, Len(emissions) - 1)
           \/ /\ copy # NoCallbacks
              /\ ReplaceTop([copy |-> copy, busy |-> FALSE])
    /\ UNCHANGED <<life, m_subscribers, m_subscribtions, orderly, dangling>>

Handlers(o) == {h \in Objects : \E e \in Events : m_subscribers[o][e][h] > 0}

\* Mutation: one callback is taken away per event instead of all.
DisconnectedOne(h) ==
    [o \in Objects |->
        IF o \in m_subscribtions[h]
        THEN [e \in Events |-> [m_subscribers[o][e] EXCEPT ![h] = @ - 1]]
        ELSE m_subscribers[o]]

\* Mutation: the callbacks of one event only are erased.
DisconnectedFirst(h) ==
    [o \in Objects |->
        IF o \in m_subscribtions[h]
        THEN [m_subscribers[o] EXCEPT ![CHOOSE e \in Events : TRUE][h] = 0]
        ELSE m_subscribers[o]]

\* ~Object: through each pointer of m_subscribtions the callbacks of this
\* handler are erased, for every event. Nothing is erased from the pointers
\* of those who handle this object's own events.
Disconnected(h) ==
    [o \in Objects |->
        IF o \in m_subscribtions[h]
        THEN [e \in Events |-> [m_subscribers[o][e] EXCEPT ![h] = 0]]
        ELSE m_subscribers[o]]

Destroy(h) ==
    /\ CodeRuns
    /\ Alive(h)
    /\ m_subscribers' = Disconnected(h)
    /\ dangling' = dangling \cup {o \in m_subscribtions[h] : ~Alive(o)}
    /\ life' = [life EXCEPT ![h] = "gone"]
    /\ orderly' = (orderly /\ \A x \in Handlers(h) \ {h} : ~Alive(x))
    /\ UNCHANGED <<m_subscribtions, emissions>>

Next == \/ Return
        \/ \E o \in Objects : Create(o) \/ Destroy(o) \/ Call(o)
        \/ \E o, h \in Objects, e \in Events : Connect(o, e, h)
        \/ \E o \in Objects, e \in Events : Emit(o, e)

Spec == Init /\ [][Next]_vars

----------------------------------------------------------------------------
(* Properties *)

\* A live object holds callbacks of live handlers only, so an emission that
\* begins now calls nobody who is gone already.
LiveHandlersOnly ==
    \A o, h \in Objects, e \in Events :
        Alive(o) /\ m_subscribers[o][e][h] > 0 => Alive(h)

\* As long as no object is destroyed before the handlers of its events, no
\* destructor follows a pointer to a destroyed object.
OrderlyIsSafe == orderly => dangling = {}

\* No destructor ever follows a pointer to a destroyed object, in whatever
\* order objects go, a callback that removes its emitter included.
NeverDangling == dangling = {}

============================================================================
