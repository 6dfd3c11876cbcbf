---------------------------- MODULE LoopInstance ----------------------------
(***************************************************************************)
(* Which loop EventLoop::instance() is (core/event-loop.cpp): the two      *)
(* globals of Singleton, the constructor that claims extValue, the         *)
(* destructor that does not give it up, and the objects that find their    *)
(* loop through instance() when they are made, and a second time when a    *)
(* Connection is destroyed. EventLoop.tla models one loop; this module     *)
(* says which one the objects of a program are at.                         *)
(*                                                                         *)
(* The program is one thread. What it has entered and not left is a stack: *)
(* its objects, with the scopes of C++ destroyed last first, its calls of  *)
(* exec(), and the callbacks that exec() makes.                            *)
(***************************************************************************)
EXTENDS Naturals, Sequences

CONSTANTS
    Loops,     \* loops the program declares
    Own,       \* the loop instance() makes, Singleton::value
    Clients,   \* objects that register a descriptor: connections and timers
    Removing,  \* those that deregister it when destroyed: the connections
    Unset,     \* extValue holds no value
    Null,      \* extValue holds nullptr
    None,
    MaxDepth   \* bound on the stack

ASSUME NamesAssumption ==
    /\ Own \notin Loops /\ {Unset, Null, None} \cap (Loops \cup {Own} \cup Clients) = {}
    /\ Unset # Null
    /\ Loops \cap Clients = {} /\ Own \notin Clients
    /\ Removing \subseteq Clients
ASSUME DepthAssumption == MaxDepth \in Nat

VARIABLES
    extValue,  \* Singleton::extValue
    hasOwn,    \* Singleton::value is made
    life,      \* "new", "alive" or "gone", of loops and clients
    entry,     \* the loop the client's descriptor was added to and not
               \* removed from, or None
    running,   \* the loops whose EventLoopPrivate::running is set
    stack,
    dangled    \* instance() was used and is a loop that is destroyed

globals == <<extValue, hasOwn>>
vars == <<globals, life, entry, running, stack, dangled>>

AnyLoop == Loops \cup {Own}
Item == [kind : {"object"}, of : Loops \cup Clients]
            \cup [kind : {"exec"}, of : AnyLoop] \cup [kind : {"call"}, of : Clients]

Init ==
    /\ extValue = Unset /\ hasOwn = FALSE
    /\ life = [o \in Loops \cup Clients |-> "new"]
    /\ entry = [c \in Clients |-> None]
    /\ running = {} /\ stack = <<>> /\ dangled = FALSE

----------------------------------------------------------------------------
(* instance() *)

\* What instance() returns; made now if it is Own and there is none yet.
Instance == IF extValue \in Loops THEN extValue ELSE Own

\* The globals after a call of instance(). The optional is given a value
\* before Own is made, so Own's constructor leaves it alone.
EngagedByOwn == IF extValue = Unset THEN Own ELSE extValue
Engaged == IF extValue = Unset THEN Null ELSE extValue
CallInstance ==
    /\ extValue' = Engaged
    /\ hasOwn' = (hasOwn \/ Instance = Own)

Alive(l) == IF l = Own THEN hasOwn ELSE life[l] = "alive"
\* The reference instance() returns is to a loop that can be used.
Usable == Instance \in Loops => Alive(Instance)

\* A use of a loop that is gone. Nothing is said of what the program does then.
Dangle == ~Usable /\ dangled' = TRUE

----------------------------------------------------------------------------
(* The program *)

Top == stack[Len(stack)]
Enter(kind, o) ==
    /\ Len(stack) < MaxDepth
    /\ stack' = Append(stack, [kind |-> kind, of |-> o])
Leave == stack' = SubSeq(stack, 1, Len(stack) - 1)

\* Code of the program runs: main, or a callback.
CodeRuns == ~dangled /\ (stack # <<>> => Top.kind # "exec")

\* EventLoop::EventLoop
ClaimAlways(l) == extValue' = l
Claim(l) == extValue' = IF extValue = Unset THEN l ELSE extValue
ConstructLoop(l) ==
    /\ CodeRuns /\ life[l] = "new"
    /\ Enter("object", l)
    /\ life' = [life EXCEPT ![l] = "alive"]
    /\ Claim(l)
    /\ UNCHANGED <<hasOwn, entry, running, dangled>>

\* EventLoop::~EventLoop
GiveUp == extValue' = Unset
Keep == UNCHANGED extValue
DestroyLoop(l) ==
    /\ CodeRuns /\ stack # <<>> /\ Top = [kind |-> "object", of |-> l]
    /\ Leave
    /\ life' = [life EXCEPT ![l] = "gone"]
    /\ running' = running \ {l}
    /\ Keep
    /\ UNCHANGED <<hasOwn, entry, dangled>>

\* Connection's and Timer's constructors: addEvent at the instance.
ConstructClient(c) ==
    /\ CodeRuns /\ life[c] = "new"
    /\ Enter("object", c)
    /\ life' = [life EXCEPT ![c] = "alive"]
    /\ CallInstance
    /\ \/ /\ Usable /\ entry' = [entry EXCEPT ![c] = Instance]
          /\ UNCHANGED dangled
       \/ Dangle /\ UNCHANGED entry
    /\ UNCHANGED running

\* socket() or connect() failed, or timerfd_create(): nothing is registered.
ConstructFailing(c) ==
    /\ CodeRuns /\ life[c] = "new"
    /\ Enter("object", c)
    /\ life' = [life EXCEPT ![c] = "alive"]
    /\ UNCHANGED <<globals, entry, running, dangled>>

\* removeEvent at the instance of now does nothing if the descriptor is not there.
Deregister(c) ==
    /\ CallInstance
    /\ \/ /\ Usable
          /\ entry' = [entry EXCEPT ![c] = IF @ = Instance THEN None ELSE @]
          /\ UNCHANGED dangled
       \/ Dangle /\ UNCHANGED entry

DestroyClient(c) ==
    /\ CodeRuns /\ stack # <<>> /\ Top = [kind |-> "object", of |-> c]
    /\ Leave
    /\ life' = [life EXCEPT ![c] = "gone"]
    /\ \/ c \in Removing /\ Deregister(c)
       \/ \* socket() failed, or a timer: no call of instance()
          /\ c \notin Removing \/ entry[c] = None
          /\ UNCHANGED <<globals, entry, dangled>>
    /\ UNCHANGED running

----------------------------------------------------------------------------
(* Loops run *)

\* exec() of a loop of the program, or of instance().
Exec(l) ==
    /\ CodeRuns /\ Enter("exec", l)
    /\ running' = running \cup {l}
    /\ \/ l \in Loops /\ Alive(l) /\ UNCHANGED globals
       \/ l = Instance /\ Usable /\ CallInstance
    /\ UNCHANGED <<life, entry, dangled>>

\* exec() calls onRead of a descriptor of its table, the last ones of an array
\* after quit() too. A destroyed timer's descriptor is closed and never ready.
Callback(c) ==
    /\ ~dangled /\ stack # <<>> /\ Top.kind = "exec"
    /\ entry[c] = Top.of /\ life[c] = "alive"
    /\ Enter("call", c)
    /\ UNCHANGED <<globals, life, entry, running, dangled>>

CallbackReturns ==
    /\ CodeRuns /\ stack # <<>> /\ Top.kind = "call"
    /\ Leave
    /\ UNCHANGED <<globals, life, entry, running, dangled>>

ExecReturns ==
    /\ ~dangled /\ stack # <<>> /\ Top.kind = "exec" /\ Top.of \notin running
    /\ Leave
    /\ UNCHANGED <<globals, life, entry, running, dangled>>

\* EventLoop::instance().quit()
Quit ==
    /\ CodeRuns
    /\ CallInstance
    /\ \/ Usable /\ running' = running \ {Instance} /\ UNCHANGED dangled
       \/ Dangle /\ UNCHANGED running
    /\ UNCHANGED <<life, entry, stack>>

Next ==
    \/ \E l \in Loops : ConstructLoop(l) \/ DestroyLoop(l)
    \/ \E c \in Clients : \/ ConstructClient(c) \/ ConstructFailing(c)
                          \/ DestroyClient(c) \/ Callback(c)
    \/ \E l \in AnyLoop : Exec(l)
    \/ CallbackReturns \/ ExecReturns \/ Quit

Spec == Init /\ [][Next]_vars

----------------------------------------------------------------------------
(* Properties *)

\* The types of the state. extValue is never the loop instance() made.
TypeOK ==
    /\ extValue \in Loops \cup {Unset, Null} /\ hasOwn \in BOOLEAN
    /\ life \in [Loops \cup Clients -> {"new", "alive", "gone"}]
    /\ entry \in [Clients -> AnyLoop \cup {None}]
    /\ running \subseteq AnyLoop
    /\ stack \in Seq(Item) /\ Len(stack) <= MaxDepth
    /\ dangled \in BOOLEAN

\* Once the globals say which loop instance() is, because a loop claimed it or
\* one was made, no loop that is declared or destroyed later changes that.
InstanceIsStable ==
    [][extValue # Unset => Instance' = Instance]_vars

\* A callback is made by the loop that instance() returns in it, which is
\* alive: the quit() a callback sends to instance() reaches the exec() that
\* called it, whichever loops the program declared, runs and destroyed.
CallbacksAtTheInstance ==
    \A i \in 1 .. Len(stack) : stack[i].kind = "call" =>
        stack[i - 1] = [kind |-> "exec", of |-> Instance] /\ Alive(Instance)

\* An object does not outlive the loop it was added to, though it may be older
\* than all the loops a program declares; and a connection's destructor, which
\* asks instance() again, finds that loop: none keeps a callback of a
\* connection that is gone.
RemovedWhereAdded ==
    \A c \in Clients : entry[c] # None =>
        /\ life[c] = "alive" => Alive(entry[c])
        /\ c \in Removing => life[c] = "alive"
=============================================================================
