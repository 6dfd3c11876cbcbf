----------------------------- MODULE EventLoop -----------------------------
(***************************************************************************)
(* Firmir::EventLoop (core/event-loop.cpp): the table of callbacks, the    *)
(* epoll set, exec() and quit(), with the objects that register a          *)
(* descriptor and the program whose callbacks the loop calls.              *)
(*                                                                         *)
(* A source is an object that owns a descriptor. ConnectionPrivate removes *)
(* its entry when it is destroyed; TimerPrivate only closes its descriptor *)
(* (the kernel then drops it from the epoll set) and leaves the entry.     *)
(*                                                                         *)
(* exec() may be called again from a callback, so the loop's thread is a   *)
(* stack of frames, one per running exec(). Program code runs below the    *)
(* first exec() and inside callbacks. Another thread may call quit().      *)
(***************************************************************************)
EXTENDS Naturals, Sequences

CONSTANTS
    Sources,   \* objects that register a descriptor with the loop
    Removing,  \* those of Sources that call removeEvent when destroyed
    Fds,       \* descriptor numbers; with the wake fd at most the 64 of exec()
    Wake,      \* the descriptor made by addWakeFd
    None,
    MaxDepth   \* bound on nested calls of exec()

ASSUME SourceAssumption == Removing \subseteq Sources /\ None \notin Sources
ASSUME FdAssumption     == Wake \notin Fds /\ None \notin Fds
ASSUME DepthAssumption  == MaxDepth \in Nat

VARIABLES
    events,    \* EventLoopPrivate::events: whose callback each fd calls
    interest,  \* descriptors in the epoll set
    fdOf,      \* the open descriptor of each source
    life,      \* "new", "alive" or "gone"
    ready,     \* sources whose descriptor is readable
    hasWake,   \* wakeFd >= 0
    woken,     \* the wake fd is readable
    running,   \* EventLoopPrivate::running
    stack,     \* running calls of exec()
    quitter,   \* how far another thread is in quit(): 0, or 1 after its store
    touched    \* destroyed sources whose callback the loop has called

registry  == <<events, interest, fdOf, life>>
loopState == <<hasWake, woken, running, stack>>
vars == <<registry, ready, loopState, quitter, touched>>

\* A frame: exec() is in epoll_wait; what is left of the array epoll_wait
\* filled; the source whose callback runs. The array's order is the kernel's,
\* so any element is next.
Frame == [waiting : BOOLEAN, batch : SUBSET (Fds \cup {Wake}), in : Sources \cup {None}]

TypeOK ==
    /\ events \in [Fds -> Sources \cup {None}]
    /\ interest \subseteq Fds
    /\ fdOf \in [Sources -> Fds \cup {None}]
    /\ life \in [Sources -> {"new", "alive", "gone"}]
    /\ ready \subseteq Sources
    /\ hasWake \in BOOLEAN /\ woken \in BOOLEAN /\ running \in BOOLEAN
    /\ stack \in Seq(Frame) /\ Len(stack) <= MaxDepth
    /\ quitter \in 0 .. 1
    /\ touched \subseteq Sources

Init ==
    /\ events = [f \in Fds |-> None]
    /\ interest = {}
    /\ fdOf = [o \in Sources |-> None]
    /\ life = [o \in Sources |-> "new"]
    /\ ready = {}
    /\ hasWake = FALSE /\ woken = FALSE /\ running = FALSE
    /\ stack = <<>> /\ quitter = 0 /\ touched = {}

Top == stack[Len(stack)]
ReplaceTop(frame) == stack' = [stack EXCEPT ![Len(stack)] = frame]

Alive(o) == life[o] = "alive"

\* The loop's thread executes code of the program.
CodeRuns == stack # <<>> => Top.in # None

----------------------------------------------------------------------------
(* Sources come and go *)

\* Mutation: an entry that is there already stays (emplace instead of []).
AddEventKeeps(f, o) ==
    /\ events' = IF events[f] = None THEN [events EXCEPT ![f] = o] ELSE events
    /\ interest' = interest \cup {f}

\* addEvent: the entry of the fd is overwritten, the fd joins the epoll set.
AddEvent(f, o) == /\ events' = [events EXCEPT ![f] = o]
                  /\ interest' = interest \cup {f}

\* The constructor opens a descriptor and registers it; a connection whose
\* connect() fails keeps the socket and registers nothing.
Create(o) ==
    /\ CodeRuns
    /\ life[o] = "new"
    /\ \E f \in Fds \ {fdOf[p] : p \in Sources} :
          /\ fdOf' = [fdOf EXCEPT ![o] = f]
          /\ \/ AddEvent(f, o)
             \/ o \in Removing /\ UNCHANGED <<events, interest>>
    /\ life' = [life EXCEPT ![o] = "alive"]
    /\ UNCHANGED <<ready, loopState, quitter, touched>>

\* Mutation: a destroyed connection does not call removeEvent.
ReleaseKeepsEntry(o) ==
    /\ life' = [life EXCEPT ![o] = "gone"]
    /\ fdOf' = [fdOf EXCEPT ![o] = None]
    /\ interest' = interest \ {fdOf[o]}
    /\ UNCHANGED events

\* Closing the descriptor takes it out of the epoll set. removeEvent erases
\* whatever entry the number has.
Release(o) ==
    /\ life' = [life EXCEPT ![o] = "gone"]
    /\ fdOf' = [fdOf EXCEPT ![o] = None]
    /\ interest' = interest \ {fdOf[o]}
    /\ events' = IF o \in Removing THEN [events EXCEPT ![fdOf[o]] = None] ELSE events

Destroy(o) ==
    /\ CodeRuns
    /\ Alive(o)
    /\ Release(o)
    /\ ready' = ready \ {o}
    /\ UNCHANGED <<loopState, quitter, touched>>

\* The kernel makes the descriptor of a source readable, or not readable any
\* more (timerfd_settime takes back an expiration nobody has read).
Arrive(o) ==
    /\ Alive(o)
    /\ ready' = ready \cup {o}
    /\ UNCHANGED <<registry, loopState, quitter, touched>>

Withdraw(o) ==
    /\ CodeRuns
    /\ o \in ready
    /\ ready' = ready \ {o}
    /\ UNCHANGED <<registry, loopState, quitter, touched>>

----------------------------------------------------------------------------
(* exec *)

\* exec(): "already running" is only reported; addWakeFd; running = true.
Exec ==
    /\ CodeRuns
    /\ Len(stack) < MaxDepth
    /\ stack' = Append(stack, [waiting |-> FALSE, batch |-> {}, in |-> None])
    /\ running' = TRUE
    /\ hasWake' = TRUE
    /\ UNCHANGED <<registry, ready, woken, quitter, touched>>

AtCheck == stack # <<>> /\ Top.in = None /\ Top.batch = {} /\ ~Top.waiting

\* while (running): epoll_wait is called, and what another thread stores in
\* "running" from now on is not seen until it returns.
Test ==
    /\ AtCheck /\ running
    /\ ReplaceTop([Top EXCEPT !.waiting = TRUE])
    /\ UNCHANGED <<registry, ready, hasWake, woken, running, quitter, touched>>

\* What epoll_wait finds.
Readable == {f \in interest : \E o \in ready : fdOf[o] = f}
            \cup (IF woken THEN {Wake} ELSE {})

\* epoll_wait has no timeout: it returns when a descriptor is readable.
Wait ==
    /\ stack # <<>> /\ Top.waiting
    /\ Readable # {}
    /\ ReplaceTop([waiting |-> FALSE, batch |-> Readable, in |-> None])
    /\ UNCHANGED <<registry, ready, hasWake, woken, running, quitter, touched>>

\* while (running) ends and exec returns to its caller.
ExecReturns ==
    /\ AtCheck /\ ~running
    /\ stack' = SubSeq(stack, 1, Len(stack) - 1)
    /\ UNCHANGED <<registry, ready, hasWake, woken, running, quitter, touched>>

InBatch(f) == stack # <<>> /\ Top.in = None /\ f \in Top.batch

\* The wake fd's callback reads the counter.
DispatchWake ==
    /\ InBatch(Wake)
    /\ woken' = FALSE
    /\ ReplaceTop([Top EXCEPT !.batch = @ \ {Wake}])
    /\ UNCHANGED <<registry, ready, hasWake, running, quitter, touched>>

\* "Event on strange fd triggered": the entry has gone since epoll_wait. Or
\* it belongs to a source that has nothing to read: the fd number was reused
\* since epoll_wait or a nested exec() has read it; its read would block.
DispatchNothing(f) ==
    /\ InBatch(f) /\ f \in Fds
    /\ events[f] # None => Alive(events[f]) /\ events[f] \notin ready
    /\ ReplaceTop([Top EXCEPT !.batch = @ \ {f}])
    /\ UNCHANGED <<registry, ready, hasWake, woken, running, quitter, touched>>

\* The onRead of the entry reads, all there is or a part, and the callback
\* of the program starts.
Dispatch(o) ==
    /\ Alive(o) /\ o \in ready
    /\ \E f \in Fds : /\ InBatch(f) /\ events[f] = o
                      /\ ReplaceTop([Top EXCEPT !.batch = @ \ {f}, !.in = o])
    /\ ready' \in {ready, ready \ {o}}
    /\ UNCHANGED <<registry, hasWake, woken, running, quitter, touched>>

\* Mutation: events.contains(fd) is not asked before the entry is used.
DispatchUnchecked(f) ==
    /\ InBatch(f) /\ f \in Fds
    /\ events[f] = None \/ ~Alive(events[f])
    /\ touched' = touched \cup {events[f]}
    /\ ReplaceTop([Top EXCEPT !.batch = @ \ {f}])
    /\ UNCHANGED <<registry, ready, hasWake, woken, running, quitter>>

\* The entry's source has been destroyed and left it behind: onRead runs with
\* a dangling "this".
DispatchDestroyed(f) ==
    /\ InBatch(f) /\ f \in Fds
    /\ events[f] # None /\ ~Alive(events[f])
    /\ touched' = touched \cup {events[f]}
    /\ ReplaceTop([Top EXCEPT !.batch = @ \ {f}])
    /\ UNCHANGED <<registry, ready, hasWake, woken, running, quitter>>

CallbackReturns ==
    /\ stack # <<>> /\ Top.in # None
    /\ ReplaceTop([Top EXCEPT !.in = None])
    /\ UNCHANGED <<registry, ready, hasWake, woken, running, quitter, touched>>

----------------------------------------------------------------------------
(* quit *)

\* Mutation: quit() wakes the loop before it stores "running".
QuitPartSwapped(k) ==
    CASE k = 1 -> running' = FALSE /\ UNCHANGED woken
      [] k = 0 -> woken' = (woken \/ hasWake) /\ UNCHANGED running

\* quit() stores "running" first and writes to the wake fd second.
QuitPart(k) ==
    CASE k = 0 -> running' = FALSE /\ UNCHANGED woken
      [] k = 1 -> woken' = (woken \/ hasWake) /\ UNCHANGED running

\* Called by the loop's own thread the two parts are one step.
Quit ==
    /\ CodeRuns
    /\ running' = FALSE
    /\ woken' = (woken \/ hasWake)
    /\ UNCHANGED <<registry, ready, hasWake, stack, quitter, touched>>

\* Called by another thread they are two.
QuitFromThread ==
    /\ QuitPart(quitter)
    /\ quitter' = 1 - quitter
    /\ UNCHANGED <<registry, ready, hasWake, stack, touched>>

----------------------------------------------------------------------------

LoopStep == \/ Test \/ Wait \/ ExecReturns \/ DispatchWake
            \/ \E f \in Fds : DispatchNothing(f) \/ DispatchDestroyed(f)
            \/ \E o \in Sources : Dispatch(o)

Next == \/ LoopStep \/ CallbackReturns
        \/ Exec \/ Quit \/ QuitFromThread
        \/ \E o \in Sources : Create(o) \/ Destroy(o) \/ Arrive(o) \/ Withdraw(o)

Spec == Init /\ [][Next]_vars

\* The loop's thread is scheduled, callbacks return however often they nest
\* loops, and a thread that has begun quit() ends it.
Fairness == /\ WF_vars(LoopStep)
            /\ SF_vars(CallbackReturns)
            /\ WF_vars(quitter = 1 /\ QuitFromThread)

FairSpec == Spec /\ Fairness

----------------------------------------------------------------------------
(* Properties *)

\* What epoll_wait can report has an entry, and the entry belongs to the live
\* source that has the descriptor open: entries left behind by timers, and
\* descriptor numbers used again, never confuse a fresh wait.
InterestRegistered ==
    \A f \in interest : \E o \in Sources : events[f] = o /\ Alive(o) /\ fdOf[o] = f

\* A source that calls removeEvent when it is destroyed is never called
\* afterwards, though its fd may still be in an array epoll_wait filled
\* before, in this exec() or in one further down the stack.
RemovedNeverCalled == touched \cap Removing = {}

\* After quit(), by a callback or another thread, every running exec()
\* returns, even when no descriptor ever becomes readable again.
QuitStops == (~running /\ stack # <<>>) ~> (stack = <<>> \/ running)

\* While the loop runs, a source that has something to read is called.
ReadyServed ==
    \A o \in Sources :
        (o \in ready /\ stack # <<>> /\ fdOf[o] \in interest)
            ~> (o \notin ready \/ stack = <<>> \/ \E d \in 1 .. Len(stack) : stack[d].in = o)

============================================================================
