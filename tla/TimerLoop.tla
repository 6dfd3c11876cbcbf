----------------------------- MODULE TimerLoop -----------------------------
(***************************************************************************)
(* Firmir::Timer (core/firmir-timer.cpp) in an event loop whose sources    *)
(* are all timers: the settings of each timer, its timerfd in the kernel,  *)
(* and the Timeout events its onRead emits. Every step is a step of        *)
(* EventLoop, or leaves the loop alone.                                    *)
(*                                                                         *)
(* onRead reads the number of expirations since the last read and emits    *)
(* Timeout that many times; each runs program code, which may change, stop *)
(* or delete timers before the next. A timer made by the static            *)
(* Timer::singleShot deletes itself in its callback; nobody else has a     *)
(* pointer to it.                                                          *)
(***************************************************************************)
EXTENDS Integers, Sequences

CONSTANTS
    Timers,
    Intervals,        \* interval values in use; 0 is one the code treats apart
    Default,          \* the interval of a new timer
    MaxTicks,         \* bound on expirations the kernel counts before a read
    Fds, Wake, None, MaxDepth

ASSUME IntervalAssumption == Intervals \subseteq Nat /\ Default \in Intervals \ {0}
ASSUME TickAssumption == MaxTicks \in Nat
ASSUME LoopAssumption == None \notin Timers \cup Fds /\ Wake \notin Fds /\ MaxDepth \in Nat

VARIABLES
    events, interest, fdOf, life, ready, hasWake, woken, running, stack,
    quitter, touched,    \* the loop, see EventLoop
    singleShot, intervalMs, active,  \* the fields of TimerPrivate
    static,     \* made by Timer::singleShot
    armed,      \* the timerfd is "off", or will expire "once" or "periodic"
    ticks,      \* expirations of the timerfd not yet read
    left,       \* per running exec(): Timeouts onRead still has to emit
    gone,       \* timers whose onRead used "parent" after its destruction
    careful     \* no timer so far was destroyed while a running exec() needed it

loopVars  == <<events, interest, fdOf, life, ready, hasWake, woken, running, stack,
               quitter, touched>>
settings  == <<singleShot, intervalMs, active, static>>
kernel    == <<armed, ticks>>
vars      == <<loopVars, settings, kernel, left, gone, careful>>

Loop == INSTANCE EventLoop WITH Sources <- Timers, Removing <- {}

TypeOK ==
    /\ Loop!TypeOK
    /\ singleShot \in [Timers -> BOOLEAN]
    /\ intervalMs \in [Timers -> Intervals]
    /\ active \in [Timers -> BOOLEAN]
    /\ static \in [Timers -> BOOLEAN]
    /\ armed \in [Timers -> {"off", "once", "periodic"}]
    /\ ticks \in [Timers -> 0 .. MaxTicks]
    /\ left \in [1 .. MaxDepth -> 0 .. MaxTicks]
    /\ gone \subseteq Timers /\ careful \in BOOLEAN

Init ==
    /\ Loop!Init
    /\ singleShot = [t \in Timers |-> FALSE]
    /\ intervalMs = [t \in Timers |-> Default]
    /\ active = [t \in Timers |-> FALSE]
    /\ static = [t \in Timers |-> FALSE]
    /\ armed = [t \in Timers |-> "off"]
    /\ ticks = [t \in Timers |-> 0]
    /\ left = [d \in 1 .. MaxDepth |-> 0]
    /\ gone = {} /\ careful = TRUE

Depth == Len(stack)
Caller == IF stack = <<>> THEN None ELSE Loop!Top.in

\* Program code runs, and it is not the callback of a static timer that has
\* yet to delete its timer.
ProgramRuns == /\ Loop!CodeRuns
               /\ Caller # None => ~(static[Caller] /\ Loop!Alive(Caller))

----------------------------------------------------------------------------
(* Settings and the kernel's timer *)

\* Mutation: it_interval is set for single-shot timers too.
ArmedAgain(act, single, ms) == IF ~act \/ ms = 0 THEN "off" ELSE "periodic"

\* Mutation: it_interval is never set.
ArmedOnce(act, single, ms) == IF ~act \/ ms = 0 THEN "off" ELSE "once"

\* updateParams: timerfd_settime. A zero it_value disarms the timer; setting
\* it forgets expirations that were not read.
Armed(act, single, ms) == IF ~act \/ ms = 0 THEN "off"
                          ELSE IF single THEN "once" ELSE "periodic"

\* Mutation: expirations not yet read survive.
UpdateParamsKeepsTicks(t) ==
    /\ armed' = [armed EXCEPT ![t] = Armed(active'[t], singleShot'[t], intervalMs'[t])]
    /\ UNCHANGED <<ticks, loopVars>>

UpdateParams(t) ==
    /\ armed' = [armed EXCEPT ![t] = Armed(active'[t], singleShot'[t], intervalMs'[t])]
    /\ ticks' = [ticks EXCEPT ![t] = 0]
    /\ IF t \in ready THEN Loop!Withdraw(t) ELSE UNCHANGED loopVars

\* Mutation: the setters forget updateParams.
NeverUpdate(t) == UNCHANGED <<kernel, loopVars>>

\* Timer's setters reach the kernel only while the timer is active.
IfActive(t) == IF active[t] THEN UpdateParams(t) ELSE UNCHANGED <<kernel, loopVars>>

Owned(t) == ProgramRuns /\ Loop!Alive(t) /\ ~static[t]

SetSingleShot(t, value) ==
    /\ Owned(t)
    /\ singleShot' = [singleShot EXCEPT ![t] = value]
    /\ UNCHANGED <<intervalMs, active, static, left, gone, careful>>
    /\ IfActive(t)

SetIntervalMs(t, value) ==
    /\ Owned(t)
    /\ intervalMs[t] # value
    /\ intervalMs' = [intervalMs EXCEPT ![t] = value]
    /\ UNCHANGED <<singleShot, active, static, left, gone, careful>>
    /\ IfActive(t)

\* start() and stop(). A single-shot timer that has fired is still active, so
\* start() returns early.
SetActive(t, value) ==
    /\ Owned(t)
    /\ active[t] # value
    /\ active' = [active EXCEPT ![t] = value]
    /\ UNCHANGED <<singleShot, intervalMs, static, left, gone, careful>>
    /\ UpdateParams(t)

New(t) ==
    /\ ProgramRuns
    /\ Loop!Create(t)
    /\ UNCHANGED <<settings, kernel, left, gone, careful>>

\* Mutation: Timer::singleShot does not call start().
StaticNotStarted(t, ms) ==
    /\ ProgramRuns
    /\ Loop!Create(t)
    /\ singleShot' = [singleShot EXCEPT ![t] = TRUE]
    /\ intervalMs' = [intervalMs EXCEPT ![t] = ms]
    /\ static' = [static EXCEPT ![t] = TRUE]
    /\ UNCHANGED <<active, kernel, left, gone, careful>>

\* Timer::singleShot(ms, callback)
StaticSingleShot(t, ms) ==
    /\ ProgramRuns
    /\ Loop!Create(t)
    /\ singleShot' = [singleShot EXCEPT ![t] = TRUE]
    /\ intervalMs' = [intervalMs EXCEPT ![t] = ms]
    /\ active' = [active EXCEPT ![t] = TRUE]
    /\ static' = [static EXCEPT ![t] = TRUE]
    /\ armed' = [armed EXCEPT ![t] = Armed(TRUE, TRUE, ms)]
    /\ UNCHANGED <<ticks, left, gone, careful>>

\* ~TimerPrivate closes the timerfd; the fields die with the object.
Close(t) ==
    /\ Loop!Destroy(t)
    /\ active' = [active EXCEPT ![t] = FALSE]
    /\ armed' = [armed EXCEPT ![t] = "off"]
    /\ ticks' = [ticks EXCEPT ![t] = 0]
    /\ singleShot' = [singleShot EXCEPT ![t] = FALSE]
    /\ intervalMs' = [intervalMs EXCEPT ![t] = Default]
    /\ static' = [static EXCEPT ![t] = FALSE]
    /\ UNCHANGED <<left, gone>>

\* The array of the d-th running exec() has an event of t that is still to be
\* dispatched.
Listed(t, d) == fdOf[t] \in stack[d].batch

\* A running exec() still needs t: its array lists t, or it has called t's
\* onRead, which has more Timeouts to emit.
InUse(t) == \E d \in 1 .. Depth : Listed(t, d) \/ (stack[d].in = t /\ left[d] > 0)

Delete(t) ==
    /\ Owned(t)
    /\ Close(t)
    /\ careful' = (careful /\ ~InUse(t))

\* The callback of a static timer begins with "delete timer". What the program
\* answers for is only that it nests loops: an exec() further down the stack
\* may list the timer.
StaticDelete(t) ==
    /\ Caller = t /\ static[t] /\ Loop!Alive(t)
    /\ Close(t)
    /\ careful' = (careful /\ \A d \in 1 .. Depth - 1 : ~Listed(t, d))

\* The kernel: an armed timer expires.
Expire(t) ==
    /\ armed[t] # "off"
    /\ ticks[t] < MaxTicks
    /\ ticks' = [ticks EXCEPT ![t] = @ + 1]
    /\ armed' = [armed EXCEPT ![t] = IF @ = "once" THEN "off" ELSE @]
    /\ Loop!Arrive(t)
    /\ UNCHANGED <<settings, left, gone, careful>>

----------------------------------------------------------------------------
(* onRead *)

\* read() returns the expirations and resets them; the first Timeout is
\* emitted and its callback starts.
Read(t) ==
    /\ Loop!Dispatch(t) /\ ready' = ready \ {t}
    /\ ticks' = [ticks EXCEPT ![t] = 0]
    /\ left' = [left EXCEPT ![Depth] = ticks[t] - 1]
    /\ UNCHANGED <<settings, armed, gone, careful>>

\* Mutation: one Timeout too many ("i <= expirations").
EmitOneMore ==
    /\ ProgramRuns /\ Caller # None
    /\ left[Depth] >= 0
    /\ IF Loop!Alive(Caller)
       THEN left' = [left EXCEPT ![Depth] = @ - 1] /\ UNCHANGED gone
       ELSE left' = [left EXCEPT ![Depth] = 0] /\ gone' = gone \cup {Caller}
    /\ UNCHANGED <<loopVars, settings, kernel, careful>>

\* The callback has returned and "i < expirations" still holds: the next
\* Timeout is emitted through this->parent.
EmitNext ==
    /\ ProgramRuns /\ Caller # None
    /\ left[Depth] > 0
    /\ IF Loop!Alive(Caller)
       THEN left' = [left EXCEPT ![Depth] = @ - 1] /\ UNCHANGED gone
       ELSE left' = [left EXCEPT ![Depth] = 0] /\ gone' = gone \cup {Caller}
    /\ UNCHANGED <<loopVars, settings, kernel, careful>>

Return ==
    /\ ProgramRuns /\ Caller # None
    /\ left[Depth] = 0
    /\ Loop!CallbackReturns
    /\ UNCHANGED <<settings, kernel, left, gone, careful>>

\* The steps of the loop that concern no timer's state.
LoopOnly ==
    /\ \/ Loop!Test \/ Loop!Wait \/ Loop!ExecReturns \/ Loop!DispatchWake \/ Loop!QuitFromThread
       \/ \E f \in Fds : Loop!DispatchNothing(f) \/ Loop!DispatchDestroyed(f)
       \/ ProgramRuns /\ (Loop!Exec \/ Loop!Quit)
    /\ UNCHANGED <<settings, kernel, left, gone, careful>>

Next ==
    \/ LoopOnly \/ EmitNext \/ Return
    \/ \E t \in Timers :
          \/ New(t) \/ Delete(t) \/ StaticDelete(t) \/ Expire(t) \/ Read(t)
          \/ \E v \in BOOLEAN : SetSingleShot(t, v) \/ SetActive(t, v)
          \/ \E ms \in Intervals : SetIntervalMs(t, ms) \/ StaticSingleShot(t, ms)

Spec == Init /\ [][Next]_vars

\* Time passes, the loop is scheduled, callbacks return.
Fairness ==
    /\ \A t \in Timers : WF_vars(Expire(t)) /\ WF_vars(StaticDelete(t))
    /\ WF_vars(LoopOnly /\ Loop!LoopStep) /\ \A t \in Timers : WF_vars(Read(t))
    /\ SF_vars(EmitNext) /\ SF_vars(Return)
    /\ WF_vars(quitter = 1 /\ LoopOnly /\ Loop!QuitFromThread)

FairSpec == Spec /\ Fairness

----------------------------------------------------------------------------
(* Properties *)

\* The kernel's timer is armed as the fields say, and a timer that is not
\* active has no expiration left to report, whatever the order of start(),
\* stop(), the setters and their early returns. An active timer may be off: one
\* with the interval 0, or one that was single-shot and has fired.
KernelAgrees ==
    \A t \in Timers :
        /\ ~active[t] => armed[t] = "off" /\ ticks[t] = 0
        /\ armed[t] # "off" => armed[t] = Armed(active[t], singleShot[t], intervalMs[t])
        /\ active[t] /\ ~singleShot[t] /\ intervalMs[t] # 0 => armed[t] = "periodic"

\* stop() takes effect on what onRead has not read, not on what it has: while
\* a timer is stopped no call of its onRead begins to emit, though its fd may
\* be in the array of an exec(), and the calls that are running emit at most
\* the Timeouts that were due when it was stopped.
StoppedOnlyDrains ==
    [][\A t \in Timers : ~active[t] =>
          \A d \in 1 .. Depth' : stack'[d].in = t =>
              d <= Depth /\ stack[d].in = t /\ left'[d] <= left[d]]_vars

\* Neither the loop nor onRead uses a destroyed timer, however loops nest and
\* callbacks delete timers, if the program deletes none that a running exec()
\* still needs. The timers of Timer::singleShot, which delete themselves with
\* their onRead on the stack, are safe but for loops run in callbacks.
NothingDestroyedIsUsed == careful => touched = {} /\ gone = {}

\* A timer that stays active and periodic, with an interval other than 0, in
\* a loop that keeps running fires again and again, unless the program keeps
\* changing its settings: each change forgets an expiration not yet read.
Periodic(t) == active[t] /\ ~singleShot[t] /\ intervalMs[t] # 0
PeriodicFires ==
    \A t \in Timers :
        /\ <>[](Periodic(t) /\ Depth > 0)
        /\ <>[][ticks'[t] < ticks[t] => Caller' = t]_vars
        => []<>(Caller = t)

\* A static single-shot timer fires while a loop runs, if its interval is not 0.
StaticFires ==
    \A t \in Timers :
        (static[t] /\ intervalMs[t] # 0 /\ Loop!Alive(t) /\ Depth > 0)
            ~> (~Loop!Alive(t) \/ Depth = 0)

\* A Timeout callback may delete its timer: the emissions that are due do not
\* use it any more.
RemovedInCallback == gone = {}

============================================================================
