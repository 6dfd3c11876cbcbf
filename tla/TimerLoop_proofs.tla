------------------------- MODULE TimerLoop_proofs -------------------------
(***************************************************************************)
(* Proofs about TimerLoop, for any timers and intervals, any number of     *)
(* missed expirations and any depth of nested loops.                       *)
(***************************************************************************)
EXTENDS TimerLoop, SequenceTheorems, TLAPS

----------------------------------------------------------------------------
(* Every step is a step of the loop *)

LEMMA SettingsStepIsALoopStep ==
    ASSUME NEW t \in Timers, NEW v, SetSingleShot(t, v) \/ SetActive(t, v) \/ SetIntervalMs(t, v)
    PROVE  Loop!Withdraw(t) \/ UNCHANGED loopVars
<1>1. IfActive(t) \/ UpdateParams(t)
      BY DEF SetSingleShot, SetActive, SetIntervalMs
<1> QED
    BY <1>1 DEF IfActive, UpdateParams

LEMMA StepIsALoopStep == [Next]_vars => [Loop!Next]_(Loop!vars)
<1> SUFFICES ASSUME [Next]_vars PROVE Loop!Next \/ UNCHANGED loopVars
    BY DEF Loop!vars, Loop!registry, Loop!loopState, loopVars
<1>1. CASE LoopOnly
      BY <1>1 DEF LoopOnly, Loop!Next, Loop!LoopStep
<1>2. CASE EmitNext \/ UNCHANGED vars
      BY <1>2 DEF EmitNext, vars
<1>3. CASE Return
      BY <1>3 DEF Return, Loop!Next
<1>4. ASSUME NEW t \in Timers, New(t) \/ \E ms \in Intervals : StaticSingleShot(t, ms)
      PROVE  Loop!Next
      BY <1>4 DEF New, StaticSingleShot, Loop!Next
<1>5. ASSUME NEW t \in Timers, Delete(t) \/ StaticDelete(t)
      PROVE  Loop!Next
      BY <1>5 DEF Delete, StaticDelete, Close, Loop!Next
<1>6. ASSUME NEW t \in Timers, Expire(t) PROVE Loop!Next
      BY <1>6 DEF Expire, Loop!Next
<1>7. ASSUME NEW t \in Timers, Read(t) PROVE Loop!Next
      BY <1>7 DEF Read, Loop!Next, Loop!LoopStep
<1>8. ASSUME NEW t \in Timers,
             \/ \E v \in BOOLEAN : SetSingleShot(t, v) \/ SetActive(t, v)
             \/ \E ms \in Intervals : SetIntervalMs(t, ms)
      PROVE  Loop!Next \/ UNCHANGED loopVars
      BY <1>8, SettingsStepIsALoopStep DEF Loop!Next
<1> QED
    BY <1>1, <1>2, <1>3, <1>4, <1>5, <1>6, <1>7, <1>8 DEF Next

\* A loop whose sources are timers is an EventLoop: reading, arming and
\* deleting timers does nothing to the loop that an object may not do.
THEOREM TimersRunInALoop == Spec => Loop!Spec
<1>1. Init => Loop!Init
      BY DEF Init
<1> QED
    BY <1>1, StepIsALoopStep, PTL DEF Spec, Loop!Spec

----------------------------------------------------------------------------
(* The registry: only creating and destroying a timer changes it *)

Registry ==
    /\ events \in [Fds -> Timers \cup {None}]
    /\ interest \subseteq Fds
    /\ fdOf \in [Timers -> Fds \cup {None}]
    /\ life \in [Timers -> {"new", "alive", "gone"}]
    /\ Loop!InterestRegistered

LEMMA CreateIs ==
    ASSUME Registry, NEW t \in Timers, Loop!Create(t)
    PROVE  /\ ~Loop!Alive(t) /\ life[t] = "new"
           /\ life' = [life EXCEPT ![t] = "alive"]
           /\ UNCHANGED <<ready, stack, touched>>
           /\ \E f \in Fds : /\ \A u \in Timers : fdOf[u] # f
                             /\ fdOf' = [fdOf EXCEPT ![t] = f]
                             /\ events' = [events EXCEPT ![f] = t]
                             /\ interest' = interest \cup {f}
<1>1. PICK f \in Fds \ {fdOf[p] : p \in Timers} :
         fdOf' = [fdOf EXCEPT ![t] = f] /\ Loop!AddEvent(f, t)
      BY DEF Loop!Create
<1> QED
    BY <1>1 DEF Loop!Create, Loop!AddEvent, Loop!Alive, Loop!loopState

LEMMA CreateKeepsRegistry ==
    ASSUME Registry, NEW t \in Timers, Loop!Create(t)
    PROVE  Registry'
<1>1. PICK f \in Fds : /\ \A u \in Timers : fdOf[u] # f
                       /\ fdOf' = [fdOf EXCEPT ![t] = f]
                       /\ events' = [events EXCEPT ![f] = t]
                       /\ interest' = interest \cup {f}
      BY CreateIs
<1>2. life[t] = "new" /\ life' = [life EXCEPT ![t] = "alive"]
      BY CreateIs
<1>3. \A u \in Timers : u # t => fdOf'[u] = fdOf[u] /\ life'[u] = life[u]
      BY <1>1, <1>2 DEF Registry
<1>4. fdOf'[t] = f /\ life'[t] = "alive" /\ events'[f] = t
      BY <1>1, <1>2 DEF Registry
<1>5. Loop!InterestRegistered'
      <2> SUFFICES ASSUME NEW g \in interest'
                   PROVE  \E u \in Timers : events'[g] = u /\ life'[u] = "alive" /\ fdOf'[u] = g
          BY DEF Loop!InterestRegistered, Loop!Alive
      <2>1. CASE g = f
            BY <1>4, <2>1
      <2>2. CASE g # f
            <3>1. PICK u \in Timers : events[g] = u /\ life[u] = "alive" /\ fdOf[u] = g
                  BY <1>1, <2>2 DEF Registry, Loop!InterestRegistered, Loop!Alive
            <3>2. u # t /\ events'[g] = u
                  BY <1>1, <1>2, <2>2, <3>1 DEF Registry
            <3> QED
                BY <1>3, <3>1, <3>2
      <2> QED
          BY <2>1, <2>2
<1>6. /\ events' \in [Fds -> Timers \cup {None}] /\ interest' \subseteq Fds
      /\ fdOf' \in [Timers -> Fds \cup {None}] /\ life' \in [Timers -> {"new", "alive", "gone"}]
      BY <1>1, <1>2 DEF Registry
<1> QED
    BY <1>5, <1>6 DEF Registry

LEMMA DestroyIs ==
    ASSUME NEW t \in Timers, Loop!Destroy(t)
    PROVE  /\ Loop!Alive(t)
           /\ life' = [life EXCEPT ![t] = "gone"]
           /\ fdOf' = [fdOf EXCEPT ![t] = None]
           /\ interest' = interest \ {fdOf[t]}
           /\ ready' = ready \ {t}
           /\ UNCHANGED <<events, stack, touched>>
  BY DEF Loop!Destroy, Loop!Release, Loop!loopState

LEMMA DestroyKeepsRegistry ==
    ASSUME Registry, NEW t \in Timers, Loop!Destroy(t)
    PROVE  Registry'
<1>1. /\ fdOf' = [fdOf EXCEPT ![t] = None] /\ life' = [life EXCEPT ![t] = "gone"]
      /\ interest' = interest \ {fdOf[t]} /\ events' = events
      BY DestroyIs
<1>2. \A u \in Timers : u # t => fdOf'[u] = fdOf[u] /\ life'[u] = life[u]
      BY <1>1 DEF Registry
<1>3. Loop!InterestRegistered'
      <2> SUFFICES ASSUME NEW g \in interest'
                   PROVE  \E u \in Timers : events'[g] = u /\ life'[u] = "alive" /\ fdOf'[u] = g
          BY DEF Loop!InterestRegistered, Loop!Alive
      <2>1. PICK u \in Timers : events[g] = u /\ life[u] = "alive" /\ fdOf[u] = g
            BY <1>1 DEF Registry, Loop!InterestRegistered, Loop!Alive
      <2>2. u # t
            BY <1>1, <2>1
      <2> QED
          BY <1>1, <1>2, <2>1, <2>2
<1>4. /\ events' \in [Fds -> Timers \cup {None}] /\ interest' \subseteq Fds
      /\ fdOf' \in [Timers -> Fds \cup {None}] /\ life' \in [Timers -> {"new", "alive", "gone"}]
      BY <1>1 DEF Registry
<1> QED
    BY <1>3, <1>4 DEF Registry

LEMMA OthersKeepRegistry ==
    Registry /\ UNCHANGED Loop!registry => Registry'
  BY DEF Registry, Loop!registry, Loop!InterestRegistered, Loop!Alive

\* What the loop's own steps, quit() and exec() leave alone.
LEMMA LoopOnlyKeeps == LoopOnly => UNCHANGED <<Loop!registry, ready>>
  BY DEF LoopOnly, Loop!Test, Loop!Wait, Loop!ExecReturns, Loop!DispatchWake,
     Loop!QuitFromThread, Loop!DispatchNothing, Loop!DispatchDestroyed, Loop!Exec, Loop!Quit

LEMMA RegistryStep == Registry /\ [Next]_vars => Registry'
<1> SUFFICES ASSUME Registry, [Next]_vars PROVE Registry'
    OBVIOUS
<1>1. ASSUME NEW t \in Timers, New(t) \/ \E ms \in Intervals : StaticSingleShot(t, ms)
      PROVE  Registry'
      BY <1>1, CreateKeepsRegistry DEF New, StaticSingleShot
<1>2. ASSUME NEW t \in Timers, Delete(t) \/ StaticDelete(t)
      PROVE  Registry'
      BY <1>2, DestroyKeepsRegistry DEF Delete, StaticDelete, Close
<1>3. ASSUME NEW t \in Timers,
             \/ \E v \in BOOLEAN : SetSingleShot(t, v) \/ SetActive(t, v)
             \/ \E ms \in Intervals : SetIntervalMs(t, ms)
      PROVE  UNCHANGED Loop!registry
      BY <1>3, SettingsStepIsALoopStep DEF Loop!Withdraw, loopVars, Loop!registry
<1>4. CASE LoopOnly \/ EmitNext \/ Return \/ \E t \in Timers : Expire(t) \/ Read(t)
      BY <1>4, LoopOnlyKeeps, OthersKeepRegistry
      DEF EmitNext, Return, Expire, Read, Loop!CallbackReturns, Loop!Arrive, Loop!Dispatch,
          loopVars, Loop!registry
<1>5. CASE UNCHANGED vars
      BY <1>5, OthersKeepRegistry DEF vars, loopVars, Loop!registry
<1> QED
    BY <1>1, <1>2, <1>3, <1>4, <1>5, OthersKeepRegistry DEF Next

----------------------------------------------------------------------------
(* The stack of running loops *)

StackType == stack \in Seq(Loop!Frame) /\ Len(stack) <= MaxDepth

LEMMA StackLength ==
    ASSUME StackType
    PROVE  /\ Depth \in Nat /\ Depth <= MaxDepth
           /\ \A d \in 1 .. Depth : stack[d] \in Loop!Frame
           /\ stack # <<>> => Depth >= 1 /\ Loop!Top \in Loop!Frame
           /\ stack = <<>> => Depth = 0
<1>1. stack \in Seq(Loop!Frame)
      BY DEF StackType
<1>2. Depth \in Nat /\ \A d \in 1 .. Depth : stack[d] \in Loop!Frame
      BY <1>1, LenProperties, ElementOfSeq DEF Depth
<1>3. stack # <<>> => Depth >= 1
      BY <1>1, EmptySeq DEF Depth
<1> QED
    BY <1>2, <1>3, EmptySeq DEF StackType, Loop!Top, Depth

\* A step that gives the frame on top another value.
LEMMA ReplaceTopIs ==
    ASSUME StackType, stack # <<>>, NEW frame \in Loop!Frame, Loop!ReplaceTop(frame)
    PROVE  /\ StackType' /\ Depth' = Depth /\ stack' # <<>>
           /\ stack'[Depth] = frame /\ (Loop!Top)' = frame
           /\ \A d \in 1 .. Depth : d # Depth => stack'[d] = stack[d]
<1>1. stack \in Seq(Loop!Frame) /\ Depth \in 1 .. Depth
      BY StackLength DEF StackType
<1>2. stack' = [stack EXCEPT ![Depth] = frame]
      BY DEF Loop!ReplaceTop, Depth
<1>3. /\ stack' \in Seq(Loop!Frame) /\ Len(stack') = Len(stack)
      /\ \A d \in 1 .. Len(stack) : stack'[d] = IF d = Depth THEN frame ELSE stack[d]
      BY <1>1, <1>2, ExceptSeq DEF Depth
<1>4. stack' # <<>>
      BY <1>1, <1>3, EmptySeq DEF Depth
<1> QED
    BY <1>1, <1>3, <1>4 DEF StackType, Depth, Loop!Top

\* No step of the loop or of the program but onRead's makes a callback run.
NoNewCaller ==
    \A d \in 1 .. Depth' :
        stack'[d].in # None => d <= Depth /\ stack'[d].in = stack[d].in

LEMMA SameStack ==
    ASSUME StackType, UNCHANGED stack
    PROVE  StackType' /\ NoNewCaller /\ Depth' = Depth
<1>1. StackType' /\ Depth' = Depth
      BY DEF StackType, Depth
<1>2. Depth \in Nat
      BY StackLength
<1> QED
    BY <1>1, <1>2 DEF NoNewCaller

LEMMA ReplaceTopCallers ==
    ASSUME StackType, stack # <<>>, NEW frame \in Loop!Frame, Loop!ReplaceTop(frame),
           frame.in = None \/ frame.in = Loop!Top.in
    PROVE  StackType' /\ NoNewCaller /\ Depth' = Depth
<1>1. /\ StackType' /\ Depth' = Depth /\ stack'[Depth] = frame
      /\ \A d \in 1 .. Depth : d # Depth => stack'[d] = stack[d]
      BY ReplaceTopIs
<1>2. Depth \in Nat /\ Loop!Top = stack[Depth]
      BY StackLength DEF Loop!Top, Depth
<1>3. ASSUME NEW d \in 1 .. Depth', stack'[d].in # None
      PROVE  d <= Depth /\ stack'[d].in = stack[d].in
      <2>1. CASE d = Depth
            BY <1>1, <1>2, <1>3, <2>1
      <2>2. CASE d # Depth
            BY <1>1, <1>2, <2>2
      <2> QED
          BY <2>1, <2>2
<1> QED
    BY <1>1, <1>3 DEF NoNewCaller

LEMMA TopLosesOne ==
    ASSUME StackType, stack # <<>>, NEW f, Loop!ReplaceTop([Loop!Top EXCEPT !.batch = @ \ {f}])
    PROVE  StackType' /\ NoNewCaller
<1> DEFINE frame == [Loop!Top EXCEPT !.batch = @ \ {f}]
<1>1. Loop!Top \in Loop!Frame
      BY StackLength
<1>2. frame \in Loop!Frame /\ frame.in = Loop!Top.in
      BY <1>1 DEF Loop!Frame
<1>3. Loop!ReplaceTop(frame)
      OBVIOUS
<1> HIDE DEF frame
<1> QED
    BY <1>2, <1>3, ReplaceTopCallers

LEMMA LoopOnlyStack ==
    ASSUME StackType, Registry, LoopOnly
    PROVE  StackType' /\ NoNewCaller
<1>1. CASE Loop!Test
      <2> DEFINE frame == [Loop!Top EXCEPT !.waiting = TRUE]
      <2>1. stack # <<>> /\ Loop!ReplaceTop(frame)
            BY <1>1 DEF Loop!Test, Loop!AtCheck
      <2>2. Loop!Top \in Loop!Frame
            BY <2>1, StackLength
      <2>3. frame \in Loop!Frame /\ frame.in = Loop!Top.in
            BY <2>2 DEF Loop!Frame
      <2> HIDE DEF frame
      <2> QED
          BY <2>1, <2>3, ReplaceTopCallers
<1>2. CASE Loop!Wait
      <2> DEFINE frame == [waiting |-> FALSE, batch |-> Loop!Readable, in |-> None]
      <2>1. stack # <<>> /\ Loop!ReplaceTop(frame)
            BY <1>2 DEF Loop!Wait
      <2>2. frame \in Loop!Frame /\ frame.in = None
            BY DEF Loop!Frame, Loop!Readable, Registry
      <2> HIDE DEF frame
      <2> QED
          BY <2>1, <2>2, ReplaceTopCallers
<1>3. CASE Loop!ExecReturns
      <2>1. stack # <<>> /\ stack' = SubSeq(stack, 1, Depth - 1)
            BY <1>3 DEF Loop!ExecReturns, Loop!AtCheck, Depth
      <2>2. Depth - 1 \in Nat /\ \A d \in 1 .. Depth - 1 : stack[d] \in Loop!Frame
            BY <2>1, StackLength
      <2>3. /\ stack' \in Seq(Loop!Frame) /\ Depth' = Depth - 1
            /\ \A d \in 1 .. Depth - 1 : stack'[d] = stack[d]
            <3> DEFINE n == Depth - 1
            <3>1. n \in Nat /\ \A d \in 1 .. n : stack[d] \in Loop!Frame
                  BY <2>2
            <3>2. stack' = SubSeq(stack, 1, n)
                  BY <2>1
            <3> HIDE DEF n
            <3>3. /\ SubSeq(stack, 1, n) \in Seq(Loop!Frame)
                  /\ Len(SubSeq(stack, 1, n)) = IF 1 <= n THEN n - 1 + 1 ELSE 0
                  /\ \A d \in 1 .. n - 1 + 1 : SubSeq(stack, 1, n)[d] = stack[1 + d - 1]
                  BY <3>1, SubSeqProperties
            <3>4. stack' \in Seq(Loop!Frame) /\ Len(stack') = n /\ \A d \in 1 .. n : stack'[d] = stack[d]
                  BY <3>1, <3>2, <3>3
            <3> QED
                BY <3>4 DEF n, Depth
      <2>4. StackType'
            BY <2>2, <2>3, StackLength, LoopAssumption DEF StackType, Depth
      <2>5. NoNewCaller
            BY <2>2, <2>3, StackLength DEF NoNewCaller
      <2> QED
          BY <2>4, <2>5
<1>4. CASE Loop!DispatchWake \/ \E f \in Fds : Loop!DispatchNothing(f) \/ Loop!DispatchDestroyed(f)
      BY <1>4, TopLosesOne
      DEF Loop!DispatchWake, Loop!DispatchNothing, Loop!DispatchDestroyed, Loop!InBatch
<1>5. CASE Loop!Exec
      <2> DEFINE frame == [waiting |-> FALSE, batch |-> {}, in |-> None]
      <2>1. stack' = Append(stack, frame) /\ Len(stack) < MaxDepth
            BY <1>5 DEF Loop!Exec
      <2>2. frame \in Loop!Frame /\ frame.in = None /\ stack \in Seq(Loop!Frame)
            BY DEF Loop!Frame, StackType
      <2> HIDE DEF frame
      <2>3. /\ stack' \in Seq(Loop!Frame) /\ Depth' = Depth + 1
            /\ stack'[Depth + 1] = frame
            /\ \A d \in 1 .. Depth : stack'[d] = stack[d]
            BY <2>1, <2>2, AppendProperties DEF Depth
      <2>4. StackType'
            BY <2>1, <2>3, StackLength, LoopAssumption DEF StackType, Depth
      <2>5. NoNewCaller
            BY <2>2, <2>3, StackLength DEF NoNewCaller
      <2> QED
          BY <2>4, <2>5
<1>6. CASE Loop!Quit \/ Loop!QuitFromThread
      BY <1>6, SameStack DEF Loop!Quit, Loop!QuitFromThread
<1> QED
    BY <1>1, <1>2, <1>3, <1>4, <1>5, <1>6 DEF LoopOnly

LEMMA ReturnStack ==
    ASSUME StackType, Return
    PROVE  StackType' /\ NoNewCaller
<1> DEFINE frame == [Loop!Top EXCEPT !.in = None]
<1>1. stack # <<>> /\ Loop!ReplaceTop(frame)
      BY DEF Return, Loop!CallbackReturns
<1>2. Loop!Top \in Loop!Frame
      BY <1>1, StackLength
<1>3. frame \in Loop!Frame /\ frame.in = None
      BY <1>2 DEF Loop!Frame
<1> HIDE DEF frame
<1> QED
    BY <1>1, <1>3, ReplaceTopCallers

LEMMA ReadStack ==
    ASSUME StackType, NEW t \in Timers, Read(t)
    PROVE  /\ StackType' /\ stack # <<>> /\ Depth' = Depth
           /\ stack'[Depth].in = t
           /\ \A d \in 1 .. Depth : d # Depth => stack'[d] = stack[d]
<1>1. PICK f \in Fds : /\ Loop!InBatch(f)
                       /\ Loop!ReplaceTop([Loop!Top EXCEPT !.batch = @ \ {f}, !.in = t])
      BY DEF Read, Loop!Dispatch
<1>2. stack # <<>> /\ Loop!Top \in Loop!Frame
      BY <1>1, StackLength DEF Loop!InBatch
<1>3. /\ [Loop!Top EXCEPT !.batch = @ \ {f}, !.in = t] \in Loop!Frame
      /\ [Loop!Top EXCEPT !.batch = @ \ {f}, !.in = t].in = t
      BY <1>2 DEF Loop!Frame
<1> QED
    BY <1>1, <1>2, <1>3, ReplaceTopIs

----------------------------------------------------------------------------
(* The kernel's timers *)

SettingsType ==
    /\ singleShot \in [Timers -> BOOLEAN]
    /\ intervalMs \in [Timers -> Intervals]
    /\ active \in [Timers -> BOOLEAN]
    /\ static \in [Timers -> BOOLEAN]
    /\ armed \in [Timers -> {"off", "once", "periodic"}]
    /\ ticks \in [Timers -> 0 .. MaxTicks]

\* A timer that is not active has no expiration to report; the timerfd is armed
\* as the fields say, and readable while it has expirations that were not
\* read; a timer that is not alive is not active; a static timer expires once.
TimerFits(t) ==
    /\ ~active[t] => armed[t] = "off" /\ ticks[t] = 0
    /\ armed[t] # "off" => armed[t] = Armed(active[t], singleShot[t], intervalMs[t])
    /\ active[t] /\ ~singleShot[t] /\ intervalMs[t] # 0 => armed[t] = "periodic"
    /\ t \in ready <=> ticks[t] > 0
    /\ ~Loop!Alive(t) => ~active[t]
    /\ static[t] => /\ singleShot[t] /\ ticks[t] <= 1
                    /\ armed[t] = "once" => ticks[t] = 0

KernelInv ==
    /\ SettingsType /\ ready \subseteq Timers
    /\ \A t \in Timers : TimerFits(t)

\* A step on one timer leaves the others alone.
OthersKept(t) ==
    \A u \in Timers : u # t =>
        /\ singleShot'[u] = singleShot[u] /\ intervalMs'[u] = intervalMs[u]
        /\ active'[u] = active[u] /\ static'[u] = static[u]
        /\ armed'[u] = armed[u] /\ ticks'[u] = ticks[u]
        /\ life'[u] = life[u] /\ (u \in ready' <=> u \in ready)

LEMMA OneTimerStep ==
    ASSUME KernelInv, NEW t \in Timers, OthersKept(t),
           SettingsType', ready' \subseteq Timers, TimerFits(t)'
    PROVE  KernelInv'
<1>1. \A u \in Timers : u # t => TimerFits(u)'
      BY DEF KernelInv, OthersKept, TimerFits, Armed, Loop!Alive
<1> QED
    BY <1>1 DEF KernelInv

\* After updateParams the timerfd is as the fields say and has nothing to read.
LEMMA UpdateParamsFits ==
    ASSUME KernelInv, NEW t \in Timers, Loop!Alive(t), ~static'[t],
           active'[t] \in BOOLEAN, singleShot'[t] \in BOOLEAN,
           UpdateParams(t)
    PROVE  /\ TimerFits(t)' /\ UNCHANGED life
           /\ armed' \in [Timers -> {"off", "once", "periodic"}]
           /\ ticks' \in [Timers -> 0 .. MaxTicks]
           /\ \A u \in Timers : u # t => armed'[u] = armed[u] /\ ticks'[u] = ticks[u]
           /\ ready' = ready \ {t}
<1>1. ready' = ready \ {t} /\ UNCHANGED life
      BY DEF UpdateParams, Loop!Withdraw, Loop!registry, loopVars
<1>2. /\ armed \in [Timers -> {"off", "once", "periodic"}]
      /\ ticks \in [Timers -> 0 .. MaxTicks]
      BY DEF KernelInv, SettingsType
<1>3. /\ armed' = [armed EXCEPT ![t] = Armed(active'[t], singleShot'[t], intervalMs'[t])]
      /\ ticks' = [ticks EXCEPT ![t] = 0]
      BY DEF UpdateParams
<1>4. Armed(active'[t], singleShot'[t], intervalMs'[t]) \in {"off", "once", "periodic"}
      BY DEF Armed
<1>5. /\ armed' \in [Timers -> {"off", "once", "periodic"}]
      /\ ticks' \in [Timers -> 0 .. MaxTicks]
      /\ armed'[t] = Armed(active'[t], singleShot'[t], intervalMs'[t]) /\ ticks'[t] = 0
      /\ \A u \in Timers : u # t => armed'[u] = armed[u] /\ ticks'[u] = ticks[u]
      BY <1>2, <1>3, <1>4, TickAssumption
<1>6. TimerFits(t)'
      BY <1>1, <1>5 DEF TimerFits, Armed, Loop!Alive
<1> QED
    BY <1>1, <1>5, <1>6

LEMMA SettingsStep ==
    ASSUME KernelInv, NEW t \in Timers,
           \/ \E v \in BOOLEAN : SetSingleShot(t, v) \/ SetActive(t, v)
           \/ \E ms \in Intervals : SetIntervalMs(t, ms)
    PROVE  KernelInv'
<1>1. /\ Loop!Alive(t) /\ ~static[t] /\ UNCHANGED static
      /\ \A u \in Timers : u # t => /\ singleShot'[u] = singleShot[u]
                                    /\ intervalMs'[u] = intervalMs[u]
                                    /\ active'[u] = active[u]
      /\ singleShot' \in [Timers -> BOOLEAN] /\ intervalMs' \in [Timers -> Intervals]
      /\ active' \in [Timers -> BOOLEAN] /\ static' \in [Timers -> BOOLEAN]
      BY DEF SetSingleShot, SetActive, SetIntervalMs, Owned, KernelInv, SettingsType
<1>2. UpdateParams(t) \/ (~active[t] /\ UNCHANGED <<active, kernel, loopVars>>)
      BY DEF SetSingleShot, SetActive, SetIntervalMs, IfActive
<1>3. CASE UpdateParams(t)
      <2>1. /\ TimerFits(t)' /\ UNCHANGED life /\ ready' = ready \ {t}
            /\ armed' \in [Timers -> {"off", "once", "periodic"}]
            /\ ticks' \in [Timers -> 0 .. MaxTicks]
            /\ \A u \in Timers : u # t => armed'[u] = armed[u] /\ ticks'[u] = ticks[u]
            BY <1>1, <1>3, UpdateParamsFits
      <2>2. OthersKept(t)
            BY <1>1, <2>1 DEF OthersKept
      <2>3. SettingsType' /\ ready' \subseteq Timers
            BY <1>1, <2>1 DEF SettingsType, KernelInv
      <2> QED
          BY <2>1, <2>2, <2>3, OneTimerStep
<1>4. CASE ~active[t] /\ UNCHANGED <<active, kernel, loopVars>>
      <2>1. UNCHANGED <<active, armed, ticks, life, ready>>
            BY <1>4 DEF kernel, loopVars
      <2>2. TimerFits(t)'
            BY <1>1, <1>4, <2>1 DEF KernelInv, TimerFits, Loop!Alive
      <2>3. OthersKept(t)
            BY <1>1, <2>1 DEF OthersKept
      <2>4. SettingsType' /\ ready' \subseteq Timers
            BY <1>1, <2>1 DEF SettingsType, KernelInv
      <2> QED
          BY <2>2, <2>3, <2>4, OneTimerStep
<1> QED
    BY <1>2, <1>3, <1>4

LEMMA CreateStep ==
    ASSUME KernelInv, Registry, NEW t \in Timers,
           New(t) \/ \E ms \in Intervals : StaticSingleShot(t, ms)
    PROVE  KernelInv'
<1>1. ~Loop!Alive(t) /\ life' = [life EXCEPT ![t] = "alive"] /\ UNCHANGED ready
      BY CreateIs DEF New, StaticSingleShot
<1>2. /\ life'[t] = "alive" /\ \A u \in Timers : u # t => life'[u] = life[u]
      /\ ~active[t] /\ armed[t] = "off" /\ ticks[t] = 0
      /\ ready' \subseteq Timers
      BY <1>1 DEF KernelInv, TimerFits, Registry
<1>3. CASE New(t)
      <2>1. UNCHANGED <<singleShot, intervalMs, active, static, armed, ticks>>
            BY <1>3 DEF New, settings, kernel
      <2>2. OthersKept(t) /\ SettingsType'
            BY <1>1, <1>2, <2>1 DEF OthersKept, SettingsType, KernelInv
      <2>3. TimerFits(t)'
            BY <1>1, <1>2, <2>1 DEF KernelInv, TimerFits, Loop!Alive
      <2> QED
          BY <1>2, <2>2, <2>3, OneTimerStep
<1>4. ASSUME NEW ms \in Intervals, StaticSingleShot(t, ms) PROVE KernelInv'
      <2>1. /\ singleShot' = [singleShot EXCEPT ![t] = TRUE]
            /\ intervalMs' = [intervalMs EXCEPT ![t] = ms]
            /\ active' = [active EXCEPT ![t] = TRUE]
            /\ static' = [static EXCEPT ![t] = TRUE]
            /\ armed' = [armed EXCEPT ![t] = Armed(TRUE, TRUE, ms)]
            /\ UNCHANGED ticks
            BY <1>4 DEF StaticSingleShot
      <2>2. Armed(TRUE, TRUE, ms) \in {"off", "once"}
            BY DEF Armed
      <2>3. SettingsType'
            BY <2>1, <2>2 DEF KernelInv, SettingsType
      <2>4. /\ OthersKept(t)
            /\ singleShot'[t] = TRUE /\ intervalMs'[t] = ms /\ active'[t] = TRUE
            /\ armed'[t] = Armed(TRUE, TRUE, ms)
            BY <1>1, <1>2, <2>1 DEF OthersKept, KernelInv, SettingsType
      <2>5. /\ active'[t] /\ singleShot'[t]
            /\ armed'[t] = Armed(active'[t], singleShot'[t], intervalMs'[t])
            BY <2>4 DEF Armed
      <2>6. ticks'[t] = 0 /\ t \notin ready'
            BY <1>1, <1>2, <2>1 DEF KernelInv, TimerFits
      <2>7. TimerFits(t)'
            BY <1>2, <2>5, <2>6 DEF TimerFits, Loop!Alive
      <2> QED
          BY <1>2, <2>3, <2>4, <2>7, OneTimerStep
<1> QED
    BY <1>3, <1>4

LEMMA CloseStep ==
    ASSUME KernelInv, Registry, NEW t \in Timers, Close(t)
    PROVE  KernelInv'
<1>1. /\ life' = [life EXCEPT ![t] = "gone"] /\ ready' = ready \ {t}
      /\ active' = [active EXCEPT ![t] = FALSE]
      /\ armed' = [armed EXCEPT ![t] = "off"]
      /\ ticks' = [ticks EXCEPT ![t] = 0]
      /\ singleShot' = [singleShot EXCEPT ![t] = FALSE]
      /\ intervalMs' = [intervalMs EXCEPT ![t] = Default]
      /\ static' = [static EXCEPT ![t] = FALSE]
      BY DestroyIs DEF Close
<1>2. OthersKept(t)
      BY <1>1 DEF OthersKept, KernelInv, SettingsType, Registry
<1>3. SettingsType' /\ ready' \subseteq Timers
      BY <1>1, TickAssumption, IntervalAssumption DEF KernelInv, SettingsType
<1>4. ~active'[t] /\ armed'[t] = "off" /\ ticks'[t] = 0 /\ t \notin ready' /\ ~static'[t]
      BY <1>1 DEF KernelInv, SettingsType
<1>5. TimerFits(t)'
      BY <1>4 DEF TimerFits
<1> QED
    BY <1>2, <1>3, <1>5, OneTimerStep

LEMMA ExpireStep ==
    ASSUME KernelInv, NEW t \in Timers, Expire(t)
    PROVE  KernelInv'
<1>1. /\ armed[t] # "off" /\ ticks[t] < MaxTicks
      /\ ticks' = [ticks EXCEPT ![t] = ticks[t] + 1]
      /\ armed' = [armed EXCEPT ![t] = IF armed[t] = "once" THEN "off" ELSE armed[t]]
      /\ ready' = ready \cup {t}
      /\ UNCHANGED <<singleShot, intervalMs, active, static, life>>
      BY DEF Expire, Loop!Arrive, settings, Loop!registry
<1>2. SettingsType' /\ ready' \subseteq Timers
      BY <1>1, TickAssumption DEF KernelInv, SettingsType
<1>3. OthersKept(t)
      BY <1>1 DEF OthersKept, KernelInv, SettingsType
<1>4. /\ ticks'[t] = ticks[t] + 1 /\ ticks[t] \in Nat
      /\ armed'[t] = IF armed[t] = "once" THEN "off" ELSE armed[t]
      BY <1>1, TickAssumption DEF KernelInv, SettingsType
<1>5. active[t] /\ armed[t] = Armed(active[t], singleShot[t], intervalMs[t])
      BY <1>1 DEF KernelInv, TimerFits
<1>6. static[t] => armed[t] = "once" /\ ticks[t] = 0
      BY <1>1, <1>5 DEF KernelInv, TimerFits, Armed
<1>7. TimerFits(t)'
      BY <1>1, <1>4, <1>5, <1>6 DEF KernelInv, TimerFits, Armed, Loop!Alive
<1> QED
    BY <1>2, <1>3, <1>7, OneTimerStep

LEMMA ReadStep ==
    ASSUME KernelInv, NEW t \in Timers, Read(t)
    PROVE  KernelInv'
<1>1. /\ ticks' = [ticks EXCEPT ![t] = 0] /\ ready' = ready \ {t}
      /\ UNCHANGED <<singleShot, intervalMs, active, static, armed, life>>
      BY DEF Read, Loop!Dispatch, settings, Loop!registry
<1>2. SettingsType' /\ ready' \subseteq Timers /\ OthersKept(t) /\ ticks'[t] = 0
      BY <1>1, TickAssumption DEF KernelInv, SettingsType, OthersKept
<1>3. TimerFits(t)'
      BY <1>1, <1>2 DEF KernelInv, TimerFits, Armed, Loop!Alive
<1> QED
    BY <1>2, <1>3, OneTimerStep

LEMMA TimersUntouched ==
    ASSUME KernelInv, UNCHANGED <<settings, kernel, ready, life>>
    PROVE  KernelInv'
  BY DEF KernelInv, SettingsType, TimerFits, Armed, Loop!Alive, settings, kernel

LEMMA KernelStep == KernelInv /\ Registry /\ [Next]_vars => KernelInv'
<1> SUFFICES ASSUME KernelInv, Registry, [Next]_vars PROVE KernelInv'
    OBVIOUS
<1>1. CASE LoopOnly \/ EmitNext \/ Return
      BY <1>1, LoopOnlyKeeps, TimersUntouched
      DEF LoopOnly, EmitNext, Return, Loop!CallbackReturns, loopVars, Loop!registry
<1>2. ASSUME NEW t \in Timers, New(t) \/ \E ms \in Intervals : StaticSingleShot(t, ms)
      PROVE  KernelInv'
      BY <1>2, CreateStep
<1>3. ASSUME NEW t \in Timers, Delete(t) \/ StaticDelete(t) PROVE KernelInv'
      BY <1>3, CloseStep DEF Delete, StaticDelete
<1>4. ASSUME NEW t \in Timers, Expire(t) \/ Read(t) PROVE KernelInv'
      BY <1>4, ExpireStep, ReadStep
<1>5. ASSUME NEW t \in Timers,
             \/ \E v \in BOOLEAN : SetSingleShot(t, v) \/ SetActive(t, v)
             \/ \E ms \in Intervals : SetIntervalMs(t, ms)
      PROVE  KernelInv'
      BY <1>5, SettingsStep
<1>6. CASE UNCHANGED vars
      BY <1>6, TimersUntouched DEF vars, loopVars
<1> QED
    BY <1>1, <1>2, <1>3, <1>4, <1>5, <1>6 DEF Next

----------------------------------------------------------------------------
(* The callbacks that run *)

LEMMA OnlyReadCalls ==
    ASSUME StackType, Registry, [Next]_vars, \A t \in Timers : ~Read(t)
    PROVE  StackType' /\ NoNewCaller
<1>1. CASE LoopOnly \/ Return
      BY <1>1, LoopOnlyStack, ReturnStack
<1>2. ASSUME NEW t \in Timers, New(t) \/ \E ms \in Intervals : StaticSingleShot(t, ms)
      PROVE  UNCHANGED stack
      BY <1>2, CreateIs DEF New, StaticSingleShot
<1>3. ASSUME NEW t \in Timers, Delete(t) \/ StaticDelete(t) PROVE UNCHANGED stack
      BY <1>3, DestroyIs DEF Delete, StaticDelete, Close
<1>4. ASSUME NEW t \in Timers, Expire(t) PROVE UNCHANGED stack
      BY <1>4 DEF Expire, Loop!Arrive, Loop!loopState
<1>5. ASSUME NEW t \in Timers,
             \/ \E v \in BOOLEAN : SetSingleShot(t, v) \/ SetActive(t, v)
             \/ \E ms \in Intervals : SetIntervalMs(t, ms)
      PROVE  UNCHANGED stack
      BY <1>5, SettingsStepIsALoopStep DEF Loop!Withdraw, Loop!loopState, loopVars
<1>6. CASE EmitNext \/ UNCHANGED vars
      BY <1>6, SameStack DEF EmitNext, vars, loopVars
<1> QED
    BY <1>1, <1>2, <1>3, <1>4, <1>5, <1>6, SameStack DEF Next

LEMMA StackStep == StackType /\ Registry /\ [Next]_vars => StackType'
  BY OnlyReadCalls, ReadStack

\* A timer read by onRead has something to report; one that does is active.
LEMMA ReadIsDue ==
    ASSUME KernelInv, NEW t \in Timers, Read(t)
    PROVE  active[t] /\ Loop!Alive(t) /\ ticks[t] \in 1 .. MaxTicks
<1>1. t \in ready /\ Loop!Alive(t)
      BY DEF Read, Loop!Dispatch
<1>2. ticks[t] \in 0 .. MaxTicks /\ MaxTicks \in Nat
      BY TickAssumption DEF KernelInv, SettingsType
<1> QED
    BY <1>1, <1>2 DEF KernelInv, TimerFits

LEMMA CallerIs ==
    ASSUME StackType, Caller # None
    PROVE  Depth >= 1 /\ Caller = stack[Depth].in /\ Caller \in Timers
<1>1. stack # <<>> /\ Caller = Loop!Top.in
      BY DEF Caller
<1>2. Loop!Top \in Loop!Frame /\ Depth >= 1
      BY <1>1, StackLength
<1> QED
    BY <1>1, <1>2 DEF Loop!Top, Depth, Loop!Frame

LEMMA DrainStep ==
    ASSUME StackType, Registry, KernelInv, left \in [1 .. MaxDepth -> 0 .. MaxTicks],
           [Next]_vars, NEW t \in Timers, ~active[t],
           NEW d \in 1 .. Depth', stack'[d].in = t
    PROVE  d <= Depth /\ stack[d].in = t /\ left'[d] <= left[d]
<1>1. t # None /\ Depth \in Nat /\ Depth <= MaxDepth /\ MaxDepth \in Nat
      BY LoopAssumption, StackLength
<1>2. CASE \E u \in Timers : Read(u)
      <2>1. PICK u \in Timers : Read(u)
            BY <1>2
      <2>2. /\ active[u] /\ stack'[Depth].in = u /\ Depth' = Depth
            /\ \A c \in 1 .. Depth : c # Depth => stack'[c] = stack[c]
            BY <2>1, ReadStack, ReadIsDue
      <2>3. d \in 1 .. Depth /\ d # Depth
            BY <2>2
      <2>4. left'[d] = left[d] /\ left[d] \in Int
            BY <1>1, <2>1, <2>3, TickAssumption DEF Read
      <2> QED
          BY <1>1, <2>2, <2>3, <2>4
<1>3. CASE \A u \in Timers : ~Read(u)
      <2>1. d \in 1 .. Depth /\ stack[d].in = t
            BY <1>1, <1>3, OnlyReadCalls DEF NoNewCaller
      <2>2. left[d] \in 0 .. MaxTicks
            BY <1>1, <2>1
      <2>3. CASE EmitNext
            <3>1. Depth \in 1 .. MaxDepth /\ left[Depth] > 0 /\ left[Depth] \in 0 .. MaxTicks
                  BY <1>1, <2>1, <2>3 DEF EmitNext
            <3>2. \/ left' = [left EXCEPT ![Depth] = left[Depth] - 1]
                  \/ left' = [left EXCEPT ![Depth] = 0]
                  BY <2>3 DEF EmitNext
            <3>3. left'[d] = left[d] \/ (d = Depth /\ left'[d] \in {0, left[Depth] - 1})
                  BY <1>1, <2>1, <3>1, <3>2
            <3> QED
                BY <2>1, <2>2, <3>1, <3>3, TickAssumption
      <2>4. CASE ~EmitNext
            <3>1. UNCHANGED left
                  BY <1>3, <2>4
                  DEF Next, vars, LoopOnly, Return, New, StaticSingleShot, Expire, Delete,
                      StaticDelete, Close, SetSingleShot, SetActive, SetIntervalMs
            <3> QED
                BY <2>1, <2>2, <3>1, TickAssumption
      <2> QED
          BY <2>3, <2>4
<1> QED
    BY <1>2, <1>3

----------------------------------------------------------------------------
(* The Timeouts that onRead has yet to emit *)

\* onRead in the d-th running loop, when its callback has returned, may use
\* its timer: the timer is alive, or there is nothing more to emit. A static
\* timer, which deletes itself, has nothing more to emit from the beginning.
EmitterLives(d) ==
    LET t == stack[d].in
    IN  t # None => /\ life[t] # "new"
                    /\ static[t] => left[d] = 0
                    /\ careful /\ left[d] > 0 => Loop!Alive(t)

CallInv ==
    /\ left \in [1 .. MaxDepth -> 0 .. MaxTicks]
    /\ gone \subseteq Timers /\ careful \in BOOLEAN
    /\ \A d \in 1 .. Depth : EmitterLives(d)
    /\ careful => gone = {}

\* A step that makes no timer new, or static later than it was made, and
\* destroys none.
TimersStay ==
    \A t \in Timers : /\ life[t] # "new" => static'[t] = static[t] /\ life'[t] # "new"
                      /\ life[t] = "alive" => life'[t] = "alive"

LEMMA QuietCallStep ==
    ASSUME CallInv, StackType, StackType', NoNewCaller,
           UNCHANGED <<left, gone, careful>>, TimersStay
    PROVE  CallInv'
<1>1. ASSUME NEW d \in 1 .. Depth' PROVE EmitterLives(d)'
      <2> SUFFICES ASSUME stack'[d].in # None PROVE EmitterLives(d)'
          BY DEF EmitterLives
      <2>1. d \in 1 .. Depth /\ stack'[d].in = stack[d].in
            BY StackLength DEF NoNewCaller
      <2>2. stack[d].in \in Timers /\ EmitterLives(d)
            BY <2>1, StackLength DEF Loop!Frame, CallInv
      <2> QED
          BY <2>1, <2>2 DEF EmitterLives, TimersStay, Loop!Alive
<1> QED
    BY <1>1 DEF CallInv

LEMMA DestroyCallStep ==
    ASSUME CallInv, StackType, Registry, KernelInv, NEW t \in Timers,
           Delete(t) \/ StaticDelete(t)
    PROVE  CallInv'
<1>1. /\ life' = [life EXCEPT ![t] = "gone"]
      /\ static' = [static EXCEPT ![t] = FALSE]
      /\ UNCHANGED <<left, gone, stack>>
      BY DestroyIs DEF Delete, StaticDelete, Close
<1>2. Depth' = Depth
      BY <1>1, SameStack
<1>3. /\ life'[t] = "gone" /\ ~static'[t]
      /\ \A u \in Timers : u # t => life'[u] = life[u] /\ static'[u] = static[u]
      BY <1>1 DEF Registry, KernelInv, SettingsType
<1>4. careful' \in BOOLEAN /\ (careful' => careful)
      BY DEF Delete, StaticDelete, CallInv
<1>5. ASSUME NEW d \in 1 .. Depth', stack'[d].in # None PROVE EmitterLives(d)'
      <2>1. d \in 1 .. Depth /\ stack'[d] = stack[d] /\ left'[d] = left[d]
            BY <1>1, <1>2
      <2>2. EmitterLives(d) /\ stack[d].in \in Timers
            BY <1>5, <2>1, StackLength DEF CallInv, Loop!Frame
      <2>3. CASE stack[d].in = t
            <3>1. CASE Delete(t)
                  <4>1. careful' => ~(left[d] > 0)
                        BY <2>1, <2>3, <3>1 DEF Delete, InUse
                  <4> QED
                      BY <1>3, <2>1, <2>3, <4>1 DEF EmitterLives
            <3>2. CASE StaticDelete(t)
                  <4>1. left[d] = 0
                        BY <1>5, <2>1, <2>2, <2>3, <3>2 DEF StaticDelete, EmitterLives
                  <4> QED
                      BY <1>3, <2>1, <2>3, <4>1 DEF EmitterLives
            <3> QED
                BY <3>1, <3>2
      <2>4. CASE stack[d].in # t
            BY <1>3, <1>4, <2>1, <2>2, <2>4 DEF EmitterLives, Loop!Alive
      <2> QED
          BY <2>3, <2>4
<1>6. \A d \in 1 .. Depth' : EmitterLives(d)'
      BY <1>5 DEF EmitterLives
<1> QED
    BY <1>1, <1>4, <1>6 DEF CallInv

LEMMA ReadCallStep ==
    ASSUME CallInv, StackType, KernelInv, NEW t \in Timers, Read(t)
    PROVE  CallInv'
<1>1. /\ StackType' /\ Depth \in 1 .. MaxDepth /\ Depth' = Depth /\ stack'[Depth].in = t
      /\ \A d \in 1 .. Depth : d # Depth => stack'[d] = stack[d]
      BY ReadStack, StackLength, LoopAssumption
<1>2. /\ left' = [left EXCEPT ![Depth] = ticks[t] - 1]
      /\ UNCHANGED <<static, life, gone, careful>>
      BY DEF Read, Loop!Dispatch, settings, Loop!registry
<1>3. ticks[t] \in 1 .. MaxTicks /\ life[t] = "alive"
      BY ReadIsDue DEF Loop!Alive
<1>4. static[t] => ticks[t] <= 1
      BY DEF KernelInv, TimerFits
<1>5. /\ left' \in [1 .. MaxDepth -> 0 .. MaxTicks]
      /\ left'[Depth] = ticks[t] - 1
      /\ \A d \in 1 .. Depth : d # Depth => left'[d] = left[d]
      BY <1>1, <1>2, <1>3, TickAssumption, LoopAssumption DEF CallInv
<1>6. ASSUME NEW d \in 1 .. Depth' PROVE EmitterLives(d)'
      <2>1. CASE d = Depth
            BY <1>1, <1>2, <1>3, <1>4, <1>5, <2>1, TickAssumption DEF EmitterLives, Loop!Alive
      <2>2. CASE d # Depth
            BY <1>1, <1>2, <1>5, <2>2 DEF CallInv, EmitterLives, Loop!Alive
      <2> QED
          BY <2>1, <2>2
<1> QED
    BY <1>2, <1>5, <1>6 DEF CallInv

LEMMA EmitCallStep ==
    ASSUME CallInv, StackType, EmitNext
    PROVE  CallInv'
<1>1. /\ left[Depth] > 0 /\ Depth \in 1 .. MaxDepth
      /\ Caller \in Timers /\ Caller = stack[Depth].in /\ Caller # None
      BY CallerIs, StackLength, LoopAssumption DEF EmitNext
<1>2. UNCHANGED <<stack, static, life, careful>>
      BY DEF EmitNext, loopVars, settings
<1>3. StackType' /\ Depth' = Depth
      BY <1>2, SameStack
<1>4. EmitterLives(Depth) /\ left[Depth] \in 0 .. MaxTicks
      BY <1>1, StackLength DEF CallInv
<1>5. PICK n \in 0 .. MaxTicks : left' = [left EXCEPT ![Depth] = n] /\ n < left[Depth]
      <2>1. left[Depth] - 1 \in 0 .. MaxTicks /\ 0 \in 0 .. MaxTicks
            BY <1>1, <1>4, TickAssumption
      <2> QED
          BY <1>1, <1>4, <2>1 DEF EmitNext
<1>6. careful => UNCHANGED gone
      BY <1>1, <1>4 DEF EmitNext, EmitterLives
<1>7. /\ left' \in [1 .. MaxDepth -> 0 .. MaxTicks]
      /\ left'[Depth] = n
      /\ \A d \in 1 .. Depth : d # Depth => left'[d] = left[d]
      BY <1>1, <1>5 DEF CallInv
<1>8. ASSUME NEW d \in 1 .. Depth' PROVE EmitterLives(d)'
      <2>1. CASE d = Depth
            <3>1. static[Caller] => left[Depth] = 0
                  BY <1>1, <1>4 DEF EmitterLives
            <3>2. careful => Loop!Alive(Caller)
                  BY <1>1, <1>4 DEF EmitterLives
            <3> QED
                BY <1>1, <1>2, <1>4, <2>1, <3>1, <3>2 DEF EmitterLives, Loop!Alive
      <2>2. CASE d # Depth
            BY <1>2, <1>3, <1>7, <2>2 DEF CallInv, EmitterLives, Loop!Alive
      <2> QED
          BY <2>1, <2>2
<1>9. gone' \subseteq Timers
      BY <1>1 DEF EmitNext, CallInv
<1> QED
    BY <1>2, <1>6, <1>7, <1>8, <1>9 DEF CallInv

LEMMA CallStep == CallInv /\ StackType /\ Registry /\ KernelInv /\ [Next]_vars => CallInv'
<1> SUFFICES ASSUME CallInv, StackType, Registry, KernelInv, [Next]_vars PROVE CallInv'
    OBVIOUS
<1>1. ASSUME NEW t \in Timers, Read(t) PROVE CallInv'
      BY <1>1, ReadCallStep
<1>2. ASSUME NEW t \in Timers, Delete(t) \/ StaticDelete(t) PROVE CallInv'
      BY <1>2, DestroyCallStep
<1>3. CASE EmitNext
      BY <1>3, EmitCallStep
<1>4. CASE /\ ~EmitNext
           /\ \A t \in Timers : ~Read(t) /\ ~Delete(t) /\ ~StaticDelete(t)
      <2>1. StackType' /\ NoNewCaller
            BY <1>4, OnlyReadCalls
      <2>2. UNCHANGED <<left, gone, careful>>
            BY <1>4 DEF Next, vars, LoopOnly, Return, New, StaticSingleShot, Expire,
               SetSingleShot, SetActive, SetIntervalMs
      <2>3. TimersStay
            <3>1. CASE LoopOnly \/ Return \/ UNCHANGED vars
                  BY <3>1, LoopOnlyKeeps
                  DEF LoopOnly, Return, Loop!CallbackReturns, settings, vars, loopVars,
                      Loop!registry, TimersStay
            <3>2. ASSUME NEW u \in Timers,
                         New(u) \/ \E ms \in Intervals : StaticSingleShot(u, ms)
                  PROVE  TimersStay
                  <4>1. life[u] = "new" /\ life' = [life EXCEPT ![u] = "alive"]
                        BY <3>2, CreateIs DEF New, StaticSingleShot
                  <4>2. \A t \in Timers : t # u => static'[t] = static[t]
                        BY <3>2 DEF New, StaticSingleShot, settings, KernelInv, SettingsType
                  <4> QED
                      BY <4>1, <4>2 DEF Registry, TimersStay
            <3>3. ASSUME NEW u \in Timers, Expire(u) PROVE TimersStay
                  BY <3>3 DEF Expire, Loop!Arrive, Loop!registry, settings, TimersStay
            <3>4. ASSUME NEW u \in Timers,
                         \/ \E v \in BOOLEAN : SetSingleShot(u, v) \/ SetActive(u, v)
                         \/ \E ms \in Intervals : SetIntervalMs(u, ms)
                  PROVE  TimersStay
                  <4>1. UNCHANGED static
                        BY <3>4 DEF SetSingleShot, SetActive, SetIntervalMs
                  <4>2. UNCHANGED life
                        BY <3>4, SettingsStepIsALoopStep
                        DEF Loop!Withdraw, Loop!registry, loopVars
                  <4> QED
                      BY <4>1, <4>2 DEF TimersStay
            <3> QED
                BY <1>4, <3>1, <3>2, <3>3, <3>4 DEF Next
      <2> QED
          BY <2>1, <2>2, <2>3, QuietCallStep
<1> QED
    BY <1>1, <1>2, <1>3, <1>4

----------------------------------------------------------------------------
(* The arrays of epoll_wait, one per running loop *)

\* What is left of the d-th array names descriptors of timers that are alive,
\* other than the one whose callback that loop runs.
ArrayIsFresh(d) ==
    \A f \in stack[d].batch \cap Fds :
        /\ events[f] \in Timers /\ Loop!Alive(events[f])
        /\ fdOf[events[f]] = f /\ events[f] # stack[d].in

ArraysAreFresh == touched = {} /\ \A d \in 1 .. Depth : ArrayIsFresh(d)

BatchInv == careful => ArraysAreFresh

\* The d-th array only loses descriptors and the timers it still names stay.
LEMMA ArrayShrinks ==
    ASSUME NEW d, ArrayIsFresh(d),
           \A f \in Fds : f \in stack'[d].batch =>
               /\ f \in stack[d].batch /\ events'[f] = events[f]
               /\ life'[events[f]] = life[events[f]] /\ fdOf'[events[f]] = fdOf[events[f]]
               /\ events[f] # stack'[d].in
    PROVE  ArrayIsFresh(d)'
  BY DEF ArrayIsFresh, Loop!Alive

LEMMA SameArrays ==
    ArraysAreFresh /\ UNCHANGED <<stack, events, fdOf, life, touched>> => ArraysAreFresh'
  BY DEF ArraysAreFresh, ArrayIsFresh, Depth, Loop!Alive

LEMMA CreateArrayStep ==
    ASSUME ArraysAreFresh, Registry, NEW t \in Timers, Loop!Create(t)
    PROVE  ArraysAreFresh'
<1>1. PICK f \in Fds : /\ \A u \in Timers : fdOf[u] # f
                       /\ fdOf' = [fdOf EXCEPT ![t] = f]
                       /\ events' = [events EXCEPT ![f] = t]
      BY CreateIs
<1>2. /\ life[t] = "new" /\ life' = [life EXCEPT ![t] = "alive"]
      /\ UNCHANGED <<stack, touched>>
      BY CreateIs
<1>3. ASSUME NEW d \in 1 .. Depth PROVE ArrayIsFresh(d)'
      <2>1. ArrayIsFresh(d)
            BY DEF ArraysAreFresh
      <2>2. ASSUME NEW g \in Fds, g \in stack[d].batch
            PROVE  /\ events'[g] = events[g]
                   /\ life'[events[g]] = life[events[g]] /\ fdOf'[events[g]] = fdOf[events[g]]
                   /\ events[g] # stack[d].in
            <3>1. /\ events[g] \in Timers /\ life[events[g]] = "alive"
                  /\ fdOf[events[g]] = g /\ events[g] # stack[d].in
                  BY <2>1, <2>2 DEF ArrayIsFresh, Loop!Alive
            <3>2. g # f /\ events[g] # t
                  BY <1>1, <1>2, <3>1
            <3> QED
                BY <1>1, <1>2, <3>1, <3>2 DEF Registry
      <2> QED
          BY <1>2, <2>1, <2>2, ArrayShrinks
<1> QED
    BY <1>2, <1>3 DEF ArraysAreFresh, Depth

\* A timer is destroyed that no array lists, but perhaps that of a loop which
\* runs its callback.
LEMMA UnlistedArrayStep ==
    ASSUME ArraysAreFresh, Registry, NEW t \in Timers, Loop!Destroy(t),
           \A d \in 1 .. Depth : ~Listed(t, d) \/ stack[d].in = t
    PROVE  ArraysAreFresh'
<1>1. /\ life' = [life EXCEPT ![t] = "gone"] /\ fdOf' = [fdOf EXCEPT ![t] = None]
      /\ UNCHANGED <<events, stack, touched>>
      BY DestroyIs
<1>2. ASSUME NEW d \in 1 .. Depth PROVE ArrayIsFresh(d)'
      <2>1. ArrayIsFresh(d) /\ (fdOf[t] \notin stack[d].batch \/ stack[d].in = t)
            BY DEF ArraysAreFresh, Listed
      <2>2. ASSUME NEW g \in Fds, g \in stack[d].batch
            PROVE  /\ life'[events[g]] = life[events[g]] /\ fdOf'[events[g]] = fdOf[events[g]]
                   /\ events[g] # stack[d].in
            <3>1. events[g] \in Timers /\ fdOf[events[g]] = g /\ events[g] # stack[d].in
                  BY <2>1, <2>2 DEF ArrayIsFresh
            <3>2. events[g] # t
                  BY <2>1, <2>2, <3>1
            <3> QED
                BY <1>1, <3>1, <3>2 DEF Registry
      <2> QED
          BY <1>1, <2>1, <2>2, ArrayShrinks
<1> QED
    BY <1>1, <1>2 DEF ArraysAreFresh, Depth

LEMMA DestroyArrayStep ==
    ASSUME ArraysAreFresh, Registry, StackType, NEW t \in Timers,
           Delete(t) \/ StaticDelete(t), careful'
    PROVE  ArraysAreFresh'
<1>1. Loop!Destroy(t)
      BY DEF Delete, StaticDelete, Close
<1>2. CASE Delete(t)
      BY <1>1, <1>2, UnlistedArrayStep DEF Delete, InUse
<1>3. CASE StaticDelete(t)
      <2>1. /\ Caller = t /\ t # None /\ Loop!Alive(t)
            /\ \A d \in 1 .. Depth - 1 : ~Listed(t, d)
            BY <1>3, LoopAssumption DEF StaticDelete
      <2>2. Depth \in Nat /\ Depth >= 1 /\ stack[Depth].in = t
            BY <2>1, CallerIs, StackLength
      <2>3. ASSUME NEW d \in 1 .. Depth PROVE ~Listed(t, d) \/ stack[d].in = t
            <3>1. d = Depth \/ d \in 1 .. Depth - 1
                  BY <2>2
            <3> QED
                BY <2>1, <2>2, <3>1
      <2> QED
          BY <1>1, <2>3, UnlistedArrayStep
<1> QED
    BY <1>2, <1>3

\* The frame on top gets another value, whose array names no other descriptor
\* and whose callback is not one of a timer the array names.
LEMMA TopArrayStep ==
    ASSUME ArraysAreFresh, StackType, stack # <<>>,
           NEW frame \in Loop!Frame, Loop!ReplaceTop(frame),
           frame.batch \subseteq Loop!Top.batch,
           \A f \in frame.batch \cap Fds : events[f] # frame.in,
           UNCHANGED <<events, fdOf, life, touched>>
    PROVE  ArraysAreFresh'
<1>1. /\ Depth' = Depth /\ stack'[Depth] = frame
      /\ \A d \in 1 .. Depth : d # Depth => stack'[d] = stack[d]
      BY ReplaceTopIs
<1>2. Loop!Top = stack[Depth]
      BY DEF Loop!Top, Depth
<1>3. ASSUME NEW d \in 1 .. Depth PROVE ArrayIsFresh(d)'
      <2>1. ArrayIsFresh(d)
            BY DEF ArraysAreFresh
      <2>2. CASE d = Depth
            BY <1>1, <1>2, <2>1, <2>2, ArrayShrinks
      <2>3. CASE d # Depth
            BY <1>1, <2>1, <2>3 DEF ArrayIsFresh, Loop!Alive
      <2> QED
          BY <2>2, <2>3
<1> QED
    BY <1>1, <1>3 DEF ArraysAreFresh

LEMMA DispatchArrayStep ==
    ASSUME ArraysAreFresh, StackType, NEW f, Loop!InBatch(f),
           Loop!ReplaceTop([Loop!Top EXCEPT !.batch = @ \ {f}]),
           UNCHANGED <<events, fdOf, life, touched>>
    PROVE  ArraysAreFresh'
<1> DEFINE frame == [Loop!Top EXCEPT !.batch = @ \ {f}]
<1>1. stack # <<>> /\ Loop!Top \in Loop!Frame
      BY StackLength DEF Loop!InBatch
<1>2. /\ frame \in Loop!Frame /\ frame.in = Loop!Top.in
      /\ frame.batch \subseteq Loop!Top.batch
      BY <1>1 DEF Loop!Frame
<1>3. Loop!ReplaceTop(frame)
      OBVIOUS
<1> HIDE DEF frame
<1>4. ArrayIsFresh(Depth) /\ Loop!Top = stack[Depth]
      BY <1>1, StackLength DEF ArraysAreFresh, Loop!Top, Depth
<1>5. \A g \in frame.batch \cap Fds : events[g] # frame.in
      BY <1>2, <1>4 DEF ArrayIsFresh
<1> QED
    BY <1>1, <1>2, <1>3, <1>5, TopArrayStep

LEMMA WaitArrayStep ==
    ASSUME ArraysAreFresh, StackType, Registry, Loop!Wait
    PROVE  ArraysAreFresh'
<1> DEFINE frame == [waiting |-> FALSE, batch |-> Loop!Readable, in |-> None]
<1>1. /\ stack # <<>> /\ Loop!ReplaceTop(frame)
      /\ UNCHANGED <<events, fdOf, life, touched>>
      BY DEF Loop!Wait, Loop!registry
<1>2. frame \in Loop!Frame /\ frame.in = None /\ frame.batch = Loop!Readable
      BY DEF Loop!Frame, Loop!Readable, Registry
<1> HIDE DEF frame
<1>3. /\ Depth' = Depth /\ stack'[Depth] = frame
      /\ \A d \in 1 .. Depth : d # Depth => stack'[d] = stack[d]
      BY <1>1, <1>2, ReplaceTopIs
<1>4. ASSUME NEW f \in Loop!Readable \cap Fds
      PROVE  events[f] \in Timers /\ Loop!Alive(events[f]) /\ fdOf[events[f]] = f
      <2>1. f \in interest
            BY LoopAssumption DEF Loop!Readable
      <2> QED
          BY <2>1 DEF Registry, Loop!InterestRegistered
<1>5. ArrayIsFresh(Depth)'
      BY <1>1, <1>2, <1>3, <1>4, LoopAssumption DEF ArrayIsFresh, Loop!Alive
<1>6. ASSUME NEW d \in 1 .. Depth, d # Depth PROVE ArrayIsFresh(d)'
      BY <1>1, <1>3, <1>6 DEF ArraysAreFresh, ArrayIsFresh, Loop!Alive
<1> QED
    BY <1>1, <1>3, <1>5, <1>6 DEF ArraysAreFresh

LEMMA LoopOnlyArrayStep ==
    ASSUME ArraysAreFresh, StackType, Registry, LoopOnly
    PROVE  ArraysAreFresh'
<1>1. UNCHANGED <<events, fdOf, life>>
      BY LoopOnlyKeeps DEF Loop!registry
<1>2. CASE Loop!Test
      <2> DEFINE frame == [Loop!Top EXCEPT !.waiting = TRUE]
      <2>1. /\ stack # <<>> /\ Loop!ReplaceTop(frame) /\ UNCHANGED touched
            /\ Loop!Top.batch = {}
            BY <1>2 DEF Loop!Test, Loop!AtCheck
      <2>2. Loop!Top \in Loop!Frame
            BY <2>1, StackLength
      <2>3. frame \in Loop!Frame /\ frame.batch = {}
            BY <2>1, <2>2 DEF Loop!Frame
      <2> HIDE DEF frame
      <2> QED
          BY <1>1, <2>1, <2>3, TopArrayStep
<1>3. CASE Loop!Wait
      BY <1>3, WaitArrayStep
<1>4. CASE Loop!ExecReturns
      <2> DEFINE n == Depth - 1
      <2>1. /\ stack # <<>> /\ UNCHANGED touched
            /\ stack' = SubSeq(stack, 1, n)
            BY <1>4 DEF Loop!ExecReturns, Loop!AtCheck, Depth
      <2>2. n \in Nat /\ \A d \in 1 .. n : d \in 1 .. Depth /\ stack[d] \in Loop!Frame
            BY <2>1, StackLength
      <2> HIDE DEF n
      <2>3. /\ Len(SubSeq(stack, 1, n)) = IF 1 <= n THEN n - 1 + 1 ELSE 0
            /\ \A d \in 1 .. n - 1 + 1 : SubSeq(stack, 1, n)[d] = stack[1 + d - 1]
            BY <2>2, SubSeqProperties
      <2>4. Depth' = n /\ \A d \in 1 .. n : stack'[d] = stack[d]
            BY <2>1, <2>2, <2>3 DEF Depth
      <2>5. ASSUME NEW d \in 1 .. n PROVE ArrayIsFresh(d)'
            BY <1>1, <2>2, <2>4 DEF ArraysAreFresh, ArrayIsFresh, Loop!Alive
      <2> QED
          BY <2>1, <2>4, <2>5 DEF ArraysAreFresh
<1>5. CASE Loop!DispatchWake \/ \E f \in Fds : Loop!DispatchNothing(f)
      BY <1>1, <1>5, DispatchArrayStep DEF Loop!DispatchWake, Loop!DispatchNothing
<1>6. ASSUME NEW f \in Fds, Loop!DispatchDestroyed(f) PROVE FALSE
      <2>1. stack # <<>> /\ f \in Loop!Top.batch /\ ~Loop!Alive(events[f])
            BY <1>6 DEF Loop!DispatchDestroyed, Loop!InBatch
      <2>2. ArrayIsFresh(Depth) /\ Loop!Top = stack[Depth]
            BY <2>1, StackLength DEF ArraysAreFresh, Loop!Top, Depth
      <2> QED
          BY <2>1, <2>2 DEF ArrayIsFresh
<1>7. CASE Loop!Exec
      <2> DEFINE frame == [waiting |-> FALSE, batch |-> {}, in |-> None]
      <2>1. stack' = Append(stack, frame) /\ UNCHANGED touched
            BY <1>7 DEF Loop!Exec
      <2>2. frame \in Loop!Frame /\ frame.batch = {} /\ stack \in Seq(Loop!Frame)
            BY DEF Loop!Frame, StackType
      <2> HIDE DEF frame
      <2>3. /\ Depth' = Depth + 1 /\ stack'[Depth + 1] = frame
            /\ \A d \in 1 .. Depth : stack'[d] = stack[d]
            BY <2>1, <2>2, AppendProperties DEF Depth
      <2>4. ASSUME NEW d \in 1 .. Depth' PROVE ArrayIsFresh(d)'
            <3>1. d \in 1 .. Depth \/ d = Depth + 1
                  BY <2>3, StackLength
            <3>2. CASE d \in 1 .. Depth
                  BY <1>1, <2>3, <3>2 DEF ArraysAreFresh, ArrayIsFresh, Loop!Alive
            <3>3. CASE d = Depth + 1
                  BY <2>2, <2>3, <3>3 DEF ArrayIsFresh
            <3> QED
                BY <3>1, <3>2, <3>3
      <2> QED
          BY <2>1, <2>4 DEF ArraysAreFresh
<1>8. CASE Loop!Quit \/ Loop!QuitFromThread
      BY <1>1, <1>8, SameArrays DEF Loop!Quit, Loop!QuitFromThread
<1> QED
    BY <1>2, <1>3, <1>4, <1>5, <1>6, <1>7, <1>8 DEF LoopOnly

LEMMA ReturnArrayStep ==
    ASSUME ArraysAreFresh, StackType, Return
    PROVE  ArraysAreFresh'
<1> DEFINE frame == [Loop!Top EXCEPT !.in = None]
<1>1. /\ stack # <<>> /\ Loop!ReplaceTop(frame)
      /\ UNCHANGED <<events, fdOf, life, touched>>
      BY DEF Return, Loop!CallbackReturns, Loop!registry
<1>2. Loop!Top \in Loop!Frame
      BY <1>1, StackLength
<1>3. frame \in Loop!Frame /\ frame.in = None /\ frame.batch = Loop!Top.batch
      BY <1>2 DEF Loop!Frame
<1> HIDE DEF frame
<1>4. ArrayIsFresh(Depth) /\ Loop!Top = stack[Depth]
      BY <1>1, StackLength DEF ArraysAreFresh, Loop!Top, Depth
<1>5. \A f \in frame.batch \cap Fds : events[f] # frame.in
      BY <1>3, <1>4, LoopAssumption DEF ArrayIsFresh
<1> QED
    BY <1>1, <1>3, <1>5, TopArrayStep

LEMMA ReadArrayStep ==
    ASSUME ArraysAreFresh, StackType, NEW t \in Timers, Read(t)
    PROVE  ArraysAreFresh'
<1>1. PICK f \in Fds : /\ Loop!InBatch(f) /\ events[f] = t
                       /\ Loop!ReplaceTop([Loop!Top EXCEPT !.batch = @ \ {f}, !.in = t])
      BY DEF Read, Loop!Dispatch
<1>2. UNCHANGED <<events, fdOf, life, touched>>
      BY DEF Read, Loop!Dispatch, Loop!registry
<1> DEFINE frame == [Loop!Top EXCEPT !.batch = @ \ {f}, !.in = t]
<1>3. /\ stack # <<>> /\ Loop!ReplaceTop(frame) /\ f \in Loop!Top.batch
      /\ Loop!Top \in Loop!Frame
      BY <1>1, StackLength DEF Loop!InBatch
<1>4. frame \in Loop!Frame /\ frame.in = t /\ frame.batch = Loop!Top.batch \ {f}
      BY <1>3 DEF Loop!Frame
<1> HIDE DEF frame
<1>5. ArrayIsFresh(Depth) /\ Loop!Top = stack[Depth]
      BY <1>3, StackLength DEF ArraysAreFresh, Loop!Top, Depth
<1>6. \A g \in frame.batch \cap Fds : events[g] # frame.in
      BY <1>1, <1>3, <1>4, <1>5 DEF ArrayIsFresh
<1> QED
    BY <1>2, <1>3, <1>4, <1>6, TopArrayStep

LEMMA BatchInit == Init => BatchInv
<1> SUFFICES ASSUME Init PROVE ArraysAreFresh
    BY DEF BatchInv
<1>1. stack = <<>> /\ touched = {}
      BY DEF Init, Loop!Init
<1>2. Depth = 0
      BY <1>1, EmptySeq DEF Depth
<1> QED
    BY <1>1, <1>2 DEF ArraysAreFresh

LEMMA BatchStep ==
    ASSUME BatchInv, StackType, Registry, [Next]_vars
    PROVE  BatchInv'
<1> SUFFICES ASSUME careful' PROVE ArraysAreFresh'
    BY DEF BatchInv
<1>1. careful
      BY DEF Next, vars, LoopOnly, EmitNext, Return, New, StaticSingleShot, Expire, Delete,
         StaticDelete, Read, SetSingleShot, SetActive, SetIntervalMs
<1>2. ArraysAreFresh
      BY <1>1 DEF BatchInv
<1>3. CASE LoopOnly
      BY <1>2, <1>3, LoopOnlyArrayStep
<1>4. ASSUME NEW t \in Timers, New(t) \/ \E ms \in Intervals : StaticSingleShot(t, ms)
      PROVE  ArraysAreFresh'
      BY <1>2, <1>4, CreateArrayStep DEF New, StaticSingleShot
<1>5. ASSUME NEW t \in Timers, Delete(t) \/ StaticDelete(t) PROVE ArraysAreFresh'
      BY <1>2, <1>5, DestroyArrayStep
<1>6. ASSUME NEW t \in Timers, Read(t) PROVE ArraysAreFresh'
      BY <1>2, <1>6, ReadArrayStep
<1>7. ASSUME NEW t \in Timers, Expire(t) PROVE ArraysAreFresh'
      BY <1>2, <1>7, SameArrays DEF Expire, Loop!Arrive, Loop!registry, Loop!loopState
<1>8. ASSUME NEW t \in Timers,
             \/ \E v \in BOOLEAN : SetSingleShot(t, v) \/ SetActive(t, v)
             \/ \E ms \in Intervals : SetIntervalMs(t, ms)
      PROVE  ArraysAreFresh'
      BY <1>2, <1>8, SettingsStepIsALoopStep, SameArrays
      DEF Loop!Withdraw, Loop!registry, Loop!loopState, loopVars
<1>9. CASE Return
      BY <1>2, <1>9, ReturnArrayStep
<1>10. CASE EmitNext \/ UNCHANGED vars
      BY <1>2, <1>10, SameArrays DEF EmitNext, vars, loopVars
<1> QED
    BY <1>3, <1>4, <1>5, <1>6, <1>7, <1>8, <1>9, <1>10 DEF Next

----------------------------------------------------------------------------
(* The loop's flags *)

FlagType ==
    /\ hasWake \in BOOLEAN /\ woken \in BOOLEAN /\ running \in BOOLEAN
    /\ quitter \in 0 .. 1
    /\ touched \subseteq Timers

SameFlags == UNCHANGED <<hasWake, woken, running, quitter, touched>>

LEMMA FlagsKept == FlagType /\ SameFlags => FlagType'
  BY DEF FlagType, SameFlags

LEMMA LoopOnlyFlags ==
    ASSUME FlagType, Registry, LoopOnly
    PROVE  FlagType'
<1>1. CASE Loop!Test \/ Loop!Wait \/ Loop!ExecReturns \/ \E f \in Fds : Loop!DispatchNothing(f)
      BY <1>1, FlagsKept
      DEF Loop!Test, Loop!Wait, Loop!ExecReturns, Loop!DispatchNothing, SameFlags
<1>2. CASE Loop!DispatchWake
      <2>1. woken' = FALSE /\ UNCHANGED <<hasWake, running, quitter, touched>>
            BY <1>2 DEF Loop!DispatchWake
      <2> QED
          BY <2>1 DEF FlagType
<1>3. ASSUME NEW f \in Fds, Loop!DispatchDestroyed(f) PROVE FlagType'
      <2>1. /\ touched' = touched \cup {events[f]} /\ events[f] # None
            /\ UNCHANGED <<hasWake, woken, running, quitter>>
            BY <1>3 DEF Loop!DispatchDestroyed
      <2> QED
          BY <2>1 DEF FlagType, Registry
<1>4. CASE Loop!Exec
      <2>1. hasWake' = TRUE /\ running' = TRUE /\ UNCHANGED <<woken, quitter, touched>>
            BY <1>4 DEF Loop!Exec
      <2> QED
          BY <2>1 DEF FlagType
<1>5. CASE Loop!Quit
      <2>1. /\ running' = FALSE /\ woken' = (woken \/ hasWake)
            /\ UNCHANGED <<hasWake, quitter, touched>>
            BY <1>5 DEF Loop!Quit
      <2>2. woken' \in BOOLEAN
            BY <2>1
      <2>3. hasWake' \in BOOLEAN /\ running' \in BOOLEAN
            BY <2>1 DEF FlagType
      <2>4. quitter' \in 0 .. 1 /\ touched' \subseteq Timers
            BY <2>1 DEF FlagType
      <2> QED
          BY <2>2, <2>3, <2>4 DEF FlagType
<1>6. CASE Loop!QuitFromThread
      <2>1. /\ Loop!QuitPart(quitter) /\ quitter' = 1 - quitter
            /\ UNCHANGED <<hasWake, touched>> /\ (quitter = 0 \/ quitter = 1)
            BY <1>6 DEF Loop!QuitFromThread, FlagType
      <2>2. quitter' \in 0 .. 1 /\ touched' \subseteq Timers
            BY <2>1 DEF FlagType
      <2>3. CASE quitter = 0
            <3>1. running' = FALSE /\ UNCHANGED woken
                  BY <2>1, <2>3 DEF Loop!QuitPart
            <3>2. hasWake' \in BOOLEAN /\ woken' \in BOOLEAN /\ running' \in BOOLEAN
                  BY <2>1, <3>1 DEF FlagType
            <3> QED
                BY <2>2, <3>2 DEF FlagType
      <2>4. CASE quitter = 1
            <3>1. woken' = (woken \/ hasWake) /\ UNCHANGED running
                  BY <2>1, <2>4 DEF Loop!QuitPart
            <3>2. woken' \in BOOLEAN
                  BY <3>1
            <3>3. hasWake' \in BOOLEAN /\ running' \in BOOLEAN
                  BY <2>1, <3>1 DEF FlagType
            <3> QED
                BY <2>2, <3>2, <3>3 DEF FlagType
      <2> QED
          BY <2>1, <2>3, <2>4
<1> QED
    BY <1>1, <1>2, <1>3, <1>4, <1>5, <1>6 DEF LoopOnly

LEMMA FlagStep == FlagType /\ Registry /\ [Next]_vars => FlagType'
<1> SUFFICES ASSUME FlagType, Registry, [Next]_vars PROVE FlagType'
    OBVIOUS
<1>1. CASE LoopOnly
      BY <1>1, LoopOnlyFlags
<1>2. ASSUME NEW t \in Timers, New(t) \/ \E ms \in Intervals : StaticSingleShot(t, ms)
      PROVE  SameFlags
      BY <1>2 DEF New, StaticSingleShot, Loop!Create, Loop!loopState, SameFlags
<1>3. ASSUME NEW t \in Timers, Delete(t) \/ StaticDelete(t) \/ Expire(t) \/ Read(t)
      PROVE  SameFlags
      BY <1>3 DEF Delete, StaticDelete, Close, Loop!Destroy, Loop!loopState, Expire,
         Loop!Arrive, Read, Loop!Dispatch, SameFlags
<1>4. ASSUME NEW t \in Timers,
             \/ \E v \in BOOLEAN : SetSingleShot(t, v) \/ SetActive(t, v)
             \/ \E ms \in Intervals : SetIntervalMs(t, ms)
      PROVE  SameFlags
      BY <1>4, SettingsStepIsALoopStep DEF Loop!Withdraw, Loop!loopState, loopVars, SameFlags
<1>5. CASE EmitNext \/ Return \/ UNCHANGED vars
      BY <1>5, FlagsKept DEF EmitNext, Return, Loop!CallbackReturns, vars, loopVars, SameFlags
<1> QED
    BY <1>1, <1>2, <1>3, <1>4, <1>5, FlagsKept DEF Next

----------------------------------------------------------------------------
(* The theorems *)

\* The inductive invariant. Registry is about the loop, StackType about the
\* calls of exec(), KernelInv about the timerfds, CallInv about onRead.
TimerInv == Registry /\ StackType /\ FlagType /\ KernelInv /\ CallInv

LEMMA TimerInvInit == Init => TimerInv
<1> SUFFICES ASSUME Init PROVE TimerInv
    OBVIOUS
<1>1. /\ events = [f \in Fds |-> None] /\ interest = {} /\ ready = {}
      /\ fdOf = [t \in Timers |-> None] /\ life = [t \in Timers |-> "new"]
      /\ stack = <<>> /\ quitter = 0 /\ touched = {}
      BY DEF Init, Loop!Init
<1>2. Registry
      BY <1>1 DEF Registry, Loop!InterestRegistered
<1>3. StackType /\ Depth = 0
      BY <1>1, EmptySeq, LoopAssumption DEF StackType, Depth
<1>4. FlagType
      <2>1. hasWake = FALSE /\ woken = FALSE /\ running = FALSE
            BY DEF Init, Loop!Init
      <2>2. hasWake \in BOOLEAN /\ woken \in BOOLEAN /\ running \in BOOLEAN
            BY <2>1
      <2>3. quitter \in 0 .. 1 /\ touched \subseteq Timers
            BY <1>1
      <2> QED
          BY <2>2, <2>3 DEF FlagType
<1>5. /\ singleShot = [t \in Timers |-> FALSE] /\ intervalMs = [t \in Timers |-> Default]
      /\ active = [t \in Timers |-> FALSE] /\ static = [t \in Timers |-> FALSE]
      /\ armed = [t \in Timers |-> "off"] /\ ticks = [t \in Timers |-> 0]
      /\ left = [d \in 1 .. MaxDepth |-> 0] /\ gone = {} /\ careful = TRUE
      BY DEF Init
<1>6. SettingsType
      BY <1>5, IntervalAssumption, TickAssumption DEF SettingsType
<1>7. KernelInv
      BY <1>1, <1>5, <1>6 DEF KernelInv, TimerFits, Loop!Alive
<1>8. CallInv
      BY <1>3, <1>5, TickAssumption, LoopAssumption DEF CallInv
<1> QED
    BY <1>2, <1>3, <1>4, <1>7, <1>8 DEF TimerInv

LEMMA TimerInvariance == Spec => []TimerInv
<1>1. TimerInv /\ [Next]_vars => TimerInv'
      BY RegistryStep, StackStep, FlagStep, KernelStep, CallStep DEF TimerInv
<1> QED
    BY <1>1, TimerInvInit, PTL DEF Spec

\* Every variable of the timers and of the loop below them keeps its type.
THEOREM TimerTypeCorrect == Spec => []TypeOK
<1>1. TimerInv => TypeOK
      BY DEF TimerInv, Registry, StackType, FlagType, KernelInv, SettingsType, CallInv, TypeOK,
         Loop!TypeOK
<1> QED
    BY <1>1, TimerInvariance, PTL

\* Whatever the order of start(), stop(), the setters and their early returns,
\* the kernel's timer is the one the fields describe.
THEOREM KernelFollows == Spec => []KernelAgrees
<1>1. TimerInv => KernelAgrees
      BY DEF TimerInv, KernelInv, TimerFits, KernelAgrees
<1> QED
    BY <1>1, TimerInvariance, PTL

\* While a timer is stopped no call of its onRead begins to emit, though
\* epoll_wait may have reported it: stop() took back what onRead would read.
\* The calls that are running go on with what they have read, and only that.
THEOREM StopDrains == Spec => StoppedOnlyDrains
<1>1. TimerInv /\ [Next]_vars
        => [\A t \in Timers : ~active[t] =>
               \A d \in 1 .. Depth' : stack'[d].in = t =>
                   d <= Depth /\ stack[d].in = t /\ left'[d] <= left[d]]_vars
      BY DrainStep DEF TimerInv, CallInv
<1> QED
    BY <1>1, TimerInvariance, PTL DEF Spec, StoppedOnlyDrains

\* For every program, however its loops nest and wherever it deletes timers:
\* the loop or onRead uses a destroyed timer only after the program has
\* deleted one that a running exec() still needed, or has let a static timer
\* fire in a nested loop while an outer one had it listed. Static timers are
\* otherwise safe: they have one Timeout only, and the array of their own loop
\* does not name them again.
THEOREM NothingDangles == Spec => []NothingDestroyedIsUsed
<1>1. Init => BatchInv
      BY BatchInit
<1>2. TimerInv /\ BatchInv /\ [Next]_vars => BatchInv'
      BY BatchStep DEF TimerInv
<1>3. TimerInv /\ BatchInv => NothingDestroyedIsUsed
      BY DEF TimerInv, CallInv, BatchInv, ArraysAreFresh, NothingDestroyedIsUsed
<1> QED
    BY <1>1, <1>2, <1>3, TimerInvariance, PTL DEF Spec

============================================================================
