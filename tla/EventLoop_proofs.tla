------------------------- MODULE EventLoop_proofs -------------------------
(***************************************************************************)
(* Proofs about EventLoop, for any sources, any number of descriptors and  *)
(* any depth of nested loops.                                              *)
(***************************************************************************)
EXTENDS EventLoop, SequenceTheorems, TLAPS

----------------------------------------------------------------------------
(* The table of callbacks and the epoll set *)

RegistryType ==
    /\ events \in [Fds -> Sources \cup {None}]
    /\ interest \subseteq Fds
    /\ fdOf \in [Sources -> Fds \cup {None}]
    /\ life \in [Sources -> {"new", "alive", "gone"}]

\* An entry of a connection is that of a connection that exists, under the
\* descriptor it has open: removeEvent erases the right one, and a number used
\* again is overwritten.
EntriesOfRemovers ==
    \A f \in Fds : events[f] \in Removing => Alive(events[f]) /\ fdOf[events[f]] = f

LoopInv ==
    /\ RegistryType /\ touched \subseteq Sources
    /\ InterestRegistered
    /\ EntriesOfRemovers
    /\ RemovedNeverCalled

\* Steps that leave the registry alone and call no dangling entry.
LEMMA RegistryUntouched ==
    ASSUME LoopInv, UNCHANGED <<registry, touched>>
    PROVE  LoopInv'
<1>1. RegistryType' /\ touched' \subseteq Sources
      BY DEF LoopInv, RegistryType, registry
<1>2. InterestRegistered' /\ EntriesOfRemovers' /\ RemovedNeverCalled'
      BY DEF LoopInv, InterestRegistered, EntriesOfRemovers, RemovedNeverCalled,
         registry, Alive
<1> QED
    BY <1>1, <1>2 DEF LoopInv

LEMMA CreateStep ==
    ASSUME LoopInv, NEW o \in Sources, Create(o)
    PROVE  LoopInv'
<1>1. PICK f \in Fds \ {fdOf[p] : p \in Sources} :
         /\ fdOf' = [fdOf EXCEPT ![o] = f]
         /\ \/ AddEvent(f, o)
            \/ o \in Removing /\ UNCHANGED <<events, interest>>
      BY DEF Create
<1>2. /\ life[o] = "new" /\ life' = [life EXCEPT ![o] = "alive"]
      /\ UNCHANGED touched
      BY DEF Create
<1>3. /\ events \in [Fds -> Sources \cup {None}] /\ interest \subseteq Fds
      /\ fdOf \in [Sources -> Fds \cup {None}]
      /\ life \in [Sources -> {"new", "alive", "gone"}]
      BY DEF LoopInv, RegistryType
<1>4. \A p \in Sources : fdOf[p] # f
      BY <1>1
<1>5. \A p \in Sources : Alive(p) => p # o /\ life'[p] = "alive" /\ fdOf'[p] = fdOf[p]
      BY <1>1, <1>2, <1>3 DEF Alive
<1>6. life'[o] = "alive" /\ fdOf'[o] = f
      BY <1>1, <1>2, <1>3
<1>7. RegistryType'
      BY <1>1, <1>2, <1>3 DEF RegistryType, AddEvent
<1>8. InterestRegistered'
      <2> SUFFICES ASSUME NEW g \in interest'
                   PROVE  \E p \in Sources :
                             events'[g] = p /\ life'[p] = "alive" /\ fdOf'[p] = g
          BY DEF InterestRegistered, Alive
      <2>1. CASE g \in interest
            <3>1. PICK p \in Sources : events[g] = p /\ Alive(p) /\ fdOf[p] = g
                  BY <2>1 DEF LoopInv, InterestRegistered
            <3>2. events'[g] = p
                  BY <1>1, <1>3, <1>4, <3>1 DEF AddEvent
            <3> QED
                BY <1>5, <3>1, <3>2
      <2>2. CASE g \notin interest
            <3>1. g = f /\ events'[f] = o
                  BY <1>1, <1>3, <2>2 DEF AddEvent
            <3> QED
                BY <1>6, <3>1
      <2> QED
          BY <2>1, <2>2
<1>9. EntriesOfRemovers'
      <2> SUFFICES ASSUME NEW g \in Fds, events'[g] \in Removing
                   PROVE  life'[events'[g]] = "alive" /\ fdOf'[events'[g]] = g
          BY DEF EntriesOfRemovers, Alive
      <2>1. CASE events'[g] = events[g]
            <3>1. Alive(events[g]) /\ fdOf[events[g]] = g /\ events[g] \in Sources
                  BY <2>1, SourceAssumption DEF LoopInv, EntriesOfRemovers
            <3> QED
                BY <1>5, <2>1, <3>1
      <2>2. CASE events'[g] # events[g]
            <3>1. g = f /\ events'[g] = o
                  BY <1>1, <1>3, <2>2 DEF AddEvent
            <3> QED
                BY <1>6, <3>1
      <2> QED
          BY <2>1, <2>2
<1>10. touched' \subseteq Sources /\ RemovedNeverCalled'
       BY <1>2 DEF LoopInv, RemovedNeverCalled
<1> QED
    BY <1>7, <1>8, <1>9, <1>10 DEF LoopInv

LEMMA DestroyStep ==
    ASSUME LoopInv, NEW o \in Sources, Destroy(o)
    PROVE  LoopInv'
<1>1. /\ life' = [life EXCEPT ![o] = "gone"]
      /\ fdOf' = [fdOf EXCEPT ![o] = None]
      /\ interest' = interest \ {fdOf[o]}
      /\ events' = IF o \in Removing THEN [events EXCEPT ![fdOf[o]] = None] ELSE events
      /\ UNCHANGED touched
      BY DEF Destroy, Release
<1>2. /\ events \in [Fds -> Sources \cup {None}] /\ interest \subseteq Fds
      /\ fdOf \in [Sources -> Fds \cup {None}]
      /\ life \in [Sources -> {"new", "alive", "gone"}]
      BY DEF LoopInv, RegistryType
<1>3. RegistryType'
      BY <1>1, <1>2 DEF RegistryType
<1>4. \A p \in Sources : p # o => life'[p] = life[p] /\ fdOf'[p] = fdOf[p]
      BY <1>1, <1>2
<1>5. \A g \in Fds : g # fdOf[o] => events'[g] = events[g]
      BY <1>1, <1>2
<1>6. InterestRegistered'
      <2> SUFFICES ASSUME NEW g \in interest'
                   PROVE  \E p \in Sources :
                             events'[g] = p /\ life'[p] = "alive" /\ fdOf'[p] = g
          BY DEF InterestRegistered, Alive
      <2>1. g \in interest /\ g \in Fds /\ g # fdOf[o]
            BY <1>1, <1>2
      <2>2. PICK p \in Sources : events[g] = p /\ life[p] = "alive" /\ fdOf[p] = g
            BY <2>1 DEF LoopInv, InterestRegistered, Alive
      <2> QED
          BY <1>4, <1>5, <2>1, <2>2
<1>7. EntriesOfRemovers'
      <2> SUFFICES ASSUME NEW g \in Fds, events'[g] \in Removing
                   PROVE  life'[events'[g]] = "alive" /\ fdOf'[events'[g]] = g
          BY DEF EntriesOfRemovers, Alive
      <2>1. None \notin Removing
            BY SourceAssumption
      <2>2. events'[g] = events[g]
            BY <1>1, <1>2, <2>1
      <2>3. life[events[g]] = "alive" /\ fdOf[events[g]] = g /\ events[g] \in Sources
            BY <2>2, SourceAssumption DEF LoopInv, EntriesOfRemovers, Alive
      <2>4. events[g] # o
            BY <1>1, <1>2, <2>1, <2>2, <2>3
      <2> QED
          BY <1>4, <2>2, <2>3, <2>4
<1>8. touched' \subseteq Sources /\ RemovedNeverCalled'
      BY <1>1 DEF LoopInv, RemovedNeverCalled
<1> QED
    BY <1>3, <1>6, <1>7, <1>8 DEF LoopInv

\* The entry that is called after its source has gone is no connection's.
LEMMA DanglingStep ==
    ASSUME LoopInv, NEW f \in Fds, DispatchDestroyed(f)
    PROVE  LoopInv'
<1>1. /\ events[f] # None /\ ~Alive(events[f])
      /\ touched' = touched \cup {events[f]}
      /\ UNCHANGED registry
      BY DEF DispatchDestroyed
<1>2. events[f] \in Sources /\ events[f] \notin Removing
      BY <1>1 DEF LoopInv, RegistryType, EntriesOfRemovers
<1>3. touched' \subseteq Sources /\ RemovedNeverCalled'
      BY <1>1, <1>2 DEF LoopInv, RemovedNeverCalled
<1>4. RegistryType'
      BY <1>1 DEF LoopInv, RegistryType, registry
<1>5. InterestRegistered' /\ EntriesOfRemovers'
      BY <1>1 DEF LoopInv, InterestRegistered, EntriesOfRemovers, registry, Alive
<1> QED
    BY <1>3, <1>4, <1>5 DEF LoopInv

LEMMA LoopInvStep == LoopInv /\ [Next]_vars => LoopInv'
<1> SUFFICES ASSUME LoopInv, [Next]_vars PROVE LoopInv'
    OBVIOUS
<1>1. CASE Test \/ Wait \/ ExecReturns \/ DispatchWake
      BY <1>1, RegistryUntouched DEF Test, Wait, ExecReturns, DispatchWake
<1>2. ASSUME NEW f \in Fds, DispatchNothing(f) \/ DispatchDestroyed(f) PROVE LoopInv'
      BY <1>2, RegistryUntouched, DanglingStep DEF DispatchNothing
<1>3. ASSUME NEW o \in Sources, Dispatch(o) PROVE LoopInv'
      BY <1>3, RegistryUntouched DEF Dispatch
<1>4. CASE CallbackReturns \/ Exec \/ Quit \/ QuitFromThread
      BY <1>4, RegistryUntouched DEF CallbackReturns, Exec, Quit, QuitFromThread
<1>5. ASSUME NEW o \in Sources, Create(o) \/ Destroy(o) \/ Arrive(o) \/ Withdraw(o)
      PROVE  LoopInv'
      BY <1>5, CreateStep, DestroyStep, RegistryUntouched DEF Arrive, Withdraw
<1>6. CASE UNCHANGED vars
      BY <1>6, RegistryUntouched DEF vars
<1> QED
    BY <1>1, <1>2, <1>3, <1>4, <1>5, <1>6 DEF Next, LoopStep

LEMMA LoopInvariance == Spec => []LoopInv
<1>1. Init => LoopInv
      <2> SUFFICES ASSUME Init PROVE LoopInv
          OBVIOUS
      <2>1. /\ events = [f \in Fds |-> None] /\ interest = {}
            /\ fdOf = [o \in Sources |-> None]
            /\ life = [o \in Sources |-> "new"] /\ touched = {}
            BY DEF Init
      <2>2. RegistryType
            BY <2>1 DEF RegistryType
      <2>3. InterestRegistered /\ RemovedNeverCalled
            BY <2>1 DEF InterestRegistered, RemovedNeverCalled
      <2>4. EntriesOfRemovers
            BY <2>1, SourceAssumption DEF EntriesOfRemovers
      <2> QED
          BY <2>1, <2>2, <2>3, <2>4 DEF LoopInv
<1> QED
    BY <1>1, LoopInvStep, PTL DEF Spec

\* A descriptor the kernel may report belongs to the live source whose
\* callback the table holds for it.
THEOREM InterestIsRegistered == Spec => []InterestRegistered
<1>1. LoopInv => InterestRegistered
      BY DEF LoopInv
<1> QED
    BY <1>1, LoopInvariance, PTL

\* No connection is called after its destruction, however deep the loops
\* nest and whatever arrays of earlier waits still name its descriptor.
THEOREM RemovedStayAway == Spec => []RemovedNeverCalled
<1>1. LoopInv => RemovedNeverCalled
      BY DEF LoopInv
<1> QED
    BY <1>1, LoopInvariance, PTL

----------------------------------------------------------------------------
(* Types *)

StackType == stack \in Seq(Frame) /\ Len(stack) <= MaxDepth

\* The frame on top is a frame, and replacing it by one keeps the stack.
LEMMA TopType ==
    ASSUME StackType, stack # <<>>
    PROVE  Top \in Frame /\ Len(stack) \in 1 .. Len(stack)
<1>1. stack \in Seq(Frame)
      BY DEF StackType
<1>2. Len(stack) \in Nat \ {0}
      BY <1>1, EmptySeq
<1> QED
    BY <1>1, <1>2 DEF Top

LEMMA ReplaceTopType ==
    ASSUME StackType, stack # <<>>, NEW frame \in Frame, ReplaceTop(frame)
    PROVE  StackType'
<1>1. stack \in Seq(Frame) /\ Len(stack) <= MaxDepth
      BY DEF StackType
<1>2. stack' = [stack EXCEPT ![Len(stack)] = frame]
      BY DEF ReplaceTop
<1>3. stack' \in Seq(Frame) /\ Len(stack') = Len(stack)
      BY <1>1, <1>2, TopType, ExceptSeq
<1> QED
    BY <1>1, <1>3 DEF StackType

LEMMA KeepStack == StackType /\ UNCHANGED stack => StackType'
  BY DEF StackType

LEMMA StackStep == RegistryType /\ StackType /\ [Next]_vars => StackType'
<1> SUFFICES ASSUME RegistryType, StackType, [Next]_vars PROVE StackType'
    OBVIOUS
<1>1. CASE Wait
      <2>1. Readable \subseteq Fds \cup {Wake}
            BY DEF Readable, RegistryType
      <2>2. [waiting |-> FALSE, batch |-> Readable, in |-> None] \in Frame
            BY <2>1 DEF Frame
      <2> QED
          BY <1>1, <2>2, ReplaceTopType DEF Wait
<1>2. CASE ExecReturns
      <2>1. stack \in Seq(Frame) /\ Len(stack) <= MaxDepth /\ stack # <<>>
            BY <1>2 DEF StackType, ExecReturns, AtCheck
      <2>2. Len(stack) \in Nat \ {0}
            BY <2>1, EmptySeq
      <2>3. stack' = SubSeq(stack, 1, Len(stack) - 1)
            BY <1>2 DEF ExecReturns
      <2>4. \A i \in 1 .. Len(stack) - 1 : stack[i] \in Frame
            BY <2>1, <2>2, ElementOfSeq
      <2>5. stack' \in Seq(Frame) /\ Len(stack') = Len(stack) - 1
            <3> DEFINE n == Len(stack) - 1
            <3>1. n \in Nat /\ \A i \in 1 .. n : stack[i] \in Frame
                  BY <2>2, <2>4
            <3>2. stack' = SubSeq(stack, 1, n)
                  BY <2>3
            <3> HIDE DEF n
            <3>3. /\ SubSeq(stack, 1, n) \in Seq(Frame)
                  /\ Len(SubSeq(stack, 1, n)) = IF 1 <= n THEN n - 1 + 1 ELSE 0
                  BY <3>1, SubSeqProperties
            <3>4. Len(stack') = n
                  BY <3>1, <3>2, <3>3
            <3> QED
                BY <3>2, <3>3, <3>4 DEF n
      <2> QED
          BY <2>1, <2>2, <2>5, DepthAssumption DEF StackType
<1>3. ASSUME NEW f \in Fds \cup {Wake}, InBatch(f),
             ReplaceTop([Top EXCEPT !.batch = @ \ {f}])
      PROVE  StackType'
      <2>1. Top \in Frame
            BY <1>3, TopType DEF InBatch
      <2>2. [Top EXCEPT !.batch = @ \ {f}] \in Frame
            BY <2>1 DEF Frame
      <2> QED
          BY <1>3, <2>2, ReplaceTopType DEF InBatch
<1>4. CASE DispatchWake
      BY <1>3, <1>4 DEF DispatchWake
<1>5. ASSUME NEW f \in Fds, DispatchNothing(f) \/ DispatchDestroyed(f) PROVE StackType'
      BY <1>3, <1>5 DEF DispatchNothing, DispatchDestroyed
<1>6. ASSUME NEW o \in Sources, Dispatch(o) PROVE StackType'
      <2>1. PICK f \in Fds : InBatch(f) /\ ReplaceTop([Top EXCEPT !.batch = @ \ {f}, !.in = o])
            BY <1>6 DEF Dispatch
      <2>2. Top \in Frame
            BY <2>1, TopType DEF InBatch
      <2>3. [Top EXCEPT !.batch = @ \ {f}, !.in = o] \in Frame
            BY <2>2 DEF Frame
      <2> QED
          BY <2>1, <2>3, ReplaceTopType DEF InBatch
<1>7. CASE CallbackReturns
      <2>1. Top \in Frame
            BY <1>7, TopType DEF CallbackReturns
      <2>2. [Top EXCEPT !.in = None] \in Frame
            BY <2>1 DEF Frame
      <2> QED
          BY <1>7, <2>2, ReplaceTopType DEF CallbackReturns
<1>8. CASE Exec
      <2>1. stack \in Seq(Frame) /\ Len(stack) < MaxDepth
            BY <1>8 DEF Exec, StackType
      <2>2. stack' = Append(stack, [waiting |-> FALSE, batch |-> {}, in |-> None])
            BY <1>8 DEF Exec
      <2>3. [waiting |-> FALSE, batch |-> {}, in |-> None] \in Frame
            BY DEF Frame
      <2>4. stack' \in Seq(Frame) /\ Len(stack') = Len(stack) + 1 /\ Len(stack) \in Nat
            BY <2>1, <2>2, <2>3
      <2> QED
          BY <2>1, <2>4, DepthAssumption DEF StackType
<1>1a. CASE Test
       <2>1. Top \in Frame
             BY <1>1a, TopType DEF Test, AtCheck
       <2>2. [Top EXCEPT !.waiting = TRUE] \in Frame
             BY <2>1 DEF Frame
       <2> QED
           BY <1>1a, <2>2, ReplaceTopType DEF Test, AtCheck
<1>9. CASE Quit \/ QuitFromThread
      BY <1>9, KeepStack DEF Quit, QuitFromThread
<1>10. ASSUME NEW o \in Sources, Create(o) \/ Destroy(o) \/ Arrive(o) \/ Withdraw(o)
       PROVE  StackType'
       BY <1>10, KeepStack DEF Create, Destroy, Arrive, Withdraw, loopState
<1>11. CASE UNCHANGED vars
       BY <1>11, KeepStack DEF vars, loopState
<1> QED
    BY <1>1, <1>2, <1>4, <1>5, <1>6, <1>7, <1>8, <1>9, <1>10, <1>11, <1>1a
    DEF Next, LoopStep

FlagType == hasWake \in BOOLEAN /\ woken \in BOOLEAN /\ running \in BOOLEAN

LEMMA KeepFlags == FlagType /\ UNCHANGED <<hasWake, woken, running>> => FlagType'
  BY DEF FlagType

RestType == ready \subseteq Sources /\ quitter \in 0 .. 1

LEMMA FlagStep == FlagType /\ RestType /\ [Next]_vars => FlagType'
<1> SUFFICES ASSUME FlagType, RestType, [Next]_vars PROVE FlagType'
    OBVIOUS
<1>1. CASE Test \/ Wait \/ ExecReturns \/ CallbackReturns
      BY <1>1, KeepFlags DEF Test, Wait, ExecReturns, CallbackReturns
<1>2. CASE DispatchWake
      <2>1. woken' = FALSE /\ UNCHANGED <<hasWake, running>>
            BY <1>2 DEF DispatchWake
      <2> QED
          BY <2>1 DEF FlagType
<1>3. ASSUME NEW f \in Fds, DispatchNothing(f) \/ DispatchDestroyed(f) PROVE FlagType'
      BY <1>3, KeepFlags DEF DispatchNothing, DispatchDestroyed
<1>4. ASSUME NEW o \in Sources, Dispatch(o) PROVE FlagType'
      BY <1>4, KeepFlags DEF Dispatch
<1>5. CASE Exec
      <2>1. hasWake' = TRUE /\ running' = TRUE /\ UNCHANGED woken
            BY <1>5 DEF Exec
      <2> QED
          BY <2>1 DEF FlagType
<1>6. CASE Quit
      <2>1. running' = FALSE /\ woken' = (woken \/ hasWake) /\ UNCHANGED hasWake
            BY <1>6 DEF Quit
      <2>2. woken' \in BOOLEAN
            BY <2>1
      <2>3. hasWake' \in BOOLEAN /\ running' \in BOOLEAN
            BY <2>1 DEF FlagType
      <2> QED
          BY <2>2, <2>3 DEF FlagType
<1>7. CASE QuitFromThread
      <2>1. /\ QuitPart(quitter) /\ UNCHANGED hasWake
            /\ quitter = 0 \/ quitter = 1
            BY <1>7 DEF QuitFromThread, RestType
      <2>2. CASE quitter = 0
            <3>1. running' = FALSE /\ UNCHANGED woken
                  BY <2>1, <2>2 DEF QuitPart
            <3> QED
                BY <2>1, <3>1 DEF FlagType
      <2>3. CASE quitter = 1
            <3>1. woken' = (woken \/ hasWake) /\ UNCHANGED running
                  BY <2>1, <2>3 DEF QuitPart
            <3>2. woken' \in BOOLEAN
                  BY <3>1
            <3>3. hasWake' \in BOOLEAN /\ running' \in BOOLEAN
                  BY <2>1, <3>1 DEF FlagType
            <3> QED
                BY <3>2, <3>3 DEF FlagType
      <2> QED
          BY <2>1, <2>2, <2>3
<1>8. ASSUME NEW o \in Sources, Create(o) \/ Destroy(o) \/ Arrive(o) \/ Withdraw(o)
      PROVE  FlagType'
      BY <1>8, KeepFlags DEF Create, Destroy, Arrive, Withdraw, loopState
<1>9. CASE UNCHANGED vars
      BY <1>9, KeepFlags DEF vars, loopState
<1> QED
    BY <1>1, <1>2, <1>3, <1>4, <1>5, <1>6, <1>7, <1>8, <1>9 DEF Next, LoopStep

LEMMA RestStep == RestType /\ [Next]_vars => RestType'
<1> SUFFICES ASSUME RestType, [Next]_vars PROVE RestType'
    OBVIOUS
<1>1. CASE QuitFromThread
      BY <1>1 DEF RestType, QuitFromThread
<1>2. CASE ~QuitFromThread
      <2>1. UNCHANGED quitter
            BY <1>2 DEF Next, LoopStep, vars, Test, Wait, ExecReturns, DispatchWake,
               DispatchNothing, DispatchDestroyed, Dispatch, CallbackReturns, Exec, Quit,
               Create, Destroy, Arrive, Withdraw
      <2>2. ready' \subseteq ready \/ \E o \in Sources : ready' = ready \cup {o}
            BY <1>2 DEF Next, LoopStep, vars, Test, Wait, ExecReturns, DispatchWake,
               DispatchNothing, DispatchDestroyed, Dispatch, CallbackReturns, Exec, Quit,
               Create, Destroy, Arrive, Withdraw
      <2> QED
          BY <2>1, <2>2 DEF RestType
<1> QED
    BY <1>1, <1>2

\* Every variable of the loop keeps its type; the stack of running loops holds
\* frames only.
THEOREM LoopTypeCorrect == Spec => []TypeOK
<1>1. Init => StackType /\ FlagType /\ RestType
      <2> SUFFICES ASSUME Init PROVE StackType /\ FlagType /\ RestType
          OBVIOUS
      <2>1. stack = <<>>
            BY DEF Init
      <2>2. StackType
            BY <2>1, EmptySeq, DepthAssumption DEF StackType
      <2>3. hasWake = FALSE /\ woken = FALSE /\ running = FALSE
            BY DEF Init
      <2>4. FlagType
            BY <2>3 DEF FlagType
      <2>5. ready = {} /\ quitter = 0
            BY DEF Init
      <2>6. RestType
            BY <2>5 DEF RestType
      <2> QED
          BY <2>2, <2>4, <2>6
<1>2. LoopInv /\ StackType /\ FlagType /\ RestType /\ [Next]_vars
        => StackType' /\ FlagType' /\ RestType'
      BY StackStep, FlagStep, RestStep DEF LoopInv
<1>3. LoopInv /\ StackType /\ FlagType /\ RestType => TypeOK
      BY DEF LoopInv, RegistryType, StackType, FlagType, RestType, TypeOK
<1> QED
    BY <1>1, <1>2, <1>3, LoopInvariance, PTL DEF Spec

============================================================================
