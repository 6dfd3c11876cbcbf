--------------------------- MODULE Object_proofs ---------------------------
(***************************************************************************)
(* Proofs about Object, for any objects, events and numbers of callbacks,  *)
(* any depth of emissions and any order of destruction.                    *)
(***************************************************************************)
EXTENDS Object, SequenceTheorems, TLAPS

----------------------------------------------------------------------------
(* The two tables of a subscription *)

TableType ==
    /\ life \in [Objects -> {"new", "alive", "gone"}]
    /\ m_subscribers \in [Objects -> [Events -> Counts]]
    /\ m_subscribtions \in [Objects -> SUBSET Objects]

\* A callback in a live object's table is that of a live handler that points
\* to the object.
CallbacksAreNoted ==
    \A o, h \in Objects, e \in Events :
        Alive(o) /\ m_subscribers[o][e][h] > 0 => Alive(h) /\ o \in m_subscribtions[h]

\* A live handler's pointer to a live object stands for a callback there.
PointersHaveCallbacks ==
    \A o, h \in Objects : Alive(o) /\ Alive(h) /\ o \in m_subscribtions[h] => h \in Handlers(o)

\* An object not yet constructed is in no table.
NewIsFresh ==
    \A o \in Objects : life[o] = "new" =>
        /\ m_subscribtions[o] = {}
        /\ \A h \in Objects : o \notin m_subscribtions[h]
        /\ \A h \in Objects, e \in Events : m_subscribers[o][e][h] = 0

TableInv == TableType /\ CallbacksAreNoted /\ PointersHaveCallbacks /\ NewIsFresh

\* While destruction is orderly, live handlers point to live objects only.
PointersAreLive ==
    orderly => /\ dangling = {}
               /\ \A h \in Objects : Alive(h) => \A o \in m_subscribtions[h] : Alive(o)

LEMMA TableInit == Init => TableInv /\ PointersAreLive
<1> SUFFICES ASSUME Init PROVE TableInv /\ PointersAreLive
    OBVIOUS
<1>1. /\ \A o \in Objects : life[o] = "new" /\ m_subscribtions[o] = {} /\ ~Alive(o)
      /\ dangling = {}
      BY DEF Init, Alive
<1>2. \A o, h \in Objects, e \in Events : m_subscribers[o][e][h] = 0
      BY DEF Init, NoCallbacks
<1>3. NoCallbacks \in Counts
      BY BoundAssumption DEF NoCallbacks, Counts
<1>4. TableType
      BY <1>3 DEF Init, TableType
<1>5. CallbacksAreNoted /\ PointersHaveCallbacks /\ NewIsFresh /\ PointersAreLive
      BY <1>1, <1>2 DEF CallbacksAreNoted, PointersHaveCallbacks, NewIsFresh, PointersAreLive
<1> QED
    BY <1>4, <1>5 DEF TableInv

LEMMA TablesUntouched ==
    ASSUME TableInv, PointersAreLive,
           UNCHANGED <<life, m_subscribers, m_subscribtions, orderly, dangling>>
    PROVE  TableInv' /\ PointersAreLive'
  BY DEF TableInv, TableType, CallbacksAreNoted, PointersHaveCallbacks, NewIsFresh,
         PointersAreLive, Handlers, Alive

LEMMA CreateStep ==
    ASSUME TableInv, PointersAreLive, NEW x \in Objects, Create(x)
    PROVE  TableInv' /\ PointersAreLive'
<1>1. /\ life[x] = "new" /\ life' = [life EXCEPT ![x] = "alive"]
      /\ m_subscribers' = m_subscribers /\ m_subscribtions' = m_subscribtions
      /\ orderly' = orderly /\ dangling' = dangling
      BY DEF Create
<1>2. TableType /\ TableType'
      BY <1>1 DEF TableInv, TableType
<1>3. \A o \in Objects : /\ o # x => life'[o] = life[o]
                         /\ life'[x] = "alive"
      BY <1>1, <1>2 DEF TableType
<1>4. /\ m_subscribtions[x] = {}
      /\ \A h \in Objects : x \notin m_subscribtions[h]
      /\ \A h \in Objects, e \in Events : m_subscribers[x][e][h] = 0
      BY <1>1 DEF TableInv, NewIsFresh
<1>5. CallbacksAreNoted'
      <2> SUFFICES ASSUME NEW o \in Objects, NEW h \in Objects, NEW e \in Events,
                          life'[o] = "alive", m_subscribers[o][e][h] > 0
                   PROVE  life'[h] = "alive" /\ o \in m_subscribtions[h]
          BY <1>1 DEF CallbacksAreNoted, Alive
      <2>1. o # x
            BY <1>4
      <2>2. Alive(o)
            BY <1>3, <2>1 DEF Alive
      <2>3. Alive(h) /\ o \in m_subscribtions[h]
            BY <2>2 DEF TableInv, CallbacksAreNoted
      <2> QED
          BY <1>3, <2>3 DEF Alive
<1>6. PointersHaveCallbacks'
      <2>1. \A o : Handlers(o)' = Handlers(o)
            BY <1>1 DEF Handlers
      <2> QED
          BY <1>1, <1>3, <1>4, <2>1 DEF TableInv, PointersHaveCallbacks, Alive
<1>7. NewIsFresh'
      BY <1>1, <1>3 DEF TableInv, NewIsFresh
<1>8. PointersAreLive'
      BY <1>1, <1>2, <1>3, <1>4 DEF PointersAreLive, Alive, TableType
<1> QED
    BY <1>2, <1>5, <1>6, <1>7, <1>8 DEF TableInv

LEMMA ConnectStep ==
    ASSUME TableInv, PointersAreLive,
           NEW x \in Objects, NEW f \in Events, NEW y \in Objects, Connect(x, f, y)
    PROVE  TableInv' /\ PointersAreLive'
<1>1. /\ Alive(x) /\ Alive(y) /\ m_subscribers[x][f][y] < MaxCallbacks
      /\ m_subscribers' = [m_subscribers EXCEPT ![x][f][y] = @ + 1]
      /\ m_subscribtions' = [m_subscribtions EXCEPT ![y] = @ \cup {x}]
      /\ life' = life /\ orderly' = orderly /\ dangling' = dangling
      BY DEF Connect
<1>2. TableType
      BY DEF TableInv
<1>3. m_subscribers[x] \in [Events -> Counts] /\ m_subscribers[x][f] \in Counts
      BY <1>2 DEF TableType
<1>4. m_subscribers[x][f][y] + 1 \in 1 .. MaxCallbacks
      BY <1>1, <1>3, BoundAssumption DEF Counts
<1>5. TableType'
      <2>1. [m_subscribers[x][f] EXCEPT ![y] = @ + 1] \in Counts
            BY <1>3, <1>4 DEF Counts
      <2>2. [m_subscribers[x] EXCEPT ![f] = [m_subscribers[x][f] EXCEPT ![y] = @ + 1]]
              \in [Events -> Counts]
            BY <1>3, <2>1
      <2>3. m_subscribers' \in [Objects -> [Events -> Counts]]
            BY <1>1, <1>2, <2>2 DEF TableType
      <2> QED
          BY <1>1, <1>2, <2>3 DEF TableType
<1>6. \A o, h \in Objects, e \in Events :
          m_subscribers'[o][e][h] = IF o = x /\ e = f /\ h = y
                                    THEN m_subscribers[x][f][y] + 1
                                    ELSE m_subscribers[o][e][h]
      BY <1>1, <1>2, <1>3 DEF TableType, Counts
<1>7. \A h \in Objects : m_subscribtions'[h] = IF h = y THEN m_subscribtions[y] \cup {x}
                                                ELSE m_subscribtions[h]
      BY <1>1, <1>2 DEF TableType
<1>8. CallbacksAreNoted'
      BY <1>1, <1>6, <1>7 DEF TableInv, CallbacksAreNoted, Alive
<1>9. PointersHaveCallbacks'
      <2> SUFFICES ASSUME NEW o \in Objects, NEW h \in Objects,
                          Alive(o), Alive(h), o \in m_subscribtions'[h]
                   PROVE  \E e \in Events : m_subscribers'[o][e][h] > 0
          BY <1>1 DEF PointersHaveCallbacks, Alive, Handlers
      <2>1. CASE o = x /\ h = y
            BY <1>4, <1>6, <2>1
      <2>2. CASE ~(o = x /\ h = y)
            <3>1. o \in m_subscribtions[h]
                  BY <1>7, <2>2
            <3>2. PICK e \in Events : m_subscribers[o][e][h] > 0
                  BY <3>1 DEF TableInv, PointersHaveCallbacks, Handlers
            <3> QED
                BY <1>6, <2>2, <3>2
      <2> QED
          BY <2>1, <2>2
<1>10. NewIsFresh'
       BY <1>1, <1>6, <1>7 DEF TableInv, NewIsFresh, Alive
<1>11. PointersAreLive'
       BY <1>1, <1>7 DEF PointersAreLive, Alive
<1> QED
    BY <1>5, <1>8, <1>9, <1>10, <1>11 DEF TableInv

\* What ~Object leaves: no callback of the destroyed handler, the others as
\* they were.
LEMMA DisconnectedTable ==
    ASSUME TableType, NEW x \in Objects
    PROVE  /\ Disconnected(x) \in [Objects -> [Events -> Counts]]
           /\ \A o, h \in Objects, e \in Events :
                 Disconnected(x)[o][e][h] = IF o \in m_subscribtions[x] /\ h = x THEN 0
                                            ELSE m_subscribers[o][e][h]
<1>1. \A o \in Objects, e \in Events : m_subscribers[o][e] \in Counts
      BY DEF TableType
<1>2. \A o \in Objects, e \in Events : [m_subscribers[o][e] EXCEPT ![x] = 0] \in Counts
      BY <1>1, BoundAssumption DEF Counts
<1>3. \A o, h \in Objects, e \in Events :
          [m_subscribers[o][e] EXCEPT ![x] = 0][h] = IF h = x THEN 0 ELSE m_subscribers[o][e][h]
      BY <1>1 DEF Counts
<1>4. Disconnected(x) \in [Objects -> [Events -> Counts]]
      BY <1>2 DEF Disconnected, TableType
<1>5. \A o, h \in Objects, e \in Events :
          Disconnected(x)[o][e][h] = IF o \in m_subscribtions[x] /\ h = x THEN 0
                                     ELSE m_subscribers[o][e][h]
      BY <1>3 DEF Disconnected
<1> QED
    BY <1>4, <1>5

LEMMA DestroyStep ==
    ASSUME TableInv, PointersAreLive, NEW x \in Objects, Destroy(x)
    PROVE  TableInv' /\ PointersAreLive'
<1>1. /\ Alive(x) /\ life' = [life EXCEPT ![x] = "gone"]
      /\ m_subscribers' = Disconnected(x)
      /\ m_subscribtions' = m_subscribtions
      /\ dangling' = dangling \cup {o \in m_subscribtions[x] : ~Alive(o)}
      /\ orderly' => orderly /\ \A h \in Handlers(x) \ {x} : ~Alive(h)
      BY DEF Destroy
<1>2. TableType
      BY DEF TableInv
<1>3. TableType'
      BY <1>1, <1>2, DisconnectedTable DEF TableType
<1>4. \A o, h \in Objects, e \in Events :
          m_subscribers'[o][e][h] = IF o \in m_subscribtions[x] /\ h = x THEN 0
                                    ELSE m_subscribers[o][e][h]
      BY <1>1, <1>2, DisconnectedTable
<1>5. \A o \in Objects : /\ o # x => life'[o] = life[o]
                         /\ life'[x] = "gone"
      BY <1>1, <1>2 DEF TableType
<1>6. CallbacksAreNoted'
      <2> SUFFICES ASSUME NEW o \in Objects, NEW h \in Objects, NEW e \in Events,
                          life'[o] = "alive", m_subscribers'[o][e][h] > 0
                   PROVE  life'[h] = "alive" /\ o \in m_subscribtions[h]
          BY <1>1 DEF CallbacksAreNoted, Alive
      <2>1. Alive(o)
            BY <1>5 DEF Alive
      <2>2. m_subscribers[o][e][h] > 0 /\ ~(o \in m_subscribtions[x] /\ h = x)
            BY <1>4
      <2>3. Alive(h) /\ o \in m_subscribtions[h]
            BY <2>1, <2>2 DEF TableInv, CallbacksAreNoted
      <2> QED
          BY <1>5, <2>2, <2>3 DEF Alive
<1>7. PointersHaveCallbacks'
      <2> SUFFICES ASSUME NEW o \in Objects, NEW h \in Objects,
                          life'[o] = "alive", life'[h] = "alive", o \in m_subscribtions[h]
                   PROVE  \E e \in Events : m_subscribers'[o][e][h] > 0
          BY <1>1 DEF PointersHaveCallbacks, Alive, Handlers
      <2>1. Alive(o) /\ Alive(h) /\ h # x
            BY <1>5 DEF Alive
      <2>2. PICK e \in Events : m_subscribers[o][e][h] > 0
            BY <2>1 DEF TableInv, PointersHaveCallbacks, Handlers
      <2> QED
          BY <1>4, <2>1, <2>2
<1>8. NewIsFresh'
      <2> SUFFICES ASSUME NEW o \in Objects, life'[o] = "new"
                   PROVE  /\ m_subscribtions[o] = {}
                          /\ \A h \in Objects : o \notin m_subscribtions[h]
                          /\ \A h \in Objects, e \in Events : m_subscribers'[o][e][h] = 0
          BY <1>1 DEF NewIsFresh
      <2>1. life[o] = "new"
            BY <1>5
      <2>2. /\ m_subscribtions[o] = {}
            /\ \A h \in Objects : o \notin m_subscribtions[h]
            /\ \A h \in Objects, e \in Events : m_subscribers[o][e][h] = 0
            BY <2>1 DEF TableInv, NewIsFresh
      <2> QED
          BY <1>4, <2>2
<1>9. PointersAreLive'
      <2> SUFFICES ASSUME orderly'
                   PROVE  /\ dangling' = {}
                          /\ \A h \in Objects : life'[h] = "alive" =>
                                \A o \in m_subscribtions[h] : life'[o] = "alive"
          BY <1>1 DEF PointersAreLive, Alive
      <2>1. /\ \A h \in Handlers(x) \ {x} : ~Alive(h)
            /\ dangling = {}
            /\ \A h \in Objects : Alive(h) => \A o \in m_subscribtions[h] : Alive(o)
            BY <1>1 DEF PointersAreLive
      <2>2. dangling' = {}
            BY <1>1, <2>1
      <2>3. ASSUME NEW h \in Objects, life'[h] = "alive", NEW o \in m_subscribtions[h]
            PROVE  life'[o] = "alive"
            <3>1. Alive(h) /\ h # x /\ o \in Objects
                  BY <1>2, <1>5, <2>3 DEF Alive, TableType
            <3>2. Alive(o) /\ h \in Handlers(o)
                  BY <2>1, <2>3, <3>1 DEF TableInv, PointersHaveCallbacks
            <3>3. o # x
                  BY <2>1, <3>1, <3>2
            <3> QED
                BY <1>5, <3>1, <3>2, <3>3 DEF Alive
      <2> QED
          BY <2>2, <2>3
<1> QED
    BY <1>3, <1>6, <1>7, <1>8, <1>9 DEF TableInv

\* Everything a step can do to the tables.
LEMMA TableStep == TableInv /\ PointersAreLive /\ [Next]_vars => TableInv' /\ PointersAreLive'
<1> SUFFICES ASSUME TableInv, PointersAreLive, [Next]_vars
             PROVE  TableInv' /\ PointersAreLive'
    OBVIOUS
<1>1. ASSUME NEW o \in Objects, Create(o) PROVE TableInv' /\ PointersAreLive'
      BY <1>1, CreateStep
<1>2. ASSUME NEW o \in Objects, Destroy(o) PROVE TableInv' /\ PointersAreLive'
      BY <1>2, DestroyStep
<1>3. ASSUME NEW o \in Objects, NEW e \in Events, NEW h \in Objects, Connect(o, e, h)
      PROVE  TableInv' /\ PointersAreLive'
      BY <1>3, ConnectStep
<1>4. CASE Return \/ UNCHANGED vars
      BY <1>4, TablesUntouched DEF Return, vars
<1>5. ASSUME NEW o \in Objects, Call(o) PROVE TableInv' /\ PointersAreLive'
      BY <1>5, TablesUntouched DEF Call
<1>6. ASSUME NEW o \in Objects, NEW e \in Events, Emit(o, e)
      PROVE  TableInv' /\ PointersAreLive'
      BY <1>6, TablesUntouched DEF Emit
<1> QED
    BY <1>1, <1>2, <1>3, <1>4, <1>5, <1>6 DEF Next

LEMMA TableInvariance == Spec => [](TableInv /\ PointersAreLive)
  BY TableInit, TableStep, PTL DEF Spec

\* A live object holds callbacks of live handlers only, in whatever order
\* objects are destroyed.
THEOREM HandlersAreLive == Spec => []LiveHandlersOnly
<1>1. TableInv => LiveHandlersOnly
      BY DEF TableInv, CallbacksAreNoted, LiveHandlersOnly
<1> QED
    BY <1>1, TableInvariance, PTL

\* As long as emitters outlive those who handle their events, no destructor
\* follows a pointer to a destroyed object.
THEOREM OrderlyDestruction == Spec => []OrderlyIsSafe
<1>1. PointersAreLive => OrderlyIsSafe
      BY DEF PointersAreLive, OrderlyIsSafe
<1> QED
    BY <1>1, TableInvariance, PTL

----------------------------------------------------------------------------
(* Types of the rest *)

StackType == emissions \in Seq(Emission)
MarkType  == orderly \in BOOLEAN /\ dangling \subseteq Objects

\* The emission on top is one, and replacing it by one keeps the stack.
LEMMA TopType ==
    ASSUME StackType, emissions # <<>>
    PROVE  /\ Len(emissions) \in Nat \ {0}
           /\ emissions[Len(emissions)] \in Emission
<1>1. emissions \in Seq(Emission)
      BY DEF StackType
<1>2. Len(emissions) \in Nat \ {0}
      BY <1>1, EmptySeq
<1> QED
    BY <1>1, <1>2

LEMMA ReplaceTopType ==
    ASSUME StackType, emissions # <<>>, NEW em \in Emission,
           ReplaceTop(em)
    PROVE  StackType'
<1>1. emissions \in Seq(Emission) /\ Len(emissions) \in 1 .. Len(emissions)
      BY TopType DEF StackType
<1>2. [emissions EXCEPT ![Len(emissions)] = em] \in Seq(Emission)
      BY <1>1, ExceptSeq
<1> QED
    BY <1>2 DEF StackType, ReplaceTop

LEMMA EmitStack ==
    ASSUME TableType, StackType, NEW o \in Objects, NEW e \in Events, Emit(o, e)
    PROVE  StackType'
<1>1. m_subscribers[o][e] \in Counts
      BY DEF TableType
<1>2. [copy |-> m_subscribers[o][e], busy |-> FALSE] \in Emission
      BY <1>1 DEF Emission
<1>3. emissions' = Append(emissions, [copy |-> m_subscribers[o][e], busy |-> FALSE])
      BY DEF Emit
<1> QED
    BY <1>2, <1>3, AppendProperties DEF StackType

LEMMA CallStack ==
    ASSUME StackType, NEW h \in Objects, Call(h)
    PROVE  StackType'
<1> DEFINE d   == Len(emissions)
           top == emissions[d]
           new == [copy |-> [top.copy EXCEPT ![h] = @ - 1], busy |-> TRUE]
<1>1. emissions # <<>> /\ top.copy[h] > 0
      BY DEF Call, CodeRuns
<1>2. d \in Nat \ {0} /\ top \in Emission /\ emissions \in Seq(Emission)
      BY <1>1, TopType DEF StackType
<1>3. top.copy \in Counts /\ top = [copy |-> top.copy, busy |-> top.busy]
      BY <1>2 DEF Emission
<1>4. top.copy[h] - 1 \in 0 .. MaxCallbacks
      BY <1>1, <1>3, BoundAssumption DEF Counts
<1>5. [top.copy EXCEPT ![h] = @ - 1] \in Counts
      BY <1>3, <1>4 DEF Counts
<1>6. new \in Emission
      BY <1>5 DEF Emission
<1>7. ReplaceTop(new)
      BY DEF Call
<1> QED
    BY <1>1, <1>6, <1>7, ReplaceTopType

LEMMA ReturnStack ==
    ASSUME StackType, Return
    PROVE  StackType'
<1> DEFINE d == Len(emissions)
<1>1. emissions # <<>> /\ emissions \in Seq(Emission)
      BY DEF Return, StackType
<1>2. d \in Nat \ {0} /\ emissions[d] \in Emission
      BY <1>1, TopType
<1>3. CASE emissions[d].copy = NoCallbacks
      <2> DEFINE n == d - 1
      <2>1. n \in Nat /\ \A i \in 1 .. n : emissions[i] \in Emission
            BY <1>1, <1>2, ElementOfSeq
      <2>2. emissions' = SubSeq(emissions, 1, n)
            BY <1>3 DEF Return
      <2> HIDE DEF n
      <2>3. SubSeq(emissions, 1, n) \in Seq(Emission)
            BY <2>1, SubSeqProperties
      <2> QED
          BY <2>2, <2>3 DEF StackType
<1>4. CASE emissions[d].copy # NoCallbacks
      <2>1. ReplaceTop([copy |-> emissions[d].copy, busy |-> FALSE])
            BY <1>4 DEF Return
      <2>2. [copy |-> emissions[d].copy, busy |-> FALSE] \in Emission
            BY <1>2 DEF Emission
      <2> QED
          BY <1>1, <2>1, <2>2, ReplaceTopType
<1> QED
    BY <1>3, <1>4

LEMMA StackStep == TableType /\ StackType /\ [Next]_vars => StackType'
<1> SUFFICES ASSUME TableType, StackType, [Next]_vars PROVE StackType'
    OBVIOUS
<1>1. CASE UNCHANGED emissions
      BY <1>1 DEF StackType
<1>2. ASSUME NEW o \in Objects, NEW e \in Events, Emit(o, e) PROVE StackType'
      BY <1>2, EmitStack
<1>3. ASSUME NEW h \in Objects, Call(h) PROVE StackType'
      BY <1>3, CallStack
<1>4. CASE Return
      BY <1>4, ReturnStack
<1> QED
    BY <1>1, <1>2, <1>3, <1>4 DEF Next, vars, Create, Destroy, Connect

LEMMA MarkStep == TableType /\ MarkType /\ [Next]_vars => MarkType'
<1> SUFFICES ASSUME TableType, MarkType, [Next]_vars PROVE MarkType'
    OBVIOUS
<1>1. CASE UNCHANGED <<orderly, dangling>>
      BY <1>1 DEF MarkType
<1>2. ASSUME NEW h \in Objects, Destroy(h) PROVE MarkType'
      <2>1. orderly' = (orderly /\ \A x \in Handlers(h) \ {h} : ~Alive(x))
            BY <1>2 DEF Destroy
      <2>2. orderly' \in BOOLEAN
            BY <2>1, Zenon
      <2>3. dangling' = dangling \cup {o \in m_subscribtions[h] : ~Alive(o)}
            BY <1>2 DEF Destroy
      <2>4. dangling' \subseteq Objects
            BY <2>3 DEF MarkType, TableType
      <2> QED
          BY <2>2, <2>4 DEF MarkType
<1> QED
    BY <1>1, <1>2 DEF Next, vars, Create, Connect, Emit, Call, Return

\* Every variable keeps its type: the counts of callbacks stay in their bounds,
\* destruction and emission included.
THEOREM ObjectTypeCorrect == Spec => []TypeOK
<1>1. Init => StackType /\ MarkType
      <2> SUFFICES ASSUME Init PROVE StackType /\ MarkType
          OBVIOUS
      <2>1. StackType
            BY EmptySeq DEF Init, StackType
      <2>2. MarkType
            BY DEF Init, MarkType
      <2> QED
          BY <2>1, <2>2
<1>2. TableInv /\ StackType /\ MarkType /\ [Next]_vars => StackType' /\ MarkType'
      BY StackStep, MarkStep DEF TableInv
<1>3. TableInv /\ StackType /\ MarkType => TypeOK
      BY DEF TableInv, TableType, StackType, MarkType, TypeOK
<1> QED
    BY <1>1, <1>2, <1>3, TableInvariance, PTL DEF Spec

============================================================================
