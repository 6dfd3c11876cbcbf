------------------------ MODULE LoopInstance_proofs ------------------------
(***************************************************************************)
(* Proofs about LoopInstance, for any number of loops and clients and any  *)
(* depth of the stack.                                                     *)
(***************************************************************************)
EXTENDS LoopInstance, SequenceTheorems, TLAPS

----------------------------------------------------------------------------
(* The stack *)

LEMMA Entering ==
    ASSUME stack \in Seq(Item), NEW kind, NEW o, [kind |-> kind, of |-> o] \in Item,
           Enter(kind, o)
    PROVE  /\ stack' \in Seq(Item) /\ Len(stack') = Len(stack) + 1
           /\ Len(stack') <= MaxDepth
           /\ \A i \in 1 .. Len(stack) : stack'[i] = stack[i]
           /\ stack'[Len(stack')] = [kind |-> kind, of |-> o]
  BY DepthAssumption DEF Enter

LEMMA Leaving ==
    ASSUME stack \in Seq(Item), stack # <<>>, Leave
    PROVE  /\ stack' \in Seq(Item) /\ Len(stack') = Len(stack) - 1
           /\ \A i \in 1 .. Len(stack') : stack'[i] = stack[i]
<1>1. Len(stack) \in Nat \ {0} /\ \A i \in 1 .. Len(stack) : stack[i] \in Item
      BY EmptySeq, LenProperties, ElementOfSeq
<1> DEFINE n == Len(stack) - 1
<1>2. n \in Nat /\ n \in Int /\ \A i \in 1 .. n : stack[i] \in Item
      BY <1>1
<1>3. stack' = SubSeq(stack, 1, n)
      BY DEF Leave
<1> HIDE DEF n
<1>4. /\ SubSeq(stack, 1, n) \in Seq(Item)
      /\ Len(SubSeq(stack, 1, n)) = IF 1 <= n THEN n - 1 + 1 ELSE 0
      /\ \A i \in 1 .. n - 1 + 1 : SubSeq(stack, 1, n)[i] = stack[1 + i - 1]
      BY <1>2, SubSeqProperties
<1>5. /\ stack' \in Seq(Item) /\ Len(stack') = n
      /\ \A i \in 1 .. n : stack'[i] = stack[i]
      BY <1>2, <1>3, <1>4
<1> QED
    BY <1>5 DEF n

----------------------------------------------------------------------------
(* Types *)

LEMMA InstanceType ==
    ASSUME TypeOK PROVE Instance \in AnyLoop
  BY DEF TypeOK, Instance, AnyLoop

LEMMA CallInstanceType ==
    ASSUME TypeOK, CallInstance
    PROVE  extValue' \in Loops \cup {Unset, Null} /\ hasOwn' \in BOOLEAN
  BY DEF TypeOK, CallInstance, Engaged

LEMMA TypeStep ==
    ASSUME TypeOK, [Next]_vars
    PROVE  TypeOK'
<1> USE DEF TypeOK
<1>1. ASSUME NEW l \in Loops, ConstructLoop(l) PROVE TypeOK'
      <2>1. [kind |-> "object", of |-> l] \in Item
            BY DEF Item
      <2>2. stack' \in Seq(Item) /\ Len(stack') <= MaxDepth
            BY <1>1, <2>1, Entering DEF ConstructLoop
      <2> QED
          BY <1>1, <2>2 DEF ConstructLoop, Claim
<1>2. ASSUME NEW l \in Loops, DestroyLoop(l) PROVE TypeOK'
      <2>1. stack' \in Seq(Item) /\ Len(stack') <= MaxDepth
            BY <1>2, Leaving, DepthAssumption DEF DestroyLoop
      <2> QED
          BY <1>2, <2>1 DEF DestroyLoop, Keep
<1>3. ASSUME NEW c \in Clients, ConstructClient(c) PROVE TypeOK'
      <2>1. [kind |-> "object", of |-> c] \in Item
            BY DEF Item
      <2>2. stack' \in Seq(Item) /\ Len(stack') <= MaxDepth
            BY <1>3, <2>1, Entering DEF ConstructClient
      <2>3. entry' \in [Clients -> AnyLoop \cup {None}] /\ dangled' \in BOOLEAN
            BY <1>3, InstanceType DEF ConstructClient, Dangle
      <2> QED
          BY <1>3, <2>2, <2>3, CallInstanceType DEF ConstructClient
<1>4. ASSUME NEW c \in Clients, ConstructFailing(c) PROVE TypeOK'
      <2>1. [kind |-> "object", of |-> c] \in Item
            BY DEF Item
      <2>2. stack' \in Seq(Item) /\ Len(stack') <= MaxDepth
            BY <1>4, <2>1, Entering DEF ConstructFailing
      <2> QED
          BY <1>4, <2>2 DEF ConstructFailing, globals
<1>5. ASSUME NEW c \in Clients, DestroyClient(c) PROVE TypeOK'
      <2>1. stack' \in Seq(Item) /\ Len(stack') <= MaxDepth
            BY <1>5, Leaving, DepthAssumption DEF DestroyClient
      <2>2. CASE Deregister(c)
            <3>1. entry' \in [Clients -> AnyLoop \cup {None}] /\ dangled' \in BOOLEAN
                  BY <2>2 DEF Deregister, Dangle
            <3> QED
                BY <1>5, <2>1, <2>2, <3>1, CallInstanceType
                   DEF DestroyClient, Deregister
      <2>3. CASE UNCHANGED <<globals, entry, dangled>>
            BY <1>5, <2>1, <2>3 DEF DestroyClient, globals
      <2> QED
          BY <1>5, <2>2, <2>3 DEF DestroyClient
<1>6. ASSUME NEW l \in AnyLoop, Exec(l) PROVE TypeOK'
      <2>1. [kind |-> "exec", of |-> l] \in Item
            BY DEF Item
      <2>2. stack' \in Seq(Item) /\ Len(stack') <= MaxDepth
            BY <1>6, <2>1, Entering DEF Exec
      <2>3. extValue' \in Loops \cup {Unset, Null} /\ hasOwn' \in BOOLEAN
            BY <1>6, CallInstanceType DEF Exec, globals
      <2> QED
          BY <1>6, <2>2, <2>3 DEF Exec
<1>7. ASSUME NEW c \in Clients, Callback(c) PROVE TypeOK'
      <2>1. [kind |-> "call", of |-> c] \in Item
            BY DEF Item
      <2>2. stack' \in Seq(Item) /\ Len(stack') <= MaxDepth
            BY <1>7, <2>1, Entering DEF Callback
      <2> QED
          BY <1>7, <2>2 DEF Callback, globals
<1>8. ASSUME CallbackReturns \/ ExecReturns PROVE TypeOK'
      <2>1. stack' \in Seq(Item) /\ Len(stack') <= MaxDepth
            BY <1>8, Leaving, DepthAssumption DEF CallbackReturns, ExecReturns
      <2> QED
          BY <1>8, <2>1 DEF CallbackReturns, ExecReturns, globals
<1>9. ASSUME Quit PROVE TypeOK'
      <2>1. running' \subseteq AnyLoop /\ dangled' \in BOOLEAN
            BY <1>9 DEF Quit, Dangle
      <2> QED
          BY <1>9, <2>1, CallInstanceType DEF Quit
<1>10. CASE UNCHANGED vars
       BY <1>10 DEF vars, globals
<1> QED
    BY <1>1, <1>2, <1>3, <1>4, <1>5, <1>6, <1>7, <1>8, <1>9, <1>10 DEF Next

LEMMA InitType ==
    ASSUME Init PROVE TypeOK
<1>1. stack \in Seq(Item) /\ Len(stack) <= MaxDepth
      BY EmptySeq, DepthAssumption DEF Init, DepthAssumption
<1> QED
    BY <1>1 DEF Init, TypeOK

\* The types of LoopInstance are kept by every step.
THEOREM InstanceTypeCorrect == Spec => []TypeOK
<1>1. Init => TypeOK
      BY InitType
<1>2. TypeOK /\ [Next]_vars => TypeOK'
      BY TypeStep
<1> QED
    BY <1>1, <1>2, PTL DEF Spec

----------------------------------------------------------------------------
(* One answer of instance() *)

LEMMA StableStep ==
    ASSUME TypeOK, [Next]_vars, extValue # Unset
    PROVE  Instance' = Instance /\ extValue' # Unset
<1>1. CallInstance => extValue' = extValue
      BY DEF CallInstance, Engaged
<1>2. extValue' = extValue
  <2>1. CASE \E l \in Loops : ConstructLoop(l) \/ DestroyLoop(l)
        BY <2>1 DEF ConstructLoop, Claim, DestroyLoop, Keep
  <2>2. CASE \E c \in Clients : ConstructClient(c) \/ ConstructFailing(c) \/ Callback(c)
        BY <1>1, <2>2 DEF ConstructClient, ConstructFailing, Callback, globals
  <2>3. CASE \E c \in Clients : DestroyClient(c)
        BY <1>1, <2>3 DEF DestroyClient, Deregister, globals
  <2>4. CASE \E l \in AnyLoop : Exec(l)
        BY <1>1, <2>4 DEF Exec, globals
  <2>5. CASE CallbackReturns \/ ExecReturns \/ Quit \/ UNCHANGED vars
        BY <1>1, <2>5 DEF CallbackReturns, ExecReturns, Quit, globals, vars
  <2> QED
      BY <2>1, <2>2, <2>3, <2>4, <2>5 DEF Next
<1> QED
    BY <1>2 DEF Instance

\* Once instance() has an answer, no step changes it: InstanceIsStable, whatever
\* loops are declared and left.
THEOREM InstanceStays == Spec => InstanceIsStable
<1>1. TypeOK /\ [Next]_vars => [extValue # Unset => Instance' = Instance]_vars
      BY StableStep
<1> QED
    BY <1>1, InstanceTypeCorrect, PTL DEF Spec, InstanceIsStable
----------------------------------------------------------------------------
(* Scopes *)

Is(i, kind, o) == stack[i].kind = kind /\ stack[i].of = o

\* The objects that are alive are those on the stack, each once.
Scoped ==
    /\ \A i, j \in 1 .. Len(stack) :
          stack[i].kind = "object" /\ Is(j, "object", stack[i].of) => i = j
    /\ \A o \in Loops \cup Clients :
          life[o] = "alive" <=> \E i \in 1 .. Len(stack) : Is(i, "object", o)

\* A loop that runs, or that a client was added to, was declared before the
\* call or the client; or it is the one instance() made.
BelowAt(i) ==
    /\ stack[i].kind = "exec" =>
          \/ stack[i].of = Own /\ hasOwn
          \/ \E j \in 1 .. i - 1 : Is(j, "object", stack[i].of)
    /\ \A c \in Clients : Is(i, "object", c) /\ entry[c] # None =>
          \/ entry[c] = Own /\ hasOwn
          \/ \E j \in 1 .. i - 1 : Is(j, "object", entry[c])
LoopsBelow == \A i \in 1 .. Len(stack) : BelowAt(i)

\* Clients are at the instance, and callbacks are made by it.
AtTheInstance ==
    /\ \A c \in Clients : entry[c] # None => extValue # Unset /\ entry[c] = Instance
    /\ \A i \in 1 .. Len(stack) : stack[i].kind = "call" =>
          extValue # Unset /\ i > 1 /\ Is(i - 1, "exec", Instance)

EntriesOfLiving ==
    \A c \in Clients : entry[c] # None =>
        life[c] # "new" /\ (c \in Removing => life[c] = "alive")

ScopeInv ==
    /\ TypeOK
    /\ Scoped /\ LoopsBelow
    /\ AtTheInstance /\ EntriesOfLiving

\* What a push and a pop do to the scopes.

Pushed(item) ==
    /\ Len(stack') = Len(stack) + 1
    /\ \A i \in 1 .. Len(stack) : stack'[i] = stack[i]
    /\ stack'[Len(stack')] = item
Popped ==
    /\ Len(stack) > 0 /\ Len(stack') = Len(stack) - 1
    /\ \A i \in 1 .. Len(stack') : stack'[i] = stack[i]

LEMMA PushObject ==
    ASSUME Scoped, Len(stack) \in Nat, NEW o \in Loops \cup Clients,
           Pushed([kind |-> "object", of |-> o]), life[o] = "new",
           life \in [Loops \cup Clients -> {"new", "alive", "gone"}],
           life' = [life EXCEPT ![o] = "alive"]
    PROVE  Scoped'
<1>1. Len(stack') = Len(stack) + 1 /\ Len(stack') \in Nat
      BY DEF Pushed
<1>2. \A i \in 1 .. Len(stack') : i = Len(stack') \/ i \in 1 .. Len(stack)
      BY <1>1
<1>3. /\ Len(stack') \in 1 .. Len(stack')
      /\ stack'[Len(stack')].kind = "object" /\ stack'[Len(stack')].of = o
      BY <1>1 DEF Pushed
<1>4. \A i \in 1 .. Len(stack) : i \in 1 .. Len(stack') /\ stack'[i] = stack[i]
                                   /\ ~Is(i, "object", o)
      BY <1>1 DEF Scoped, Pushed
<1>5. \A i, j \in 1 .. Len(stack') :
         stack'[i].kind = "object" /\ stack'[j].kind = "object"
            /\ stack'[j].of = stack'[i].of => i = j
  <2> SUFFICES ASSUME NEW i \in 1 .. Len(stack'), NEW j \in 1 .. Len(stack'),
                      stack'[i].kind = "object", stack'[j].kind = "object",
                      stack'[j].of = stack'[i].of
               PROVE  i = j
      OBVIOUS
  <2>1. CASE i \in 1 .. Len(stack) /\ j \in 1 .. Len(stack)
        BY <1>4, <2>1 DEF Scoped, Is
  <2>2. CASE i \in 1 .. Len(stack) /\ j = Len(stack')
        BY <1>3, <1>4, <2>2 DEF Is
  <2>3. CASE i = Len(stack') /\ j \in 1 .. Len(stack)
        BY <1>3, <1>4, <2>3 DEF Is
  <2> QED
      BY <1>2, <2>1, <2>2, <2>3
<1>6. ASSUME NEW p \in Loops \cup Clients
      PROVE  life'[p] = "alive" <=>
                \E i \in 1 .. Len(stack') : stack'[i].kind = "object" /\ stack'[i].of = p
  <2>1. CASE p = o
        BY <1>1, <1>3, <2>1 DEF Is
  <2>2. CASE p # o
        BY <1>2, <1>3, <1>4, <2>2 DEF Scoped, Is
  <2> QED
      BY <2>1, <2>2
<1> QED
    BY <1>5, <1>6 DEF Scoped, Is

LEMMA PopObject ==
    ASSUME Scoped, Len(stack) \in Nat, NEW o \in Loops \cup Clients, Popped,
           stack[Len(stack)] = [kind |-> "object", of |-> o],
           life \in [Loops \cup Clients -> {"new", "alive", "gone"}],
           life' = [life EXCEPT ![o] = "gone"]
    PROVE  Scoped'
<1>1. /\ Len(stack) \in 1 .. Len(stack) /\ Is(Len(stack), "object", o)
      /\ Len(stack') = Len(stack) - 1 /\ Len(stack') \in Nat
      BY DEF Popped, Is
<1>2. \A i \in 1 .. Len(stack) : i \in 1 .. Len(stack') \/ i = Len(stack)
      BY <1>1
<1>3. \A i \in 1 .. Len(stack') :
         i \in 1 .. Len(stack) /\ i # Len(stack) /\ stack'[i] = stack[i]
      BY <1>1 DEF Popped
<1>4. \A i \in 1 .. Len(stack') : ~Is(i, "object", o)
      BY <1>1, <1>3 DEF Scoped, Is
<1>5. ASSUME NEW p \in Loops \cup Clients
      PROVE  life'[p] = "alive" <=>
                \E i \in 1 .. Len(stack') : stack'[i].kind = "object" /\ stack'[i].of = p
  <2>1. CASE p = o
        BY <1>3, <1>4, <2>1 DEF Is
  <2>2. CASE p # o
    <3>1. life'[p] = life[p]
          BY <2>2
    <3>2. \A i \in 1 .. Len(stack) : Is(i, "object", p) => i \in 1 .. Len(stack')
          BY <1>1, <1>2, <2>2 DEF Is
    <3>3. \A i \in 1 .. Len(stack') :
             (stack'[i].kind = "object" /\ stack'[i].of = p) <=> Is(i, "object", p)
          BY <1>3 DEF Is
    <3>4. life[p] = "alive" <=> \E i \in 1 .. Len(stack) : Is(i, "object", p)
          BY DEF Scoped
    <3> QED
        BY <1>3, <3>1, <3>2, <3>3, <3>4
  <2> QED
      BY <2>1, <2>2
<1> QED
    BY <1>3, <1>5 DEF Scoped, Is

LEMMA PushOther ==
    ASSUME Scoped, Len(stack) \in Nat, NEW item, Pushed(item), item.kind # "object",
           life' = life
    PROVE  Scoped'
<1>1. /\ Len(stack') \in Nat
      /\ \A i \in 1 .. Len(stack') : i = Len(stack') \/ i \in 1 .. Len(stack)
      /\ \A i \in 1 .. Len(stack) : i \in 1 .. Len(stack') /\ stack'[i] = stack[i]
      /\ stack'[Len(stack')].kind # "object"
      BY DEF Pushed
<1> QED
    BY <1>1 DEF Scoped, Is

LEMMA PopOther ==
    ASSUME Scoped, Len(stack) \in Nat, Popped, stack[Len(stack)].kind # "object",
           life' = life
    PROVE  Scoped'
<1>1. /\ Len(stack') \in Nat
      /\ \A i \in 1 .. Len(stack) : i = Len(stack) \/ i \in 1 .. Len(stack')
      /\ \A i \in 1 .. Len(stack') : i \in 1 .. Len(stack) /\ stack'[i] = stack[i]
      BY DEF Popped
<1> QED
    BY <1>1 DEF Scoped, Is

\* What is below an item stays there, and clients are not moved.
LEMMA StillBelow ==
    ASSUME TypeOK, LoopsBelow, hasOwn => hasOwn', NEW i \in 1 .. Len(stack),
           \A j \in 1 .. i : stack'[j] = stack[j],
           \A c \in Clients : Is(i, "object", c) => entry'[c] \in {None, entry[c]}
    PROVE  BelowAt(i)'
<1>1. BelowAt(i) /\ i \in 1 .. i /\ \A j \in 1 .. i - 1 : j \in 1 .. i
      BY DEF LoopsBelow
<1> QED
    BY <1>1 DEF BelowAt, Is

\* How the parts of the invariant about loops carry over a push and a pop.

LEMMA PushBelow ==
    ASSUME TypeOK, LoopsBelow, NEW item, Pushed(item), hasOwn => hasOwn',
           \A c \in Clients, i \in 1 .. Len(stack) :
              Is(i, "object", c) => entry'[c] \in {None, entry[c]},
           \A i \in 1 .. Len(stack') : i = Len(stack') => BelowAt(i)'
    PROVE  LoopsBelow'
<1> SUFFICES ASSUME NEW i \in 1 .. Len(stack') PROVE BelowAt(i)'
    BY DEF LoopsBelow
<1>1. Len(stack) \in Nat /\ Len(stack') = Len(stack) + 1
      BY DEF TypeOK, Pushed
<1>2. CASE i \in 1 .. Len(stack)
  <2>1. \A j \in 1 .. i : j \in 1 .. Len(stack) /\ stack'[j] = stack[j]
        BY <1>1, <1>2 DEF Pushed
  <2> QED
      BY <1>2, <2>1, StillBelow
<1>3. CASE i = Len(stack')
      BY <1>3
<1> QED
    BY <1>1, <1>2, <1>3

LEMMA PopBelow ==
    ASSUME TypeOK, LoopsBelow, Popped, hasOwn => hasOwn',
           \A c \in Clients : entry'[c] \in {None, entry[c]}
    PROVE  LoopsBelow'
<1> SUFFICES ASSUME NEW i \in 1 .. Len(stack') PROVE BelowAt(i)'
    BY DEF LoopsBelow
<1>1. Len(stack) \in Nat /\ Len(stack') = Len(stack) - 1
      BY DEF TypeOK, Popped
<1>2. i \in 1 .. Len(stack) /\ \A j \in 1 .. i : stack'[j] = stack[j]
      BY <1>1 DEF Popped
<1> QED
    BY <1>2, StillBelow

LEMMA StayAtTheInstance ==
    ASSUME TypeOK, AtTheInstance, [Next]_vars,
           \A c \in Clients : entry'[c] # None =>
              entry'[c] = entry[c] \/ (extValue' # Unset /\ entry'[c] = Instance')
    PROVE  /\ \A c \in Clients : entry'[c] # None => extValue' # Unset /\ entry'[c] = Instance'
           /\ \A i \in 1 .. Len(stack) : stack[i].kind = "call" =>
                 extValue' # Unset /\ i > 1 /\ Is(i - 1, "exec", Instance')
  BY StableStep DEF AtTheInstance

LEMMA CallInstanceAnswers ==
    ASSUME TypeOK, CallInstance
    PROVE  /\ extValue' # Unset /\ Instance' = Instance
           /\ hasOwn => hasOwn'
           /\ Instance = Own => hasOwn'
  BY NamesAssumption DEF NamesAssumption, TypeOK, CallInstance, Engaged, Instance

----------------------------------------------------------------------------
(* The steps *)

LEMMA Facts ==
    ASSUME ScopeInv
    PROVE  /\ Len(stack) \in Nat /\ \A i \in 1 .. Len(stack) : stack[i] \in Item
           /\ stack # <<>> => Len(stack) > 0 /\ stack[Len(stack)] = Top
           /\ \A o \in Loops \cup Clients, i \in 1 .. Len(stack) :
                 Is(i, "object", o) => life[o] = "alive"
           /\ \A o \in Loops \cup Clients : life[o] = "alive" =>
                 \E i \in 1 .. Len(stack) : Is(i, "object", o)
  BY LenProperties, EmptySeq, ElementOfSeq DEF ScopeInv, TypeOK, Scoped, Top

\* A call of instance() that finds a loop that can be used.
LEMMA UsableInstance ==
    ASSUME ScopeInv, CallInstance, Usable
    PROVE  /\ Instance \in AnyLoop
           /\ \/ Instance = Own /\ hasOwn'
              \/ \E j \in 1 .. Len(stack) : Is(j, "object", Instance)
<1>1. CASE Instance = Own
      BY <1>1, CallInstanceAnswers DEF ScopeInv, AnyLoop
<1>2. CASE Instance \in Loops
      BY <1>2, Facts, NamesAssumption DEF NamesAssumption, Usable, Alive, AnyLoop
<1> QED
    BY <1>1, <1>2 DEF Instance

\* A registered client finds its loop alive.
LEMMA RegisteredLoopLives ==
    ASSUME ScopeInv, NEW c \in Clients, entry[c] # None, life[c] = "alive"
    PROVE  Alive(entry[c])
<1>1. PICK i \in 1 .. Len(stack) : Is(i, "object", c)
      BY Facts
<1>2. CASE entry[c] = Own /\ hasOwn
      BY <1>2 DEF Alive
<1>3. CASE \E j \in 1 .. i - 1 : Is(j, "object", entry[c])
  <2>1. entry[c] \in AnyLoop
        BY DEF ScopeInv, TypeOK
  <2>2. CASE entry[c] \in Loops
    <3>1. PICK j \in 1 .. i - 1 : Is(j, "object", entry[c])
          BY <1>3
    <3>2. j \in 1 .. Len(stack)
          BY Facts
    <3> QED
        BY <2>2, <3>1, <3>2, Facts, NamesAssumption DEF NamesAssumption, Alive
  <2>3. CASE entry[c] = Own
    <3>1. PICK j \in 1 .. i - 1 : Is(j, "object", Own)
          BY <1>3, <2>3
    <3>2. j \in 1 .. Len(stack)
          BY Facts
    <3>3. stack[j] \in Item /\ stack[j].kind = "object"
          BY <3>1, <3>2, Facts DEF Is
    <3> QED
        BY <3>1, <3>3, NamesAssumption DEF NamesAssumption, Item, Is
  <2> QED
      BY <2>1, <2>2, <2>3 DEF AnyLoop
<1> QED
    BY <1>1, <1>2, <1>3 DEF ScopeInv, LoopsBelow, BelowAt

LEMMA ConstructLoopStep ==
    ASSUME ScopeInv, TypeOK', NEW l \in Loops, ConstructLoop(l)
    PROVE  ScopeInv'
<1>1. Pushed([kind |-> "object", of |-> l])
      BY Entering DEF ConstructLoop, ScopeInv, TypeOK, Item, Pushed
<1>2. Scoped'
      BY <1>1, PushObject, Facts DEF ScopeInv, TypeOK, ConstructLoop
<1>3. \A i \in 1 .. Len(stack') : i = Len(stack') => BelowAt(i)'
      BY <1>1, NamesAssumption DEF NamesAssumption, BelowAt, Is, Pushed
<1>4. LoopsBelow'
      BY <1>1, <1>3, PushBelow DEF ScopeInv, ConstructLoop
<1>5. AtTheInstance'
  <2>1. [Next]_vars /\ entry' = entry
        BY DEF Next, ConstructLoop
  <2> QED
      BY <1>1, <2>1, Facts, StayAtTheInstance DEF ScopeInv, AtTheInstance, Is, Pushed
<1>6. EntriesOfLiving'
      BY NamesAssumption
         DEF NamesAssumption, ScopeInv, TypeOK, EntriesOfLiving, ConstructLoop
<1> QED
    BY <1>2, <1>4, <1>5, <1>6 DEF ScopeInv

LEMMA DestroyLoopStep ==
    ASSUME ScopeInv, TypeOK', NEW l \in Loops, DestroyLoop(l)
    PROVE  ScopeInv'
<1>1. Popped /\ stack[Len(stack)] = [kind |-> "object", of |-> l]
      BY Facts, Leaving DEF DestroyLoop, ScopeInv, TypeOK, Popped
<1>2. Scoped'
      BY <1>1, PopObject, Facts DEF ScopeInv, TypeOK, DestroyLoop
<1>3. LoopsBelow'
      BY <1>1, PopBelow DEF ScopeInv, DestroyLoop
<1>4. AtTheInstance'
  <2>1. [Next]_vars /\ entry' = entry
        BY DEF Next, DestroyLoop
  <2> QED
      BY <1>1, <2>1, Facts, StayAtTheInstance DEF ScopeInv, AtTheInstance, Is, Popped
<1>5. EntriesOfLiving'
      BY NamesAssumption
         DEF NamesAssumption, ScopeInv, TypeOK, EntriesOfLiving, DestroyLoop
<1> QED
    BY <1>2, <1>3, <1>4, <1>5 DEF ScopeInv

\* A new client is registered at the instance, or nowhere.
LEMMA ConstructStep ==
    ASSUME ScopeInv, TypeOK', NEW c \in Clients,
           ConstructClient(c) \/ ConstructFailing(c)
    PROVE  ScopeInv'
<1>1. Pushed([kind |-> "object", of |-> c]) /\ life[c] = "new"
      BY Entering DEF ConstructClient, ConstructFailing, ScopeInv, TypeOK, Item, Pushed
<1>2. life' = [life EXCEPT ![c] = "alive"] /\ [Next]_vars
      BY DEF ConstructClient, ConstructFailing, Next
<1>3. Scoped'
      BY <1>1, <1>2, PushObject, Facts DEF ScopeInv, TypeOK
<1>4. hasOwn => hasOwn'
      BY CallInstanceAnswers DEF ScopeInv, ConstructClient, ConstructFailing, globals
<1>5. entry[c] = None
      BY <1>1 DEF ScopeInv, EntriesOfLiving
<1>6. \/ entry' = entry
      \/ CallInstance /\ Usable /\ entry' = [entry EXCEPT ![c] = Instance]
      BY DEF ConstructClient, ConstructFailing
<1>7. \A d \in Clients : d # c => entry'[d] = entry[d]
      BY <1>6 DEF ScopeInv, TypeOK
<1>8. entry'[c] = None \/ (CallInstance /\ Usable /\ entry'[c] = Instance)
      BY <1>5, <1>6 DEF ScopeInv, TypeOK
<1>9. \A d \in Clients, i \in 1 .. Len(stack) :
         Is(i, "object", d) => entry'[d] \in {None, entry[d]}
      BY <1>1, <1>7, Facts
<1>10. \A i \in 1 .. Len(stack') : i = Len(stack') => BelowAt(i)'
  <2> SUFFICES ASSUME NEW i \in 1 .. Len(stack'), i = Len(stack'), entry'[c] # None
               PROVE  \/ entry'[c] = Own /\ hasOwn'
                      \/ \E j \in 1 .. i - 1 :
                            stack'[j].kind = "object" /\ stack'[j].of = entry'[c]
      BY <1>1 DEF BelowAt, Is, Pushed
  <2>1. i - 1 = Len(stack) /\ \A j \in 1 .. Len(stack) : stack'[j] = stack[j]
        BY <1>1, Facts DEF Pushed
  <2> QED
      BY <1>8, <2>1, UsableInstance DEF Is
<1>11. LoopsBelow'
       BY <1>1, <1>4, <1>9, <1>10, PushBelow DEF ScopeInv
<1>12. AtTheInstance'
  <2>1. \A d \in Clients : entry'[d] # None =>
           entry'[d] = entry[d] \/ (extValue' # Unset /\ entry'[d] = Instance')
        BY <1>7, <1>8, CallInstanceAnswers DEF ScopeInv
  <2> QED
      BY <1>1, <1>2, <2>1, Facts, StayAtTheInstance DEF ScopeInv, AtTheInstance, Is, Pushed
<1>13. EntriesOfLiving'
       BY <1>2, <1>7 DEF ScopeInv, TypeOK, EntriesOfLiving
<1> QED
    BY <1>3, <1>11, <1>12, <1>13 DEF ScopeInv

\* The destructor of a registered connection finds its loop.
LEMMA DestroyClientStep ==
    ASSUME ScopeInv, TypeOK', NEW c \in Clients, DestroyClient(c)
    PROVE  ScopeInv'
<1>1. Popped /\ stack[Len(stack)] = [kind |-> "object", of |-> c]
      BY Facts, Leaving DEF DestroyClient, ScopeInv, TypeOK, Popped
<1>2. life' = [life EXCEPT ![c] = "gone"] /\ [Next]_vars
      BY DEF DestroyClient, Next
<1>3. Scoped'
      BY <1>1, <1>2, PopObject, Facts DEF ScopeInv, TypeOK
<1>4. life[c] = "alive"
      BY <1>1, Facts DEF Is, Popped
<1>5. hasOwn => hasOwn'
      BY CallInstanceAnswers DEF ScopeInv, DestroyClient, Deregister, globals
<1>6. \A d \in Clients : /\ entry'[d] \in {None, entry[d]}
                         /\ d # c => entry'[d] = entry[d]
      BY DEF DestroyClient, Deregister, ScopeInv, TypeOK
<1>7. c \in Removing => entry'[c] = None
  <2> SUFFICES ASSUME c \in Removing, entry[c] # None PROVE entry'[c] = None
      BY <1>6
  <2>1. Deregister(c)
        BY DEF DestroyClient
  <2>2. entry[c] = Instance /\ Alive(entry[c])
        BY <1>4, RegisteredLoopLives DEF ScopeInv, AtTheInstance
  <2>3. Usable
        BY <2>2 DEF Usable
  <2> QED
      BY <2>1, <2>2, <2>3 DEF Deregister, Dangle, ScopeInv, TypeOK
<1>8. LoopsBelow'
      BY <1>1, <1>5, <1>6, PopBelow DEF ScopeInv
<1>9. AtTheInstance'
  <2>1. \A d \in Clients : entry'[d] # None => entry'[d] = entry[d]
        BY <1>6
  <2> QED
      BY <1>1, <1>2, <2>1, Facts, StayAtTheInstance DEF ScopeInv, AtTheInstance, Is, Popped
<1>10. EntriesOfLiving'
       BY <1>2, <1>4, <1>6, <1>7 DEF ScopeInv, TypeOK, EntriesOfLiving
<1> QED
    BY <1>3, <1>8, <1>9, <1>10 DEF ScopeInv

LEMMA ExecStep ==
    ASSUME ScopeInv, TypeOK', NEW l \in AnyLoop, Exec(l)
    PROVE  ScopeInv'
<1>1. Pushed([kind |-> "exec", of |-> l])
      BY Entering DEF Exec, ScopeInv, TypeOK, Item, Pushed
<1>2. life' = life /\ entry' = entry /\ [Next]_vars
      BY DEF Exec, Next
<1>3. Scoped'
      BY <1>1, <1>2, PushOther, Facts DEF ScopeInv
<1>4. hasOwn => hasOwn'
      BY CallInstanceAnswers DEF ScopeInv, Exec, globals
<1>5. \/ l = Own /\ hasOwn'
      \/ \E j \in 1 .. Len(stack) : Is(j, "object", l)
  <2>1. CASE l \in Loops /\ Alive(l)
        BY <2>1, Facts, NamesAssumption DEF NamesAssumption, Alive
  <2>2. CASE l = Instance /\ Usable /\ CallInstance
        BY <2>2, UsableInstance
  <2> QED
      BY <2>1, <2>2 DEF Exec
<1>6. \A i \in 1 .. Len(stack') : i = Len(stack') => BelowAt(i)'
  <2> SUFFICES ASSUME NEW i \in 1 .. Len(stack'), i = Len(stack')
               PROVE  \/ l = Own /\ hasOwn'
                      \/ \E j \in 1 .. i - 1 :
                            stack'[j].kind = "object" /\ stack'[j].of = l
      BY <1>1 DEF BelowAt, Is, Pushed
  <2>1. i - 1 = Len(stack) /\ \A j \in 1 .. Len(stack) : stack'[j] = stack[j]
        BY <1>1, Facts DEF Pushed
  <2> QED
      BY <1>5, <2>1 DEF Is
<1>7. LoopsBelow'
      BY <1>1, <1>2, <1>4, <1>6, PushBelow DEF ScopeInv
<1>8. AtTheInstance'
      BY <1>1, <1>2, Facts, StayAtTheInstance DEF ScopeInv, AtTheInstance, Is, Pushed
<1>9. EntriesOfLiving'
      BY <1>2 DEF ScopeInv, EntriesOfLiving
<1> QED
    BY <1>3, <1>7, <1>8, <1>9 DEF ScopeInv

\* exec() calls back clients of its own loop, which is the instance.
LEMMA CallbackStep ==
    ASSUME ScopeInv, TypeOK', NEW c \in Clients, Callback(c)
    PROVE  ScopeInv'
<1>1. Pushed([kind |-> "call", of |-> c])
      BY Entering DEF Callback, ScopeInv, TypeOK, Item, Pushed
<1>2. UNCHANGED <<life, entry, extValue, hasOwn>> /\ [Next]_vars
      BY DEF Callback, Next, globals
<1>3. Scoped'
      BY <1>1, <1>2, PushOther, Facts DEF ScopeInv
<1>4. \A i \in 1 .. Len(stack') : i = Len(stack') => BelowAt(i)'
      BY <1>1 DEF BelowAt, Is, Pushed
<1>5. LoopsBelow'
      BY <1>1, <1>2, <1>4, PushBelow DEF ScopeInv
<1>6. AtTheInstance'
  <2>1. /\ entry[c] # None
        /\ Len(stack) > 0 /\ Is(Len(stack), "exec", entry[c])
    <3>1. stack # <<>> /\ Top.kind = "exec" /\ entry[c] = Top.of
          BY DEF Callback
    <3>2. Top.of \in AnyLoop
          BY <3>1, Facts DEF Item
    <3> QED
        BY <3>1, <3>2, Facts, NamesAssumption DEF NamesAssumption, AnyLoop, Is
  <2>2. extValue' # Unset /\ entry[c] = Instance'
        BY <1>2, <2>1, StayAtTheInstance DEF ScopeInv
  <2> QED
      BY <1>1, <1>2, <2>1, <2>2, Facts, StayAtTheInstance
         DEF ScopeInv, AtTheInstance, Is, Pushed
<1>7. EntriesOfLiving'
      BY <1>2 DEF ScopeInv, EntriesOfLiving
<1> QED
    BY <1>3, <1>5, <1>6, <1>7 DEF ScopeInv

LEMMA ReturnStep ==
    ASSUME ScopeInv, TypeOK', CallbackReturns \/ ExecReturns
    PROVE  ScopeInv'
<1>1. Popped /\ stack[Len(stack)].kind # "object"
      BY Facts, Leaving DEF CallbackReturns, ExecReturns, ScopeInv, TypeOK, Popped
<1>2. UNCHANGED <<life, entry, extValue, hasOwn>> /\ [Next]_vars
      BY DEF CallbackReturns, ExecReturns, Next, globals
<1>3. Scoped'
      BY <1>1, <1>2, PopOther, Facts DEF ScopeInv
<1>4. LoopsBelow'
      BY <1>1, <1>2, PopBelow DEF ScopeInv
<1>5. AtTheInstance'
      BY <1>1, <1>2, Facts, StayAtTheInstance DEF ScopeInv, AtTheInstance, Is, Popped
<1>6. EntriesOfLiving'
      BY <1>2 DEF ScopeInv, EntriesOfLiving
<1> QED
    BY <1>3, <1>4, <1>5, <1>6 DEF ScopeInv

LEMMA QuitStep ==
    ASSUME ScopeInv, TypeOK', Quit
    PROVE  ScopeInv'
<1>1. UNCHANGED <<life, entry, stack>> /\ [Next]_vars /\ (hasOwn => hasOwn')
      BY CallInstanceAnswers DEF ScopeInv, Quit, Next
<1>2. Scoped' /\ EntriesOfLiving'
      BY <1>1 DEF ScopeInv, Scoped, EntriesOfLiving, Is
<1>3. LoopsBelow'
      BY <1>1 DEF ScopeInv, LoopsBelow, BelowAt, Is
<1>4. AtTheInstance'
      BY <1>1, StayAtTheInstance DEF ScopeInv, AtTheInstance, Is
<1> QED
    BY <1>2, <1>3, <1>4 DEF ScopeInv

\* The scopes are kept by every step: objects are on the stack while they are
\* alive, above the loops they use, which are what instance() returns.
THEOREM ScopesHold == Spec => []ScopeInv
<1>1. Init => ScopeInv
  <2> SUFFICES ASSUME Init PROVE ScopeInv
      OBVIOUS
  <2>1. TypeOK
        BY InitType
  <2> QED
      BY <2>1 DEF Init, ScopeInv, Scoped, LoopsBelow, AtTheInstance, EntriesOfLiving
<1>2. ScopeInv /\ [Next]_vars => ScopeInv'
  <2> SUFFICES ASSUME ScopeInv, [Next]_vars PROVE ScopeInv'
      OBVIOUS
  <2>1. TypeOK'
        BY TypeStep DEF ScopeInv
  <2>2. CASE UNCHANGED vars
        BY <2>1, <2>2 DEF vars, globals, ScopeInv, Scoped, LoopsBelow, BelowAt,
           AtTheInstance, EntriesOfLiving, Is, Instance
  <2> QED
      BY <2>1, <2>2, ConstructLoopStep, DestroyLoopStep, ConstructStep, DestroyClientStep,
         ExecStep, CallbackStep, ReturnStep, QuitStep DEF Next
<1> QED
    BY <1>1, <1>2, PTL DEF Spec

\* CallbacksAtTheInstance: whatever loops a program declares, a callback's quit
\* reaches the loop that made the callback.
THEOREM QuitReaches == Spec => []CallbacksAtTheInstance
<1>1. ScopeInv => CallbacksAtTheInstance
  <2> SUFFICES ASSUME ScopeInv, NEW i \in 1 .. Len(stack), stack[i].kind = "call"
               PROVE  stack[i - 1] = [kind |-> "exec", of |-> Instance] /\ Alive(Instance)
      BY DEF CallbacksAtTheInstance
  <2>1. i - 1 \in 1 .. Len(stack) /\ Is(i - 1, "exec", Instance)
        BY Facts DEF ScopeInv, AtTheInstance
  <2>2. stack[i - 1] = [kind |-> "exec", of |-> Instance]
        BY <2>1, Facts DEF Item, Is
  <2>3. \/ Instance = Own /\ hasOwn
        \/ \E j \in 1 .. Len(stack) : Is(j, "object", Instance)
        BY <2>1, Facts DEF ScopeInv, LoopsBelow, BelowAt, Is
  <2>4. Alive(Instance)
    <3>1. CASE Instance = Own
      <4>1. \A j \in 1 .. Len(stack) : ~Is(j, "object", Own)
            BY Facts, NamesAssumption DEF NamesAssumption, Item, Is
      <4> QED
          BY <2>3, <3>1, <4>1 DEF Alive
    <3>2. CASE Instance \in Loops
          BY <2>3, <3>2, Facts, NamesAssumption DEF NamesAssumption, Alive
    <3> QED
        BY <3>1, <3>2 DEF Instance
  <2> QED
      BY <2>2, <2>4
<1> QED
    BY <1>1, ScopesHold, PTL

\* RemovedWhereAdded: no registered object outlives its loop, and no loop keeps
\* the callback of a connection that is gone.
THEOREM ConnectionsAreRemoved == Spec => []RemovedWhereAdded
<1>1. ScopeInv => RemovedWhereAdded
      BY RegisteredLoopLives DEF RemovedWhereAdded, ScopeInv, EntriesOfLiving
<1> QED
    BY <1>1, ScopesHold, PTL
============================================================================
