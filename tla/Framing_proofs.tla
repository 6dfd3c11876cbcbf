--------------------------- MODULE Framing_proofs ---------------------------
(***************************************************************************)
(* Proofs about Framing: however the bytes arrive, readFd cuts the stream  *)
(* where the messages end, and implements a queue of messages.             *)
(*                                                                         *)
(* The invariants of the runs are not inductive. That a byte is followed   *)
(* by the next one (NoByteLost) does not give a step the j-th byte after   *)
(* it, which BodyDone needs of the whole message; so the proofs carry      *)
(* Stretch, which says it for every j, and HeaderInv, which ties the       *)
(* header readFd keeps to the message at the front of the stream.          *)
(***************************************************************************)
EXTENDS Framing, SequenceTheorems, TLAPS

----------------------------------------------------------------------------
(* The padding of the header and the size of a message *)

LEMMA DivMod ==
    ASSUME NEW a \in Nat \ {0}, NEW n \in Nat
    PROVE  /\ n \div a \in Nat /\ n % a \in 0 .. a - 1
           /\ n = a * (n \div a) + (n % a)
OBVIOUS

LEMMA SmallMod ==
    ASSUME NEW a \in Nat \ {0}, NEW r \in 0 .. a - 1
    PROVE  r % a = r
OBVIOUS

LEMMA MultipleMod ==
    ASSUME NEW a \in Nat \ {0}, NEW q \in Nat
    PROVE  (a * q) % a = 0
OBVIOUS

LEMMA SelfMod ==
    ASSUME NEW a \in Nat \ {0}
    PROVE  a % a = 0
OBVIOUS

LEMMA MultiplesApart ==
    ASSUME NEW a \in Nat \ {0}, NEW p \in Nat, NEW q \in Nat,
           a * p - a * q < a, a * q - a * p < a
    PROVE  p = q
OBVIOUS

LEMMA PaddingAligns ==
    ASSUME NEW n \in Nat
    PROVE  /\ Padding(n) \in 0 .. Alignment - 1
           /\ (n + Padding(n)) % Alignment = 0
<1> DEFINE q == n \div Alignment
           r == n % Alignment
<1>a. Alignment \in Nat \ {0}
  BY SizeAssumption
<1>1. q \in Nat /\ r \in 0 .. Alignment - 1 /\ n = Alignment * q + r
  BY <1>a, DivMod
<1>2. Padding(n) = (Alignment - r) % Alignment
  BY DEF Padding
<1> HIDE DEF q, r
<1>3. CASE r = 0
  <2>1. Padding(n) = 0
    BY <1>a, <1>2, <1>3, SelfMod
  <2>2. n = Alignment * q
    BY <1>a, <1>1, <1>3
  <2>3. (Alignment * q) % Alignment = 0
    BY <1>a, <1>1, MultipleMod
  <2>4. n + Padding(n) = Alignment * q
    BY <1>a, <1>1, <2>1, <2>2
  <2> QED  BY <1>a, <2>1, <2>3, <2>4
<1>4. CASE r # 0
  <2>1. Alignment - r \in 0 .. Alignment - 1
    BY <1>a, <1>1, <1>4
  <2>2. Padding(n) = Alignment - r
    BY <1>a, <1>2, <2>1, SmallMod
  <2>3. n + Padding(n) = Alignment * (q + 1)
    BY <1>a, <1>1, <2>2
  <2>4. q + 1 \in Nat
    BY <1>1
  <2> QED  BY <1>a, <2>1, <2>2, <2>3, <2>4, MultipleMod
<1> QED  BY <1>3, <1>4

\* The "(8 - n % 8) % 8" of readFd is the padding the specification asks for:
\* n plus it is the one multiple of the alignment in n .. n + 7.
LEMMA AlignedToIsPadded ==
    ASSUME NEW n \in Nat
    PROVE  AlignedTo(n) = n + Padding(n)
<1>a. Alignment \in Nat \ {0}
  BY SizeAssumption
<1>1. Padding(n) \in 0 .. Alignment - 1 /\ (n + Padding(n)) % Alignment = 0
  BY PaddingAligns
<1> DEFINE p == n + Padding(n)
<1>2. p \in n .. n + Alignment - 1 /\ p % Alignment = 0
  BY <1>a, <1>1
<1> HIDE DEF p
<1>3. ASSUME NEW k \in n .. n + Alignment - 1, k % Alignment = 0
      PROVE  k = p
  <2>1. k = Alignment * (k \div Alignment) + 0 /\ k \div Alignment \in Nat
    BY <1>a, <1>3, DivMod
  <2>2. p = Alignment * (p \div Alignment) + 0 /\ p \div Alignment \in Nat
    BY <1>a, <1>2, DivMod
  <2> DEFINE x == k \div Alignment
             y == p \div Alignment
  <2>3. k - p < Alignment /\ p - k < Alignment
    BY <1>a, <1>2
  <2> HIDE DEF x, y
  <2>4. k = Alignment * x /\ p = Alignment * y /\ x \in Nat /\ y \in Nat
    BY <1>a, <2>1, <2>2 DEF x, y
  <2>5. x = y
    BY <1>a, <2>3, <2>4, MultiplesApart
  <2> QED  BY <2>4, <2>5
<1>4. AlignedTo(n) = p
  BY <1>2, <1>3 DEF AlignedTo
<1> QED  BY <1>4 DEF p

\* What readFd computes of a message (headerTotal + padding + bodyLen) is what
\* the bus writes for it, and never less than the fixed header.
LEMMA SizeFacts ==
    ASSUME NEW m \in Kinds
    PROVE  /\ Size(m) \in Nat \ {0} /\ Size(m) >= HeaderSize
           /\ TotalSize(m) = Size(m)
<1>1. m.fields \in Nat /\ m.body \in Nat /\ HeaderSize \in Nat \ {0}
  BY KindAssumption, SizeAssumption
<1> DEFINE n == HeaderSize + m.fields
<1>2. n \in Nat /\ n >= HeaderSize
  BY <1>1
<1>3. Size(m) = AlignedTo(n) + m.body /\ TotalSize(m) = n + Padding(n) + m.body
  BY DEF Size, TotalSize
<1> HIDE DEF n
<1>4. AlignedTo(n) = n + Padding(n) /\ Padding(n) \in Nat
  BY <1>2, AlignedToIsPadded, PaddingAligns, SizeAssumption
<1> QED  BY <1>1, <1>2, <1>3, <1>4

----------------------------------------------------------------------------
(* Stretches of the stream *)

LEMMA Glued ==
    ASSUME NEW S, NEW a \in Seq(S), NEW b \in Seq(S)
    PROVE  /\ a \o b \in Seq(S) /\ Len(a \o b) = Len(a) + Len(b)
           /\ \A i \in 1 .. Len(a) : (a \o b)[i] = a[i]
           /\ \A j \in 1 .. Len(b) : (a \o b)[Len(a) + j] = b[j]
OBVIOUS

LEMMA SubSeqIsSplit ==
    ASSUME NEW S, NEW s \in Seq(S), NEW k \in 0 .. Len(s)
    PROVE  /\ SubSeq(s, 1, k) \in Seq(S) /\ Len(SubSeq(s, 1, k)) = k
           /\ SubSeq(s, k + 1, Len(s)) \in Seq(S)
           /\ SubSeq(s, 1, k) \o SubSeq(s, k + 1, Len(s)) = s
<1> DEFINE l == Len(s)
           a == SubSeq(s, 1, k)
           b == SubSeq(s, k + 1, l)
<1>1. l \in Nat /\ k \in Nat /\ k <= l /\ \A i \in 1 .. l : s[i] \in S
  OBVIOUS
<1> HIDE DEF l
<1>2. a \in Seq(S) /\ Len(a) = k
  BY <1>1
<1>3. b \in Seq(S)
  BY <1>1
<1>4. a \o b = s
  <2>1. 1 \in 1 .. Len(s) + 1 /\ k \in 1 - 1 .. Len(s) /\ l \in k .. Len(s)
    BY <1>1 DEF l
  <2>2. a \o b = SubSeq(s, 1, l)
    BY <2>1, ConcatAdjacentSubSeq
  <2>3. SubSeq(s, 1, l) = s
    BY SubSeqFull DEF l
  <2> QED  BY <2>2, <2>3
<1> QED  BY <1>2, <1>3, <1>4 DEF l

\* From each byte but the last on, t runs through the bytes of its message one
\* by one, and the byte after the last of a message is the first of the next.
Stretch(t, s) ==
    \A i \in 1 .. Len(t) - 1 :
        /\ t[i][1] \in 1 .. Len(s) /\ t[i][2] \in 1 .. Size(s[t[i][1]])
        /\ \A j \in 0 .. Len(t) - i :
              t[i][2] + j <= Size(s[t[i][1]]) => t[i + j] = <<t[i][1], t[i][2] + j>>
        /\ t[i][2] = Size(s[t[i][1]]) => t[i + 1] = <<t[i][1] + 1, 1>>

Place == Nat \X Nat

LEMMA StretchDrop ==
    ASSUME NEW t \in Seq(Place), NEW u \in Seq(Place), NEW s \in Seq(Kinds), NEW n \in Nat,
           Stretch(t, s), Len(t) = Len(u) + n, \A i \in 1 .. Len(u) : u[i] = t[n + i]
    PROVE  Stretch(u, s)
<1> SUFFICES ASSUME NEW i \in 1 .. Len(u) - 1
             PROVE  /\ u[i][1] \in 1 .. Len(s) /\ u[i][2] \in 1 .. Size(s[u[i][1]])
                    /\ \A j \in 0 .. Len(u) - i :
                          u[i][2] + j <= Size(s[u[i][1]])
                              => u[i + j] = <<u[i][1], u[i][2] + j>>
                    /\ u[i][2] = Size(s[u[i][1]]) => u[i + 1] = <<u[i][1] + 1, 1>>
  BY DEF Stretch
<1>1. n + i \in 1 .. Len(t) - 1 /\ u[i] = t[n + i]
  OBVIOUS
<1>2. \A j \in 0 .. Len(u) - i : u[i + j] = t[(n + i) + j]
  <2> TAKE j \in 0 .. Len(u) - i
  <2>1. i + j \in 1 .. Len(u) /\ n + (i + j) = (n + i) + j
    OBVIOUS
  <2> QED  BY <2>1
<1>3. Len(t) - (n + i) = Len(u) - i
  OBVIOUS
<1>4. u[i + 1] = t[(n + i) + 1]
  BY <1>2
<1> DEFINE p == n + i
<1>5. /\ t[p][1] \in 1 .. Len(s) /\ t[p][2] \in 1 .. Size(s[t[p][1]])
      /\ \A j \in 0 .. Len(t) - p :
            t[p][2] + j <= Size(s[t[p][1]]) => t[p + j] = <<t[p][1], t[p][2] + j>>
      /\ t[p][2] = Size(s[t[p][1]]) => t[p + 1] = <<t[p][1] + 1, 1>>
  BY <1>1 DEF Stretch
<1> QED  BY <1>1, <1>2, <1>3, <1>4, <1>5

LEMMA StretchAppend ==
    ASSUME NEW t \in Seq(Place), NEW s \in Seq(Kinds), NEW m \in Kinds, Stretch(t, s)
    PROVE  Stretch(t, Append(s, m))
<1>1. \A x \in 1 .. Len(s) : Append(s, m)[x] = s[x]
  OBVIOUS
<1>2. Len(Append(s, m)) = Len(s) + 1
  OBVIOUS
<1>3. \A i \in 1 .. Len(t) - 1 :
         t[i][1] \in 1 .. Len(s) /\ Append(s, m)[t[i][1]] = s[t[i][1]]
  BY <1>1 DEF Stretch
<1> HIDE DEF Stretch
<1> QED  BY <1>2, <1>3 DEF Stretch

\* t ends with the byte f of message n; u goes on from there for k bytes.
GoesOn(t, u, n, f, k, size) ==
    /\ Len(t) \in Nat \ {0} /\ Len(u) = Len(t) + k
    /\ t[Len(t)] = <<n, f>> /\ f + k <= size + 1
    /\ \A i \in 1 .. Len(t) - 1 : u[i] = t[i]
    /\ \A j \in 0 .. k - 1 : u[Len(t) + j] = <<n, f + j>>
    /\ u[Len(u)] = IF f + k <= size THEN <<n, f + k>> ELSE <<n + 1, 1>>

LEMMA StretchExtend ==
    ASSUME NEW t \in Seq(Place), NEW u \in Seq(Place), NEW s \in Seq(Kinds),
           NEW n \in 1 .. Len(s), NEW f \in Nat \ {0}, NEW k \in Nat \ {0},
           Stretch(t, s), GoesOn(t, u, n, f, k, Size(s[n]))
    PROVE  Stretch(u, s)
<1> DEFINE l == Len(t)
           z == Size(s[n])
<1>s. z \in Nat
  BY SizeFacts, ElementOfSeq
<1>l. l \in Nat \ {0} /\ Len(u) = l + k /\ f + k <= z + 1 /\ t[l] = <<n, f>>
  BY DEF GoesOn
<1>e. u[l + k] = IF f + k <= z THEN <<n, f + k>> ELSE <<n + 1, 1>>
  BY DEF GoesOn
<1>j. \A j \in 0 .. k - 1 : u[l + j] = <<n, f + j>>
  BY DEF GoesOn
<1>i. \A i \in 1 .. l - 1 : u[i] = t[i]
  BY DEF GoesOn
<1>z. \A x \in 1 .. Len(s) : Size(s[x]) \in Nat
  BY SizeFacts, ElementOfSeq
<1> HIDE DEF l, z
<1>0. u[l] = <<n, f>>
  <2>1. 0 \in 0 .. k - 1 /\ l + 0 = l /\ f + 0 = f
    BY <1>l
  <2> QED  BY <2>1, <1>j
<1>a. ASSUME NEW i \in 1 .. l
      PROVE  u[i] = t[i]
  <2>1. CASE i = l
    BY <2>1, <1>0, <1>l
  <2>2. CASE i # l
    BY <2>2, <1>i, <1>l
  <2> QED  BY <2>1, <2>2
<1>b. ASSUME NEW j \in 0 .. k, f + j <= z
      PROVE  u[l + j] = <<n, f + j>>
  <2>1. CASE j = k
    BY <2>1, <1>b, <1>e
  <2>2. CASE j # k
    BY <2>2, <1>j
  <2> QED  BY <2>1, <2>2
<1>q. ASSUME NEW i \in 1 .. Len(u) - 1
      PROVE  /\ u[i][1] \in 1 .. Len(s) /\ u[i][2] \in 1 .. Size(s[u[i][1]])
             /\ \A j \in 0 .. Len(u) - i :
                   u[i][2] + j <= Size(s[u[i][1]])
                       => u[i + j] = <<u[i][1], u[i][2] + j>>
             /\ u[i][2] = Size(s[u[i][1]]) => u[i + 1] = <<u[i][1] + 1, 1>>
  <2>1. CASE i < l
    <3>1. i \in 1 .. l - 1 /\ u[i] = t[i] /\ i + 1 \in 1 .. l /\ u[i + 1] = t[i + 1]
      BY <2>1, <1>a, <1>l
    <3> DEFINE x == t[i][1]
               o == t[i][2]
               c == Size(s[x])
    <3>2. x \in 1 .. Len(s) /\ o \in 1 .. c
      BY <3>1 DEF Stretch, l
    <3>3. ASSUME NEW j \in 0 .. l - i, o + j <= c
          PROVE  t[i + j] = <<x, o + j>>
      BY <3>1, <3>3 DEF Stretch, l
    <3>4. o = c => t[i + 1] = <<x + 1, 1>>
      BY <3>1 DEF Stretch, l
    <3>n. c \in Nat /\ (x = n => c = z)
      BY <3>2, <1>z DEF z
    <3> HIDE DEF x, o, c
    <3>5. ASSUME NEW j \in 0 .. Len(u) - i, o + j <= c
          PROVE  u[i + j] = <<x, o + j>>
      <4>1. CASE i + j <= l
        <5>1. j \in 0 .. l - i /\ i + j \in 1 .. l
          BY <4>1, <1>l, <3>1
        <5> QED  BY <5>1, <3>3, <3>5, <1>a
      <4>2. CASE i + j > l
        <5> DEFINE d == l - i
                   e == i + j - l
        <5>1. d \in 0 .. l - i /\ d < j /\ i + d = l /\ e \in 0 .. k /\ d + e = j
          BY <4>2, <1>l, <3>1
        <5> HIDE DEF d, e
        <5>2. t[i + d] = <<x, o + d>>
          <6>1. o \in Nat /\ d \in Nat /\ j \in Nat
            BY <5>1, <3>2, <3>n, <1>l, <3>1
          <6>2. o + d <= c
            BY <5>1, <3>n, <3>5, <6>1
          <6> QED  BY <5>1, <6>2, <3>3
        <5>3. x = n /\ o + d = f
          <6>1. i + d = l /\ t[l] = <<n, f>>
            BY <5>1, <1>l
          <6>2. <<x, o + d>> = <<n, f>>
            BY <5>2, <6>1
          <6> QED  BY <6>2
        <5>4. f + e = o + j /\ l + e = i + j
          BY <5>1, <5>3, <3>2, <3>n, <1>l
        <5>5. u[l + e] = <<n, f + e>>
          BY <1>b, <5>1, <5>3, <5>4, <3>5, <3>n
        <5> QED  BY <5>3, <5>4, <5>5
      <4> QED  BY <4>1, <4>2, <1>l
    <3> QED  BY <3>1, <3>2, <3>4, <3>5 DEF x, o, c
  <2>2. CASE i >= l
    <3> DEFINE d == i - l
    <3>1. d \in 0 .. k - 1 /\ i = l + d
      BY <2>2, <1>l
    <3> HIDE DEF d
    <3>2. u[i] = <<n, f + d>>
      BY <3>1, <1>j
    <3>3. u[i][1] = n /\ u[i][2] = f + d
      BY <3>2
    <3>4. f + d \in 1 .. z
      BY <3>1, <1>s, <1>l
    <3>5. ASSUME NEW j \in 0 .. Len(u) - i, (f + d) + j <= z
          PROVE  u[i + j] = <<n, (f + d) + j>>
      <4>0. j \in Nat /\ j <= l + k - i /\ d \in Nat
        BY <3>1, <1>l
      <4>1. d + j \in 0 .. k /\ f + (d + j) = (f + d) + j /\ l + (d + j) = i + j
        BY <3>1, <4>0, <1>l
      <4> QED  BY <4>1, <3>5, <1>b
    <3>6. ASSUME f + d = z
          PROVE  u[i + 1] = <<n + 1, 1>>
      <4>1. d = k - 1 /\ i + 1 = l + k
        BY <3>1, <3>6, <1>s, <1>l
      <4>2. ~(f + k <= z)
        BY <4>1, <3>6, <1>s
      <4> QED  BY <4>1, <4>2, <1>e
    <3> QED  BY <3>3, <3>4, <3>5, <3>6 DEF z
  <2> QED  BY <2>1, <2>2, <1>l
<1> QED  BY <1>q DEF Stretch

----------------------------------------------------------------------------
(* The inductive invariant *)

\* The bus has yet to write a part of the last message only.
BusInv ==
    /\ sent = <<>> => unwritten = 0
    /\ sent # <<>> => unwritten <= Size(sent[Len(sent)])

StreamInv ==
    ~failed => Trail[1] = <<Len(delivered) + 1, 1>> /\ Stretch(Trail, sent)

\* The header readFd keeps is that of the message at the front, all of which is
\* in the buffer; without one, no more than a header has been read.
HeaderInv ==
    ~failed =>
        /\ header # NoHeader =>
              /\ Len(buffer) >= HeaderSize
              /\ header = sent[Len(delivered) + 1] /\ header.bad # "version"
        /\ header = NoHeader => pc # "body" /\ Len(buffer) + Len(data) <= HeaderSize

CallInv == (pc = "idle" => data = <<>>) /\ (pc # "idle" => ~failed)

\* The messages handed on are the first of the stream, in order and well-formed.
DeliveredInv ==
    /\ Len(delivered) <= Len(sent)
    /\ \A i \in 1 .. Len(delivered) : delivered[i] = i /\ sent[i].bad = "no"

FramingInv ==
    /\ TypeOK /\ BusInv /\ StreamInv /\ NeverPastTheEnd
    /\ HeaderInv /\ CallInv /\ DeliveredInv

LEMMA SentSizes ==
    ASSUME TypeOK, NEW i \in 1 .. Len(sent)
    PROVE  /\ sent[i] \in Kinds /\ Size(sent[i]) \in Nat \ {0}
           /\ Size(sent[i]) >= HeaderSize /\ TotalSize(sent[i]) = Size(sent[i])
<1>1. sent[i] \in Kinds
  BY DEF TypeOK
<1> QED  BY <1>1, SizeFacts

LEMMA TrailFacts ==
    ASSUME TypeOK, BusInv
    PROVE  /\ Held \in Seq(Byte) /\ Len(Held) = Len(buffer) + Len(data) + Len(pipe)
           /\ NextByte \in Place
           /\ Trail \in Seq(Place) /\ Len(Trail) = Len(Held) + 1
           /\ \A i \in 1 .. Len(Held) : Trail[i] = Held[i]
           /\ Trail[Len(Held) + 1] = NextByte
<1>1. buffer \in Seq(Byte) /\ data \in Seq(Byte) /\ pipe \in Seq(Byte)
  BY DEF TypeOK
<1>2. Held \in Seq(Byte) /\ Len(Held) = Len(buffer) + Len(data) + Len(pipe)
  BY <1>1, ConcatProperties DEF Held
<1>3. Byte \subseteq Place
  BY BoundAssumption DEF Byte, Place
<1>4. Held \in Seq(Place)
  BY <1>2, <1>3, SeqMonotonic
<1>5. NextByte \in Place
  <2>1. sent \in Seq(Kinds) /\ unwritten \in Nat
    BY DEF TypeOK
  <2>2. CASE unwritten = 0
    BY <2>1, <2>2 DEF NextByte, Place
  <2>3. CASE unwritten # 0
    <3>1. sent # <<>> /\ unwritten <= Size(sent[Len(sent)])
      BY <2>3 DEF BusInv
    <3>2. Len(sent) \in 1 .. Len(sent)
      BY <2>1, <3>1, EmptySeq
    <3>3. Size(sent[Len(sent)]) \in Nat
      BY <3>2, SentSizes
    <3>4. Size(sent[Len(sent)]) - unwritten + 1 \in Nat
      BY <2>1, <3>1, <3>3
    <3> QED  BY <2>1, <2>3, <3>4 DEF NextByte, Place
  <2> QED  BY <2>2, <2>3
<1> QED  BY <1>2, <1>4, <1>5, AppendProperties DEF Trail

\* The bytes held begin with the bytes of the first message not delivered.
LEMMA FrontFacts ==
    ASSUME FramingInv, ~failed, Held # <<>>
    PROVE  LET n == Len(delivered) + 1
           IN  /\ n \in 1 .. Len(sent) /\ sent[n] \in Kinds
               /\ Size(sent[n]) \in Nat \ {0} /\ Size(sent[n]) >= HeaderSize
               /\ TotalSize(sent[n]) = Size(sent[n])
               /\ \A k \in 1 .. Len(Held) : k <= Size(sent[n]) => Held[k] = <<n, k>>
<1> DEFINE n == Len(delivered) + 1
<1>1. TypeOK /\ BusInv /\ Trail[1] = <<n, 1>> /\ Stretch(Trail, sent)
  BY DEF FramingInv, StreamInv
<1>2. Held \in Seq(Byte) /\ Len(Trail) = Len(Held) + 1 /\ Trail \in Seq(Place)
  BY <1>1, TrailFacts
<1>3. Len(Held) \in Nat \ {0}
  BY <1>2, EmptySeq
<1>4. 1 \in 1 .. Len(Trail) - 1
  BY <1>2, <1>3
<1>5. /\ Trail[1][1] \in 1 .. Len(sent)
      /\ \A j \in 0 .. Len(Trail) - 1 :
            Trail[1][2] + j <= Size(sent[Trail[1][1]])
                => Trail[1 + j] = <<Trail[1][1], Trail[1][2] + j>>
  BY <1>1, <1>4 DEF Stretch
<1>6. Trail[1][1] = n /\ Trail[1][2] = 1
  BY <1>1
<1> HIDE DEF n
<1>7. n \in 1 .. Len(sent)
  BY <1>5, <1>6
<1>8. /\ sent[n] \in Kinds /\ Size(sent[n]) \in Nat \ {0} /\ Size(sent[n]) >= HeaderSize
      /\ TotalSize(sent[n]) = Size(sent[n])
  BY <1>1, <1>7, SentSizes
<1>9. ASSUME NEW k \in 1 .. Len(Held), k <= Size(sent[n])
      PROVE  Held[k] = <<n, k>>
  <2>1. k - 1 \in 0 .. Len(Trail) - 1 /\ 1 + (k - 1) = k
    BY <1>2, <1>3
  <2>2. Trail[1 + (k - 1)] = <<n, 1 + (k - 1)>>
    BY <1>5, <1>6, <1>9, <2>1
  <2>3. Trail[k] = Held[k]
    BY <1>1, TrailFacts
  <2> QED  BY <2>1, <2>2, <2>3
<1> QED  BY <1>7, <1>8, <1>9 DEF n

----------------------------------------------------------------------------
(* The bus *)

\* A new message begins where the stream ended.
LEMMA BusBeginsStep ==
    ASSUME FramingInv, NEW m \in Kinds, BusBegins(m)
    PROVE  FramingInv'
<1>1. TypeOK /\ BusInv /\ DeliveredInv
  BY DEF FramingInv
<1>2. /\ sent \in Seq(Kinds) /\ Len(sent) < MaxMessages /\ unwritten = 0
      /\ sent' = Append(sent, m) /\ unwritten' = Size(m)
      /\ UNCHANGED <<pipe, eof, errnoAgain, pc, data, buffer, header, delivered, failed>>
  BY <1>1 DEF BusBegins, TypeOK, readVars
<1>3. /\ sent' \in Seq(Kinds) /\ Len(sent') = Len(sent) + 1 /\ sent'[Len(sent) + 1] = m
      /\ \A i \in 1 .. Len(sent) : sent'[i] = sent[i]
  BY <1>2, AppendProperties
<1>4. Size(m) \in Nat \ {0}
  BY SizeFacts
<1>5. TypeOK'
  <2>1. Len(sent') <= MaxMessages
    BY <1>2, <1>3, BoundAssumption
  <2> QED  BY <1>1, <1>2, <1>3, <1>4, <2>1 DEF TypeOK
<1>6. BusInv'
  BY <1>2, <1>3, <1>4, EmptySeq DEF BusInv
<1>7. StreamInv'
  <2>1. NextByte = <<Len(sent) + 1, 1>>
    BY <1>2 DEF NextByte
  <2>2. NextByte' = <<Len(sent) + 1, 1>>
    BY <1>2, <1>3, <1>4 DEF NextByte
  <2>3. Trail' = Trail
    BY <1>2, <2>1, <2>2 DEF Trail, Held
  <2>4. Trail \in Seq(Place)
    BY <1>1, TrailFacts
  <2>5. Stretch(Trail, sent) => Stretch(Trail, Append(sent, m))
    BY <1>2, <2>4, StretchAppend
  <2> QED  BY <1>2, <2>3, <2>5 DEF FramingInv, StreamInv
<1>8. ASSUME ~failed, buffer \o data # <<>>
      PROVE  Len(delivered) + 1 \in 1 .. Len(sent)
  <2>1. Held # <<>>
    BY <1>1, <1>8 DEF Held, TypeOK
  <2> QED  BY <1>8, <2>1, FrontFacts
<1>9. NeverPastTheEnd'
  BY <1>2, <1>3, <1>8 DEF FramingInv, NeverPastTheEnd
<1>10. HeaderInv'
  <2>1. ASSUME ~failed, header # NoHeader
        PROVE  Len(delivered) + 1 \in 1 .. Len(sent)
    <3>1. buffer \in Seq(Byte) /\ data \in Seq(Byte) /\ Len(buffer) >= HeaderSize
      BY <1>1, <2>1 DEF FramingInv, HeaderInv, TypeOK
    <3>2. buffer # <<>>
      BY <3>1, SizeAssumption
    <3>3. buffer \o data # <<>>
      BY <3>1, <3>2
    <3> QED  BY <1>8, <2>1, <3>3
  <2> QED  BY <1>2, <1>3, <2>1 DEF FramingInv, HeaderInv
<1>11. CallInv'
  BY <1>2 DEF FramingInv, CallInv
<1>12. DeliveredInv'
  BY <1>1, <1>2, <1>3 DEF DeliveredInv, TypeOK
<1> QED  BY <1>5, <1>6, <1>7, <1>9, <1>10, <1>11, <1>12 DEF FramingInv

\* The bytes that become readable are the next ones of the last message.
LEMMA BusWritesStep ==
    ASSUME FramingInv, BusWrites
    PROVE  FramingInv'
<1> DEFINE n == Len(sent)
           z == Size(sent[n])
           from == z - unwritten
<1>1. TypeOK /\ BusInv
  BY DEF FramingInv
<1>2. PICK k \in 1 .. unwritten :
         /\ pipe' = pipe \o SubSeq(BytesOf(n), from + 1, from + k)
         /\ unwritten' = unwritten - k
  BY DEF BusWrites
<1>3. UNCHANGED <<sent, eof, errnoAgain, pc, data, buffer, header, delivered, failed>>
  BY DEF BusWrites, readVars
<1>4. /\ sent \in Seq(Kinds) /\ n <= MaxMessages /\ unwritten \in Nat
      /\ pipe \in Seq(Byte) /\ data \in Seq(Byte) /\ buffer \in Seq(Byte)
  BY <1>1 DEF TypeOK
<1>5. sent # <<>> /\ unwritten <= z
  BY <1>1, <1>2, <1>4 DEF BusInv
<1>6. n \in 1 .. Len(sent) /\ z \in Nat \ {0}
  <2>1. n \in 1 .. Len(sent)
    BY <1>4, <1>5, EmptySeq
  <2> QED  BY <1>1, <2>1, SentSizes
<1>b. BytesOf(n) = [i \in 1 .. z |-> <<n, i>>]
  BY DEF BytesOf
<1>m. n \in 1 .. MaxMessages
  BY <1>4, <1>6, BoundAssumption
<1>u. unwritten' = unwritten - k
  BY <1>2
<1> HIDE DEF n, z
<1>p. from \in Nat /\ from + k <= z /\ k \in Nat \ {0} /\ unwritten = z - from
  <2>1. k \in Nat \ {0} /\ k <= unwritten
    BY <1>4
  <2> QED  BY <2>1, <1>4, <1>5, <1>6
<1>v. unwritten' \in Nat /\ unwritten' <= z
  BY <1>u, <1>4, <1>5, <1>6
<1> HIDE DEF from
<1> DEFINE new == SubSeq(BytesOf(n), from + 1, from + k)
<1>7. /\ new \in Seq(Byte) /\ Len(new) = k
      /\ \A j \in 1 .. k : new[j] = <<n, from + j>>
  <2>1. BytesOf(n) \in Seq(Byte) /\ Len(BytesOf(n)) = z
    BY <1>b, <1>m, <1>6 DEF Byte
  <2>2. /\ new \in Seq(Byte) /\ Len(new) = k
        /\ \A j \in 1 .. k : new[j] = BytesOf(n)[(from + 1) + j - 1]
    <3> DEFINE s == BytesOf(n)
               a == from + 1
               b == from + k
    <3>1. s \in Seq(Byte) /\ a \in 1 .. Len(s) + 1 /\ b \in a - 1 .. Len(s) /\ b - a + 1 = k
      BY <2>1, <1>p, <1>6
    <3> HIDE DEF s, a, b
    <3>2. /\ SubSeq(s, a, b) \in Seq(Byte)
          /\ Len(SubSeq(s, a, b)) = IF a <= b THEN b - a + 1 ELSE 0
          /\ \A j \in 1 .. b - a + 1 : SubSeq(s, a, b)[j] = s[a + j - 1]
      BY <3>1, SubSeqProperties
    <3>3. a <= b
      BY <1>p DEF a, b
    <3> QED  BY <3>1, <3>2, <3>3 DEF s, a, b
  <2>3. ASSUME NEW j \in 1 .. k
        PROVE  new[j] = <<n, from + j>>
    <3>1. (from + 1) + j - 1 = from + j /\ from + j \in 1 .. z
      BY <1>p, <1>6
    <3> QED  BY <1>b, <2>2, <3>1
  <2> QED  BY <2>2, <2>3
<1>8. pipe' = pipe \o new
  BY <1>2
<1> HIDE DEF new
<1>9. TypeOK'
  <2>1. pipe' \in Seq(Byte) /\ unwritten' \in Nat
    BY <1>v, <1>4, <1>7, <1>8, ConcatProperties
  <2> QED  BY <1>1, <1>3, <2>1 DEF TypeOK
<1>10. BusInv'
  BY <1>3, <1>5, <1>v DEF BusInv, z, n
<1>11. StreamInv'
  <2> SUFFICES ASSUME ~failed
               PROVE  Trail'[1] = <<Len(delivered) + 1, 1>> /\ Stretch(Trail', sent)
    BY <1>3 DEF StreamInv
  <2>1. Trail[1] = <<Len(delivered) + 1, 1>> /\ Stretch(Trail, sent)
    BY DEF FramingInv, StreamInv
  <2>2. /\ Held \in Seq(Byte) /\ Trail \in Seq(Place) /\ Len(Trail) = Len(Held) + 1
        /\ \A i \in 1 .. Len(Held) : Trail[i] = Held[i]
        /\ Trail[Len(Held) + 1] = NextByte
    BY <1>1, TrailFacts
  <2>3. /\ Held' \in Seq(Byte) /\ Trail' \in Seq(Place) /\ Len(Trail') = Len(Held') + 1
        /\ \A i \in 1 .. Len(Held') : Trail'[i] = Held'[i]
        /\ Trail'[Len(Held') + 1] = NextByte'
    <3>1. Held' \in Seq(Byte)
      BY <1>9 DEF TypeOK, Held
    <3>2. Byte \subseteq Place
      BY BoundAssumption DEF Byte, Place
    <3>3. Held' \in Seq(Place)
      BY <3>1, <3>2, SeqMonotonic
    <3>4. NextByte' \in Place
      <4>2. NextByte' = IF unwritten' = 0 THEN <<n + 1, 1>> ELSE <<n, z - unwritten' + 1>>
        BY <1>3 DEF NextByte, n, z
      <4>3. n \in Nat /\ (unwritten' # 0 => z - unwritten' + 1 \in Nat)
        <5>1. n \in Nat
          BY <1>m, BoundAssumption
        <5>2. z - unwritten' + 1 \in Nat
          <6>1. unwritten' = z - (from + k)
            BY <1>u, <1>p, <1>6
          <6>2. z - unwritten' + 1 = from + k + 1
            BY <6>1, <1>p, <1>6
          <6> QED  BY <6>2, <1>p
        <5> QED  BY <5>1, <5>2
      <4>4. n + 1 \in Nat
        BY <4>3
      <4> QED  BY <4>2, <4>3, <4>4 DEF Place
    <3> QED  BY <3>1, <3>3, <3>4, AppendProperties DEF Trail
  <2>4. /\ Held' = Held \o new /\ Len(Held') = Len(Held) + k
        /\ \A i \in 1 .. Len(Held) : Held'[i] = Held[i]
        /\ \A j \in 1 .. k : Held'[Len(Held) + j] = new[j]
    <3> DEFINE front == buffer \o data
    <3>1. front \in Seq(Byte) /\ Held = front \o pipe /\ Held' = front \o (pipe \o new)
      BY <1>3, <1>4, <1>8, ConcatProperties DEF Held
    <3> HIDE DEF front
    <3>t. pipe \in Seq(Byte) /\ new \in Seq(Byte) /\ Len(new) = k /\ Held \in Seq(Byte)
      BY <1>4, <1>7, <2>2
    <3>a. (front \o pipe) \o new = front \o (pipe \o new)
      BY <3>t, <3>1, ConcatAssociative
    <3>2. Held' = Held \o new
      BY <3>1, <3>a
    <3>3. /\ Len(Held \o new) = Len(Held) + k
          /\ \A i \in 1 .. Len(Held) : (Held \o new)[i] = Held[i]
          /\ \A j \in 1 .. k : (Held \o new)[Len(Held) + j] = new[j]
      BY <3>t, Glued
    <3> QED  BY <3>2, <3>3
  <2>5. NextByte = <<n, from + 1>>
    <3>1. unwritten # 0 /\ from = z - unwritten
      BY <1>2, <1>4 DEF from
    <3> QED  BY <3>1 DEF NextByte, n, z
  <2>6. NextByte' = IF (from + 1) + k <= z THEN <<n, (from + 1) + k>> ELSE <<n + 1, 1>>
    <3>1. unwritten' = z - (from + k)
      BY <1>u, <1>p, <1>6
    <3>2. NextByte' = IF unwritten' = 0 THEN <<n + 1, 1>> ELSE <<n, z - unwritten' + 1>>
      BY <1>3 DEF NextByte, n, z
    <3> QED  BY <3>1, <3>2, <1>p, <1>6
  <2>7. GoesOn(Trail, Trail', n, from + 1, k, z)
    <3>1. Len(Trail) \in Nat \ {0} /\ Len(Trail') = Len(Trail) + k
      BY <2>2, <2>3, <2>4
    <3>2. Trail[Len(Trail)] = <<n, from + 1>> /\ (from + 1) + k <= z + 1
      BY <2>2, <2>5, <1>p, <1>6
    <3>3. ASSUME NEW i \in 1 .. Len(Trail) - 1
          PROVE  Trail'[i] = Trail[i]
      <4>1. i \in 1 .. Len(Held) /\ i \in 1 .. Len(Held')
        BY <2>2, <2>4, <1>p
      <4> QED  BY <4>1, <2>2, <2>3, <2>4
    <3>4. ASSUME NEW j \in 0 .. k - 1
          PROVE  Trail'[Len(Trail) + j] = <<n, (from + 1) + j>>
      <4>1. j + 1 \in 1 .. k /\ Len(Trail) + j = Len(Held) + (j + 1)
        BY <2>2, <1>p
      <4>2. Len(Held) + (j + 1) \in 1 .. Len(Held')
        BY <2>2, <2>4, <4>1, <1>p
      <4>3. Trail'[Len(Trail) + j] = <<n, from + (j + 1)>>
        BY <4>1, <4>2, <2>3, <2>4, <1>7
      <4>4. from + (j + 1) = (from + 1) + j
        BY <1>p
      <4> QED  BY <4>3, <4>4
    <3>5. Trail'[Len(Trail')] = NextByte'
      BY <2>3
    <3> QED  BY <3>1, <3>2, <3>3, <3>4, <3>5, <2>6 DEF GoesOn
  <2>8. Stretch(Trail', sent)
    <3>1. n \in 1 .. Len(sent) /\ from + 1 \in Nat \ {0} /\ z = Size(sent[n])
      BY <1>6, <1>p DEF z
    <3>2. GoesOn(Trail, Trail', n, from + 1, k, Size(sent[n]))
      BY <2>7, <3>1
    <3> QED  BY <2>1, <2>2, <2>3, <1>4, <1>p, <3>1, <3>2, StretchExtend
  <2>9. Trail'[1] = Trail[1]
    <3>1. CASE Len(Held) = 0
      <4>1. Len(Trail) + 0 = 1 /\ Trail[1] = NextByte /\ 0 \in 0 .. k - 1
        BY <3>1, <2>2, <1>p
      <4>2. Trail'[Len(Trail) + 0] = <<n, (from + 1) + 0>>
        BY <2>7, <4>1 DEF GoesOn
      <4>3. (from + 1) + 0 = from + 1
        BY <1>p
      <4> QED  BY <4>1, <4>2, <4>3, <2>5
    <3>2. CASE Len(Held) # 0
      <4>1. 1 \in 1 .. Len(Trail) - 1
        BY <3>2, <2>2
      <4> QED  BY <2>7, <4>1 DEF GoesOn
    <3> QED  BY <3>1, <3>2
  <2> QED  BY <2>1, <2>8, <2>9
<1>12. NeverPastTheEnd' /\ HeaderInv' /\ CallInv' /\ DeliveredInv'
  BY <1>3 DEF FramingInv, NeverPastTheEnd, HeaderInv, CallInv, DeliveredInv
<1> QED  BY <1>9, <1>10, <1>11, <1>12 DEF FramingInv

----------------------------------------------------------------------------
(* readFd *)

\* Steps that only move bytes from the socket to data and on to the buffer.
LEMMA HeldIsKept ==
    ASSUME StreamInv, Held' = Held, UNCHANGED <<sent, unwritten, delivered>>, failed => failed'
    PROVE  StreamInv'
<1>1. NextByte' = NextByte
  BY DEF NextByte
<1>2. Trail' = Trail
  BY <1>1 DEF Trail
<1> QED  BY <1>2 DEF StreamInv

LEMMA NothingMoves ==
    ASSUME FramingInv, UNCHANGED <<sent, unwritten, pipe, data, buffer, header, delivered, failed>>,
           eof' \in BOOLEAN, errnoAgain' \in BOOLEAN, pc' \in {"idle", "header", "body"},
           pc' # pc => pc = "idle" /\ pc' = "header" /\ ~failed
    PROVE  FramingInv'
<1>1. TypeOK'
  BY DEF FramingInv, TypeOK
<1>2. BusInv' /\ NeverPastTheEnd' /\ DeliveredInv'
  BY DEF FramingInv, BusInv, NeverPastTheEnd, DeliveredInv
<1>3. StreamInv'
  <2>1. Held' = Held
    BY DEF Held
  <2> QED  BY <2>1, HeldIsKept DEF FramingInv
<1>4. HeaderInv'
  BY DEF FramingInv, HeaderInv
<1>5. CallInv'
  BY DEF FramingInv, CallInv
<1> QED  BY <1>1, <1>2, <1>3, <1>4, <1>5 DEF FramingInv

LEMMA ReadSomeStep ==
    ASSUME FramingInv, ReadSome
    PROVE  FramingInv'
<1> DEFINE n == Len(delivered) + 1
<1>1. TypeOK /\ pc # "idle" /\ Want > 0
  BY DEF FramingInv, ReadSome
<1>2. PICK k \in 1 .. Len(pipe) :
         /\ k <= Want
         /\ data' = data \o SubSeq(pipe, 1, k) /\ pipe' = SubSeq(pipe, k + 1, Len(pipe))
  BY DEF ReadSome
<1>3. UNCHANGED <<sent, unwritten, eof, errnoAgain, pc, buffer, header, delivered, failed>>
  BY DEF ReadSome
<1>4. /\ pipe \in Seq(Byte) /\ data \in Seq(Byte) /\ buffer \in Seq(Byte)
      /\ Len(pipe) \in Nat /\ Len(data) \in Nat /\ Len(buffer) \in Nat
  BY <1>1 DEF TypeOK
<1> DEFINE got  == SubSeq(pipe, 1, k)
           rest == SubSeq(pipe, k + 1, Len(pipe))
<1>5. got \in Seq(Byte) /\ Len(got) = k /\ rest \in Seq(Byte) /\ got \o rest = pipe
  BY <1>4, SubSeqIsSplit
<1>6. data' = data \o got /\ pipe' = rest
  BY <1>2
<1>k. k <= Want
  BY <1>2
<1> HIDE DEF got, rest
<1>7. data' \in Seq(Byte) /\ pipe' \in Seq(Byte) /\ Len(data') = Len(data) + k
  BY <1>4, <1>5, <1>6, Glued
<1>8. TypeOK'
  BY <1>1, <1>3, <1>7 DEF TypeOK
<1>9. Held' = Held
  <2>t. /\ buffer \in Seq(Byte) /\ data \in Seq(Byte)
        /\ got \in Seq(Byte) /\ rest \in Seq(Byte)
    BY <1>4, <1>5
  <2>1. (data \o got) \o rest = data \o pipe
    <3>1. (data \o got) \o rest = data \o (got \o rest)
      BY <2>t, ConcatAssociative
    <3> QED  BY <1>5, <3>1
  <2>2. (buffer \o (data \o got)) \o rest = buffer \o ((data \o got) \o rest)
    <3> DEFINE dg == data \o got
    <3>1. dg \in Seq(Byte)
      BY <2>t, Glued
    <3> HIDE DEF dg
    <3>t. buffer \in Seq(Byte) /\ rest \in Seq(Byte)
      BY <2>t
    <3>2. (buffer \o dg) \o rest = buffer \o (dg \o rest)
      BY <3>t, <3>1, ConcatAssociative
    <3> QED  BY <3>2 DEF dg
  <2>3. (buffer \o data) \o pipe = buffer \o (data \o pipe)
    BY <1>4, ConcatAssociative
  <2> QED  BY <1>3, <1>6, <2>1, <2>2, <2>3 DEF Held
<1>10. StreamInv'
  BY <1>3, <1>9, HeldIsKept DEF FramingInv
<1>11. ~failed
  BY <1>1 DEF FramingInv, CallInv
<1>12. /\ n \in 1 .. Len(sent) /\ Size(sent[n]) \in Nat /\ Size(sent[n]) >= HeaderSize
       /\ TotalSize(sent[n]) = Size(sent[n])
  <2>1. Held # <<>>
    <3>1. Len(Held) = Len(buffer) + Len(data) + Len(pipe)
      BY <1>1, TrailFacts DEF FramingInv
    <3>2. Len(Held) # 0
      BY <3>1, <1>4
    <3> QED  BY <3>2
  <2> QED  BY <1>11, <2>1, FrontFacts
\* readExact asks for no more than what is left of the header or the message.
<1>13. /\ Len(buffer) + Len(data') <= Size(sent[n])
       /\ header = NoHeader => Len(buffer) + Len(data') <= HeaderSize
  <2>1. CASE pc = "header"
    <3>1. Len(buffer) + Len(data') <= HeaderSize
      <4>1. Want = HeaderSize - Len(buffer) - Len(data)
        BY <2>1 DEF Want
      <4> QED  BY <4>1, <1>k, <1>4, <1>7, SizeAssumption
    <3> QED  BY <3>1, <1>4, <1>7, <1>12, SizeAssumption
  <2>2. CASE pc = "body"
    <3>1. header # NoHeader /\ header = sent[n]
      BY <1>11, <2>2 DEF FramingInv, HeaderInv
    <3>2. Want = Size(sent[n]) - Len(buffer) - Len(data)
      BY <2>2, <3>1, <1>12 DEF Want
    <3> QED  BY <3>1, <3>2, <1>k, <1>4, <1>7, <1>12
  <2> QED  BY <1>1, <2>1, <2>2 DEF TypeOK
<1>14. NeverPastTheEnd'
  BY <1>3, <1>13 DEF NeverPastTheEnd
<1>15. HeaderInv'
  BY <1>3, <1>13 DEF FramingInv, HeaderInv
<1>16. BusInv' /\ CallInv' /\ DeliveredInv'
  BY <1>1, <1>3 DEF FramingInv, BusInv, CallInv, DeliveredInv
<1> QED  BY <1>8, <1>10, <1>14, <1>15, <1>16 DEF FramingInv

\* A read that finds nothing keeps what the call has, or gives the stream up.
LEMMA ReadNothingStep ==
    ASSUME FramingInv, ReadNothing
    PROVE  FramingInv'
<1>1. TypeOK /\ pc # "idle" /\ Want > 0 /\ pipe = <<>> /\ ~failed
  BY DEF FramingInv, ReadNothing, CallInv
<1>2. /\ data' = <<>> /\ pc' = "idle" /\ errnoAgain' \in BOOLEAN
      /\ UNCHANGED <<sent, unwritten, pipe, eof, header, delivered>>
  BY <1>1 DEF ReadNothing, busVars, TypeOK
<1>3. \/ buffer' = buffer \o data /\ failed' = failed
      \/ buffer' = <<>> /\ failed' = TRUE
  BY DEF ReadNothing, Keep, Fail
<1>4. data \in Seq(Byte) /\ buffer \in Seq(Byte)
  BY <1>1 DEF TypeOK
<1>5. TypeOK'
  <2>1. buffer' \in Seq(Byte) /\ data' \in Seq(Byte) /\ failed' \in BOOLEAN
    BY <1>1, <1>2, <1>3, <1>4, Glued DEF TypeOK
  <2> QED  BY <1>1, <1>2, <2>1 DEF TypeOK
<1>6. BusInv' /\ DeliveredInv' /\ CallInv'
  BY <1>2 DEF FramingInv, BusInv, DeliveredInv, CallInv
<1>7. CASE buffer' = buffer \o data /\ failed' = failed
  <2>1. buffer' \o data' = buffer \o data
    BY <1>2, <1>4, <1>7, Glued, ConcatEmptySeq
  <2>2. StreamInv'
    BY <1>1, <1>2, <2>1, HeldIsKept DEF FramingInv, Held
  <2>3. Len(buffer') + Len(data') = Len(buffer) + Len(data) /\ Len(buffer') >= Len(buffer)
    BY <1>2, <1>4, <1>7
  <2>4. NeverPastTheEnd'
    BY <1>2, <1>7, <2>1, <2>3 DEF FramingInv, NeverPastTheEnd
  <2>5. HeaderInv'
    <3>1. Len(buffer) >= HeaderSize => Len(buffer') >= HeaderSize
      BY <2>3, <1>4, <1>5, SizeAssumption DEF TypeOK
    <3> QED  BY <1>2, <1>7, <2>3, <3>1 DEF FramingInv, HeaderInv
  <2> QED  BY <1>5, <1>6, <2>2, <2>4, <2>5 DEF FramingInv
<1>8. CASE failed' = TRUE
  BY <1>5, <1>6, <1>8 DEF FramingInv, StreamInv, NeverPastTheEnd, HeaderInv
<1> QED  BY <1>3, <1>7, <1>8

LEMMA HeldBegins ==
    ASSUME TypeOK
    PROVE  /\ buffer \o data \in Seq(Byte) /\ Len(buffer \o data) = Len(buffer) + Len(data)
           /\ Len(buffer \o data) \in Nat
           /\ Len(Held) = Len(buffer \o data) + Len(pipe)
           /\ \A k \in 1 .. Len(buffer \o data) :
                 k \in 1 .. Len(Held) /\ (buffer \o data)[k] = Held[k]
           /\ \A k \in 1 .. Len(pipe) : Held[Len(buffer \o data) + k] = pipe[k]
<1> DEFINE bytes == buffer \o data
<1>1. buffer \in Seq(Byte) /\ data \in Seq(Byte) /\ pipe \in Seq(Byte)
  BY DEF TypeOK
<1>2. bytes \in Seq(Byte) /\ Len(bytes) = Len(buffer) + Len(data)
  BY <1>1, Glued
<1>3. Held = bytes \o pipe
  BY DEF Held
<1> HIDE DEF bytes
<1>4. Len(bytes) \in Nat /\ Len(pipe) \in Nat
  BY <1>1, <1>2
<1>5. /\ Len(Held) = Len(bytes) + Len(pipe)
      /\ \A k \in 1 .. Len(bytes) : Held[k] = bytes[k]
      /\ \A k \in 1 .. Len(pipe) : Held[Len(bytes) + k] = pipe[k]
  <2>1. bytes \in Seq(Byte) /\ pipe \in Seq(Byte)
    BY <1>1, <1>2
  <2>2. /\ Len(bytes \o pipe) = Len(bytes) + Len(pipe)
        /\ \A k \in 1 .. Len(bytes) : (bytes \o pipe)[k] = bytes[k]
        /\ \A k \in 1 .. Len(pipe) : (bytes \o pipe)[Len(bytes) + k] = pipe[k]
    BY <2>1, Glued
  <2> QED  BY <1>3, <2>2
<1>6. \A k \in 1 .. Len(bytes) : k \in 1 .. Len(Held) /\ bytes[k] = Held[k]
  BY <1>4, <1>5
<1> QED  BY <1>2, <1>4, <1>5, <1>6 DEF bytes

\* The header that is complete is the header of the message at the front.
LEMMA HeaderOfFront ==
    ASSUME FramingInv, pc = "header", Want <= 0
    PROVE  LET n == Len(delivered) + 1
           IN  /\ ~failed /\ Len(buffer \o data) >= HeaderSize
               /\ n \in 1 .. Len(sent) /\ sent[n] \in Kinds
               /\ (IF header = NoHeader THEN sent[(buffer \o data)[1][1]] ELSE header) = sent[n]
<1> DEFINE n == Len(delivered) + 1
           bytes == buffer \o data
<1>1. TypeOK /\ ~failed
  BY DEF FramingInv, CallInv
<1>2. Len(buffer) \in Nat /\ Len(data) \in Nat
  BY <1>1 DEF TypeOK
<1>3. Len(bytes) >= HeaderSize /\ Len(bytes) \in Nat
  <2>1. Len(bytes) = Len(buffer) + Len(data)
    BY <1>1, HeldBegins
  <2> HIDE DEF bytes
  <2>2. Want = HeaderSize - Len(buffer) - Len(data)
    BY DEF Want
  <2> QED  BY <2>1, <2>2, <1>2, SizeAssumption
<1>4. 1 \in 1 .. Len(bytes)
  BY <1>3, SizeAssumption
<1>5. 1 \in 1 .. Len(Held) /\ bytes[1] = Held[1]
  BY <1>1, <1>4, HeldBegins
<1>6. Held # <<>>
  BY <1>5
<1>7. /\ n \in 1 .. Len(sent) /\ sent[n] \in Kinds /\ Size(sent[n]) \in Nat \ {0}
      /\ \A k \in 1 .. Len(Held) : k <= Size(sent[n]) => Held[k] = <<n, k>>
  BY <1>1, <1>6, FrontFacts
<1>8. Held[1] = <<n, 1>>
  <2>1. 1 <= Size(sent[n])
    BY <1>7
  <2> QED  BY <1>5, <1>7, <2>1
<1>9. header # NoHeader => header = sent[n]
  BY <1>1 DEF FramingInv, HeaderInv
<1> QED  BY <1>1, <1>3, <1>5, <1>7, <1>8, <1>9

LEMMA HeaderDoneStep ==
    ASSUME FramingInv, HeaderDone
    PROVE  FramingInv'
<1> DEFINE n == Len(delivered) + 1
           bytes == buffer \o data
           m == IF header = NoHeader THEN sent[bytes[1][1]] ELSE header
<1>1. TypeOK /\ pc = "header" /\ Want <= 0
  BY DEF FramingInv, HeaderDone
<1>2. /\ ~failed /\ Len(bytes) >= HeaderSize
      /\ n \in 1 .. Len(sent) /\ sent[n] \in Kinds /\ m = sent[n]
  BY <1>1, HeaderOfFront
<1>3. data' = <<>> /\ UNCHANGED <<sent, unwritten, pipe, eof, errnoAgain, delivered>>
  BY DEF HeaderDone, busVars
<1>4. \/ m.bad = "version" /\ Fail /\ pc' = "idle" /\ header' = header
      \/ m.bad # "version" /\ Keep /\ pc' = "body" /\ header' = m /\ failed' = failed
  BY DEF HeaderDone
<1> HIDE DEF m
<1>5. BusInv' /\ DeliveredInv' /\ CallInv'
  BY <1>2, <1>3, <1>4 DEF FramingInv, BusInv, DeliveredInv, CallInv
<1>6. bytes \in Seq(Byte) /\ Len(bytes) = Len(buffer) + Len(data)
  BY <1>1, HeldBegins
<1>7. CASE Fail /\ pc' = "idle" /\ header' = header
  <2>1. buffer' = <<>> /\ failed' = TRUE
    BY <1>7 DEF Fail
  <2>2. TypeOK'
    BY <1>1, <1>3, <1>7, <2>1, EmptySeq DEF TypeOK
  <2> QED
    BY <1>5, <2>1, <2>2 DEF FramingInv, StreamInv, NeverPastTheEnd, HeaderInv
<1>8. CASE m.bad # "version" /\ Keep /\ pc' = "body" /\ header' = m /\ failed' = failed
  <2>1. buffer' = bytes
    BY <1>8 DEF Keep
  <2> HIDE DEF bytes
  <2>2. buffer' \o data' = bytes /\ Len(data') = 0
    BY <1>3, <1>6, <2>1, ConcatEmptySeq
  <2>3. TypeOK'
    BY <1>1, <1>2, <1>3, <1>6, <1>8, <2>1, EmptySeq DEF TypeOK
  <2>4. StreamInv'
    <3>1. Held' = Held
      BY <1>3, <2>2 DEF Held, bytes
    <3> QED  BY <1>3, <1>8, <3>1, HeldIsKept DEF FramingInv
  <2>5. NeverPastTheEnd'
    <3>1. bytes # <<>> => Len(buffer) + Len(data) <= Size(sent[n])
      BY <1>2 DEF FramingInv, NeverPastTheEnd, bytes
    <3>2. Len(buffer') + Len(data') = Len(buffer) + Len(data)
      BY <1>6, <2>1, <2>2
    <3> QED  BY <1>3, <2>2, <3>1, <3>2 DEF NeverPastTheEnd
  <2>6. HeaderInv'
    <3>1. header' = sent[n] /\ header' # NoHeader /\ header'.bad # "version"
      BY <1>2, <1>8, KindAssumption
    <3> QED  BY <1>2, <1>3, <2>1, <3>1 DEF HeaderInv
  <2> QED  BY <1>5, <2>3, <2>4, <2>5, <2>6 DEF FramingInv
<1> QED  BY <1>4, <1>7, <1>8

\* The message that is complete is the one at the front, and all of it.
LEMMA WholeMessage ==
    ASSUME FramingInv, pc = "body", Want <= 0
    PROVE  LET n == Len(delivered) + 1
           IN  /\ ~failed /\ n \in 1 .. Len(sent) /\ sent[n] \in Kinds
               /\ header = sent[n] /\ header.bad # "version"
               /\ Len(buffer \o data) = Size(sent[n]) /\ Size(sent[n]) \in Nat \ {0}
               /\ Number(buffer \o data) = n
<1> DEFINE n == Len(delivered) + 1
           bytes == buffer \o data
           z == Size(sent[n])
<1>1. TypeOK /\ ~failed
  BY DEF FramingInv, CallInv
<1>2. header # NoHeader /\ Len(buffer) >= HeaderSize /\ header = sent[n] /\ header.bad # "version"
  BY <1>1 DEF FramingInv, HeaderInv
<1>3. Len(buffer) \in Nat /\ Len(data) \in Nat
  BY <1>1 DEF TypeOK
<1>4. bytes \in Seq(Byte) /\ Len(bytes) = Len(buffer) + Len(data) /\ Len(bytes) \in Nat
  BY <1>1, HeldBegins
<1>5. 1 \in 1 .. Len(bytes)
  <2>1. Len(bytes) >= HeaderSize
    BY <1>2, <1>3, <1>4, SizeAssumption
  <2> QED  BY <2>1, <1>4, SizeAssumption
<1>6. Held # <<>> /\ bytes # <<>>
  BY <1>1, <1>4, <1>5, HeldBegins
<1>7. /\ n \in 1 .. Len(sent) /\ sent[n] \in Kinds /\ z \in Nat \ {0} /\ TotalSize(sent[n]) = z
      /\ \A k \in 1 .. Len(Held) : k <= z => Held[k] = <<n, k>>
  BY <1>1, <1>6, FrontFacts
<1>8. Len(bytes) = z
  <2>1. Len(buffer) + Len(data) <= z
    BY <1>1, <1>6 DEF FramingInv, NeverPastTheEnd
  <2>2. Want = z - Len(buffer) - Len(data)
    BY <1>2, <1>7 DEF Want
  <2> HIDE DEF z, bytes
  <2>3. Len(buffer) + Len(data) = z
    BY <2>1, <2>2, <1>3, <1>7
  <2> QED  BY <2>3, <1>4
<1>9. \A k \in 1 .. z : bytes[k] = <<n, k>>
  <2> TAKE k \in 1 .. z
  <2>1. k \in 1 .. Len(Held) /\ bytes[k] = Held[k]
    BY <1>1, <1>8, HeldBegins
  <2> QED  BY <1>7, <2>1
<1>10. BytesOf(n) = [k \in 1 .. z |-> <<n, k>>]
  BY DEF BytesOf
<1> HIDE DEF bytes, z, n
<1>11. bytes = BytesOf(n)
  <2>1. bytes = [k \in 1 .. Len(bytes) |-> bytes[k]]
    BY <1>4
  <2> QED  BY <2>1, <1>8, <1>9, <1>10
<1>12. bytes[1][1] = n
  <2>1. bytes[1] = <<n, 1>>
    BY <1>5, <1>8, <1>9
  <2> QED  BY <2>1
<1>13. Number(bytes) = n
  BY <1>11, <1>12 DEF Number
<1> QED  BY <1>1, <1>2, <1>7, <1>8, <1>13 DEF bytes, z, n

LEMMA BodyDoneStep ==
    ASSUME FramingInv, BodyDone
    PROVE  FramingInv'
<1> DEFINE n == Len(delivered) + 1
           bytes == buffer \o data
           z == Size(sent[n])
<1>1. TypeOK /\ BusInv /\ pc = "body" /\ Want <= 0
  BY DEF FramingInv, BodyDone
<1>2. /\ ~failed /\ n \in 1 .. Len(sent) /\ sent[n] \in Kinds
      /\ header = sent[n] /\ header.bad # "version"
      /\ Len(bytes) = z /\ z \in Nat \ {0} /\ Number(bytes) = n
  BY <1>1, WholeMessage
<1>3. pc' = "idle" /\ UNCHANGED <<sent, unwritten, pipe, eof, errnoAgain>>
  BY DEF BodyDone, busVars
<1>4. BusInv'
  BY <1>1, <1>3 DEF BusInv
<1>5. ASSUME header.bad = "fields", Fail, data' = <<>>, UNCHANGED <<header, delivered>>
      PROVE  FramingInv'
  <2>1. buffer' = <<>> /\ failed' = TRUE
    BY <1>5 DEF Fail
  <2>2. TypeOK'
    BY <1>1, <1>3, <1>5, <2>1, EmptySeq DEF TypeOK
  <2>3. DeliveredInv' /\ CallInv'
    BY <1>3, <1>5 DEF FramingInv, DeliveredInv, CallInv
  <2> QED
    BY <1>4, <2>1, <2>2, <2>3 DEF FramingInv, StreamInv, NeverPastTheEnd, HeaderInv
<1>6. ASSUME header.bad # "fields", delivered' = Append(delivered, Number(bytes)),
             NewMessage, failed' = failed
      PROVE  FramingInv'
  <2>1. delivered' = Append(delivered, n) /\ data' = <<>> /\ buffer' = <<>> /\ header' = NoHeader
    BY <1>2, <1>6 DEF NewMessage
  <2>d. delivered \in Seq(1 .. MaxMessages) /\ Len(delivered) \in Nat /\ n \in 1 .. MaxMessages
    BY <1>1, <1>2, BoundAssumption DEF TypeOK
  <2>2. /\ delivered' \in Seq(1 .. MaxMessages) /\ Len(delivered') = n
        /\ \A i \in 1 .. Len(delivered) : delivered'[i] = delivered[i]
        /\ delivered'[n] = n
    BY <2>1, <2>d, AppendProperties
  <2>3. TypeOK'
    BY <1>1, <1>3, <1>6, <2>1, <2>2, EmptySeq DEF TypeOK
  <2>4. StreamInv'
    <3>t. Trail'[1] = <<Len(delivered') + 1, 1>> /\ Stretch(Trail', sent')
      <4>1. Trail[1] = <<n, 1>> /\ Stretch(Trail, sent)
        BY <1>2 DEF FramingInv, StreamInv
      <4>2. /\ Trail \in Seq(Place) /\ Len(Trail) = Len(Held) + 1
            /\ \A i \in 1 .. Len(Held) : Trail[i] = Held[i]
            /\ Trail[Len(Held) + 1] = NextByte
        BY <1>1, TrailFacts
      <4>3. /\ Len(Held) = z + Len(pipe)
            /\ \A k \in 1 .. Len(pipe) : Held[z + k] = pipe[k]
        BY <1>1, <1>2, HeldBegins
      <4>p. pipe \in Seq(Byte) /\ Len(pipe) \in Nat
        BY <1>1 DEF TypeOK
      <4>4. Held' = pipe /\ NextByte' = NextByte
        <5>1. Held' = (<<>> \o <<>>) \o pipe
          BY <1>3, <2>1 DEF Held
        <5>2. (<<>> \o <<>>) \o pipe = pipe
          BY <4>p
        <5> QED  BY <1>3, <5>1, <5>2 DEF NextByte
      <4>5. /\ Trail' \in Seq(Place) /\ Len(Trail') = Len(pipe) + 1
            /\ \A i \in 1 .. Len(pipe) : Trail'[i] = pipe[i]
            /\ Trail'[Len(pipe) + 1] = NextByte
        <5>1. Trail' = Append(pipe, NextByte)
          BY <4>4 DEF Trail
        <5>2. pipe \in Seq(Place)
          <6>1. Byte \subseteq Place
            BY BoundAssumption DEF Byte, Place
          <6> QED  BY <4>p, <6>1, SeqMonotonic
        <5>3. NextByte \in Place
          BY <1>1, TrailFacts
        <5> QED  BY <5>1, <5>2, <5>3, AppendProperties
      <4> HIDE DEF z, bytes, n
      <4>6. ASSUME NEW i \in 1 .. Len(Trail')
            PROVE  Trail'[i] = Trail[z + i]
        <5>1. CASE i = Len(pipe) + 1
          <6>1. z + i = Len(Held) + 1
            BY <5>1, <4>3, <4>p, <1>2
          <6> QED  BY <5>1, <6>1, <4>2, <4>5
        <5>2. CASE i # Len(pipe) + 1
          <6>1. i \in 1 .. Len(pipe)
            BY <5>2, <4>5, <4>p
          <6>2. z + i \in 1 .. Len(Held)
            BY <6>1, <4>3, <4>p, <1>2
          <6> QED  BY <6>1, <6>2, <4>2, <4>3, <4>5
        <5> QED  BY <5>1, <5>2
      <4>7. Stretch(Trail', sent)
        <5>1. z \in Nat /\ Len(Trail) = Len(Trail') + z
          BY <1>2, <4>2, <4>3, <4>5, <4>p
        <5>2. sent \in Seq(Kinds)
          BY <1>1 DEF TypeOK
        <5> QED  BY <4>1, <4>2, <4>5, <4>6, <5>1, <5>2, StretchDrop
      <4>8. Trail[z + 1] = <<n + 1, 1>>
        <5>1. z \in 1 .. Len(Trail) - 1 /\ 1 \in 1 .. Len(Trail) - 1 /\ z \in 1 .. Len(Held)
          BY <1>2, <4>2, <4>3, <4>p
        <5>2. Trail[z] = <<n, z>>
          <6>1. Held # <<>>
            BY <5>1
          <6>2. \A k \in 1 .. Len(Held) : k <= z => Held[k] = <<n, k>>
            BY <1>2, <6>1, FrontFacts DEF n, z
          <6>3. z <= z
            BY <1>2
          <6> QED  BY <5>1, <6>2, <6>3, <4>2
        <5>3. Trail[z][2] = Size(sent[Trail[z][1]]) => Trail[z + 1] = <<Trail[z][1] + 1, 1>>
          BY <5>1, <4>1 DEF Stretch
        <5>4. Trail[z][1] = n /\ Trail[z][2] = z /\ Size(sent[n]) = z
          BY <5>2 DEF z
        <5> QED  BY <5>3, <5>4
      <4>9. Trail'[1] = <<n + 1, 1>>
        <5>1. 1 \in 1 .. Len(Trail')
          BY <4>5, <4>p
        <5> QED  BY <5>1, <4>6, <4>8
      <4> QED  BY <1>3, <2>2, <4>7, <4>9
    <3> QED  BY <3>t DEF StreamInv
  <2>5. NeverPastTheEnd'
    BY <2>1 DEF NeverPastTheEnd
  <2>6. HeaderInv' /\ CallInv'
    BY <1>3, <2>1, SizeAssumption DEF HeaderInv, CallInv
  <2>7. DeliveredInv'
    <3>1. sent[n].bad = "no"
      BY <1>2, <1>6, KindAssumption
    <3>2. /\ Len(delivered') <= Len(sent)
          /\ \A i \in 1 .. n : delivered'[i] = i /\ sent[i].bad = "no"
      BY <1>2, <2>2, <2>d, <3>1 DEF FramingInv, DeliveredInv
    <3> QED  BY <1>3, <2>2, <3>2 DEF DeliveredInv
  <2> QED  BY <1>4, <2>3, <2>4, <2>5, <2>6, <2>7 DEF FramingInv
<1> QED  BY <1>5, <1>6 DEF BodyDone

LEMMA FramingInit == Init => FramingInv
<1> SUFFICES ASSUME Init
             PROVE  FramingInv
  OBVIOUS
<1>1. /\ sent = <<>> /\ unwritten = 0 /\ pipe = <<>> /\ buffer = <<>> /\ data = <<>>
      /\ delivered = <<>> /\ header = NoHeader /\ pc = "idle" /\ failed = FALSE
      /\ eof = FALSE /\ errnoAgain \in BOOLEAN
  BY DEF Init
<1>2. TypeOK
  <2>1. Len(sent) <= MaxMessages
    BY <1>1, BoundAssumption, EmptySeq
  <2> QED  BY <1>1, <2>1, EmptySeq DEF TypeOK
<1>3. BusInv /\ NeverPastTheEnd /\ CallInv /\ DeliveredInv
  BY <1>1 DEF BusInv, NeverPastTheEnd, CallInv, DeliveredInv
<1>4. HeaderInv
  BY <1>1, SizeAssumption DEF HeaderInv
<1>5. StreamInv
  <2>1. NextByte = <<1, 1>> /\ Held = <<>>
    BY <1>1 DEF NextByte, Held
  <2>2. Trail = <<NextByte>>
    BY <2>1 DEF Trail
  <2>3. Trail[1] = <<1, 1>> /\ Len(Trail) = 1 /\ Len(delivered) + 1 = 1
    BY <1>1, <2>1, <2>2
  <2>4. Stretch(Trail, sent)
    BY <2>3 DEF Stretch
  <2> QED  BY <2>3, <2>4 DEF StreamInv
<1> QED  BY <1>2, <1>3, <1>4, <1>5 DEF FramingInv

LEMMA FramingStep == FramingInv /\ [Next]_vars => FramingInv'
<1> SUFFICES ASSUME FramingInv, [Next]_vars
             PROVE  FramingInv'
  OBVIOUS
<1>t. TypeOK
  BY DEF FramingInv
<1>1. CASE \E m \in Kinds : BusBegins(m)
  BY <1>1, BusBeginsStep
<1>2. CASE BusWrites
  BY <1>2, BusWritesStep
<1>3. CASE BusCloses
  BY <1>3, <1>t, NothingMoves DEF BusCloses, readVars, TypeOK
<1>4. CASE OtherErrno
  BY <1>4, <1>t, NothingMoves DEF OtherErrno, busVars, readVars, TypeOK
<1>5. CASE Call
  BY <1>5, <1>t, NothingMoves DEF Call, busVars, TypeOK
<1>6. CASE ReadSome
  BY <1>6, ReadSomeStep
<1>7. CASE ReadNothing
  BY <1>7, ReadNothingStep
<1>8. CASE HeaderDone
  BY <1>8, HeaderDoneStep
<1>9. CASE BodyDone
  BY <1>9, BodyDoneStep
<1>10. CASE UNCHANGED vars
  BY <1>10, <1>t, NothingMoves DEF vars, busVars, readVars, TypeOK
<1> QED
  BY <1>1, <1>2, <1>3, <1>4, <1>5, <1>6, <1>7, <1>8, <1>9, <1>10 DEF Next, ReadFd

----------------------------------------------------------------------------
(* Theorems *)

\* The strengthened invariant holds in every reachable state.
LEMMA FramingInvHolds == Spec => []FramingInv
  BY FramingInit, FramingStep, PTL DEF Spec

\* The variables of readFd and of the bus have their types for every size of
\* the header, every alignment and every set of messages.
THEOREM FramingTypeCorrect == Spec => []TypeOK
<1>1. FramingInv => TypeOK
  BY DEF FramingInv
<1> QED  BY <1>1, FramingInvHolds, PTL

\* readExact and unsureHasData lose no byte, read none twice and take none for
\* another message, however the reads of the socket cut the stream.
THEOREM EveryByteIsKept == Spec => []NoByteLost
<1>1. FramingInv => NoByteLost
  <2> SUFFICES ASSUME FramingInv, ~failed
               PROVE  /\ Trail[1] = <<Len(delivered) + 1, 1>>
                      /\ \A i \in 1 .. Len(Held) : Trail[i + 1] = After(Trail[i])
    BY DEF NoByteLost
  <2>1. /\ TypeOK /\ BusInv /\ Trail[1] = <<Len(delivered) + 1, 1>>
        /\ Stretch(Trail, sent)
    BY DEF FramingInv, StreamInv
  <2>2. ASSUME NEW i \in 1 .. Len(Held)
        PROVE  Trail[i + 1] = After(Trail[i])
    <3>1. Len(Trail) = Len(Held) + 1 /\ Len(Held) \in Nat
      BY <2>1, TrailFacts
    <3>2. i \in 1 .. Len(Trail) - 1 /\ 1 \in 0 .. Len(Trail) - i
      BY <3>1
    <3> DEFINE x == Trail[i][1]
               o == Trail[i][2]
               z == Size(sent[x])
    <3>3. x \in 1 .. Len(sent) /\ o \in 1 .. z /\ (o = z => Trail[i + 1] = <<x + 1, 1>>)
      BY <2>1, <3>2 DEF Stretch
    <3>4. o + 1 <= z => Trail[i + 1] = <<x, o + 1>>
      BY <2>1, <3>2 DEF Stretch
    <3>5. z \in Nat
      BY <2>1, <3>3, SentSizes
    <3>6. After(Trail[i]) = IF o < z THEN <<x, o + 1>> ELSE <<x + 1, 1>>
      BY DEF After
    <3> HIDE DEF x, o, z
    <3> QED  BY <3>3, <3>4, <3>5, <3>6
  <2> QED  BY <2>1, <2>2
<1> QED  BY <1>1, FramingInvHolds, PTL

\* A call of readFd never asks the socket for bytes of the next message.
THEOREM NeverReadsOn == Spec => []NeverPastTheEnd
<1>1. FramingInv => NeverPastTheEnd
  BY DEF FramingInv
<1> QED  BY <1>1, FramingInvHolds, PTL

----------------------------------------------------------------------------
(* Refinement: readFd implements FramedChannel *)

\* What Channel substitutes for its queue and for what was taken from it.
Queue == SubSeq(sent, Len(delivered) + 1, Len(sent))

Taken == [i \in 1 .. Len(delivered) |->
            IF delivered[i] = Garbled THEN NoHeader ELSE sent[delivered[i]]]

LEMMA QueueAppends ==
    ASSUME NEW S, NEW s \in Seq(S), NEW m \in S, NEW d \in 0 .. Len(s)
    PROVE  SubSeq(Append(s, m), d + 1, Len(s) + 1) = Append(SubSeq(s, d + 1, Len(s)), m)
<1> DEFINE l == Len(s)
           t == Append(s, m)
           u == SubSeq(t, d + 1, l + 1)
           q == SubSeq(s, d + 1, l)
<1>1. l \in Nat /\ d \in 0 .. l /\ \A i \in 1 .. l : s[i] \in S
  OBVIOUS
<1>2. t \in Seq(S) /\ \A i \in 1 .. l : t[i] = s[i]
  OBVIOUS
<1>3. t[l + 1] = m /\ \A i \in 1 .. l + 1 : t[i] \in S
  OBVIOUS
<1> HIDE DEF l, t
<1>4. /\ u \in Seq(S) /\ Len(u) = l + 1 - d
      /\ \A i \in 1 .. l + 1 - d : u[i] = t[d + i]
  BY <1>1, <1>3
<1>5. /\ q \in Seq(S) /\ Len(q) = l - d
      /\ \A i \in 1 .. l - d : q[i] = s[d + i]
  BY <1>1
<1> HIDE DEF u, q
<1>6. /\ Append(q, m) \in Seq(S) /\ Len(Append(q, m)) = l + 1 - d
      /\ Append(q, m)[l + 1 - d] = m
      /\ \A i \in 1 .. l - d : Append(q, m)[i] = q[i]
  BY <1>1, <1>5, AppendProperties
<1>7. ASSUME NEW i \in 1 .. l + 1 - d
      PROVE  u[i] = Append(q, m)[i]
  <2>1. CASE i = l + 1 - d
    <3>1. d + i = l + 1
      BY <1>1, <2>1
    <3> QED  BY <2>1, <3>1, <1>3, <1>4, <1>6
  <2>2. CASE i # l + 1 - d
    <3>1. i \in 1 .. l - d /\ d + i \in 1 .. l
      BY <1>1, <2>2
    <3> QED  BY <3>1, <1>2, <1>4, <1>5, <1>6
  <2> QED  BY <2>1, <2>2
<1>8. u = Append(q, m)
  BY <1>4, <1>6, <1>7, SeqEqual
<1> QED  BY <1>8 DEF u, q, t, l

LEMMA QueueHead ==
    ASSUME NEW S, NEW s \in Seq(S), NEW d \in 0 .. Len(s) - 1
    PROVE  /\ SubSeq(s, d + 1, Len(s)) # <<>>
           /\ Head(SubSeq(s, d + 1, Len(s))) = s[d + 1]
           /\ Tail(SubSeq(s, d + 1, Len(s))) = SubSeq(s, d + 2, Len(s))
<1> DEFINE l == Len(s)
           e == d + 1
<1>1. l \in Nat /\ e \in 1 .. l /\ e + 1 = d + 2 /\ \A i \in e .. l : s[i] \in S
  OBVIOUS
<1> HIDE DEF l, e
<1>2. /\ SubSeq(s, e, l) \in Seq(S) /\ Len(SubSeq(s, e, l)) = l - e + 1
      /\ \A i \in 1 .. l - e + 1 : SubSeq(s, e, l)[i] = s[e + i - 1]
  BY <1>1, SubSeqProperties
<1>3. SubSeq(s, e, l) # <<>>
  BY <1>1, <1>2
<1>4. Head(SubSeq(s, e, l)) = s[e] /\ Tail(SubSeq(s, e, l)) = SubSeq(s, e + 1, l)
  BY <1>1, HeadTailOfSubSeq
<1> QED  BY <1>1, <1>3, <1>4 DEF l, e

LEMMA TakenIsPrefix ==
    ASSUME TypeOK, DeliveredInv
    PROVE  Taken = [i \in 1 .. Len(delivered) |-> sent[i]]
<1>1. ASSUME NEW i \in 1 .. Len(delivered)
      PROVE  delivered[i] = i /\ delivered[i] # Garbled
  BY DEF DeliveredInv, Garbled
<1> QED  BY <1>1 DEF Taken

LEMMA PutStep ==
    ASSUME FramingInv, FramingInv', NEW m \in Kinds, BusBegins(m)
    PROVE  Channel!Put(m)
<1>1. TypeOK /\ TypeOK' /\ DeliveredInv /\ DeliveredInv'
  BY DEF FramingInv
<1>2. sent' = Append(sent, m) /\ delivered' = delivered /\ failed' = failed
  BY DEF BusBegins
<1>3. /\ sent \in Seq(Kinds) /\ Len(sent) \in Nat /\ Len(delivered) \in 0 .. Len(sent)
      /\ Len(sent') = Len(sent) + 1
      /\ \A i \in 1 .. Len(delivered) : sent'[i] = sent[i]
  BY <1>1, <1>2 DEF TypeOK, DeliveredInv
<1>4. Queue' = Append(Queue, m)
  BY <1>2, <1>3, QueueAppends DEF Queue
<1>5. Taken' = Taken
  <2>1. Taken = [i \in 1 .. Len(delivered) |-> sent[i]]
    BY <1>1, TakenIsPrefix
  <2>2. \A i \in 1 .. Len(delivered) : delivered[i] = i /\ delivered[i] # Garbled
    BY <1>1 DEF DeliveredInv, Garbled
  <2>3. Taken' = [i \in 1 .. Len(delivered) |-> sent'[i]]
    BY <1>2, <2>2 DEF Taken
  <2> QED  BY <1>3, <2>1, <2>3
<1> QED  BY <1>2, <1>4, <1>5 DEF Channel!Put, Queue, Taken

LEMMA TakeStep ==
    ASSUME FramingInv, FramingInv', BodyDone, header.bad # "fields"
    PROVE  Channel!Take
<1> DEFINE n == Len(delivered) + 1
<1>1. TypeOK /\ DeliveredInv /\ DeliveredInv' /\ pc = "body" /\ Want <= 0
  BY DEF FramingInv, BodyDone
<1>2. /\ ~failed /\ n \in 1 .. Len(sent) /\ sent[n] \in Kinds
      /\ header = sent[n] /\ header.bad # "version" /\ Number(buffer \o data) = n
  BY <1>1, WholeMessage
<1>3. delivered' = Append(delivered, n) /\ sent' = sent /\ failed' = failed
  BY <1>2 DEF BodyDone, busVars
<1>4. /\ sent \in Seq(Kinds) /\ Len(sent) \in Nat /\ Len(delivered) \in 0 .. Len(sent) - 1
      /\ Len(delivered') = n /\ \A i \in 1 .. Len(delivered) : delivered'[i] = delivered[i]
      /\ delivered'[n] = n
  BY <1>1, <1>2, <1>3 DEF TypeOK
<1>5. Queue # <<>> /\ Head(Queue) = sent[n] /\ Queue' = Tail(Queue)
  <2>1. Queue' = SubSeq(sent, Len(delivered) + 2, Len(sent))
    <3>1. n + 1 = Len(delivered) + 2
      BY <1>4
    <3> QED  BY <1>3, <1>4, <3>1 DEF Queue
  <2> QED  BY <1>4, <2>1, QueueHead DEF Queue
<1>6. Head(Queue) \in {m \in Kinds : m.bad = "no"}
  BY <1>2, <1>5, KindAssumption
<1>7. Taken' = Append(Taken, Head(Queue))
  <2>1. Taken = [i \in 1 .. n - 1 |-> sent[i]]
    <3>1. n - 1 = Len(delivered)
      BY <1>4
    <3> QED  BY <1>1, <3>1, TakenIsPrefix
  <2>2. Taken' = [i \in 1 .. n |-> sent[i]]
    <3>1. \A i \in 1 .. n : delivered'[i] = i /\ delivered'[i] # Garbled
      BY <1>1, <1>4 DEF DeliveredInv, Garbled
    <3> QED  BY <1>3, <1>4, <3>1 DEF Taken
  <2>3. Head(Queue) = sent[n] /\ n \in Nat \ {0}
    BY <1>4, <1>5
  <2> HIDE DEF n
  <2>4. Append([i \in 1 .. n - 1 |-> sent[i]], sent[n]) = [i \in 1 .. n |-> sent[i]]
    BY <2>3
  <2> QED  BY <2>1, <2>2, <2>3, <2>4
<1> QED  BY <1>2, <1>3, <1>5, <1>6, <1>7 DEF Channel!Take, Queue, Taken

LEMMA StepIsAChannelStep ==
    ASSUME FramingInv, FramingInv', [Next]_vars
    PROVE  [Channel!Next]_(Channel!channelVars)
<1>1. ASSUME UNCHANGED <<sent, delivered, failed>>
      PROVE  UNCHANGED Channel!channelVars
  BY <1>1 DEF Channel!channelVars
<1>2. ASSUME UNCHANGED <<sent, delivered>>, failed' = TRUE
      PROVE  Channel!Next
  BY <1>2 DEF Channel!Next, Channel!Break
<1>3. CASE \E m \in Kinds : BusBegins(m)
  BY <1>3, PutStep DEF Channel!Next
<1>4. CASE BusWrites \/ BusCloses \/ OtherErrno \/ Call \/ ReadSome
  <2>1. UNCHANGED <<sent, delivered, failed>>
    BY <1>4 DEF BusWrites, BusCloses, OtherErrno, Call, ReadSome, busVars
  <2> QED  BY <1>1, <2>1
<1>5. CASE ReadNothing
  <2>1. UNCHANGED <<sent, delivered>> /\ (UNCHANGED failed \/ failed' = TRUE)
    BY <1>5 DEF ReadNothing, Fail, busVars
  <2> QED  BY <1>1, <1>2, <2>1
<1>6. CASE HeaderDone
  <2>1. UNCHANGED <<sent, delivered>> /\ (UNCHANGED failed \/ failed' = TRUE)
    BY <1>6 DEF HeaderDone, Fail, busVars
  <2> QED  BY <1>1, <1>2, <2>1
<1>7. CASE BodyDone
  <2>1. CASE header.bad = "fields"
    <3>1. UNCHANGED <<sent, delivered>> /\ failed' = TRUE
      BY <1>7, <2>1 DEF BodyDone, Fail, busVars
    <3> QED  BY <1>2, <3>1
  <2>2. CASE header.bad # "fields"
    BY <1>7, <2>2, TakeStep DEF Channel!Next
  <2> QED  BY <2>1, <2>2
<1>8. CASE UNCHANGED vars
  BY <1>1, <1>8 DEF vars, busVars
<1> QED
  BY <1>3, <1>4, <1>5, <1>6, <1>7, <1>8 DEF Next, ReadFd

LEMMA InitIsAChannelInit == Init => Channel!Init
<1> SUFFICES ASSUME Init
             PROVE  Channel!Init
  OBVIOUS
<1>1. sent = <<>> /\ delivered = <<>> /\ failed = FALSE
  BY DEF Init
<1>2. Queue = <<>> /\ Taken = <<>>
  BY <1>1 DEF Queue, Taken
<1> QED  BY <1>1, <1>2 DEF Channel!Init, Queue, Taken

\* The reader of the socket implements a queue of messages: what the bus sends
\* is handed on whole, once and in order, and a malformed message never is.
THEOREM FramingImplementsChannel == Spec => IsAChannel
<1>1. FramingInv /\ FramingInv' /\ [Next]_vars => [Channel!Next]_(Channel!channelVars)
  BY StepIsAChannelStep
<1> QED
  BY <1>1, InitIsAChannelInit, FramingInvHolds, PTL DEF Spec, IsAChannel, Channel!Spec

============================================================================
