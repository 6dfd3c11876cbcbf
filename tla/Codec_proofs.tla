---------------------------- MODULE Codec_proofs ----------------------------
(***************************************************************************)
(* Proofs about Codec and the functions it is built from: the reader stays *)
(* inside the bytes a peer sent until it meets a length it overruns them   *)
(* by; what is serialized is bytes, as many as its header says; readFd     *)
(* waits for exactly the message a little-endian peer writes; a header and *)
(* its fields are read as they were written, and the example writes the    *)
(* same bytes for each field.                                              *)
(***************************************************************************)
EXTENDS Codec, SequenceTheorems, WellFoundedInduction, TLAPS

----------------------------------------------------------------------------
(* Induction over the numbers up to a bound, by the least that fails *)

LEMMA LeastNumber ==
    ASSUME NEW S, S \subseteq Nat, S # {}
    PROVE  \E n \in S : \A m \in S : n <= m
<1>1. IsWellFoundedOn(OpToRel(<, Nat), Nat)
  BY NatLessThanWellFounded
<1>2. PICK n \in S : \A m \in S : <<m, n>> \notin OpToRel(<, Nat)
  BY <1>1, WFMin, Zenon
<1>3. ASSUME NEW m \in S
      PROVE  n <= m
  <2>1. m \in Nat /\ n \in Nat /\ ~(m < n)
    BY <1>2 DEF OpToRel
  <2> QED  BY <2>1
<1> QED  BY <1>2, <1>3

LEMMA CountingUp ==
    ASSUME NEW N \in Nat, NEW T, 0 \in T, \A n \in 1 .. N : n - 1 \in T => n \in T
    PROVE  0 .. N \subseteq T
<1> SUFFICES ASSUME (0 .. N) \ T # {}
             PROVE  FALSE
  OBVIOUS
<1>1. PICK n \in (0 .. N) \ T : \A m \in (0 .. N) \ T : n <= m
  <2>1. (0 .. N) \ T \subseteq Nat
    OBVIOUS
  <2> QED  BY <2>1, LeastNumber
<1>2. n \in 1 .. N /\ n - 1 \in 0 .. N /\ ~(n <= n - 1)
  BY <1>1
<1>3. n - 1 \in T
  BY <1>1, <1>2
<1> QED  BY <1>1, <1>2, <1>3

LEMMA CountingDown ==
    ASSUME NEW N \in Nat, NEW T, N \in T, \A n \in 1 .. N : n \in T => n - 1 \in T
    PROVE  0 .. N \subseteq T
<1> DEFINE U == {k \in 0 .. N : N - k \in T}
<1>1. 0 \in U
  OBVIOUS
<1>2. ASSUME NEW k \in 1 .. N, k - 1 \in U
      PROVE  k \in U
  <2>1. N - (k - 1) \in T /\ N - (k - 1) \in 1 .. N /\ (N - (k - 1)) - 1 = N - k
    BY <1>2
  <2>2. N - k \in T
    BY <2>1
  <2> QED  BY <2>2
<1> HIDE DEF U
<1>3. 0 .. N \subseteq U
  BY <1>1, <1>2, CountingUp
<1>4. ASSUME NEW n \in 0 .. N
      PROVE  n \in T
  <2>1. N - n \in 0 .. N /\ N - (N - n) = n
    OBVIOUS
  <2>2. N - n \in U
    BY <1>3, <2>1
  <2> QED  BY <2>1, <2>2 DEF U
<1> QED  BY <1>4

\* f starts with z, and G gives each value from the one before.
Iterates(f, N, S, z, G) ==
    f \in [0 .. N -> S] /\ f[0] = z /\ \A n \in 1 .. N : f[n] = G[n][f[n - 1]]

\* G keeps to S.
StaysIn(G, N, S) == \A n \in 1 .. N : \A b \in S : G[n][b] \in S

LEMMA Recursion ==
    ASSUME NEW N \in Nat, NEW S, NEW z \in S, NEW G, StaysIn(G, N, S)
    PROVE  \E f : Iterates(f, N, S, z, G)
<1>0. \A n \in 1 .. N : \A b \in S : G[n][b] \in S
  BY DEF StaysIn
<1> DEFINE Solves(f, k) == f[0] = z /\ \A n \in 1 .. k : f[n] = G[n][f[n - 1]]
           T == {k \in 0 .. N : \E f \in [0 .. k -> S] : Solves(f, k)}
<1>1. 0 \in T
  <2> DEFINE f == [i \in 0 .. 0 |-> z]
  <2>1. f \in [0 .. 0 -> S] /\ f[0] = z
    OBVIOUS
  <2> HIDE DEF f
  <2>2. Solves(f, 0)
    BY <2>1
  <2> QED  BY <2>1, <2>2
<1>2. ASSUME NEW k \in 1 .. N, k - 1 \in T
      PROVE  k \in T
  <2>1. PICK f \in [0 .. k - 1 -> S] : Solves(f, k - 1)
    BY <1>2
  <2> DEFINE v == G[k][f[k - 1]]
             g == [i \in 0 .. k |-> IF i = k THEN v ELSE f[i]]
  <2>2. v \in S
    <3>1. f[k - 1] \in S
      OBVIOUS
    <3> QED  BY <1>0, <3>1
  <2> HIDE DEF v
  <2>3. g \in [0 .. k -> S] /\ g[k] = v /\ \A i \in 0 .. k - 1 : g[i] = f[i]
    BY <2>2
  <2> HIDE DEF g
  <2>4. ASSUME NEW n \in 1 .. k
        PROVE  g[n] = G[n][g[n - 1]]
    <3>1. g[n - 1] = f[n - 1]
      <4>1. n - 1 \in 0 .. k - 1
        OBVIOUS
      <4> QED  BY <2>3, <4>1
    <3>2. CASE n = k
      BY <2>3, <3>1, <3>2 DEF v
    <3>3. CASE n # k
      <4>1. n \in 0 .. k - 1 /\ n \in 1 .. k - 1
        BY <3>3
      <4> QED  BY <2>1, <2>3, <3>1, <4>1
    <3> QED  BY <3>2, <3>3
  <2>5. g[0] = z
    <3>1. 0 \in 0 .. k - 1
      OBVIOUS
    <3> QED  BY <2>1, <2>3, <3>1
  <2>6. Solves(g, k)
    BY <2>4, <2>5
  <2> HIDE DEF Solves
  <2> QED  BY <2>3, <2>6
<1>3. N \in 0 .. N
  OBVIOUS
<1> HIDE DEF T
<1>4. N \in T
  BY <1>1, <1>2, <1>3, CountingUp
<1>5. PICK f \in [0 .. N -> S] : Solves(f, N)
  BY <1>4 DEF T
<1> QED  BY <1>5 DEF Iterates

----------------------------------------------------------------------------
(* Alignment and integers *)

Sizes == {1, 2, 4, 8}

LEMMA Alignment ==
    ASSUME NEW n \in Nat, NEW a \in Sizes
    PROVE  /\ AlignedTo(n, a) \in Nat /\ AlignedTo(n, a) >= n /\ AlignedTo(n, a) < n + a
           /\ AlignedTo(n, a) % a = 0
<1>1. CASE a = 1  BY <1>1 DEF AlignedTo
<1>2. CASE a = 2  BY <1>2 DEF AlignedTo
<1>3. CASE a = 4  BY <1>3 DEF AlignedTo
<1>4. CASE a = 8  BY <1>4 DEF AlignedTo
<1> QED  BY <1>1, <1>2, <1>3, <1>4 DEF Sizes

Word == [1 .. 4 -> Byte]

LEMMA WordIsBytes ==
    ASSUME NEW b
    PROVE  b \in Word <=> b \in Seq(Byte) /\ Len(b) = 4
<1>1. ASSUME b \in Word
      PROVE  b \in Seq(Byte) /\ Len(b) = 4
  <2>1. b \in [1 .. 4 -> Byte] /\ 4 \in Nat
    BY <1>1 DEF Word
  <2>2. b \in Seq(Byte)
    BY <2>1, SeqDef
  <2>3. DOMAIN b = 1 .. 4 /\ DOMAIN b = 1 .. Len(b) /\ Len(b) \in Nat
    BY <2>1, <2>2, LenProperties
  <2>4. Len(b) = 4
    <3> DEFINE l == Len(b)
    <3>1. l \in Nat /\ 1 .. l = 1 .. 4
      BY <2>3
    <3> HIDE DEF l
    <3>2. 4 \in 1 .. l
      BY <3>1
    <3>3. l \in 1 .. 4
      BY <3>1, <3>2
    <3>4. l = 4
      BY <3>1, <3>2, <3>3
    <3> QED  BY <3>4 DEF l
  <2> QED  BY <2>2, <2>4
<1>2. ASSUME b \in Seq(Byte), Len(b) = 4
      PROVE  b \in Word
  BY <1>2, LenProperties DEF Word
<1> QED  BY <1>1, <1>2

LEMMA NumberIsNat ==
    ASSUME NEW b \in Word
    PROVE  Number(b) \in Nat
<1>1. b[1] \in Nat /\ b[2] \in Nat /\ b[3] \in Nat /\ b[4] \in Nat
  BY DEF Word, Byte
<1> QED  BY <1>1 DEF Number

\* The greatest number of four bytes, MaxUInt32. Lengths stay below it: a text of
\* that length is not read back.
LengthLimit == 4294967295

\* The four bytes of a length, of which the sum is the length again.
LEMMA UInt32IsWord ==
    ASSUME NEW n \in Nat
    PROVE  /\ UInt32(n) \in Word
           /\ n < LengthLimit => Number(UInt32(n)) = n /\ UInt32(n) # MaxUInt32
<1> DEFINE D(i) == (n \div <<1, 256, 65536, 16777216>>[i]) % 256
           w == UInt32(n)
           x == n \div 256
           y == x \div 256
           z == y \div 256
<1>1. D(1) = n % 256
  <2>1. n \div 1 = n
    OBVIOUS
  <2> QED  BY <2>1
<1>2. D(2) = (n \div 256) % 256 /\ D(3) = (n \div 65536) % 256 /\ D(4) = (n \div 16777216) % 256
  OBVIOUS
<1>3. w = [i \in 1 .. 4 |-> D(i)]
  BY DEF UInt32
<1>4. n = 256 * x + (n % 256) /\ x = 256 * y + (x % 256) /\ y = 256 * z + (y % 256)
  OBVIOUS
<1>5. x \in Nat /\ y \in Nat /\ z \in Nat /\ n \div 65536 = y /\ n \div 16777216 = z
  OBVIOUS
<1>6. D(2) = x % 256 /\ D(3) = y % 256 /\ D(4) = z % 256
  BY SMT, <1>2, <1>5
<1>7. n < LengthLimit => z < 256
  BY SMT, <1>4, <1>5 DEF LengthLimit
<1>8. D(1) \in Byte /\ D(2) \in Byte /\ D(3) \in Byte /\ D(4) \in Byte
  BY SMT, <1>1, <1>5, <1>6 DEF Byte
<1> HIDE DEF D
<1>9. \A i \in 1 .. 4 : D(i) \in Byte
  BY SMT, <1>8
<1>10. w \in Word
  BY SMT, <1>3, <1>9 DEF Word
<1>11. Number(w) = D(1) + 256 * D(2) + 65536 * D(3) + 16777216 * D(4)
  <2> HIDE DEF w
  <2>1. w[1] = D(1) /\ w[2] = D(2) /\ w[3] = D(3) /\ w[4] = D(4)
    BY SMT, <1>3
  <2> QED  BY SMT, <2>1 DEF Number
<1>12. ASSUME n < LengthLimit
       PROVE  Number(w) = n
  <2>1. z % 256 = z
    BY SMT, <1>5, <1>7, <1>12
  <2> HIDE DEF w, x, y, z
  <2>2. n % 256 \in Nat /\ x % 256 \in Nat /\ y % 256 \in Nat
    BY SMT, <1>5
  <2> QED  BY SMT, <1>1, <1>4, <1>5, <1>6, <1>11, <2>1, <2>2
<1> HIDE DEF w
<1>13. ASSUME n < LengthLimit
       PROVE  w # MaxUInt32
  <2>1. Number(MaxUInt32) = LengthLimit
    BY DEF Number, MaxUInt32, LengthLimit
  <2>2. n # LengthLimit
    BY <1>13 DEF LengthLimit
  <2> QED  BY Zenon, <1>12, <1>13, <2>1, <2>2
<1> QED  BY <1>10, <1>12, <1>13 DEF w

LEMMA ReverseIsBytes ==
    ASSUME NEW b \in Seq(Byte), NEW e
    PROVE  InOrder(e, b) \in Seq(Byte) /\ Len(InOrder(e, b)) = Len(b)
<1>1. Reverse(b) \in Seq(Byte) /\ Len(Reverse(b)) = Len(b)
  <2> DEFINE l == Len(b)
  <2>1. l \in Nat /\ \A i \in 1 .. l : b[i] \in Byte
    OBVIOUS
  <2>2. Reverse(b) = [i \in 1 .. l |-> b[l - i + 1]]
    BY DEF Reverse
  <2> HIDE DEF l
  <2>3. \A i \in 1 .. l : b[l - i + 1] \in Byte
    <3> TAKE i \in 1 .. l
    <3>1. l - i + 1 \in 1 .. l
      BY <2>1
    <3> QED  BY <2>1, <3>1
  <2>4. Reverse(b) \in [1 .. l -> Byte]
    BY <2>2, <2>3
  <2>5. Reverse(b) \in Seq(Byte) /\ Len(Reverse(b)) = l
    BY <2>1, <2>4, SeqDef
  <2> QED  BY <2>5 DEF l
<1> QED  BY <1>1 DEF InOrder

LEMMA ZerosAreBytes ==
    ASSUME NEW n \in Nat
    PROVE  Zeros(n) \in Seq(Byte) /\ Len(Zeros(n)) = n
<1>1. Zeros(n) \in [1 .. n -> Byte]
  BY DEF Zeros, Byte
<1> QED  BY <1>1, SeqDef

----------------------------------------------------------------------------
(* Reader *)

Readers == [data : Seq(Byte), pos : Nat, endian : Byte]
Reader  == {r \in Readers : r.pos <= Len(r.data)}

\* A read leaves a reader of the same bytes, not before the place it was at and
\* not past the end, and its value, if it has one, is in S.
ReadsOn(read, r, S) ==
    /\ read.r \in Reader /\ read.r.data = r.data /\ read.r.endian = r.endian
    /\ r.pos <= read.r.pos
    /\ read.ok \in BOOLEAN /\ (read.ok => read.val \in S)

LEMMA ReaderParts ==
    ASSUME NEW r \in Reader
    PROVE  /\ r \in Readers /\ r.data \in Seq(Byte) /\ Len(r.data) \in Nat
           /\ r.pos \in Nat /\ r.pos <= Len(r.data) /\ r.endian \in Byte
BY DEF Reader, Readers

LEMMA MovedReader ==
    ASSUME NEW r \in Reader, NEW p \in Nat, p <= Len(r.data)
    PROVE  LET q == [r EXCEPT !.pos = p]
           IN  q \in Reader /\ q.data = r.data /\ q.endian = r.endian /\ q.pos = p
<1>1. r \in [data : Seq(Byte), pos : Nat, endian : Byte]
  BY ReaderParts DEF Readers
<1> QED  BY <1>1 DEF Reader, Readers

LEMMA NewReaderIsReader ==
    ASSUME NEW b \in Seq(Byte)
    PROVE  /\ NewReader(b) \in Reader /\ NewReader(b).data = b
           /\ NewReader(b).pos = 0 /\ NewReader(b).endian = Little
BY DEF NewReader, Reader, Readers, Byte, Little

LEMMA NothingReadsOn ==
    ASSUME NEW r \in Reader, NEW q \in Reader, q.data = r.data, q.endian = r.endian,
           r.pos <= q.pos, NEW S
    PROVE  ReadsOn(Nothing(q), r, S) /\ ~Nothing(q).ok
BY DEF ReadsOn, Nothing

LEMMA OverrunReadsOn ==
    ASSUME NEW r \in Reader, NEW S
    PROVE  ReadsOn(Overrun(r), r, S)
<1>1. r.pos <= r.pos
  BY ReaderParts
<1> QED  BY <1>1 DEF ReadsOn, Overrun

LEMMA GotReadsOn ==
    ASSUME NEW r \in Reader, NEW q \in Reader, q.data = r.data, q.endian = r.endian,
           r.pos <= q.pos, NEW S, NEW v \in S
    PROVE  ReadsOn(Got(v, q), r, S) /\ Got(v, q).ok /\ Got(v, q).val = v /\ Got(v, q).r = q
BY DEF ReadsOn, Got

\* Two reads one after the other.
LEMMA ReadsCompose ==
    ASSUME NEW r \in Reader, NEW q, NEW S, NEW T, NEW read, NEW next,
           ReadsOn(read, r, S), q = read.r, ReadsOn(next, q, T)
    PROVE  ReadsOn(next, r, T)
<1>1. q \in Reader /\ q.data = r.data /\ q.endian = r.endian /\ r.pos <= q.pos
  BY DEF ReadsOn
<1>2. /\ next.r \in Reader /\ next.r.data = q.data /\ next.r.endian = q.endian
      /\ q.pos <= next.r.pos /\ next.ok \in BOOLEAN /\ (next.ok => next.val \in T)
  BY DEF ReadsOn
<1>3. r.pos \in Nat /\ q.pos \in Nat /\ next.r.pos \in Nat
  BY <1>1, <1>2, ReaderParts
<1>4. r.pos <= next.r.pos
  BY <1>1, <1>2, <1>3
<1> QED  BY <1>1, <1>2, <1>4 DEF ReadsOn

LEMMA AdvanceStays ==
    ASSUME NEW r \in Reader, NEW n \in Nat, Check(r, n)
    PROVE  /\ Advance(r, n) \in Reader /\ Advance(r, n).data = r.data
           /\ Advance(r, n).endian = r.endian /\ Advance(r, n).pos = r.pos + n
           /\ r.pos <= Advance(r, n).pos
           /\ Bytes(r, n) \in Seq(Byte) /\ Len(Bytes(r, n)) = n
           /\ \A i \in 1 .. n : Bytes(r, n)[i] = r.data[r.pos + i]
<1>1. /\ r \in Readers /\ r.data \in Seq(Byte) /\ Len(r.data) \in Nat
      /\ r.pos \in Nat /\ r.pos <= Len(r.data)
  BY ReaderParts
<1>2. r.pos + n \in Nat /\ r.pos + n <= Len(r.data)
  BY <1>1 DEF Check
<1>3. Advance(r, n) = [r EXCEPT !.pos = r.pos + n]
  BY <1>1 DEF Advance, Readers
<1>4. /\ Advance(r, n) \in Reader /\ Advance(r, n).data = r.data
      /\ Advance(r, n).endian = r.endian /\ Advance(r, n).pos = r.pos + n
  BY <1>2, <1>3, MovedReader
<1> DEFINE d == r.data
           p == r.pos
           l == Len(d)
<1>5. d \in Seq(Byte) /\ l \in Nat /\ p \in Nat /\ p + n <= l /\ \A i \in 1 .. l : d[i] \in Byte
  BY <1>1, <1>2
<1> HIDE DEF d, p, l
<1>6. /\ SubSeq(d, p + 1, p + n) \in Seq(Byte) /\ Len(SubSeq(d, p + 1, p + n)) = n
      /\ \A i \in 1 .. n : SubSeq(d, p + 1, p + n)[i] = d[p + i]
  <2> DEFINE m == p + 1
             e == p + n
             b == SubSeq(d, m, e)
  <2>1. m \in Int /\ e \in Int /\ e - m + 1 = n /\ \A i \in m .. e : i \in 1 .. l
    BY <1>5
  <2>2. \A i \in m .. e : d[i] \in Byte
    BY <1>5, <2>1
  <2> HIDE DEF m, e
  <2>3. /\ b \in Seq(Byte) /\ Len(b) = IF m <= e THEN e - m + 1 ELSE 0
        /\ \A i \in 1 .. e - m + 1 : b[i] = d[m + i - 1]
    BY <2>1, <2>2, SubSeqProperties
  <2> HIDE DEF b
  <2>4. Len(b) = n
    BY <2>1, <2>3 DEF m, e
  <2>5. \A i \in 1 .. n : b[i] = d[p + i]
    <3> TAKE i \in 1 .. n
    <3>1. b[i] = d[m + i - 1]
      BY <2>1, <2>3
    <3>2. m + i - 1 = p + i
      BY <1>5 DEF m
    <3> QED  BY <3>1, <3>2
  <2> QED  BY <2>3, <2>4, <2>5 DEF b, m, e
<1>7. Bytes(r, n) = SubSeq(d, p + 1, p + n)
  BY DEF Bytes, d, p
<1>8. r.pos <= r.pos + n
  BY <1>1
<1> QED  BY <1>4, <1>6, <1>7, <1>8 DEF d, p

LEMMA SeekStays ==
    ASSUME NEW r \in Reader, NEW p \in Nat, r.pos <= p
    PROVE  /\ ReadsOn(Seek(r, p), r, Nat)
           /\ Seek(r, p).ok => Seek(r, p).r.pos = p
<1>1. CASE p > Len(r.data)
  <2>1. Seek(r, p) = Nothing(r)
    BY <1>1 DEF Seek
  <2>2. r.pos <= r.pos
    BY ReaderParts
  <2> QED  BY <2>1, <2>2, NothingReadsOn
<1>2. CASE ~(p > Len(r.data))
  <2>1. Seek(r, p) = Got(p, [r EXCEPT !.pos = p])
    BY <1>2 DEF Seek
  <2>2. p <= Len(r.data)
    BY <1>2, ReaderParts
  <2> DEFINE q == [r EXCEPT !.pos = p]
  <2>3. q \in Reader /\ q.data = r.data /\ q.endian = r.endian /\ q.pos = p
    BY <2>2, MovedReader
  <2> HIDE DEF q
  <2>4. r.pos <= q.pos
    BY <2>3
  <2>5. ReadsOn(Got(p, q), r, Nat) /\ Got(p, q).r = q
    BY <2>3, <2>4 DEF ReadsOn, Got
  <2> QED  BY <2>1, <2>3, <2>5 DEF q
<1> QED  BY <1>1, <1>2

LEMMA AlignStays ==
    ASSUME NEW r \in Reader, NEW a \in Sizes
    PROVE  /\ ReadsOn(Align(r, a), r, Nat)
           /\ Align(r, a).ok => Align(r, a).r.pos % a = 0
<1>1. r.pos \in Nat
  BY ReaderParts
<1>2. AlignedTo(r.pos, a) \in Nat /\ r.pos <= AlignedTo(r.pos, a) /\ AlignedTo(r.pos, a) % a = 0
  BY <1>1, Alignment
<1> QED  BY <1>2, SeekStays DEF Align

LEMMA ReadUInt8Stays ==
    ASSUME NEW r \in Reader
    PROVE  ReadsOn(ReadUInt8(r), r, Byte)
<1>1. CASE Check(r, 1)
  <2> DEFINE q == Advance(r, 1)
             v == Bytes(r, 1)[1]
  <2>1. /\ q \in Reader /\ q.data = r.data /\ q.endian = r.endian /\ r.pos <= q.pos
        /\ Bytes(r, 1) \in Seq(Byte) /\ Len(Bytes(r, 1)) = 1
    BY <1>1, AdvanceStays
  <2>2. v \in Byte
    BY <2>1
  <2>3. ReadUInt8(r) = Got(v, q)
    BY <1>1 DEF ReadUInt8
  <2> HIDE DEF q, v
  <2> QED  BY <2>1, <2>2, <2>3, GotReadsOn
<1>2. CASE ~Check(r, 1)
  <2>1. ReadUInt8(r) = Nothing(r) /\ r.pos <= r.pos
    BY <1>2, ReaderParts DEF ReadUInt8
  <2> QED  BY <2>1, NothingReadsOn
<1> QED  BY <1>1, <1>2

Strings(n) == {b \in Seq(Byte) : Len(b) = n}

LEMMA ReadUIntStays ==
    ASSUME NEW r \in Reader, NEW n \in Sizes
    PROVE  ReadsOn(ReadUInt(r, n), r, Strings(n))
<1> DEFINE al == Align(r, n)
           at == al.r
<1>1. ReadsOn(al, r, Nat)
  BY AlignStays
<1>2. at \in Reader /\ at.data = r.data /\ at.endian = r.endian /\ r.pos <= at.pos /\ al.ok \in BOOLEAN
  BY <1>1 DEF ReadsOn
<1>n. n \in Nat
  BY DEF Sizes
<1>3. ReadUInt(r, n) = IF al.ok THEN IF Check(at, n)
                                     THEN Got(InOrder(at.endian, Bytes(at, n)), Advance(at, n))
                                     ELSE Nothing(at)
                       ELSE al
  BY <1>2 DEF ReadUInt, Then
<1> HIDE DEF al, at
<1>4. CASE ~al.ok
  <2>1. ReadUInt(r, n) = al
    BY <1>3, <1>4
  <2> QED  BY <1>1, <1>4, <2>1 DEF ReadsOn
<1>5. CASE al.ok /\ Check(at, n)
  <2> DEFINE q == Advance(at, n)
             b == Bytes(at, n)
             v == InOrder(at.endian, b)
  <2>1. /\ q \in Reader /\ q.data = at.data /\ q.endian = at.endian /\ at.pos <= q.pos
        /\ b \in Seq(Byte) /\ Len(b) = n
    BY <1>2, <1>5, <1>n, AdvanceStays
  <2> HIDE DEF q, b
  <2>2. v \in Strings(n)
    BY <2>1, ReverseIsBytes DEF Strings
  <2> HIDE DEF v
  <2>3. r.pos <= q.pos
    BY <1>2, <2>1, ReaderParts
  <2>4. ReadUInt(r, n) = Got(v, q)
    BY <1>3, <1>5 DEF v, q, b
  <2> QED  BY <1>2, <2>1, <2>2, <2>3, <2>4, GotReadsOn
<1>6. CASE al.ok /\ ~Check(at, n)
  <2>1. ReadUInt(r, n) = Nothing(at)
    BY <1>3, <1>6
  <2> QED  BY <1>2, <2>1, NothingReadsOn
<1> QED  BY <1>2, <1>4, <1>5, <1>6

LEMMA ReadCharsStays ==
    ASSUME NEW r \in Reader, NEW n \in Nat
    PROVE  ReadsOn(ReadChars(r, n), r, Seq(Byte))
<1> DEFINE nul == Advance(r, n)
           q == Advance(nul, 1)
<1>0. r.pos \in Nat /\ Len(r.data) \in Nat
  BY ReaderParts
<1>1. CASE ~Check(r, n + 1)
  <2>1. ReadChars(r, n) = Nothing(r) /\ r.pos <= r.pos
    BY <1>0, <1>1 DEF ReadChars
  <2> QED  BY <2>1, NothingReadsOn
<1>2. CASE Check(r, n + 1)
  <2>1. Check(r, n)
    BY <1>0, <1>2 DEF Check
  <2>2. /\ nul \in Reader /\ nul.data = r.data /\ nul.endian = r.endian /\ nul.pos = r.pos + n
        /\ r.pos <= nul.pos /\ Bytes(r, n) \in Seq(Byte)
    BY <2>1, AdvanceStays
  <2>3. Check(nul, 1)
    <3>1. nul.pos + 1 = r.pos + (n + 1)
      BY <1>0, <2>2
    <3> QED  BY <1>2, <2>2, <3>1 DEF Check
  <2>4. ReadChars(r, n) = IF Bytes(nul, 1)[1] # 0 THEN Nothing(nul) ELSE Got(Bytes(r, n), q)
    BY <1>2 DEF ReadChars
  <2> HIDE DEF nul
  <2>5. q \in Reader /\ q.data = r.data /\ q.endian = r.endian /\ nul.pos <= q.pos
    BY <2>2, <2>3, AdvanceStays
  <2> HIDE DEF q
  <2>6. r.pos <= q.pos
    BY <2>2, <2>5, ReaderParts
  <2>7. ReadsOn(Nothing(nul), r, Seq(Byte))
    BY <2>2, NothingReadsOn
  <2>8. ReadsOn(Got(Bytes(r, n), q), r, Seq(Byte))
    BY <2>2, <2>5, <2>6, GotReadsOn
  <2> QED  BY <2>4, <2>7, <2>8
<1> QED  BY <1>1, <1>2

LEMMA ReadStringStays ==
    ASSUME NEW r \in Reader
    PROVE  ReadsOn(ReadString(r), r, Seq(Byte))
<1> DEFINE len == ReadUInt(r, 4)
           text == ReadChars(len.r, Number(len.val))
           chars == IF len.val = MaxUInt32 THEN Overrun(len.r) ELSE text
<1>1. ReadsOn(len, r, Strings(4))
  BY ReadUIntStays DEF Sizes
<1>2. len.r \in Reader /\ len.ok \in BOOLEAN /\ (len.ok => len.val \in Word)
  BY <1>1, WordIsBytes DEF ReadsOn, Strings
<1>3. ReadString(r) = IF len.ok THEN chars ELSE len
  BY DEF ReadString, Then
<1> HIDE DEF len
<1>4. ASSUME len.ok
      PROVE  ReadsOn(chars, r, Seq(Byte))
  <2>1. Number(len.val) \in Nat
    BY <1>2, <1>4, NumberIsNat
  <2>2. ReadsOn(chars, len.r, Seq(Byte))
    <3>1. ReadsOn(text, len.r, Seq(Byte))
      BY <1>2, <2>1, ReadCharsStays
    <3>2. ReadsOn(Overrun(len.r), len.r, Seq(Byte))
      BY <1>2, OverrunReadsOn
    <3> HIDE DEF text
    <3> QED  BY <3>1, <3>2
  <2> HIDE DEF chars
  <2> QED  BY <1>1, <2>2, ReadsCompose
<1>5. ASSUME ~len.ok
      PROVE  ReadsOn(len, r, Seq(Byte))
  BY <1>1, <1>5 DEF ReadsOn
<1> QED  BY <1>3, <1>4, <1>5

LEMMA ReadSignatureStays ==
    ASSUME NEW r \in Reader
    PROVE  ReadsOn(ReadSignature(r), r, Seq(Byte))
<1> DEFINE len == ReadUInt8(r)
           chars == ReadChars(len.r, len.val)
<1>1. ReadsOn(len, r, Byte)
  BY ReadUInt8Stays
<1>2. len.r \in Reader /\ len.ok \in BOOLEAN /\ (len.ok => len.val \in Nat)
  BY <1>1 DEF ReadsOn, Byte
<1>3. ReadSignature(r) = IF len.ok THEN chars ELSE len
  BY DEF ReadSignature, Then
<1> HIDE DEF len
<1>4. ASSUME len.ok
      PROVE  ReadsOn(chars, r, Seq(Byte))
  <2>1. ReadsOn(chars, len.r, Seq(Byte))
    BY <1>2, <1>4, ReadCharsStays
  <2> HIDE DEF chars
  <2> QED  BY <1>1, <2>1, ReadsCompose
<1>5. ASSUME ~len.ok
      PROVE  ReadsOn(len, r, Seq(Byte))
  BY <1>1, <1>5 DEF ReadsOn
<1> QED  BY <1>3, <1>4, <1>5

LEMMA ReadBoolStays ==
    ASSUME NEW r \in Reader
    PROVE  ReadsOn(ReadBool(r), r, BOOLEAN)
<1> DEFINE num == ReadUInt(r, 4)
<1>1. ReadsOn(num, r, Strings(4))
  BY ReadUIntStays DEF Sizes
<1>2. ReadBool(r) = IF num.ok THEN Got(num.val # Zeros(4), num.r) ELSE num
  BY DEF ReadBool, Then
<1> HIDE DEF num
<1> DEFINE v == num.val # Zeros(4)
           q == num.r
<1>3. v \in BOOLEAN
  OBVIOUS
<1>4. q \in Reader /\ q.data = r.data /\ q.endian = r.endian /\ r.pos <= q.pos
  BY <1>1 DEF ReadsOn
<1> HIDE DEF v, q
<1>5. ReadsOn(Got(v, q), r, BOOLEAN)
  BY <1>3, <1>4, GotReadsOn
<1>6. ~num.ok => ReadsOn(num, r, BOOLEAN)
  BY <1>1 DEF ReadsOn
<1> QED  BY <1>2, <1>5, <1>6 DEF v, q

----------------------------------------------------------------------------
(* Writer *)

Writer == [data : Seq(Byte), endian : Byte]

LEMMA PutIsWriter ==
    ASSUME NEW w \in Writer, NEW b \in Seq(Byte)
    PROVE  /\ Put(w, b) \in Writer /\ Put(w, b).endian = w.endian
           /\ Put(w, b).data = w.data \o b
<1>1. w \in [data : Seq(Byte), endian : Byte]
  BY DEF Writer
<1>2. w.data \in Seq(Byte) /\ w.data \o b \in Seq(Byte)
  BY <1>1, ConcatProperties
<1>3. Put(w, b) = [w EXCEPT !.data = w.data \o b]
  BY <1>1 DEF Put
<1> DEFINE d == w.data \o b
<1> HIDE DEF d
<1>4. [w EXCEPT !.data = d] \in Writer /\ [w EXCEPT !.data = d].endian = w.endian
      /\ [w EXCEPT !.data = d].data = d
  BY <1>1, <1>2 DEF Writer, d
<1> QED  BY <1>3, <1>4 DEF d

LEMMA NewWriterIsWriter ==
    ASSUME NEW e \in Byte
    PROVE  /\ NewWriter \in Writer
           /\ LET w == [NewWriter EXCEPT !.endian = e]
              IN  w \in Writer /\ w.data = <<>> /\ w.endian = e
<1>1. Little \in Byte
  BY DEF Little, Byte
<1>2. NewWriter \in [data : Seq(Byte), endian : Byte]
  BY <1>1 DEF NewWriter
<1> QED  BY <1>2 DEF Writer, NewWriter

LEMMA PadToIsWriter ==
    ASSUME NEW w \in Writer, NEW a \in Sizes
    PROVE  PadTo(w, a) \in Writer /\ PadTo(w, a).endian = w.endian
<1>1. Len(w.data) \in Nat
  BY DEF Writer
<1> DEFINE n == AlignedTo(Len(w.data), a) - Len(w.data)
<1>2. n \in Nat
  BY <1>1, Alignment
<1> HIDE DEF n
<1>3. Zeros(n) \in Seq(Byte)
  BY <1>2, ZerosAreBytes
<1> QED  BY <1>3, PutIsWriter DEF PadTo, n

LEMMA WriteUInt8IsWriter ==
    ASSUME NEW w \in Writer, NEW v \in Byte
    PROVE  WriteUInt8(w, v) \in Writer
<1>1. <<v>> \in Seq(Byte)
  OBVIOUS
<1> QED  BY <1>1, PutIsWriter DEF WriteUInt8

LEMMA WriteUIntIsWriter ==
    ASSUME NEW w \in Writer, NEW b \in Seq(Byte), Len(b) \in Sizes
    PROVE  WriteUInt(w, b) \in Writer
<1>1. PadTo(w, Len(b)) \in Writer
  BY PadToIsWriter
<1>2. InOrder(w.endian, b) \in Seq(Byte)
  BY ReverseIsBytes
<1> QED  BY <1>1, <1>2, PutIsWriter DEF WriteUInt

LEMMA TextIsBytes ==
    ASSUME NEW s \in Seq(Byte)
    PROVE  s \o <<0>> \in Seq(Byte)
<1>1. <<0>> \in Seq(Byte)
  BY DEF Byte
<1> QED  BY <1>1, ConcatProperties

LEMMA WriteStringIsWriter ==
    ASSUME NEW w \in Writer, NEW s \in Seq(Byte)
    PROVE  WriteString(w, s) \in Writer
<1>1. UInt32(Len(s)) \in Seq(Byte) /\ Len(UInt32(Len(s))) = 4
  BY UInt32IsWord, WordIsBytes
<1>2. WriteUInt(w, UInt32(Len(s))) \in Writer
  BY <1>1, WriteUIntIsWriter DEF Sizes
<1> QED  BY <1>2, TextIsBytes, PutIsWriter DEF WriteString

LEMMA WriteSignatureIsWriter ==
    ASSUME NEW w \in Writer, NEW s \in Seq(Byte)
    PROVE  WriteSignature(w, s) \in Writer
<1>1. Len(s) % 256 \in Byte
  <2> DEFINE n == Len(s)
  <2>1. n \in Nat
    OBVIOUS
  <2> HIDE DEF n
  <2>2. n % 256 \in Byte
    BY <2>1 DEF Byte
  <2> QED  BY <2>2 DEF n
<1>2. WriteUInt8(w, Len(s) % 256) \in Writer
  BY <1>1, WriteUInt8IsWriter
<1> QED  BY <1>2, TextIsBytes, PutIsWriter DEF WriteSignature

----------------------------------------------------------------------------
(* The header fields, as a function from those that are present *)

FieldMaps ==
    {g \in UNION {[D -> Seq(Byte)] : D \in SUBSET Fields} :
        \A f \in DOMAIN g \cap NumberFields : Len(g[f]) = 4}

LEMMA FieldMapParts ==
    ASSUME NEW g \in FieldMaps
    PROVE  /\ DOMAIN g \subseteq Fields
           /\ \A f \in DOMAIN g : g[f] \in Seq(Byte)
           /\ \A f \in DOMAIN g \cap NumberFields : Len(g[f]) = 4
<1>1. PICK D \in SUBSET Fields : g \in [D -> Seq(Byte)]
  BY DEF FieldMaps
<1>2. \A f \in DOMAIN g \cap NumberFields : Len(g[f]) = 4
  BY DEF FieldMaps
<1> QED  BY <1>1, <1>2

LEMMA FieldMapOf ==
    ASSUME NEW D \in SUBSET Fields, NEW g \in [D -> Seq(Byte)],
           \A f \in D \cap NumberFields : Len(g[f]) = 4
    PROVE  g \in FieldMaps
BY DEF FieldMaps

LEMMA NoFieldsAreAMap == <<>> \in FieldMaps
<1>1. <<>> \in [{} -> Seq(Byte)]
  BY EmptySeq, SeqDef
<1> QED  BY <1>1, FieldMapOf

LEMMA SetFieldStays ==
    ASSUME NEW g \in FieldMaps, NEW f \in Fields, NEW v \in Seq(Byte),
           f \in NumberFields => Len(v) = 4
    PROVE  WithField(g, f, v) \in FieldMaps
<1> DEFINE h == WithField(g, f, v)
           D == DOMAIN g \cup {f}
<1>1. h = [x \in D |-> IF x = f THEN v ELSE g[x]]
  BY DEF WithField
<1>2. /\ DOMAIN g \subseteq Fields
      /\ \A x \in DOMAIN g : g[x] \in Seq(Byte)
      /\ \A x \in DOMAIN g \cap NumberFields : Len(g[x]) = 4
  BY FieldMapParts
<1> HIDE DEF h
<1>3. h \in [D -> Seq(Byte)] /\ D \in SUBSET Fields
  BY <1>1, <1>2
<1>4. \A x \in D \cap NumberFields : Len(h[x]) = 4
  BY <1>1, <1>2
<1> HIDE DEF D
<1> QED  BY <1>3, <1>4, FieldMapOf DEF h

LEMMA StoreStays ==
    ASSUME NEW g \in FieldMaps, NEW code, NEW known \in SUBSET Fields,
           NEW r \in Reader, NEW S \in SUBSET Seq(Byte), NEW read, ReadsOn(read, r, S),
           known \cap NumberFields # {} => S \subseteq Strings(4)
    PROVE  ReadsOn(Store(g, code, known, read), r, FieldMaps)
<1> DEFINE v == read.val
           h == IF code \in known THEN WithField(g, code, v) ELSE g
<1>1. /\ read.r \in Reader /\ read.r.data = r.data /\ read.r.endian = r.endian
      /\ r.pos <= read.r.pos /\ read.ok \in BOOLEAN /\ (read.ok => v \in S)
  BY DEF ReadsOn
<1>2. Store(g, code, known, read) = IF read.ok THEN Got(h, read.r) ELSE read
  BY DEF Store, Then
<1>3. ASSUME read.ok
      PROVE  h \in FieldMaps
  <2>1. v \in S /\ v \in Seq(Byte)
    BY <1>1, <1>3
  <2>2. CASE code \in known
    <3>1. code \in Fields /\ (code \in NumberFields => Len(v) = 4)
      BY <2>1, <2>2 DEF Strings
    <3>2. WithField(g, code, v) \in FieldMaps
      BY <2>1, <3>1, SetFieldStays
    <3> QED  BY <2>2, <3>2
  <2>3. CASE code \notin known
    BY <2>3
  <2> QED  BY <2>2, <2>3
<1> HIDE DEF h, v
<1>4. read.ok => ReadsOn(Got(h, read.r), r, FieldMaps)
  BY <1>1, <1>3, GotReadsOn
<1>5. ~read.ok => ReadsOn(read, r, FieldMaps)
  BY <1>1 DEF ReadsOn
<1> QED  BY <1>2, <1>4, <1>5

LEMMA ReadFieldValueStays ==
    ASSUME NEW g \in FieldMaps, NEW code, NEW sig, NEW r \in Reader
    PROVE  ReadsOn(ReadFieldValue(g, code, sig, r), r, FieldMaps)
<1>1. /\ StringFields \in SUBSET Fields /\ {Signature} \in SUBSET Fields
      /\ NumberFields \in SUBSET Fields
      /\ StringFields \cap NumberFields = {} /\ {Signature} \cap NumberFields = {}
  BY DEF Fields, StringFields, NumberFields, Path, Interface, Member, ErrorName,
         ReplySerial, Destination, Sender, Signature, UnixFDs
<1>2. Strings(4) \in SUBSET Seq(Byte) /\ 4 \in Sizes
  BY DEF Strings, Sizes
<1>3. ReadsOn(Store(g, code, StringFields, ReadString(r)), r, FieldMaps)
  <2>1. ReadsOn(ReadString(r), r, Seq(Byte))
    BY ReadStringStays
  <2> QED  BY <1>1, <2>1, StoreStays
<1>4. ReadsOn(Store(g, code, {Signature}, ReadSignature(r)), r, FieldMaps)
  <2>1. ReadsOn(ReadSignature(r), r, Seq(Byte))
    BY ReadSignatureStays
  <2> QED  BY <1>1, <2>1, StoreStays
<1>5. ReadsOn(Store(g, code, NumberFields, ReadUInt(r, 4)), r, FieldMaps)
  <2>1. ReadsOn(ReadUInt(r, 4), r, Strings(4))
    BY <1>2, ReadUIntStays
  <2> QED  BY <1>1, <1>2, <2>1, StoreStays
<1>6. ReadsOn(Got(g, r), r, FieldMaps)
  <2>1. r.pos <= r.pos
    BY ReaderParts
  <2> QED  BY <2>1, GotReadsOn
<1> DEFINE string == Store(g, code, StringFields, ReadString(r))
           signature == Store(g, code, {Signature}, ReadSignature(r))
           number == Store(g, code, NumberFields, ReadUInt(r, 4))
           skipped == Got(g, r)
<1>7. ReadFieldValue(g, code, sig, r) =
        CASE sig \in {<<CharS>>, <<CharO>>} -> string
          [] sig = <<CharG>> -> signature
          [] sig = <<CharU>> -> number
          [] OTHER           -> skipped
  BY DEF ReadFieldValue
<1>8. <<CharS>> # <<CharG>> /\ <<CharO>> # <<CharG>> /\ <<CharS>> # <<CharU>>
      /\ <<CharO>> # <<CharU>> /\ <<CharG>> # <<CharU>>
  BY DEF CharS, CharO, CharG, CharU
<1> HIDE DEF string, signature, number, skipped
<1> DEFINE field == ReadFieldValue(g, code, sig, r)
<1> HIDE DEF field
<1>9. field \in {string, signature, number, skipped}
  BY <1>7, <1>8 DEF field
<1> QED  BY <1>3, <1>4, <1>5, <1>6, <1>9 DEF field, string, signature, number, skipped

LEMMA ParseFieldStays ==
    ASSUME NEW g \in FieldMaps, NEW r \in Reader
    PROVE  ReadsOn(ParseField(g, r), r, FieldMaps)
<1> DEFINE code == ReadUInt8(r)
           sig == ReadSignature(code.r)
           field == ReadFieldValue(g, code.val, sig.val, sig.r)
<1>1. ReadsOn(code, r, Byte)
  BY ReadUInt8Stays
<1>2. ParseField(g, r) = IF code.ok THEN IF sig.ok THEN field ELSE sig ELSE code
  BY DEF ParseField, Then
<1> HIDE DEF code
<1>3. code.r \in Reader
  BY <1>1 DEF ReadsOn
<1>4. ReadsOn(sig, code.r, Seq(Byte))
  BY <1>3, ReadSignatureStays
<1> HIDE DEF sig
<1>5. ReadsOn(sig, r, Seq(Byte)) /\ sig.r \in Reader
  <2>1. ReadsOn(sig, r, Seq(Byte))
    BY <1>1, <1>4, ReadsCompose
  <2> QED  BY <2>1 DEF ReadsOn
<1>6. ReadsOn(field, sig.r, FieldMaps)
  BY <1>5, ReadFieldValueStays
<1> HIDE DEF field
<1>7. ReadsOn(field, r, FieldMaps)
  BY <1>5, <1>6, ReadsCompose
<1>8. ~sig.ok => ReadsOn(sig, r, FieldMaps)
  BY <1>5 DEF ReadsOn
<1>9. ~code.ok => ReadsOn(code, r, FieldMaps)
  BY <1>1 DEF ReadsOn
<1> QED  BY <1>2, <1>7, <1>8, <1>9

LEMMA WriteFieldIsWriter ==
    ASSUME NEW w \in Writer, NEW f \in Fields, NEW v \in Seq(Byte),
           f \in NumberFields => Len(v) = 4
    PROVE  WriteField(w, f, v) \in Writer
<1> DEFINE W(char) == WriteSignature(WriteUInt8(PadTo(w, 8), f), <<char>>)
<1>1. ASSUME NEW char \in Byte
      PROVE  W(char) \in Writer
  <2>1. PadTo(w, 8) \in Writer
    BY PadToIsWriter DEF Sizes
  <2>2. f \in Byte
    BY DEF Fields, StringFields, NumberFields, Path, Interface, Member, ErrorName,
           ReplySerial, Destination, Sender, Signature, UnixFDs, Byte
  <2>3. WriteUInt8(PadTo(w, 8), f) \in Writer
    BY <2>1, <2>2, WriteUInt8IsWriter
  <2>4. <<char>> \in Seq(Byte)
    OBVIOUS
  <2> QED  BY <2>3, <2>4, WriteSignatureIsWriter
<1>2. CharO \in Byte /\ CharS \in Byte /\ CharU \in Byte /\ CharG \in Byte
  BY DEF CharO, CharS, CharU, CharG, Byte
<1> DEFINE path == WriteString(W(CharO), v)
           string == WriteString(W(CharS), v)
           number == WriteUInt(W(CharU), v)
           signature == WriteSignature(W(CharG), v)
<1>3. WriteField(w, f, v) = CASE f = Path                     -> path
                              [] f \in StringFields \ {Path}  -> string
                              [] f \in NumberFields           -> number
                              [] f = Signature                -> signature
  BY DEF WriteField
<1> HIDE DEF W
<1>4. path \in Writer /\ string \in Writer /\ signature \in Writer
  BY <1>1, <1>2, WriteStringIsWriter, WriteSignatureIsWriter
<1>5. f \in NumberFields => number \in Writer
  <2>1. W(CharU) \in Writer
    BY <1>1, <1>2
  <2> QED  BY <2>1, WriteUIntIsWriter DEF Sizes
<1> HIDE DEF path, string, number, signature
<1>6. Path \notin NumberFields /\ Signature \notin NumberFields /\ Signature # Path
      /\ Signature \notin StringFields /\ StringFields \cap NumberFields = {}
  BY DEF StringFields, NumberFields, Path, Interface, Member, ErrorName,
         ReplySerial, Destination, Sender, Signature, UnixFDs
<1>7. CASE f = Path
  BY <1>3, <1>4, <1>6, <1>7
<1>8. CASE f \in StringFields \ {Path}
  BY <1>3, <1>4, <1>6, <1>8
<1>9. CASE f \in NumberFields
  BY <1>3, <1>5, <1>6, <1>9
<1>10. CASE f = Signature
  BY <1>3, <1>4, <1>6, <1>10
<1> QED  BY <1>7, <1>8, <1>9, <1>10 DEF Fields

LEMMA WriteIfSetIsWriter ==
    ASSUME NEW w \in Writer, NEW f \in Fields, NEW g \in FieldMaps
    PROVE  WriteIfSet(w, f, g) \in Writer
<1>1. CASE f \in DOMAIN g
  <2>1. g[f] \in Seq(Byte) /\ (f \in NumberFields => Len(g[f]) = 4)
    BY <1>1, FieldMapParts
  <2>2. WriteField(w, f, g[f]) \in Writer
    BY <2>1, WriteFieldIsWriter
  <2> QED  BY <1>1, <2>2 DEF WriteIfSet
<1>2. CASE f \notin DOMAIN g
  BY <1>2 DEF WriteIfSet
<1> QED  BY <1>1, <1>2

LEMMA FieldsAreBytes ==
    ASSUME NEW g \in FieldMaps
    PROVE  SerializeFields(g) \in Seq(Byte)
<1> DEFINE W(w, f) == WriteIfSet(w, f, g)
           w1 == W(NewWriter, Path)
           w2 == W(w1, Interface)
           w3 == W(w2, Member)
           w4 == W(w3, ErrorName)
           w5 == W(w4, Destination)
           w6 == W(w5, Sender)
           w7 == W(w6, ReplySerial)
           w8 == W(w7, UnixFDs)
           w9 == W(w8, Signature)
<1>1. SerializeFields(g) = w9.data
  BY DEF SerializeFields
<1>2. \A w \in Writer, f \in Fields : W(w, f) \in Writer
  BY WriteIfSetIsWriter
<1>3. /\ Path \in Fields /\ Interface \in Fields /\ Member \in Fields /\ ErrorName \in Fields
      /\ Destination \in Fields /\ Sender \in Fields /\ ReplySerial \in Fields
      /\ UnixFDs \in Fields /\ Signature \in Fields
  BY DEF Fields, StringFields, NumberFields
<1>4. NewWriter \in Writer
  <2>1. Little \in Byte
    BY DEF Little, Byte
  <2> QED  BY <2>1, NewWriterIsWriter
<1> HIDE DEF W
<1>5. w1 \in Writer
  BY <1>2, <1>3, <1>4
<1> HIDE DEF w1
<1>6. w2 \in Writer
  BY <1>2, <1>3, <1>5
<1> HIDE DEF w2
<1>7. w3 \in Writer
  BY <1>2, <1>3, <1>6
<1> HIDE DEF w3
<1>8. w4 \in Writer
  BY <1>2, <1>3, <1>7
<1> HIDE DEF w4
<1>9. w5 \in Writer
  BY <1>2, <1>3, <1>8
<1> HIDE DEF w5
<1>10. w6 \in Writer
  BY <1>2, <1>3, <1>9
<1> HIDE DEF w6
<1>11. w7 \in Writer
  BY <1>2, <1>3, <1>10
<1> HIDE DEF w7
<1>12. w8 \in Writer
  BY <1>2, <1>3, <1>11
<1> HIDE DEF w8
<1>13. w9 \in Writer
  BY <1>2, <1>3, <1>12
<1> HIDE DEF w9
<1> QED  BY <1>1, <1>13 DEF Writer

----------------------------------------------------------------------------
(* The message *)

Headers ==
    [endian : Byte, type : Byte, flags : Byte, version : Byte,
     bodyLen : Word, serial : Word, fieldsLen : Word, valid : BOOLEAN]

Messages ==
    [fixed : Headers, fields : FieldMaps, fieldsValid : BOOLEAN,
     reader : Reader, valid : BOOLEAN]

LEMMA WriteWordAligned ==
    ASSUME NEW w \in Writer, Len(w.data) % 4 = 0, NEW b \in Word
    PROVE  WriteUInt(w, b) \in Writer /\ Len(WriteUInt(w, b).data) = Len(w.data) + 4
<1> DEFINE n == Len(w.data)
<1>1. n \in Nat /\ b \in Seq(Byte) /\ Len(b) = 4
  BY WordIsBytes DEF Writer
<1>2. AlignedTo(n, 4) - n = 0
  <2> HIDE DEF n
  <2> SUFFICES n % 4 = 0 => AlignedTo(n, 4) - n = 0
    BY DEF n
  <2> QED  BY <1>1 DEF AlignedTo
<1>3. Zeros(0) \in Seq(Byte) /\ Len(Zeros(0)) = 0
  BY ZerosAreBytes
<1> DEFINE p == PadTo(w, 4)
<1>4. p = Put(w, Zeros(0))
  BY <1>2 DEF PadTo
<1>5. p \in Writer /\ p.endian = w.endian /\ Len(p.data) = n
  <2>1. p \in Writer /\ p.endian = w.endian /\ p.data = w.data \o Zeros(0)
    BY <1>3, <1>4, PutIsWriter
  <2>2. w.data \in Seq(Byte)
    BY DEF Writer
  <2>3. Len(w.data \o Zeros(0)) = Len(w.data) + Len(Zeros(0))
    BY <1>3, <2>2, ConcatProperties
  <2> HIDE DEF p
  <2> QED  BY <1>1, <1>3, <2>1, <2>3
<1> DEFINE o == InOrder(w.endian, b)
<1>6. o \in Seq(Byte) /\ Len(o) = 4
  BY <1>1, ReverseIsBytes
<1>7. WriteUInt(w, b) = Put(p, o)
  BY <1>1 DEF WriteUInt
<1> HIDE DEF p, o
<1>8. Put(p, o) \in Writer /\ Put(p, o).data = p.data \o o /\ p.data \in Seq(Byte)
  <2>1. p.data \in Seq(Byte)
    BY <1>5 DEF Writer
  <2> QED  BY <1>5, <1>6, <2>1, PutIsWriter
<1>9. Len(p.data \o o) = Len(p.data) + Len(o)
  BY <1>6, <1>8, ConcatProperties
<1> QED  BY <1>5, <1>6, <1>7, <1>8, <1>9

LEMMA SerializeFixedIsBytes ==
    ASSUME NEW h \in Headers
    PROVE  SerializeFixed(h) \in Seq(Byte) /\ Len(SerializeFixed(h)) = HeaderSize
<1> DEFINE w0 == [NewWriter EXCEPT !.endian = h.endian]
           b == <<h.endian, h.type, h.flags, h.version>>
           w1 == Put(w0, b)
           w2 == WriteUInt(w1, h.bodyLen)
           w3 == WriteUInt(w2, h.serial)
           w4 == WriteUInt(w3, h.fieldsLen)
<1>1. /\ h.endian \in Byte /\ h.type \in Byte /\ h.flags \in Byte /\ h.version \in Byte
      /\ h.bodyLen \in Word /\ h.serial \in Word /\ h.fieldsLen \in Word
  BY DEF Headers
<1>2. w0 \in Writer /\ w0.data = <<>> /\ b \in Seq(Byte) /\ Len(b) = 4
  BY <1>1, NewWriterIsWriter
<1>3. SerializeFixed(h) = w4.data
  BY DEF SerializeFixed
<1> HIDE DEF w0, b
<1>4. w1 \in Writer /\ Len(w1.data) = 4
  <2>1. w1 \in Writer /\ w1.data = <<>> \o b
    BY <1>2, PutIsWriter
  <2>2. <<>> \o b = b
    BY <1>2, ConcatEmptySeq
  <2> HIDE DEF w1
  <2> QED  BY <1>2, <2>1, <2>2
<1> HIDE DEF w1
<1>5. w2 \in Writer /\ Len(w2.data) = 8
  <2>1. Len(w1.data) % 4 = 0
    BY <1>4
  <2>2. h.bodyLen \in Word /\ w1 \in Writer
    BY <1>1, <1>4
  <2>3. w2 \in Writer /\ Len(w2.data) = Len(w1.data) + 4
    BY <2>1, <2>2, WriteWordAligned
  <2> HIDE DEF w2
  <2> QED  BY <1>4, <2>3
<1> HIDE DEF w2
<1>6. w3 \in Writer /\ Len(w3.data) = 12
  <2>1. Len(w2.data) % 4 = 0
    BY <1>5
  <2>2. h.serial \in Word /\ w2 \in Writer
    BY <1>1, <1>5
  <2>3. w3 \in Writer /\ Len(w3.data) = Len(w2.data) + 4
    BY <2>1, <2>2, WriteWordAligned
  <2> HIDE DEF w3
  <2> QED  BY <1>5, <2>3
<1> HIDE DEF w3
<1>7. w4 \in Writer /\ Len(w4.data) = 16
  <2>1. Len(w3.data) % 4 = 0
    BY <1>6
  <2>2. h.fieldsLen \in Word /\ w3 \in Writer
    BY <1>1, <1>6
  <2>3. w4 \in Writer /\ Len(w4.data) = Len(w3.data) + 4
    BY <2>1, <2>2, WriteWordAligned
  <2> HIDE DEF w4
  <2> QED  BY <1>6, <2>3
<1> HIDE DEF w4
<1> QED  BY <1>3, <1>7 DEF Writer, HeaderSize

LEMMA WithLengthsStays ==
    ASSUME NEW m \in Messages
    PROVE  WithLengths(m) \in Messages
<1>1. m.fixed \in Headers /\ m.fields \in FieldMaps
  BY DEF Messages
<1>2. UInt32(Len(WrittenBody)) \in Word
  BY UInt32IsWord DEF WrittenBody
<1>3. UInt32(Len(SerializeFields(m.fields))) \in Word
  BY <1>1, FieldsAreBytes, UInt32IsWord
<1> DEFINE b == UInt32(Len(WrittenBody))
           f == UInt32(Len(SerializeFields(m.fields)))
           h == [m.fixed EXCEPT !.bodyLen = b, !.fieldsLen = f]
<1> HIDE DEF b, f
<1>4. h \in Headers
  BY <1>1, <1>2, <1>3 DEF Headers, b, f
<1>5. WithLengths(m) = [m EXCEPT !.fixed = h]
  BY DEF WithLengths, b, f, Messages
<1> HIDE DEF h
<1> QED  BY <1>4, <1>5 DEF Messages

LEMMA PaddedHeader ==
    ASSUME NEW n \in Nat
    PROVE  /\ HeaderPadding(n) \in Nat
           /\ AlignedTo(HeaderSize + n, 8) = HeaderSize + n + HeaderPadding(n)
           /\ AlignedTo(HeaderSize + n, 8) = HeaderSize + AlignedTo(n, 8)
<1>1. (16 + n) % 8 = n % 8 /\ n % 8 \in 0 .. 7
  OBVIOUS
<1> DEFINE a == n % 8
           b == (16 + n) % 8
<1> HIDE DEF a, b
<1>2. a = b /\ a \in 0 .. 7
  BY <1>1 DEF a, b
<1>3. (8 - a) % 8 \in Nat
  BY <1>2
<1>4. HeaderPadding(n) = (8 - a) % 8
  BY DEF HeaderPadding, a
<1>5. AlignedTo(HeaderSize + n, 8) = 16 + n + ((8 - b) % 8)
  BY DEF AlignedTo, HeaderSize, b
<1>6. AlignedTo(n, 8) = n + ((8 - a) % 8)
  BY DEF AlignedTo, a
<1> QED  BY <1>2, <1>3, <1>4, <1>5, <1>6 DEF HeaderSize

\* What is serialized is as long as its header says.
LEMMA SerializeIsBytes ==
    ASSUME NEW m \in Messages
    PROVE  /\ Serialize(m) \in Seq(Byte)
           /\ Len(SerializeFields(m.fields)) < LengthLimit =>
                Len(Serialize(m)) = TotalSize(WithLengths(m).fixed)
<1> DEFINE fixed == SerializeFixed(WithLengths(m).fixed)
           fields == SerializeFields(m.fields)
           n == Len(fields)
           padding == Zeros(HeaderPadding(n))
<1>1. fixed \in Seq(Byte) /\ Len(fixed) = HeaderSize
  <2>1. WithLengths(m).fixed \in Headers
    BY WithLengthsStays DEF Messages
  <2> QED  BY <2>1, SerializeFixedIsBytes
<1>2. fields \in Seq(Byte) /\ n \in Nat
  BY FieldsAreBytes DEF Messages
<1>3. /\ WithLengths(m).fixed.bodyLen = UInt32(Len(WrittenBody))
      /\ WithLengths(m).fixed.fieldsLen = UInt32(n)
  BY DEF WithLengths, Messages, Headers
<1>4. WrittenBody \in Seq(Byte) /\ Len(WrittenBody) = 0
  BY DEF WrittenBody
<1>5. Serialize(m) = ((fixed \o fields) \o padding) \o WrittenBody
  BY DEF Serialize
<1> HIDE DEF fixed, fields, n
<1>6. padding \in Seq(Byte) /\ Len(padding) = HeaderPadding(n)
  BY <1>2, PaddedHeader, ZerosAreBytes
<1> HIDE DEF padding
<1>7. fixed \o fields \in Seq(Byte) /\ Len(fixed \o fields) = Len(fixed) + n
  BY <1>1, <1>2, ConcatProperties DEF n
<1>8. /\ (fixed \o fields) \o padding \in Seq(Byte)
      /\ Len((fixed \o fields) \o padding) = Len(fixed) + n + Len(padding)
  BY <1>6, <1>7, ConcatProperties
<1>9. /\ ((fixed \o fields) \o padding) \o WrittenBody \in Seq(Byte)
      /\ Len(((fixed \o fields) \o padding) \o WrittenBody) = Len(fixed) + n + Len(padding) + 0
  BY <1>4, <1>8, ConcatProperties
<1>10. ASSUME n < LengthLimit
       PROVE  Len(Serialize(m)) = TotalSize(WithLengths(m).fixed)
  <2> DEFINE h == WithLengths(m).fixed
  <2>1. Number(h.fieldsLen) = n /\ Number(h.bodyLen) = 0
    <3>1. Number(UInt32(n)) = n
      BY <1>2, <1>10, UInt32IsWord
    <3>2. Number(UInt32(0)) = 0
      BY SMT, UInt32IsWord DEF LengthLimit
    <3> QED  BY <1>3, <1>4, <3>1, <3>2
  <2> HIDE DEF h
  <2>2. TotalSize(h) = AlignedTo(HeaderSize + n, 8) + 0
    BY <2>1 DEF TotalSize, HeaderTotal
  <2>3. AlignedTo(HeaderSize + n, 8) = HeaderSize + n + HeaderPadding(n) /\ HeaderPadding(n) \in Nat
    BY <1>2, PaddedHeader
  <2>4. Len(Serialize(m)) = HeaderSize + n + HeaderPadding(n) + 0
    BY <1>1, <1>5, <1>6, <1>9
  <2>5. TotalSize(h) = Len(Serialize(m))
    BY <1>2, <2>2, <2>3, <2>4 DEF HeaderSize
  <2> QED  BY <2>5 DEF h
<1> QED  BY <1>5, <1>9, <1>10 DEF n, fields

----------------------------------------------------------------------------
(* The fixed header, and what a peer writes *)

LEMMA WordAt ==
    ASSUME NEW s \in Seq(Byte), NEW k \in Nat, k + 4 <= Len(s), NEW w \in Word,
           \A i \in 1 .. 4 : s[k + i] = w[i]
    PROVE  SubSeq(s, k + 1, k + 4) = w
<1> DEFINE b == SubSeq(s, k + 1, k + 4)
<1>1. b \in Seq(Byte) /\ Len(b) = 4 /\ \A i \in 1 .. 4 : b[i] = s[k + i]
  OBVIOUS
<1>2. w \in Seq(Byte) /\ Len(w) = 4
  BY WordIsBytes
<1> HIDE DEF b
<1>3. \A i \in 1 .. 4 : b[i] = w[i]
  BY <1>1
<1>4. b = w
  BY <1>1, <1>2, <1>3, SeqEqual
<1> QED  BY <1>4 DEF b

\* A number of the fixed header, at an offset that is a multiple of 4.
LEMMA HeaderWord ==
    ASSUME NEW d \in Seq(Byte), Len(d) = HeaderSize, NEW k \in {4, 8, 12}
    PROVE  LET v == ReadUInt(Advance(NewReader(d), k), 4).val
           IN  v = SubSeq(d, k + 1, k + 4) /\ v \in Word
<1> DEFINE r == NewReader(d)
           q == Advance(r, k)
           al == Align(q, 4)
           b == SubSeq(d, k + 1, k + 4)
<1>1. r \in Reader /\ r.data = d /\ r.pos = 0 /\ r.endian = Little
  BY NewReaderIsReader
<1> HIDE DEF r
<1>2. k \in Nat /\ k + 4 <= Len(d) /\ k <= Len(d) /\ AlignedTo(k, 4) = k
  BY DEF HeaderSize, AlignedTo
<1>3. q \in Reader /\ q.data = d /\ q.pos = k /\ q.endian = Little
  <2>1. Check(r, k)
    BY <1>1, <1>2 DEF Check
  <2>2. 0 + k = k
    BY <1>2
  <2> QED  BY <1>1, <1>2, <2>1, <2>2, AdvanceStays
<1> HIDE DEF q
<1>4. al = Got(k, [q EXCEPT !.pos = k])
  BY <1>2, <1>3 DEF Align, Seek
<1>5. [q EXCEPT !.pos = k] \in Reader /\ [q EXCEPT !.pos = k].data = d
      /\ [q EXCEPT !.pos = k].pos = k
  BY <1>2, <1>3, MovedReader
<1>6. al.ok /\ al.r.data = d /\ al.r.pos = k
  <2> DEFINE x == [q EXCEPT !.pos = k]
  <2>1. al = [ok |-> TRUE, val |-> k, r |-> x] /\ x.data = d /\ x.pos = k
    BY <1>4, <1>5 DEF Got
  <2> HIDE DEF x, al
  <2> QED  BY <2>1
<1> HIDE DEF al
<1>7. ReadUInt(q, 4) = Got(InOrder(Little, b), Advance(al.r, 4))
  <2>1. Check(al.r, 4) /\ Bytes(al.r, 4) = b
    BY <1>2, <1>6 DEF Check, Bytes
  <2> HIDE DEF b
  <2> QED  BY <1>3, <1>6, <2>1 DEF ReadUInt, Then, al
<1>8. InOrder(Little, b) = b
  BY DEF InOrder, Little, Big
<1>9. b \in Seq(Byte) /\ Len(b) = 4
  BY <1>2
<1>10. b \in Word
  BY <1>9, WordIsBytes
<1> HIDE DEF b
<1>11. ReadUInt(q, 4).val = b
  BY <1>7, <1>8 DEF Got
<1> QED  BY <1>10, <1>11 DEF b, q, r

LEMMA NewMessageIsMessage ==
    /\ NewFixedHeader \in Headers /\ NewMessage \in Messages
<1>1. Little \in Byte /\ MethodCall \in Byte /\ 0 \in Byte /\ 1 \in Byte
  BY DEF Little, MethodCall, Byte
<1>2. UInt32(0) \in Word
  BY SMT, UInt32IsWord
<1>3. NewFixedHeader \in Headers
  BY <1>1, <1>2 DEF NewFixedHeader, Headers
<1>4. NewReader(<<>>) \in Reader
  <2>1. <<>> \in Seq(Byte)
    OBVIOUS
  <2> QED  BY <2>1, NewReaderIsReader
<1> QED  BY <1>3, <1>4, NoFieldsAreAMap DEF NewMessage, Messages

\* FixedHeader(reader): a header is valid if its version is 1; then it has its
\* numbers where the wire format puts them, and leaves the reader behind its 16
\* bytes.
LEMMA FixedHeaderIsRead ==
    ASSUME NEW d \in Seq(Byte), Len(d) = HeaderSize
    PROVE  LET h == ReadFixedHeader(NewReader(d))
           IN  /\ h.val \in Headers
               /\ h.val.endian = d[1] /\ h.val.type = d[2] /\ h.val.flags = d[3]
               /\ h.val.version = d[4] /\ h.val.valid = (d[4] = 1)
               /\ h.val.valid =>
                    /\ h.r \in Reader /\ h.r.data = d /\ h.r.pos = HeaderSize
                    /\ h.r.endian = Little
                    /\ h.val.bodyLen = SubSeq(d, 5, 8) /\ h.val.serial = SubSeq(d, 9, 12)
                    /\ h.val.fieldsLen = SubSeq(d, 13, 16)
<1> DEFINE r == NewReader(d)
           start == [NewFixedHeader EXCEPT
                        !.endian = r.data[1], !.type = r.data[2],
                        !.flags = r.data[3], !.version = r.data[4]]
           U(k) == ReadUInt(Advance(r, k), 4).val
           whole == [start EXCEPT !.bodyLen = U(4), !.serial = U(8),
                                  !.fieldsLen = U(12), !.valid = TRUE]
           h == ReadFixedHeader(r)
<1>1. r \in Reader /\ r.data = d /\ r.pos = 0 /\ r.endian = Little
  BY NewReaderIsReader
<1>2. h = IF start.version # 1 THEN Got(start, Advance(r, 4)) ELSE Got(whole, Advance(r, HeaderSize))
  BY DEF ReadFixedHeader
<1>3. /\ U(4) = SubSeq(d, 5, 8) /\ U(4) \in Word /\ U(8) = SubSeq(d, 9, 12) /\ U(8) \in Word
      /\ U(12) = SubSeq(d, 13, 16) /\ U(12) \in Word
  <2>1. U(4) = SubSeq(d, 4 + 1, 4 + 4) /\ U(4) \in Word
    BY HeaderWord
  <2>2. U(8) = SubSeq(d, 8 + 1, 8 + 4) /\ U(8) \in Word
    BY HeaderWord
  <2>3. U(12) = SubSeq(d, 12 + 1, 12 + 4) /\ U(12) \in Word
    BY HeaderWord
  <2> HIDE DEF U
  <2> QED  BY <2>1, <2>2, <2>3
<1> HIDE DEF U, r, h
<1>4. d[1] \in Byte /\ d[2] \in Byte /\ d[3] \in Byte /\ d[4] \in Byte
  <2>1. 1 \in 1 .. Len(d) /\ 2 \in 1 .. Len(d) /\ 3 \in 1 .. Len(d) /\ 4 \in 1 .. Len(d)
    BY DEF HeaderSize
  <2> QED  BY <2>1, ElementOfSeq
<1>5. /\ start \in Headers /\ start.valid = FALSE
      /\ start.endian = d[1] /\ start.type = d[2] /\ start.flags = d[3] /\ start.version = d[4]
  <2>1. NewFixedHeader \in Headers /\ NewFixedHeader.valid = FALSE
    BY NewMessageIsMessage DEF NewFixedHeader
  <2> QED  BY <1>1, <1>4, <2>1 DEF Headers
<1> HIDE DEF start
<1>6. /\ whole \in Headers /\ whole.bodyLen = U(4) /\ whole.serial = U(8)
      /\ whole.fieldsLen = U(12) /\ whole.valid = TRUE
      /\ whole.endian = d[1] /\ whole.type = d[2] /\ whole.flags = d[3] /\ whole.version = d[4]
  BY <1>3, <1>5 DEF Headers
<1> HIDE DEF whole
<1>7. Advance(r, HeaderSize) \in Reader /\ Advance(r, HeaderSize).data = d
      /\ Advance(r, HeaderSize).pos = HeaderSize /\ Advance(r, HeaderSize).endian = Little
  <2>1. HeaderSize \in Nat /\ 0 + HeaderSize = HeaderSize
    BY DEF HeaderSize
  <2>2. Check(r, HeaderSize)
    BY <1>1, <2>1 DEF Check
  <2> QED  BY <1>1, <2>1, <2>2, AdvanceStays
<1>8. CASE start.version # 1
  <2>1. h.val = start
    BY <1>2, <1>8 DEF Got
  <2> QED  BY <1>5, <1>8, <2>1 DEF h, r
<1>9. CASE ~(start.version # 1)
  <2>1. h.val = whole /\ h.r = Advance(r, HeaderSize)
    BY <1>2, <1>9 DEF Got
  <2> QED  BY <1>3, <1>5, <1>6, <1>7, <1>9, <2>1 DEF h, r
<1> QED  BY <1>8, <1>9

\* u is s followed by t, of lengths j and k.
IsJoin(u, s, t, j, k) ==
    /\ u \in Seq(Byte) /\ Len(u) = j + k
    /\ \A i \in 1 .. j : u[i] = s[i]
    /\ \A i \in 1 .. k : u[j + i] = t[i]

LEMMA Joined ==
    ASSUME NEW s \in Seq(Byte), NEW t \in Seq(Byte), NEW j \in Nat, NEW k \in Nat,
           Len(s) = j, Len(t) = k
    PROVE  IsJoin(s \o t, s, t, j, k)
<1> DEFINE u == s \o t
<1>1. /\ u \in Seq(Byte) /\ Len(u) = j + k
      /\ \A i \in 1 .. j + k : u[i] = IF i <= j THEN s[i] ELSE t[i - j]
  BY ConcatProperties
<1> HIDE DEF u
<1>2. ASSUME NEW i \in 1 .. j
      PROVE  u[i] = s[i]
  <2>1. i \in 1 .. j + k /\ i <= j
    OBVIOUS
  <2> QED  BY <1>1, <2>1
<1>3. ASSUME NEW i \in 1 .. k
      PROVE  u[j + i] = t[i]
  <2>1. j + i \in 1 .. j + k /\ ~(j + i <= j) /\ (j + i) - j = i
    OBVIOUS
  <2> QED  BY <1>1, <2>1
<1> QED  BY <1>1, <1>2, <1>3 DEF IsJoin, u

\* The library's vocabulary and the peer's are the same.
LEMMA PeerVocabulary ==
    /\ \A n : Peer!Zeros(n) = Zeros(n)
    /\ \A n : Peer!UInt32(n) = UInt32(n)
    /\ \A n, a : Peer!AlignedTo(n, a) = AlignedTo(n, a)
    /\ \A e, b : Peer!InOrder(e, b) = InOrder(e, b)
<1>1. \A n : Peer!Zeros(n) = Zeros(n)
  BY DEF Peer!Zeros, Zeros
<1>2. \A n : Peer!UInt32(n) = UInt32(n)
  BY DEF Peer!UInt32, UInt32
<1>3. \A n, a : Peer!AlignedTo(n, a) = AlignedTo(n, a)
  BY DEF Peer!AlignedTo, AlignedTo
<1>4. \A e, b : Peer!InOrder(e, b) = InOrder(e, b)
  BY DEF Peer!InOrder, InOrder, Peer!Reverse, Reverse, Peer!Big, Big
<1> QED  BY <1>1, <1>2, <1>3, <1>4

----------------------------------------------------------------------------
(* What a writer writes a reader reads *)

\* The reader that has read what w has written of d.
At(w, d) == [data |-> d, pos |-> Len(w.data), endian |-> w.endian]

\* d begins with what w has written.
Begins(w, d) ==
    /\ w \in Writer /\ d \in Seq(Byte) /\ Len(w.data) <= Len(d)
    /\ \A i \in 1 .. Len(w.data) : d[i] = w.data[i]

LEMMA AtIsReader ==
    ASSUME NEW w, NEW d, Begins(w, d)
    PROVE  /\ At(w, d) \in Reader /\ At(w, d).data = d /\ At(w, d).pos = Len(w.data)
           /\ At(w, d).endian = w.endian
<1>1. w.data \in Seq(Byte) /\ w.endian \in Byte /\ d \in Seq(Byte) /\ Len(w.data) <= Len(d)
  BY DEF Begins, Writer
<1> DEFINE n == Len(w.data)
<1>2. n \in Nat /\ n <= Len(d)
  BY <1>1
<1> HIDE DEF n
<1>3. At(w, d) = [data |-> d, pos |-> n, endian |-> w.endian]
  BY DEF At, n
<1> QED  BY <1>1, <1>2, <1>3 DEF Reader, Readers, n

LEMMA PutComesBack ==
    ASSUME NEW w \in Writer, NEW b \in Seq(Byte), NEW d, Begins(Put(w, b), d)
    PROVE  /\ Begins(w, d) /\ Check(At(w, d), Len(b)) /\ Bytes(At(w, d), Len(b)) = b
           /\ Advance(At(w, d), Len(b)) = At(Put(w, b), d)
<1> DEFINE u == Put(w, b)
           j == Len(w.data)
           k == Len(b)
<1>1. w.data \in Seq(Byte) /\ j \in Nat /\ k \in Nat
  BY DEF Writer
<1>2. u \in Writer /\ u.endian = w.endian /\ u.data = w.data \o b
  BY PutIsWriter
<1>3. IsJoin(u.data, w.data, b, j, k)
  BY <1>1, <1>2, Joined
<1> HIDE DEF u
<1>4. /\ Len(u.data) = j + k
      /\ \A i \in 1 .. j : u.data[i] = w.data[i]
      /\ \A i \in 1 .. k : u.data[j + i] = b[i]
  BY <1>3 DEF IsJoin
<1>5. d \in Seq(Byte) /\ Len(d) \in Nat /\ j + k <= Len(d) /\ \A i \in 1 .. j + k : d[i] = u.data[i]
  BY <1>4 DEF Begins, u
<1>6. Begins(w, d)
  <2>1. j <= Len(d) /\ \A i \in 1 .. j : i \in 1 .. j + k
    BY <1>1, <1>5
  <2>2. \A i \in 1 .. j : d[i] = w.data[i]
    BY <1>4, <1>5, <2>1
  <2> QED  BY <1>5, <2>1, <2>2 DEF Begins
<1>7. At(w, d) = [data |-> d, pos |-> j, endian |-> w.endian]
  BY DEF At
<1>8. At(u, d) = [data |-> d, pos |-> j + k, endian |-> w.endian]
  BY <1>2, <1>4 DEF At
<1> HIDE DEF j, k
<1>9. Check(At(w, d), k)
  BY <1>5, <1>7 DEF Check
<1>10. Advance(At(w, d), k) = At(u, d)
  BY <1>7, <1>8 DEF Advance
<1>11. SubSeq(d, j + 1, j + k) = b
  <2> DEFINE m == j + 1
             e == j + k
             c == SubSeq(d, m, e)
  <2>1. m \in Int /\ e \in Int /\ e - m + 1 = k /\ \A i \in m .. e : i \in 1 .. Len(d)
    BY <1>1, <1>5
  <2>2. \A i \in m .. e : d[i] \in Byte
    BY <1>5, <2>1
  <2> HIDE DEF m, e
  <2>3. /\ c \in Seq(Byte) /\ Len(c) = IF m <= e THEN e - m + 1 ELSE 0
        /\ \A i \in 1 .. e - m + 1 : c[i] = d[m + i - 1]
    BY <2>1, <2>2, SubSeqProperties
  <2> HIDE DEF c
  <2>4. Len(c) = k
    BY <1>1, <2>1, <2>3 DEF m, e
  <2>5. \A i \in 1 .. k : c[i] = b[i]
    <3> TAKE i \in 1 .. k
    <3>1. c[i] = d[m + i - 1]
      BY <2>1, <2>3
    <3>2. m + i - 1 = j + i /\ j + i \in 1 .. j + k
      BY <1>1 DEF m
    <3>3. d[j + i] = u.data[j + i]
      BY <1>5, <3>2
    <3> QED  BY <1>4, <3>1, <3>2, <3>3
  <2>6. c = b
    BY <2>3, <2>4, <2>5, SeqEqual DEF k
  <2> QED  BY <2>6 DEF c, m, e
<1>12. Bytes(At(w, d), k) = b
  BY <1>7, <1>11 DEF Bytes
<1> QED  BY <1>6, <1>9, <1>10, <1>12 DEF u, k

LEMMA PaddingComesBack ==
    ASSUME NEW w \in Writer, NEW a \in Sizes, NEW d, Begins(PadTo(w, a), d)
    PROVE  /\ Begins(w, d)
           /\ Align(At(w, d), a) = Got(Len(PadTo(w, a).data), At(PadTo(w, a), d))
<1> DEFINE n == Len(w.data)
           p == AlignedTo(n, a)
           b == Zeros(p - n)
           u == PadTo(w, a)
<1>1. n \in Nat /\ p \in Nat /\ p >= n
  <2>1. n \in Nat
    BY DEF Writer
  <2> QED  BY <2>1, Alignment
<1>2. u = Put(w, b)
  BY DEF PadTo
<1> HIDE DEF p
<1>3. b \in Seq(Byte) /\ Len(b) = p - n
  <2>1. p - n \in Nat
    BY <1>1
  <2> QED  BY <2>1, ZerosAreBytes
<1> HIDE DEF n, b
<1>4. /\ Begins(w, d) /\ Check(At(w, d), Len(b))
      /\ Advance(At(w, d), Len(b)) = At(Put(w, b), d)
  BY <1>2, <1>3, PutComesBack
<1>5. /\ At(w, d) \in Reader /\ At(w, d).data = d /\ At(w, d).pos = n
  BY <1>4, AtIsReader DEF n
<1>6. At(u, d) = [At(w, d) EXCEPT !.pos = p]
  <2>1. Advance(At(w, d), Len(b)) = [At(w, d) EXCEPT !.pos = n + Len(b)]
    BY <1>5 DEF Advance, Reader, Readers
  <2>2. n + Len(b) = p
    BY <1>1, <1>3
  <2> QED  BY <1>2, <1>4, <2>1, <2>2
<1>7. Len(u.data) = p
  <2>1. At(u, d).pos = Len(u.data)
    BY DEF At
  <2>2. At(u, d).pos = p
    BY <1>5, <1>6 DEF Reader, Readers
  <2> QED  BY <2>1, <2>2
<1>8. ~(p > Len(d))
  <2>1. n + (p - n) <= Len(d) /\ Len(d) \in Nat
    BY <1>3, <1>4, <1>5, ReaderParts DEF Check
  <2> QED  BY <1>1, <2>1
<1>9. Seek(At(w, d), p) = Got(p, At(u, d))
  BY <1>5, <1>6, <1>8 DEF Seek
<1>10. Align(At(w, d), a) = Seek(At(w, d), p)
  BY <1>5 DEF Align, p
<1> QED  BY <1>4, <1>7, <1>9, <1>10 DEF u

LEMMA UInt8ComesBack ==
    ASSUME NEW w \in Writer, NEW v \in Byte, NEW d, Begins(WriteUInt8(w, v), d)
    PROVE  Begins(w, d) /\ ReadUInt8(At(w, d)) = Got(v, At(WriteUInt8(w, v), d))
<1> DEFINE b == <<v>>
<1>1. b \in Seq(Byte) /\ Len(b) = 1 /\ b[1] = v
  OBVIOUS
<1>2. WriteUInt8(w, v) = Put(w, b)
  BY DEF WriteUInt8
<1> HIDE DEF b
<1>3. /\ Begins(w, d) /\ Check(At(w, d), 1) /\ Bytes(At(w, d), 1) = b
      /\ Advance(At(w, d), 1) = At(Put(w, b), d)
  <2>1. /\ Begins(w, d) /\ Check(At(w, d), Len(b)) /\ Bytes(At(w, d), Len(b)) = b
        /\ Advance(At(w, d), Len(b)) = At(Put(w, b), d)
    BY <1>1, <1>2, PutComesBack
  <2> QED  BY <1>1, <2>1
<1> QED  BY <1>1, <1>2, <1>3 DEF ReadUInt8

LEMMA SwappedBack ==
    ASSUME NEW b \in Seq(Byte), NEW e
    PROVE  InOrder(e, InOrder(e, b)) = b
<1> DEFINE n == Len(b)
           c == Reverse(b)
<1>1. n \in Nat /\ \A i \in 1 .. n : b[i] \in Byte
  OBVIOUS
<1>2. c = [i \in 1 .. n |-> b[n - i + 1]]
  BY DEF Reverse
<1>3. c \in Seq(Byte) /\ Len(c) = n
  <2>1. InOrder(Big, b) = c
    BY DEF InOrder
  <2> QED  BY <2>1, ReverseIsBytes
<1>4. Reverse(c) = [i \in 1 .. n |-> c[n - i + 1]]
  BY <1>3 DEF Reverse
<1>5. Reverse(c) \in Seq(Byte) /\ Len(Reverse(c)) = n
  <2> HIDE DEF c, n
  <2>1. InOrder(Big, c) = Reverse(c)
    BY DEF InOrder
  <2> QED  BY <1>3, <2>1, ReverseIsBytes
<1> HIDE DEF c, n
<1>6. \A i \in 1 .. n : Reverse(c)[i] = b[i]
  <2> TAKE i \in 1 .. n
  <2>1. n - i + 1 \in 1 .. n /\ n - (n - i + 1) + 1 = i
    BY <1>1
  <2>2. Reverse(c)[i] = c[n - i + 1]
    BY <1>4
  <2>3. c[n - i + 1] = b[n - (n - i + 1) + 1]
    BY <1>2, <2>1
  <2> QED  BY <2>1, <2>2, <2>3
<1>7. Reverse(c) = b
  BY <1>5, <1>6, SeqEqual DEF n
<1> QED  BY <1>7 DEF InOrder, c

LEMMA UIntComesBack ==
    ASSUME NEW w \in Writer, NEW b \in Seq(Byte), NEW n \in Sizes, Len(b) = n,
           NEW d, Begins(WriteUInt(w, b), d)
    PROVE  Begins(w, d) /\ ReadUInt(At(w, d), n) = Got(b, At(WriteUInt(w, b), d))
<1> DEFINE p == PadTo(w, n)
           o == InOrder(w.endian, b)
           u == WriteUInt(w, b)
<1>1. p \in Writer /\ p.endian = w.endian
  BY PadToIsWriter
<1>2. o \in Seq(Byte) /\ Len(o) = n
  BY ReverseIsBytes
<1>3. u = Put(p, o)
  BY DEF WriteUInt
<1>4. InOrder(w.endian, o) = b
  BY SwappedBack
<1> HIDE DEF p, o
<1>5. /\ Begins(p, d) /\ Check(At(p, d), n) /\ Bytes(At(p, d), n) = o
      /\ Advance(At(p, d), n) = At(u, d)
  <2>1. /\ Begins(p, d) /\ Check(At(p, d), Len(o)) /\ Bytes(At(p, d), Len(o)) = o
        /\ Advance(At(p, d), Len(o)) = At(Put(p, o), d)
    BY <1>1, <1>2, <1>3, PutComesBack
  <2> QED  BY <1>2, <1>3, <2>1
<1> HIDE DEF u
<1>6. Begins(w, d) /\ Align(At(w, d), n) = Got(Len(p.data), At(p, d))
  BY <1>5, PaddingComesBack DEF p
<1> DEFINE al == Align(At(w, d), n)
<1>7. al.ok /\ al.r = At(p, d)
  BY <1>6 DEF Got
<1>8. At(w, d).endian = w.endian
  BY DEF At
<1>9. ReadUInt(At(w, d), n) =
        IF al.ok THEN IF Check(al.r, n)
                      THEN Got(InOrder(At(w, d).endian, Bytes(al.r, n)), Advance(al.r, n))
                      ELSE Nothing(al.r)
        ELSE al
  BY DEF ReadUInt, Then
<1> HIDE DEF al
<1>10. ReadUInt(At(w, d), n) = Got(b, At(u, d))
  BY <1>4, <1>5, <1>7, <1>8, <1>9
<1> QED  BY <1>6, <1>10 DEF u

\* n characters and a NUL.
LEMMA CharsComeBack ==
    ASSUME NEW w \in Writer, NEW s \in Seq(Byte), NEW d, Begins(Put(w, s \o << 0 >>), d)
    PROVE  /\ Begins(w, d)
           /\ ReadChars(At(w, d), Len(s)) = Got(s, At(Put(w, s \o <<0>>), d))
<1> DEFINE nul == <<0>>
           t == s \o nul
           n == Len(s)
           u == Put(w, s)
           x == Put(u, nul)
<1>1. nul \in Seq(Byte) /\ Len(nul) = 1 /\ nul[1] = 0
  BY DEF Byte
<1>2. n \in Nat /\ w.data \in Seq(Byte)
  BY DEF Writer
<1> HIDE DEF nul
<1>3. t \in Seq(Byte) /\ Len(t) = n + 1
  <2>1. nul \in Seq(Byte)
    BY <1>1
  <2>2. s \o nul \in Seq(Byte) /\ Len(s \o nul) = Len(s) + Len(nul)
    BY <2>1, ConcatProperties
  <2> QED  BY <1>1, <2>2
<1>4. u \in Writer /\ u.endian = w.endian /\ u.data = w.data \o s
  BY PutIsWriter
<1>5. Put(w, t) \in Writer /\ Put(w, t).endian = w.endian /\ Put(w, t).data = w.data \o t
  <2> HIDE DEF t
  <2> QED  BY <1>3, PutIsWriter
<1> HIDE DEF u
<1>6. x \in Writer /\ x.endian = u.endian /\ x.data = u.data \o nul
  BY <1>1, <1>4, PutIsWriter
<1> HIDE DEF x
<1>7. x.data = Put(w, t).data
  <2>1. (w.data \o s) \o nul = w.data \o (s \o nul)
    <3> DEFINE b == w.data
    <3>1. b \in Seq(Byte)
      BY <1>2
    <3> HIDE DEF b
    <3>2. nul \in Seq(Byte)
      BY <1>1
    <3>3. (b \o s) \o nul = b \o (s \o nul)
      BY <3>1, <3>2, ConcatAssociative
    <3> QED  BY <3>3 DEF b
  <2> QED  BY <1>4, <1>5, <1>6, <2>1
<1>8. Begins(x, d) /\ At(x, d) = At(Put(w, t), d)
  <2> HIDE DEF t
  <2>1. Begins(Put(w, t), d)
    BY DEF t, nul
  <2> QED  BY <1>4, <1>5, <1>6, <1>7, <2>1 DEF Begins, At
<1>9. /\ Begins(u, d) /\ Check(At(u, d), 1) /\ Bytes(At(u, d), 1) = nul
      /\ Advance(At(u, d), 1) = At(x, d)
  <2>1. /\ Begins(u, d) /\ Check(At(u, d), Len(nul)) /\ Bytes(At(u, d), Len(nul)) = nul
        /\ Advance(At(u, d), Len(nul)) = At(Put(u, nul), d)
    BY <1>1, <1>4, <1>8, PutComesBack DEF x
  <2> QED  BY <1>1, <2>1 DEF x
<1>10. Begins(w, d) /\ Bytes(At(w, d), n) = s /\ Advance(At(w, d), n) = At(u, d)
  BY <1>9, PutComesBack DEF u
<1>11. Check(At(w, d), n + 1)
  <2>1. At(u, d).pos + 1 <= Len(d)
    BY <1>9 DEF Check, At
  <2>2. At(u, d).pos = At(w, d).pos + n /\ At(w, d).pos \in Nat /\ At(w, d).data = d
    <3>1. At(w, d) \in Reader /\ At(w, d).data = d
      BY <1>10, AtIsReader
    <3> QED  BY <1>10, <3>1 DEF Advance, Reader, Readers
  <2> QED  BY <1>2, <2>1, <2>2 DEF Check
<1>12. ReadChars(At(w, d), n) =
         IF ~Check(At(w, d), n + 1) THEN Nothing(At(w, d))
         ELSE IF Bytes(Advance(At(w, d), n), 1)[1] # 0 THEN Nothing(Advance(At(w, d), n))
              ELSE Got(Bytes(At(w, d), n), Advance(Advance(At(w, d), n), 1))
  BY DEF ReadChars
<1> HIDE DEF n, t
<1>13. ReadChars(At(w, d), n) = Got(s, At(Put(w, t), d))
  BY <1>1, <1>8, <1>9, <1>10, <1>11, <1>12
<1> QED  BY <1>10, <1>13 DEF n, t, nul

LEMMA StringComesBack ==
    ASSUME NEW w \in Writer, NEW s \in Seq(Byte), Len(s) < LengthLimit,
           NEW d, Begins(WriteString(w, s), d)
    PROVE  Begins(w, d) /\ ReadString(At(w, d)) = Got(s, At(WriteString(w, s), d))
<1> DEFINE b == UInt32(Len(s))
           u == WriteUInt(w, b)
<1>1. b \in Seq(Byte) /\ Len(b) = 4 /\ Number(b) = Len(s) /\ b # MaxUInt32
  <2>1. Len(s) \in Nat
    OBVIOUS
  <2>2. b \in Word /\ Number(b) = Len(s) /\ b # MaxUInt32
    BY SMT, <2>1, UInt32IsWord
  <2> HIDE DEF b
  <2> QED  BY <2>2, WordIsBytes
<1>2. WriteString(w, s) = Put(u, s \o <<0>>)
  BY DEF WriteString
<1> HIDE DEF b
<1>3. u \in Writer
  BY <1>1, WriteUIntIsWriter DEF Sizes
<1> HIDE DEF u
<1>4. Begins(u, d) /\ ReadChars(At(u, d), Len(s)) = Got(s, At(Put(u, s \o <<0>>), d))
  BY <1>2, <1>3, CharsComeBack
<1>5. Begins(w, d) /\ ReadUInt(At(w, d), 4) = Got(b, At(u, d))
  BY <1>1, <1>4, UIntComesBack DEF u, Sizes
<1>6. ReadString(At(w, d)) = ReadChars(At(u, d), Number(b))
  BY <1>1, <1>5 DEF ReadString, Then, Got
<1> QED  BY <1>1, <1>2, <1>4, <1>5, <1>6

\* The length of a signature is a byte.
LEMMA SignatureComesBack ==
    ASSUME NEW w \in Writer, NEW s \in Seq(Byte), Len(s) < 256,
           NEW d, Begins(WriteSignature(w, s), d)
    PROVE  Begins(w, d) /\ ReadSignature(At(w, d)) = Got(s, At(WriteSignature(w, s), d))
<1> DEFINE n == Len(s)
           u == WriteUInt8(w, n)
<1>1. n \in Byte /\ n % 256 = n
  <2>1. n \in Nat
    OBVIOUS
  <2> HIDE DEF n
  <2>2. n < 256
    BY DEF n
  <2> QED  BY <2>1, <2>2 DEF Byte
<1>2. WriteSignature(w, s) = Put(u, s \o <<0>>)
  BY <1>1 DEF WriteSignature
<1> HIDE DEF n
<1>3. u \in Writer
  BY <1>1, WriteUInt8IsWriter
<1> HIDE DEF u
<1>4. Begins(u, d) /\ ReadChars(At(u, d), n) = Got(s, At(Put(u, s \o <<0>>), d))
  BY <1>2, <1>3, CharsComeBack DEF n
<1>5. Begins(w, d) /\ ReadUInt8(At(w, d)) = Got(n, At(u, d))
  BY <1>1, <1>4, UInt8ComesBack DEF u
<1>6. ReadSignature(At(w, d)) = ReadChars(At(u, d), n)
  BY <1>5 DEF ReadSignature, Then, Got
<1> QED  BY <1>2, <1>4, <1>5, <1>6

\* Sizes of which the wire format can tell the length; the greatest, 2^32 - 1, is
\* left out: readString adds one to it in 32 bits.
CanWrite(f, v) ==
    /\ v \in Seq(Byte) /\ Len(v) < LengthLimit
    /\ f \in NumberFields => Len(v) = 4
    /\ f = Signature => Len(v) < 256

\* A header field that is written at any place and in either byte order, with
\* anything behind it, is read as that field, and the reader is then where the
\* writer was: DynamicHeader's parser and its serialize agree.
THEOREM FieldComesBack ==
    ASSUME NEW w \in Writer, NEW f \in Fields, NEW v, CanWrite(f, v),
           NEW d, Begins(WriteField(w, f, v), d), NEW g
    PROVE  LET at == Align(At(w, d), 8)
           IN  /\ Begins(w, d) /\ at.ok
               /\ ParseField(g, at.r) = Got(WithField(g, f, v), At(WriteField(w, f, v), d))
<1> DEFINE p == PadTo(w, 8)
           q == WriteUInt8(p, f)
           W(char) == WriteSignature(q, <<char>>)
           u == WriteField(w, f, v)
           sig(char) == ReadFieldValue(g, f, <<char>>, At(W(char), d))
<1>1. v \in Seq(Byte) /\ Len(v) < LengthLimit /\ 8 \in Sizes /\ 4 \in Sizes
  BY DEF CanWrite, Sizes
<1>2. /\ CharO \in Byte /\ CharS \in Byte /\ CharU \in Byte /\ CharG \in Byte
      /\ CharO # CharG /\ CharS # CharG /\ CharU # CharS /\ CharU # CharO /\ CharU # CharG
  BY DEF CharO, CharS, CharU, CharG, Byte
<1>3. f \in Byte
  BY DEF Fields, StringFields, NumberFields, Path, Interface, Member, ErrorName,
         ReplySerial, Destination, Sender, Signature, UnixFDs, Byte
<1>4. p \in Writer /\ q \in Writer
  BY <1>1, <1>3, PadToIsWriter, WriteUInt8IsWriter
<1>5. \A char \in Byte : W(char) \in Writer
  <2> TAKE char \in Byte
  <2>1. <<char>> \in Seq(Byte)
    OBVIOUS
  <2> HIDE DEF q
  <2> QED  BY <1>4, <2>1, WriteSignatureIsWriter
<1> HIDE DEF p
\* The code of the field and its type are read, whatever the type is.
<1>6. ASSUME NEW char \in Byte, Begins(W(char), d)
      PROVE  /\ Begins(w, d) /\ Align(At(w, d), 8).ok
             /\ ParseField(g, Align(At(w, d), 8).r) = sig(char)
  <2> DEFINE c == <<char>>
             code == ReadUInt8(At(p, d))
             type == ReadSignature(At(q, d))
  <2>1. c \in Seq(Byte) /\ Len(c) < 256
    OBVIOUS
  <2> HIDE DEF q, c
  <2>2. Begins(q, d) /\ type = Got(c, At(WriteSignature(q, c), d))
    BY <1>4, <1>6, <2>1, SignatureComesBack DEF c
  <2>3. Begins(p, d) /\ code = Got(f, At(q, d))
    BY <1>3, <1>4, <2>2, UInt8ComesBack DEF q
  <2>4. Begins(w, d) /\ Align(At(w, d), 8) = Got(Len(p.data), At(p, d))
    BY <1>1, <2>3, PaddingComesBack DEF p
  <2>5. Align(At(w, d), 8).ok /\ Align(At(w, d), 8).r = At(p, d)
    BY <2>4 DEF Got
  <2>6. code.ok /\ code.val = f /\ code.r = At(q, d)
    BY <2>3 DEF Got
  <2>7. type.ok /\ type.val = c /\ type.r = At(WriteSignature(q, c), d)
    BY <2>2 DEF Got
  <2>8. ParseField(g, At(p, d)) =
          IF code.ok THEN IF ReadSignature(code.r).ok
                          THEN ReadFieldValue(g, code.val, ReadSignature(code.r).val,
                                              ReadSignature(code.r).r)
                          ELSE ReadSignature(code.r)
          ELSE code
    BY DEF ParseField, Then
  <2> HIDE DEF code
  <2>9. ReadSignature(code.r) = type
    BY <2>6
  <2> HIDE DEF type
  <2>10. ParseField(g, At(p, d)) = ReadFieldValue(g, f, c, At(WriteSignature(q, c), d))
    BY <2>6, <2>7, <2>8, <2>9
  <2> QED  BY <2>4, <2>5, <2>10 DEF c
<1>7. u = CASE f = Path                     -> WriteString(W(CharO), v)
            [] f \in StringFields \ {Path}  -> WriteString(W(CharS), v)
            [] f \in NumberFields           -> WriteUInt(W(CharU), v)
            [] f = Signature                -> WriteSignature(W(CharG), v)
  BY DEF WriteField, p
<1>8. Begins(u, d)
  OBVIOUS
<1> HIDE DEF W
<1> DEFINE path == WriteString(W(CharO), v)
           string == WriteString(W(CharS), v)
           number == WriteUInt(W(CharU), v)
           signature == WriteSignature(W(CharG), v)
<1> HIDE DEF path, string, number, signature, u
<1> DEFINE got == Got(WithField(g, f, v), At(u, d))
<1> HIDE DEF q
<1>9. /\ Path \notin NumberFields /\ Signature \notin NumberFields /\ Signature # Path
      /\ Path \in StringFields
      /\ Signature \notin StringFields /\ StringFields \cap NumberFields = {}
  BY DEF StringFields, NumberFields, Path, Interface, Member, ErrorName,
         ReplySerial, Destination, Sender, Signature, UnixFDs
<1>10. f = Path => u = WriteString(W(CharO), v)
  <2>1. f = Path => u = path
    BY <1>7, <1>9 DEF path, string, number, signature
  <2> QED  BY <2>1 DEF path
<1>11. f \in StringFields \ {Path} => u = WriteString(W(CharS), v)
  <2>1. f \in StringFields \ {Path} => u = string
    BY <1>7, <1>9 DEF path, string, number, signature
  <2> QED  BY <2>1 DEF string
<1>12. f \in NumberFields => u = WriteUInt(W(CharU), v)
  <2>1. f \in NumberFields => u = number
    BY <1>7, <1>9 DEF path, string, number, signature
  <2> QED  BY <2>1 DEF number
<1>13. f = Signature => u = WriteSignature(W(CharG), v)
  <2>1. f = Signature => u = signature
    BY <1>7, <1>9 DEF path, string, number, signature
  <2> QED  BY <2>1 DEF signature
<1> USE DEF W
\* The value is stored.
<1>14. ASSUME NEW known, f \in known
       PROVE  Store(g, f, known, Got(v, At(u, d))) = got
  BY <1>14 DEF Store, Then, Got
<1>15. ASSUME NEW char \in {CharO, CharS}, f \in StringFields, u = WriteString(W(char), v)
       PROVE  Begins(W(char), d) /\ sig(char) = got
  <2> DEFINE x == W(char)
  <2>1. x \in Writer
    BY <1>2, <1>5
  <2> HIDE DEF x
  <2>2. Begins(x, d) /\ ReadString(At(x, d)) = Got(v, At(u, d))
    BY <1>1, <1>8, <1>15, <2>1, StringComesBack DEF x
  <2>3. ReadFieldValue(g, f, <<char>>, At(x, d)) = Store(g, f, StringFields, ReadString(At(x, d)))
    <3>1. <<char>> \in {<<CharS>>, <<CharO>>} /\ <<char>> # <<CharG>> /\ <<char>> # <<CharU>>
      BY <1>2
    <3> QED  BY <3>1 DEF ReadFieldValue
  <2>4. Store(g, f, StringFields, Got(v, At(u, d))) = got
    BY <1>14, <1>15
  <2> QED  BY <2>2, <2>3, <2>4 DEF x
<1>16. ASSUME f \in NumberFields, u = WriteUInt(W(CharU), v)
       PROVE  Begins(W(CharU), d) /\ sig(CharU) = got
  <2> DEFINE x == W(CharU)
  <2>1. x \in Writer /\ Len(v) = 4
    BY <1>2, <1>5, <1>16 DEF CanWrite
  <2> HIDE DEF x
  <2>2. Begins(x, d) /\ ReadUInt(At(x, d), 4) = Got(v, At(u, d))
    <3> DEFINE y == WriteUInt(x, v)
    <3>1. Begins(y, d) /\ u = y
      BY <1>8, <1>16 DEF x
    <3>2. v \in Seq(Byte) /\ 4 \in Sizes
      BY <1>1
    <3>3. Begins(x, d) /\ ReadUInt(At(x, d), 4) = Got(v, At(y, d))
      BY <2>1, <3>1, <3>2, UIntComesBack
    <3> QED  BY <3>1, <3>3
  <2>3. ReadFieldValue(g, f, <<CharU>>, At(x, d)) = Store(g, f, NumberFields, ReadUInt(At(x, d), 4))
    <3>1. <<CharU>> \notin {<<CharS>>, <<CharO>>} /\ <<CharU>> # <<CharG>>
      BY <1>2
    <3> QED  BY <3>1 DEF ReadFieldValue
  <2>4. Store(g, f, NumberFields, Got(v, At(u, d))) = got
    BY <1>14, <1>16
  <2> QED  BY <2>2, <2>3, <2>4 DEF x
<1>17. ASSUME f = Signature, u = WriteSignature(W(CharG), v)
       PROVE  Begins(W(CharG), d) /\ sig(CharG) = got
  <2> DEFINE x == W(CharG)
  <2>1. x \in Writer /\ Len(v) < 256
    BY <1>2, <1>5, <1>17 DEF CanWrite
  <2> HIDE DEF x
  <2>2. Begins(x, d) /\ ReadSignature(At(x, d)) = Got(v, At(u, d))
    BY <1>1, <1>8, <1>17, <2>1, SignatureComesBack DEF x
  <2>3. ReadFieldValue(g, f, <<CharG>>, At(x, d)) = Store(g, f, {Signature}, ReadSignature(At(x, d)))
    <3>1. <<CharG>> \notin {<<CharS>>, <<CharO>>} /\ <<CharG>> # <<CharU>>
      BY <1>2
    <3> QED  BY <3>1 DEF ReadFieldValue
  <2>4. Store(g, f, {Signature}, Got(v, At(u, d))) = got
    BY <1>14, <1>17
  <2> QED  BY <2>2, <2>3, <2>4 DEF x
<1> HIDE DEF W, sig, got
<1>18. \E char \in Byte : Begins(W(char), d) /\ sig(char) = got
  <2>1. CASE f = Path
    BY <1>2, <1>10, <1>9, <1>15, <2>1
  <2>2. CASE f \in StringFields \ {Path}
    BY <1>2, <1>11, <1>9, <1>15, <2>2
  <2>3. CASE f \in NumberFields
    BY <1>2, <1>12, <1>9, <1>16, <2>3
  <2>4. CASE f = Signature
    BY <1>2, <1>13, <1>9, <1>17, <2>4
  <2> QED  BY <2>1, <2>2, <2>3, <2>4 DEF Fields
<1> QED  BY <1>6, <1>18 DEF got, u

LEMMA PadToPads ==
    ASSUME NEW w \in Writer, NEW a \in Sizes
    PROVE  /\ PadTo(w, a) \in Writer /\ PadTo(w, a).endian = w.endian
           /\ PadTo(w, a).data = Peer!Aligned(w.data, a)
<1> DEFINE n == AlignedTo(Len(w.data), a) - Len(w.data)
<1>1. n \in Nat
  <2>1. Len(w.data) \in Nat
    BY DEF Writer
  <2> QED  BY <2>1, Alignment
<1>2. Peer!Aligned(w.data, a) = w.data \o Zeros(n)
  BY PeerVocabulary DEF Peer!Aligned
<1>3. PadTo(w, a) = Put(w, Zeros(n))
  BY DEF PadTo
<1> HIDE DEF n
<1>4. Zeros(n) \in Seq(Byte)
  BY <1>1, ZerosAreBytes
<1> QED  BY <1>2, <1>3, <1>4, PutIsWriter

\* A number of the fixed header, at the place k of the bytes d.
LEMMA HeaderWordComesBack ==
    ASSUME NEW w \in Writer, w.endian = Little, NEW k \in {4, 8, 12}, Len(w.data) = k,
           NEW b \in Word, NEW d, Begins(WriteUInt(w, b), d)
    PROVE  Begins(w, d) /\ ReadUInt(Advance(NewReader(d), k), 4).val = b
<1>1. b \in Seq(Byte) /\ Len(b) = 4 /\ 4 \in Sizes
  BY WordIsBytes DEF Sizes
<1>2. Begins(w, d) /\ ReadUInt(At(w, d), 4) = Got(b, At(WriteUInt(w, b), d))
  BY <1>1, UIntComesBack
<1>3. At(w, d) = Advance(NewReader(d), k)
  BY DEF At, Advance, NewReader
<1> QED  BY <1>2, <1>3 DEF Got

LEMMA WriteWordKeepsOrder ==
    ASSUME NEW w \in Writer, NEW b \in Word
    PROVE  WriteUInt(w, b).endian = w.endian
<1> DEFINE p == PadTo(w, 4)
           o == InOrder(w.endian, b)
<1>1. b \in Seq(Byte) /\ Len(b) = 4 /\ 4 \in Sizes
  BY WordIsBytes DEF Sizes
<1>2. p \in Writer /\ p.endian = w.endian
  BY <1>1, PadToPads
<1>3. o \in Seq(Byte)
  BY <1>1, ReverseIsBytes
<1>4. WriteUInt(w, b) = Put(p, o)
  BY <1>1 DEF WriteUInt
<1> HIDE DEF p, o
<1> QED  BY <1>2, <1>3, <1>4, PutIsWriter

\* A fixed header of version 1, as the library writes it, is read as the same
\* header: FixedHeader's constructor and FixedHeader::serialize agree.
THEOREM HeaderComesBack ==
    ASSUME NEW h \in Headers, h.endian = Little, h.version = 1
    PROVE  LET r == NewReader(SerializeFixed(h))
           IN  ReadFixedHeader(r) = Got([h EXCEPT !.valid = TRUE], Advance(r, HeaderSize))
<1> DEFINE w0 == [NewWriter EXCEPT !.endian = h.endian]
           b == <<h.endian, h.type, h.flags, h.version>>
           w1 == Put(w0, b)
           w2 == WriteUInt(w1, h.bodyLen)
           w3 == WriteUInt(w2, h.serial)
           w4 == WriteUInt(w3, h.fieldsLen)
           d == SerializeFixed(h)
           U(k) == ReadUInt(Advance(NewReader(d), k), 4).val
<1>1. /\ h.endian \in Byte /\ h.type \in Byte /\ h.flags \in Byte /\ h.version \in Byte
      /\ h.bodyLen \in Word /\ h.serial \in Word /\ h.fieldsLen \in Word
  BY DEF Headers
<1>2. w0 \in Writer /\ w0.data = <<>> /\ w0.endian = Little /\ b \in Seq(Byte) /\ Len(b) = 4
  BY <1>1, NewWriterIsWriter DEF NewWriter
<1>3. b[1] = h.endian /\ b[2] = h.type /\ b[3] = h.flags /\ b[4] = h.version
  OBVIOUS
<1>4. d = w4.data
  BY DEF SerializeFixed
<1> HIDE DEF w0, b
<1>5. /\ w1 \in Writer /\ w1.endian = Little /\ Len(w1.data) = 4
      /\ w1.data[1] = h.endian /\ w1.data[2] = h.type
      /\ w1.data[3] = h.flags /\ w1.data[4] = h.version
  <2>1. w1 \in Writer /\ w1.endian = w0.endian /\ w1.data = <<>> \o b
    BY <1>2, PutIsWriter
  <2>2. <<>> \o b = b
    BY <1>2, ConcatEmptySeq
  <2> HIDE DEF w1
  <2>3. w1.data = b
    BY <2>1, <2>2
  <2> QED  BY <1>2, <1>3, <2>1, <2>3
<1> HIDE DEF w1
<1>6. w2 \in Writer /\ w2.endian = Little /\ Len(w2.data) = 8
  <2>1. Len(w1.data) % 4 = 0 /\ h.bodyLen \in Word
    BY <1>1, <1>5
  <2>2. w2 \in Writer /\ Len(w2.data) = Len(w1.data) + 4
    BY <1>5, <2>1, WriteWordAligned
  <2>3. w2.endian = w1.endian
    BY <1>5, <2>1, WriteWordKeepsOrder
  <2> HIDE DEF w2
  <2> QED  BY <1>2, <1>5, <2>2, <2>3
<1> HIDE DEF w2
<1>7. w3 \in Writer /\ w3.endian = Little /\ Len(w3.data) = 12
  <2>1. Len(w2.data) % 4 = 0 /\ h.serial \in Word
    BY <1>1, <1>6
  <2>2. w3 \in Writer /\ Len(w3.data) = Len(w2.data) + 4
    BY <1>6, <2>1, WriteWordAligned
  <2>3. w3.endian = w2.endian
    BY <1>6, <2>1, WriteWordKeepsOrder
  <2> HIDE DEF w3
  <2> QED  BY <1>6, <2>2, <2>3
<1> HIDE DEF w3
<1>8. w4 \in Writer /\ Begins(w4, d)
  <2>1. Len(w3.data) % 4 = 0 /\ h.fieldsLen \in Word
    BY <1>1, <1>7
  <2>2. w4 \in Writer
    BY <1>7, <2>1, WriteWordAligned
  <2> HIDE DEF w4, d
  <2> QED  BY <1>4, <2>2 DEF Begins, Writer
\* Each number is read where it was written.
<1>9. Begins(w3, d) /\ U(12) = h.fieldsLen
  <2> HIDE DEF d
  <2> QED  BY <1>1, <1>7, <1>8, HeaderWordComesBack
<1>10. Begins(w2, d) /\ U(8) = h.serial
  <2> HIDE DEF d
  <2> QED  BY <1>1, <1>6, <1>9, HeaderWordComesBack DEF w3
<1>11. Begins(w1, d) /\ U(4) = h.bodyLen
  <2> HIDE DEF d
  <2> QED  BY <1>1, <1>5, <1>10, HeaderWordComesBack DEF w2
<1>12. d[1] = h.endian /\ d[2] = h.type /\ d[3] = h.flags /\ d[4] = h.version
  BY <1>5, <1>11 DEF Begins
<1> DEFINE r == NewReader(d)
           start == [NewFixedHeader EXCEPT
                        !.endian = r.data[1], !.type = r.data[2],
                        !.flags = r.data[3], !.version = r.data[4]]
           whole == [start EXCEPT !.bodyLen = U(4), !.serial = U(8),
                                  !.fieldsLen = U(12), !.valid = TRUE]
<1>13. ReadFixedHeader(r) = IF start.version # 1 THEN Got(start, Advance(r, 4))
                            ELSE Got(whole, Advance(r, HeaderSize))
  BY DEF ReadFixedHeader
<1> HIDE DEF U, d
<1>14. start.version = 1 /\ whole = [h EXCEPT !.valid = TRUE]
  BY <1>9, <1>10, <1>11, <1>12 DEF NewFixedHeader, NewReader, Headers
<1> HIDE DEF start, whole, r
<1> QED  BY <1>13, <1>14 DEF d, r

----------------------------------------------------------------------------
(* The two codecs of the repository *)

\* A text and its NUL are put at once, or one after the other.
LEMMA PutText ==
    ASSUME NEW w \in Writer, NEW s \in Seq(Byte)
    PROVE  /\ Put(w, s \o <<0>>) \in Writer /\ Put(w, s \o <<0>>).endian = w.endian
           /\ Put(w, s \o <<0>>).data = (w.data \o s) \o <<0>>
<1> DEFINE b == w.data
           nul == <<0>>
<1>1. b \in Seq(Byte) /\ nul \in Seq(Byte)
  BY DEF Writer, Byte
<1>2. s \o nul \in Seq(Byte)
  BY TextIsBytes
<1>3. Put(w, s \o nul) \in Writer /\ Put(w, s \o nul).endian = w.endian
      /\ Put(w, s \o nul).data = b \o (s \o nul)
  <2> DEFINE t == s \o nul
  <2> HIDE DEF t
  <2> QED  BY <1>2, PutIsWriter DEF t
<1> HIDE DEF b, nul
<1>4. (b \o s) \o nul = b \o (s \o nul)
  BY <1>1, ConcatAssociative
<1> QED  BY <1>3, <1>4 DEF b, nul

\* The example's write of one value is the library's.
LEMMA SameValues ==
    ASSUME NEW w \in Writer, NEW v \in Seq(Byte)
    PROVE  /\ Len(v) \in Sizes =>
                WriteUInt(w, v).data = Peer!Aligned(w.data, Len(v)) \o Peer!InOrder(w.endian, v)
           /\ WriteString(w, v).data =
                ((Peer!Aligned(w.data, 4) \o Peer!InOrder(w.endian, Peer!UInt32(Len(v)))) \o v) \o <<0>>
           /\ Len(v) < 256 =>
                WriteSignature(w, v).data = ((w.data \o <<Len(v)>>) \o v) \o <<0>>
<1>1. ASSUME NEW b \in Seq(Byte), Len(b) \in Sizes
      PROVE  /\ WriteUInt(w, b) \in Writer
             /\ WriteUInt(w, b).data = Peer!Aligned(w.data, Len(b)) \o Peer!InOrder(w.endian, b)
  <2> DEFINE p == PadTo(w, Len(b))
             o == InOrder(w.endian, b)
  <2>1. p \in Writer /\ p.endian = w.endian /\ p.data = Peer!Aligned(w.data, Len(b))
    BY <1>1, PadToPads
  <2>2. o \in Seq(Byte) /\ o = Peer!InOrder(w.endian, b)
    BY ReverseIsBytes, PeerVocabulary
  <2>3. WriteUInt(w, b) = Put(p, o)
    BY DEF WriteUInt
  <2> HIDE DEF p, o
  <2>4. Put(p, o) \in Writer /\ Put(p, o).data = p.data \o o
    BY <2>1, <2>2, PutIsWriter
  <2> QED  BY <2>1, <2>2, <2>3, <2>4
<1>2. WriteString(w, v).data =
        ((Peer!Aligned(w.data, 4) \o Peer!InOrder(w.endian, Peer!UInt32(Len(v)))) \o v) \o <<0>>
  <2> DEFINE b == UInt32(Len(v))
             u == WriteUInt(w, b)
  <2>1. b \in Seq(Byte) /\ Len(b) = 4 /\ b = Peer!UInt32(Len(v))
    <3>1. Len(v) \in Nat
      OBVIOUS
    <3>2. b \in Word
      BY <3>1, UInt32IsWord
    <3> QED  BY <3>2, WordIsBytes, PeerVocabulary
  <2>2. WriteString(w, v) = Put(u, v \o <<0>>)
    BY DEF WriteString
  <2> HIDE DEF b
  <2>3. u \in Writer /\ u.data = Peer!Aligned(w.data, 4) \o Peer!InOrder(w.endian, b)
    <3>1. Len(b) \in Sizes
      BY <2>1 DEF Sizes
    <3>2. u \in Writer /\ u.data = Peer!Aligned(w.data, Len(b)) \o Peer!InOrder(w.endian, b)
      BY <1>1, <2>1, <3>1
    <3> QED  BY <2>1, <3>2
  <2> HIDE DEF u
  <2>4. Put(u, v \o <<0>>).data = (u.data \o v) \o <<0>>
    BY <2>3, PutText
  <2> QED  BY <2>1, <2>2, <2>3, <2>4
<1>3. ASSUME Len(v) < 256
      PROVE  WriteSignature(w, v).data = ((w.data \o <<Len(v)>>) \o v) \o <<0>>
  <2> DEFINE n == Len(v)
             u == WriteUInt8(w, n)
  <2>1. n \in Byte /\ n % 256 = n
    <3>1. n \in Nat
      OBVIOUS
    <3> HIDE DEF n
    <3>2. n < 256
      BY <1>3 DEF n
    <3> QED  BY <3>1, <3>2 DEF Byte
  <2>2. WriteSignature(w, v) = Put(u, v \o <<0>>)
    BY <2>1 DEF WriteSignature
  <2>3. u \in Writer /\ u.data = w.data \o <<n>>
    <3> HIDE DEF n
    <3>1. <<n>> \in Seq(Byte)
      BY <2>1
    <3>2. Put(w, <<n>>) \in Writer /\ Put(w, <<n>>).data = w.data \o <<n>>
      BY <3>1, PutIsWriter
    <3> QED  BY <3>2 DEF WriteUInt8
  <2> HIDE DEF u
  <2>4. Put(u, v \o <<0>>).data = (u.data \o v) \o <<0>>
    BY <2>3, PutText
  <2> QED  BY <2>2, <2>3, <2>4
<1> QED  BY <1>1, <1>2, <1>3

\* DynamicHeader::serialize and the example's write_string_field and the like
\* write the same bytes for each field, wherever it begins.
THEOREM FieldsAreWrittenAlike ==
    ASSUME NEW w \in Writer, NEW f \in Fields, NEW v, CanWrite(f, v)
    PROVE  WriteField(w, f, v).data =
             Peer!WriteField(w.endian, w.data, f, Peer!TypeOf(f), v)
<1> DEFINE p == PadTo(w, 8)
           q == WriteUInt8(p, f)
           W(char) == WriteSignature(q, <<char>>)
           B(char) == Peer!Write(w.endian, Append(Peer!Aligned(w.data, 8), f), CharG, <<char>>)
<1>1. v \in Seq(Byte) /\ 8 \in Sizes /\ 4 \in Sizes
  BY DEF CanWrite, Sizes
<1>2. /\ CharO \in Byte /\ CharS \in Byte /\ CharU \in Byte /\ CharG \in Byte
      /\ CharY # CharG /\ CharO # CharG /\ CharS # CharG
      /\ CharU \notin {CharY, CharS, CharO, CharG} /\ CharY \notin {CharS, CharO}
  BY DEF CharO, CharS, CharU, CharG, CharY, Byte
<1>3. Peer!CharO = CharO /\ Peer!CharS = CharS /\ Peer!CharU = CharU /\ Peer!CharG = CharG
      /\ Peer!CharY = CharY
  BY DEF Peer!CharO, CharO, Peer!CharS, CharS, Peer!CharU, CharU, Peer!CharG, CharG,
         Peer!CharY, CharY
<1>4. f \in Byte
  BY DEF Fields, StringFields, NumberFields, Path, Interface, Member, ErrorName,
         ReplySerial, Destination, Sender, Signature, UnixFDs, Byte
<1>5. p \in Writer /\ p.endian = w.endian /\ p.data = Peer!Aligned(w.data, 8)
  BY <1>1, PadToPads
<1>6. q \in Writer /\ q.endian = w.endian /\ q.data = Append(Peer!Aligned(w.data, 8), f)
  <2> HIDE DEF p
  <2> DEFINE c == <<f>>
  <2>1. c \in Seq(Byte) /\ p.data \in Seq(Byte)
    BY <1>4, <1>5 DEF Writer
  <2>2. p.data \o c = Append(p.data, f)
    BY <1>4, <2>1
  <2>3. q = Put(p, c)
    BY DEF WriteUInt8
  <2> HIDE DEF q, c
  <2>4. Put(p, c) \in Writer /\ Put(p, c).endian = p.endian /\ Put(p, c).data = p.data \o c
    BY <1>5, <2>1, PutIsWriter
  <2> QED  BY <1>5, <2>2, <2>3, <2>4
<1> HIDE DEF p, q
\* The type of the field.
<1>7. ASSUME NEW char \in Byte
      PROVE  W(char) \in Writer /\ W(char).endian = w.endian /\ W(char).data = B(char)
  <2> DEFINE c == <<char>>
  <2>1. c \in Seq(Byte) /\ Len(c) = 1 /\ Len(c) < 256
    OBVIOUS
  <2> HIDE DEF c
  <2>2. WriteSignature(q, c).data = ((q.data \o <<Len(c)>>) \o c) \o <<0>>
    BY <1>6, <2>1, SameValues
  <2>3. Peer!Write(w.endian, q.data, CharG, c) = ((q.data \o <<Len(c)>>) \o c) \o <<0>>
    BY <1>2, <1>3 DEF Peer!Write
  <2>4. WriteSignature(q, c) \in Writer
    BY <1>6, <2>1, WriteSignatureIsWriter
  <2>5. WriteSignature(q, c).endian = w.endian
    <3> DEFINE n == Len(c) % 256
               x == WriteUInt8(q, n)
    <3>1. <<n>> \in Seq(Byte)
      BY <2>1 DEF Byte
    <3> HIDE DEF n
    <3>2. x \in Writer /\ x.endian = q.endian
      BY <1>6, <3>1, PutIsWriter DEF WriteUInt8
    <3>3. WriteSignature(q, c) = Put(x, c \o <<0>>)
      BY DEF WriteSignature, n
    <3> HIDE DEF x
    <3> QED  BY <1>6, <2>1, <3>2, <3>3, PutText
  <2> QED  BY <1>6, <2>2, <2>3, <2>4, <2>5 DEF c
<1> DEFINE path == WriteString(W(CharO), v)
           string == WriteString(W(CharS), v)
           number == WriteUInt(W(CharU), v)
           signature == WriteSignature(W(CharG), v)
<1>8. WriteField(w, f, v) = CASE f = Path                     -> path
                              [] f \in StringFields \ {Path}  -> string
                              [] f \in NumberFields           -> number
                              [] f = Signature                -> signature
  BY DEF WriteField, p, q
<1>9. Peer!TypeOf(f) = CASE f = Path                     -> CharO
                         [] f \in StringFields \ {Path}  -> CharS
                         [] f \in NumberFields           -> CharU
                         [] f = Signature                -> CharG
  BY <1>3 DEF Peer!TypeOf, Peer!Path, Path, Peer!StringFields, StringFields,
         Peer!NumberFields, NumberFields, Peer!Signature, Signature, Peer!Interface, Interface,
         Peer!Member, Member, Peer!ErrorName, ErrorName, Peer!Destination, Destination,
         Peer!Sender, Sender, Peer!ReplySerial, ReplySerial, Peer!UnixFDs, UnixFDs
<1>10. \A t : Peer!WriteField(w.endian, w.data, f, t, v) =
             Peer!Write(w.endian, Peer!Write(w.endian, Append(Peer!Aligned(w.data, 8), f), CharG, <<t>>), t, v)
  BY <1>3 DEF Peer!WriteField
<1> HIDE DEF W, B
\* The value.
<1>11. path.data = Peer!Write(w.endian, B(CharO), CharO, v)
  <2>1. W(CharO) \in Writer /\ W(CharO).endian = w.endian /\ W(CharO).data = B(CharO)
    BY <1>2, <1>7
  <2> QED  BY <1>1, <1>2, <1>3, <2>1, SameValues DEF Peer!Write
<1>12. string.data = Peer!Write(w.endian, B(CharS), CharS, v)
  <2>1. W(CharS) \in Writer /\ W(CharS).endian = w.endian /\ W(CharS).data = B(CharS)
    BY <1>2, <1>7
  <2> QED  BY <1>1, <1>2, <1>3, <2>1, SameValues DEF Peer!Write
<1>13. f \in NumberFields => number.data = Peer!Write(w.endian, B(CharU), CharU, v)
  <2>1. W(CharU) \in Writer /\ W(CharU).endian = w.endian /\ W(CharU).data = B(CharU)
    BY <1>2, <1>7
  <2>2. f \in NumberFields => Len(v) \in Sizes
    BY DEF CanWrite, Sizes
  <2> QED  BY <1>1, <1>2, <1>3, <2>1, <2>2, SameValues DEF Peer!Write
<1>14. f = Signature => signature.data = Peer!Write(w.endian, B(CharG), CharG, v)
  <2>1. W(CharG) \in Writer /\ W(CharG).endian = w.endian /\ W(CharG).data = B(CharG)
    BY <1>2, <1>7
  <2>2. f = Signature => Len(v) < 256
    BY DEF CanWrite
  <2> QED  BY <1>1, <1>2, <1>3, <2>1, <2>2, SameValues DEF Peer!Write
<1>15. /\ Path \notin NumberFields /\ Signature \notin NumberFields /\ Signature # Path
       /\ Signature \notin StringFields /\ StringFields \cap NumberFields = {}
  BY DEF StringFields, NumberFields, Path, Interface, Member, ErrorName,
         ReplySerial, Destination, Sender, Signature, UnixFDs
<1> DEFINE u == WriteField(w, f, v)
           t == Peer!TypeOf(f)
<1> HIDE DEF path, string, number, signature, u, t
<1>16. \/ u = path /\ t = CharO
       \/ u = string /\ t = CharS
       \/ u = number /\ t = CharU /\ f \in NumberFields
       \/ u = signature /\ t = CharG /\ f = Signature
  <2>1. CASE f = Path
    BY <1>8, <1>9, <1>15, <2>1 DEF u, t
  <2>2. CASE f \in StringFields \ {Path}
    BY <1>8, <1>9, <1>15, <2>2 DEF u, t
  <2>3. CASE f \in NumberFields
    BY <1>8, <1>9, <1>15, <2>3 DEF u, t
  <2>4. CASE f = Signature
    BY <1>8, <1>9, <1>15, <2>4 DEF u, t
  <2> QED  BY <2>1, <2>2, <2>3, <2>4 DEF Fields
<1>17. u.data = Peer!Write(w.endian, B(t), t, v)
  BY <1>11, <1>12, <1>13, <1>14, <1>16
<1> QED  BY <1>10, <1>17 DEF B, u, t

----------------------------------------------------------------------------
(* A peer's message *)

\* The type t and the value v, as a writer of the library writes them.
WriteAs(w, t, v) ==
    CASE t = CharY            -> WriteUInt8(w, v)
      [] t \in {CharS, CharO} -> WriteString(w, v)
      [] t = CharG            -> WriteSignature(w, v)
      [] OTHER                -> WriteUInt(w, v)

WriteFieldAs(w, f, t, v) == WriteAs(WriteSignature(WriteUInt8(PadTo(w, 8), f), << t >>), t, v)

ValueTypes == {CharY, CharQ, CharU, CharB, CharT, CharS, CharO, CharG}

\* u is w with more bytes.
GoesOn(u, w) == u \in Writer /\ u.endian = w.endian /\ Len(w.data) < Len(u.data)

LEMMA WriterParts ==
    ASSUME NEW w \in Writer
    PROVE  w.data \in Seq(Byte) /\ Len(w.data) \in Nat /\ w.endian \in Byte
BY DEF Writer

LEMMA PutGoesOn ==
    ASSUME NEW w \in Writer, NEW b \in Seq(Byte), Len(b) > 0
    PROVE  GoesOn(Put(w, b), w)
<1>1. Put(w, b) \in Writer /\ Put(w, b).endian = w.endian /\ Put(w, b).data = w.data \o b
  BY PutIsWriter
<1>2. w.data \in Seq(Byte) /\ Len(w.data) \in Nat /\ Len(b) \in Nat
  BY WriterParts
<1>3. Len(w.data \o b) = Len(w.data) + Len(b)
  BY <1>2, ConcatProperties
<1> QED  BY <1>1, <1>2, <1>3 DEF GoesOn

LEMMA PaddedLength ==
    ASSUME NEW w \in Writer, NEW a \in Sizes
    PROVE  /\ PadTo(w, a) \in Writer /\ PadTo(w, a).endian = w.endian
           /\ Len(PadTo(w, a).data) = AlignedTo(Len(w.data), a)
           /\ Len(w.data) <= Len(PadTo(w, a).data)
<1> DEFINE n == Len(w.data)
           p == AlignedTo(n, a)
           z == Zeros(p - n)
<1>1. n \in Nat /\ p \in Nat /\ p >= n /\ w.data \in Seq(Byte)
  <2>1. n \in Nat
    BY WriterParts
  <2> QED  BY <2>1, Alignment, WriterParts
<1>2. PadTo(w, a) = Put(w, z)
  BY DEF PadTo
<1> HIDE DEF p
<1>3. z \in Seq(Byte) /\ Len(z) = p - n
  <2>1. p - n \in Nat
    BY <1>1
  <2> QED  BY <2>1, ZerosAreBytes
<1> HIDE DEF z
<1>4. Put(w, z) \in Writer /\ Put(w, z).endian = w.endian /\ Put(w, z).data = w.data \o z
  BY <1>3, PutIsWriter
<1>5. Len(w.data \o z) = Len(w.data) + Len(z)
  BY <1>1, <1>3, ConcatProperties
<1> QED  BY <1>1, <1>2, <1>3, <1>4, <1>5 DEF p

LEMMA GoesOnFurther ==
    ASSUME NEW w \in Writer, NEW u, NEW x, GoesOn(u, w), GoesOn(x, u)
    PROVE  GoesOn(x, w)
<1>1. Len(w.data) \in Nat /\ Len(u.data) \in Nat /\ Len(x.data) \in Nat
  BY WriterParts DEF GoesOn
<1> QED  BY <1>1 DEF GoesOn

LEMMA UInt8GoesOn ==
    ASSUME NEW w \in Writer, NEW v \in Byte
    PROVE  GoesOn(WriteUInt8(w, v), w) /\ WriteUInt8(w, v).data = Append(w.data, v)
<1> DEFINE b == <<v>>
<1>1. b \in Seq(Byte) /\ Len(b) > 0
  OBVIOUS
<1>2. w.data \o b = Append(w.data, v)
  BY WriterParts
<1>3. WriteUInt8(w, v) = Put(w, b)
  BY DEF WriteUInt8
<1> HIDE DEF b
<1> QED  BY <1>1, <1>2, <1>3, PutGoesOn, PutIsWriter

LEMMA UIntGoesOn ==
    ASSUME NEW w \in Writer, NEW b \in Seq(Byte), Len(b) \in Sizes
    PROVE  GoesOn(WriteUInt(w, b), w)
<1> DEFINE p == PadTo(w, Len(b))
           o == InOrder(w.endian, b)
<1>1. p \in Writer /\ p.endian = w.endian /\ Len(w.data) <= Len(p.data)
  BY PaddedLength
<1>2. o \in Seq(Byte) /\ Len(o) > 0
  BY ReverseIsBytes DEF Sizes
<1>3. WriteUInt(w, b) = Put(p, o)
  BY DEF WriteUInt
<1> HIDE DEF p, o
<1>4. GoesOn(Put(p, o), p)
  BY <1>1, <1>2, PutGoesOn
<1>5. Len(w.data) \in Nat /\ Len(p.data) \in Nat /\ Len(Put(p, o).data) \in Nat
  BY <1>1, <1>4, WriterParts DEF GoesOn
<1> QED  BY <1>1, <1>3, <1>4, <1>5 DEF GoesOn

LEMMA TextGoesOn ==
    ASSUME NEW w \in Writer, NEW s \in Seq(Byte)
    PROVE  GoesOn(Put(w, s \o << 0 >>), w)
<1> DEFINE nul == <<0>>
           t == s \o nul
<1>1. nul \in Seq(Byte) /\ Len(nul) = 1
  BY DEF Byte
<1> HIDE DEF nul
<1>2. t \in Seq(Byte) /\ Len(t) = Len(s) + 1 /\ Len(s) \in Nat
  BY <1>1, ConcatProperties
<1> HIDE DEF t
<1>3. Len(t) > 0
  BY <1>2
<1>4. GoesOn(Put(w, t), w)
  BY <1>2, <1>3, PutGoesOn
<1> QED  BY <1>4 DEF t, nul

LEMMA StringGoesOn ==
    ASSUME NEW w \in Writer, NEW s \in Seq(Byte)
    PROVE  GoesOn(WriteString(w, s), w)
<1> DEFINE b == UInt32(Len(s))
           u == WriteUInt(w, b)
<1>1. b \in Seq(Byte) /\ Len(b) \in Sizes
  BY UInt32IsWord, WordIsBytes DEF Sizes
<1>2. WriteString(w, s) = Put(u, s \o <<0>>)
  BY DEF WriteString
<1> HIDE DEF b
<1>3. GoesOn(u, w)
  BY <1>1, UIntGoesOn
<1> HIDE DEF u
<1>4. GoesOn(Put(u, s \o <<0>>), u)
  BY <1>3, TextGoesOn DEF GoesOn
<1> QED  BY <1>2, <1>3, <1>4, GoesOnFurther

LEMMA SignatureGoesOn ==
    ASSUME NEW w \in Writer, NEW s \in Seq(Byte)
    PROVE  GoesOn(WriteSignature(w, s), w)
<1> DEFINE n == Len(s) % 256
           u == WriteUInt8(w, n)
<1>1. n \in Byte
  <2> DEFINE l == Len(s)
  <2>1. l \in Nat
    OBVIOUS
  <2> HIDE DEF l
  <2>2. l % 256 \in Byte
    BY <2>1 DEF Byte
  <2> QED  BY <2>2 DEF l
<1>2. WriteSignature(w, s) = Put(u, s \o <<0>>)
  BY DEF WriteSignature
<1> HIDE DEF n
<1>3. GoesOn(u, w)
  BY <1>1, UInt8GoesOn
<1> HIDE DEF u
<1>4. GoesOn(Put(u, s \o <<0>>), u)
  BY <1>3, TextGoesOn DEF GoesOn
<1> QED  BY <1>2, <1>3, <1>4, GoesOnFurther

\* What the values of each type are.
LEMMA ValueParts ==
    ASSUME NEW t \in ValueTypes, NEW v, IsValue(t, v)
    PROVE  /\ t = CharY => v \in Byte
           /\ t # CharY => v \in Seq(Byte) /\ Len(v) < LengthLimit
           /\ t = CharG => Len(v) < 256
           /\ t \notin {CharY, CharS, CharO, CharG} => Len(v) \in Sizes
           /\ t = CharQ => Len(v) = 2
           /\ t \in {CharU, CharB} => Len(v) = 4
           /\ t = CharT => Len(v) = 8
           /\ t \in {CharS, CharO} => Len(v) < MaxSize
<1>1. ASSUME NEW k \in {2, 4, 8}, v \in [1 .. k -> Byte]
      PROVE  v \in Seq(Byte) /\ Len(v) = k /\ Len(v) < LengthLimit
  <2>1. k \in Nat
    OBVIOUS
  <2>2. v \in Seq(Byte)
    BY <1>1, <2>1, SeqDef
  <2>3. DOMAIN v = 1 .. k /\ DOMAIN v = 1 .. Len(v) /\ Len(v) \in Nat
    BY <1>1, <2>2, LenProperties
  <2>4. Len(v) = k
    <3> DEFINE l == Len(v)
    <3>1. l \in Nat /\ 1 .. l = 1 .. k
      BY <2>3
    <3> HIDE DEF l
    <3>2. k \in 1 .. l /\ (l # 0 => l \in 1 .. k)
      BY <3>1
    <3> QED  BY <3>1, <3>2 DEF l
  <2> QED  BY SMT, <2>2, <2>4 DEF LengthLimit
<1>2. /\ CharQ \notin {CharY, CharU, CharB, CharT, CharS, CharO, CharG}
      /\ CharU \notin {CharY, CharT, CharS, CharO, CharG}
      /\ CharB \notin {CharY, CharT, CharS, CharO, CharG}
      /\ CharT \notin {CharY, CharS, CharO, CharG}
      /\ CharS \notin {CharY, CharG} /\ CharO \notin {CharY, CharG} /\ CharG # CharY
  BY DEF CharY, CharQ, CharU, CharB, CharT, CharS, CharO, CharG
<1>3. IsValue(t, v) <=>
        CASE t = CharY            -> v \in Byte
          [] t = CharQ            -> v \in [1 .. 2 -> Byte]
          [] t \in {CharU, CharB} -> v \in [1 .. 4 -> Byte]
          [] t = CharT            -> v \in [1 .. 8 -> Byte]
          [] t \in {CharS, CharO} -> v \in Seq(Byte) /\ Len(v) < MaxSize
          [] t = CharG            -> v \in Seq(Byte) /\ Len(v) < 256
  BY DEF IsValue
<1>4. CASE t = CharY
  BY <1>2, <1>3, <1>4
<1>5. CASE t = CharQ
  <2>1. v \in Seq(Byte) /\ Len(v) = 2 /\ Len(v) < LengthLimit
    BY <1>1, <1>2, <1>3, <1>5
  <2> QED  BY <1>2, <1>5, <2>1 DEF Sizes
<1>6. CASE t \in {CharU, CharB}
  <2>1. v \in Seq(Byte) /\ Len(v) = 4 /\ Len(v) < LengthLimit
    BY <1>1, <1>2, <1>3, <1>6
  <2> QED  BY <1>2, <1>6, <2>1 DEF Sizes
<1>7. CASE t = CharT
  <2>1. v \in Seq(Byte) /\ Len(v) = 8 /\ Len(v) < LengthLimit
    BY <1>1, <1>2, <1>3, <1>7
  <2> QED  BY <1>2, <1>7, <2>1 DEF Sizes
<1>8. CASE t \in {CharS, CharO}
  <2>1. v \in Seq(Byte) /\ Len(v) < MaxSize
    BY <1>2, <1>3, <1>8
  <2>2. Len(v) < LengthLimit
    BY SMT, <2>1 DEF MaxSize, LengthLimit
  <2> QED  BY <1>2, <1>8, <2>1, <2>2
<1>9. CASE t = CharG
  <2>1. v \in Seq(Byte) /\ Len(v) < 256
    BY <1>2, <1>3, <1>9
  <2>2. Len(v) < LengthLimit
    BY SMT, <2>1 DEF LengthLimit
  <2> QED  BY <1>2, <1>9, <2>1, <2>2
<1> QED  BY <1>4, <1>5, <1>6, <1>7, <1>8, <1>9 DEF ValueTypes

\* A value is written alike by the library and by its peer.
LEMMA ValuesAreWrittenAlike ==
    ASSUME NEW w \in Writer, NEW t \in ValueTypes, NEW v, IsValue(t, v)
    PROVE  /\ GoesOn(WriteAs(w, t, v), w)
           /\ WriteAs(w, t, v).data = Peer!Write(w.endian, w.data, t, v)
<1>1. Peer!CharO = CharO /\ Peer!CharS = CharS /\ Peer!CharG = CharG /\ Peer!CharY = CharY
  BY DEF Peer!CharO, CharO, Peer!CharS, CharS, Peer!CharG, CharG, Peer!CharY, CharY
<1>2. CharY \notin {CharS, CharO, CharG} /\ CharG \notin {CharS, CharO}
  BY DEF CharY, CharS, CharO, CharG
<1>3. Peer!Write(w.endian, w.data, t, v) =
        CASE t = CharY -> Append(w.data, v)
          [] t \in {CharS, CharO} ->
                ((Peer!Aligned(w.data, 4) \o Peer!InOrder(w.endian, Peer!UInt32(Len(v)))) \o v) \o <<0>>
          [] t = CharG -> ((w.data \o <<Len(v)>>) \o v) \o <<0>>
          [] OTHER     -> Peer!Aligned(w.data, Len(v)) \o Peer!InOrder(w.endian, v)
  BY <1>1 DEF Peer!Write
<1>4. CASE t = CharY
  <2>1. v \in Byte
    BY <1>4, ValueParts
  <2>2. WriteAs(w, t, v) = WriteUInt8(w, v) /\ Peer!Write(w.endian, w.data, t, v) = Append(w.data, v)
    BY <1>2, <1>3, <1>4 DEF WriteAs
  <2> QED  BY <2>1, <2>2, UInt8GoesOn
<1>5. CASE t \in {CharS, CharO}
  <2>1. v \in Seq(Byte)
    BY <1>2, <1>5, ValueParts
  <2>2. /\ WriteAs(w, t, v) = WriteString(w, v)
        /\ Peer!Write(w.endian, w.data, t, v) =
             ((Peer!Aligned(w.data, 4) \o Peer!InOrder(w.endian, Peer!UInt32(Len(v)))) \o v) \o <<0>>
    BY <1>2, <1>3, <1>5 DEF WriteAs
  <2> QED  BY <2>1, <2>2, StringGoesOn, SameValues
<1>6. CASE t = CharG
  <2>1. v \in Seq(Byte) /\ Len(v) < 256
    BY <1>2, <1>6, ValueParts
  <2>2. /\ WriteAs(w, t, v) = WriteSignature(w, v)
        /\ Peer!Write(w.endian, w.data, t, v) = ((w.data \o <<Len(v)>>) \o v) \o <<0>>
    BY <1>2, <1>3, <1>6 DEF WriteAs
  <2> QED  BY <2>1, <2>2, SignatureGoesOn, SameValues
<1>7. CASE t \notin {CharY, CharS, CharO, CharG}
  <2>1. v \in Seq(Byte) /\ Len(v) \in Sizes
    BY <1>7, ValueParts
  <2>2. /\ WriteAs(w, t, v) = WriteUInt(w, v)
        /\ Peer!Write(w.endian, w.data, t, v) = Peer!Aligned(w.data, Len(v)) \o Peer!InOrder(w.endian, v)
    BY <1>3, <1>7 DEF WriteAs
  <2> QED  BY <2>1, <2>2, UIntGoesOn, SameValues
<1> QED  BY <1>4, <1>5, <1>6, <1>7

\* A field of any code and type is written alike by the library and by its peer.
LEMMA AnyFieldIsWrittenAlike ==
    ASSUME NEW w \in Writer, NEW f \in Byte, NEW t \in ValueTypes, NEW v, IsValue(t, v)
    PROVE  /\ GoesOn(WriteFieldAs(w, f, t, v), PadTo(w, 8))
           /\ WriteFieldAs(w, f, t, v).data = Peer!WriteField(w.endian, w.data, f, t, v)
<1> DEFINE p == PadTo(w, 8)
           q == WriteUInt8(p, f)
           c == <<t>>
           x == WriteSignature(q, c)
           u == WriteAs(x, t, v)
<1>1. p \in Writer /\ p.endian = w.endian /\ p.data = Peer!Aligned(w.data, 8)
  BY PadToPads DEF Sizes
<1>2. GoesOn(q, p) /\ q.data = Append(p.data, f)
  BY <1>1, UInt8GoesOn
<1>3. u = WriteFieldAs(w, f, t, v)
  BY DEF WriteFieldAs
<1>4. c \in Seq(Byte) /\ Len(c) = 1
  <2>1. t \in Byte
    BY DEF ValueTypes, CharY, CharQ, CharU, CharB, CharT, CharS, CharO, CharG, Byte
  <2> QED  BY <2>1
<1> HIDE DEF p, q
<1>5. q \in Writer /\ q.endian = p.endian
  BY <1>2 DEF GoesOn
<1>6. GoesOn(x, q) /\ x.data = Peer!Write(w.endian, q.data, CharG, c)
  <2> HIDE DEF c
  <2>1. CharG \in ValueTypes /\ IsValue(CharG, c)
    BY <1>4 DEF ValueTypes, IsValue, CharY, CharQ, CharU, CharB, CharT, CharS, CharO, CharG
  <2>2. WriteAs(q, CharG, c) = x
    BY DEF WriteAs, CharY, CharS, CharO, CharG
  <2> QED  BY <1>1, <1>5, <2>1, <2>2, ValuesAreWrittenAlike
<1> HIDE DEF x
<1>7. GoesOn(u, x) /\ u.data = Peer!Write(w.endian, x.data, t, v)
  <2>1. x \in Writer /\ x.endian = w.endian
    BY <1>1, <1>5, <1>6 DEF GoesOn
  <2> QED  BY <2>1, ValuesAreWrittenAlike
<1> HIDE DEF u
<1>8. GoesOn(u, p)
  <2>1. GoesOn(x, p)
    BY <1>1, <1>2, <1>6, GoesOnFurther
  <2> QED  BY <1>1, <1>7, <2>1, GoesOnFurther
<1>9. Peer!WriteField(w.endian, w.data, f, t, v) =
        Peer!Write(w.endian, Peer!Write(w.endian, Append(Peer!Aligned(w.data, 8), f), CharG, <<t>>), t, v)
  <2>1. Peer!CharG = CharG
    BY DEF Peer!CharG, CharG
  <2> QED  BY <2>1 DEF Peer!WriteField
<1> QED  BY <1>1, <1>2, <1>3, <1>6, <1>7, <1>8, <1>9 DEF p, c

LEMMA FieldsAreWritten ==
    ASSUME NEW e, NEW list, Len(list) \in Nat,
           \A n \in 1 .. Len(list) : \A b \in Seq(Byte) :
             Peer!WriteField(e, b, list[n][1], list[n][2], list[n][3]) \in Seq(Byte)
    PROVE  LET F == Peer!WriteFields(e, list)
           IN  /\ F \in [0 .. Len(list) -> Seq(Byte)] /\ F[0] = <<>>
               /\ \A n \in 1 .. Len(list) :
                    F[n] = Peer!WriteField(e, F[n - 1], list[n][1], list[n][2], list[n][3])
<1> DEFINE N == Len(list)
           S == Seq(Byte)
           Step(n, b) == Peer!WriteField(e, b, list[n][1], list[n][2], list[n][3])
           Eq(f) == [n \in 0 .. N |-> IF n = 0 THEN <<>> ELSE Step(n, f[n - 1])]
           G == [n \in 1 .. N |-> [b \in S |-> Step(n, b)]]
           F == Peer!WriteFields(e, list)
<1>1. F = CHOOSE f : f = Eq(f)
  BY DEF Peer!WriteFields
<1>2. \A n \in 1 .. N : \A b \in S : G[n][b] = Step(n, b) /\ Step(n, b) \in S
  OBVIOUS
<1>3. <<>> \in S
  OBVIOUS
<1> HIDE DEF Step, G, F, S
<1>4. PICK f : Iterates(f, N, S, <<>>, G)
  <2>1. StaysIn(G, N, S)
    BY <1>2 DEF StaysIn
  <2> HIDE DEF N
  <2> QED  BY <1>3, <2>1, Recursion DEF N
<1>5. f = Eq(f)
  <2>0. f \in [0 .. N -> S] /\ f[0] = <<>> /\ \A n \in 1 .. N : f[n] = G[n][f[n - 1]]
    BY <1>4 DEF Iterates
  <2>1. \A n \in 1 .. N : f[n - 1] \in S
    BY <2>0
  <2>2. \A n \in 0 .. N : f[n] = Eq(f)[n]
    BY <1>2, <2>0, <2>1
  <2> QED  BY <2>0, <2>2
<1> HIDE DEF Eq
<1>6. F = Eq(F)
  BY <1>1, <1>5
<1> USE DEF Eq
<1>7. F[0] = <<>> /\ \A n \in 1 .. N : F[n] = Step(n, F[n - 1])
  BY <1>6
<1>8. \A n \in 0 .. N : F[n] \in S
  <2> DEFINE T == {n \in 0 .. N : F[n] \in S}
  <2>1. 0 \in T
    BY <1>3, <1>7
  <2>2. \A n \in 1 .. N : n - 1 \in T => n \in T
    BY <1>2, <1>7
  <2> HIDE DEF T, Eq
  <2>3. 0 .. N \subseteq T
    BY <2>1, <2>2, CountingUp
  <2> QED  BY <2>3 DEF T
<1>9. F \in [0 .. N -> S]
  BY <1>6, <1>8
<1> QED  BY <1>7, <1>9 DEF F, S, Step

LEMMA ValuesAreWritten ==
    ASSUME NEW e, NEW values, Len(values) \in Nat,
           \A n \in 1 .. Len(values) : \A b \in Seq(Byte) :
             Peer!Write(e, b, values[n][1], values[n][2]) \in Seq(Byte)
    PROVE  LET B == Peer!WriteAll(e, values)
           IN  /\ B \in [0 .. Len(values) -> Seq(Byte)] /\ B[0] = <<>>
               /\ \A n \in 1 .. Len(values) :
                    B[n] = Peer!Write(e, B[n - 1], values[n][1], values[n][2])
<1> DEFINE N == Len(values)
           S == Seq(Byte)
           Step(n, b) == Peer!Write(e, b, values[n][1], values[n][2])
           Eq(f) == [n \in 0 .. N |-> IF n = 0 THEN <<>> ELSE Step(n, f[n - 1])]
           G == [n \in 1 .. N |-> [b \in S |-> Step(n, b)]]
           B == Peer!WriteAll(e, values)
<1>1. B = CHOOSE f : f = Eq(f)
  BY DEF Peer!WriteAll
<1>2. \A n \in 1 .. N : \A b \in S : G[n][b] = Step(n, b) /\ Step(n, b) \in S
  OBVIOUS
<1>3. <<>> \in S
  OBVIOUS
<1> HIDE DEF Step, G, B, S
<1>4. PICK f : Iterates(f, N, S, <<>>, G)
  <2>1. StaysIn(G, N, S)
    BY <1>2 DEF StaysIn
  <2> HIDE DEF N
  <2> QED  BY <1>3, <2>1, Recursion DEF N
<1>5. f = Eq(f)
  <2>1. f \in [0 .. N -> S] /\ f[0] = <<>> /\ \A n \in 1 .. N : f[n] = G[n][f[n - 1]]
    BY <1>4 DEF Iterates
  <2>2. \A n \in 1 .. N : f[n - 1] \in S
    BY <2>1
  <2>3. \A n \in 0 .. N : f[n] = Eq(f)[n]
    BY <1>2, <2>1, <2>2
  <2> QED  BY <2>1, <2>3
<1> HIDE DEF Eq
<1>6. B = Eq(B)
  BY <1>1, <1>5
<1> USE DEF Eq
<1>7. B[0] = <<>> /\ \A n \in 1 .. N : B[n] = Step(n, B[n - 1])
  BY <1>6
<1>8. \A n \in 0 .. N : B[n] \in S
  <2> DEFINE T == {n \in 0 .. N : B[n] \in S}
  <2>1. 0 \in T
    BY <1>3, <1>7
  <2>2. \A n \in 1 .. N : n - 1 \in T => n \in T
    BY <1>2, <1>7
  <2> HIDE DEF T, Eq
  <2>3. 0 .. N \subseteq T
    BY <2>1, <2>2, CountingUp
  <2> QED  BY <2>3 DEF T
<1>9. B \in [0 .. N -> S]
  BY <1>6, <1>8
<1> QED  BY <1>7, <1>9 DEF B, S, Step

\* What a peer's message has.
LEMMA PeerMessageParts ==
    ASSUME NEW m \in PeerMessages
    PROVE  /\ m.endian \in Byte /\ m.endian \in {Little, Big}
           /\ m.version \in Byte /\ m.type \in Byte /\ m.flags \in Byte /\ m.serial \in Word
           /\ Len(m.list) \in Nat /\ DOMAIN m.list = 1 .. Len(m.list)
           /\ Len(m.items) \in Nat /\ DOMAIN m.items = 1 .. Len(m.items)
           /\ \A i \in 1 .. Len(m.list) :
                /\ m.list[i][1] \in Byte /\ m.list[i][2] \in ValueTypes
                /\ IsValue(m.list[i][2], m.list[i][3])
                /\ m.list[i][1] \in Fields =>
                     /\ m.list[i][2] = Peer!TypeOf(m.list[i][1])
                     /\ \A j \in 1 .. Len(m.list) : m.list[j][1] = m.list[i][1] => j = i
           /\ \A i \in 1 .. Len(m.items) :
                /\ m.items[i][1] \in ValueTypes \ {CharO}
                /\ IsValue(m.items[i][1], m.items[i][2])
<1>1. m.endian \in {Little, Big} /\ Little \in Byte /\ Big \in Byte
  BY PeerAssumption DEF Little, Big, Byte
<1>2. \A i \in 1 .. Len(m.list) :
                /\ m.list[i][1] \in Byte /\ m.list[i][2] \in ValueTypes
                /\ IsValue(m.list[i][2], m.list[i][3])
                /\ m.list[i][1] \in Fields =>
                     /\ m.list[i][2] = Peer!TypeOf(m.list[i][1])
                     /\ \A j \in 1 .. Len(m.list) : m.list[j][1] = m.list[i][1] => j = i
  BY Zenon, PeerAssumption DEF ValueTypes
<1>3. \A i \in 1 .. Len(m.items) :
                /\ m.items[i][1] \in {CharY, CharQ, CharU, CharB, CharT, CharS, CharG}
                /\ IsValue(m.items[i][1], m.items[i][2])
  BY Zenon, PeerAssumption
<1>4. {CharY, CharQ, CharU, CharB, CharT, CharS, CharG} = ValueTypes \ {CharO}
  BY DEF ValueTypes, CharY, CharQ, CharU, CharB, CharT, CharS, CharO, CharG
<1>5. /\ m.version \in Byte /\ m.type \in Byte /\ m.flags \in Byte /\ m.serial \in Word
      /\ Len(m.list) \in Nat /\ DOMAIN m.list = 1 .. Len(m.list)
      /\ Len(m.items) \in Nat /\ DOMAIN m.items = 1 .. Len(m.items)
  BY Zenon, PeerAssumption DEF Word
<1> QED  BY <1>1, <1>2, <1>3, <1>4, <1>5

\* A writer that has written b.
Wrote(b, e) == [data |-> b, endian |-> e]

LEMMA WroteIsWriter ==
    ASSUME NEW b \in Seq(Byte), NEW e \in Byte
    PROVE  Wrote(b, e) \in Writer /\ Wrote(b, e).data = b /\ Wrote(b, e).endian = e
BY DEF Wrote, Writer

\* The fields of a peer's message, one after the other.
LEMMA PeerFieldsAreBytes ==
    ASSUME NEW m \in PeerMessages
    PROVE  LET F == Peer!WriteFields(m.endian, m.list)
           IN  /\ F \in [0 .. Len(m.list) -> Seq(Byte)] /\ F[0] = <<>>
               /\ \A n \in 1 .. Len(m.list) :
                    F[n] = Peer!WriteField(m.endian, F[n - 1], m.list[n][1], m.list[n][2], m.list[n][3])
               /\ PeerFields(m) = F[Len(m.list)] /\ PeerFields(m) \in Seq(Byte)
<1> DEFINE e == m.endian
           list == m.list
           F == Peer!WriteFields(e, list)
<1>1. Len(list) \in Nat
  BY PeerMessageParts
<1>2. ASSUME NEW n \in 1 .. Len(list), NEW b \in Seq(Byte)
      PROVE  Peer!WriteField(e, b, list[n][1], list[n][2], list[n][3]) \in Seq(Byte)
  <2> DEFINE w == Wrote(b, e)
             f == list[n][1]
             t == list[n][2]
             v == list[n][3]
  <2>1. f \in Byte /\ t \in ValueTypes /\ IsValue(t, v) /\ e \in Byte
    BY PeerMessageParts
  <2>2. w \in Writer /\ w.data = b /\ w.endian = e
    BY <2>1, WroteIsWriter
  <2> HIDE DEF w, f, t, v, e, list
  <2>3. WriteFieldAs(w, f, t, v).data = Peer!WriteField(w.endian, w.data, f, t, v)
        /\ WriteFieldAs(w, f, t, v) \in Writer
    BY <2>1, <2>2, AnyFieldIsWrittenAlike DEF GoesOn
  <2>4. Peer!WriteField(e, b, f, t, v) \in Seq(Byte)
    BY <2>2, <2>3, WriterParts
  <2> QED  BY <2>4 DEF f, t, v
<1> HIDE DEF e, list
<1>3. /\ F \in [0 .. Len(list) -> Seq(Byte)] /\ F[0] = <<>>
      /\ \A n \in 1 .. Len(list) :
           F[n] = Peer!WriteField(e, F[n - 1], list[n][1], list[n][2], list[n][3])
  BY <1>1, <1>2, FieldsAreWritten
<1>4. PeerFields(m) = F[Len(list)]
  BY DEF PeerFields, e, list
<1> HIDE DEF F
<1>5. F[Len(list)] \in Seq(Byte)
  BY <1>1, <1>3
<1> QED  BY <1>3, <1>4, <1>5 DEF F, e, list

\* Its body, value by value.
LEMMA PeerBodyIsBytes ==
    ASSUME NEW m \in PeerMessages
    PROVE  LET B == Peer!WriteAll(m.endian, m.items)
           IN  /\ B \in [0 .. Len(m.items) -> Seq(Byte)] /\ B[0] = <<>>
               /\ \A n \in 1 .. Len(m.items) :
                    B[n] = Peer!Write(m.endian, B[n - 1], m.items[n][1], m.items[n][2])
               /\ PeerBody(m) = B[Len(m.items)] /\ PeerBody(m) \in Seq(Byte)
<1> DEFINE e == m.endian
           values == m.items
           B == Peer!WriteAll(e, values)
<1>1. Len(values) \in Nat
  BY PeerMessageParts
<1>2. ASSUME NEW n \in 1 .. Len(values), NEW b \in Seq(Byte)
      PROVE  Peer!Write(e, b, values[n][1], values[n][2]) \in Seq(Byte)
  <2> DEFINE w == Wrote(b, e)
             t == values[n][1]
             v == values[n][2]
  <2>1. t \in ValueTypes /\ IsValue(t, v) /\ e \in Byte
    BY PeerMessageParts
  <2>2. w \in Writer /\ w.data = b /\ w.endian = e
    BY <2>1, WroteIsWriter
  <2> HIDE DEF w, t, v, e, values
  <2>3. WriteAs(w, t, v).data = Peer!Write(w.endian, w.data, t, v) /\ WriteAs(w, t, v) \in Writer
    BY <2>1, <2>2, ValuesAreWrittenAlike DEF GoesOn
  <2>4. Peer!Write(e, b, t, v) \in Seq(Byte)
    BY <2>2, <2>3, WriterParts
  <2> QED  BY <2>4 DEF t, v
<1> HIDE DEF e, values
<1>3. /\ B \in [0 .. Len(values) -> Seq(Byte)] /\ B[0] = <<>>
      /\ \A n \in 1 .. Len(values) : B[n] = Peer!Write(e, B[n - 1], values[n][1], values[n][2])
  BY <1>1, <1>2, ValuesAreWritten
<1>4. PeerBody(m) = B[Len(values)]
  BY DEF PeerBody, e, values
<1> HIDE DEF B
<1>5. B[Len(values)] \in Seq(Byte)
  BY <1>1, <1>3
<1> QED  BY <1>3, <1>4, <1>5 DEF B, e, values

LEMMA PeerSizes ==
    ASSUME NEW m \in PeerMessages
    PROVE  /\ Len(PeerFields(m)) \in Nat /\ Len(PeerFields(m)) < MaxSize
           /\ Len(PeerBody(m)) \in Nat /\ Len(PeerBody(m)) < MaxSize
           /\ MaxSize < LengthLimit
<1>1. Len(PeerFields(m)) < MaxSize /\ Len(PeerBody(m)) < MaxSize
  BY Zenon, PeerAssumption
<1>2. Len(PeerFields(m)) \in Nat /\ Len(PeerBody(m)) \in Nat
  BY PeerFieldsAreBytes, PeerBodyIsBytes
<1>3. MaxSize < LengthLimit
  BY SMT DEF MaxSize, LengthLimit
<1> QED  BY <1>1, <1>2, <1>3

\* The bytes a peer writes: the header, which says how many they are if it is
\* read in the byte order it was written in, the fields and the body.
LEMMA PeerBytesAreWhole ==
    ASSUME NEW m \in PeerMessages
    PROVE  LET d == PeerBytes(m)
               n == AlignedTo(Len(PeerFields(m)), 8)
           IN  /\ d \in Seq(Byte) /\ n \in Nat /\ Len(PeerFields(m)) <= n
               /\ Len(d) = HeaderSize + n + Len(PeerBody(m))
               /\ d[1] = m.endian /\ d[2] = m.type /\ d[3] = m.flags /\ d[4] = m.version
               /\ \A i \in 1 .. Len(PeerFields(m)) : d[16 + i] = PeerFields(m)[i]
               /\ \A i \in 1 .. Len(PeerBody(m)) : d[16 + n + i] = PeerBody(m)[i]
               /\ m.endian = Little =>
                    /\ SubSeq(d, 5, 8) = UInt32(Len(PeerBody(m)))
                    /\ SubSeq(d, 9, 12) = m.serial
                    /\ SubSeq(d, 13, 16) = UInt32(Len(PeerFields(m)))
<1> DEFINE f == PeerFields(m)
           body == PeerBody(m)
           e == m.endian
           s1 == <<m.endian, m.type, m.flags, 1>>
           bl == UInt32(Len(body))
           fl == UInt32(Len(f))
           b == InOrder(e, bl)
           c == InOrder(e, m.serial)
           g == InOrder(e, fl)
           z == Zeros(AlignedTo(Len(f), 8) - Len(f))
           n == AlignedTo(Len(f), 8)
           d == (((((s1 \o b) \o c) \o g) \o (f \o z)) \o body)
<1>1. /\ e \in Byte /\ m.version \in Byte /\ m.type \in Byte /\ m.flags \in Byte
      /\ m.serial \in Word /\ f \in Seq(Byte) /\ body \in Seq(Byte)
  BY PeerMessageParts, PeerFieldsAreBytes, PeerBodyIsBytes
<1>2. PeerBytes(m) = [d EXCEPT ![4] = m.version]
  <2>1. PeerBytes(m) =
          [Peer!Encode([endian |-> m.endian, type |-> m.type, flags |-> m.flags,
                        serial |-> m.serial, body |-> body], m.list)
             EXCEPT ![4] = m.version]
    BY DEF PeerBytes
  <2>2. Peer!Aligned(f, 8) = f \o z
    BY PeerVocabulary DEF Peer!Aligned
  <2>3. Peer!WriteFields(m.endian, m.list)[Len(m.list)] = f
    BY DEF PeerFields
  <2>4. Peer!UInt32(Len(body)) = bl /\ Peer!UInt32(Len(f)) = fl
    BY PeerVocabulary
  <2>5. Peer!InOrder(e, bl) = b /\ Peer!InOrder(e, m.serial) = c /\ Peer!InOrder(e, fl) = g
    BY PeerVocabulary
  <2> HIDE DEF f, body, bl, fl, b, c, g, z
  <2>6. Peer!Encode([endian |-> m.endian, type |-> m.type, flags |-> m.flags,
                     serial |-> m.serial, body |-> body], m.list) = d
    BY <2>2, <2>3, <2>4, <2>5 DEF Peer!Encode
  <2> QED  BY <2>1, <2>6
<1>3. Len(f) \in Nat /\ Len(body) \in Nat /\ bl \in Word /\ fl \in Word
  <2>1. Len(f) \in Nat /\ Len(body) \in Nat
    BY <1>1
  <2> QED  BY <2>1, UInt32IsWord
<1> HIDE DEF f, body, e, bl, fl
<1>4. /\ s1 \in Seq(Byte) /\ Len(s1) = 4
      /\ s1[1] = e /\ s1[2] = m.type /\ s1[3] = m.flags
  <2>1. m.endian \in Byte /\ 1 \in Byte
    BY <1>1 DEF e, Byte
  <2> QED  BY <1>1, <2>1 DEF e
<1>5. /\ b \in Seq(Byte) /\ Len(b) = 4 /\ c \in Seq(Byte) /\ Len(c) = 4
      /\ g \in Seq(Byte) /\ Len(g) = 4
  <2>1. /\ bl \in Seq(Byte) /\ Len(bl) = 4 /\ m.serial \in Seq(Byte) /\ Len(m.serial) = 4
        /\ fl \in Seq(Byte) /\ Len(fl) = 4
    BY <1>1, <1>3, WordIsBytes
  <2> QED  BY <2>1, ReverseIsBytes
<1>6. n \in Nat /\ Len(f) <= n /\ z \in Seq(Byte) /\ Len(z) = n - Len(f)
  <2>1. n \in Nat /\ n >= Len(f)
    BY <1>3, Alignment DEF Sizes
  <2> HIDE DEF n
  <2>2. n - Len(f) \in Nat
    BY <1>3, <2>1
  <2>3. z = Zeros(n - Len(f))
    BY DEF n
  <2> QED  BY <2>1, <2>2, <2>3, ZerosAreBytes
<1>7. e = Little => b = bl /\ c = m.serial /\ g = fl
  BY DEF InOrder, Little, Big
<1> HIDE DEF s1, b, c, g, z, n
<1> DEFINE s2 == s1 \o b
           s3 == s2 \o c
           s4 == s3 \o g
           x  == f \o z
           s5 == s4 \o x
<1>num. 4 \in Nat /\ 8 \in Nat /\ 12 \in Nat /\ 16 \in Nat /\ 16 + n \in Nat
  BY <1>6
<1>join2. IsJoin(s2, s1, b, 4, 4)
  BY Zenon, <1>4, <1>5, <1>num, Joined
<1> HIDE DEF s2
<1>8. /\ s2 \in Seq(Byte) /\ Len(s2) = 8
      /\ \A i \in 1 .. 4 : s2[i] = s1[i]
      /\ \A i \in 1 .. 4 : s2[4 + i] = b[i]
  BY <1>join2 DEF IsJoin
<1>join3. IsJoin(s3, s2, c, 8, 4)
  BY Zenon, <1>5, <1>8, <1>num, Joined
<1> HIDE DEF s3
<1>9. /\ s3 \in Seq(Byte) /\ Len(s3) = 12
      /\ \A i \in 1 .. 8 : s3[i] = s2[i]
      /\ \A i \in 1 .. 4 : s3[8 + i] = c[i]
  BY <1>join3 DEF IsJoin
<1>join4. IsJoin(s4, s3, g, 12, 4)
  BY Zenon, <1>5, <1>9, <1>num, Joined
<1> HIDE DEF s4
<1>10. /\ s4 \in Seq(Byte) /\ Len(s4) = 16
       /\ \A i \in 1 .. 12 : s4[i] = s3[i]
       /\ \A i \in 1 .. 4 : s4[12 + i] = g[i]
  BY <1>join4 DEF IsJoin
<1>11. x \in Seq(Byte) /\ Len(x) = n /\ \A i \in 1 .. Len(f) : x[i] = f[i]
  <2>1. n - Len(f) \in Nat
    BY <1>3, <1>6
  <2>2. IsJoin(x, f, z, Len(f), n - Len(f))
    BY Zenon, <1>1, <1>3, <1>6, <2>1, Joined
  <2> HIDE DEF x
  <2> QED  BY <1>3, <1>6, <2>2 DEF IsJoin
<1> HIDE DEF x
<1>join5. IsJoin(s5, s4, x, 16, n)
  BY Zenon, <1>6, <1>10, <1>11, <1>num, Joined
<1> HIDE DEF s5
<1>12. /\ s5 \in Seq(Byte) /\ Len(s5) = 16 + n
       /\ \A i \in 1 .. 16 : s5[i] = s4[i]
       /\ \A i \in 1 .. n : s5[16 + i] = x[i]
  BY <1>join5 DEF IsJoin
<1>joined. IsJoin(d, s5, body, 16 + n, Len(body))
  <2>1. d = s5 \o body
    BY DEF s5, x, s4, s3, s2
  <2> HIDE DEF d
  <2> QED  BY Zenon, <1>1, <1>3, <1>12, <1>num, <2>1, Joined
<1> HIDE DEF d
<1>13. /\ d \in Seq(Byte) /\ Len(d) = 16 + n + Len(body)
       /\ \A i \in 1 .. 16 : d[i] = s5[i]
       /\ \A i \in 1 .. n : d[16 + i] = s5[16 + i]
       /\ \A i \in 1 .. Len(body) : d[16 + n + i] = body[i]
  <2>1. \A i \in 1 .. 16 : i \in 1 .. 16 + n
    BY <1>6
  <2>2. \A i \in 1 .. n : 16 + i \in 1 .. 16 + n
    BY <1>6
  <2> QED  BY <1>joined, <2>1, <2>2 DEF IsJoin
<1> DEFINE p == [d EXCEPT ![4] = m.version]
<1>14. /\ p \in Seq(Byte) /\ Len(p) = 16 + n + Len(body)
       /\ p[4] = m.version
       /\ \A i \in 1 .. Len(d) : i # 4 => p[i] = d[i]
  <2>1. 4 \in 1 .. Len(d)
    BY <1>3, <1>6, <1>13
  <2>2. /\ p \in Seq(Byte) /\ Len(p) = Len(d)
        /\ \A i \in 1 .. Len(d) : p[i] = IF i = 4 THEN m.version ELSE d[i]
    BY <1>1, <1>13, <2>1, ExceptSeq
  <2> HIDE DEF p
  <2> QED  BY <1>13, <2>1, <2>2
<1> HIDE DEF p
<1>same. \A i \in 1 .. 16 + n + Len(body) : i # 4 => p[i] = d[i]
  BY <1>13, <1>14
<1>first. p[1] = e /\ p[2] = m.type /\ p[3] = m.flags
  <2>1. ASSUME NEW i \in 1 .. 3
        PROVE  p[i] = s1[i]
    <3>1. i \in 1 .. 16 + n + Len(body) /\ i # 4 /\ i \in 1 .. 16 /\ i \in 1 .. 12
          /\ i \in 1 .. 8 /\ i \in 1 .. 4
      BY <1>3, <1>6
    <3>2. p[i] = d[i] /\ d[i] = s5[i] /\ s5[i] = s4[i]
      BY <1>12, <1>13, <1>same, <3>1
    <3>3. s4[i] = s3[i] /\ s3[i] = s2[i] /\ s2[i] = s1[i]
      BY <1>8, <1>9, <1>10, <3>1
    <3> QED  BY <3>2, <3>3
  <2>2. p[1] = s1[1] /\ p[2] = s1[2] /\ p[3] = s1[3]
    BY <2>1
  <2> QED  BY <1>4, <2>2
<1>fields. ASSUME NEW i \in 1 .. Len(f)
           PROVE  p[16 + i] = f[i]
  <2>1. i \in 1 .. n /\ 16 + i \in 1 .. 16 + n + Len(body) /\ 16 + i # 4
    BY <1>3, <1>6
  <2>2. p[16 + i] = d[16 + i] /\ d[16 + i] = s5[16 + i] /\ s5[16 + i] = x[i] /\ x[i] = f[i]
    BY <1>11, <1>12, <1>13, <1>same, <2>1
  <2> QED  BY <2>2
<1>body. ASSUME NEW i \in 1 .. Len(body)
         PROVE  p[16 + n + i] = body[i]
  <2>1. 16 + n + i \in 1 .. 16 + n + Len(body) /\ 16 + n + i # 4
    BY <1>3, <1>6
  <2> QED  BY <1>13, <1>same, <2>1
<1>numbers. \A i \in 5 .. 16 : p[i] = s4[i]
  <2> TAKE i \in 5 .. 16
  <2>1. i \in 1 .. 16 + n + Len(body) /\ i # 4 /\ i \in 1 .. 16
    BY <1>3, <1>6
  <2> QED  BY <1>12, <1>13, <1>same, <2>1
<1>15. ASSUME e = Little
       PROVE  SubSeq(p, 5, 8) = bl /\ SubSeq(p, 9, 12) = m.serial /\ SubSeq(p, 13, 16) = fl
  <2>1. \A i \in 1 .. 4 : p[4 + i] = bl[i]
    <3> TAKE i \in 1 .. 4
    <3>1. 4 + i \in 5 .. 16 /\ 4 + i \in 1 .. 16 /\ 4 + i \in 1 .. 12 /\ 4 + i \in 1 .. 8
      OBVIOUS
    <3>2. p[4 + i] = s4[4 + i]
      BY <1>numbers, <3>1
    <3>3. s4[4 + i] = s2[4 + i]
      BY <1>9, <1>10, <3>1
    <3>4. s2[4 + i] = b[i]
      BY <1>8
    <3> QED  BY <1>7, <1>15, <3>2, <3>3, <3>4
  <2>2. \A i \in 1 .. 4 : p[12 + i] = fl[i]
    <3> TAKE i \in 1 .. 4
    <3>1. 12 + i \in 5 .. 16 /\ 12 + i \in 1 .. 16
      OBVIOUS
    <3>2. p[12 + i] = s4[12 + i]
      BY <1>numbers, <3>1
    <3>3. s4[12 + i] = g[i]
      BY <1>10
    <3> QED  BY <1>7, <1>15, <3>2, <3>3
  <2>s. \A i \in 1 .. 4 : p[8 + i] = m.serial[i]
    <3> TAKE i \in 1 .. 4
    <3>1. 8 + i \in 5 .. 16 /\ 8 + i \in 1 .. 12
      OBVIOUS
    <3>2. p[8 + i] = s4[8 + i]
      BY <1>numbers, <3>1
    <3>3. s4[8 + i] = s3[8 + i] /\ s3[8 + i] = c[i]
      BY <1>9, <1>10, <3>1
    <3> QED  BY <1>7, <1>15, <3>2, <3>3
  <2>3. 4 + 4 <= Len(p) /\ 8 + 4 <= Len(p) /\ 12 + 4 <= Len(p)
    BY <1>3, <1>6, <1>14
  <2>4. SubSeq(p, 4 + 1, 4 + 4) = bl
    BY <1>3, <1>14, <2>1, <2>3, WordAt
  <2>5. SubSeq(p, 12 + 1, 12 + 4) = fl
    BY <1>3, <1>14, <2>2, <2>3, WordAt
  <2>6. SubSeq(p, 8 + 1, 8 + 4) = m.serial
    BY <1>1, <1>14, <2>s, <2>3, WordAt
  <2> QED  BY <2>4, <2>5, <2>6
<1>16. PeerBytes(m) = p
  BY <1>2 DEF p
<1> QED
  BY <1>6, <1>14, <1>15, <1>16, <1>first, <1>fields, <1>body DEF HeaderSize, f, body, e, bl, fl, n

----------------------------------------------------------------------------
(* The invariant *)

Phases == {"open", "sent", "header", "body", "fields", "failed", "undefined"}
Values == Byte \cup Seq(Byte) \cup BOOLEAN

Typed ==
    /\ phase \in Phases /\ msg \in Messages /\ wire \in Seq(Byte)
    /\ sent \in PeerMessages \cup {NoMessage}
    /\ items \in Seq(Values) /\ sets \in Nat

\* What readFd reads is what a peer has written.
WireInv == phase \in {"header", "body"} => sent \in PeerMessages /\ wire = PeerBytes(sent)

\* The fixed header is the one on the wire, and the reader is behind it.
HeaderInv ==
    phase = "body" =>
        /\ msg.reader.pos = HeaderSize
        /\ msg.fixed.bodyLen = SubSeq(wire, 5, 8) /\ msg.fixed.fieldsLen = SubSeq(wire, 13, 16)

\* What is sent is as long as its header says: a readFd at the other end waits
\* for exactly these bytes, whatever the byte order of the header.
SentWhole ==
    phase = "sent" /\ Len(SerializeFields(msg.fields)) < LengthLimit =>
        Len(wire) = TotalSize(msg.fixed)

CodecInv == Typed /\ WireInv /\ HeaderInv /\ SentWhole

LEMMA MessageParts ==
    ASSUME NEW m \in Messages
    PROVE  /\ m.fixed \in Headers /\ m.fields \in FieldMaps /\ m.fieldsValid \in BOOLEAN
           /\ m.reader \in Reader /\ m.valid \in BOOLEAN
BY DEF Messages

LEMMA TotalSizeIsNat ==
    ASSUME NEW h \in Headers
    PROVE  TotalSize(h) \in Nat /\ TotalSize(h) >= HeaderSize
<1> DEFINE f == Number(h.fieldsLen)
           b == Number(h.bodyLen)
<1>1. f \in Nat /\ b \in Nat
  BY NumberIsNat DEF Headers
<1>2. TotalSize(h) = AlignedTo(HeaderSize + f, 8) + b
  BY DEF TotalSize, HeaderTotal
<1> HIDE DEF f, b
<1>3. HeaderSize + f \in Nat /\ HeaderSize + f >= HeaderSize
  BY <1>1 DEF HeaderSize
<1>4. AlignedTo(HeaderSize + f, 8) \in Nat /\ AlignedTo(HeaderSize + f, 8) >= HeaderSize + f
  BY <1>3, Alignment DEF Sizes
<1> QED  BY <1>1, <1>2, <1>3, <1>4 DEF HeaderSize

LEMMA InitCodec == Init => CodecInv
<1> SUFFICES ASSUME Init
             PROVE  CodecInv
  OBVIOUS
<1>1. phase = "open" /\ msg = NewMessage /\ wire = <<>> /\ sent = NoMessage
      /\ items = <<>> /\ sets = 0
  BY DEF Init
<1>2. Typed
  BY <1>1, NewMessageIsMessage DEF Typed, Phases
<1> QED  BY <1>1, <1>2 DEF CodecInv, WireInv, HeaderInv, SentWhole

\* A step after which the message is neither on its way in nor just sent.
LEMMA OtherPhases ==
    ASSUME Typed', phase' \in {"open", "fields", "failed", "undefined"}
    PROVE  CodecInv'
BY DEF CodecInv, WireInv, HeaderInv, SentWhole

LEMMA SetFieldKeeps ==
    ASSUME CodecInv, NEW f \in Settable, NEW text \in Texts, SetField(f, text)
    PROVE  CodecInv'
<1>1. f \in Fields /\ f \notin NumberFields
  BY DEF Settable, Fields, StringFields, NumberFields, Path, Interface, Member, ErrorName,
         ReplySerial, Destination, Sender, Signature, UnixFDs
<1>2. text \in Seq(Byte)
  BY ProgramAssumption
<1>3. msg \in Messages
  BY DEF CodecInv, Typed
<1> DEFINE g == WithField(msg.fields, f, text)
<1>4. g \in FieldMaps
  BY <1>1, <1>2, <1>3, MessageParts, SetFieldStays
<1>5. msg' = [msg EXCEPT !.fields = g]
  BY <1>3 DEF SetField, Messages
<1> HIDE DEF g
<1>6. msg' \in Messages
  BY <1>3, <1>4, <1>5 DEF Messages
<1>7. phase' = "open" /\ sets' = sets + 1 /\ UNCHANGED <<wire, sent, items>>
  BY DEF SetField
<1>8. Typed'
  BY <1>6, <1>7 DEF CodecInv, Typed, Phases
<1> QED  BY <1>7, <1>8, OtherPhases

LEMMA SetTypeKeeps ==
    ASSUME CodecInv, NEW type \in Types, SetType(type)
    PROVE  CodecInv'
<1>1. type \in Byte
  BY ProgramAssumption
<1>2. msg \in Messages
  BY DEF CodecInv, Typed
<1>3. msg' = [msg EXCEPT !.fixed.type = type]
  BY DEF SetType
<1>4. msg' \in Messages
  BY <1>1, <1>2, <1>3 DEF Messages, Headers
<1>5. phase' = "open" /\ sets' = sets + 1 /\ UNCHANGED <<wire, sent, items>>
  BY DEF SetType
<1>6. Typed'
  BY <1>4, <1>5 DEF CodecInv, Typed, Phases
<1> QED  BY <1>5, <1>6, OtherPhases

LEMMA SendKeeps ==
    ASSUME CodecInv, NEW serial \in Serials, Send(serial)
    PROVE  CodecInv'
<1> DEFINE m == [msg EXCEPT !.fixed.serial = serial]
<1>1. serial \in Word
  BY ProgramAssumption DEF Word
<1>2. m \in Messages
  BY <1>1 DEF CodecInv, Typed, Messages, Headers
<1>3. wire' = Serialize(m) /\ msg' = WithLengths(m) /\ phase' = "sent"
      /\ UNCHANGED <<sent, items, sets>>
  BY DEF Send
<1> HIDE DEF m
<1>4. Typed'
  BY <1>2, <1>3, WithLengthsStays, SerializeIsBytes DEF CodecInv, Typed, Phases
<1>5. SentWhole'
  <2>1. WithLengths(m).fields = m.fields
    BY <1>2 DEF WithLengths, Messages
  <2>2. Len(SerializeFields(m.fields)) < LengthLimit =>
          Len(Serialize(m)) = TotalSize(WithLengths(m).fixed)
    BY <1>2, SerializeIsBytes
  <2> QED  BY SMT, <1>3, <2>1, <2>2 DEF SentWhole
<1> QED  BY <1>3, <1>4, <1>5 DEF CodecInv, WireInv, HeaderInv

LEMMA PeerSendsKeeps ==
    ASSUME CodecInv, NEW m \in PeerMessages, PeerSends(m)
    PROVE  CodecInv'
<1>1. phase' = "header" /\ wire' = PeerBytes(m) /\ sent' = m /\ UNCHANGED <<msg, items, sets>>
  BY DEF PeerSends
<1>2. PeerBytes(m) \in Seq(Byte)
  BY PeerBytesAreWhole
<1>3. Typed'
  BY <1>1, <1>2 DEF CodecInv, Typed, Phases
<1> QED  BY <1>1, <1>3 DEF CodecInv, WireInv, HeaderInv, SentWhole

LEMMA HeaderArrivesKeeps ==
    ASSUME CodecInv, HeaderArrives
    PROVE  CodecInv'
<1> DEFINE d == SubSeq(wire, 1, HeaderSize)
           h == ReadFixedHeader(NewReader(d))
<1>1. /\ phase = "header" /\ msg \in Messages /\ wire \in Seq(Byte)
      /\ sent \in PeerMessages /\ wire = PeerBytes(sent)
  BY DEF HeaderArrives, CodecInv, Typed, WireInv
<1>2. HeaderSize <= Len(wire) /\ HeaderSize = 16
  <2> DEFINE n == AlignedTo(Len(PeerFields(sent)), 8)
             b == Len(PeerBody(sent))
  <2>1. n \in Nat /\ Len(wire) = HeaderSize + n + b
    BY <1>1, PeerBytesAreWhole
  <2>2. b \in Nat
    BY <1>1, PeerSizes
  <2> HIDE DEF n, b
  <2> QED  BY <2>1, <2>2 DEF HeaderSize
<1>3. /\ d \in Seq(Byte) /\ Len(d) = HeaderSize
      /\ SubSeq(d, 5, 8) = SubSeq(wire, 5, 8) /\ SubSeq(d, 13, 16) = SubSeq(wire, 13, 16)
  <2>1. d \in Seq(Byte) /\ Len(d) = 16 /\ \A i \in 1 .. 16 : d[i] = wire[i]
    BY <1>1, <1>2
  <2> HIDE DEF d
  <2>2. SubSeq(d, 5, 8) = SubSeq(wire, 5, 8)
    BY <1>1, <1>2, <2>1
  <2>3. SubSeq(d, 13, 16) = SubSeq(wire, 13, 16)
    BY <1>1, <1>2, <2>1
  <2> QED  BY <1>2, <2>1, <2>2, <2>3
<1>4. /\ h.val \in Headers
      /\ h.val.valid =>
           /\ h.r \in Reader /\ h.r.pos = HeaderSize
           /\ h.val.bodyLen = SubSeq(wire, 5, 8) /\ h.val.fieldsLen = SubSeq(wire, 13, 16)
  <2> HIDE DEF d
  <2> QED  BY <1>3, FixedHeaderIsRead
<1>5. UNCHANGED <<wire, sent, items, sets>>
  BY DEF HeaderArrives
<1>6. \/ h.val.valid /\ msg' = [msg EXCEPT !.fixed = h.val, !.reader = h.r] /\ phase' = "body"
      \/ msg' = [msg EXCEPT !.fixed = h.val, !.reader = NewReader(<<>>)] /\ phase' = "failed"
  BY DEF HeaderArrives
<1> HIDE DEF d, h
<1>7. CASE h.val.valid /\ msg' = [msg EXCEPT !.fixed = h.val, !.reader = h.r] /\ phase' = "body"
  <2>1. msg' \in Messages /\ msg'.fixed = h.val /\ msg'.reader = h.r
    BY <1>1, <1>4, <1>7 DEF Messages
  <2>2. Typed'
    BY <1>5, <1>7, <2>1 DEF CodecInv, Typed, Phases
  <2>3. HeaderInv'
    BY <1>4, <1>5, <1>7, <2>1 DEF HeaderInv
  <2> QED  BY <1>1, <1>5, <1>7, <2>2, <2>3 DEF CodecInv, WireInv, SentWhole
<1>8. CASE msg' = [msg EXCEPT !.fixed = h.val, !.reader = NewReader(<<>>)] /\ phase' = "failed"
  <2>1. NewReader(<<>>) \in Reader
    BY NewMessageIsMessage DEF NewMessage, Messages
  <2>2. msg' \in Messages
    BY <1>1, <1>4, <1>8, <2>1 DEF Messages
  <2>3. Typed'
    BY <1>5, <1>8, <2>2 DEF CodecInv, Typed, Phases
  <2> QED  BY <1>8, <2>3, OtherPhases
<1> QED  BY <1>6, <1>7, <1>8

LEMMA BodyArrivesKeeps ==
    ASSUME CodecInv, BodyArrives
    PROVE  CodecInv'
<1> DEFINE n == TotalSize(msg.fixed)
           d == SubSeq(wire, 1, n)
<1>1. /\ msg \in Messages /\ wire \in Seq(Byte) /\ msg.reader.pos = HeaderSize
      /\ n <= Len(wire)
  BY DEF BodyArrives, CodecInv, Typed, HeaderInv
<1>2. n \in Nat /\ n >= HeaderSize
  BY <1>1, MessageParts, TotalSizeIsNat
<1>3. /\ msg' = [msg EXCEPT !.reader.data = d] /\ phase' = "fields"
      /\ UNCHANGED <<wire, sent, items, sets>>
  BY DEF BodyArrives
<1> HIDE DEF n
<1>4. d \in Seq(Byte) /\ Len(d) = n
  BY <1>1, <1>2
<1> HIDE DEF d
<1> DEFINE r == [msg.reader EXCEPT !.data = d]
<1>5. r \in Reader
  <2>1. msg.reader \in [data : Seq(Byte), pos : Nat, endian : Byte]
    BY <1>1, MessageParts DEF Reader, Readers
  <2>2. r \in Readers /\ r.pos = HeaderSize /\ r.data = d
    BY <1>1, <1>4, <2>1 DEF Readers
  <2> HIDE DEF r
  <2>3. r.pos <= Len(r.data)
    BY <1>2, <1>4, <2>2 DEF HeaderSize
  <2> QED  BY <2>2, <2>3 DEF Reader
<1>6. msg' = [msg EXCEPT !.reader = r]
  BY <1>1, <1>3 DEF Messages
<1> HIDE DEF r
<1>7. msg' \in Messages
  BY <1>1, <1>5, <1>6 DEF Messages
<1>8. Typed'
  BY <1>3, <1>7 DEF CodecInv, Typed, Phases
<1> QED  BY <1>3, <1>8, OtherPhases

LEMMA AtFieldIsReader ==
    ASSUME CodecInv
    PROVE  AtField \in Reader
<1>1. msg.reader \in Reader
  BY MessageParts DEF CodecInv, Typed
<1>2. ReadsOn(Align(msg.reader, 8), msg.reader, Nat)
  BY <1>1, AlignStays DEF Sizes
<1> QED  BY <1>2 DEF ReadsOn, AtField

LEMMA ReadFieldKeeps ==
    ASSUME CodecInv, ReadField
    PROVE  CodecInv'
<1> DEFINE field == ParseField(msg.fields, AtField)
<1>1. msg \in Messages /\ msg.fields \in FieldMaps /\ AtField \in Reader
  BY MessageParts, AtFieldIsReader DEF CodecInv, Typed
<1>2. ReadsOn(field, AtField, FieldMaps)
  BY <1>1, ParseFieldStays
<1>3. phase = "fields" /\ UNCHANGED <<wire, sent, items, sets>>
  BY DEF ReadField
<1>4. \/ field.ok /\ msg' = [msg EXCEPT !.fields = field.val, !.reader = field.r] /\ UNCHANGED phase
      \/ /\ msg' = [msg EXCEPT !.reader = NewReader(<<>>)]
         /\ phase' \in {"failed", "undefined"}
  BY DEF ReadField, PhaseAfter
<1> HIDE DEF field
<1>5. NewReader(<<>>) \in Reader
  BY NewMessageIsMessage DEF NewMessage, Messages
<1>6. msg' \in Messages
  <2>1. field.r \in Reader /\ (field.ok => field.val \in FieldMaps)
    BY <1>2 DEF ReadsOn
  <2> QED  BY <1>1, <1>4, <1>5, <2>1 DEF Messages
<1>7. phase' \in {"fields", "failed", "undefined"}
  BY <1>3, <1>4
<1>8. Typed'
  BY <1>3, <1>6, <1>7 DEF CodecInv, Typed, Phases
<1> QED  BY <1>7, <1>8, OtherPhases

LEMMA OpenKeeps ==
    ASSUME CodecInv, Open
    PROVE  CodecInv'
<1>1. msg \in Messages /\ AtField \in Reader
  BY AtFieldIsReader DEF CodecInv, Typed
<1>2. /\ msg' = [msg EXCEPT !.fieldsValid = TRUE, !.reader = AtField]
      /\ phase' = "open" /\ UNCHANGED <<wire, sent, items, sets>>
  BY DEF Open
<1>3. msg' \in Messages
  BY <1>1, <1>2 DEF Messages
<1>4. Typed'
  BY <1>2, <1>3 DEF CodecInv, Typed, Phases
<1> QED  BY <1>2, <1>4, OtherPhases

\* What both extractions have in common.
LEMMA ExtractKeeps ==
    ASSUME CodecInv, phase' \in {"open", "undefined"}, UNCHANGED <<wire, sent, sets>>,
           NEW v, NEW S \in SUBSET Values, ReadsOn(v, msg.reader, S),
           NEW b \in BOOLEAN, msg' = [msg EXCEPT !.reader = v.r, !.valid = b],
           items' = IF v.ok THEN Append(items, v.val) ELSE items
    PROVE  CodecInv'
<1>1. msg \in Messages /\ items \in Seq(Values)
  BY DEF CodecInv, Typed
<1>2. v.r \in Reader /\ (v.ok => v.val \in Values)
  BY DEF ReadsOn
<1>3. msg' \in Messages
  BY <1>1, <1>2 DEF Messages
<1>4. items' \in Seq(Values)
  BY <1>1, <1>2
<1>5. Typed'
  BY <1>3, <1>4 DEF CodecInv, Typed, Phases
<1> QED  BY <1>5, OtherPhases

LEMMA ExtractStringKeeps ==
    ASSUME CodecInv, ExtractString
    PROVE  CodecInv'
<1> DEFINE s == ReadString(msg.reader)
           b == msg.valid /\ s.ok
<1>1. msg \in Messages /\ msg.reader \in Reader /\ msg.valid \in BOOLEAN
  BY MessageParts DEF CodecInv, Typed
<1>2. ReadsOn(s, msg.reader, Seq(Byte)) /\ s.ok \in BOOLEAN
  BY <1>1, ReadStringStays DEF ReadsOn
<1>3. /\ msg' = [msg EXCEPT !.reader = s.r, !.valid = @ /\ s.ok]
      /\ items' = (IF s.ok THEN Append(items, s.val) ELSE items)
      /\ phase' \in {"open", "undefined"} /\ UNCHANGED <<wire, sent, sets>>
  BY DEF ExtractString, PhaseAfter
<1> HIDE DEF s
<1>4. msg' = [msg EXCEPT !.reader = s.r, !.valid = b]
  BY <1>1, <1>3 DEF Messages
<1>5. b \in BOOLEAN
  OBVIOUS
<1>6. Seq(Byte) \in SUBSET Values
  BY DEF Values
<1> HIDE DEF b
<1> QED  BY <1>2, <1>3, <1>4, <1>5, <1>6, ExtractKeeps

\* Every type of an item is one of which the reader has a function.
LEMMA ReadItemStays ==
    ASSUME CodecInv, NextType # CharS
    PROVE  \E S \in SUBSET Values : ReadsOn(ReadItem(NextType), msg.reader, S)
<1> DEFINE t == NextType
           v == ReadItem(t)
           r == msg.reader
<1>1. r \in Reader
  BY MessageParts DEF CodecInv, Typed
<1>2. t \in {CharY, CharQ, CharU, CharB, CharT, CharS, CharG}
  <2>1. sent # NoMessage /\ Len(items) < Len(sent.items) /\ t = sent.items[Len(items) + 1][1]
    BY DEF NextType
  <2>2. sent \in PeerMessages /\ Len(items) \in Nat
    BY <2>1, LenProperties DEF CodecInv, Typed
  <2>3. Len(sent.items) \in Nat
    BY <2>2, PeerAssumption
  <2>4. Len(items) + 1 \in 1 .. Len(sent.items)
    BY <2>1, <2>2, <2>3
  <2> HIDE DEF t
  <2> QED  BY <2>1, <2>2, <2>4, PeerAssumption
<1> HIDE DEF t, r
<1>3. v = CASE t = CharY -> ReadUInt8(r)
            [] t = CharQ -> ReadUInt(r, 2)
            [] t = CharU -> ReadUInt(r, 4)
            [] t = CharB -> ReadBool(r)
            [] t = CharT -> ReadUInt(r, 8)
            [] t = CharG -> ReadSignature(r)
  BY DEF ReadItem, r
<1>4. v \in {ReadUInt8(r), ReadUInt(r, 2), ReadUInt(r, 4), ReadBool(r), ReadUInt(r, 8),
             ReadSignature(r)}
  <2> HIDE DEF v
  <2>1. t # CharS
    BY DEF t
  <2> QED  BY <1>2, <1>3, <2>1 DEF CharY, CharQ, CharU, CharB, CharT, CharG
<1> HIDE DEF v
<1>5. /\ Byte \in SUBSET Values /\ BOOLEAN \in SUBSET Values /\ Seq(Byte) \in SUBSET Values
      /\ Strings(2) \in SUBSET Values /\ Strings(4) \in SUBSET Values
      /\ Strings(8) \in SUBSET Values
  BY DEF Values, Strings
<1>6. ReadsOn(ReadUInt8(r), r, Byte)
  BY <1>1, ReadUInt8Stays
<1>7. /\ ReadsOn(ReadUInt(r, 2), r, Strings(2)) /\ ReadsOn(ReadUInt(r, 4), r, Strings(4))
      /\ ReadsOn(ReadUInt(r, 8), r, Strings(8))
  BY <1>1, ReadUIntStays DEF Sizes
<1>8. ReadsOn(ReadBool(r), r, BOOLEAN)
  BY <1>1, ReadBoolStays
<1>9. ReadsOn(ReadSignature(r), r, Seq(Byte))
  BY <1>1, ReadSignatureStays
<1>10. \E S \in SUBSET Values : ReadsOn(v, r, S)
  BY Zenon, <1>4, <1>5, <1>6, <1>7, <1>8, <1>9
<1> QED  BY <1>10 DEF v, t, r

LEMMA ExtractOtherKeeps ==
    ASSUME CodecInv, ExtractOther
    PROVE  CodecInv'
<1> DEFINE v == ReadItem(NextType)
           b == msg.valid
<1>1. msg \in Messages /\ b \in BOOLEAN
  BY MessageParts DEF CodecInv, Typed
<1>2. /\ msg' = [msg EXCEPT !.reader = v.r]
      /\ items' = (IF v.ok THEN Append(items, v.val) ELSE items)
      /\ phase' = "open" /\ UNCHANGED <<wire, sent, sets>> /\ NextType # CharS
  BY DEF ExtractOther
<1>3. PICK S \in SUBSET Values : ReadsOn(v, msg.reader, S)
  BY <1>2, ReadItemStays
<1> HIDE DEF v
<1>4. msg' = [msg EXCEPT !.reader = v.r, !.valid = b]
  BY <1>1, <1>2 DEF Messages
<1> HIDE DEF b
<1> QED  BY <1>1, <1>2, <1>3, <1>4, ExtractKeeps

LEMMA NextKeepsCodec ==
    ASSUME CodecInv, [Next]_vars
    PROVE  CodecInv'
<1>1. CASE \E f \in Settable, text \in Texts : SetField(f, text)
  BY <1>1, SetFieldKeeps
<1>2. CASE \E type \in Types : SetType(type)
  BY <1>2, SetTypeKeeps
<1>3. CASE \E serial \in Serials : Send(serial)
  BY <1>3, SendKeeps
<1>4. CASE \E m \in PeerMessages : PeerSends(m)
  BY <1>4, PeerSendsKeeps
<1>5. CASE HeaderArrives
  BY <1>5, HeaderArrivesKeeps
<1>6. CASE BodyArrives
  BY <1>6, BodyArrivesKeeps
<1>7. CASE ReadField
  BY <1>7, ReadFieldKeeps
<1>8. CASE Open
  BY <1>8, OpenKeeps
<1>9. CASE ExtractString
  BY <1>9, ExtractStringKeeps
<1>10. CASE ExtractOther
  BY <1>10, ExtractOtherKeeps
<1>11. CASE UNCHANGED vars
  BY <1>11 DEF vars, CodecInv, Typed, WireInv, HeaderInv, SentWhole
<1> QED
  BY <1>1, <1>2, <1>3, <1>4, <1>5, <1>6, <1>7, <1>8, <1>9, <1>10, <1>11 DEF Next, ReadFd

THEOREM CodecInvariant == Spec => []CodecInv
<1>1. CodecInv /\ [Next]_vars => CodecInv'
  BY NextKeepsCodec
<1> QED  BY <1>1, InitCodec, PTL DEF Spec

\* Whatever a peer sends, and whatever the program reads of the body: the
\* reader's position never passes the end of its bytes, no read makes a value of
\* bytes that are not there, and no field gets a code that the library does not
\* know, until a text of 2^32 - 1 characters is read, which the library takes to
\* be there; of what follows nothing is said. What is sent is bytes.
THEOREM CodecTypeCorrect == Spec => []TypeOK
<1>1. CodecInv => TypeOK
  <2> SUFFICES ASSUME CodecInv
               PROVE  TypeOK
    OBVIOUS
  <2>1. phase \in Phases /\ msg \in Messages /\ wire \in Seq(Byte) /\ sets \in Nat
    BY DEF CodecInv, Typed
  <2>2. DOMAIN msg.fields \subseteq Fields /\ msg.valid \in BOOLEAN
    BY <2>1, MessageParts, FieldMapParts
  <2>3. /\ msg.reader.data \in Seq(Byte) /\ msg.reader.pos \in Nat /\ Len(msg.reader.data) \in Nat
        /\ msg.reader.pos <= Len(msg.reader.data)
    BY <2>1, MessageParts, ReaderParts
  <2>4. msg.reader.pos \in 0 .. Len(msg.reader.data)
    BY <2>3
  <2> QED  BY <2>1, <2>2, <2>3, <2>4 DEF TypeOK, Phases
<1> QED  BY <1>1, CodecInvariant, PTL

\* readFd waits for exactly the message a little-endian peer has written, for
\* header fields and bodies of every length.
THEOREM WaitsForWhole == Spec => []LittleEndianWhole
<1>1. CodecInv => LittleEndianWhole
  <2> SUFFICES ASSUME CodecInv, phase = "body", sent.endian = Little
               PROVE  TotalSize(msg.fixed) = Len(wire)
    BY DEF LittleEndianWhole
  <2> DEFINE f == Len(PeerFields(sent))
             b == Len(PeerBody(sent))
             n == AlignedTo(f, 8)
  <2>1. sent \in PeerMessages /\ wire = PeerBytes(sent)
    BY DEF CodecInv, WireInv
  <2>2. f \in Nat /\ b \in Nat /\ f < LengthLimit /\ b < LengthLimit
    <3> DEFINE k == MaxSize
               l == LengthLimit
    <3>1. f \in Nat /\ b \in Nat /\ f < k /\ b < k /\ k < l /\ k \in Nat /\ l \in Nat
      BY <2>1, PeerSizes DEF MaxSize, LengthLimit
    <3> HIDE DEF f, b, k, l
    <3>2. f < l /\ b < l
      BY <3>1
    <3> QED  BY <3>1, <3>2 DEF l
  <2>3. /\ n \in Nat /\ Len(wire) = HeaderSize + n + b
        /\ SubSeq(wire, 5, 8) = UInt32(b) /\ SubSeq(wire, 13, 16) = UInt32(f)
    BY <2>1, PeerBytesAreWhole
  <2>4. msg.fixed.bodyLen = UInt32(b) /\ msg.fixed.fieldsLen = UInt32(f)
    BY <2>3 DEF CodecInv, HeaderInv
  <2> HIDE DEF f, b, n
  <2>5. Number(UInt32(b)) = b /\ Number(UInt32(f)) = f
    BY SMT, <2>2, UInt32IsWord
  <2>6. TotalSize(msg.fixed) = AlignedTo(HeaderSize + f, 8) + b
    BY <2>4, <2>5 DEF TotalSize, HeaderTotal
  <2>7. AlignedTo(HeaderSize + f, 8) = HeaderSize + n
    BY SMT, <2>2, PaddedHeader DEF n
  <2> QED  BY <2>3, <2>6, <2>7
<1> QED  BY <1>1, CodecInvariant, PTL

\* What the library serializes is exactly as long as the header in it says, for
\* every message the program makes or passes on, up to fields of 2^32 - 2 bytes: a
\* readFd at the other end is left with none of it and waits for no more.
THEOREM SentIsWhole == Spec => []SentWhole
<1>1. CodecInv => SentWhole
  BY DEF CodecInv
<1> QED  BY <1>1, CodecInvariant, PTL

============================================================================
