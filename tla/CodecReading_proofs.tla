------------------------ MODULE CodecReading_proofs ------------------------
(***************************************************************************)
(* What the library reads of a peer's message. A reader of the library     *)
(* stands, between two fields and between two items, where the peer's      *)
(* writer stood after it had written the one and before it wrote the next; *)
(* so each field and each item comes back as it was written. Then what     *)
(* the example's parser makes of the same bytes, and of those the library  *)
(* writes: it reads back every message that the library sends.             *)
(***************************************************************************)
EXTENDS Codec_proofs

\* The types of the fields.
LEMMA TypesOfFields ==
    ASSUME NEW f \in Fields
    PROVE  /\ Peer!TypeOf(f) \in {CharO, CharS, CharU, CharG}
           /\ Peer!TypeOf(f) \in {CharO, CharS} <=> f \in StringFields
           /\ Peer!TypeOf(f) = CharU <=> f \in NumberFields
           /\ Peer!TypeOf(f) = CharG <=> f = Signature
           /\ f = Path => Peer!TypeOf(f) = CharO
           /\ f \in StringFields \ {Path} => Peer!TypeOf(f) = CharS
<1>1. /\ CharO # CharS /\ CharO # CharU /\ CharO # CharG
      /\ CharS # CharU /\ CharS # CharG /\ CharU # CharG
  BY DEF CharO, CharS, CharU, CharG
<1>2. Peer!CharO = CharO /\ Peer!CharS = CharS /\ Peer!CharU = CharU /\ Peer!CharG = CharG
  BY DEF Peer!CharO, CharO, Peer!CharS, CharS, Peer!CharU, CharU, Peer!CharG, CharG
<1>3. Peer!TypeOf(f) = CASE f = Path                     -> CharO
                         [] f \in StringFields \ {Path}  -> CharS
                         [] f \in NumberFields           -> CharU
                         [] f = Signature                -> CharG
  BY <1>2 DEF Peer!TypeOf, Peer!Path, Path, Peer!StringFields, StringFields,
         Peer!NumberFields, NumberFields, Peer!Signature, Signature, Peer!Interface, Interface,
         Peer!Member, Member, Peer!ErrorName, ErrorName, Peer!Destination, Destination,
         Peer!Sender, Sender, Peer!ReplySerial, ReplySerial, Peer!UnixFDs, UnixFDs
<1>4. /\ Path \notin NumberFields /\ Signature \notin NumberFields /\ Signature # Path
      /\ Path \in StringFields
      /\ Signature \notin StringFields /\ StringFields \cap NumberFields = {}
  BY DEF StringFields, NumberFields, Path, Interface, Member, ErrorName,
         ReplySerial, Destination, Sender, Signature, UnixFDs
<1>5. CASE f = Path
  BY <1>1, <1>3, <1>4, <1>5
<1>6. CASE f \in StringFields \ {Path}
  BY <1>1, <1>3, <1>4, <1>6
<1>7. CASE f \in NumberFields
  BY <1>1, <1>3, <1>4, <1>7
<1>8. CASE f = Signature
  BY <1>1, <1>3, <1>4, <1>8
<1> QED  BY <1>5, <1>6, <1>7, <1>8 DEF Fields

\* The reader's function for each type, and what a value of the type stands for.
ReadAs(t, r) ==
    CASE t = CharY            -> ReadUInt8(r)
      [] t = CharQ            -> ReadUInt(r, 2)
      [] t = CharU            -> ReadUInt(r, 4)
      [] t = CharB            -> ReadBool(r)
      [] t = CharT            -> ReadUInt(r, 8)
      [] t \in {CharS, CharO} -> ReadString(r)
      [] t = CharG            -> ReadSignature(r)

Meaning(t, v) == IF t = CharB THEN v # Zeros(4) ELSE v

LEMMA TypesDiffer ==
    /\ CharY \notin {CharQ, CharU, CharB, CharT, CharS, CharO, CharG}
    /\ CharQ \notin {CharY, CharU, CharB, CharT, CharS, CharO, CharG}
    /\ CharU \notin {CharY, CharQ, CharB, CharT, CharS, CharO, CharG}
    /\ CharB \notin {CharY, CharQ, CharU, CharT, CharS, CharO, CharG}
    /\ CharT \notin {CharY, CharQ, CharU, CharB, CharS, CharO, CharG}
    /\ CharS \notin {CharY, CharQ, CharU, CharB, CharT, CharO, CharG}
    /\ CharO \notin {CharY, CharQ, CharU, CharB, CharT, CharS, CharG}
    /\ CharG \notin {CharY, CharQ, CharU, CharB, CharT, CharS, CharO}
BY DEF CharY, CharQ, CharU, CharB, CharT, CharS, CharO, CharG

\* A value of any type is read as it was written.
LEMMA ValueComesBack ==
    ASSUME NEW w \in Writer, NEW t \in ValueTypes, NEW v, IsValue(t, v),
           NEW d, Begins(WriteAs(w, t, v), d)
    PROVE  /\ Begins(w, d)
           /\ ReadAs(t, At(w, d)) = Got(Meaning(t, v), At(WriteAs(w, t, v), d))
<1> DEFINE r == At(w, d)
           u == WriteAs(w, t, v)
<1>1. CASE t = CharY
  <2>1. u = WriteUInt8(w, v) /\ ReadAs(t, r) = ReadUInt8(r) /\ Meaning(t, v) = v
    BY <1>1, TypesDiffer DEF WriteAs, ReadAs, Meaning
  <2>2. v \in Byte
    BY <1>1, ValueParts
  <2> HIDE DEF u, r
  <2>3. Begins(w, d) /\ ReadUInt8(At(w, d)) = Got(v, At(WriteUInt8(w, v), d))
    BY <2>1, <2>2, UInt8ComesBack DEF u
  <2> QED  BY <2>1, <2>3 DEF u, r
<1>2. ASSUME NEW n \in {2, 4, 8}, v \in Seq(Byte), Len(v) = n, t \notin {CharY, CharS, CharO, CharG}
      PROVE  Begins(w, d) /\ ReadUInt(r, n) = Got(v, At(u, d))
  <2>1. u = WriteUInt(w, v)
    BY <1>2 DEF WriteAs
  <2>2. n \in Sizes
    BY DEF Sizes
  <2> HIDE DEF u
  <2>3. Begins(w, d) /\ ReadUInt(At(w, d), n) = Got(v, At(WriteUInt(w, v), d))
    BY <1>2, <2>1, <2>2, UIntComesBack DEF u
  <2> QED  BY <2>1, <2>3
<1>3. CASE t = CharQ
  <2>1. ReadAs(t, r) = ReadUInt(r, 2) /\ Meaning(t, v) = v
    BY <1>3, TypesDiffer DEF ReadAs, Meaning
  <2>2. v \in Seq(Byte) /\ Len(v) = 2 /\ t \notin {CharY, CharS, CharO, CharG}
    BY <1>3, TypesDiffer, ValueParts
  <2> QED  BY <1>2, <2>1, <2>2
<1>4. CASE t = CharU
  <2>1. ReadAs(t, r) = ReadUInt(r, 4) /\ Meaning(t, v) = v
    BY <1>4, TypesDiffer DEF ReadAs, Meaning
  <2>2. v \in Seq(Byte) /\ Len(v) = 4 /\ t \notin {CharY, CharS, CharO, CharG}
    BY <1>4, TypesDiffer, ValueParts
  <2> QED  BY <1>2, <2>1, <2>2
<1>5. CASE t = CharB
  <2>1. ReadAs(t, r) = ReadBool(r) /\ Meaning(t, v) = (v # Zeros(4))
    BY <1>5, TypesDiffer DEF ReadAs, Meaning
  <2>2. v \in Seq(Byte) /\ Len(v) = 4 /\ t \notin {CharY, CharS, CharO, CharG}
    BY <1>5, TypesDiffer, ValueParts
  <2>3. Begins(w, d) /\ ReadUInt(r, 4) = Got(v, At(u, d))
    BY <1>2, <2>2
  <2> DEFINE read == ReadUInt(r, 4)
  <2> HIDE DEF u, r
  <2>4. read.ok /\ read.val = v /\ read.r = At(u, d)
    BY <2>3 DEF Got
  <2>5. ReadBool(r) = IF read.ok THEN Got(read.val # Zeros(4), read.r) ELSE read
    BY DEF ReadBool, Then
  <2> HIDE DEF read
  <2>6. ReadBool(r) = Got(v # Zeros(4), At(u, d))
    BY Zenon, <2>4, <2>5
  <2> QED  BY <2>1, <2>3, <2>6 DEF u, r
<1>6. CASE t = CharT
  <2>1. ReadAs(t, r) = ReadUInt(r, 8) /\ Meaning(t, v) = v
    BY <1>6, TypesDiffer DEF ReadAs, Meaning
  <2>2. v \in Seq(Byte) /\ Len(v) = 8 /\ t \notin {CharY, CharS, CharO, CharG}
    BY <1>6, TypesDiffer, ValueParts
  <2> QED  BY <1>2, <2>1, <2>2
<1>7. CASE t \in {CharS, CharO}
  <2>1. u = WriteString(w, v) /\ ReadAs(t, r) = ReadString(r) /\ Meaning(t, v) = v
    BY <1>7, TypesDiffer DEF WriteAs, ReadAs, Meaning
  <2>2. v \in Seq(Byte) /\ Len(v) < LengthLimit
    BY <1>7, TypesDiffer, ValueParts
  <2> HIDE DEF u, r
  <2>3. Begins(w, d) /\ ReadString(At(w, d)) = Got(v, At(WriteString(w, v), d))
    BY <2>1, <2>2, StringComesBack DEF u
  <2> QED  BY <2>1, <2>3 DEF u, r
<1>8. CASE t = CharG
  <2>1. u = WriteSignature(w, v) /\ ReadAs(t, r) = ReadSignature(r) /\ Meaning(t, v) = v
    BY <1>8, TypesDiffer DEF WriteAs, ReadAs, Meaning
  <2>2. v \in Seq(Byte) /\ Len(v) < 256
    BY <1>8, TypesDiffer, ValueParts
  <2> HIDE DEF u, r
  <2>3. Begins(w, d) /\ ReadSignature(At(w, d)) = Got(v, At(WriteSignature(w, v), d))
    BY <2>1, <2>2, SignatureComesBack DEF u
  <2> QED  BY <2>1, <2>3 DEF u, r
<1> QED  BY <1>1, <1>3, <1>4, <1>5, <1>6, <1>7, <1>8 DEF ValueTypes

LEMMA UIntLength ==
    ASSUME NEW w \in Writer, NEW b \in Seq(Byte), NEW n \in Sizes, Len(b) = n
    PROVE  Len(WriteUInt(w, b).data) = AlignedTo(Len(w.data), n) + n
<1> DEFINE p == PadTo(w, n)
           o == InOrder(w.endian, b)
<1>1. p \in Writer /\ Len(p.data) = AlignedTo(Len(w.data), n) /\ p.data \in Seq(Byte)
  <2>1. p \in Writer /\ Len(p.data) = AlignedTo(Len(w.data), n)
    BY PaddedLength
  <2> QED  BY <2>1, WriterParts
<1>2. o \in Seq(Byte) /\ Len(o) = Len(b)
  BY ReverseIsBytes
<1>3. WriteUInt(w, b) = Put(p, o)
  BY DEF WriteUInt
<1> HIDE DEF p, o
<1>4. Put(p, o).data = p.data \o o
  BY <1>1, <1>2, PutIsWriter
<1>5. Len(p.data \o o) = Len(p.data) + Len(o)
  BY <1>1, <1>2, ConcatProperties
<1> QED  BY <1>1, <1>2, <1>3, <1>4, <1>5

\* The code and the type of a field take four bytes.
LEMMA FieldStart ==
    ASSUME NEW p \in Writer, NEW f \in Byte, NEW t \in Byte
    PROVE  LET x == WriteSignature(WriteUInt8(p, f), << t >>)
           IN  /\ x \in Writer /\ x.endian = p.endian
               /\ Len(x.data) = Len(p.data) + 4
<1> DEFINE q == WriteUInt8(p, f)
           c == <<t>>
           one == <<1>>
           nul == <<0>>
           x == WriteSignature(q, c)
<1>1. c \in Seq(Byte) /\ Len(c) = 1
  OBVIOUS
<1>2. one \in Seq(Byte) /\ Len(one) = 1 /\ nul \in Seq(Byte) /\ Len(nul) = 1
  BY DEF Byte
<1>3. q \in Writer /\ q.endian = p.endian /\ Len(q.data) = Len(p.data) + 1 /\ q.data \in Seq(Byte)
  <2>1. GoesOn(q, p) /\ q.data = Append(p.data, f)
    BY UInt8GoesOn
  <2> HIDE DEF q
  <2>2. p.data \in Seq(Byte)
    BY WriterParts
  <2>3. Len(Append(p.data, f)) = Len(p.data) + 1
    BY <2>2
  <2> QED  BY <2>1, <2>3, WriterParts DEF GoesOn
<1> HIDE DEF q, c
<1>4. GoesOn(x, q)
  BY <1>1, <1>3, SignatureGoesOn
<1>5. x.data = ((q.data \o one) \o c) \o nul
  <2>1. x.data = ((q.data \o <<Len(c)>>) \o c) \o <<0>>
    <3>1. Len(c) < 256
      BY <1>1
    <3> QED  BY Zenon, <1>1, <1>3, <3>1, SameValues
  <2>2. <<Len(c)>> = one
    BY <1>1
  <2> QED  BY <2>1, <2>2
<1> HIDE DEF x, one, nul
<1>6. q.data \o one \in Seq(Byte) /\ Len(q.data \o one) = Len(q.data) + 1
  <2> DEFINE y == q.data
  <2>1. y \in Seq(Byte)
    BY <1>3
  <2> HIDE DEF y
  <2>2. y \o one \in Seq(Byte) /\ Len(y \o one) = Len(y) + Len(one)
    BY <1>2, <2>1, ConcatProperties
  <2>3. y \o one \in Seq(Byte) /\ Len(y \o one) = Len(y) + 1
    BY Zenon, <1>2, <2>2
  <2> QED  BY <2>3 DEF y
<1>7. (q.data \o one) \o c \in Seq(Byte) /\ Len((q.data \o one) \o c) = Len(q.data) + 1 + 1
  BY <1>1, <1>6, ConcatProperties
<1>8. Len(((q.data \o one) \o c) \o nul) = Len(q.data) + 1 + 1 + 1
  <2> DEFINE y == (q.data \o one) \o c
             k == Len(q.data)
  <2>1. y \in Seq(Byte) /\ Len(y) = k + 1 + 1
    BY <1>7
  <2> HIDE DEF y, k
  <2>2. Len(y \o nul) = Len(y) + Len(nul)
    BY <1>2, <2>1, ConcatProperties
  <2>3. Len(y \o nul) = k + 1 + 1 + 1
    BY <1>2, <2>1, <2>2
  <2> QED  BY <2>3 DEF y, k
<1>9. Len(x.data) = Len(p.data) + 4
  <2>1. Len(p.data) \in Nat
    BY WriterParts
  <2> QED  BY <1>3, <1>5, <1>8, <2>1
<1>10. x \in Writer /\ x.endian = p.endian /\ Len(x.data) = Len(p.data) + 4
  BY <1>3, <1>4, <1>9 DEF GoesOn
<1> QED  BY <1>10 DEF x, q, c

\* The reader r of d finds the next field where w would write it.
Near(r, w, d) ==
    /\ r \in Reader /\ r.data = d /\ r.endian = w.endian
    /\ AlignedTo(r.pos, 8) = AlignedTo(Len(w.data), 8)

LEMMA AtIsNear ==
    ASSUME NEW w, NEW d, Begins(w, d)
    PROVE  Near(At(w, d), w, d)
BY AtIsReader DEF Near

\* A field of a code that the library does not know, and of a type it does not
\* know, is skipped if its value ends before the next field may begin.
LEMMA ShortValue ==
    ASSUME NEW x \in Writer, NEW n \in Nat, Len(x.data) = n + 4, n % 8 = 0,
           NEW t \in {CharY, CharQ, CharB}, NEW v, IsValue(t, v)
    PROVE  AlignedTo(Len(WriteAs(x, t, v).data), 8) = AlignedTo(n + 4, 8)
<1> DEFINE u == WriteAs(x, t, v)
           l == Len(u.data)
<1>0. t \in ValueTypes
  BY DEF ValueTypes
<1>9. \A k \in {1, 2, 4} : AlignedTo(n + 4 + k, 8) = AlignedTo(n + 4, 8)
  BY DEF AlignedTo
<1>1. CASE t = CharY
  <2>1. u = WriteUInt8(x, v) /\ v \in Byte
    <3>1. u = WriteUInt8(x, v)
      BY <1>1, TypesDiffer DEF WriteAs
    <3>2. v \in Byte
      BY <1>0, <1>1, ValueParts
    <3> QED  BY <3>1, <3>2
  <2> HIDE DEF u
  <2>2. u.data = Append(x.data, v) /\ x.data \in Seq(Byte)
    BY <2>1, UInt8GoesOn, WriterParts
  <2>3. Len(Append(x.data, v)) = Len(x.data) + 1
    BY <2>2
  <2>4. l = n + 4 + 1
    BY <2>2, <2>3
  <2> HIDE DEF l
  <2> QED  BY <1>9, <2>4 DEF l, u
<1>2. ASSUME NEW k \in {2, 4}, t \notin {CharY, CharS, CharO, CharG}, v \in Seq(Byte), Len(v) = k
      PROVE  l = n + 4 + k
  <2>1. u = WriteUInt(x, v)
    BY <1>2 DEF WriteAs
  <2>2. Len(WriteUInt(x, v).data) = AlignedTo(n + 4, k) + k
    <3>1. k \in Sizes
      BY DEF Sizes
    <3> QED  BY <1>2, <3>1, UIntLength
  <2> HIDE DEF u
  <2>3. AlignedTo(n + 4, k) = n + 4
    BY DEF AlignedTo
  <2> QED  BY <1>2, <2>1, <2>2, <2>3
<1>3. CASE t = CharQ
  <2>1. v \in Seq(Byte) /\ Len(v) = 2 /\ t \notin {CharY, CharS, CharO, CharG}
    BY <1>0, <1>3, ValueParts, TypesDiffer
  <2>2. l = n + 4 + 2
    BY <1>2, <2>1
  <2> HIDE DEF l
  <2> QED  BY <1>9, <2>2 DEF l, u
<1>4. CASE t = CharB
  <2>1. v \in Seq(Byte) /\ Len(v) = 4 /\ t \notin {CharY, CharS, CharO, CharG}
    BY <1>0, <1>4, ValueParts, TypesDiffer
  <2>2. l = n + 4 + 4
    BY <1>2, <2>1
  <2> HIDE DEF l
  <2> QED  BY <1>9, <2>2 DEF l, u
<1> QED  BY <1>1, <1>3, <1>4

\* ParseField reads a field of any code as it was written, keeps it if the
\* library knows the code, and goes on to where the next field is.
LEMMA AnyFieldComesBack ==
    ASSUME NEW w \in Writer, NEW f \in Byte, NEW t \in ValueTypes, NEW v, IsValue(t, v),
           f \in Fields => t = Peer!TypeOf(f), f \in Fields \/ t # CharT,
           NEW d, Begins(WriteFieldAs(w, f, t, v), d), NEW g
    PROVE  LET field == ParseField(g, At(PadTo(w, 8), d))
           IN  /\ Begins(w, d) /\ Align(At(w, d), 8).ok
               /\ Align(At(w, d), 8).r = At(PadTo(w, 8), d) /\ Begins(PadTo(w, 8), d)
               /\ field.ok /\ field.val = IF f \in Fields THEN WithField(g, f, v) ELSE g
               /\ Near(field.r, WriteFieldAs(w, f, t, v), d)
<1> DEFINE p == PadTo(w, 8)
           q == WriteUInt8(p, f)
           c == <<t>>
           x == WriteSignature(q, c)
           u == WriteAs(x, t, v)
           field == ParseField(g, At(p, d))
           code == ReadUInt8(At(p, d))
           type == ReadSignature(At(q, d))
           kept == IF f \in Fields THEN WithField(g, f, v) ELSE g
<1>1. u = WriteFieldAs(w, f, t, v)
  BY DEF WriteFieldAs
<1>2. p \in Writer /\ p.endian = w.endian /\ Len(p.data) = AlignedTo(Len(w.data), 8)
      /\ Len(p.data) \in Nat /\ Len(p.data) % 8 = 0
  <2>1. p \in Writer /\ p.endian = w.endian /\ Len(p.data) = AlignedTo(Len(w.data), 8)
    BY PaddedLength DEF Sizes
  <2>2. AlignedTo(Len(w.data), 8) \in Nat /\ AlignedTo(Len(w.data), 8) % 8 = 0
    BY Alignment, WriterParts DEF Sizes
  <2> QED  BY <2>1, <2>2
<1>3. t \in Byte /\ c \in Seq(Byte) /\ Len(c) < 256
  <2>1. t \in Byte
    BY DEF ValueTypes, CharY, CharQ, CharU, CharB, CharT, CharS, CharO, CharG, Byte
  <2> QED  BY <2>1
<1>p. p = PadTo(w, 8) /\ kept = IF f \in Fields THEN WithField(g, f, v) ELSE g
  OBVIOUS
<1> HIDE DEF p
<1>4. x \in Writer /\ x.endian = p.endian /\ Len(x.data) = Len(p.data) + 4
  BY <1>2, <1>3, FieldStart
<1>5. q \in Writer
  BY <1>2, UInt8GoesOn DEF GoesOn
<1> HIDE DEF x, q, c
<1>6. Begins(x, d) /\ ReadAs(t, At(x, d)) = Got(Meaning(t, v), At(u, d))
  <2> HIDE DEF u
  <2>1. Begins(u, d)
    BY <1>1
  <2> QED  BY <1>4, <2>1, ValueComesBack DEF u
<1>7. Begins(q, d) /\ type = Got(c, At(x, d))
  BY <1>3, <1>5, <1>6, SignatureComesBack DEF x
<1>8. Begins(p, d) /\ code = Got(f, At(q, d))
  BY <1>2, <1>7, UInt8ComesBack DEF q
<1>9. Begins(w, d) /\ Align(At(w, d), 8).ok /\ Align(At(w, d), 8).r = At(p, d)
  <2>1. Begins(w, d) /\ Align(At(w, d), 8) = Got(Len(p.data), At(p, d))
    BY <1>8, <1>p, PaddingComesBack DEF Sizes
  <2> QED  BY <2>1 DEF Got
<1>10. field = ReadFieldValue(g, f, c, At(x, d))
  <2>1. code.ok /\ code.val = f /\ code.r = At(q, d)
    BY <1>8 DEF Got
  <2>2. type.ok /\ type.val = c /\ type.r = At(x, d)
    BY <1>7 DEF Got
  <2>3. field =
          IF code.ok THEN IF ReadSignature(code.r).ok
                          THEN ReadFieldValue(g, code.val, ReadSignature(code.r).val,
                                              ReadSignature(code.r).r)
                          ELSE ReadSignature(code.r)
          ELSE code
    BY DEF ParseField, Then
  <2> HIDE DEF code, field
  <2>4. ReadSignature(code.r) = type
    BY <2>1
  <2> HIDE DEF type
  <2> QED  BY <2>1, <2>2, <2>3, <2>4
<1>11. Near(At(u, d), u, d)
  <2> HIDE DEF u
  <2> QED  BY <1>1, AtIsNear
<1> HIDE DEF u, field, code, type
<1>12. ASSUME NEW known, NEW read, read = Got(v, At(u, d)), f \in known <=> f \in Fields,
              field = Store(g, f, known, read)
       PROVE  field.ok /\ field.val = kept /\ Near(field.r, u, d)
  BY <1>11, <1>12 DEF Store, Then, Got
<1>13. ASSUME t \in {CharS, CharO}
       PROVE  field.ok /\ field.val = kept /\ Near(field.r, u, d)
  <2>1. ReadAs(t, At(x, d)) = ReadString(At(x, d)) /\ Meaning(t, v) = v
    BY <1>13, TypesDiffer DEF ReadAs, Meaning
  <2>2. field = Store(g, f, StringFields, ReadString(At(x, d)))
    <3>1. c \in {<<CharS>>, <<CharO>>} /\ c # <<CharG>> /\ c # <<CharU>>
      BY <1>13, TypesDiffer DEF c
    <3> QED  BY <1>10, <3>1 DEF ReadFieldValue
  <2>3. f \in StringFields <=> f \in Fields
    BY <1>13, TypesOfFields, TypesDiffer DEF Fields
  <2>4. ReadString(At(x, d)) = Got(v, At(u, d))
    BY <1>6, <2>1
  <2>5. field.ok /\ field.val = kept /\ Near(field.r, u, d)
    BY Zenon, <1>12, <2>2, <2>3, <2>4
  <2> QED  BY <2>5
<1>14. ASSUME t = CharG
       PROVE  field.ok /\ field.val = kept /\ Near(field.r, u, d)
  <2>1. ReadAs(t, At(x, d)) = ReadSignature(At(x, d)) /\ Meaning(t, v) = v
    BY <1>14, TypesDiffer DEF ReadAs, Meaning
  <2>2. field = Store(g, f, {Signature}, ReadSignature(At(x, d)))
    <3>1. c \notin {<<CharS>>, <<CharO>>} /\ c = <<CharG>> /\ c # <<CharU>>
      BY <1>14, TypesDiffer DEF c
    <3> QED  BY <1>10, <3>1 DEF ReadFieldValue
  <2>3. f \in {Signature} <=> f \in Fields
    BY <1>14, TypesOfFields, TypesDiffer DEF Fields
  <2>4. ReadSignature(At(x, d)) = Got(v, At(u, d))
    BY <1>6, <2>1
  <2>5. field.ok /\ field.val = kept /\ Near(field.r, u, d)
    BY Zenon, <1>12, <2>2, <2>3, <2>4
  <2> QED  BY <2>5
<1>15. ASSUME t = CharU
       PROVE  field.ok /\ field.val = kept /\ Near(field.r, u, d)
  <2>1. ReadAs(t, At(x, d)) = ReadUInt(At(x, d), 4) /\ Meaning(t, v) = v
    BY <1>15, TypesDiffer DEF ReadAs, Meaning
  <2>2. field = Store(g, f, NumberFields, ReadUInt(At(x, d), 4))
    <3>1. c \notin {<<CharS>>, <<CharO>>} /\ c # <<CharG>> /\ c = <<CharU>>
      BY <1>15, TypesDiffer DEF c
    <3> QED  BY <1>10, <3>1 DEF ReadFieldValue
  <2>3. f \in NumberFields <=> f \in Fields
    BY <1>15, TypesOfFields, TypesDiffer DEF Fields
  <2>4. ReadUInt(At(x, d), 4) = Got(v, At(u, d))
    BY <1>6, <2>1
  <2>5. field.ok /\ field.val = kept /\ Near(field.r, u, d)
    BY Zenon, <1>12, <2>2, <2>3, <2>4
  <2> QED  BY <2>5
<1>16. ASSUME t \in {CharY, CharQ, CharB, CharT}
       PROVE  field.ok /\ field.val = kept /\ Near(field.r, u, d)
  <2>1. f \notin Fields /\ t \in {CharY, CharQ, CharB}
    BY <1>16, TypesOfFields, TypesDiffer
  <2>2. field = Got(g, At(x, d))
    <3>1. c \notin {<<CharS>>, <<CharO>>} /\ c # <<CharG>> /\ c # <<CharU>>
      BY <1>16, TypesDiffer DEF c
    <3> QED  BY <1>10, <3>1 DEF ReadFieldValue
  <2>3. field.ok /\ field.val = g /\ field.r = At(x, d)
    BY <2>2 DEF Got
  <2>4. Near(At(x, d), x, d)
    BY <1>6, AtIsNear
  <2>5. AlignedTo(Len(u.data), 8) = AlignedTo(Len(x.data), 8)
    BY <1>2, <1>4, <2>1, ShortValue DEF u
  <2>6. u.endian = x.endian
    BY <1>4, ValuesAreWrittenAlike DEF GoesOn, u
  <2>7. Near(field.r, u, d)
    BY <2>3, <2>4, <2>5, <2>6 DEF Near
  <2>8. kept = g
    BY <2>1
  <2> QED  BY <2>3, <2>7, <2>8
<1>17. field.ok /\ field.val = kept /\ Near(field.r, u, d)
  BY <1>13, <1>14, <1>15, <1>16 DEF ValueTypes
<1> QED  BY <1>1, <1>8, <1>9, <1>17 DEF field, p, kept

\* Whole words of eight bytes.
Blocks == {x \in Seq(Byte) : Len(x) % 8 = 0}

\* A writer that writes behind the bytes x.
After(x, w) == [data |-> x \o w.data, endian |-> w.endian]

LEMMA AfterIsWriter ==
    ASSUME NEW x \in Seq(Byte), NEW w \in Writer
    PROVE  /\ After(x, w) \in Writer /\ After(x, w).data = x \o w.data
           /\ After(x, w).endian = w.endian
           /\ Len(After(x, w).data) = Len(x) + Len(w.data)
<1>1. w.data \in Seq(Byte) /\ w.endian \in Byte
  BY WriterParts
<1>2. x \o w.data \in Seq(Byte) /\ Len(x \o w.data) = Len(x) + Len(w.data)
  BY <1>1, ConcatProperties
<1> DEFINE y == x \o w.data
<1> HIDE DEF y
<1>3. After(x, w) = [data |-> y, endian |-> w.endian]
  BY DEF After, y
<1>4. After(x, w) \in Writer /\ After(x, w).data = y /\ After(x, w).endian = w.endian
  BY <1>1, <1>2, <1>3 DEF Writer, y
<1> QED  BY <1>2, <1>4 DEF y

\* Writers that have written the same.
LEMMA SameWriter ==
    ASSUME NEW u \in Writer, NEW w \in Writer, u.data = w.data, u.endian = w.endian
    PROVE  u = w
BY DEF Writer

LEMMA PutAfter ==
    ASSUME NEW x \in Seq(Byte), NEW w \in Writer, NEW b \in Seq(Byte)
    PROVE  Put(After(x, w), b) = After(x, Put(w, b))
<1> DEFINE u == After(x, w)
           p == Put(w, b)
<1>1. p \in Writer /\ p.endian = w.endian /\ p.data = w.data \o b
  BY PutIsWriter
<1>2. u \in Writer /\ u.endian = w.endian /\ u.data = x \o w.data
  BY AfterIsWriter
<1> HIDE DEF p, u
<1>3. Put(u, b) \in Writer /\ Put(u, b).endian = w.endian /\ Put(u, b).data = (x \o w.data) \o b
  <2>1. Put(u, b) \in Writer /\ Put(u, b).endian = u.endian /\ Put(u, b).data = u.data \o b
    BY Zenon, <1>2, PutIsWriter
  <2> QED  BY Zenon, <1>2, <2>1
<1>4. After(x, p) \in Writer /\ After(x, p).endian = w.endian /\ After(x, p).data = x \o (w.data \o b)
  <2>1. After(x, p) \in Writer /\ After(x, p).endian = p.endian /\ After(x, p).data = x \o p.data
    BY Zenon, <1>1, AfterIsWriter
  <2> QED  BY Zenon, <1>1, <2>1
<1>5. (x \o w.data) \o b = x \o (w.data \o b)
  <2> DEFINE y == w.data
  <2>1. y \in Seq(Byte)
    BY WriterParts
  <2> HIDE DEF y
  <2>2. (x \o y) \o b = x \o (y \o b)
    BY <2>1, ConcatAssociative
  <2> QED  BY <2>2 DEF y
<1>6. Put(u, b) = After(x, p)
  BY <1>3, <1>4, <1>5, SameWriter
<1> QED  BY <1>6 DEF u, p

LEMMA AlignedAfter ==
    ASSUME NEW j \in Nat, j % 8 = 0, NEW n \in Nat, NEW a \in Sizes
    PROVE  AlignedTo(j + n, a) - (j + n) = AlignedTo(n, a) - n
<1>1. PICK k \in Nat : j = 8 * k
  <2>1. j = 8 * (j \div 8) /\ j \div 8 \in Nat
    OBVIOUS
  <2> QED  BY <2>1
<1>2. CASE a = 1
  BY <1>1, <1>2 DEF AlignedTo
<1>3. CASE a = 2
  BY <1>1, <1>3 DEF AlignedTo
<1>4. CASE a = 4
  BY <1>1, <1>4 DEF AlignedTo
<1>5. CASE a = 8
  BY <1>1, <1>5 DEF AlignedTo
<1> QED  BY <1>2, <1>3, <1>4, <1>5 DEF Sizes

LEMMA PadToAfter ==
    ASSUME NEW x \in Blocks, NEW w \in Writer, NEW a \in Sizes
    PROVE  PadTo(After(x, w), a) = After(x, PadTo(w, a))
<1> DEFINE n == Len(w.data)
           j == Len(x)
           u == After(x, w)
           k == AlignedTo(n, a) - n
<1>1. n \in Nat /\ j \in Nat /\ j % 8 = 0 /\ x \in Seq(Byte)
  BY WriterParts DEF Blocks
<1>2. Len(u.data) = j + n
  BY <1>1, AfterIsWriter
<1>3. PadTo(w, a) = Put(w, Zeros(k))
  BY DEF PadTo
<1> HIDE DEF n, j, u
<1>4. k \in Nat /\ AlignedTo(j + n, a) - (j + n) = k
  <2>1. AlignedTo(n, a) \in Nat /\ AlignedTo(n, a) >= n
    BY <1>1, Alignment
  <2> QED  BY <1>1, <2>1, AlignedAfter
<1>5. PadTo(u, a) = Put(u, Zeros(AlignedTo(Len(u.data), a) - Len(u.data)))
  BY DEF PadTo
<1> HIDE DEF k
<1>6. PadTo(u, a) = Put(u, Zeros(k))
  BY <1>2, <1>4, <1>5
<1>7. Put(u, Zeros(k)) = After(x, Put(w, Zeros(k)))
  BY <1>1, <1>4, ZerosAreBytes, PutAfter DEF u
<1> QED  BY <1>3, <1>6, <1>7 DEF u

LEMMA UInt8After ==
    ASSUME NEW x \in Blocks, NEW w \in Writer, NEW v \in Byte
    PROVE  WriteUInt8(After(x, w), v) = After(x, WriteUInt8(w, v))
<1>1. << v >> \in Seq(Byte) /\ x \in Seq(Byte)
  BY DEF Blocks
<1> QED  BY <1>1, PutAfter DEF WriteUInt8

LEMMA UIntAfter ==
    ASSUME NEW x \in Blocks, NEW w \in Writer, NEW b \in Seq(Byte), Len(b) \in Sizes
    PROVE  WriteUInt(After(x, w), b) = After(x, WriteUInt(w, b))
<1> DEFINE p == PadTo(w, Len(b))
           u == After(x, w)
<1>1. PadTo(u, Len(b)) = After(x, p)
  BY PadToAfter
<1>2. p \in Writer
  BY PaddedLength
<1>3. u.endian = w.endian /\ x \in Seq(Byte)
  BY AfterIsWriter DEF Blocks
<1>e. p.endian = w.endian
  BY PaddedLength
<1>4. WriteUInt(w, b) = Put(p, InOrder(w.endian, b))
  BY DEF WriteUInt
<1>5. WriteUInt(u, b) = Put(PadTo(u, Len(b)), InOrder(u.endian, b))
  BY DEF WriteUInt
<1> HIDE DEF p, u
<1>6. InOrder(w.endian, b) \in Seq(Byte)
  BY ReverseIsBytes
<1>7. WriteUInt(u, b) = Put(After(x, p), InOrder(w.endian, b))
  BY <1>1, <1>3, <1>5
<1>8. Put(After(x, p), InOrder(w.endian, b)) = After(x, Put(p, InOrder(w.endian, b)))
  BY <1>2, <1>3, <1>6, PutAfter
<1>9. WriteUInt(u, b) = After(x, WriteUInt(w, b))
  BY Zenon, <1>4, <1>7, <1>8
<1> QED  BY <1>9 DEF u

LEMMA StringAfter ==
    ASSUME NEW x \in Blocks, NEW w \in Writer, NEW s \in Seq(Byte)
    PROVE  WriteString(After(x, w), s) = After(x, WriteString(w, s))
<1> DEFINE b == UInt32(Len(s))
           q == WriteUInt(w, b)
           z == s \o <<0>>
<1>1. b \in Seq(Byte) /\ Len(b) \in Sizes
  <2>1. Len(s) \in Nat
    OBVIOUS
  <2>2. b \in Seq(Byte) /\ Len(b) = 4
    BY <2>1, UInt32IsWord, WordIsBytes
  <2> QED  BY <2>2 DEF Sizes
<1>2. z \in Seq(Byte) /\ x \in Seq(Byte)
  BY TextIsBytes DEF Blocks
<1>3. WriteString(w, s) = Put(q, z) /\ WriteString(After(x, w), s) = Put(WriteUInt(After(x, w), b), z)
  BY DEF WriteString
<1> HIDE DEF b, z
<1>4. q \in Writer /\ WriteUInt(After(x, w), b) = After(x, q)
  BY <1>1, WriteUIntIsWriter, UIntAfter
<1> HIDE DEF q
<1>5. Put(After(x, q), z) = After(x, Put(q, z))
  BY <1>2, <1>4, PutAfter
<1> QED  BY <1>3, <1>4, <1>5

LEMMA SignatureAfter ==
    ASSUME NEW x \in Blocks, NEW w \in Writer, NEW s \in Seq(Byte)
    PROVE  WriteSignature(After(x, w), s) = After(x, WriteSignature(w, s))
<1> DEFINE n == Len(s)
           b == n % 256
           q == WriteUInt8(w, b)
           z == s \o <<0>>
<1>1. b \in Byte
  <2>1. n \in Nat
    OBVIOUS
  <2> HIDE DEF n
  <2> QED  BY <2>1 DEF Byte
<1>2. z \in Seq(Byte) /\ x \in Seq(Byte)
  BY TextIsBytes DEF Blocks
<1>3. WriteSignature(w, s) = Put(q, z) /\ WriteSignature(After(x, w), s) = Put(WriteUInt8(After(x, w), b), z)
  BY DEF WriteSignature
<1> HIDE DEF b, z
<1>4. q \in Writer /\ WriteUInt8(After(x, w), b) = After(x, q)
  BY <1>1, WriteUInt8IsWriter, UInt8After
<1> HIDE DEF q
<1>5. Put(After(x, q), z) = After(x, Put(q, z))
  BY <1>2, <1>4, PutAfter
<1> QED  BY <1>3, <1>4, <1>5

LEMMA ValueAfter ==
    ASSUME NEW x \in Blocks, NEW w \in Writer, NEW t \in ValueTypes, NEW v, IsValue(t, v)
    PROVE  WriteAs(After(x, w), t, v) = After(x, WriteAs(w, t, v))
<1>1. CASE t = CharY
  <2>1. v \in Byte
    BY <1>1, ValueParts
  <2>2. \A u : WriteAs(u, t, v) = WriteUInt8(u, v)
    BY <1>1, TypesDiffer DEF WriteAs
  <2>3. WriteUInt8(After(x, w), v) = After(x, WriteUInt8(w, v))
    BY <2>1, UInt8After
  <2> QED  BY Zenon, <2>2, <2>3
<1>2. CASE t \in {CharS, CharO}
  <2>1. v \in Seq(Byte)
    BY <1>2, TypesDiffer, ValueParts
  <2>2. \A u : WriteAs(u, t, v) = WriteString(u, v)
    BY <1>2, TypesDiffer DEF WriteAs
  <2>3. WriteString(After(x, w), v) = After(x, WriteString(w, v))
    BY <2>1, StringAfter
  <2> QED  BY Zenon, <2>2, <2>3
<1>3. CASE t = CharG
  <2>1. v \in Seq(Byte)
    BY <1>3, TypesDiffer, ValueParts
  <2>2. \A u : WriteAs(u, t, v) = WriteSignature(u, v)
    BY <1>3, TypesDiffer DEF WriteAs
  <2>3. WriteSignature(After(x, w), v) = After(x, WriteSignature(w, v))
    BY <2>1, SignatureAfter
  <2> QED  BY Zenon, <2>2, <2>3
<1>4. CASE t \notin {CharY, CharS, CharO, CharG}
  <2>1. v \in Seq(Byte) /\ Len(v) \in Sizes
    BY <1>4, ValueParts
  <2>2. \A u : WriteAs(u, t, v) = WriteUInt(u, v)
    BY <1>4 DEF WriteAs
  <2>3. WriteUInt(After(x, w), v) = After(x, WriteUInt(w, v))
    BY <2>1, UIntAfter
  <2> QED  BY Zenon, <2>2, <2>3
<1> QED  BY <1>1, <1>2, <1>3, <1>4

LEMMA FieldAfter ==
    ASSUME NEW x \in Blocks, NEW w \in Writer, NEW f \in Byte, NEW t \in ValueTypes,
           NEW v, IsValue(t, v)
    PROVE  WriteFieldAs(After(x, w), f, t, v) = After(x, WriteFieldAs(w, f, t, v))
<1> DEFINE p == PadTo(w, 8)
           q == WriteUInt8(p, f)
           c == << t >>
           s == WriteSignature(q, c)
<1>1. c \in Seq(Byte)
  <2>1. t \in Byte
    BY DEF ValueTypes, CharY, CharQ, CharU, CharB, CharT, CharS, CharO, CharG, Byte
  <2> QED  BY <2>1
<1>2. \A u : WriteFieldAs(u, f, t, v) = WriteAs(WriteSignature(WriteUInt8(PadTo(u, 8), f), c), t, v)
  BY DEF WriteFieldAs
<1> HIDE DEF c
<1>3. p \in Writer /\ PadTo(After(x, w), 8) = After(x, p)
  BY PaddedLength, PadToAfter DEF Sizes
<1> HIDE DEF p
<1>4. q \in Writer /\ WriteUInt8(After(x, p), f) = After(x, q)
  BY <1>3, WriteUInt8IsWriter, UInt8After
<1> HIDE DEF q
<1>5. s \in Writer /\ WriteSignature(After(x, q), c) = After(x, s)
  BY <1>1, <1>4, WriteSignatureIsWriter, SignatureAfter
<1> HIDE DEF s
<1>6. WriteAs(After(x, s), t, v) = After(x, WriteAs(s, t, v))
  BY <1>5, ValueAfter
<1>7. WriteFieldAs(w, f, t, v) = WriteAs(s, t, v)
  BY <1>2 DEF p, q, s
<1>8. WriteFieldAs(After(x, w), f, t, v) = WriteAs(After(x, s), t, v)
  BY <1>2, <1>3, <1>4, <1>5
<1> QED  BY <1>6, <1>7, <1>8

\* The writer that has written the fixed header of m and n of its fields.
FieldStage(m, n) ==
    Wrote(SubSeq(PeerBytes(m), 1, HeaderSize) \o Peer!WriteFields(m.endian, m.list)[n], m.endian)

BodyStart(m) == HeaderSize + AlignedTo(Len(PeerFields(m)), 8)

\* And the one that has written the whole header and n items of the body.
ItemStage(m, n) ==
    Wrote(SubSeq(PeerBytes(m), 1, BodyStart(m)) \o Peer!WriteAll(m.endian, m.items)[n], m.endian)

\* The beginning of a peer's message, up to its fields or up to its body.
LEMMA Beginning ==
    ASSUME NEW m \in PeerMessages, NEW k, k \in {HeaderSize, BodyStart(m)}
    PROVE  LET x == SubSeq(PeerBytes(m), 1, k)
           IN  /\ x \in Blocks /\ Len(x) = k /\ k \in Nat /\ k <= Len(PeerBytes(m))
               /\ \A i \in 1 .. k : x[i] = PeerBytes(m)[i]
<1> DEFINE d == PeerBytes(m)
           l == Len(PeerFields(m))
           n == AlignedTo(l, 8)
           b == Len(PeerBody(m))
           x == SubSeq(d, 1, k)
<1>1. d \in Seq(Byte) /\ n \in Nat /\ Len(d) = HeaderSize + n + b
  BY PeerBytesAreWhole
<1>2. b \in Nat /\ l \in Nat
  BY PeerSizes
<1>3. n % 8 = 0
  BY <1>2, Alignment DEF Sizes
<1>4. k = HeaderSize \/ k = HeaderSize + n
  BY DEF BodyStart
<1> HIDE DEF d, n, b, l
<1>5. k \in Nat /\ k % 8 = 0 /\ k <= Len(d)
  BY <1>1, <1>2, <1>3, <1>4 DEF HeaderSize
<1>6. x \in Seq(Byte) /\ Len(x) = k /\ \A i \in 1 .. k : x[i] = d[i]
  BY <1>1, <1>5
<1> HIDE DEF x
<1>7. x \in Blocks
  BY <1>5, <1>6 DEF Blocks
<1> QED  BY <1>5, <1>6, <1>7 DEF x, d

\* One field more.
LEMMA NextField ==
    ASSUME NEW m \in PeerMessages, NEW n \in 1 .. Len(m.list)
    PROVE  LET w == FieldStage(m, n - 1)
               u == WriteFieldAs(w, m.list[n][1], m.list[n][2], m.list[n][3])
           IN  w \in Writer /\ FieldStage(m, n) = u /\ GoesOn(u, PadTo(w, 8))
<1> DEFINE F == Peer!WriteFields(m.endian, m.list)
           f == m.list[n][1]
           t == m.list[n][2]
           v == m.list[n][3]
           e == m.endian
           x == SubSeq(PeerBytes(m), 1, HeaderSize)
           a == F[n - 1]
           c == F[n]
           w == Wrote(a, e)
           u == WriteFieldAs(w, f, t, v)
<1>1. f \in Byte /\ t \in ValueTypes /\ IsValue(t, v) /\ e \in Byte
  BY PeerMessageParts
<1>2. a \in Seq(Byte) /\ c \in Seq(Byte) /\ c = Peer!WriteField(e, a, f, t, v)
  <2>1. /\ F \in [0 .. Len(m.list) -> Seq(Byte)]
        /\ F[n] = Peer!WriteField(e, F[n - 1], f, t, v)
    BY PeerFieldsAreBytes
  <2> HIDE DEF F, e, f, t, v
  <2>2. n \in 0 .. Len(m.list) /\ n - 1 \in 0 .. Len(m.list)
    OBVIOUS
  <2> QED  BY <2>1, <2>2
<1>3. x \in Blocks
  BY Beginning
<1>4. \A b : FieldStage(m, n) = Wrote(x \o c, e) /\ FieldStage(m, n - 1) = Wrote(x \o a, e)
  BY DEF FieldStage
<1> HIDE DEF F, f, t, v, e, x, a, c
<1>5. w \in Writer /\ w.data = a /\ w.endian = e
  BY <1>1, <1>2, WroteIsWriter
<1> HIDE DEF w
<1>6. u \in Writer /\ u.endian = e /\ u.data = c
  <2>1. GoesOn(u, PadTo(w, 8)) /\ u.data = Peer!WriteField(w.endian, w.data, f, t, v)
    BY <1>1, <1>5, AnyFieldIsWrittenAlike
  <2>2. PadTo(w, 8).endian = w.endian
    BY <1>5, PaddedLength DEF Sizes
  <2> HIDE DEF u
  <2> QED  BY <1>2, <1>5, <2>1, <2>2 DEF GoesOn
<1>7. After(x, u) = Wrote(x \o c, e) /\ After(x, w) = Wrote(x \o a, e)
  BY <1>5, <1>6 DEF After, Wrote
<1>8. WriteFieldAs(After(x, w), f, t, v) = After(x, u)
  BY <1>1, <1>3, <1>5, FieldAfter
<1>9. After(x, w) \in Writer
  BY <1>3, <1>5, AfterIsWriter DEF Blocks
<1>10. GoesOn(WriteFieldAs(After(x, w), f, t, v), PadTo(After(x, w), 8))
  BY <1>1, <1>9, AnyFieldIsWrittenAlike
<1> HIDE DEF u
<1>11. /\ FieldStage(m, n - 1) = After(x, w) /\ FieldStage(m, n) = After(x, u)
  BY <1>4, <1>7
<1> QED  BY <1>8, <1>9, <1>10, <1>11 DEF f, t, v

\* The length of what has been written after n fields.
LEMMA FieldStageParts ==
    ASSUME NEW m \in PeerMessages, NEW n \in 0 .. Len(m.list)
    PROVE  /\ FieldStage(m, n) \in Writer /\ FieldStage(m, n).endian = m.endian
           /\ FieldStage(m, 0).data = SubSeq(PeerBytes(m), 1, HeaderSize)
           /\ FieldStage(m, Len(m.list)).data =
                SubSeq(PeerBytes(m), 1, HeaderSize) \o PeerFields(m)
<1> DEFINE F == Peer!WriteFields(m.endian, m.list)
           e == m.endian
           x == SubSeq(PeerBytes(m), 1, HeaderSize)
<1>1. F \in [0 .. Len(m.list) -> Seq(Byte)] /\ F[0] = <<>> /\ PeerFields(m) = F[Len(m.list)]
  BY PeerFieldsAreBytes
<1>2. e \in Byte /\ Len(m.list) \in Nat
  BY PeerMessageParts
<1>3. x \in Seq(Byte)
  BY Beginning DEF Blocks
<1>4. \A k : FieldStage(m, k) = Wrote(x \o F[k], e)
  BY DEF FieldStage
<1> HIDE DEF F, x
<1>5. \A k \in 0 .. Len(m.list) : FieldStage(m, k) \in Writer /\ FieldStage(m, k).endian = e
                                   /\ FieldStage(m, k).data = x \o F[k]
  <2> TAKE k \in 0 .. Len(m.list)
  <2>1. F[k] \in Seq(Byte)
    BY <1>1
  <2>2. x \o F[k] \in Seq(Byte)
    BY <1>3, <2>1, ConcatProperties
  <2>3. FieldStage(m, k) = Wrote(x \o F[k], e)
    BY <1>4
  <2> DEFINE y == x \o F[k]
  <2> HIDE DEF y, e
  <2>4. Wrote(y, e) \in Writer /\ Wrote(y, e).endian = e /\ Wrote(y, e).data = y
    BY <1>2, <2>2, WroteIsWriter DEF y
  <2> QED  BY <2>3, <2>4 DEF y
<1>6. x \o <<>> = x
  BY <1>3, ConcatEmptySeq
<1>7. 0 \in 0 .. Len(m.list) /\ Len(m.list) \in 0 .. Len(m.list)
  BY <1>2
<1> QED  BY <1>1, <1>5, <1>6, <1>7 DEF x

\* The message begins with each stage; and there is a field to read
\* as long as not all have been read.
LEMMA FieldsInMessage ==
    ASSUME NEW m \in PeerMessages, Skippable(m), NEW n \in 0 .. Len(m.list)
    PROVE  /\ Begins(FieldStage(m, n), PeerBytes(m))
           /\ LET next == AlignedTo(Len(FieldStage(m, n).data), 8)
              IN  next < HeaderSize + Len(PeerFields(m)) <=> n < Len(m.list)
<1> DEFINE d == PeerBytes(m)
           S(k) == FieldStage(m, k)
           N == Len(m.list)
           end == HeaderSize + Len(PeerFields(m))
           T == {k \in 0 .. N : Begins(S(k), d) /\ Len(S(k).data) <= end}
           x == SubSeq(d, 1, HeaderSize)
<1>1. N \in Nat
  BY PeerMessageParts
<1>2. \A k \in 0 .. N : S(k) \in Writer /\ Len(S(k).data) \in Nat
  BY FieldStageParts, WriterParts
<1>3. S(N) \in Writer /\ S(N).data = x \o PeerFields(m)
  <2>1. N \in 0 .. N
    BY <1>1
  <2> QED  BY <2>1, FieldStageParts
<1>4. /\ x \in Seq(Byte) /\ Len(x) = HeaderSize /\ \A i \in 1 .. HeaderSize : x[i] = d[i]
  BY Beginning DEF Blocks
<1>5. /\ d \in Seq(Byte) /\ end <= Len(d) /\ end \in Nat
      /\ \A i \in 1 .. Len(PeerFields(m)) : d[16 + i] = PeerFields(m)[i]
  <2> DEFINE l == Len(PeerFields(m))
             p == AlignedTo(l, 8)
             b == Len(PeerBody(m))
  <2>1. /\ d \in Seq(Byte) /\ p \in Nat /\ l <= p /\ Len(d) = HeaderSize + p + b
        /\ \A i \in 1 .. l : d[16 + i] = PeerFields(m)[i]
    BY PeerBytesAreWhole
  <2>2. l \in Nat /\ b \in Nat
    BY PeerSizes
  <2> HIDE DEF p, b, d, l
  <2>3. HeaderSize + l <= Len(d) /\ HeaderSize + l \in Nat
    BY <2>1, <2>2 DEF HeaderSize
  <2> QED  BY <2>1, <2>3 DEF l
<1>6. N \in T
  <2> DEFINE y == x \o PeerFields(m)
             l == Len(PeerFields(m))
  <2>1. PeerFields(m) \in Seq(Byte) /\ l \in Nat
    BY PeerFieldsAreBytes
  <2>2. /\ y \in Seq(Byte) /\ Len(y) = Len(x) + l
        /\ \A i \in 1 .. Len(x) + l : y[i] = IF i <= Len(x) THEN x[i] ELSE PeerFields(m)[i - Len(x)]
    BY <1>4, <2>1, ConcatProperties
  <2>3. end = HeaderSize + l
    OBVIOUS
  <2> HIDE DEF y, l, x, d, end
  <2>x. Len(x) = 16
    BY <1>4 DEF HeaderSize
  <2>y. \A i \in 1 .. 16 + l : y[i] = IF i <= 16 THEN x[i] ELSE PeerFields(m)[i - 16]
    BY <2>2, <2>x
  <2>4. ASSUME NEW i \in 1 .. 16 + l
        PROVE  d[i] = y[i]
    <3>1. CASE i <= 16
      <4>1. i \in 1 .. HeaderSize
        BY <2>1, <3>1 DEF HeaderSize
      <4> QED  BY <1>4, <2>y, <3>1, <4>1
    <3>2. CASE i > 16
      <4>1. i - 16 \in 1 .. l /\ 16 + (i - 16) = i
        BY <2>1, <3>2
      <4>2. y[i] = PeerFields(m)[i - 16]
        BY <2>1, <2>y, <3>2
      <4> QED  BY <1>5, <4>1, <4>2 DEF l
    <3> QED  BY <2>1, <3>1, <3>2
  <2>5. Len(y) = 16 + l /\ Len(y) <= Len(d) /\ Len(y) <= end
    BY <1>4, <1>5, <2>1, <2>2, <2>3 DEF HeaderSize
  <2>6. Begins(S(N), d)
    <3>1. S(N).data = y
      BY <1>3 DEF y
    <3> HIDE DEF S
    <3> QED  BY <1>3, <1>5, <2>4, <2>5, <3>1 DEF Begins
  <2>7. Len(S(N).data) <= end
    BY <1>3, <2>5 DEF y
  <2> QED  BY <1>1, <2>6, <2>7
<1>7. ASSUME NEW k \in 1 .. N
      PROVE  /\ k - 1 \in 0 .. N /\ k \in 0 .. N
             /\ Begins(S(k), d) => Begins(S(k - 1), d)
             /\ Len(S(k - 1).data) <= AlignedTo(Len(S(k - 1).data), 8)
             /\ AlignedTo(Len(S(k - 1).data), 8) < Len(S(k).data)
  <2> DEFINE w == S(k - 1)
             f == m.list[k][1]
             t == m.list[k][2]
             v == m.list[k][3]
             u == WriteFieldAs(w, f, t, v)
  <2>1. /\ f \in Byte /\ t \in ValueTypes /\ IsValue(t, v)
        /\ f \in Fields => t = Peer!TypeOf(f)
    BY PeerMessageParts
  <2>2. f \in Fields \/ t # CharT
    <3>1. k \in DOMAIN m.list
      BY PeerMessageParts
    <3> QED  BY <3>1 DEF Skippable
  <2>3. w \in Writer /\ S(k) = u /\ GoesOn(u, PadTo(w, 8))
    BY NextField
  <2>4. /\ Len(PadTo(w, 8).data) = AlignedTo(Len(w.data), 8)
        /\ Len(w.data) <= Len(PadTo(w, 8).data)
    BY <2>3, PaddedLength DEF Sizes
  <2>5. Begins(u, d) => Begins(w, d)
    <3> HIDE DEF w, f, t, v, d
    <3> QED  BY <2>1, <2>2, <2>3, AnyFieldComesBack
  <2>6. k - 1 \in 0 .. N /\ k \in 0 .. N
    BY <1>1
  <2> HIDE DEF u, w
  <2>7. Begins(S(k), d) => Begins(w, d)
    BY <2>3, <2>5
  <2>8. Len(w.data) <= AlignedTo(Len(w.data), 8) /\ AlignedTo(Len(w.data), 8) < Len(S(k).data)
    BY <2>3, <2>4 DEF GoesOn
  <2> QED  BY <2>6, <2>7, <2>8 DEF w
<1> HIDE DEF S, d, end
<1>8. ASSUME NEW k \in 1 .. N, k \in T
      PROVE  k - 1 \in T
  <2>1. Len(S(k - 1).data) <= end
    <3> DEFINE a == Len(S(k - 1).data)
               b == AlignedTo(a, 8)
               c == Len(S(k).data)
    <3>1. a \in Nat /\ c \in Nat /\ a <= b /\ b < c /\ c <= end
      BY <1>2, <1>7, <1>8
    <3>2. b \in Nat
      BY <3>1, Alignment DEF Sizes
    <3> HIDE DEF a, b, c
    <3>3. a <= end
      BY <1>5, <3>1, <3>2
    <3> QED  BY <3>3 DEF a
  <2> QED  BY <1>7, <1>8, <2>1
<1> HIDE DEF T
<1>9. n \in T
  BY <1>1, <1>6, <1>8, CountingDown
<1>10. Begins(S(n), d)
  BY <1>9 DEF T
<1>11. ASSUME n < N
       PROVE  AlignedTo(Len(S(n).data), 8) < end
  <2> DEFINE b == AlignedTo(Len(S(n).data), 8)
             c == Len(S(n + 1).data)
  <2>1. n + 1 \in 1 .. N /\ (n + 1) - 1 = n /\ n + 1 \in 0 .. N
    BY <1>1, <1>11
  <2>2. b < c
    BY <1>7, <2>1
  <2>3. n + 1 \in T
    BY <1>1, <1>6, <1>8, <2>1, CountingDown
  <2>4. c <= end /\ c \in Nat /\ b \in Nat
    <3>1. c <= end /\ c \in Nat /\ Len(S(n).data) \in Nat
      BY <1>2, <2>1, <2>3 DEF T
    <3> QED  BY <3>1, Alignment DEF Sizes
  <2> HIDE DEF b, c
  <2>5. b < end
    BY <1>5, <2>2, <2>4
  <2> QED  BY <2>5 DEF b
<1>12. ASSUME n = N
       PROVE  ~(AlignedTo(Len(S(n).data), 8) < end)
  <2> DEFINE a == Len(S(n).data)
  <2>1. a = end
    <3>1. PeerFields(m) \in Seq(Byte)
      BY PeerFieldsAreBytes
    <3>2. Len(x \o PeerFields(m)) = Len(x) + Len(PeerFields(m))
      BY <1>4, <3>1, ConcatProperties
    <3> QED  BY <1>3, <1>4, <1>12, <3>2 DEF end
  <2> HIDE DEF a
  <2>2. AlignedTo(a, 8) >= a /\ AlignedTo(a, 8) \in Nat
    BY <1>5, <2>1, Alignment DEF Sizes
  <2>3. ~(AlignedTo(a, 8) < end)
    BY <1>5, <2>1, <2>2
  <2> QED  BY <2>3 DEF a
<1>13. n \in Nat /\ n <= N
  BY <1>1
<1>14. AlignedTo(Len(S(n).data), 8) < end <=> n < N
  BY <1>1, <1>11, <1>12, <1>13
<1> QED  BY <1>10, <1>14 DEF S, d, end

\* One item more.
LEMMA NextItem ==
    ASSUME NEW m \in PeerMessages, NEW n \in 1 .. Len(m.items)
    PROVE  LET w == ItemStage(m, n - 1)
               u == WriteAs(w, m.items[n][1], m.items[n][2])
           IN  w \in Writer /\ ItemStage(m, n) = u
<1> DEFINE B == Peer!WriteAll(m.endian, m.items)
           t == m.items[n][1]
           v == m.items[n][2]
           e == m.endian
           x == SubSeq(PeerBytes(m), 1, BodyStart(m))
           a == B[n - 1]
           c == B[n]
           w == Wrote(a, e)
           u == WriteAs(w, t, v)
<1>1. t \in ValueTypes /\ IsValue(t, v) /\ e \in Byte
  BY PeerMessageParts
<1>2. a \in Seq(Byte) /\ c \in Seq(Byte) /\ c = Peer!Write(e, a, t, v)
  <2>1. /\ B \in [0 .. Len(m.items) -> Seq(Byte)]
        /\ B[n] = Peer!Write(e, B[n - 1], t, v)
    BY PeerBodyIsBytes
  <2> HIDE DEF B, e, t, v
  <2>2. n \in 0 .. Len(m.items) /\ n - 1 \in 0 .. Len(m.items)
    OBVIOUS
  <2> QED  BY <2>1, <2>2
<1>3. x \in Blocks
  BY Beginning
<1>4. ItemStage(m, n) = Wrote(x \o c, e) /\ ItemStage(m, n - 1) = Wrote(x \o a, e)
  BY DEF ItemStage
<1> HIDE DEF B, t, v, e, x, a, c
<1>5. w \in Writer /\ w.data = a /\ w.endian = e
  BY <1>1, <1>2, WroteIsWriter
<1> HIDE DEF w
<1>6. u \in Writer /\ u.endian = e /\ u.data = c
  <2>1. GoesOn(u, w) /\ u.data = Peer!Write(w.endian, w.data, t, v)
    BY <1>1, <1>5, ValuesAreWrittenAlike
  <2> HIDE DEF u
  <2> QED  BY <1>2, <1>5, <2>1 DEF GoesOn
<1>7. After(x, u) = Wrote(x \o c, e) /\ After(x, w) = Wrote(x \o a, e)
  BY <1>5, <1>6 DEF After, Wrote
<1>8. WriteAs(After(x, w), t, v) = After(x, u)
  BY <1>1, <1>3, <1>5, ValueAfter
<1>9. After(x, w) \in Writer
  BY <1>3, <1>5, AfterIsWriter DEF Blocks
<1> HIDE DEF u
<1>11. ItemStage(m, n - 1) = After(x, w) /\ ItemStage(m, n) = After(x, u)
  BY <1>4, <1>7
<1> QED  BY <1>8, <1>9, <1>11 DEF t, v

LEMMA ItemStageParts ==
    ASSUME NEW m \in PeerMessages, NEW n \in 0 .. Len(m.items)
    PROVE  /\ ItemStage(m, n) \in Writer /\ ItemStage(m, n).endian = m.endian
           /\ ItemStage(m, 0).data = SubSeq(PeerBytes(m), 1, BodyStart(m))
           /\ ItemStage(m, Len(m.items)).data =
                SubSeq(PeerBytes(m), 1, BodyStart(m)) \o PeerBody(m)
<1> DEFINE B == Peer!WriteAll(m.endian, m.items)
           e == m.endian
           x == SubSeq(PeerBytes(m), 1, BodyStart(m))
<1>1. B \in [0 .. Len(m.items) -> Seq(Byte)] /\ B[0] = <<>> /\ PeerBody(m) = B[Len(m.items)]
  BY PeerBodyIsBytes
<1>2. e \in Byte /\ Len(m.items) \in Nat
  BY PeerMessageParts
<1>3. x \in Seq(Byte)
  BY Beginning DEF Blocks
<1>4. \A k : ItemStage(m, k) = Wrote(x \o B[k], e)
  BY DEF ItemStage
<1> HIDE DEF B, x
<1>5. \A k \in 0 .. Len(m.items) : ItemStage(m, k) \in Writer /\ ItemStage(m, k).endian = e
                                   /\ ItemStage(m, k).data = x \o B[k]
  <2> TAKE k \in 0 .. Len(m.items)
  <2>1. B[k] \in Seq(Byte)
    BY <1>1
  <2>2. x \o B[k] \in Seq(Byte)
    BY <1>3, <2>1, ConcatProperties
  <2>3. ItemStage(m, k) = Wrote(x \o B[k], e)
    BY <1>4
  <2> DEFINE y == x \o B[k]
  <2> HIDE DEF y, e
  <2>4. Wrote(y, e) \in Writer /\ Wrote(y, e).endian = e /\ Wrote(y, e).data = y
    BY <1>2, <2>2, WroteIsWriter DEF y
  <2> QED  BY <2>3, <2>4 DEF y
<1>6. x \o <<>> = x
  BY <1>3, ConcatEmptySeq
<1>7. 0 \in 0 .. Len(m.items) /\ Len(m.items) \in 0 .. Len(m.items)
  BY <1>2
<1> QED  BY <1>1, <1>5, <1>6, <1>7 DEF x

\* The message begins with each stage, and the last one is all of it.
LEMMA ItemsInMessage ==
    ASSUME NEW m \in PeerMessages, NEW n \in 0 .. Len(m.items)
    PROVE  /\ Begins(ItemStage(m, n), PeerBytes(m))
           /\ Len(ItemStage(m, Len(m.items)).data) = Len(PeerBytes(m))
<1> DEFINE d == PeerBytes(m)
           S(k) == ItemStage(m, k)
           N == Len(m.items)
           s == BodyStart(m)
           x == SubSeq(d, 1, s)
           b == PeerBody(m)
           l == Len(b)
           T == {k \in 0 .. N : Begins(S(k), d)}
           y == x \o b
<1>1. N \in Nat /\ N \in 0 .. N
  <2>1. N \in Nat
    BY PeerMessageParts
  <2> QED  BY <2>1
<1>2. S(N) \in Writer /\ S(N).data = y
  BY <1>1, ItemStageParts
<1>3. x \in Seq(Byte) /\ Len(x) = s /\ s \in Nat /\ \A i \in 1 .. s : x[i] = d[i]
  BY Beginning DEF Blocks
<1>4. /\ d \in Seq(Byte) /\ Len(d) = s + l
      /\ \A i \in 1 .. l : d[s + i] = b[i]
  <2> DEFINE p == AlignedTo(Len(PeerFields(m)), 8)
  <2>1. /\ d \in Seq(Byte) /\ Len(d) = HeaderSize + p + l
        /\ \A i \in 1 .. l : d[16 + p + i] = b[i]
    BY PeerBytesAreWhole
  <2>2. s = HeaderSize + p
    BY DEF BodyStart
  <2> HIDE DEF p, d, l, b, s
  <2>3. s = 16 + p
    BY <2>2 DEF HeaderSize
  <2> QED  BY <2>1, <2>2, <2>3
<1>5. b \in Seq(Byte) /\ l \in Nat
  BY PeerBodyIsBytes
<1>6. /\ y \in Seq(Byte) /\ Len(y) = s + l
      /\ \A i \in 1 .. s + l : y[i] = IF i <= s THEN x[i] ELSE b[i - s]
  <2> HIDE DEF x, b, s
  <2> QED  BY <1>3, <1>5, ConcatProperties
<1> HIDE DEF y, l, x, d, b, s
<1>7. ASSUME NEW i \in 1 .. s + l
      PROVE  d[i] = y[i]
  <2>1. CASE i <= s
    <3>1. i \in 1 .. s
      BY <1>3, <1>5, <2>1
    <3> QED  BY <1>3, <1>6, <2>1, <3>1
  <2>2. CASE i > s
    <3>1. i - s \in 1 .. l /\ s + (i - s) = i
      BY <1>3, <1>5, <2>2
    <3>2. y[i] = b[i - s]
      BY <1>3, <1>5, <1>6, <2>2
    <3> QED  BY <1>4, <3>1, <3>2
  <2> QED  BY <1>3, <1>5, <2>1, <2>2
<1>8. Begins(S(N), d) /\ Len(S(N).data) = Len(d)
  <2> HIDE DEF S
  <2>1. Len(y) <= Len(d) /\ Len(y) = Len(d)
    BY <1>3, <1>4, <1>5, <1>6
  <2> QED  BY <1>2, <1>4, <1>6, <1>7, <2>1 DEF Begins
<1>9. N \in T
  BY <1>1, <1>8
<1>10. ASSUME NEW k \in 1 .. N, k \in T
       PROVE  k - 1 \in T
  <2> DEFINE w == S(k - 1)
             t == m.items[k][1]
             v == m.items[k][2]
             u == WriteAs(w, t, v)
  <2>1. t \in ValueTypes /\ IsValue(t, v)
    BY PeerMessageParts
  <2>2. w \in Writer /\ S(k) = u
    BY NextItem
  <2>3. Begins(u, d)
    BY <1>10, <2>2
  <2>4. k - 1 \in 0 .. N
    BY <1>1
  <2> HIDE DEF w, t, v
  <2>5. Begins(w, d)
    BY <2>1, <2>2, <2>3, ValueComesBack
  <2> QED  BY <2>4, <2>5 DEF w
<1> HIDE DEF T
<1>11. n \in T
  BY <1>1, <1>9, <1>10, CountingDown
<1> QED  BY <1>8, <1>11 DEF S, d, T

\* At the end of its bytes a reader finds no string, and it stays.
LEMMA NoStringAtEnd ==
    ASSUME NEW r \in Reader, r.pos = Len(r.data)
    PROVE  ReadString(r) = Nothing(r)
<1> DEFINE at == Align(r, 4)
           l == Len(r.data)
           p == AlignedTo(r.pos, 4)
<1>1. r.pos \in Nat /\ l \in Nat /\ r.pos = l
  BY ReaderParts
<1>2. p \in Nat /\ p >= r.pos
  BY <1>1, Alignment DEF Sizes
<1>3. at = IF p > l THEN Nothing(r) ELSE Got(p, [r EXCEPT !.pos = p])
  BY DEF Align, Seek
<1>6. ASSUME ReadUInt(r, 4) = Nothing(r)
      PROVE  ReadString(r) = Nothing(r)
  <2> DEFINE read == ReadUInt(r, 4)
  <2>1. ReadString(r) = IF read.ok THEN IF read.val = MaxUInt32 THEN Overrun(read.r)
                                        ELSE ReadChars(read.r, Number(read.val))
                        ELSE read
    BY DEF ReadString, Then
  <2>2. read = Nothing(r) /\ ~Nothing(r).ok
    BY <1>6 DEF Nothing
  <2> HIDE DEF read
  <2> QED  BY <2>1, <2>2
<1>4. CASE p > l
  <2>1. at = Nothing(r)
    BY <1>3, <1>4
  <2> HIDE DEF at
  <2>2. ReadUInt(r, 4) = Nothing(r)
    <3>1. ReadUInt(r, 4) = IF at.ok THEN ReadUInt(r, 4) ELSE at
      BY DEF ReadUInt, Then, at
    <3> QED  BY <2>1, <3>1 DEF Nothing
  <2> QED  BY <1>6, <2>2
<1>5. CASE p = l
  <2>1. [r EXCEPT !.pos = p] = r
    <3>1. r \in [data : Seq(Byte), pos : Nat, endian : Byte]
      BY ReaderParts DEF Readers
    <3> HIDE DEF p, l
    <3> QED  BY <1>1, <1>5, <3>1
  <2>2. at = Got(p, r)
    <3> HIDE DEF p, l
    <3> QED  BY <1>1, <1>3, <1>5, <2>1
  <2>3. ~Check(r, 4)
    <3>1. Check(r, 4) <=> r.pos + 4 <= l
      BY DEF Check
    <3> HIDE DEF l
    <3> QED  BY <1>1, <3>1
  <2> HIDE DEF at
  <2>4. ReadUInt(r, 4) = Nothing(r)
    <3>1. ReadUInt(r, 4) =
            IF at.ok THEN IF Check(at.r, 4)
                          THEN Got(InOrder(r.endian, Bytes(at.r, 4)), Advance(at.r, 4))
                          ELSE Nothing(at.r)
            ELSE at
      BY DEF ReadUInt, Then, at
    <3>2. at.ok /\ at.r = r
      BY <2>2 DEF Got
    <3> QED  BY <2>3, <3>1, <3>2
  <2> QED  BY <1>6, <2>4
<1> HIDE DEF p, l
<1> QED  BY <1>1, <1>2, <1>4, <1>5

----------------------------------------------------------------------------

\* The fields among the first n of a list that the library knows.
KnownOf(list, n) ==
    [f \in {list[i][1] : i \in 1 .. n} \cap Fields |->
        list[CHOOSE i \in 1 .. n : list[i][1] = f][3]]

LEMMA KnownOfAll ==
    ASSUME NEW m \in PeerMessages
    PROVE  KnownOf(m.list, Len(m.list)) = Known(m.list)
<1>1. DOMAIN m.list = 1 .. Len(m.list)
  BY PeerMessageParts
<1> QED  BY <1>1 DEF KnownOf, Known

LEMMA NoneKnown == \A list : KnownOf(list, 0) = <<>>
<1> TAKE list
<1>1. {list[i][1] : i \in 1 .. 0} \cap Fields = {}
  OBVIOUS
<1> DEFINE V(f) == list[CHOOSE i \in 1 .. 0 : list[i][1] = f][3]
           D == {list[i][1] : i \in 1 .. 0} \cap Fields
<1>2. KnownOf(list, 0) = [f \in D |-> V(f)]
  BY DEF KnownOf
<1> HIDE DEF V, D
<1>3. D = {}
  BY <1>1 DEF D
<1> QED  BY <1>2, <1>3

\* One field more.
LEMMA KnowsOneMore ==
    ASSUME NEW m \in PeerMessages, NEW n \in 1 .. Len(m.list)
    PROVE  KnownOf(m.list, n) =
             IF m.list[n][1] \in Fields
             THEN WithField(KnownOf(m.list, n - 1), m.list[n][1], m.list[n][3])
             ELSE KnownOf(m.list, n - 1)
<1> DEFINE list == m.list
           N == Len(list)
           D(k) == {list[i][1] : i \in 1 .. k} \cap Fields
           I(k, f) == CHOOSE i \in 1 .. k : list[i][1] = f
           V(k, f) == list[I(k, f)][3]
           K(k) == KnownOf(list, k)
           f0 == list[n][1]
           v0 == list[n][3]
<1>1. N \in Nat
  BY PeerMessageParts
<1>2. \A i, j \in 1 .. N : list[i][1] \in Fields /\ list[j][1] = list[i][1] => j = i
  BY PeerMessageParts
<1>3. \A k : K(k) = [f \in D(k) |-> V(k, f)]
  BY DEF KnownOf
<1> HIDE DEF list, N, K
<1>4. \A k \in 0 .. N : \A i \in 1 .. k : list[i][1] \in Fields => I(k, list[i][1]) = i
  <2> TAKE k \in 0 .. N
  <2> TAKE i \in 1 .. k
  <2> HAVE list[i][1] \in Fields
  <2> DEFINE j == I(k, list[i][1])
  <2>1. j \in 1 .. k /\ list[j][1] = list[i][1]
    OBVIOUS
  <2> HIDE DEF j
  <2>2. i \in 1 .. N /\ j \in 1 .. N
    BY <1>1, <2>1
  <2>3. j = i
    BY <1>2, <2>1, <2>2
  <2> QED  BY <2>3 DEF j
<1>5. n \in 1 .. n /\ n \in 0 .. N /\ n - 1 \in 0 .. N /\ 1 .. n = (1 .. (n - 1)) \cup {n}
  BY <1>1 DEF N, list
<1>6. ASSUME NEW f \in D(n - 1)
      PROVE  V(n, f) = V(n - 1, f) /\ (f0 \in Fields => f # f0)
  <2>1. PICK i \in 1 .. (n - 1) : list[i][1] = f
    OBVIOUS
  <2>2. f \in Fields /\ i \in 1 .. n /\ i # n
    BY <1>5, <2>1
  <2> HIDE DEF I
  <2>3. I(n, f) = i /\ I(n - 1, f) = i
    BY <1>4, <1>5, <2>1, <2>2
  <2>4. f0 \in Fields => f # f0
    <3>1. i \in 1 .. N /\ n \in 1 .. N
      BY <1>1, <1>5, <2>2
    <3> QED  BY <1>2, <2>1, <2>2, <3>1
  <2> QED  BY <2>3, <2>4
<1>7. CASE f0 \in Fields
  <2>1. D(n) = D(n - 1) \cup {f0}
    BY <1>5, <1>7
  <2>2. V(n, f0) = v0
    <3> HIDE DEF I
    <3>1. I(n, f0) = n
      BY <1>4, <1>5, <1>7
    <3> QED  BY <3>1
  <2> HIDE DEF D, V, f0, v0
  <2>3. K(n) = [f \in D(n - 1) \cup {f0} |-> IF f = f0 THEN v0 ELSE K(n - 1)[f]]
    <3>1. \A f \in D(n - 1) \cup {f0} : V(n, f) = IF f = f0 THEN v0 ELSE V(n - 1, f)
      BY <1>6, <2>2
    <3>2. \A f \in D(n - 1) : K(n - 1)[f] = V(n - 1, f)
      BY <1>3
    <3>3. \A f \in D(n - 1) \cup {f0} : V(n, f) = IF f = f0 THEN v0 ELSE K(n - 1)[f]
      BY <3>1, <3>2
    <3> QED  BY <1>3, <2>1, <3>3
  <2>4. DOMAIN K(n - 1) = D(n - 1)
    BY <1>3
  <2>5. K(n) = WithField(K(n - 1), f0, v0)
    BY <2>3, <2>4 DEF WithField
  <2> QED  BY <1>7, <2>5 DEF K, f0, v0, list
<1>8. CASE f0 \notin Fields
  <2>1. D(n) = D(n - 1)
    BY <1>5, <1>8
  <2> HIDE DEF D, V, f0, v0
  <2>2. K(n) = K(n - 1)
    BY <1>3, <1>6, <2>1
  <2> QED  BY <1>8, <2>2 DEF K, f0, v0, list
<1> QED  BY <1>7, <1>8

----------------------------------------------------------------------------
(* What the program gets of a message *)

\* A message that no peer has sent has nothing to read.
Fresh ==
    phase \in {"open", "sent"} =>
        /\ msg.fieldsValid <=> Received
        /\ ~Received => items = <<>> /\ msg.reader = NewReader(<<>>)

\* readFd starts with an empty message.
Arriving ==
    /\ phase \in {"header", "body", "fields"} => Received /\ items = <<>> /\ msg.valid
    /\ phase = "header" => msg = NewMessage
    /\ phase = "body" => msg.fields = <<>> /\ msg.reader.endian = Little

\* The fixed header stays what the peer has written, until the program changes it.
HeaderKept ==
    /\ Received /\ sent.endian = Little
    /\ phase \in {"body", "fields"} \/ (phase = "open" /\ sets = 0)
    =>
    /\ wire = PeerBytes(sent)
    /\ msg.fixed.type = sent.type /\ msg.fixed.flags = sent.flags
    /\ msg.fixed.serial = sent.serial
    /\ msg.fixed.fieldsLen = UInt32(Len(PeerFields(sent)))
    /\ msg.fixed.bodyLen = UInt32(Len(PeerBody(sent)))

\* Between two fields the reader is where the writer was between them.
FieldsRead ==
    Regular =>
        /\ phase = "fields" =>
             \E n \in 0 .. Len(sent.list) :
                /\ Near(msg.reader, FieldStage(sent, n), PeerBytes(sent))
                /\ msg.fields = KnownOf(sent.list, n)
        /\ phase = "open" /\ sets = 0 => msg.fields = Known(sent.list)

NotRefused ==
    Regular => /\ phase = "failed" => sent.version # 1
               /\ phase # "undefined"

\* And between two items.
ItemsRead ==
    phase \in {"open", "sent"} /\ Regular =>
        /\ Len(items) <= Len(sent.items)
        /\ \A i \in 1 .. Len(items) : items[i] = Meaning(sent.items[i][1], sent.items[i][2])
        /\ msg.reader = At(ItemStage(sent, Len(items)), PeerBytes(sent))
        /\ msg.valid \/ Len(items) = Len(sent.items)

ReadingInv == Fresh /\ Arriving /\ HeaderKept /\ FieldsRead /\ NotRefused /\ ItemsRead

\* The calls of the program do not touch what is left to read.
LEMMA ReaderUntouched ==
    ASSUME ReadingInv, phase \in {"open", "sent"},
           phase' = "sent" \/ (phase' = "open" /\ sets' # 0),
           msg'.reader = msg.reader, msg'.valid = msg.valid,
           msg'.fieldsValid = msg.fieldsValid, UNCHANGED <<sent, items>>
    PROVE  ReadingInv'
<1>1. phase' \in {"open", "sent"} /\ phase' \notin {"header", "body", "fields", "failed", "undefined"}
      /\ ~(phase' = "open" /\ sets' = 0)
  OBVIOUS
<1>2. (Received' <=> Received) /\ (Regular' <=> Regular)
  BY DEF Received, Regular, Skippable
<1>3. Fresh'
  BY <1>1, <1>2 DEF ReadingInv, Fresh
<1>4. Arriving' /\ NotRefused'
  BY <1>1 DEF Arriving, NotRefused
<1>5. HeaderKept' /\ FieldsRead'
  BY <1>1 DEF HeaderKept, FieldsRead
<1>6. ItemsRead'
  BY <1>1, <1>2 DEF ReadingInv, ItemsRead
<1> QED  BY <1>3, <1>4, <1>5, <1>6 DEF ReadingInv

LEMMA SetFieldReads ==
    ASSUME CodecInv, ReadingInv, NEW f \in Settable, NEW text \in Texts, SetField(f, text)
    PROVE  ReadingInv'
<1>1. msg \in Messages /\ sets \in Nat
  BY DEF CodecInv, Typed
<1>2. /\ phase \in {"open", "sent"} /\ phase' = "open" /\ sets' = sets + 1
      /\ msg' = [msg EXCEPT !.fields = WithField(@, f, text)] /\ UNCHANGED <<sent, items>>
  BY DEF SetField
<1>3. msg'.reader = msg.reader /\ msg'.valid = msg.valid /\ msg'.fieldsValid = msg.fieldsValid
  BY <1>1, <1>2 DEF Messages
<1>4. sets' # 0
  BY <1>1, <1>2
<1> QED  BY <1>2, <1>3, <1>4, ReaderUntouched

LEMMA SetTypeReads ==
    ASSUME CodecInv, ReadingInv, NEW type \in Types, SetType(type)
    PROVE  ReadingInv'
<1>1. msg \in Messages /\ sets \in Nat
  BY DEF CodecInv, Typed
<1>2. /\ phase \in {"open", "sent"} /\ phase' = "open" /\ sets' = sets + 1
      /\ msg' = [msg EXCEPT !.fixed.type = type] /\ UNCHANGED <<sent, items>>
  BY DEF SetType
<1>3. msg'.reader = msg.reader /\ msg'.valid = msg.valid /\ msg'.fieldsValid = msg.fieldsValid
  BY <1>1, <1>2 DEF Messages
<1>4. sets' # 0
  BY <1>1, <1>2
<1> QED  BY <1>2, <1>3, <1>4, ReaderUntouched

LEMMA SendReads ==
    ASSUME CodecInv, ReadingInv, NEW serial \in Serials, Send(serial)
    PROVE  ReadingInv'
<1>1. msg \in Messages
  BY DEF CodecInv, Typed
<1>2. /\ phase = "open" /\ phase' = "sent"
      /\ msg' = WithLengths([msg EXCEPT !.fixed.serial = serial]) /\ UNCHANGED <<sent, items>>
  BY DEF Send
<1>3. msg'.reader = msg.reader /\ msg'.valid = msg.valid /\ msg'.fieldsValid = msg.fieldsValid
  BY <1>1, <1>2 DEF Messages, WithLengths
<1> QED  BY <1>2, <1>3, ReaderUntouched

LEMMA PeerSendsReads ==
    ASSUME CodecInv, ReadingInv, NEW m \in PeerMessages, PeerSends(m)
    PROVE  ReadingInv'
<1>1. /\ phase = "open" /\ msg = NewMessage /\ sent' = m /\ phase' = "header"
      /\ UNCHANGED <<msg, items, sets>>
  BY DEF PeerSends
<1>2. ~msg.fieldsValid /\ msg.valid
  BY <1>1 DEF NewMessage
<1>3. items = <<>>
  BY <1>1, <1>2 DEF ReadingInv, Fresh
<1>4. Received'
  BY <1>1, ProgramAssumption DEF Received
<1>5. Arriving'
  BY <1>1, <1>2, <1>3, <1>4 DEF Arriving
<1>6. Fresh' /\ HeaderKept' /\ FieldsRead' /\ NotRefused' /\ ItemsRead'
  BY <1>1 DEF Fresh, HeaderKept, FieldsRead, NotRefused, ItemsRead
<1> QED  BY <1>5, <1>6 DEF ReadingInv

LEMMA HeaderArrivesReads ==
    ASSUME CodecInv, ReadingInv, HeaderArrives
    PROVE  ReadingInv'
<1> DEFINE d == SubSeq(wire, 1, HeaderSize)
           h == ReadFixedHeader(NewReader(d))
<1>1. /\ phase = "header" /\ msg = NewMessage /\ Received /\ items = <<>>
      /\ sent \in PeerMessages /\ wire = PeerBytes(sent) /\ wire \in Seq(Byte)
  BY DEF HeaderArrives, CodecInv, Typed, WireInv, ReadingInv, Arriving
<1>2. /\ d \in Seq(Byte) /\ Len(d) = HeaderSize /\ HeaderSize <= Len(wire)
      /\ \A i \in 1 .. HeaderSize : d[i] = wire[i]
  BY <1>1, Beginning DEF Blocks
<1>3. /\ SubSeq(d, 5, 8) = SubSeq(wire, 5, 8) /\ SubSeq(d, 9, 12) = SubSeq(wire, 9, 12)
      /\ SubSeq(d, 13, 16) = SubSeq(wire, 13, 16)
  <2> HIDE DEF d
  <2>1. HeaderSize = 16
    BY DEF HeaderSize
  <2>2. SubSeq(d, 5, 8) = SubSeq(wire, 5, 8)
    BY <1>1, <1>2, <2>1
  <2>3. SubSeq(d, 9, 12) = SubSeq(wire, 9, 12)
    BY <1>1, <1>2, <2>1
  <2>4. SubSeq(d, 13, 16) = SubSeq(wire, 13, 16)
    BY <1>1, <1>2, <2>1
  <2> QED  BY <2>2, <2>3, <2>4
<1>4. /\ wire[1] = d[1] /\ wire[2] = d[2] /\ wire[3] = d[3] /\ wire[4] = d[4]
  <2>1. 1 \in 1 .. HeaderSize /\ 2 \in 1 .. HeaderSize /\ 3 \in 1 .. HeaderSize /\ 4 \in 1 .. HeaderSize
    BY DEF HeaderSize
  <2> HIDE DEF d
  <2> QED  BY Zenon, <1>2, <2>1
<1>5. /\ h.val.type = wire[2] /\ h.val.flags = wire[3] /\ h.val.valid = (wire[4] = 1)
      /\ h.val.valid => /\ h.r \in Reader /\ h.r.endian = Little
                        /\ h.val.bodyLen = SubSeq(wire, 5, 8)
                        /\ h.val.serial = SubSeq(wire, 9, 12)
                        /\ h.val.fieldsLen = SubSeq(wire, 13, 16)
  <2> HIDE DEF d
  <2> QED  BY <1>2, <1>3, <1>4, FixedHeaderIsRead
<1>6. /\ wire[2] = sent.type /\ wire[3] = sent.flags /\ wire[4] = sent.version
      /\ sent.endian = Little =>
           /\ SubSeq(wire, 5, 8) = UInt32(Len(PeerBody(sent)))
           /\ SubSeq(wire, 9, 12) = sent.serial
           /\ SubSeq(wire, 13, 16) = UInt32(Len(PeerFields(sent)))
  BY <1>1, PeerBytesAreWhole
<1>7. UNCHANGED <<wire, sent, items, sets>>
  BY DEF HeaderArrives
<1>8. \/ h.val.valid /\ msg' = [msg EXCEPT !.fixed = h.val, !.reader = h.r] /\ phase' = "body"
      \/ ~h.val.valid /\ phase' = "failed"
  BY DEF HeaderArrives
<1> HIDE DEF d, h
<1>9. CASE h.val.valid /\ msg' = [msg EXCEPT !.fixed = h.val, !.reader = h.r] /\ phase' = "body"
  <2>1. /\ msg'.fixed = h.val /\ msg'.reader = h.r /\ msg'.fields = <<>> /\ msg'.valid
    BY <1>1, <1>9 DEF NewMessage
  <2>2. Arriving'
    <3>1. Received'
      BY <1>1, <1>7 DEF Received
    <3>2. msg'.reader.endian = Little
      BY <1>5, <1>9, <2>1
    <3> QED  BY <1>1, <1>7, <1>9, <2>1, <3>1, <3>2 DEF Arriving
  <2>3. HeaderKept'
    <3>1. /\ msg'.fixed.type = wire[2] /\ msg'.fixed.flags = wire[3]
          /\ msg'.fixed.bodyLen = SubSeq(wire, 5, 8) /\ msg'.fixed.serial = SubSeq(wire, 9, 12)
          /\ msg'.fixed.fieldsLen = SubSeq(wire, 13, 16)
      BY <1>5, <1>9, <2>1
    <3>2. wire' = PeerBytes(sent')
      BY <1>1, <1>7
    <3> QED  BY <1>6, <1>7, <3>1, <3>2 DEF HeaderKept
  <2>4. Fresh' /\ FieldsRead' /\ NotRefused' /\ ItemsRead'
    BY <1>9 DEF Fresh, FieldsRead, NotRefused, ItemsRead
  <2> QED  BY <2>2, <2>3, <2>4 DEF ReadingInv
<1>10. CASE ~h.val.valid /\ phase' = "failed"
  <2>1. sent'.version # 1
    BY <1>5, <1>6, <1>7, <1>10
  <2>2. NotRefused'
    BY <1>10, <2>1 DEF NotRefused
  <2>3. Fresh' /\ Arriving' /\ HeaderKept' /\ FieldsRead' /\ ItemsRead'
    BY <1>10 DEF Fresh, Arriving, HeaderKept, FieldsRead, ItemsRead
  <2> QED  BY <2>2, <2>3 DEF ReadingInv
<1> QED  BY <1>8, <1>9, <1>10

LEMMA BodyArrivesReads ==
    ASSUME CodecInv, LittleEndianWhole, ReadingInv, BodyArrives
    PROVE  ReadingInv'
<1> DEFINE d == SubSeq(wire, 1, TotalSize(msg.fixed))
<1>1. /\ phase = "body" /\ phase' = "fields" /\ UNCHANGED <<wire, sent, items, sets>>
      /\ msg' = [msg EXCEPT !.reader.data = d]
  BY DEF BodyArrives
<1>2. /\ msg \in Messages /\ sent \in PeerMessages /\ wire = PeerBytes(sent) /\ wire \in Seq(Byte)
      /\ msg.reader.pos = HeaderSize
  BY <1>1 DEF CodecInv, Typed, WireInv, HeaderInv
<1>3. Received /\ items = <<>> /\ msg.valid /\ msg.fields = <<>> /\ msg.reader.endian = Little
  BY <1>1 DEF ReadingInv, Arriving
<1> HIDE DEF d
<1>4. /\ msg'.fixed = msg.fixed /\ msg'.fields = msg.fields /\ msg'.valid = msg.valid
      /\ msg'.reader = [msg.reader EXCEPT !.data = d]
  BY <1>1, <1>2 DEF Messages
<1>5. Arriving'
  BY <1>1, <1>3, <1>4 DEF Arriving, Received
<1>6. HeaderKept'
  <2>1. (Received' /\ sent'.endian = Little) => (Received /\ sent.endian = Little)
    BY <1>1 DEF Received
  <2> QED  BY <1>1, <1>4, <2>1 DEF ReadingInv, HeaderKept
<1>7. FieldsRead'
  <2> SUFFICES ASSUME Regular'
               PROVE  \E n \in 0 .. Len(sent'.list) :
                         /\ Near(msg'.reader, FieldStage(sent', n), PeerBytes(sent'))
                         /\ msg'.fields = KnownOf(sent'.list, n)
    BY <1>1 DEF FieldsRead
  <2>1. Regular /\ sent' = sent
    BY <1>1 DEF Regular, Received, Skippable
  <2>2. d = wire
    <3>1. TotalSize(msg.fixed) = Len(wire)
      BY <1>1, <2>1 DEF LittleEndianWhole, Regular
    <3>2. SubSeq(wire, 1, Len(wire)) = wire
      BY <1>2
    <3> QED  BY <3>1, <3>2 DEF d
  <2> DEFINE w == FieldStage(sent, 0)
             r == msg'.reader
  <2>3. Len(sent.list) \in Nat /\ 0 \in 0 .. Len(sent.list)
    <3>1. Len(sent.list) \in Nat
      BY <1>2, PeerMessageParts
    <3> QED  BY <3>1
  <2>4. w \in Writer /\ w.endian = Little /\ Len(w.data) = HeaderSize /\ HeaderSize <= Len(wire)
    <3>1. w \in Writer /\ w.endian = sent.endian /\ w.data = SubSeq(PeerBytes(sent), 1, HeaderSize)
      BY <1>2, <2>3, FieldStageParts
    <3>2. Len(SubSeq(PeerBytes(sent), 1, HeaderSize)) = HeaderSize /\ HeaderSize <= Len(wire)
      BY <1>2, Beginning
    <3> HIDE DEF w
    <3> QED  BY <2>1, <3>1, <3>2 DEF Regular
  <2>5. r.data = wire /\ r.endian = Little /\ r.pos = HeaderSize /\ r \in Reader
    <3>1. msg.reader \in [data : Seq(Byte), pos : Nat, endian : Byte]
      BY <1>2, MessageParts, ReaderParts DEF Readers
    <3>2. r = [msg.reader EXCEPT !.data = wire]
      BY <1>4, <2>2
    <3> HIDE DEF r
    <3>3. r \in Readers /\ r.data = wire /\ r.endian = Little /\ r.pos = HeaderSize
      BY <1>2, <1>3, <3>1, <3>2 DEF Readers
    <3> QED  BY <2>4, <3>3 DEF Reader
  <2>6. Near(r, w, PeerBytes(sent))
    <3> HIDE DEF r, w
    <3> QED  BY <1>2, <2>4, <2>5 DEF Near
  <2>7. msg'.fields = KnownOf(sent.list, 0)
    BY <1>3, <1>4, NoneKnown
  <2> QED  BY <2>1, <2>3, <2>6, <2>7
<1>8. Fresh' /\ NotRefused' /\ ItemsRead'
  BY <1>1 DEF Fresh, NotRefused, ItemsRead
<1> QED  BY <1>5, <1>6, <1>7, <1>8 DEF ReadingInv

\* What readFd finds between two fields.
LEMMA BetweenFields ==
    ASSUME CodecInv, ReadingInv, phase = "fields", Regular
    PROVE  /\ sent \in PeerMessages /\ sent.endian = Little /\ Skippable(sent)
           /\ wire = PeerBytes(sent)
           /\ \E n \in 0 .. Len(sent.list) :
                LET w == FieldStage(sent, n)
                IN  /\ msg.fields = KnownOf(sent.list, n)
                    /\ Begins(w, wire)
                    /\ Align(msg.reader, 8) = Align(At(w, wire), 8)
                    /\ MoreFields <=> n < Len(sent.list)
<1>1. sent \in PeerMessages /\ sent.endian = Little /\ Skippable(sent) /\ Received
  BY DEF CodecInv, Typed, Regular, Received
<1>2. wire = PeerBytes(sent) /\ msg.fixed.fieldsLen = UInt32(Len(PeerFields(sent)))
  BY <1>1 DEF ReadingInv, HeaderKept
<1>3. PICK n \in 0 .. Len(sent.list) :
         /\ Near(msg.reader, FieldStage(sent, n), wire)
         /\ msg.fields = KnownOf(sent.list, n)
  BY <1>2 DEF ReadingInv, FieldsRead
<1> DEFINE w == FieldStage(sent, n)
           l == Len(PeerFields(sent))
           r == msg.reader
           next == AlignedTo(Len(w.data), 8)
<1>4. Begins(w, wire) /\ (next < HeaderSize + l <=> n < Len(sent.list))
  BY <1>1, <1>2, FieldsInMessage
<1>5. HeaderTotal(msg.fixed) = HeaderSize + l
  <2>1. l \in Nat /\ l < LengthLimit
    <3> DEFINE k == MaxSize
               j == LengthLimit
    <3>1. l \in Nat /\ l < k /\ k < j /\ k \in Nat /\ j \in Nat
      BY <1>1, PeerSizes DEF MaxSize, LengthLimit
    <3> HIDE DEF l, k, j
    <3>2. l < j
      BY <3>1
    <3> QED  BY <3>1, <3>2 DEF j
  <2> HIDE DEF l
  <2>2. Number(UInt32(l)) = l
    BY SMT, <2>1, UInt32IsWord
  <2> QED  BY <1>2, <2>2 DEF HeaderTotal, l
<1>6. r \in Reader /\ r.data = wire /\ r.endian = w.endian /\ AlignedTo(r.pos, 8) = next
  BY <1>3 DEF Near
<1>7. /\ At(w, wire) \in Reader /\ At(w, wire).data = wire /\ At(w, wire).pos = Len(w.data)
      /\ At(w, wire).endian = w.endian
  BY <1>4, AtIsReader
<1>8. Len(w.data) \in Nat /\ Len(w.data) <= Len(wire) /\ Len(wire) \in Nat
  <2>1. w \in Writer /\ wire \in Seq(Byte) /\ Len(w.data) <= Len(wire)
    BY <1>4 DEF Begins
  <2> QED  BY <2>1, WriterParts, LenProperties
<1>9. Align(At(w, wire), 8).ok /\ Align(At(w, wire), 8).r.pos = next
  \* There is room to align the reader to the next field, or to the body.
  <2>1. next <= Len(wire)
    <3> DEFINE p == AlignedTo(l, 8)
               b == Len(PeerBody(sent))
    <3>1. Len(wire) = HeaderSize + p + b /\ l \in Nat /\ b \in Nat
      BY <1>1, <1>2, PeerBytesAreWhole, PeerSizes
    <3>2. p \in Nat /\ p >= l
      BY <3>1, Alignment DEF Sizes
    <3>3. CASE n < Len(sent.list)
      <4>1. next < HeaderSize + l
        BY <1>4, <3>3
      <4>2. next \in Nat
        BY <1>8, Alignment DEF Sizes
      <4> HIDE DEF next, l, p, b
      <4> QED  BY <3>1, <3>2, <4>1, <4>2 DEF HeaderSize
    <3>4. CASE ~(n < Len(sent.list))
      <4>1. n = Len(sent.list)
        <5>1. Len(sent.list) \in Nat
          BY <1>1, PeerMessageParts
        <5> QED  BY <3>4, <5>1
      <4>2. w.data = SubSeq(PeerBytes(sent), 1, HeaderSize) \o PeerFields(sent)
        BY <1>1, <4>1, FieldStageParts
      <4>3. Len(w.data) = HeaderSize + l
        <5> DEFINE x == SubSeq(PeerBytes(sent), 1, HeaderSize)
                   f == PeerFields(sent)
        <5>1. x \in Seq(Byte) /\ Len(x) = HeaderSize /\ f \in Seq(Byte)
          BY <1>1, Beginning, PeerFieldsAreBytes DEF Blocks
        <5> HIDE DEF x, f
        <5>2. Len(x \o f) = Len(x) + Len(f)
          BY <5>1, ConcatProperties
        <5> QED  BY <4>2, <5>1, <5>2 DEF x, f
      <4>4. AlignedTo(HeaderSize + l, 8) = HeaderSize + p
        BY <3>1, PaddedHeader
      <4> HIDE DEF l, p, b
      <4>5. HeaderSize + p <= Len(wire)
        BY <3>1, <3>2 DEF HeaderSize
      <4> QED  BY <4>3, <4>4, <4>5
    <3> QED  BY <3>3, <3>4
  <2>2. next \in Nat
    BY <1>8, Alignment DEF Sizes
  <2> DEFINE a == At(w, wire)
  <2>3. Align(a, 8) = IF next > Len(wire) THEN Nothing(a) ELSE Got(next, [a EXCEPT !.pos = next])
    BY <1>7 DEF Align, Seek
  <2> HIDE DEF a, next
  <2>4. Align(a, 8) = Got(next, [a EXCEPT !.pos = next])
    BY <1>8, <2>1, <2>2, <2>3
  <2>5. [a EXCEPT !.pos = next].pos = next
    BY <1>7, <1>8, <2>1, <2>2, MovedReader DEF a
  <2> DEFINE c == [a EXCEPT !.pos = next]
             to == Align(a, 8)
  <2>6. to = Got(next, c) /\ c.pos = next
    BY <2>4, <2>5
  <2> HIDE DEF c, to
  <2>7. to.ok /\ to.r.pos = next
    BY <2>6 DEF Got
  <2> QED  BY <2>7 DEF a, to
<1>10. Align(r, 8) = Align(At(w, wire), 8)
  <2> DEFINE a == At(w, wire)
             q == [r EXCEPT !.pos = next]
             c == [a EXCEPT !.pos = next]
  <2>1. Align(a, 8) = IF next > Len(wire) THEN Nothing(a) ELSE Got(next, c)
    BY <1>7 DEF Align, Seek
  <2>2. Align(r, 8) = IF next > Len(wire) THEN Nothing(r) ELSE Got(next, q)
    BY <1>6 DEF Align, Seek
  <2>3. a \in Readers /\ r \in Readers
    BY <1>6, <1>7, ReaderParts
  <2>4. a.data = r.data /\ a.endian = r.endian
    BY <1>6, <1>7
  <2> HIDE DEF a, r
  <2>5. q = c
    <3> HIDE DEF next
    <3> QED  BY <2>3, <2>4 DEF Readers
  <2>6. ~(next > Len(wire))
    <3>1. Align(a, 8).ok
      BY <1>9 DEF a
    <3> HIDE DEF c, q, next
    <3> QED  BY <2>1, <3>1 DEF Nothing
  <2> HIDE DEF next, c, q
  <2> QED  BY <2>1, <2>2, <2>5, <2>6 DEF a
<1>11. MoreFields <=> n < Len(sent.list)
  <2>1. AtField.pos = next
    BY <1>9, <1>10 DEF AtField
  <2> HIDE DEF next, l
  <2> QED  BY <1>4, <1>5, <2>1 DEF MoreFields
<1> QED  BY <1>1, <1>2, <1>3, <1>4, <1>10, <1>11

LEMMA ReadFieldReads ==
    ASSUME CodecInv, ReadingInv, ReadField
    PROVE  ReadingInv'
<1> DEFINE field == ParseField(msg.fields, AtField)
<1>1. /\ phase = "fields" /\ MoreFields /\ UNCHANGED <<wire, sent, items, sets>>
      /\ \/ /\ field.ok /\ phase' = "fields"
            /\ msg' = [msg EXCEPT !.fields = field.val, !.reader = field.r]
         \/ ~field.ok /\ phase' \in {"failed", "undefined"}
  BY DEF ReadField, PhaseAfter
<1>2. msg \in Messages /\ Received /\ items = <<>> /\ msg.valid
  BY <1>1 DEF CodecInv, Typed, ReadingInv, Arriving
<1>3. Regular' <=> Regular
  BY <1>1 DEF Regular, Received, Skippable
<1>4. ASSUME Regular
      PROVE  /\ field.ok
             /\ \E n \in 0 .. Len(sent.list) :
                  /\ Near(field.r, FieldStage(sent, n), PeerBytes(sent))
                  /\ field.val = KnownOf(sent.list, n)
  <2>1. /\ sent \in PeerMessages /\ sent.endian = Little /\ Skippable(sent)
        /\ wire = PeerBytes(sent)
    BY <1>1, <1>4, BetweenFields
  <2>2. PICK n \in 0 .. Len(sent.list) :
          LET w == FieldStage(sent, n)
          IN  /\ msg.fields = KnownOf(sent.list, n)
              /\ Begins(w, wire)
              /\ Align(msg.reader, 8) = Align(At(w, wire), 8)
              /\ MoreFields <=> n < Len(sent.list)
    BY <1>1, <1>4, BetweenFields
  <2> DEFINE w == FieldStage(sent, n)
             k == n + 1
             f == sent.list[k][1]
             t == sent.list[k][2]
             v == sent.list[k][3]
             u == WriteFieldAs(w, f, t, v)
  <2>3. k \in 1 .. Len(sent.list) /\ k \in 0 .. Len(sent.list) /\ k - 1 = n
    <3>1. Len(sent.list) \in Nat
      BY <2>1, PeerMessageParts
    <3>2. n < Len(sent.list)
      BY <1>1, <2>2
    <3> QED  BY <3>1, <3>2
  <2>4. /\ f \in Byte /\ t \in ValueTypes /\ IsValue(t, v)
        /\ f \in Fields => t = Peer!TypeOf(f)
    BY <2>1, <2>3, PeerMessageParts
  <2>5. f \in Fields \/ t # CharT
    <3>1. k \in DOMAIN sent.list
      BY <2>1, <2>3, PeerMessageParts
    <3> QED  BY <2>1, <3>1 DEF Skippable
  <2> HIDE DEF k
  <2>6. w \in Writer /\ FieldStage(sent, k) = u
    BY <2>1, <2>3, NextField
  <2>7. Begins(u, wire)
    BY <2>1, <2>3, <2>6, FieldsInMessage
  <2> HIDE DEF w, f, t, v
  <2> DEFINE p == At(PadTo(w, 8), wire)
             a == Align(At(w, wire), 8).r
             g == msg.fields
  <2>8. /\ a = p
        /\ ParseField(g, p).ok
        /\ ParseField(g, p).val = IF f \in Fields THEN WithField(g, f, v) ELSE g
        /\ Near(ParseField(g, p).r, u, wire)
    <3> HIDE DEF g
    <3> QED  BY <2>4, <2>5, <2>6, <2>7, AnyFieldComesBack
  <2>9. field = ParseField(g, p)
    <3>1. AtField = p
      BY <2>2, <2>8 DEF AtField, w
    <3> QED  BY <3>1
  <2>10. KnownOf(sent.list, k) = IF f \in Fields THEN WithField(g, f, v) ELSE g
    <3>1. KnownOf(sent.list, k) =
            IF f \in Fields THEN WithField(KnownOf(sent.list, k - 1), f, v)
            ELSE KnownOf(sent.list, k - 1)
      BY <2>1, <2>3, KnowsOneMore DEF f, v
    <3>2. KnownOf(sent.list, k - 1) = g
      BY <2>2, <2>3
    <3> HIDE DEF g
    <3> QED  BY <3>1, <3>2
  <2> HIDE DEF field, u, p
  <2>11. field.ok /\ field.val = KnownOf(sent.list, k) /\ Near(field.r, FieldStage(sent, k), PeerBytes(sent))
    BY <2>1, <2>6, <2>8, <2>9, <2>10
  <2> QED  BY <2>3, <2>11
<1> HIDE DEF field
<1>5. CASE field.ok /\ phase' = "fields"
           /\ msg' = [msg EXCEPT !.fields = field.val, !.reader = field.r]
  <2>1. /\ msg'.fixed = msg.fixed /\ msg'.fields = field.val /\ msg'.reader = field.r
        /\ msg'.valid = msg.valid
    BY <1>2, <1>5 DEF Messages
  <2>2. Arriving'
    BY <1>1, <1>2, <1>5, <2>1 DEF Arriving, Received
  <2>3. HeaderKept'
    <3>1. Received' <=> Received
      BY <1>1 DEF Received
    <3> QED  BY <1>1, <1>5, <2>1, <3>1 DEF ReadingInv, HeaderKept
  <2>4. FieldsRead'
    <3>1. Regular' =>
            \E n \in 0 .. Len(sent'.list) :
              /\ Near(msg'.reader, FieldStage(sent', n), PeerBytes(sent'))
              /\ msg'.fields = KnownOf(sent'.list, n)
      BY <1>1, <1>3, <1>4, <2>1
    <3> QED  BY <1>5, <3>1 DEF FieldsRead
  <2>5. Fresh' /\ NotRefused' /\ ItemsRead'
    BY <1>5 DEF Fresh, NotRefused, ItemsRead
  <2> QED  BY <2>2, <2>3, <2>4, <2>5 DEF ReadingInv
<1>6. CASE ~field.ok /\ phase' \in {"failed", "undefined"}
  <2>1. ~Regular'
    BY <1>3, <1>4, <1>6
  <2>2. NotRefused' /\ FieldsRead' /\ ItemsRead'
    BY <2>1 DEF NotRefused, FieldsRead, ItemsRead
  <2>3. Fresh' /\ Arriving' /\ HeaderKept'
    BY <1>6 DEF Fresh, Arriving, HeaderKept
  <2> QED  BY <2>2, <2>3 DEF ReadingInv
<1> QED  BY <1>1, <1>5, <1>6

LEMMA OpenReads ==
    ASSUME CodecInv, ReadingInv, Open
    PROVE  ReadingInv'
<1>1. /\ phase = "fields" /\ ~MoreFields /\ phase' = "open"
      /\ msg' = [msg EXCEPT !.fieldsValid = TRUE, !.reader = AtField]
      /\ UNCHANGED <<wire, sent, items, sets>>
  BY DEF Open
<1>2. msg \in Messages /\ Received /\ items = <<>> /\ msg.valid
  BY <1>1 DEF CodecInv, Typed, ReadingInv, Arriving
<1>3. /\ Regular' <=> Regular
      /\ Received' <=> Received
  BY <1>1 DEF Regular, Received, Skippable
<1>4. /\ msg'.fixed = msg.fixed /\ msg'.fields = msg.fields /\ msg'.valid = msg.valid
      /\ msg'.fieldsValid /\ msg'.reader = AtField
  BY <1>1, <1>2 DEF Messages
<1>5. Fresh'
  BY <1>2, <1>3, <1>4 DEF Fresh
<1>6. HeaderKept'
  BY <1>1, <1>3, <1>4 DEF ReadingInv, HeaderKept
<1>7. ASSUME Regular
      PROVE  /\ msg.fields = Known(sent.list)
             /\ AtField = At(ItemStage(sent, 0), PeerBytes(sent))
             /\ Len(sent.items) \in Nat
  <2>1. sent \in PeerMessages /\ sent.endian = Little /\ wire = PeerBytes(sent)
    BY <1>1, <1>7, BetweenFields
  <2>2. PICK n \in 0 .. Len(sent.list) :
          LET w == FieldStage(sent, n)
          IN  /\ msg.fields = KnownOf(sent.list, n)
              /\ Begins(w, wire)
              /\ Align(msg.reader, 8) = Align(At(w, wire), 8)
              /\ MoreFields <=> n < Len(sent.list)
    BY <1>1, <1>7, BetweenFields
  <2>3. n = Len(sent.list)
    <3>1. Len(sent.list) \in Nat
      BY <2>1, PeerMessageParts
    <3> QED  BY <1>1, <2>2, <3>1
  <2>4. msg.fields = Known(sent.list)
    BY <2>1, <2>2, <2>3, KnownOfAll
  <2> DEFINE w == FieldStage(sent, n)
             l == Len(PeerFields(sent))
             s == BodyStart(sent)
             a == At(w, wire)
             i == ItemStage(sent, 0)
             x == SubSeq(PeerBytes(sent), 1, s)
  <2>5. w \in Writer /\ w.endian = Little
        /\ w.data = SubSeq(PeerBytes(sent), 1, HeaderSize) \o PeerFields(sent)
    BY <2>1, <2>3, FieldStageParts
  <2>6. Len(w.data) = HeaderSize + l
    <3> DEFINE y == SubSeq(PeerBytes(sent), 1, HeaderSize)
               f == PeerFields(sent)
    <3>1. y \in Seq(Byte) /\ Len(y) = HeaderSize /\ f \in Seq(Byte)
      BY <2>1, Beginning, PeerFieldsAreBytes DEF Blocks
    <3> HIDE DEF y, f
    <3>2. Len(y \o f) = Len(y) + Len(f)
      BY <3>1, ConcatProperties
    <3> QED  BY <2>5, <3>1, <3>2 DEF y, f
  <2>7. AlignedTo(HeaderSize + l, 8) = s
    <3>1. l \in Nat
      BY <2>1, PeerSizes
    <3> QED  BY <3>1, PaddedHeader DEF BodyStart
  <2>8. x \in Seq(Byte) /\ Len(x) = s /\ s \in Nat /\ s <= Len(wire)
    BY <2>1, Beginning DEF Blocks
  <2>9. Len(sent.items) \in Nat /\ i \in Writer /\ i.endian = Little /\ i.data = x
    <3>1. Len(sent.items) \in Nat
      BY <2>1, PeerMessageParts
    <3>2. 0 \in 0 .. Len(sent.items)
      BY <3>1
    <3> QED  BY <2>1, <3>1, <3>2, ItemStageParts
  <2>10. a \in Reader /\ a.data = wire /\ a.pos = Len(w.data) /\ a.endian = Little
    BY <2>2, <2>5, AtIsReader
  <2>11. Align(a, 8) = IF s > Len(wire) THEN Nothing(a) ELSE Got(s, [a EXCEPT !.pos = s])
    <3>1. AlignedTo(a.pos, 8) = s
      BY <2>6, <2>7, <2>10
    <3> HIDE DEF a, s
    <3> QED  BY <2>10, <3>1 DEF Align, Seek
  <2>12. AtField = [a EXCEPT !.pos = s]
    <3>1. Align(a, 8) = Got(s, [a EXCEPT !.pos = s])
      <4> HIDE DEF a, s
      <4>1. Len(wire) \in Nat
        BY DEF CodecInv, Typed
      <4> QED  BY <2>8, <2>11, <4>1
    <3>2. AtField = Align(a, 8).r
      BY <2>2 DEF AtField
    <3> HIDE DEF a, s
    <3> QED  BY <3>1, <3>2 DEF Got
  <2>13. [a EXCEPT !.pos = s] = [data |-> wire, pos |-> s, endian |-> Little]
    <3>1. a \in Readers
      BY <2>10, ReaderParts
    <3> HIDE DEF a, s
    <3> QED  BY <2>10, <3>1 DEF Readers
  <2>14. At(i, wire) = [data |-> wire, pos |-> s, endian |-> Little]
    <3> HIDE DEF i, x, s
    <3> QED  BY <2>8, <2>9 DEF At
  <2>15. AtField = At(i, wire)
    BY <2>12, <2>13, <2>14
  <2> QED  BY <2>1, <2>4, <2>9, <2>15
<1>8. FieldsRead'
  BY <1>1, <1>3, <1>4, <1>7 DEF FieldsRead
<1>9. ItemsRead'
  <2> SUFFICES ASSUME Regular'
               PROVE  /\ Len(items') <= Len(sent'.items)
                      /\ \A i \in 1 .. Len(items') :
                           items'[i] = Meaning(sent'.items[i][1], sent'.items[i][2])
                      /\ msg'.reader = At(ItemStage(sent', Len(items')), PeerBytes(sent'))
                      /\ msg'.valid \/ Len(items') = Len(sent'.items)
    BY DEF ItemsRead
  <2>1. Len(items') = 0 /\ sent' = sent
    BY <1>1, <1>2
  <2>2. msg'.reader = At(ItemStage(sent, 0), PeerBytes(sent)) /\ Len(sent.items) \in Nat
    BY <1>3, <1>4, <1>7
  <2> QED  BY <1>2, <1>4, <2>1, <2>2
<1>10. Arriving' /\ NotRefused'
  BY <1>1 DEF Arriving, NotRefused
<1> QED  BY <1>5, <1>6, <1>8, <1>9, <1>10 DEF ReadingInv

\* The next item is read as the peer has written it.
LEMMA NextItemComesBack ==
    ASSUME CodecInv, ReadingInv, phase = "open", Regular, Len(items) < Len(sent.items)
    PROVE  LET k == Len(items) + 1
               t == sent.items[k][1]
           IN  /\ sent \in PeerMessages /\ k \in 1 .. Len(sent.items) /\ Len(items) \in Nat
               /\ t \in ValueTypes \ {CharO}
               /\ ReadAs(t, msg.reader) =
                    Got(Meaning(t, sent.items[k][2]), At(ItemStage(sent, k), PeerBytes(sent)))
<1> DEFINE k == Len(items) + 1
           t == sent.items[k][1]
           v == sent.items[k][2]
           d == PeerBytes(sent)
           w == ItemStage(sent, k - 1)
           u == WriteAs(w, t, v)
<1>1. sent \in PeerMessages /\ Received
  BY DEF CodecInv, Typed, Regular, Received
<1>2. Len(items) \in Nat /\ Len(sent.items) \in Nat
  <2>1. items \in Seq(Values)
    BY DEF CodecInv, Typed
  <2> QED  BY <1>1, <2>1, PeerMessageParts, LenProperties
<1>3. k \in 1 .. Len(sent.items) /\ k \in 0 .. Len(sent.items) /\ k - 1 = Len(items)
  BY <1>2
<1>4. msg.reader = At(w, d)
  <2>1. msg.reader = At(ItemStage(sent, Len(items)), d)
    BY DEF ReadingInv, ItemsRead
  <2> HIDE DEF k, d
  <2> QED  BY <1>3, <2>1
<1> HIDE DEF k
<1>5. t \in ValueTypes \ {CharO} /\ IsValue(t, v)
  BY <1>1, <1>3, PeerMessageParts
<1>6. w \in Writer /\ ItemStage(sent, k) = u
  BY <1>1, <1>3, NextItem
<1>7. Begins(u, d)
  BY <1>1, <1>3, <1>6, ItemsInMessage
<1> HIDE DEF t, v, w, d
<1>8. ReadAs(t, At(w, d)) = Got(Meaning(t, v), At(u, d))
  BY <1>5, <1>6, <1>7, ValueComesBack
<1>9. ReadAs(t, msg.reader) = Got(Meaning(t, v), At(ItemStage(sent, k), d))
  BY <1>4, <1>6, <1>8
<1> QED  BY <1>1, <1>2, <1>3, <1>5, <1>9 DEF k, t, v, d

\* What both extractions have in common, for a message there is something to
\* read of: they read the next item, or there is none and the message is no
\* longer valid.
LEMMA ExtractReads ==
    ASSUME CodecInv, ReadingInv, phase = "open", phase' = "open", UNCHANGED <<wire, sent, sets>>,
           msg'.fixed = msg.fixed, msg'.fields = msg.fields, msg'.fieldsValid = msg.fieldsValid,
           NEW v, msg'.reader = v.r,
           items' = IF v.ok THEN Append(items, v.val) ELSE items,
           ~Received => ~v.ok /\ v.r = msg.reader,
           Regular =>
             \/ /\ Len(items) < Len(sent.items) /\ msg'.valid = msg.valid
                /\ v = ReadAs(sent.items[Len(items) + 1][1], msg.reader)
             \/ Len(items) = Len(sent.items) /\ ~v.ok /\ v.r = msg.reader
    PROVE  ReadingInv'
<1>1. (Received' <=> Received) /\ (Regular' <=> Regular)
  BY DEF Received, Regular, Skippable
<1>2. Fresh'
  BY <1>1 DEF ReadingInv, Fresh
<1>3. HeaderKept'
  BY <1>1 DEF ReadingInv, HeaderKept
<1>4. FieldsRead'
  BY <1>1 DEF ReadingInv, FieldsRead
<1>5. Arriving' /\ NotRefused'
  BY DEF Arriving, NotRefused
<1>6. ItemsRead'
  <2> SUFFICES ASSUME Regular
               PROVE  /\ Len(items') <= Len(sent.items)
                      /\ \A i \in 1 .. Len(items') :
                           items'[i] = Meaning(sent.items[i][1], sent.items[i][2])
                      /\ msg'.reader = At(ItemStage(sent, Len(items')), PeerBytes(sent))
                      /\ msg'.valid \/ Len(items') = Len(sent.items)
    BY <1>1 DEF ItemsRead
  <2>1. /\ Len(items) <= Len(sent.items)
        /\ \A i \in 1 .. Len(items) : items[i] = Meaning(sent.items[i][1], sent.items[i][2])
        /\ msg.reader = At(ItemStage(sent, Len(items)), PeerBytes(sent))
        /\ msg.valid \/ Len(items) = Len(sent.items)
    BY DEF ReadingInv, ItemsRead
  <2>2. CASE Len(items) = Len(sent.items) /\ ~v.ok /\ v.r = msg.reader
    <3>1. items' = items /\ msg'.reader = msg.reader
      BY <2>2
    <3> QED  BY <2>1, <2>2, <3>1
  <2>3. CASE /\ Len(items) < Len(sent.items) /\ msg'.valid = msg.valid
             /\ v = ReadAs(sent.items[Len(items) + 1][1], msg.reader)
    <3> DEFINE n == Len(items)
               k == n + 1
               t == sent.items[k][1]
               val == Meaning(t, sent.items[k][2])
               r == At(ItemStage(sent, k), PeerBytes(sent))
               N == Len(sent.items)
    <3>1. /\ sent \in PeerMessages /\ k \in 1 .. N /\ n \in Nat
          /\ ReadAs(t, msg.reader) = Got(val, r)
      BY <2>3, NextItemComesBack
    <3>2. v = Got(val, r)
      BY <2>3, <3>1
    <3>3. items \in Seq(Values) /\ N \in Nat
      <4>1. items \in Seq(Values)
        BY DEF CodecInv, Typed
      <4> QED  BY <3>1, <4>1, PeerMessageParts
    <3> HIDE DEF val, r
    <3>4. v.ok /\ v.val = val /\ v.r = r
      BY <3>2 DEF Got
    <3>5. items' = Append(items, val)
      BY <3>4
    <3>6. /\ Len(items') = k /\ items'[k] = val
          /\ \A i \in 1 .. n : items'[i] = items[i]
      BY <3>3, <3>5
    <3>7. \A i \in 1 .. k : items'[i] = Meaning(sent.items[i][1], sent.items[i][2])
      <4> TAKE i \in 1 .. k
      <4>1. CASE i = k
        BY <3>6, <4>1 DEF val
      <4>2. CASE i # k
        <5>1. i \in 1 .. n
          BY <3>1, <4>2
        <5> QED  BY <2>1, <3>6, <5>1
      <4> QED  BY <4>1, <4>2
    <3>8. msg.valid
      <4>1. ~(n = N)
        BY <2>3, <3>1, <3>3
      <4> QED  BY <2>1, <4>1
    <3>9. k <= N
      BY <3>1
    <3> HIDE DEF k, n, N
    <3> QED  BY <2>3, <3>4, <3>6, <3>7, <3>8, <3>9 DEF r, N
  <2> QED  BY <2>2, <2>3
<1> QED  BY <1>2, <1>3, <1>4, <1>5, <1>6 DEF ReadingInv

\* Behind the last item of a message is its end.
LEMMA AtEndOfMessage ==
    ASSUME CodecInv, ReadingInv, phase = "open", Regular, Len(items) = Len(sent.items)
    PROVE  ReadString(msg.reader) = Nothing(msg.reader)
<1> DEFINE w == ItemStage(sent, Len(items))
           d == PeerBytes(sent)
<1>1. sent \in PeerMessages
  BY DEF CodecInv, Typed, Regular, Received
<1>2. Len(sent.items) \in Nat /\ Len(items) \in 0 .. Len(sent.items)
  <2>1. Len(sent.items) \in Nat
    BY <1>1, PeerMessageParts
  <2> QED  BY <2>1
<1>3. msg.reader = At(w, d)
  BY DEF ReadingInv, ItemsRead
<1>4. Begins(w, d) /\ Len(w.data) = Len(d)
  BY <1>1, <1>2, ItemsInMessage
<1> HIDE DEF w, d
<1>5. msg.reader \in Reader /\ msg.reader.pos = Len(msg.reader.data)
  BY <1>3, <1>4, AtIsReader
<1> QED  BY <1>5, NoStringAtEnd

LEMMA ExtractStringReads ==
    ASSUME CodecInv, ReadingInv, ExtractString
    PROVE  ReadingInv'
<1> DEFINE v == ReadString(msg.reader)
<1>1. /\ phase = "open" /\ NextType = CharS /\ UNCHANGED <<wire, sent, sets>>
      /\ msg' = [msg EXCEPT !.reader = v.r, !.valid = @ /\ v.ok]
      /\ items' = IF v.ok THEN Append(items, v.val) ELSE items
      /\ phase' = "open" \/ (~v.ok /\ v.overrun /\ phase' = "undefined")
  BY DEF ExtractString, PhaseAfter
<1>2. msg \in Messages
  BY DEF CodecInv, Typed
<1>3. msg.reader \in Reader /\ ReadsOn(v, msg.reader, Seq(Byte)) /\ v.ok \in BOOLEAN
  BY <1>2, MessageParts, ReadStringStays DEF ReadsOn
<1> HIDE DEF v
<1>4. /\ msg'.fixed = msg.fixed /\ msg'.fields = msg.fields /\ msg'.fieldsValid = msg.fieldsValid
      /\ msg'.reader = v.r /\ msg'.valid = (msg.valid /\ v.ok)
  BY <1>1, <1>2 DEF Messages
<1>5. ASSUME ~Received
      PROVE  ~v.ok /\ v.r = msg.reader
  <2>1. msg.reader = NewReader(<<>>)
    BY <1>1, <1>5 DEF ReadingInv, Fresh
  <2>2. msg.reader.pos = Len(msg.reader.data)
    BY <2>1 DEF NewReader
  <2>3. v = Nothing(msg.reader)
    BY <1>3, <2>2, NoStringAtEnd DEF v
  <2> QED  BY <2>3 DEF Nothing
<1>6. ASSUME Regular
      PROVE  \/ /\ Len(items) < Len(sent.items) /\ msg'.valid = msg.valid
                /\ v = ReadAs(sent.items[Len(items) + 1][1], msg.reader)
             \/ Len(items) = Len(sent.items) /\ v = Nothing(msg.reader)
  <2>1. CASE Len(items) < Len(sent.items)
    <3> DEFINE k == Len(items) + 1
               t == sent.items[k][1]
    <3>1. t = CharS
      BY <1>1, <1>6, <2>1 DEF NextType, Regular, Received
    <3>2. ReadAs(t, msg.reader) =
            Got(Meaning(t, sent.items[k][2]), At(ItemStage(sent, k), PeerBytes(sent)))
      BY <1>1, <1>6, <2>1, NextItemComesBack
    <3> HIDE DEF t, k
    <3>3. v = ReadAs(t, msg.reader)
      BY <3>1, TypesDiffer DEF ReadAs, v
    <3>4. v.ok
      BY <3>2, <3>3 DEF Got
    <3>5. msg'.valid = msg.valid
      <4>1. msg.valid \in BOOLEAN
        BY <1>2, MessageParts
      <4> QED  BY <1>4, <3>4, <4>1
    <3> QED  BY <2>1, <3>3, <3>5 DEF t, k
  <2>2. CASE ~(Len(items) < Len(sent.items))
    <3>1. Len(items) <= Len(sent.items)
      BY <1>1, <1>6 DEF ReadingInv, ItemsRead
    <3>2. Len(items) \in Nat /\ Len(sent.items) \in Nat
      <4>1. items \in Seq(Values) /\ sent \in PeerMessages
        BY <1>6 DEF CodecInv, Typed, Regular, Received
      <4> QED  BY <4>1, PeerMessageParts, LenProperties
    <3>3. Len(items) = Len(sent.items)
      BY <2>2, <3>1, <3>2
    <3>4. v = Nothing(msg.reader)
      BY <1>1, <1>6, <3>3, AtEndOfMessage DEF v
    <3> QED  BY <3>3, <3>4
  <2> QED  BY <2>1, <2>2
<1>7. CASE phase' = "open"
  <2>1. Regular =>
          \/ /\ Len(items) < Len(sent.items) /\ msg'.valid = msg.valid
             /\ v = ReadAs(sent.items[Len(items) + 1][1], msg.reader)
          \/ Len(items) = Len(sent.items) /\ ~v.ok /\ v.r = msg.reader
    BY <1>6 DEF Nothing
  <2> QED  BY <1>1, <1>4, <1>5, <1>7, <2>1, ExtractReads
<1>8. CASE ~v.ok /\ v.overrun /\ phase' = "undefined"
  <2>1. ~Regular
    <3> SUFFICES ASSUME Regular
                 PROVE  FALSE
      OBVIOUS
    <3>1. v # Nothing(msg.reader)
      BY <1>8 DEF Nothing
    <3>2. Len(items) < Len(sent.items)
          /\ v = ReadAs(sent.items[Len(items) + 1][1], msg.reader)
      BY <1>6, <3>1
    <3>3. v = Got(Meaning(sent.items[Len(items) + 1][1], sent.items[Len(items) + 1][2]),
                  At(ItemStage(sent, Len(items) + 1), PeerBytes(sent)))
      BY <1>1, <3>2, NextItemComesBack
    <3> QED  BY <1>8, <3>3 DEF Got
  <2>2. ~Regular'
    BY <1>1, <2>1 DEF Regular, Received, Skippable
  <2>3. NotRefused' /\ FieldsRead' /\ ItemsRead'
    BY <2>2 DEF NotRefused, FieldsRead, ItemsRead
  <2>4. Fresh' /\ Arriving' /\ HeaderKept'
    BY <1>8 DEF Fresh, Arriving, HeaderKept
  <2> QED  BY <2>3, <2>4 DEF ReadingInv
<1> QED  BY <1>1, <1>7, <1>8

\* The functions of the reader, by the type of the item.
LEMMA ReadItemReads ==
    ASSUME NEW t \in ValueTypes \ {CharO}, t # CharS
    PROVE  ReadItem(t) = ReadAs(t, msg.reader)
<1> DEFINE r == msg.reader
           v == ReadItem(t)
<1>1. v = CASE t = CharY -> ReadUInt8(r)
            [] t = CharQ -> ReadUInt(r, 2)
            [] t = CharU -> ReadUInt(r, 4)
            [] t = CharB -> ReadBool(r)
            [] t = CharT -> ReadUInt(r, 8)
            [] t = CharG -> ReadSignature(r)
  BY DEF ReadItem
<1> HIDE DEF r, v
<1>2. ReadAs(t, r) = CASE t = CharY            -> ReadUInt8(r)
                       [] t = CharQ            -> ReadUInt(r, 2)
                       [] t = CharU            -> ReadUInt(r, 4)
                       [] t = CharB            -> ReadBool(r)
                       [] t = CharT            -> ReadUInt(r, 8)
                       [] t \in {CharS, CharO} -> ReadString(r)
                       [] t = CharG            -> ReadSignature(r)
  BY DEF ReadAs
<1>3. t \in {CharY, CharQ, CharU, CharB, CharT, CharG}
  BY DEF ValueTypes
<1>4. CASE t = CharY
  BY <1>1, <1>2, <1>4, TypesDiffer DEF r, v
<1>5. CASE t = CharQ
  BY <1>1, <1>2, <1>5, TypesDiffer DEF r, v
<1>6. CASE t = CharU
  BY <1>1, <1>2, <1>6, TypesDiffer DEF r, v
<1>7. CASE t = CharB
  BY <1>1, <1>2, <1>7, TypesDiffer DEF r, v
<1>8. CASE t = CharT
  BY <1>1, <1>2, <1>8, TypesDiffer DEF r, v
<1>9. CASE t = CharG
  BY <1>1, <1>2, <1>9, TypesDiffer DEF r, v
<1> QED  BY <1>3, <1>4, <1>5, <1>6, <1>7, <1>8, <1>9

LEMMA ExtractOtherReads ==
    ASSUME CodecInv, ReadingInv, ExtractOther
    PROVE  ReadingInv'
<1> DEFINE v == ReadItem(NextType)
           k == Len(items) + 1
           t == sent.items[k][1]
           r == msg.reader
<1>1. /\ phase = "open" /\ NextType # CharS /\ phase' = "open" /\ UNCHANGED <<wire, sent, sets>>
      /\ msg' = [msg EXCEPT !.reader = v.r]
      /\ items' = IF v.ok THEN Append(items, v.val) ELSE items
  BY DEF ExtractOther
<1>2. msg \in Messages
  BY DEF CodecInv, Typed
<1> HIDE DEF v
<1>3. /\ msg'.fixed = msg.fixed /\ msg'.fields = msg.fields /\ msg'.fieldsValid = msg.fieldsValid
      /\ msg'.reader = v.r /\ msg'.valid = msg.valid
  BY <1>1, <1>2 DEF Messages
<1>4. Received /\ Len(items) < Len(sent.items) /\ NextType = t
  BY <1>1 DEF NextType, Received
<1>5. ASSUME Regular
      PROVE  v = ReadAs(t, r)
  <2>1. t \in ValueTypes \ {CharO}
    BY <1>1, <1>4, <1>5, NextItemComesBack
  <2>2. v = ReadItem(t) /\ t # CharS
    BY <1>1, <1>4 DEF v
  <2> HIDE DEF t, v
  <2> QED  BY <2>1, <2>2, ReadItemReads
<1> QED  BY <1>1, <1>3, <1>4, <1>5, ExtractReads

LEMMA NextReads ==
    ASSUME CodecInv, LittleEndianWhole, ReadingInv, [Next]_vars
    PROVE  ReadingInv'
<1>1. CASE \E f \in Settable, text \in Texts : SetField(f, text)
  BY <1>1, SetFieldReads
<1>2. CASE \E type \in Types : SetType(type)
  BY <1>2, SetTypeReads
<1>3. CASE \E serial \in Serials : Send(serial)
  BY <1>3, SendReads
<1>4. CASE \E m \in PeerMessages : PeerSends(m)
  BY <1>4, PeerSendsReads
<1>5. CASE HeaderArrives
  BY <1>5, HeaderArrivesReads
<1>6. CASE BodyArrives
  BY <1>6, BodyArrivesReads
<1>7. CASE ReadField
  BY <1>7, ReadFieldReads
<1>8. CASE Open
  BY <1>8, OpenReads
<1>9. CASE ExtractString
  BY <1>9, ExtractStringReads
<1>10. CASE ExtractOther
  BY <1>10, ExtractOtherReads
<1>11. CASE UNCHANGED vars
  BY <1>11 DEF vars, ReadingInv, Fresh, Arriving, HeaderKept, FieldsRead, NotRefused, ItemsRead,
               Regular, Received, Skippable
<1> QED
  BY <1>1, <1>2, <1>3, <1>4, <1>5, <1>6, <1>7, <1>8, <1>9, <1>10, <1>11 DEF Next, ReadFd

LEMMA InitReads == Init => ReadingInv
<1> SUFFICES ASSUME Init
             PROVE  ReadingInv
  OBVIOUS
<1>1. phase = "open" /\ msg = NewMessage /\ sent = NoMessage /\ items = <<>>
  BY DEF Init
<1>2. ~Received /\ ~Regular
  BY <1>1 DEF Received, Regular
<1>3. ~msg.fieldsValid /\ msg.reader = NewReader(<<>>)
  BY <1>1 DEF NewMessage
<1> QED  BY <1>1, <1>2, <1>3 DEF ReadingInv, Fresh, Arriving, HeaderKept, FieldsRead, NotRefused, ItemsRead

\* What readFd and the program read of a message, at every step.
THEOREM ReadingInvariant == Spec => []ReadingInv
<1>1. CodecInv /\ LittleEndianWhole /\ ReadingInv /\ [Next]_vars => ReadingInv'
  BY NextReads
<1> QED  BY <1>1, InitReads, CodecInvariant, WaitsForWhole, PTL DEF Spec

\* A little-endian message of a peer, with fields in any order and unknown ones
\* between them, is refused only for its version, no read of it overruns its
\* bytes, and the program gets the header its sender wrote. Numbers of 8 bytes are
\* left out among the unknown fields: their bytes may be taken for a field.
THEOREM HeaderIsNeverMisread == Spec => []NeverMisread
<1>1. ReadingInv => NeverMisread
  <2> SUFFICES ASSUME ReadingInv, Regular
               PROVE  /\ phase = "failed" => sent.version # 1
                      /\ phase # "undefined"
                      /\ Untouched => /\ msg.fixed.type = sent.type /\ msg.fixed.flags = sent.flags
                                      /\ msg.fixed.serial = sent.serial
                                      /\ msg.fields = Known(sent.list)
    BY DEF NeverMisread
  <2>1. /\ phase = "failed" => sent.version # 1
        /\ phase # "undefined"
    BY DEF ReadingInv, NotRefused
  <2>2. ASSUME Untouched
        PROVE  /\ msg.fixed.type = sent.type /\ msg.fixed.flags = sent.flags
               /\ msg.fixed.serial = sent.serial
    BY <2>2 DEF Untouched, Regular, ReadingInv, HeaderKept
  <2>3. ASSUME Untouched
        PROVE  msg.fields = Known(sent.list)
    BY <2>3 DEF Untouched, ReadingInv, FieldsRead
  <2> QED  BY <2>1, <2>2, <2>3
<1> QED  BY <1>1, ReadingInvariant, PTL

\* What the program reads of a body of any length is what the peer has written,
\* item by item, and the message is valid until it reads on after the last one.
THEOREM ItemsReadInOrder == Spec => []ItemsInOrder
<1>1. CodecInv /\ ReadingInv => ItemsInOrder
  <2> SUFFICES ASSUME CodecInv, ReadingInv, Regular, phase = "open"
               PROVE  LET written == [i \in DOMAIN sent.items |->
                              IF sent.items[i][1] = CharB THEN sent.items[i][2] # Zeros(4)
                              ELSE sent.items[i][2]]
                      IN  IsPrefix(items, written) /\ (msg.valid \/ Len(items) = Len(written))
    BY DEF ItemsInOrder
  <2> DEFINE N == Len(sent.items)
             written == [i \in DOMAIN sent.items |->
                              IF sent.items[i][1] = CharB THEN sent.items[i][2] # Zeros(4)
                              ELSE sent.items[i][2]]
             M(i) == Meaning(sent.items[i][1], sent.items[i][2])
  <2>1. sent \in PeerMessages /\ items \in Seq(Values)
    BY DEF CodecInv, Typed, Regular, Received
  <2>2. N \in Nat /\ DOMAIN sent.items = 1 .. N
    BY <2>1, PeerMessageParts
  <2>3. written = [i \in 1 .. N |-> M(i)]
    BY <2>2 DEF Meaning
  <2>4. /\ Len(items) <= N /\ \A i \in 1 .. Len(items) : items[i] = M(i)
        /\ msg.valid \/ Len(items) = N
    BY DEF ReadingInv, ItemsRead
  <2> HIDE DEF N, written, M
  <2>5. Len(written) = N
    BY <2>2, <2>3
  <2>6. IsPrefix(items, written)
    BY <2>1, <2>2, <2>3, <2>4, <2>5 DEF IsPrefix
  <2> QED  BY <2>4, <2>5, <2>6 DEF written
<1> QED  BY <1>1, CodecInvariant, ReadingInvariant, PTL

----------------------------------------------------------------------------
(* The library and the example read alike *)

\* What the example has where the library has no value.
PeerOf(read) == IF read.overrun THEN Peer!Overrun ELSE Peer!Thrown

\* Both have no value, for the same reason, or the same and go on at the same
\* place.
Agree(peer, read) ==
    /\ peer.ok <=> read.ok
    /\ peer.ok => peer.val = read.val /\ peer.next = read.r.pos
    /\ ~peer.ok => peer = PeerOf(read)

LEMMA NoValues ==
    /\ ~Peer!Thrown.ok /\ ~Peer!Overrun.ok
    /\ \A q : /\ ~Nothing(q).ok /\ PeerOf(Nothing(q)) = Peer!Thrown
             /\ ~Overrun(q).ok /\ PeerOf(Overrun(q)) = Peer!Overrun
BY DEF Peer!Thrown, Peer!Overrun, Nothing, Overrun, PeerOf

LEMMA NoValuesAgree ==
    ASSUME NEW q
    PROVE  Agree(Peer!Thrown, Nothing(q)) /\ Agree(Peer!Overrun, Overrun(q))
BY Zenon, NoValues DEF Agree

LEMMA PeerWords ==
    /\ \A b : Peer!Number(b) = Number(b)
    /\ Peer!CharO = CharO /\ Peer!CharS = CharS /\ Peer!CharU = CharU /\ Peer!CharG = CharG
    /\ Peer!MaxUInt32 = MaxUInt32
    /\ Peer!StringFields = StringFields /\ Peer!NumberFields = NumberFields
    /\ Peer!Signature = Signature /\ Peer!Little = Little /\ Peer!Big = Big
<1>1. \A b : Peer!Number(b) = Number(b)
  BY DEF Peer!Number, Number
<1>2. Peer!CharO = CharO /\ Peer!CharS = CharS /\ Peer!CharU = CharU /\ Peer!CharG = CharG
  BY DEF Peer!CharO, CharO, Peer!CharS, CharS, Peer!CharU, CharU, Peer!CharG, CharG
<1>3. /\ Peer!StringFields = StringFields /\ Peer!NumberFields = NumberFields
      /\ Peer!Signature = Signature /\ Peer!Little = Little /\ Peer!Big = Big
  BY DEF Peer!Path, Path, Peer!StringFields, StringFields,
         Peer!NumberFields, NumberFields, Peer!Signature, Signature, Peer!Interface, Interface,
         Peer!Member, Member, Peer!ErrorName, ErrorName, Peer!Destination, Destination,
         Peer!Sender, Sender, Peer!ReplySerial, ReplySerial, Peer!UnixFDs, UnixFDs,
         Peer!Little, Little, Peer!Big, Big
<1>4. Peer!MaxUInt32 = MaxUInt32
  BY DEF Peer!MaxUInt32, MaxUInt32
<1> QED  BY <1>1, <1>2, <1>3, <1>4

LEMMA CharsAgree ==
    ASSUME NEW r \in Reader, NEW n \in Nat
    PROVE  Agree(Peer!TextAt(r.data, r.pos, n), ReadChars(r, n))
<1> DEFINE d == r.data
           p == r.pos
           l == Len(d)
           nul == Advance(r, n)
           text == Bytes(r, n)
           end == Advance(nul, 1)
           read == ReadChars(r, n)
           peer == Peer!TextAt(d, p, n)
<1>1. d \in Seq(Byte) /\ l \in Nat /\ p \in Nat /\ p <= l
  BY ReaderParts
<1>2. read = IF ~Check(r, n + 1) THEN Nothing(r)
             ELSE IF Bytes(nul, 1)[1] # 0 THEN Nothing(nul) ELSE Got(text, end)
  BY DEF ReadChars
<1>3. Check(r, n + 1) <=> p + n < l
  <2>1. Check(r, n + 1) <=> p + (n + 1) <= l
    BY DEF Check
  <2> HIDE DEF p, l
  <2> QED  BY <1>1, <2>1
<1>4. peer = IF p + n < l /\ d[p + n + 1] = 0
             THEN [ok |-> TRUE, val |-> text, next |-> p + n + 1] ELSE Peer!Thrown
  BY DEF Peer!TextAt, Peer!Read, Bytes
<1>5. CASE ~(p + n < l)
  <2>1. read = Nothing(r) /\ peer = Peer!Thrown
    BY <1>2, <1>3, <1>4, <1>5
  <2> HIDE DEF read, peer
  <2>2. Agree(peer, read)
    BY <2>1, NoValuesAgree
  <2> QED  BY <2>2 DEF peer, read
<1>6. CASE p + n < l
  <2>1. nul \in Reader /\ nul.data = d /\ nul.pos = p + n
    <3>1. Check(r, n)
      BY <1>1, <1>6 DEF Check
    <3> QED  BY <3>1, AdvanceStays
  <2> HIDE DEF nul, p, d
  <2>2. Check(nul, 1)
    BY <1>1, <1>6, <2>1 DEF Check, l
  <2>3. end.pos = p + n + 1 /\ Bytes(nul, 1)[1] = d[p + n + 1]
    <3>1. end.pos = nul.pos + 1 /\ \A i \in 1 .. 1 : Bytes(nul, 1)[i] = nul.data[nul.pos + i]
      BY <2>1, <2>2, AdvanceStays
    <3> QED  BY <2>1, <3>1
  <2> HIDE DEF end, text, read, peer
  <2>4. Agree(peer, read)
    <3>1. CASE d[p + n + 1] = 0
      <4>1. read = Got(text, end) /\ peer = [ok |-> TRUE, val |-> text, next |-> p + n + 1]
        BY <1>2, <1>3, <1>4, <1>6, <2>3, <3>1
      <4> QED  BY <2>3, <4>1 DEF Agree, Got
    <3>2. CASE d[p + n + 1] # 0
      <4>1. read = Nothing(nul) /\ peer = Peer!Thrown
        BY <1>2, <1>3, <1>4, <1>6, <2>3, <3>2
      <4> QED  BY <4>1, NoValuesAgree
    <3> QED  BY <3>1, <3>2
  <2> QED  BY <2>4 DEF peer, read, d, p
<1> QED  BY <1>5, <1>6

LEMMA SignaturesAgree ==
    ASSUME NEW r \in Reader
    PROVE  Agree(Peer!SignatureAt(r.data, r.pos), ReadSignature(r))
<1> DEFINE d == r.data
           p == r.pos
           l == Len(d)
           at == Advance(r, 1)
           n == d[p + 1]
           read == ReadSignature(r)
           peer == Peer!SignatureAt(d, p)
           byte == ReadUInt8(r)
<1>1. d \in Seq(Byte) /\ l \in Nat /\ p \in Nat /\ p <= l
  BY ReaderParts
<1>2. peer = IF p < l THEN Peer!TextAt(d, p + 1, n) ELSE Peer!Thrown
  BY DEF Peer!SignatureAt
<1>3. byte = IF Check(r, 1) THEN Got(Bytes(r, 1)[1], at) ELSE Nothing(r)
  BY DEF ReadUInt8
<1>4. Check(r, 1) <=> p < l
  BY <1>1 DEF Check
<1>5. read = IF byte.ok THEN ReadChars(byte.r, byte.val) ELSE byte
  BY DEF ReadSignature, Then
<1>6. CASE ~(p < l)
  <2> HIDE DEF byte, peer, read
  <2>1. byte = Nothing(r) /\ peer = Peer!Thrown
    BY <1>2, <1>3, <1>4, <1>6
  <2>2. read = Nothing(r)
    BY <1>5, <2>1, NoValues
  <2>3. Agree(peer, read)
    BY <2>1, <2>2, NoValuesAgree
  <2> QED  BY <2>3 DEF peer, read
<1>7. CASE p < l
  <2>1. /\ at \in Reader /\ at.data = d /\ at.pos = p + 1
        /\ \A i \in 1 .. 1 : Bytes(r, 1)[i] = d[p + i]
    BY <1>4, <1>7, AdvanceStays
  <2>2. Bytes(r, 1)[1] = n
    BY <2>1
  <2>3. n \in Nat
    <3>1. p + 1 \in 1 .. l
      BY <1>1, <1>7
    <3>2. n \in Byte
      BY <1>1, <3>1
    <3> QED  BY <3>2 DEF Byte
  <2> HIDE DEF at, n, byte, d, p
  <2>4. byte.ok /\ byte.val = n /\ byte.r = at
    BY <1>3, <1>4, <1>7, <2>2 DEF Got
  <2>5. read = ReadChars(at, n) /\ peer = Peer!TextAt(at.data, at.pos, n)
    BY <1>2, <1>5, <1>7, <2>1, <2>4
  <2>6. Agree(Peer!TextAt(at.data, at.pos, n), ReadChars(at, n))
    BY <2>1, <2>3, CharsAgree
  <2> QED  BY <2>5, <2>6 DEF d, p
<1> QED  BY <1>6, <1>7

LEMMA UIntsAgree ==
    ASSUME NEW r \in Reader
    PROVE  Agree(Peer!UInt32At(r.data, r.endian, r.pos), ReadUInt(r, 4))
<1> DEFINE d == r.data
           p == r.pos
           e == r.endian
           l == Len(d)
           a == AlignedTo(p, 4)
           at == [r EXCEPT !.pos = a]
           seek == Align(r, 4)
           read == ReadUInt(r, 4)
           peer == Peer!UInt32At(d, e, p)
           v == InOrder(e, SubSeq(d, a + 1, a + 4))
<1>1. d \in Seq(Byte) /\ l \in Nat /\ p \in Nat /\ p <= l
  BY ReaderParts
<1>2. a \in Nat
  BY <1>1, Alignment DEF Sizes
<1>3. peer = IF a + 4 <= l THEN [ok |-> TRUE, val |-> v, next |-> a + 4] ELSE Peer!Thrown
  <2>1. Peer!AlignedTo(p, 4) = a /\ \A b : Peer!InOrder(e, b) = InOrder(e, b)
    BY PeerVocabulary
  <2> HIDE DEF a
  <2> QED  BY <2>1 DEF Peer!UInt32At, Peer!Read
<1>4. seek = IF a > l THEN Nothing(r) ELSE Got(a, at)
  BY DEF Align, Seek
<1>5. read = IF seek.ok THEN IF Check(seek.r, 4)
                             THEN Got(InOrder(e, Bytes(seek.r, 4)), Advance(seek.r, 4))
                             ELSE Nothing(seek.r)
             ELSE seek
  BY DEF ReadUInt, Then
<1>6. CASE a > l
  <2> HIDE DEF a, l, seek, read, peer
  <2>1. seek = Nothing(r) /\ peer = Peer!Thrown
    BY <1>1, <1>2, <1>3, <1>4, <1>6
  <2>2. read = Nothing(r)
    BY <1>5, <2>1, NoValues
  <2>3. Agree(peer, read)
    BY <2>1, <2>2, NoValuesAgree
  <2> QED  BY <2>3 DEF peer, read
<1>7. CASE ~(a > l)
  <2>1. at \in Reader /\ at.data = d /\ at.endian = e /\ at.pos = a
    <3>1. a <= l
      BY <1>1, <1>2, <1>7
    <3> HIDE DEF a
    <3> QED  BY <1>2, <3>1, MovedReader
  <2>2. Check(at, 4) <=> a + 4 <= l
    BY <2>1 DEF Check
  <2>3. Bytes(at, 4) = SubSeq(d, a + 1, a + 4)
    BY <2>1 DEF Bytes
  <2> HIDE DEF at, a
  <2>4. Check(at, 4) => Advance(at, 4).pos = a + 4
    BY <2>1, AdvanceStays
  <2> HIDE DEF seek
  <2>5. seek.ok /\ seek.r = at
    BY <1>4, <1>7 DEF Got
  <2> HIDE DEF read, peer
  <2>6. read = IF a + 4 <= l THEN Got(v, Advance(at, 4)) ELSE Nothing(at)
    BY <1>5, <2>2, <2>3, <2>5
  <2> HIDE DEF v, l
  <2>7. Agree(peer, read)
    <3>1. CASE a + 4 <= l
      BY <1>3, <2>2, <2>4, <2>6, <3>1 DEF Agree, Got
    <3>2. CASE ~(a + 4 <= l)
      BY <1>3, <2>6, <3>2, NoValuesAgree
    <3> QED  BY <3>1, <3>2
  <2> QED  BY <2>7 DEF peer, read
<1> QED  BY <1>6, <1>7

LEMMA StringsAgree ==
    ASSUME NEW r \in Reader
    PROVE  Agree(Peer!StringAt(r.data, r.endian, r.pos), ReadString(r))
<1> DEFINE len == ReadUInt(r, 4)
           peerLen == Peer!UInt32At(r.data, r.endian, r.pos)
           at == len.r
           n == Number(len.val)
           read == ReadString(r)
           peer == Peer!StringAt(r.data, r.endian, r.pos)
<1>1. Agree(peerLen, len)
  BY UIntsAgree
<1>2. ReadsOn(len, r, Strings(4))
  BY ReadUIntStays DEF Sizes
<1>3. read = IF len.ok THEN IF len.val = MaxUInt32 THEN Overrun(at) ELSE ReadChars(at, n)
             ELSE len
  BY DEF ReadString, Then
<1>4. peer = IF peerLen.ok
             THEN IF peerLen.val = MaxUInt32 THEN Peer!Overrun
                  ELSE Peer!TextAt(r.data, peerLen.next, Peer!Number(peerLen.val))
             ELSE peerLen
  BY PeerWords DEF Peer!StringAt, Peer!Then
<1>5. Peer!Number(peerLen.val) = Number(peerLen.val)
  BY PeerWords
<1> HIDE DEF len, peerLen, read, peer
<1>6. CASE ~len.ok
  <2>1. read = len /\ peer = peerLen
    BY <1>1, <1>3, <1>4, <1>6 DEF Agree
  <2>2. Agree(peer, read)
    BY <1>1, <2>1
  <2> QED  BY <2>2 DEF peer, read
<1>7. CASE len.ok
  <2>1. at \in Reader /\ at.data = r.data /\ len.val \in Strings(4)
    BY <1>2, <1>7 DEF ReadsOn
  <2>2. n \in Nat
    <3>1. len.val \in Word
      BY <2>1, WordIsBytes DEF Strings
    <3> QED  BY <3>1, NumberIsNat
  <2>3. peerLen.ok /\ peerLen.val = len.val /\ peerLen.next = at.pos
    BY <1>1, <1>7 DEF Agree
  <2> HIDE DEF at
  <2>4. CASE len.val = MaxUInt32
    <3>1. read = Overrun(at) /\ peer = Peer!Overrun
      BY <1>3, <1>4, <1>7, <2>3, <2>4
    <3>2. Agree(peer, read)
      BY <3>1, NoValuesAgree
    <3> QED  BY <3>2 DEF peer, read
  <2>5. CASE len.val # MaxUInt32
    <3>1. read = ReadChars(at, n) /\ peer = Peer!TextAt(at.data, at.pos, n)
      BY <1>3, <1>4, <1>5, <1>7, <2>1, <2>3, <2>5
    <3> HIDE DEF n
    <3>2. Agree(Peer!TextAt(at.data, at.pos, n), ReadChars(at, n))
      BY <2>1, <2>2, CharsAgree
    <3>3. Agree(peer, read)
      BY <3>1, <3>2
    <3> QED  BY <3>3 DEF peer, read
  <2> QED  BY <2>4, <2>5
<1> QED  BY <1>6, <1>7

LEMMA OverIsAssociative ==
    ASSUME NEW a, NEW b, NEW c
    PROVE  Peer!Over(Peer!Over(a, b), c) = Peer!Over(a, Peer!Over(b, c))
BY DEF Peer!Over

LEMMA OverNothing ==
    ASSUME NEW D, NEW g, g = [f \in D |-> g[f]]
    PROVE  Peer!Over(<<>>, g) = g
<1>1. DOMAIN <<>> = {} /\ DOMAIN g = D
  OBVIOUS
<1> QED  BY <1>1 DEF Peer!Over

\* Both have no value, for the same reason, or go on at the same place, and the
\* library has put what the example has read over the fields g.
AgreeOver(peer, read, g) ==
    /\ peer.ok <=> read.ok
    /\ ~peer.ok => peer = PeerOf(read)
    /\ peer.ok => read.val = Peer!Over(peer.val, g) /\ peer.next = read.r.pos

LEMMA MapIsMap ==
    ASSUME NEW g \in FieldMaps
    PROVE  g = [f \in DOMAIN g |-> g[f]]
<1>1. PICK D \in SUBSET Fields : g \in [D -> Seq(Byte)]
  BY DEF FieldMaps
<1> QED  BY <1>1

\* The example keeps a value if the field is one of "known".
Keep(code, known, v) == [f \in {code} \cap known |-> v]

Kept(code, known, read) ==
    IF read.ok THEN [ok |-> TRUE, val |-> Keep(code, known, read.val), next |-> read.next]
    ELSE read

LEMMA KeptAgrees ==
    ASSUME NEW g \in FieldMaps, NEW code, NEW known, NEW v
    PROVE  Peer!Over(Keep(code, known, v), g) =
             IF code \in known THEN WithField(g, code, v) ELSE g
<1>0. g = [f \in DOMAIN g |-> g[f]]
  BY MapIsMap
<1> DEFINE h == Keep(code, known, v)
<1>1. DOMAIN h = {code} \cap known /\ \A f \in {code} \cap known : h[f] = v
  BY DEF Keep
<1> HIDE DEF h
<1>2. Peer!Over(h, g) = [f \in DOMAIN h \cup DOMAIN g |-> IF f \in DOMAIN h THEN h[f] ELSE g[f]]
  BY DEF Peer!Over
<1>3. CASE code \in known
  <2>1. WithField(g, code, v) = [f \in DOMAIN g \cup {code} |-> IF f = code THEN v ELSE g[f]]
    BY DEF WithField
  <2>2. DOMAIN h = {code} /\ h[code] = v
    BY <1>1, <1>3
  <2>3. Peer!Over(h, g) = WithField(g, code, v)
    BY <1>2, <2>1, <2>2
  <2> QED  BY <1>3, <2>3 DEF h
<1>4. CASE code \notin known
  <2>1. DOMAIN h = {}
    BY <1>1, <1>4
  <2>2. Peer!Over(h, g) = [f \in DOMAIN g |-> g[f]]
    BY <1>2, <2>1
  <2>3. Peer!Over(h, g) = g
    BY <1>0, <2>2
  <2> QED  BY <1>4, <2>3 DEF h
<1> QED  BY <1>3, <1>4

LEMMA StoresAgree ==
    ASSUME NEW g \in FieldMaps, NEW code, NEW known,
           NEW peer, NEW read, Agree(peer, read)
    PROVE  AgreeOver(Kept(code, known, peer), Store(g, code, known, read), g)
<1> DEFINE v == read.val
           h == Keep(code, known, v)
           stored == IF code \in known THEN WithField(g, code, v) ELSE g
<1>1. Store(g, code, known, read) = IF read.ok THEN Got(stored, read.r) ELSE read
  BY DEF Store, Then
<1>2. Peer!Over(h, g) = stored
  BY KeptAgrees
<1> HIDE DEF v, h, stored
<1>3. CASE peer.ok
  <2>1. read.ok /\ peer.val = v /\ peer.next = read.r.pos
    BY <1>3 DEF Agree, v
  <2>2. AgreeOver([ok |-> TRUE, val |-> h, next |-> peer.next], Got(stored, read.r), g)
    BY <1>2, <2>1 DEF AgreeOver, Got
  <2>3. Kept(code, known, peer) = [ok |-> TRUE, val |-> h, next |-> peer.next]
    BY <1>3, <2>1 DEF Kept, h
  <2> QED  BY <1>1, <2>1, <2>2, <2>3
<1>4. CASE ~peer.ok
  <2>1. ~read.ok /\ peer = PeerOf(read)
    BY <1>4 DEF Agree
  <2>2. AgreeOver(peer, read, g)
    BY <1>4, <2>1 DEF AgreeOver
  <2>3. Kept(code, known, peer) = peer
    BY <1>4 DEF Kept
  <2> QED  BY <1>1, <2>1, <2>2, <2>3
<1> QED  BY <1>3, <1>4

LEMMA FieldValuesAgree ==
    ASSUME NEW g \in FieldMaps, NEW code, NEW sig, NEW r \in Reader
    PROVE  AgreeOver(
                 CASE sig \in {<<CharS>>, <<CharO>>} ->
                        Kept(code, StringFields, Peer!StringAt(r.data, r.endian, r.pos))
                   [] sig = <<CharG>> -> Kept(code, {Signature}, Peer!SignatureAt(r.data, r.pos))
                   [] sig = <<CharU>> -> Kept(code, NumberFields, Peer!UInt32At(r.data, r.endian, r.pos))
                   [] OTHER -> [ok |-> TRUE, val |-> <<>>, next |-> r.pos],
                 ReadFieldValue(g, code, sig, r), g)
<1> DEFINE string == Store(g, code, StringFields, ReadString(r))
           signature == Store(g, code, {Signature}, ReadSignature(r))
           number == Store(g, code, NumberFields, ReadUInt(r, 4))
           skipped == Got(g, r)
           peerString == Kept(code, StringFields, Peer!StringAt(r.data, r.endian, r.pos))
           peerSignature == Kept(code, {Signature}, Peer!SignatureAt(r.data, r.pos))
           peerNumber == Kept(code, NumberFields, Peer!UInt32At(r.data, r.endian, r.pos))
           peerSkipped == [ok |-> TRUE, val |-> <<>>, next |-> r.pos]
<1>1. AgreeOver(peerString, string, g)
  BY StringsAgree, StoresAgree
<1>2. AgreeOver(peerSignature, signature, g)
  BY SignaturesAgree, StoresAgree
<1>3. AgreeOver(peerNumber, number, g)
  BY UIntsAgree, StoresAgree
<1>4. AgreeOver(peerSkipped, skipped, g)
  <2>1. Peer!Over(<<>>, g) = g
    BY MapIsMap, OverNothing
  <2> QED  BY <2>1 DEF AgreeOver, Got
<1>5. ReadFieldValue(g, code, sig, r) =
        CASE sig \in {<<CharS>>, <<CharO>>} -> string
          [] sig = <<CharG>> -> signature
          [] sig = <<CharU>> -> number
          [] OTHER           -> skipped
  BY DEF ReadFieldValue
<1>6. <<CharS>> # <<CharG>> /\ <<CharO>> # <<CharG>> /\ <<CharS>> # <<CharU>>
      /\ <<CharO>> # <<CharU>> /\ <<CharG>> # <<CharU>>
  BY DEF CharS, CharO, CharG, CharU
<1> DEFINE peer == CASE sig \in {<<CharS>>, <<CharO>>} -> peerString
                     [] sig = <<CharG>> -> peerSignature
                     [] sig = <<CharU>> -> peerNumber
                     [] OTHER -> peerSkipped
           read == ReadFieldValue(g, code, sig, r)
<1> HIDE DEF string, signature, number, skipped, peerString, peerSignature, peerNumber, peerSkipped, read
<1>7. AgreeOver(peer, read, g)
  <2>1. CASE sig \in {<<CharS>>, <<CharO>>}
    <3>1. peer = peerString /\ read = string
      BY <1>5, <1>6, <2>1 DEF read
    <3> HIDE DEF peer
    <3> QED  BY <1>1, <3>1
  <2>2. CASE sig = <<CharG>>
    <3>1. peer = peerSignature /\ read = signature
      BY <1>5, <1>6, <2>2 DEF read
    <3> HIDE DEF peer
    <3> QED  BY <1>2, <3>1
  <2>3. CASE sig = <<CharU>>
    <3>1. peer = peerNumber /\ read = number
      BY <1>5, <1>6, <2>3 DEF read
    <3> HIDE DEF peer
    <3> QED  BY <1>3, <3>1
  <2>4. CASE sig \notin {<<CharS>>, <<CharO>>} /\ sig # <<CharG>> /\ sig # <<CharU>>
    <3>1. peer = peerSkipped /\ read = skipped
      BY <1>5, <2>4 DEF read
    <3> HIDE DEF peer
    <3> QED  BY <1>4, <3>1
  <2> QED  BY <2>1, <2>2, <2>3, <2>4
<1> QED  BY <1>7 DEF read, peerString, peerSignature, peerNumber, peerSkipped

LEMMA FieldsAgree ==
    ASSUME NEW g \in FieldMaps, NEW r \in Reader
    PROVE  AgreeOver(Peer!FieldAt(r.data, r.endian, r.pos), ParseField(g, r), g)
<1> DEFINE d == r.data
           e == r.endian
           p == r.pos
           l == Len(d)
           c == d[p + 1]
           byte == ReadUInt8(r)
           at == Advance(r, 1)
           sig == ReadSignature(at)
           peerSig == Peer!SignatureAt(d, p + 1)
           read == ParseField(g, r)
           peer == Peer!FieldAt(d, e, p)
<1>1. d \in Seq(Byte) /\ l \in Nat /\ p \in Nat /\ p <= l
  BY ReaderParts
<1>2. peer = IF peerSig.ok
             THEN CASE peerSig.val \in {<<CharS>>, <<CharO>>} ->
                          Kept(c, StringFields, Peer!StringAt(d, e, peerSig.next))
                    [] peerSig.val = <<CharG>> -> Kept(c, {Signature}, Peer!SignatureAt(d, peerSig.next))
                    [] peerSig.val = <<CharU>> ->
                          Kept(c, NumberFields, Peer!UInt32At(d, e, peerSig.next))
                    [] OTHER -> [ok |-> TRUE, val |-> <<>>, next |-> peerSig.next]
             ELSE peerSig
  BY PeerWords DEF Peer!FieldAt, Peer!Then, Peer!Read, Kept, Keep
<1>3. read = IF byte.ok THEN (IF ReadSignature(byte.r).ok
                              THEN ReadFieldValue(g, byte.val, ReadSignature(byte.r).val, ReadSignature(byte.r).r)
                              ELSE ReadSignature(byte.r))
             ELSE byte
  BY DEF ParseField, Then
<1>4. byte = IF Check(r, 1) THEN Got(Bytes(r, 1)[1], at) ELSE Nothing(r)
  BY DEF ReadUInt8
<1>5. Check(r, 1) <=> p < l
  BY <1>1 DEF Check
<1>6. CASE ~(p < l)
  <2>1. peerSig = Peer!Thrown
    <3>1. ~(p + 1 < l)
      BY <1>1, <1>6
    <3> HIDE DEF l, d, p
    <3> QED  BY <3>1 DEF Peer!SignatureAt, l
  <2> HIDE DEF byte, peer, read, peerSig
  <2>2. read = Nothing(r) /\ peer = Peer!Thrown
    BY <1>2, <1>3, <1>4, <1>5, <1>6, <2>1, NoValues
  <2>3. AgreeOver(peer, read, g)
    BY Zenon, <2>2, NoValues DEF AgreeOver
  <2> QED  BY <2>3 DEF peer, read
<1>7. CASE p < l
  <2>1. /\ at \in Reader /\ at.data = d /\ at.endian = e /\ at.pos = p + 1
        /\ \A i \in 1 .. 1 : Bytes(r, 1)[i] = d[p + i]
    BY <1>5, <1>7, AdvanceStays
  <2>2. Bytes(r, 1)[1] = c
    BY <2>1
  <2> HIDE DEF at, byte
  <2>3. byte.ok /\ byte.val = c /\ byte.r = at
    BY <1>4, <1>5, <1>7, <2>2 DEF Got
  <2>4. read = IF sig.ok THEN ReadFieldValue(g, c, sig.val, sig.r) ELSE sig
    BY <1>3, <2>3
  <2>5. Agree(peerSig, sig)
    <3>1. Agree(Peer!SignatureAt(at.data, at.pos), ReadSignature(at))
      BY <2>1, SignaturesAgree
    <3> HIDE DEF d, p
    <3> QED  BY <2>1, <3>1
  <2>6. ReadsOn(sig, at, Seq(Byte))
    BY <2>1, ReadSignatureStays
  <2> HIDE DEF sig, peerSig, read, peer, c
  <2>7. CASE ~sig.ok
    <3>1. read = sig /\ peer = peerSig /\ ~peerSig.ok /\ peerSig = PeerOf(sig)
      BY <1>2, <2>4, <2>5, <2>7 DEF Agree
    <3>2. AgreeOver(peer, read, g)
      BY <2>7, <3>1 DEF AgreeOver
    <3> QED  BY <3>2 DEF peer, read
  <2>8. CASE sig.ok
    <3> DEFINE q == sig.r
               s == sig.val
    <3>1. q \in Reader /\ q.data = d /\ q.endian = e
      <4> HIDE DEF d, e
      <4> QED  BY <2>1, <2>6 DEF ReadsOn
    <3>2. peerSig.ok /\ peerSig.val = s /\ peerSig.next = q.pos
      BY <2>5, <2>8 DEF Agree
    <3> HIDE DEF q, s, d, e, p
    <3>3. AgreeOver(
            CASE s \in {<<CharS>>, <<CharO>>} ->
                   Kept(c, StringFields, Peer!StringAt(q.data, q.endian, q.pos))
              [] s = <<CharG>> -> Kept(c, {Signature}, Peer!SignatureAt(q.data, q.pos))
              [] s = <<CharU>> -> Kept(c, NumberFields, Peer!UInt32At(q.data, q.endian, q.pos))
              [] OTHER -> [ok |-> TRUE, val |-> <<>>, next |-> q.pos],
            ReadFieldValue(g, c, s, q), g)
      BY <3>1, FieldValuesAgree
    <3>4. read = ReadFieldValue(g, c, s, q)
      BY <2>4, <2>8 DEF q, s
    <3>5. peer = CASE s \in {<<CharS>>, <<CharO>>} ->
                        Kept(c, StringFields, Peer!StringAt(q.data, q.endian, q.pos))
                   [] s = <<CharG>> -> Kept(c, {Signature}, Peer!SignatureAt(q.data, q.pos))
                   [] s = <<CharU>> -> Kept(c, NumberFields, Peer!UInt32At(q.data, q.endian, q.pos))
                   [] OTHER -> [ok |-> TRUE, val |-> <<>>, next |-> q.pos]
      BY <1>2, <3>1, <3>2
    <3>6. AgreeOver(peer, read, g)
      BY <3>3, <3>4, <3>5
    <3> QED  BY <3>6 DEF peer, read, d, e, p
  <2> QED  BY <2>7, <2>8
<1> QED  BY <1>6, <1>7

\* A field has at least one byte.
LEMMA ParseFieldMoves ==
    ASSUME NEW g \in FieldMaps, NEW r \in Reader, ParseField(g, r).ok
    PROVE  r.pos < ParseField(g, r).r.pos
<1> DEFINE code == ReadUInt8(r)
           sig == ReadSignature(code.r)
           field == ReadFieldValue(g, code.val, sig.val, sig.r)
<1>1. ReadsOn(code, r, Byte)
  BY ReadUInt8Stays
<1>2. ParseField(g, r) = IF code.ok THEN IF sig.ok THEN field ELSE sig ELSE code
  BY DEF ParseField, Then
<1>3. code.ok => code.r.pos = r.pos + 1
  <2>1. Check(r, 1) => Advance(r, 1).pos = r.pos + 1
    BY AdvanceStays
  <2> QED  BY <2>1 DEF ReadUInt8, Got, Nothing
<1> HIDE DEF code
<1>4. code.r \in Reader
  BY <1>1 DEF ReadsOn
<1>5. ReadsOn(sig, code.r, Seq(Byte))
  BY <1>4, ReadSignatureStays
<1> HIDE DEF sig
<1>6. sig.r \in Reader /\ code.r.pos <= sig.r.pos
  BY <1>5 DEF ReadsOn
<1>7. ReadsOn(field, sig.r, FieldMaps)
  BY <1>6, ReadFieldValueStays
<1> HIDE DEF field
<1>8. field.r \in Reader /\ sig.r.pos <= field.r.pos
  BY <1>7 DEF ReadsOn
<1>9. code.ok /\ sig.ok /\ ParseField(g, r) = field
  BY <1>2
<1>10. r.pos \in Nat /\ code.r.pos \in Nat /\ sig.r.pos \in Nat /\ field.r.pos \in Nat
  BY <1>4, <1>6, <1>8, ReaderParts
<1> QED  BY <1>3, <1>6, <1>8, <1>9, <1>10

----------------------------------------------------------------------------
(* The fields of the example, from each offset on *)

LEMMA FieldAtMoves ==
    ASSUME NEW d \in Seq(Byte), NEW e \in Byte, NEW a \in 0 .. Len(d), Peer!FieldAt(d, e, a).ok
    PROVE  Peer!FieldAt(d, e, a).next \in a + 1 .. Len(d)
<1> DEFINE r == [data |-> d, pos |-> a, endian |-> e]
           field == ParseField(<<>>, r)
           peer == Peer!FieldAt(d, e, a)
<1>1. r \in Reader /\ r.data = d /\ r.pos = a /\ r.endian = e
  BY DEF Reader, Readers
<1> HIDE DEF r
<1>2. AgreeOver(Peer!FieldAt(r.data, r.endian, r.pos), field, <<>>)
  BY <1>1, NoFieldsAreAMap, FieldsAgree
<1> HIDE DEF field
<1>3. field.ok /\ peer.next = field.r.pos
  BY <1>1, <1>2 DEF AgreeOver
<1>4. r.pos < field.r.pos
  BY <1>1, <1>3, NoFieldsAreAMap, ParseFieldMoves DEF field
<1>5. ReadsOn(field, r, FieldMaps)
  BY <1>1, NoFieldsAreAMap, ParseFieldStays DEF field
<1>6. field.r \in Reader /\ field.r.data = d
  BY <1>1, <1>5 DEF ReadsOn
<1>7. field.r.pos \in Nat /\ field.r.pos <= Len(d) /\ Len(d) \in Nat
  BY <1>6, ReaderParts
<1> HIDE DEF peer
<1>8. peer.next \in a + 1 .. Len(d)
  BY <1>1, <1>3, <1>4, <1>7
<1> QED  BY <1>8 DEF peer

\* The fields from the offset p on, if f says those from each later offset on.
FromHere(d, e, end, f, p) ==
    LET a     == AlignedTo(p, 8)
        field == Peer!FieldAt(d, e, a)
        rest  == f[field.next]
    IN  IF p >= end THEN Peer!Read(<<>>, p)
        ELSE IF a > Len(d) THEN Peer!Thrown
        ELSE IF a >= end THEN Peer!Read(<<>>, a)
        ELSE IF field.ok
             THEN IF rest.ok THEN Peer!Read(Peer!Over(rest.val, field.val), rest.next)
                  ELSE rest
             ELSE field

LEMMA FromHereLooksAhead ==
    ASSUME NEW d \in Seq(Byte), NEW e \in Byte, NEW end, NEW p \in 0 .. Len(d), NEW f, NEW g,
           \A q \in p + 1 .. Len(d) : f[q] = g[q]
    PROVE  FromHere(d, e, end, f, p) = FromHere(d, e, end, g, p)
<1> DEFINE a == AlignedTo(p, 8)
           field == Peer!FieldAt(d, e, a)
<1>1. a \in Nat /\ p <= a /\ Len(d) \in Nat
  BY Alignment DEF Sizes
<1> HIDE DEF a
<1>2. a <= Len(d) /\ field.ok => field.next \in p + 1 .. Len(d)
  <2> SUFFICES ASSUME a <= Len(d), field.ok
               PROVE  field.next \in p + 1 .. Len(d)
    OBVIOUS
  <2>1. field.next \in a + 1 .. Len(d)
    <3>1. a \in 0 .. Len(d)
      BY <1>1
    <3> QED  BY <3>1, FieldAtMoves
  <2> HIDE DEF field
  <2> QED  BY <1>1, <2>1
<1> HIDE DEF field
<1>3. a <= Len(d) /\ field.ok => f[field.next] = g[field.next]
  BY <1>2
<1>4. a > Len(d) \/ a <= Len(d)
  BY <1>1
<1> DEFINE F(x) == IF p >= end THEN Peer!Read(<<>>, p)
                   ELSE IF a > Len(d) THEN Peer!Thrown
                   ELSE IF a >= end THEN Peer!Read(<<>>, a)
                   ELSE IF ~field.ok THEN field
                   ELSE IF x.ok THEN Peer!Read(Peer!Over(x.val, field.val), x.next)
                   ELSE x
<1>5. F(f[field.next]) = F(g[field.next])
  <2>1. CASE p >= end \/ a > Len(d) \/ a >= end \/ ~field.ok
    BY <2>1
  <2>2. CASE a <= Len(d) /\ field.ok
    <3>1. f[field.next] = g[field.next]
      BY <1>3, <2>2
    <3> HIDE DEF F
    <3> QED  BY <3>1
  <2> QED  BY <1>4, <2>1, <2>2
<1>6. FromHere(d, e, end, f, p) = F(f[field.next])
  BY DEF FromHere, a, field
<1>7. FromHere(d, e, end, g, p) = F(g[field.next])
  BY DEF FromHere, a, field
<1> QED  BY <1>5, <1>6, <1>7

\* There is a function that says the fields from each offset on.
LEMMA FieldsFromEachOffset ==
    ASSUME NEW d \in Seq(Byte), NEW e \in Byte, NEW end
    PROVE  \E f : f = [p \in 0 .. Len(d) |-> FromHere(d, e, end, f, p)]
<1> DEFINE L == Len(d)
           N == L + 1
           Solves(f, n) == f = [p \in n .. L |-> FromHere(d, e, end, f, p)]
           T == {n \in 0 .. N : \E f : Solves(f, n)}
<1>1. L \in Nat /\ N \in Nat
  OBVIOUS
<1>2. N \in T
  <2> DEFINE f == [p \in N .. L |-> 0]
  <2>1. N .. L = {}
    BY <1>1
  <2>2. f = [p \in N .. L |-> FromHere(d, e, end, f, p)]
    <3>1. f = [p \in {} |-> 0]
      BY <2>1
    <3> HIDE DEF f
    <3>2. [p \in {} |-> 0] = [p \in {} |-> FromHere(d, e, end, f, p)]
      OBVIOUS
    <3> QED  BY <2>1, <3>1, <3>2
  <2>3. N \in 0 .. N
    BY <1>1
  <2> HIDE DEF N, L, f
  <2> QED  BY <2>2, <2>3
<1>3. ASSUME NEW n \in 1 .. N, n \in T
      PROVE  n - 1 \in T
  <2> DEFINE k == n - 1
  <2>1. k \in 0 .. N /\ k \in 0 .. L /\ n = k + 1
    BY <1>1
  <2>2. PICK f : Solves(f, n)
    BY <1>3
  <2> HIDE DEF k
  <2> DEFINE v == FromHere(d, e, end, f, k)
             g == [p \in k .. L |-> IF p = k THEN v ELSE f[p]]
  <2>3. DOMAIN g = k .. L /\ g[k] = v /\ \A p \in k + 1 .. L : g[p] = f[p]
    <3> HIDE DEF v, L
    <3> QED  BY <1>1, <2>1
  <2>4. \A p \in k .. L : g[p] = FromHere(d, e, end, g, p)
    <3> SUFFICES ASSUME NEW p \in k .. L
                 PROVE  g[p] = FromHere(d, e, end, g, p)
      OBVIOUS
    <3>1. p \in 0 .. Len(d)
      BY <2>1
    <3>2. \A q \in p + 1 .. L : f[q] = g[q]
      <4> HIDE DEF g, L
      <4> QED  BY <1>1, <2>1, <2>3
    <3>3. FromHere(d, e, end, f, p) = FromHere(d, e, end, g, p)
      <4> HIDE DEF g
      <4> QED  BY <3>1, <3>2, FromHereLooksAhead
    <3>4. CASE p = k
      <4> HIDE DEF g
      <4> QED  BY <2>3, <3>3, <3>4 DEF v
    <3>5. CASE p # k
      <4>1. p \in n .. L /\ p \in k + 1 .. L
        BY <1>1, <2>1, <3>5
      <4>2. f[p] = FromHere(d, e, end, f, p)
        <5> HIDE DEF L
        <5> QED  BY <2>2, <4>1
      <4> HIDE DEF g
      <4> QED  BY <2>3, <3>3, <4>1, <4>2
    <3> QED  BY <3>4, <3>5
  <2>5. Solves(g, k)
    <3>1. g = [p \in k .. L |-> g[p]]
      OBVIOUS
    <3> HIDE DEF g, L
    <3> QED  BY <2>4, <3>1
  <2> HIDE DEF Solves, g, L, N
  <2>6. k \in T
    BY <2>1, <2>5
  <2> QED  BY <2>6 DEF k
<1> HIDE DEF T
<1>4. 0 \in T
  <2>1. 0 .. N \subseteq T
    <3> HIDE DEF N
    <3> QED  BY <1>1, <1>2, <1>3, CountingDown
  <2> QED  BY <1>1, <2>1
<1> QED  BY <1>4 DEF T

LEMMA FieldsFromHere ==
    ASSUME NEW d \in Seq(Byte), NEW e \in Byte, NEW end, NEW p \in 0 .. Len(d)
    PROVE  LET From == Peer!FieldsFrom(d, e, end)
           IN  From[p] = FromHere(d, e, end, From, p)
<1> DEFINE From == Peer!FieldsFrom(d, e, end)
           Eq(f) == [q \in 0 .. Len(d) |-> FromHere(d, e, end, f, q)]
<1>1. From = CHOOSE f : f = Eq(f)
  BY DEF Peer!FieldsFrom, FromHere, Peer!Then, Peer!AlignedTo, AlignedTo
<1>2. \E f : f = Eq(f)
  BY FieldsFromEachOffset
<1> HIDE DEF From, Eq
<1>3. From = Eq(From)
  BY <1>1, <1>2
<1> QED  BY <1>3 DEF Eq, From

\* Where the fields of a message end, where its body starts, and what fits.
LEMMA PeerOffsets ==
    ASSUME NEW m \in PeerMessages, NEW p \in Nat
    PROVE  LET end == HeaderSize + Len(PeerFields(m))
               s   == BodyStart(m)
               a   == AlignedTo(p, 8)
           IN  /\ end \in Nat /\ s \in Nat /\ HeaderSize <= end /\ end <= s
               /\ Len(PeerBody(m)) \in Nat /\ Len(PeerBytes(m)) = s + Len(PeerBody(m))
               /\ a \in Nat /\ p <= a
               /\ p <= s => a <= s
               /\ a >= end => a >= s
<1> DEFINE l == Len(PeerFields(m))
           b == Len(PeerBody(m))
           n == AlignedTo(l, 8)
           a == AlignedTo(p, 8)
<1>1. l \in Nat /\ b \in Nat
  BY PeerSizes
<1>2. Len(PeerBytes(m)) = HeaderSize + n + b
  BY PeerBytesAreWhole
<1>3. n \in Nat /\ n >= l /\ n < l + 8 /\ n % 8 = 0
  BY <1>1, Alignment DEF Sizes
<1>4. a \in Nat /\ a >= p /\ a < p + 8 /\ a % 8 = 0
  BY Alignment DEF Sizes
<1>5. BodyStart(m) = HeaderSize + n
  BY DEF BodyStart
<1> HIDE DEF l, b, n, a
<1>6. p <= 16 + n => a <= 16 + n
  BY <1>3, <1>4
<1>7. a >= 16 + l => a >= 16 + n
  BY <1>1, <1>3, <1>4
<1>8. /\ 16 + l \in Nat /\ 16 + n \in Nat /\ 16 <= 16 + l /\ 16 + l <= 16 + n
  BY <1>1, <1>3
<1> QED  BY <1>1, <1>2, <1>4, <1>5, <1>6, <1>7, <1>8 DEF HeaderSize, l, b, a

LEMMA PeerHeaderTotal ==
    ASSUME NEW m \in PeerMessages, NEW h, h.fieldsLen = UInt32(Len(PeerFields(m)))
    PROVE  HeaderTotal(h) = HeaderSize + Len(PeerFields(m))
<1> DEFINE l == Len(PeerFields(m))
           k == MaxSize
           j == LengthLimit
<1>1. l \in Nat /\ l < k /\ k < j /\ k \in Nat /\ j \in Nat
  BY PeerSizes DEF MaxSize, LengthLimit
<1> HIDE DEF l, k, j
<1>2. l < j
  BY <1>1
<1>3. Number(UInt32(l)) = l
  BY SMT, <1>1, <1>2, UInt32IsWord DEF j
<1> QED  BY <1>3 DEF HeaderTotal, l

\* The example's fields of a little-endian message, from each offset on.
PeerFrom(m) == Peer!FieldsFrom(PeerBytes(m), Little, HeaderSize + Len(PeerFields(m)))

LEMMA PeerFromHere ==
    ASSUME NEW m \in PeerMessages, NEW p \in 0 .. Len(PeerBytes(m))
    PROVE  PeerFrom(m)[p] = FromHere(PeerBytes(m), Little, HeaderSize + Len(PeerFields(m)),
                                     PeerFrom(m), p)
<1>1. PeerBytes(m) \in Seq(Byte) /\ Little \in Byte
  BY PeerBytesAreWhole DEF Little, Byte
<1> QED  BY <1>1, FieldsFromHere DEF PeerFrom

\* What is read of the fields is a function.
LEMMA PeerFromIsMap ==
    ASSUME NEW m \in PeerMessages, NEW p \in 0 .. Len(PeerBytes(m)), PeerFrom(m)[p].ok
    PROVE  Peer!Over(PeerFrom(m)[p].val, <<>>) = PeerFrom(m)[p].val
<1> DEFINE F == PeerFrom(m)
           d == PeerBytes(m)
           end == HeaderSize + Len(PeerFields(m))
           a == AlignedTo(p, 8)
           field == Peer!FieldAt(d, Little, a)
           rest == F[field.next]
           val == F[p].val
<1>1. F[p] = FromHere(d, Little, end, F, p)
  BY PeerFromHere
<1> HIDE DEF F
<1>2. F[p] = IF p >= end THEN Peer!Read(<<>>, p)
             ELSE IF a > Len(d) THEN Peer!Thrown
             ELSE IF a >= end THEN Peer!Read(<<>>, a)
             ELSE IF ~field.ok THEN field
             ELSE IF rest.ok THEN Peer!Read(Peer!Over(rest.val, field.val), rest.next)
             ELSE rest
  BY <1>1 DEF FromHere
<1>3. F[p].ok
  BY DEF F
<1> HIDE DEF d, end, a, field, rest
<1>4. val = <<>> \/ val = Peer!Over(rest.val, field.val)
  BY <1>2, <1>3 DEF Peer!Read, Peer!Thrown
<1> HIDE DEF val
<1>5. CASE val = <<>>
  <2>1. DOMAIN <<>> = {}
    OBVIOUS
  <2> QED  BY <1>5, <2>1 DEF Peer!Over, val, F
<1>6. CASE val = Peer!Over(rest.val, field.val)
  <2> DEFINE x == rest.val
             y == field.val
  <2> HIDE DEF x, y
  <2>1. Peer!Over(Peer!Over(x, y), <<>>) = Peer!Over(x, y)
    BY DEF Peer!Over
  <2>2. Peer!Over(val, <<>>) = val
    BY <1>6, <2>1 DEF x, y
  <2> QED  BY <2>2 DEF val, F
<1> QED  BY <1>4, <1>5, <1>6

\* The example's parser on a little-endian message whose header is there.
LEMMA ParseSteps ==
    ASSUME NEW d, Len(d) \in Nat, d[1] = Little, NEW l \in Nat, NEW b \in Nat, 16 + l <= Len(d),
           Peer!Number(Peer!HeaderNumber(d, 12)) = l, Peer!Number(Peer!HeaderNumber(d, 4)) = b
    PROVE  LET F     == Peer!FieldsFrom(d, Little, 16 + l)[16]
               start == AlignedTo(F.next, 8)
               stop  == start + b
           IN  Peer!Parse(d) =
                 IF d[4] # 1 THEN Peer!Thrown
                 ELSE IF ~F.ok THEN F
                 ELSE IF start > Len(d) \/ stop > Len(d) THEN Peer!Thrown
                 ELSE [ok |-> TRUE, endian |-> d[1], type |-> d[2], flags |-> d[3],
                       serial |-> Peer!HeaderNumber(d, 8), fields |-> F.val,
                       body |-> SubSeq(d, start + 1, stop)]
<1> DEFINE n == Peer!Number(Peer!HeaderNumber(d, 12))
           k == Peer!Number(Peer!HeaderNumber(d, 4))
           s == Peer!HeaderNumber(d, 8)
           G == Peer!FieldsFrom(d, d[1], 16 + n)[16]
           F == Peer!FieldsFrom(d, Little, 16 + l)[16]
           a == Peer!AlignedTo(G.next, 8)
           start == AlignedTo(F.next, 8)
           whole == [ok |-> TRUE, endian |-> d[1], type |-> d[2], flags |-> d[3], serial |-> s,
                     fields |-> F.val, body |-> SubSeq(d, start + 1, start + b)]
<1>1. Peer!Parse(d) =
        IF Len(d) < 16 THEN Peer!Thrown
        ELSE IF d[1] \notin {Peer!Little, Peer!Big} \/ d[4] # 1 THEN Peer!Thrown
        ELSE IF 16 + n > Len(d) THEN Peer!Thrown
        ELSE IF G.ok
             THEN IF a > Len(d) \/ a + k > Len(d) THEN Peer!Thrown
                  ELSE [ok |-> TRUE, endian |-> d[1], type |-> d[2], flags |-> d[3],
                        serial |-> s, fields |-> G.val, body |-> SubSeq(d, a + 1, a + k)]
             ELSE G
  BY DEF Peer!Parse, Peer!Then
<1>2. n = l /\ k = b
  OBVIOUS
<1> HIDE DEF n, k, s
<1>3. G = F
  BY <1>2
<1> HIDE DEF F, G
<1>4. a = start
  BY <1>3, PeerVocabulary
<1> HIDE DEF a, start
<1>5. d[1] \in {Peer!Little, Peer!Big} /\ ~(Len(d) < 16) /\ ~(16 + n > Len(d))
  BY <1>2, PeerWords
<1>6. Peer!Parse(d) = IF d[4] # 1 THEN Peer!Thrown
                      ELSE IF ~F.ok THEN F
                      ELSE IF start > Len(d) \/ start + b > Len(d) THEN Peer!Thrown
                      ELSE whole
  BY Zenon, <1>1, <1>2, <1>3, <1>4, <1>5
<1> QED  BY Zenon, <1>6 DEF F, start, s

\* What the example's parser makes of a little-endian message of a peer.
LEMMA ParseOfPeer ==
    ASSUME NEW m \in PeerMessages, m.endian = Little
    PROVE  LET d     == PeerBytes(m)
               ex    == Peer!Parse(d)
               F     == PeerFrom(m)[HeaderSize]
               start == AlignedTo(F.next, 8)
               stop  == start + Len(PeerBody(m))
           IN  /\ ex.ok <=> /\ m.version = 1 /\ F.ok
                            /\ ~(start > Len(d)) /\ ~(stop > Len(d))
               /\ ex.ok => /\ ex.fields = F.val /\ ex.type = m.type /\ ex.serial = m.serial
                           /\ ex.body = SubSeq(d, start + 1, stop)
               /\ m.version # 1 => ex = Peer!Thrown
               /\ m.version = 1 /\ ~F.ok => ex = F
<1> DEFINE d == PeerBytes(m)
           ex == Peer!Parse(d)
           F == PeerFrom(m)[HeaderSize]
           l == Len(PeerFields(m))
           b == Len(PeerBody(m))
           start == AlignedTo(F.next, 8)
           stop == start + b
           H(p) == Peer!HeaderNumber(d, p)
<1>1. /\ d[1] = Little /\ d[2] = m.type /\ d[4] = m.version
      /\ SubSeq(d, 5, 8) = UInt32(b) /\ SubSeq(d, 9, 12) = m.serial
      /\ SubSeq(d, 13, 16) = UInt32(l)
  BY PeerBytesAreWhole
<1>2. HeaderSize + l <= Len(d) /\ 16 <= Len(d) /\ Len(d) \in Nat /\ HeaderSize + l \in Nat
  <2> DEFINE end == HeaderSize + l
             s == BodyStart(m)
             n == Len(d)
  <2>1. /\ end \in Nat /\ s \in Nat /\ HeaderSize <= end /\ end <= s /\ b \in Nat /\ n = s + b
    <3>1. 0 \in Nat
      OBVIOUS
    <3> QED  BY <3>1, PeerOffsets
  <2> HIDE DEF end, s, n, b
  <2>2. end <= n /\ 16 <= n /\ n \in Nat
    BY <2>1 DEF HeaderSize
  <2> QED  BY <2>1, <2>2 DEF end, n
<1>3. /\ l \in Nat /\ b \in Nat /\ Peer!Number(UInt32(l)) = l /\ Peer!Number(UInt32(b)) = b
  <2> DEFINE k == MaxSize
             j == LengthLimit
  <2>1. l \in Nat /\ b \in Nat /\ l < k /\ b < k /\ k < j /\ k \in Nat /\ j \in Nat
    BY PeerSizes DEF MaxSize, LengthLimit
  <2> HIDE DEF l, b, k, j
  <2>2. l < j /\ b < j
    BY <2>1
  <2>3. Number(UInt32(l)) = l /\ Number(UInt32(b)) = b
    BY SMT, <2>1, <2>2, UInt32IsWord DEF j
  <2> QED  BY <2>1, <2>3, PeerWords
<1>4. H(4) = UInt32(b) /\ H(8) = m.serial /\ H(12) = UInt32(l)
  <2>1. \A w : Peer!InOrder(Little, w) = w
    BY PeerVocabulary DEF InOrder, Little, Big
  <2> HIDE DEF d, l, b
  <2>2. H(4) = SubSeq(d, 5, 8)
    <3>1. 4 + 1 = 5 /\ 4 + 4 = 8
      OBVIOUS
    <3> QED  BY Zenon, <1>1, <2>1, <3>1 DEF Peer!HeaderNumber
  <2>3. H(8) = SubSeq(d, 9, 12)
    <3>1. 8 + 1 = 9 /\ 8 + 4 = 12
      OBVIOUS
    <3> QED  BY Zenon, <1>1, <2>1, <3>1 DEF Peer!HeaderNumber
  <2>4. H(12) = SubSeq(d, 13, 16)
    <3>1. 12 + 1 = 13 /\ 12 + 4 = 16
      OBVIOUS
    <3> QED  BY Zenon, <1>1, <2>1, <3>1 DEF Peer!HeaderNumber
  <2> HIDE DEF H
  <2> QED  BY <1>1, <2>2, <2>3, <2>4
<1>5. F = Peer!FieldsFrom(d, Little, 16 + l)[16]
  BY DEF PeerFrom, HeaderSize
<1> HIDE DEF d, l, b, F, H, start
<1>8. d[1] = Little /\ 16 + l <= Len(d) /\ Len(d) \in Nat
      /\ Peer!Number(Peer!HeaderNumber(d, 12)) = l /\ Peer!Number(Peer!HeaderNumber(d, 4)) = b
  BY <1>1, <1>2, <1>3, <1>4 DEF HeaderSize, H
<1>9. ex = IF d[4] # 1 THEN Peer!Thrown
           ELSE IF ~F.ok THEN F
           ELSE IF start > Len(d) \/ stop > Len(d) THEN Peer!Thrown
           ELSE [ok |-> TRUE, endian |-> d[1], type |-> d[2], flags |-> d[3], serial |-> H(8),
                 fields |-> F.val, body |-> SubSeq(d, start + 1, stop)]
  <2> DEFINE f == Peer!FieldsFrom(d, Little, 16 + l)[16]
             a == AlignedTo(f.next, 8)
  <2>1. ex = IF d[4] # 1 THEN Peer!Thrown
             ELSE IF ~f.ok THEN f
             ELSE IF a > Len(d) \/ a + b > Len(d) THEN Peer!Thrown
             ELSE [ok |-> TRUE, endian |-> d[1], type |-> d[2], flags |-> d[3], serial |-> H(8),
                   fields |-> f.val, body |-> SubSeq(d, a + 1, a + b)]
    BY <1>3, <1>8, ParseSteps DEF H
  <2>2. f = F
    BY <1>5
  <2> HIDE DEF f, ex, H
  <2>3. a = start
    BY <2>2 DEF start
  <2> HIDE DEF a
  <2> QED  BY Zenon, <2>1, <2>2, <2>3
<1> HIDE DEF ex
<1>10. ex = IF m.version # 1 THEN Peer!Thrown
            ELSE IF ~F.ok THEN F
            ELSE IF start > Len(d) \/ stop > Len(d) THEN Peer!Thrown
            ELSE [ok |-> TRUE, endian |-> d[1], type |-> d[2],
                           flags |-> d[3], serial |-> m.serial,
                           fields |-> F.val, body |-> SubSeq(d, start + 1, stop)]
  BY <1>1, <1>4, <1>9
<1>11. /\ ex.ok <=> m.version = 1 /\ F.ok /\ ~(start > Len(d)) /\ ~(stop > Len(d))
       /\ ex.ok => /\ ex.fields = F.val /\ ex.type = m.type /\ ex.serial = m.serial
                   /\ ex.body = SubSeq(d, start + 1, stop)
  BY <1>1, <1>10, NoValues
<1>12. (m.version # 1 => ex = Peer!Thrown) /\ (m.version = 1 /\ ~F.ok => ex = F)
  BY <1>10
<1> QED  BY <1>11, <1>12 DEF ex, d, F, start, b

\* What the example makes of the message and what readFd makes of it go together.
Alike ==
    Received /\ sent.endian = Little =>
        /\ phase = "failed" => Peer!Parse(wire) = Peer!Thrown
        /\ phase = "undefined" /\ ~msg.fieldsValid => Peer!Parse(wire) = Peer!Overrun
        /\ phase \in {"body", "fields"} => sent.version = 1
        \* All the fields are those still to be read, over those that are.
        /\ phase = "fields" =>
             LET all  == PeerFrom(sent)[HeaderSize]
                 rest == PeerFrom(sent)[msg.reader.pos]
             IN  /\ msg.reader.data = wire /\ msg.reader.endian = Little
                 /\ all.ok <=> rest.ok
                 /\ rest.ok => /\ all.val = Peer!Over(rest.val, msg.fields)
                               /\ all.next = rest.next
                 /\ ~rest.ok => all = rest
        /\ Untouched =>
             LET ex == Peer!Parse(wire)
             IN  /\ msg.reader.data = wire /\ msg.reader.endian = Little
                 /\ msg.reader.pos >= BodyStart(sent)
                 /\ ex.ok <=> msg.reader.pos = BodyStart(sent)
                 /\ ex.ok => /\ ex.fields = msg.fields
                             /\ ex.body = SubSeq(wire, BodyStart(sent) + 1, Len(wire))

LEMMA InitAlike == Init => Alike
BY DEF Init, Alike, Received

LEMMA HeaderArrivesAlike ==
    ASSUME CodecInv, ReadingInv, HeaderArrives
    PROVE  Alike'
<1> DEFINE d == SubSeq(wire, 1, HeaderSize)
           h == ReadFixedHeader(NewReader(d))
<1>1. phase = "header" /\ sent \in PeerMessages /\ wire = PeerBytes(sent)
  BY DEF HeaderArrives, CodecInv, WireInv
<1>2. d \in Seq(Byte) /\ Len(d) = HeaderSize /\ \A i \in 1 .. HeaderSize : d[i] = wire[i]
  BY <1>1, Beginning DEF Blocks
<1>3. h.val.valid = (sent.version = 1)
  <2>1. h.val.valid = (d[4] = 1)
    <3> HIDE DEF d
    <3> QED  BY <1>2, FixedHeaderIsRead
  <2>2. d[4] = wire[4] /\ wire[4] = sent.version
    <3>1. wire[4] = sent.version
      BY <1>1, PeerBytesAreWhole
    <3> HIDE DEF d
    <3> QED  BY <1>2, <3>1 DEF HeaderSize
  <2> HIDE DEF h
  <2> QED  BY <2>1, <2>2
<1>4. /\ UNCHANGED <<wire, sent>>
      /\ (h.val.valid /\ phase' = "body") \/ (~h.val.valid /\ phase' = "failed")
  BY DEF HeaderArrives
<1> HIDE DEF h
<1>5. CASE h.val.valid /\ phase' = "body"
  <2>1. sent'.version = 1 /\ ~Untouched'
    BY <1>3, <1>4, <1>5 DEF Untouched
  <2> QED  BY <1>5, <2>1 DEF Alike
<1>6. CASE ~h.val.valid /\ phase' = "failed"
  <2>1. sent.endian = Little => Peer!Parse(wire) = Peer!Thrown
    BY <1>1, <1>3, <1>6, ParseOfPeer
  <2>2. sent'.endian = Little => Peer!Parse(wire') = Peer!Thrown
    BY <1>4, <2>1
  <2> QED  BY <1>6, <2>2 DEF Alike, Untouched
<1> QED  BY <1>4, <1>5, <1>6

LEMMA BodyArrivesAlike ==
    ASSUME CodecInv, LittleEndianWhole, ReadingInv, Alike, BodyArrives
    PROVE  Alike'
<1> DEFINE d == SubSeq(wire, 1, TotalSize(msg.fixed))
<1>1. /\ phase = "body" /\ phase' = "fields" /\ UNCHANGED <<wire, sent>>
      /\ msg' = [msg EXCEPT !.reader.data = d]
  BY DEF BodyArrives
<1>2. /\ msg \in Messages /\ sent \in PeerMessages /\ wire = PeerBytes(sent) /\ wire \in Seq(Byte)
      /\ msg.reader.pos = HeaderSize
  BY <1>1 DEF CodecInv, Typed, WireInv, HeaderInv
<1>3. msg.fields = <<>> /\ msg.reader.endian = Little
  BY <1>1 DEF ReadingInv, Arriving
<1> HIDE DEF d
<1>4. msg'.fields = <<>> /\ msg'.reader = [msg.reader EXCEPT !.data = d]
  BY <1>1, <1>2, <1>3 DEF Messages
<1>5. msg'.reader.data = d /\ msg'.reader.endian = Little /\ msg'.reader.pos = HeaderSize
  <2>1. msg.reader \in [data : Seq(Byte), pos : Nat, endian : Byte]
    BY <1>2, MessageParts, ReaderParts DEF Readers
  <2> QED  BY <1>2, <1>3, <1>4, <2>1
<1>6. ASSUME Received', sent'.endian = Little
      PROVE  /\ d = wire /\ sent.version = 1
             /\ PeerFrom(sent)[HeaderSize].ok =>
                  PeerFrom(sent)[HeaderSize].val = Peer!Over(PeerFrom(sent)[HeaderSize].val, <<>>)
  <2>1. TotalSize(msg.fixed) = Len(wire)
    BY <1>1, <1>6 DEF LittleEndianWhole
  <2>2. SubSeq(wire, 1, Len(wire)) = wire
    BY <1>2
  <2>3. HeaderSize \in 0 .. Len(PeerBytes(sent))
    <3>1. HeaderSize \in Nat /\ HeaderSize <= Len(PeerBytes(sent))
      BY <1>2, Beginning
    <3>2. Len(PeerBytes(sent)) \in Nat
      BY <1>2
    <3> QED  BY <3>1, <3>2
  <2>4. sent.version = 1
    BY <1>1, <1>6 DEF Alike, Received
  <2> QED  BY <1>2, <2>1, <2>2, <2>3, <2>4, PeerFromIsMap DEF d
<1>7. ~Untouched' /\ phase' \notin {"failed", "undefined"}
  BY <1>1 DEF Untouched
<1> QED  BY <1>1, <1>4, <1>5, <1>6, <1>7 DEF Alike

\* A message the program has, is sent, or is on its way in, is not failed; nor is
\* one of which the program reads a text that overruns it.
LEMMA ElsewhereAlike ==
    ASSUME phase' \in {"open", "sent", "header"} \/ (phase' = "undefined" /\ msg'.fieldsValid),
           ~Untouched'
    PROVE  Alike'
BY DEF Alike

\* Where readFd looks for the next field, and where the fields end.
LEMMA LooksForField ==
    ASSUME CodecInv, ReadingInv, Alike, phase = "fields", sent.endian = Little
    PROVE  LET d   == PeerBytes(sent)
               p   == msg.reader.pos
               a   == AlignedTo(p, 8)
               end == HeaderSize + Len(PeerFields(sent))
           IN  /\ sent \in PeerMessages /\ wire = d /\ msg.fields \in FieldMaps
               /\ p \in 0 .. Len(d) /\ end \in Nat /\ a \in Nat /\ p <= a
               /\ msg.reader \in Reader /\ msg.reader.data = d /\ msg.reader.endian = Little
               /\ HeaderTotal(msg.fixed) = end
               /\ AtField \in Reader /\ AtField.data = d /\ AtField.endian = Little
               /\ AtField.pos = IF a > Len(d) THEN p ELSE a
<1> DEFINE d == PeerBytes(sent)
           p == msg.reader.pos
           a == AlignedTo(p, 8)
           end == HeaderSize + Len(PeerFields(sent))
           r == msg.reader
<1>1. Received /\ sent \in PeerMessages /\ msg \in Messages
  BY DEF ReadingInv, Arriving, CodecInv, Typed, Received
<1>2. wire = d /\ msg.fixed.fieldsLen = UInt32(Len(PeerFields(sent)))
  BY <1>1 DEF ReadingInv, HeaderKept
<1>3. HeaderTotal(msg.fixed) = end
  BY <1>1, <1>2, PeerHeaderTotal
<1>4. r \in Reader /\ msg.fields \in FieldMaps
  BY <1>1, MessageParts
<1>5. r.data = d /\ r.endian = Little
  BY <1>1, <1>2 DEF Alike
<1>6. p \in Nat /\ p <= Len(d) /\ Len(d) \in Nat
  BY <1>4, <1>5, ReaderParts
<1>7. end \in Nat /\ a \in Nat /\ p <= a
  BY <1>1, <1>6, PeerOffsets
<1>8. AtField = IF a > Len(d) THEN r ELSE [r EXCEPT !.pos = a]
  BY <1>5 DEF AtField, Align, Seek, Got, Nothing
<1> HIDE DEF d, a, end, r
<1>9. /\ AtField \in Reader /\ AtField.data = d /\ AtField.endian = Little
      /\ AtField.pos = IF a > Len(d) THEN p ELSE a
  <2>1. CASE a > Len(d)
    BY <1>4, <1>5, <1>8, <2>1 DEF r
  <2>2. CASE ~(a > Len(d))
    <3>1. a <= Len(r.data)
      BY <1>5, <1>6, <1>7, <2>2
    <3> HIDE DEF p
    <3>2. [r EXCEPT !.pos = a] \in Reader /\ [r EXCEPT !.pos = a].data = d
          /\ [r EXCEPT !.pos = a].endian = Little /\ [r EXCEPT !.pos = a].pos = a
      BY <1>4, <1>5, <1>7, <3>1, MovedReader
    <3> QED  BY <1>8, <2>2, <3>2
  <2> QED  BY <2>1, <2>2
<1>10. p \in 0 .. Len(d)
  BY <1>6
<1> QED  BY <1>1, <1>2, <1>3, <1>4, <1>5, <1>7, <1>9, <1>10 DEF d, p, a, end, r

LEMMA ReadFieldAlike ==
    ASSUME CodecInv, ReadingInv, Alike, ReadField
    PROVE  Alike'
<1> DEFINE read == ParseField(msg.fields, AtField)
<1>1. /\ phase = "fields" /\ MoreFields /\ UNCHANGED <<wire, sent>>
      /\ \/ /\ read.ok /\ phase' = "fields"
            /\ msg' = [msg EXCEPT !.fields = read.val, !.reader = read.r]
         \/ ~read.ok /\ phase' = PhaseAfter(read, "failed")
  BY DEF ReadField
<1>2. msg \in Messages /\ Received
  BY <1>1 DEF CodecInv, Typed, ReadingInv, Arriving
<1> SUFFICES ASSUME sent.endian = Little
             PROVE  Alike'
  BY <1>1 DEF Alike
<1> DEFINE d == PeerBytes(sent)
           p == msg.reader.pos
           a == AlignedTo(p, 8)
           end == HeaderSize + Len(PeerFields(sent))
           g == msg.fields
           F == PeerFrom(sent)
           field == Peer!FieldAt(d, Little, a)
           all == F[HeaderSize]
           rest == F[field.next]
<1>3. /\ sent \in PeerMessages /\ wire = d /\ g \in FieldMaps
      /\ p \in 0 .. Len(d) /\ end \in Nat /\ a \in Nat /\ p <= a
      /\ HeaderTotal(msg.fixed) = end
      /\ AtField \in Reader /\ AtField.data = d /\ AtField.endian = Little
      /\ AtField.pos = IF a > Len(d) THEN p ELSE a
  BY <1>1, LooksForField
<1>4. sent.version = 1
  BY <1>1, <1>2 DEF Alike
<1>5. a < end /\ ~(a > Len(d)) /\ AtField.pos = a /\ ~(p >= end) /\ ~(a >= end)
  <2> DEFINE s == BodyStart(sent)
             b == Len(PeerBody(sent))
             l == Len(d)
  <2>1. /\ s \in Nat /\ end <= s /\ b \in Nat /\ l = s + b /\ (p <= s => a <= s)
    <3>1. p \in Nat
      BY <1>3
    <3> HIDE DEF p
    <3> QED  BY <1>3, <3>1, PeerOffsets
  <2>2. AtField.pos < end
    BY <1>1, <1>3 DEF MoreFields
  <2> HIDE DEF d, p, a, end, s, b
  <2>3. p \in Nat /\ l \in Nat
    BY <1>3, <2>1
  <2> HIDE DEF l
  <2>4. AtField.pos = IF a > l THEN p ELSE a
    BY <1>3 DEF l
  <2>5. ~(a > l)
    BY <1>3, <2>1, <2>2, <2>3, <2>4
  <2>6. AtField.pos = a
    BY <2>4, <2>5
  <2>7. a < end /\ ~(p >= end) /\ ~(a >= end)
    BY <1>3, <2>2, <2>3, <2>6
  <2> QED  BY <2>5, <2>6, <2>7 DEF l
<1>6. AgreeOver(field, read, g)
  <2>1. AgreeOver(Peer!FieldAt(AtField.data, AtField.endian, AtField.pos), ParseField(g, AtField), g)
    <3> HIDE DEF g
    <3> QED  BY <1>3, FieldsAgree
  <2>2. AgreeOver(Peer!FieldAt(AtField.data, AtField.endian, AtField.pos), read, g)
    BY <2>1
  <2> HIDE DEF read, g, a, d
  <2> QED  BY <1>3, <1>5, <2>2
<1>7. F[p] = IF ~field.ok THEN field
             ELSE IF rest.ok THEN Peer!Read(Peer!Over(rest.val, field.val), rest.next)
             ELSE rest
  <2>1. F[p] = FromHere(d, Little, end, F, p)
    BY <1>3, PeerFromHere
  <2> HIDE DEF F, d, end, p
  <2> QED  BY <1>5, <2>1 DEF FromHere
<1>8. /\ all.ok <=> F[p].ok
      /\ F[p].ok => all.val = Peer!Over(F[p].val, g) /\ all.next = F[p].next
      /\ ~F[p].ok => all = F[p]
  BY <1>1, <1>2 DEF Alike
<1>9. ReadsOn(read, AtField, FieldMaps)
  BY <1>3, ParseFieldStays
<1>10. read.r \in Reader /\ read.r.data = d /\ read.r.endian = Little
  BY <1>3, <1>9 DEF ReadsOn
<1> HIDE DEF read, d, end, p, a, field, F, g, all, rest
<1>11. CASE read.ok /\ phase' = "fields"
            /\ msg' = [msg EXCEPT !.fields = read.val, !.reader = read.r]
  <2>1. msg'.fields = read.val /\ msg'.reader = read.r
    BY <1>2, <1>11 DEF Messages
  <2>2. field.ok /\ read.val = Peer!Over(field.val, g) /\ field.next = read.r.pos
    BY <1>6, <1>11 DEF AgreeOver
  <2>3. F[p].ok <=> rest.ok
    BY <1>7, <2>2 DEF Peer!Read
  <2>4. rest.ok => F[p].val = Peer!Over(rest.val, field.val) /\ F[p].next = rest.next
    BY <1>7, <2>2 DEF Peer!Read
  <2>5. Peer!Over(Peer!Over(rest.val, field.val), g) = Peer!Over(rest.val, Peer!Over(field.val, g))
    BY OverIsAssociative
  <2>6. /\ all.ok <=> rest.ok
        /\ rest.ok => all.val = Peer!Over(rest.val, read.val) /\ all.next = rest.next
        /\ ~rest.ok => all = rest
    <3>1. all.ok <=> rest.ok
      BY <1>8, <2>3
    <3>2. rest.ok => all.val = Peer!Over(rest.val, read.val) /\ all.next = rest.next
      BY <1>8, <2>2, <2>3, <2>4, <2>5
    <3>3. ~rest.ok => all = rest
      BY <1>7, <1>8, <2>2, <2>3
    <3> QED  BY <3>1, <3>2, <3>3
  <2>7. rest = PeerFrom(sent')[msg'.reader.pos] /\ all = PeerFrom(sent')[HeaderSize]
    BY <1>1, <2>1, <2>2 DEF rest, all, F
  <2>8. sent'.version = 1 /\ msg'.reader.data = wire' /\ msg'.reader.endian = Little
    BY <1>1, <1>3, <1>4, <1>10, <2>1
  <2>9. ~Untouched' /\ phase' \notin {"failed", "undefined"}
    BY <1>11 DEF Untouched
  <2> QED  BY <2>1, <2>6, <2>7, <2>8, <2>9 DEF Alike
<1>12. CASE ~read.ok /\ phase' = PhaseAfter(read, "failed")
  <2>1. ~field.ok /\ field = PeerOf(read)
    BY <1>6, <1>12 DEF AgreeOver
  <2>2. ~all.ok /\ all = field
    BY <1>7, <1>8, <2>1
  <2>3. Peer!Parse(d) = PeerOf(read)
    BY <1>3, <1>4, <2>1, <2>2, ParseOfPeer DEF d, all, F
  <2>4. Peer!Parse(wire') = PeerOf(read)
    BY <1>1, <1>3, <2>3
  <2>5. CASE read.overrun
    <3>1. phase' = "undefined" /\ Peer!Parse(wire') = Peer!Overrun
      BY <1>12, <2>4, <2>5 DEF PhaseAfter, PeerOf
    <3> QED  BY <3>1 DEF Alike, Untouched
  <2>6. CASE ~read.overrun
    <3>1. phase' = "failed" /\ Peer!Parse(wire') = Peer!Thrown
      BY <1>12, <2>4, <2>6 DEF PhaseAfter, PeerOf
    <3> QED  BY <3>1 DEF Alike, Untouched
  <2> QED  BY <2>5, <2>6
<1> QED  BY <1>1, <1>11, <1>12

LEMMA OpenAlike ==
    ASSUME CodecInv, ReadingInv, Alike, Open
    PROVE  Alike'
<1>1. /\ phase = "fields" /\ ~MoreFields /\ phase' = "open" /\ UNCHANGED <<wire, sent>>
      /\ msg' = [msg EXCEPT !.fieldsValid = TRUE, !.reader = AtField]
  BY DEF Open
<1>2. msg \in Messages /\ Received
  BY <1>1 DEF CodecInv, Typed, ReadingInv, Arriving
<1> SUFFICES ASSUME sent.endian = Little
             PROVE  Alike'
  BY <1>1 DEF Alike
<1> DEFINE d == PeerBytes(sent)
           p == msg.reader.pos
           a == AlignedTo(p, 8)
           end == HeaderSize + Len(PeerFields(sent))
           s == BodyStart(sent)
           b == Len(PeerBody(sent))
           l == Len(d)
           g == msg.fields
           F == PeerFrom(sent)
           all == F[HeaderSize]
           ex == Peer!Parse(d)
           q == AtField.pos
<1>3. /\ sent \in PeerMessages /\ wire = d /\ g \in FieldMaps
      /\ p \in 0 .. l /\ end \in Nat /\ a \in Nat /\ p <= a
      /\ HeaderTotal(msg.fixed) = end
      /\ AtField \in Reader /\ AtField.data = d /\ AtField.endian = Little
      /\ q = IF a > l THEN p ELSE a
  BY <1>1, LooksForField
<1>4. sent.version = 1
  BY <1>1, <1>2 DEF Alike
<1>5. /\ s \in Nat /\ end <= s /\ b \in Nat /\ l = s + b /\ (p <= s => a <= s)
      /\ (a >= end => a >= s)
  <2>1. p \in Nat
    BY <1>3
  <2> HIDE DEF p
  <2> QED  BY <1>3, <2>1, PeerOffsets
<1>6. ~(q < end)
  BY <1>1, <1>3 DEF MoreFields
<1>7. AlignedTo(a, 8) = a
  <2>1. p \in Nat
    BY <1>3
  <2> HIDE DEF p
  <2>2. a % 8 = 0 /\ a \in Nat
    BY <2>1, Alignment DEF Sizes
  <2> HIDE DEF a
  <2> QED  BY <2>2 DEF AlignedTo
<1>8. F[p].ok /\ F[p].val = <<>> /\ AlignedTo(F[p].next, 8) = a
  <2>1. F[p] = FromHere(d, Little, end, F, p)
    BY <1>3, PeerFromHere
  <2> HIDE DEF F, d, end, p, l
  <2>2. p >= end \/ (~(a > Len(d)) /\ a >= end)
    <3>1. p \in Nat /\ l = Len(d)
      BY <1>3, <1>5 DEF l
    <3> HIDE DEF a, q
    <3> QED  BY <1>3, <1>5, <1>6, <3>1
  <2>3. F[p] = Peer!Read(<<>>, p) \/ F[p] = Peer!Read(<<>>, a)
    BY <2>1, <2>2 DEF FromHere
  <2>4. AlignedTo(p, 8) = a
    OBVIOUS
  <2> HIDE DEF a
  <2> QED  BY <1>7, <2>3, <2>4 DEF Peer!Read
<1>9. /\ all.ok /\ all.val = Peer!Over(F[p].val, g) /\ all.next = F[p].next
  BY <1>1, <1>2, <1>8 DEF Alike
<1>10. all.val = g /\ AlignedTo(all.next, 8) = a
  <2>1. Peer!Over(<<>>, g) = g
    <3> HIDE DEF g
    <3> QED  BY <1>3, MapIsMap, OverNothing
  <2> HIDE DEF g, a, all, F, p
  <2> QED  BY <1>8, <1>9, <2>1
<1>11. /\ ex.ok <=> /\ sent.version = 1 /\ all.ok
                    /\ ~(AlignedTo(all.next, 8) > l) /\ ~(AlignedTo(all.next, 8) + b > l)
       /\ ex.ok => /\ ex.fields = all.val
                   /\ ex.body = SubSeq(d, AlignedTo(all.next, 8) + 1, AlignedTo(all.next, 8) + b)
  BY <1>3, ParseOfPeer
<1>12. msg'.reader = AtField /\ msg'.fields = g
  BY <1>1, <1>2 DEF Messages
<1> HIDE DEF d, p, a, end, s, b, l, g, F, all, ex
<1>13. p \in Nat /\ l \in Nat
  BY <1>3, <1>5
<1>14. q >= s /\ (ex.ok <=> q = s) /\ (ex.ok => a = s /\ a + b = l)
  <2>1. ex.ok <=> ~(a > l) /\ ~(a + b > l)
    BY <1>4, <1>9, <1>10, <1>11
  <2> HIDE DEF q
  <2> QED  BY <1>3, <1>5, <1>6, <1>13, <2>1
<1>15. ex.ok => ex.fields = g /\ ex.body = SubSeq(d, s + 1, l)
  BY <1>10, <1>11, <1>14
<1>16. phase' \notin {"failed", "undefined", "body", "fields"}
  BY <1>1
<1>17. /\ msg'.reader.data = wire' /\ msg'.reader.endian = Little
       /\ msg'.reader.pos >= BodyStart(sent')
       /\ Peer!Parse(wire').ok <=> msg'.reader.pos = BodyStart(sent')
       /\ Peer!Parse(wire').ok =>
            /\ Peer!Parse(wire').fields = msg'.fields
            /\ Peer!Parse(wire').body = SubSeq(wire', BodyStart(sent') + 1, Len(wire'))
  <2>1. wire' = d /\ sent' = sent
    BY <1>1, <1>3
  <2> QED  BY <1>3, <1>12, <1>14, <1>15, <2>1 DEF ex, s, l
<1> QED  BY <1>16, <1>17 DEF Alike

LEMMA ExtractStringAlike ==
    ASSUME CodecInv, ReadingInv, ExtractString
    PROVE  Alike'
<1> DEFINE s == ReadString(msg.reader)
<1>1. /\ phase = "open" /\ phase' \in {"open", "undefined"} /\ UNCHANGED sent
      /\ msg' = [msg EXCEPT !.reader = s.r, !.valid = @ /\ s.ok]
      /\ items' = IF s.ok THEN Append(items, s.val) ELSE items
  BY DEF ExtractString, PhaseAfter
<1>2. msg \in Messages /\ items \in Seq(Values)
  BY DEF CodecInv, Typed
<1>3. msg.reader \in Reader
  BY <1>2, MessageParts
<1>4. ReadsOn(s, msg.reader, Seq(Byte))
  BY <1>3, ReadStringStays
<1> HIDE DEF s
<1>5. ~Untouched'
  <2>1. CASE ~s.ok
    <3>1. ~msg'.valid
      BY <1>1, <1>2, <2>1 DEF Messages
    <3> QED  BY <3>1 DEF Untouched
  <2>2. CASE s.ok
    <3>1. s.val \in Values
      BY <1>4, <2>2 DEF ReadsOn, Values
    <3>2. items' # <<>>
      BY <1>1, <1>2, <2>2, <3>1
    <3> QED  BY <3>2 DEF Untouched
  <2> QED  BY <2>1, <2>2
<1>6. CASE Received
  <2>1. msg'.fieldsValid
    BY <1>1, <1>2, <1>6 DEF ReadingInv, Fresh, Messages
  <2> QED  BY <1>1, <1>5, <2>1, ElsewhereAlike
<1>7. CASE ~Received
  BY <1>1, <1>7 DEF Alike, Received
<1> QED  BY <1>6, <1>7

\* The reader of a message of which nothing has been read, where its body
\* starts, reads the first item; elsewhere it only gets further.
LEMMA ExtractOtherAlike ==
    ASSUME CodecInv, ReadingInv, Alike, ExtractOther
    PROVE  Alike'
<1> DEFINE v == ReadItem(NextType)
           r == msg.reader
           s == BodyStart(sent)
<1>1. /\ phase = "open" /\ NextType # CharS /\ phase' = "open" /\ UNCHANGED <<wire, sent, sets>>
      /\ msg' = [msg EXCEPT !.reader = v.r]
      /\ items' = IF v.ok THEN Append(items, v.val) ELSE items
  BY DEF ExtractOther
<1>2. msg \in Messages /\ items \in Seq(Values)
  BY DEF CodecInv, Typed
<1>3. PICK S \in SUBSET Values : ReadsOn(v, r, S)
  BY <1>1, ReadItemStays
<1>4. r \in Reader
  BY <1>2, MessageParts
<1>5. /\ msg'.fields = msg.fields /\ msg'.reader = v.r /\ msg'.valid = msg.valid
  <2> HIDE DEF v
  <2> QED  BY <1>1, <1>2 DEF Messages
<1> SUFFICES ASSUME Received', sent'.endian = Little, Untouched'
             PROVE  Alike'
  BY <1>1 DEF Alike
<1>6. Received /\ sent.endian = Little /\ sets = 0 /\ msg.valid
  BY <1>1, <1>5 DEF Received, Untouched
<1>7. ~v.ok /\ items = <<>>
  <2> HIDE DEF v
  <2>1. items' = <<>>
    BY DEF Untouched
  <2>2. CASE v.ok
    <3>1. v.val \in Values
      BY <1>3, <2>2 DEF ReadsOn
    <3>2. items' # <<>>
      BY <1>1, <1>2, <2>2, <3>1
    <3> QED  BY <2>1, <3>2
  <2> QED  BY <1>1, <2>1, <2>2
<1>8. Untouched
  BY <1>1, <1>6, <1>7 DEF Untouched
<1>9. /\ r.data = wire /\ r.endian = Little /\ r.pos >= s
      /\ Peer!Parse(wire).ok <=> r.pos = s
  BY <1>6, <1>8 DEF Alike
<1>10. sent \in PeerMessages /\ wire = PeerBytes(sent) /\ Len(sent.items) \in Nat /\ s \in Nat
  <2>1. sent \in PeerMessages
    BY <1>6 DEF CodecInv, Typed, Received
  <2>2. wire = PeerBytes(sent)
    BY <1>1, <1>6 DEF ReadingInv, HeaderKept
  <2>3. s \in Nat
    <3>1. 0 \in Nat
      OBVIOUS
    <3> QED  BY <2>1, <3>1, PeerOffsets
  <2> QED  BY <2>1, <2>2, <2>3, PeerMessageParts
\* There the first item is read: r is the reader of the first stage.
<1>11. r.pos # s
  <2> SUFFICES ASSUME r.pos = s
               PROVE  v.ok
    BY <1>7
  <2> DEFINE t == sent.items[1][1]
             w == ItemStage(sent, 0)
             u == ItemStage(sent, 1)
  <2>1. Len(items) = 0
    BY <1>7
  <2>2. 0 < Len(sent.items) /\ NextType = t
    BY <1>1, <2>1 DEF NextType
  <2>3. 1 \in 1 .. Len(sent.items) /\ 0 \in 0 .. Len(sent.items) /\ 1 \in 0 .. Len(sent.items)
    BY <1>10, <2>2
  <2>4. t \in ValueTypes \ {CharO} /\ IsValue(t, sent.items[1][2])
    BY <1>10, <2>3, PeerMessageParts
  <2>5. w \in Writer /\ u = WriteAs(w, t, sent.items[1][2])
    <3>1. LET x == ItemStage(sent, 1 - 1)
              y == WriteAs(x, sent.items[1][1], sent.items[1][2])
          IN  x \in Writer /\ ItemStage(sent, 1) = y
      BY <1>10, <2>3, NextItem
    <3> QED  BY <3>1
  <2>6. Begins(u, wire)
    BY <1>10, <2>3, ItemsInMessage
  <2>7. w.endian = Little /\ Len(w.data) = s
    <3>1. w.endian = sent.endian /\ w.data = SubSeq(PeerBytes(sent), 1, s)
      BY <1>10, <2>3, ItemStageParts
    <3>2. Len(SubSeq(PeerBytes(sent), 1, s)) = s
      BY <1>10, Beginning
    <3> HIDE DEF w, s
    <3> QED  BY <1>6, <3>1, <3>2
  <2>8. r = At(w, wire)
    <3>1. r \in [data : Seq(Byte), pos : Nat, endian : Byte]
      BY <1>4, ReaderParts DEF Readers
    <3> HIDE DEF r, w, s
    <3> QED  BY <1>9, <2>7, <3>1 DEF At
  <2>9. v = ReadAs(t, r)
    <3>1. v = ReadItem(t) /\ t # CharS
      BY <1>1, <2>2
    <3> HIDE DEF t, v
    <3> QED  BY <2>4, <3>1, ReadItemReads
  <2> HIDE DEF v, r, t, w, u
  <2>10. ReadAs(t, At(w, wire)) = Got(Meaning(t, sent.items[1][2]), At(u, wire))
    BY <2>4, <2>5, <2>6, ValueComesBack
  <2> QED  BY <2>8, <2>9, <2>10 DEF Got
<1>12. v.r \in Reader /\ v.r.data = r.data /\ v.r.endian = r.endian /\ r.pos <= v.r.pos
  BY <1>3 DEF ReadsOn
<1>13. v.r.pos >= s /\ v.r.pos # s
  <2>1. r.pos \in Nat /\ v.r.pos \in Nat
    BY <1>4, <1>12, ReaderParts
  <2> HIDE DEF r, v, s
  <2> QED  BY <1>9, <1>10, <1>11, <1>12, <2>1
<1>14. ~Peer!Parse(wire).ok
  BY <1>9, <1>11
<1> HIDE DEF v, r
<1>15. /\ msg'.reader.data = wire' /\ msg'.reader.endian = Little
       /\ msg'.reader.pos >= BodyStart(sent') /\ msg'.reader.pos # BodyStart(sent')
       /\ ~Peer!Parse(wire').ok
  BY <1>1, <1>5, <1>9, <1>12, <1>13, <1>14
<1> QED  BY <1>1, <1>15 DEF Alike

LEMMA NextAlike ==
    ASSUME CodecInv, LittleEndianWhole, ReadingInv, Alike, [Next]_vars
    PROVE  Alike'
<1>1. CASE \E f \in Settable, text \in Texts : SetField(f, text)
  <2>1. phase' = "open" /\ sets' = sets + 1 /\ sets \in Nat
    BY <1>1 DEF SetField, CodecInv, Typed
  <2> QED  BY <2>1, ElsewhereAlike DEF Untouched
<1>2. CASE \E type \in Types : SetType(type)
  <2>1. phase' = "open" /\ sets' = sets + 1 /\ sets \in Nat
    BY <1>2 DEF SetType, CodecInv, Typed
  <2> QED  BY <2>1, ElsewhereAlike DEF Untouched
<1>3. CASE \E serial \in Serials : Send(serial)
  BY <1>3, ElsewhereAlike DEF Send, Untouched
<1>4. CASE \E m \in PeerMessages : PeerSends(m)
  BY <1>4, ElsewhereAlike DEF PeerSends, Untouched
<1>5. CASE HeaderArrives
  BY <1>5, HeaderArrivesAlike
<1>6. CASE BodyArrives
  BY <1>6, BodyArrivesAlike
<1>7. CASE ReadField
  BY <1>7, ReadFieldAlike
<1>8. CASE Open
  BY <1>8, OpenAlike
<1>9. CASE ExtractString
  BY <1>9, ExtractStringAlike
<1>10. CASE ExtractOther
  BY <1>10, ExtractOtherAlike
<1>11. CASE UNCHANGED vars
  BY <1>11 DEF vars, Alike, Received, Untouched
<1> QED
  BY <1>1, <1>2, <1>3, <1>4, <1>5, <1>6, <1>7, <1>8, <1>9, <1>10, <1>11 DEF Next, ReadFd

\* Readers of the same little-endian message: if the library refuses it, so does
\* the example; if the library overruns it, so does the example; if both read it
\* they have the same header, fields and body; and the example refuses what the
\* library reads only if a field ran on past the end of the header.
THEOREM LibraryAgreesWithExample == Spec => []AgreesWithExample
<1>1. CodecInv /\ LittleEndianWhole /\ ReadingInv /\ Alike /\ [Next]_vars => Alike'
  BY NextAlike
<1>2. CodecInv /\ ReadingInv /\ Alike => AgreesWithExample
  <2> SUFFICES ASSUME CodecInv, ReadingInv, Alike, Received, sent.endian = Little
               PROVE  LET ex     == Peer!Parse(wire)
                          r      == msg.reader
                          inside == r.pos = AlignedTo(HeaderTotal(msg.fixed), 8)
                      IN  /\ phase = "failed" => ex = Peer!Thrown
                          /\ phase = "undefined" /\ ~msg.fieldsValid => ex = Peer!Overrun
                          /\ Untouched =>
                               /\ ex.ok <=> inside
                               /\ inside => /\ ex.fields = msg.fields
                                            /\ ex.type = msg.fixed.type
                                            /\ ex.serial = msg.fixed.serial
                                            /\ ex.body = SubSeq(r.data, r.pos + 1, Len(r.data))
    BY DEF AgreesWithExample
  <2> DEFINE ex == Peer!Parse(wire)
             r == msg.reader
             s == AlignedTo(HeaderTotal(msg.fixed), 8)
  <2>1. /\ phase = "failed" => ex = Peer!Thrown
        /\ phase = "undefined" /\ ~msg.fieldsValid => ex = Peer!Overrun
    BY DEF Alike
  <2>2. ASSUME Untouched
        PROVE  /\ ex.ok <=> r.pos = s
               /\ r.pos = s => /\ ex.fields = msg.fields
                               /\ ex.type = msg.fixed.type
                               /\ ex.serial = msg.fixed.serial
                               /\ ex.body = SubSeq(r.data, r.pos + 1, Len(r.data))
    <3>1. sent \in PeerMessages /\ phase = "open" /\ sets = 0
      BY <2>2 DEF Untouched, Received, CodecInv, Typed
    <3>2. /\ wire = PeerBytes(sent) /\ msg.fixed.type = sent.type
          /\ msg.fixed.serial = sent.serial
          /\ msg.fixed.fieldsLen = UInt32(Len(PeerFields(sent)))
      BY <3>1 DEF ReadingInv, HeaderKept
    <3>3. s = BodyStart(sent)
      <4> DEFINE l == Len(PeerFields(sent))
      <4>1. HeaderTotal(msg.fixed) = HeaderSize + l
        BY <3>1, <3>2, PeerHeaderTotal
      <4>2. l \in Nat
        BY <3>1, PeerSizes
      <4> HIDE DEF l
      <4>3. AlignedTo(HeaderSize + l, 8) = HeaderSize + AlignedTo(l, 8)
        BY <4>2, PaddedHeader
      <4> QED  BY <4>1, <4>3 DEF BodyStart, l
    <3>4. /\ r.data = wire /\ (ex.ok <=> r.pos = s)
          /\ ex.ok => ex.fields = msg.fields /\ ex.body = SubSeq(wire, s + 1, Len(wire))
      BY <2>2, <3>3 DEF Alike
    <3>5. ex.ok => ex.type = sent.type /\ ex.serial = sent.serial
      BY <3>1, <3>2, ParseOfPeer
    <3> HIDE DEF ex, r, s
    <3> QED  BY <3>2, <3>4, <3>5
  <2> QED  BY <2>1, <2>2
<1> QED  BY <1>1, <1>2, InitAlike, CodecInvariant, WaitsForWhole, ReadingInvariant, PTL DEF Spec

----------------------------------------------------------------------------
(* What the library sends *)

\* More than any message of a peer has.
TextLimit == 2 * MaxSize + 64

\* Fields of which the wire format can tell the length.
Sized(g) ==
    \A f \in DOMAIN g : Len(g[f]) < TextLimit /\ (f = Signature => Len(g[f]) < 256)

\* A message that may be sent has a version the example knows and fields of
\* which it can tell the length; what was sent is the message as it is now.
Sendable ==
    /\ phase \in {"body", "fields", "open", "sent"} => msg.fixed.version = 1
    /\ Len(msg.reader.data) < TextLimit
    /\ Sized(msg.fields)
    /\ phase = "sent" => wire = Serialize(msg) /\ msg = WithLengths(msg)

\* A text that was read lay in the bytes of the reader.
LEMMA CharsAreInside ==
    ASSUME NEW r \in Reader, NEW n \in Nat, ReadChars(r, n).ok
    PROVE  /\ ReadChars(r, n).val \in Seq(Byte)
           /\ Len(ReadChars(r, n).val) = n /\ n < Len(r.data)
<1> DEFINE nul == Advance(r, n)
           q == Advance(nul, 1)
<1>1. r.pos \in Nat /\ Len(r.data) \in Nat
  BY ReaderParts
<1>2. Check(r, n + 1)
  BY DEF ReadChars, Nothing
<1>3. ReadChars(r, n) = IF Bytes(nul, 1)[1] # 0 THEN Nothing(nul) ELSE Got(Bytes(r, n), q)
  BY <1>2 DEF ReadChars
<1>4. Check(r, n) /\ n < Len(r.data)
  BY <1>1, <1>2 DEF Check
<1>5. Bytes(r, n) \in Seq(Byte) /\ Len(Bytes(r, n)) = n
  BY <1>4, AdvanceStays
<1> HIDE DEF nul, q
<1>6. ReadChars(r, n).val = Bytes(r, n)
  BY <1>3 DEF Nothing, Got
<1> QED  BY <1>4, <1>5, <1>6

LEMMA StringIsInside ==
    ASSUME NEW r \in Reader, ReadString(r).ok
    PROVE  Len(ReadString(r).val) < Len(r.data)
<1> DEFINE len == ReadUInt(r, 4)
           n == Number(len.val)
           chars == ReadChars(len.r, n)
<1>1. ReadsOn(len, r, Strings(4))
  BY ReadUIntStays DEF Sizes
<1>2. /\ len.r \in Reader /\ len.r.data = r.data /\ len.ok \in BOOLEAN
      /\ len.ok => len.val \in Word
  BY <1>1, WordIsBytes DEF ReadsOn, Strings
<1>3. ReadString(r) = IF ~len.ok THEN len
                      ELSE IF len.val = MaxUInt32 THEN Overrun(len.r) ELSE chars
  BY DEF ReadString, Then
<1> HIDE DEF len
<1>4. len.ok
  BY <1>3
<1>5. n \in Nat
  BY <1>2, <1>4, NumberIsNat
<1> HIDE DEF n
<1>6. chars.ok /\ ReadString(r) = chars
  BY <1>3, <1>4 DEF Overrun
<1>7. Len(chars.val) = n /\ n < Len(len.r.data)
  BY <1>2, <1>5, <1>6, CharsAreInside
<1> QED  BY <1>2, <1>6, <1>7

LEMMA SignatureIsInside ==
    ASSUME NEW r \in Reader, ReadSignature(r).ok
    PROVE  Len(ReadSignature(r).val) < 256 /\ Len(ReadSignature(r).val) < Len(r.data)
<1> DEFINE len == ReadUInt8(r)
           n == len.val
           chars == ReadChars(len.r, n)
<1>1. ReadsOn(len, r, Byte)
  BY ReadUInt8Stays
<1>2. /\ len.r \in Reader /\ len.r.data = r.data /\ len.ok \in BOOLEAN
      /\ len.ok => n \in Nat /\ n < 256
  BY <1>1 DEF ReadsOn, Byte
<1>3. ReadSignature(r) = IF len.ok THEN chars ELSE len
  BY DEF ReadSignature, Then
<1> HIDE DEF len
<1>4. len.ok
  BY <1>3
<1>5. n \in Nat /\ n < 256
  BY <1>2, <1>4
<1> HIDE DEF n
<1>6. chars.ok /\ ReadSignature(r) = chars
  BY <1>3, <1>4
<1>7. Len(chars.val) = n /\ n < Len(len.r.data)
  BY <1>2, <1>5, <1>6, CharsAreInside
<1> QED  BY <1>2, <1>5, <1>6, <1>7

LEMMA StoreKeepsSized ==
    ASSUME NEW g, Sized(g), NEW code, NEW known, NEW read,
           read.ok => /\ Len(read.val) < TextLimit
                      /\ Signature \in known => Len(read.val) < 256
    PROVE  Store(g, code, known, read).ok => Sized(Store(g, code, known, read).val)
<1> DEFINE v == read.val
           h == WithField(g, code, v)
           s == Store(g, code, known, read)
<1>1. s = IF read.ok THEN Got(IF code \in known THEN h ELSE g, read.r) ELSE read
  BY DEF Store, Then
<1>2. ASSUME read.ok, code \in known
      PROVE  Sized(h)
  <2>1. /\ DOMAIN h = DOMAIN g \cup {code}
        /\ \A f \in DOMAIN h : h[f] = IF f = code THEN v ELSE g[f]
    BY DEF WithField
  <2> HIDE DEF h
  <2> QED  BY <1>2, <2>1 DEF Sized
<1> HIDE DEF h
<1>3. CASE read.ok
  <2>1. s.ok /\ s.val = IF code \in known THEN h ELSE g
    BY <1>1, <1>3 DEF Got
  <2> QED  BY <1>2, <1>3, <2>1
<1>4. CASE ~read.ok
  BY <1>1, <1>4
<1> QED  BY <1>3, <1>4

LEMMA FieldValueKeepsSized ==
    ASSUME NEW g, Sized(g), NEW code, NEW sig, NEW r \in Reader, Len(r.data) < TextLimit
    PROVE  ReadFieldValue(g, code, sig, r).ok => Sized(ReadFieldValue(g, code, sig, r).val)
<1> DEFINE k == TextLimit
           string == Store(g, code, StringFields, ReadString(r))
           signature == Store(g, code, {Signature}, ReadSignature(r))
           number == Store(g, code, NumberFields, ReadUInt(r, 4))
           skipped == Got(g, r)
           field == ReadFieldValue(g, code, sig, r)
<1>1. Signature \notin StringFields /\ Signature \notin NumberFields
  BY DEF StringFields, NumberFields, Path, Interface, Member, ErrorName,
         ReplySerial, Destination, Sender, Signature, UnixFDs
<1>2. Len(r.data) < k /\ k \in Nat /\ 4 < k /\ Len(r.data) \in Nat
  BY ReaderParts DEF TextLimit, MaxSize
<1> HIDE DEF k
<1>3. string.ok => Sized(string.val)
  <2>1. ReadString(r).ok => Len(ReadString(r).val) < k
    <3> SUFFICES ASSUME ReadString(r).ok
                 PROVE  Len(ReadString(r).val) < k
      OBVIOUS
    <3> DEFINE s == ReadString(r).val
    <3>1. ReadsOn(ReadString(r), r, Seq(Byte))
      BY ReadStringStays
    <3>2. Len(s) \in Nat
      BY <3>1, LenProperties DEF ReadsOn
    <3>3. Len(s) < Len(r.data)
      BY StringIsInside
    <3> HIDE DEF s
    <3>4. Len(s) < k
      BY <1>2, <3>2, <3>3
    <3> QED  BY <3>4 DEF s
  <2> QED  BY <1>1, <2>1, StoreKeepsSized DEF k
<1>4. signature.ok => Sized(signature.val)
  <2>1. ReadSignature(r).ok => Len(ReadSignature(r).val) < k /\ Len(ReadSignature(r).val) < 256
    <3> SUFFICES ASSUME ReadSignature(r).ok
                 PROVE  Len(ReadSignature(r).val) < k /\ Len(ReadSignature(r).val) < 256
      OBVIOUS
    <3> DEFINE s == ReadSignature(r).val
    <3>1. ReadsOn(ReadSignature(r), r, Seq(Byte))
      BY ReadSignatureStays
    <3>2. Len(s) \in Nat
      BY <3>1, LenProperties DEF ReadsOn
    <3>3. Len(s) < Len(r.data) /\ Len(s) < 256
      BY SignatureIsInside
    <3> HIDE DEF s
    <3>4. Len(s) < k
      BY <1>2, <3>2, <3>3
    <3> QED  BY <3>3, <3>4 DEF s
  <2> QED  BY <2>1, StoreKeepsSized DEF k
<1>5. number.ok => Sized(number.val)
  <2>1. ReadUInt(r, 4).ok => Len(ReadUInt(r, 4).val) = 4
    <3>1. ReadsOn(ReadUInt(r, 4), r, Strings(4))
      BY ReadUIntStays DEF Sizes
    <3> QED  BY <3>1 DEF ReadsOn, Strings
  <2>2. ReadUInt(r, 4).ok => Len(ReadUInt(r, 4).val) < k
    BY <1>2, <2>1
  <2> QED  BY <1>1, <2>2, StoreKeepsSized DEF k
<1>6. skipped.val = g
  BY DEF Got
<1>7. field = CASE sig \in {<<CharS>>, <<CharO>>} -> string
                [] sig = <<CharG>> -> signature
                [] sig = <<CharU>> -> number
                [] OTHER           -> skipped
  BY DEF ReadFieldValue
<1>8. <<CharS>> # <<CharG>> /\ <<CharO>> # <<CharG>> /\ <<CharS>> # <<CharU>>
      /\ <<CharO>> # <<CharU>> /\ <<CharG>> # <<CharU>>
  BY DEF CharS, CharO, CharG, CharU
<1> HIDE DEF string, signature, number, skipped, field
<1>9. field \in {string, signature, number, skipped}
  BY <1>7, <1>8
<1>10. field.ok => Sized(field.val)
  BY Zenon, <1>3, <1>4, <1>5, <1>6, <1>9
<1> QED  BY <1>10 DEF field

LEMMA ParseFieldKeepsSized ==
    ASSUME NEW g \in FieldMaps, Sized(g), NEW r \in Reader, Len(r.data) < TextLimit,
           ParseField(g, r).ok
    PROVE  Sized(ParseField(g, r).val)
<1> DEFINE code == ReadUInt8(r)
           sig == ReadSignature(code.r)
           field == ReadFieldValue(g, code.val, sig.val, sig.r)
<1>1. ReadsOn(code, r, Byte)
  BY ReadUInt8Stays
<1>2. ParseField(g, r) = IF code.ok THEN IF sig.ok THEN field ELSE sig ELSE code
  BY DEF ParseField, Then
<1> HIDE DEF code
<1>3. code.r \in Reader /\ code.r.data = r.data
  BY <1>1 DEF ReadsOn
<1>4. ReadsOn(sig, code.r, Seq(Byte))
  BY <1>3, ReadSignatureStays
<1> HIDE DEF sig
<1>5. sig.r \in Reader /\ sig.r.data = r.data
  BY <1>3, <1>4 DEF ReadsOn
<1>6. Len(sig.r.data) < TextLimit
  BY Zenon, <1>5
<1>7. field.ok => Sized(field.val)
  BY <1>5, <1>6, FieldValueKeepsSized
<1> HIDE DEF field
<1>8. ParseField(g, r) = field
  BY <1>2
<1> QED  BY <1>7, <1>8

\* Setting the lengths again changes nothing.
LEMMA LengthsAreSet ==
    ASSUME NEW m \in Messages
    PROVE  LET s == WithLengths(m)
           IN  /\ WithLengths(s) = s /\ Serialize(s) = Serialize(m)
               /\ s.fields = m.fields /\ s.reader = m.reader
               /\ s.fixed.version = m.fixed.version
<1> DEFINE b == UInt32(Len(WrittenBody))
           l == UInt32(Len(SerializeFields(m.fields)))
           s == WithLengths(m)
<1> DEFINE h == [m.fixed EXCEPT !.bodyLen = b, !.fieldsLen = l]
<1> HIDE DEF b, l
<1>1. m.fixed \in Headers
  BY MessageParts
<1>2. h.version = m.fixed.version /\ [h EXCEPT !.bodyLen = b, !.fieldsLen = l] = h
  BY <1>1 DEF Headers
<1>3. /\ s.fields = m.fields /\ s.reader = m.reader
      /\ s.fixed.version = m.fixed.version
      /\ [s EXCEPT !.fixed.bodyLen = b, !.fixed.fieldsLen = l] = s
  <2>1. s = [m EXCEPT !.fixed = h]
    BY DEF WithLengths, b, l, Messages
  <2> HIDE DEF s, h
  <2>2. s.fields = m.fields /\ s.reader = m.reader /\ s.fixed = h /\ [s EXCEPT !.fixed = h] = s
    BY <2>1 DEF Messages
  <2>3. [s EXCEPT !.fixed.bodyLen = b, !.fixed.fieldsLen = l]
          = [s EXCEPT !.fixed = [s.fixed EXCEPT !.bodyLen = b, !.fieldsLen = l]]
    BY <2>1 DEF Messages
  <2> QED  BY Zenon, <1>2, <2>2, <2>3 DEF h
<1> HIDE DEF s, h
<1>4. WithLengths(s) = s
  BY <1>3 DEF WithLengths, b, l
<1>5. Serialize(s) = Serialize(m)
  BY <1>3, <1>4 DEF Serialize, s
<1> QED  BY <1>3, <1>4, <1>5 DEF s

\* A peer's message is not that long.
LEMMA PeerBytesAreFew ==
    ASSUME NEW m \in PeerMessages
    PROVE  Len(PeerBytes(m)) \in Nat /\ Len(PeerBytes(m)) < TextLimit /\ 16 <= Len(PeerBytes(m))
<1> DEFINE l == Len(PeerFields(m))
           b == Len(PeerBody(m))
           n == AlignedTo(l, 8)
           k == MaxSize
<1>1. l \in Nat /\ b \in Nat /\ l < k /\ b < k /\ k \in Nat
  BY PeerSizes DEF MaxSize
<1>2. Len(PeerBytes(m)) = 16 + n + b
  BY PeerBytesAreWhole DEF HeaderSize
<1>3. n \in Nat /\ n < l + 8
  BY <1>1, Alignment DEF Sizes
<1> HIDE DEF l, b, n, k
<1>4. 16 + n + b \in Nat /\ 16 + n + b < 2 * k + 64 /\ 16 <= 16 + n + b
  BY <1>1, <1>3
<1> QED  BY <1>2, <1>4 DEF TextLimit, k

LEMMA InitSendable == Init => Sendable
<1> SUFFICES ASSUME Init
             PROVE  Sendable
  OBVIOUS
<1>1. phase = "open" /\ msg = NewMessage
  BY DEF Init
<1>2. msg.fixed.version = 1 /\ msg.reader.data = <<>> /\ msg.fields = <<>>
  BY <1>1 DEF NewMessage, NewFixedHeader, NewReader
<1>3. Len(<<>>) < TextLimit
  BY DEF TextLimit, MaxSize
<1>4. Sized(<<>>)
  BY DEF Sized
<1> QED  BY <1>1, <1>2, <1>3, <1>4 DEF Sendable

LEMMA SetFieldSendable ==
    ASSUME CodecInv, Sendable, NEW f \in Settable, NEW text \in Texts, SetField(f, text)
    PROVE  Sendable'
<1> DEFINE g == WithField(msg.fields, f, text)
<1>1. f # Signature
  BY DEF Settable, Path, Interface, Member, ErrorName, Destination, Signature
<1>2. Len(text) < TextLimit
  <2> DEFINE k == MaxSize
             n == Len(text)
  <2>1. n < k /\ n \in Nat /\ k \in Nat
    BY ProgramAssumption, LenProperties DEF MaxSize
  <2> HIDE DEF k, n
  <2>2. n < 2 * k + 64
    BY <2>1
  <2> QED  BY <2>2 DEF TextLimit, k, n
<1>3. /\ phase \in {"open", "sent"} /\ phase' = "open"
      /\ msg' = [msg EXCEPT !.fields = g]
  BY DEF SetField, CodecInv, Typed, Messages
<1>4. Sized(g)
  <2>1. /\ DOMAIN g = DOMAIN msg.fields \cup {f}
        /\ \A h \in DOMAIN g : g[h] = IF h = f THEN text ELSE msg.fields[h]
    BY DEF WithField
  <2> HIDE DEF g
  <2> QED  BY <1>1, <1>2, <2>1 DEF Sized, Sendable
<1> HIDE DEF g
<1>5. msg'.fields = g /\ msg'.reader = msg.reader /\ msg'.fixed = msg.fixed
  BY <1>3 DEF CodecInv, Typed, Messages
<1> QED  BY <1>3, <1>4, <1>5 DEF Sendable

LEMMA SetTypeSendable ==
    ASSUME CodecInv, Sendable, NEW type \in Types, SetType(type)
    PROVE  Sendable'
<1>1. /\ phase \in {"open", "sent"} /\ phase' = "open"
      /\ msg' = [msg EXCEPT !.fixed.type = type]
  BY DEF SetType
<1>2. msg'.fields = msg.fields /\ msg'.reader = msg.reader
      /\ msg'.fixed.version = msg.fixed.version
  BY <1>1 DEF CodecInv, Typed, Messages, Headers
<1> QED  BY <1>1, <1>2 DEF Sendable

LEMMA SendSendable ==
    ASSUME CodecInv, Sendable, NEW serial \in Serials, Send(serial)
    PROVE  Sendable'
<1> DEFINE m == [msg EXCEPT !.fixed.serial = serial]
<1>1. serial \in Word
  BY ProgramAssumption DEF Word
<1>2. /\ m \in Messages /\ m.fields = msg.fields /\ m.reader = msg.reader
      /\ m.fixed.version = msg.fixed.version
  BY <1>1 DEF CodecInv, Typed, Messages, Headers
<1>3. wire' = Serialize(m) /\ msg' = WithLengths(m) /\ phase = "open" /\ phase' = "sent"
  BY DEF Send
<1> HIDE DEF m
<1> DEFINE s == WithLengths(m)
<1>4. /\ WithLengths(s) = s /\ Serialize(s) = Serialize(m)
      /\ s.fields = m.fields /\ s.reader = m.reader /\ s.fixed.version = m.fixed.version
  BY <1>2, LengthsAreSet
<1> HIDE DEF s
<1>5. msg' = s /\ wire' = Serialize(s)
  BY <1>3, <1>4 DEF s
<1> QED  BY <1>2, <1>3, <1>4, <1>5 DEF Sendable

LEMMA PeerSendsSendable ==
    ASSUME Sendable, NEW m \in PeerMessages, PeerSends(m)
    PROVE  Sendable'
BY DEF PeerSends, Sendable

LEMMA HeaderArrivesSendable ==
    ASSUME CodecInv, Sendable, HeaderArrives
    PROVE  Sendable'
<1> DEFINE d == SubSeq(wire, 1, HeaderSize)
           h == ReadFixedHeader(NewReader(d))
<1>1. /\ phase = "header" /\ msg \in Messages /\ wire \in Seq(Byte)
      /\ sent \in PeerMessages /\ wire = PeerBytes(sent)
  BY DEF HeaderArrives, CodecInv, Typed, WireInv
<1>2. d \in Seq(Byte) /\ Len(d) = HeaderSize
  <2>1. 16 <= Len(wire)
    BY <1>1, PeerBytesAreFew
  <2> QED  BY <1>1, <2>1 DEF HeaderSize
<1>3. \/ h.val.valid /\ msg' = [msg EXCEPT !.fixed = h.val, !.reader = h.r] /\ phase' = "body"
      \/ msg' = [msg EXCEPT !.fixed = h.val, !.reader = NewReader(<<>>)] /\ phase' = "failed"
  BY DEF HeaderArrives
<1> HIDE DEF d
<1>4. /\ h.val.valid = (d[4] = 1) /\ h.val.version = d[4]
      /\ h.val.valid => h.r.data = d
  BY <1>2, FixedHeaderIsRead
<1> HIDE DEF h
<1>5. Len(d) < TextLimit /\ Len(<<>>) < TextLimit
  BY <1>2 DEF HeaderSize, TextLimit, MaxSize
<1>6. CASE h.val.valid /\ msg' = [msg EXCEPT !.fixed = h.val, !.reader = h.r] /\ phase' = "body"
  <2>1. msg'.fields = msg.fields /\ msg'.reader = h.r /\ msg'.fixed = h.val
    BY <1>1, <1>6 DEF Messages
  <2>2. h.r.data = d /\ h.val.version = 1
    BY <1>4, <1>6
  <2> QED  BY <1>5, <1>6, <2>1, <2>2 DEF Sendable
<1>7. CASE msg' = [msg EXCEPT !.fixed = h.val, !.reader = NewReader(<<>>)] /\ phase' = "failed"
  <2>1. msg'.fields = msg.fields /\ msg'.reader.data = <<>>
    BY <1>1, <1>7 DEF Messages, NewReader
  <2> QED  BY <1>5, <1>7, <2>1 DEF Sendable
<1> QED  BY <1>3, <1>6, <1>7

LEMMA BodyArrivesSendable ==
    ASSUME CodecInv, Sendable, BodyArrives
    PROVE  Sendable'
<1> DEFINE n == TotalSize(msg.fixed)
           d == SubSeq(wire, 1, n)
<1>1. /\ msg \in Messages /\ wire \in Seq(Byte) /\ n <= Len(wire) /\ phase = "body"
      /\ sent \in PeerMessages /\ wire = PeerBytes(sent)
  BY DEF BodyArrives, CodecInv, Typed, WireInv
<1>2. n \in Nat
  BY <1>1, MessageParts, TotalSizeIsNat
<1>3. msg' = [msg EXCEPT !.reader.data = d] /\ phase' = "fields"
  BY DEF BodyArrives
<1>4. Len(wire) \in Nat /\ Len(wire) < TextLimit
  BY <1>1, PeerBytesAreFew
<1> HIDE DEF n
<1>5. d \in Seq(Byte) /\ Len(d) = n
  BY <1>1, <1>2
<1> HIDE DEF d
<1>6. Len(d) < TextLimit
  <2> DEFINE k == TextLimit
             x == Len(wire)
  <2>1. x \in Nat /\ x < k /\ n <= x /\ k \in Nat
    BY <1>1, <1>4 DEF TextLimit, MaxSize
  <2> HIDE DEF k, x
  <2>2. n < k
    BY <1>2, <2>1
  <2> QED  BY <1>5, <2>2 DEF k
<1>7. msg'.fields = msg.fields /\ msg'.reader.data = d /\ msg'.fixed = msg.fixed
  BY <1>1, <1>3 DEF Messages, Reader, Readers
<1> QED  BY <1>1, <1>3, <1>6, <1>7 DEF Sendable

LEMMA AtFieldHasTheBytes ==
    ASSUME CodecInv
    PROVE  AtField \in Reader /\ AtField.data = msg.reader.data
<1>1. msg.reader \in Reader
  BY MessageParts DEF CodecInv, Typed
<1>2. ReadsOn(Align(msg.reader, 8), msg.reader, Nat)
  BY <1>1, AlignStays DEF Sizes
<1> QED  BY <1>2 DEF ReadsOn, AtField

LEMMA ReadFieldSendable ==
    ASSUME CodecInv, Sendable, ReadField
    PROVE  Sendable'
<1> DEFINE field == ParseField(msg.fields, AtField)
<1>1. /\ msg \in Messages /\ msg.fields \in FieldMaps
      /\ AtField \in Reader /\ AtField.data = msg.reader.data
  BY MessageParts, AtFieldHasTheBytes DEF CodecInv, Typed
<1>2. ReadsOn(field, AtField, FieldMaps)
  BY <1>1, ParseFieldStays
<1>3. Sized(msg.fields) /\ Len(AtField.data) < TextLimit
  BY Zenon, <1>1 DEF Sendable
<1>4. field.ok => Sized(field.val)
  BY <1>1, <1>3, ParseFieldKeepsSized
<1>5. phase = "fields"
  BY DEF ReadField
<1>6. \/ field.ok /\ msg' = [msg EXCEPT !.fields = field.val, !.reader = field.r] /\ UNCHANGED phase
      \/ msg' = [msg EXCEPT !.reader = NewReader(<<>>)] 
         /\ phase' \in {"failed", "undefined"}
  BY DEF ReadField, PhaseAfter
<1> HIDE DEF field
<1>7. field.r.data = msg.reader.data
  BY <1>1, <1>2 DEF ReadsOn
<1>8. Len(<<>>) < TextLimit
  BY DEF TextLimit, MaxSize
<1>9. CASE field.ok /\ msg' = [msg EXCEPT !.fields = field.val, !.reader = field.r] /\ UNCHANGED phase
  <2>1. msg'.fields = field.val /\ msg'.reader = field.r /\ msg'.fixed = msg.fixed
    BY <1>1, <1>9 DEF Messages
  <2> QED  BY <1>4, <1>5, <1>7, <1>9, <2>1 DEF Sendable
<1>10. CASE /\ msg' = [msg EXCEPT !.reader = NewReader(<<>>)]
            /\ phase' \in {"failed", "undefined"}
  <2>1. msg'.fields = msg.fields /\ msg'.reader.data = <<>>
    BY <1>1, <1>10 DEF Messages, NewReader
  <2> QED  BY <1>8, <1>10, <2>1 DEF Sendable
<1> QED  BY <1>6, <1>9, <1>10

LEMMA OpenSendable ==
    ASSUME CodecInv, Sendable, Open
    PROVE  Sendable'
<1>1. msg \in Messages /\ AtField.data = msg.reader.data
  BY AtFieldHasTheBytes DEF CodecInv, Typed
<1>2. /\ msg' = [msg EXCEPT !.fieldsValid = TRUE, !.reader = AtField]
      /\ phase = "fields" /\ phase' = "open"
  BY DEF Open
<1>3. msg'.fields = msg.fields /\ msg'.reader = AtField /\ msg'.fixed = msg.fixed
  BY <1>1, <1>2 DEF Messages
<1> QED  BY <1>1, <1>2, <1>3 DEF Sendable

LEMMA ExtractSendable ==
    ASSUME CodecInv, Sendable, phase = "open", phase' \in {"open", "undefined"},
           NEW v, NEW S, ReadsOn(v, msg.reader, S),
           NEW b, msg' = [msg EXCEPT !.reader = v.r, !.valid = b]
    PROVE  Sendable'
<1>1. msg'.fields = msg.fields /\ msg'.reader = v.r /\ msg'.fixed = msg.fixed
  BY DEF CodecInv, Typed, Messages
<1>2. v.r.data = msg.reader.data
  BY DEF ReadsOn
<1> QED  BY <1>1, <1>2 DEF Sendable

LEMMA ExtractStringSendable ==
    ASSUME CodecInv, Sendable, ExtractString
    PROVE  Sendable'
<1> DEFINE s == ReadString(msg.reader)
           b == msg.valid /\ s.ok
<1>1. msg \in Messages /\ msg.reader \in Reader
  BY MessageParts DEF CodecInv, Typed
<1>2. ReadsOn(s, msg.reader, Seq(Byte))
  BY <1>1, ReadStringStays
<1>3. /\ msg' = [msg EXCEPT !.reader = s.r, !.valid = @ /\ s.ok]
      /\ phase = "open" /\ phase' \in {"open", "undefined"}
  BY DEF ExtractString, PhaseAfter
<1> HIDE DEF s
<1>4. msg' = [msg EXCEPT !.reader = s.r, !.valid = b]
  BY <1>1, <1>3 DEF Messages
<1> HIDE DEF b
<1> QED  BY <1>2, <1>3, <1>4, ExtractSendable

LEMMA ExtractOtherSendable ==
    ASSUME CodecInv, Sendable, ExtractOther
    PROVE  Sendable'
<1> DEFINE v == ReadItem(NextType)
           b == msg.valid
<1>1. msg \in Messages
  BY DEF CodecInv, Typed
<1>2. msg' = [msg EXCEPT !.reader = v.r] /\ phase = "open" /\ phase' = "open" /\ NextType # CharS
  BY DEF ExtractOther
<1>3. PICK S \in SUBSET Values : ReadsOn(v, msg.reader, S)
  BY <1>2, ReadItemStays
<1> HIDE DEF v
<1>4. msg' = [msg EXCEPT !.reader = v.r, !.valid = b]
  BY <1>1, <1>2 DEF Messages
<1> HIDE DEF b
<1> QED  BY <1>2, <1>3, <1>4, ExtractSendable

LEMMA NextSendable ==
    ASSUME CodecInv, Sendable, [Next]_vars
    PROVE  Sendable'
<1>1. CASE \E f \in Settable, text \in Texts : SetField(f, text)
  BY <1>1, SetFieldSendable
<1>2. CASE \E type \in Types : SetType(type)
  BY <1>2, SetTypeSendable
<1>3. CASE \E serial \in Serials : Send(serial)
  BY <1>3, SendSendable
<1>4. CASE \E m \in PeerMessages : PeerSends(m)
  BY <1>4, PeerSendsSendable
<1>5. CASE HeaderArrives
  BY <1>5, HeaderArrivesSendable
<1>6. CASE BodyArrives
  BY <1>6, BodyArrivesSendable
<1>7. CASE ReadField
  BY <1>7, ReadFieldSendable
<1>8. CASE Open
  BY <1>8, OpenSendable
<1>9. CASE ExtractString
  BY <1>9, ExtractStringSendable
<1>10. CASE ExtractOther
  BY <1>10, ExtractOtherSendable
<1>11. CASE UNCHANGED vars
  BY <1>11 DEF vars, Sendable
<1> QED
  BY <1>1, <1>2, <1>3, <1>4, <1>5, <1>6, <1>7, <1>8, <1>9, <1>10, <1>11 DEF Next, ReadFd

LEMMA SendableInvariant == Spec => []Sendable
<1>1. CodecInv /\ Sendable /\ [Next]_vars => Sendable'
  BY NextSendable
<1> QED  BY <1>1, InitSendable, CodecInvariant, PTL DEF Spec

\* The code and the type of a field.
FieldHead(w, f) == WriteSignature(WriteUInt8(PadTo(w, 8), f), << Peer!TypeOf(f) >>)

\* What a field can be.
Fits(f, v) == v \in Seq(Byte) /\ (f \in NumberFields => Len(v) = 4)

LEMMA FieldCodes ==
    ASSUME NEW f \in Fields
    PROVE  f \in Byte /\ Peer!TypeOf(f) \in Byte
<1>1. f \in Byte
  BY DEF Fields, StringFields, NumberFields, Path, Interface, Member, ErrorName,
         ReplySerial, Destination, Sender, Signature, UnixFDs, Byte
<1>2. Peer!TypeOf(f) \in Byte
  BY TypesOfFields DEF CharO, CharS, CharU, CharG, Byte
<1> QED  BY <1>1, <1>2

LEMMA FieldHeadParts ==
    ASSUME NEW w \in Writer, NEW f \in Fields
    PROVE  LET x == FieldHead(w, f)
           IN  /\ x \in Writer /\ x.endian = w.endian /\ Len(x.data) \in Nat
               /\ Len(x.data) < Len(w.data) + 12
<1> DEFINE p == PadTo(w, 8)
           n == AlignedTo(Len(w.data), 8)
<1>1. p \in Writer /\ p.endian = w.endian /\ Len(p.data) = n
  BY PaddedLength DEF Sizes
<1>2. n \in Nat /\ n < Len(w.data) + 8 /\ Len(w.data) \in Nat
  BY Alignment, WriterParts DEF Sizes
<1>3. FieldHead(w, f) = WriteSignature(WriteUInt8(p, f), << Peer!TypeOf(f) >>)
  BY DEF FieldHead
<1> HIDE DEF p, n
<1> DEFINE x == FieldHead(w, f)
<1>4. x \in Writer /\ x.endian = p.endian /\ Len(x.data) = Len(p.data) + 4
  BY <1>1, <1>3, FieldCodes, FieldStart
<1> HIDE DEF x
<1>5. Len(x.data) = n + 4 /\ n + 4 \in Nat /\ n + 4 < Len(w.data) + 12
  BY <1>1, <1>2, <1>4
<1> QED  BY <1>1, <1>4, <1>5 DEF x

LEMMA WriteFieldParts ==
    ASSUME NEW w, NEW f \in Fields, NEW v
    PROVE  LET x == FieldHead(w, f)
           IN  /\ f \in StringFields => WriteField(w, f, v) = WriteString(x, v)
               /\ f \in NumberFields => WriteField(w, f, v) = WriteUInt(x, v)
               /\ f = Signature => WriteField(w, f, v) = WriteSignature(x, v)
<1> DEFINE W(char) == WriteSignature(WriteUInt8(PadTo(w, 8), f), << char >>)
<1>1. /\ f = Path => Peer!TypeOf(f) = CharO
      /\ f \in StringFields \ {Path} => Peer!TypeOf(f) = CharS
      /\ f \in NumberFields => Peer!TypeOf(f) = CharU
      /\ f = Signature => Peer!TypeOf(f) = CharG
  BY TypesOfFields
<1>2. Path \in StringFields /\ StringFields \cap NumberFields = {}
      /\ Signature \notin StringFields /\ Signature \notin NumberFields
  BY DEF StringFields, NumberFields, Path, Interface, Member, ErrorName,
         ReplySerial, Destination, Sender, Signature, UnixFDs
<1>3. FieldHead(w, f) = W(Peer!TypeOf(f))
  BY DEF FieldHead
<1>4. WriteField(w, f, v) =
        CASE f = Path                     -> WriteString(W(CharO), v)
          [] f \in StringFields \ {Path}  -> WriteString(W(CharS), v)
          [] f \in NumberFields           -> WriteUInt(W(CharU), v)
          [] f = Signature                -> WriteSignature(W(CharG), v)
  BY DEF WriteField
<1> HIDE DEF W
<1>5. f = Path => WriteField(w, f, v) = WriteString(W(CharO), v)
  BY <1>2, <1>4
<1>6. f \in StringFields \ {Path} => WriteField(w, f, v) = WriteString(W(CharS), v)
  BY <1>2, <1>4
<1>7. f \in NumberFields => WriteField(w, f, v) = WriteUInt(W(CharU), v)
  BY <1>2, <1>4
<1>8. f = Signature => WriteField(w, f, v) = WriteSignature(W(CharG), v)
  BY <1>2, <1>4
<1> QED  BY <1>1, <1>3, <1>5, <1>6, <1>7, <1>8

LEMMA TextLength ==
    ASSUME NEW w \in Writer, NEW s \in Seq(Byte)
    PROVE  Len(Put(w, s \o << 0 >>).data) = Len(w.data) + Len(s) + 1
<1>1. s \o <<0>> \in Seq(Byte) /\ Len(s \o <<0>>) = Len(s) + 1 /\ Len(s) \in Nat
  BY TextIsBytes
<1> DEFINE z == s \o <<0>>
<1> HIDE DEF z
<1>2. z \in Seq(Byte) /\ Len(z) = Len(s) + 1
  BY <1>1 DEF z
<1>3. Put(w, z).data = w.data \o z
  BY <1>2, PutIsWriter
<1>4. Len(w.data \o z) = Len(w.data) + Len(z)
  BY <1>2, WriterParts, ConcatProperties
<1>5. Len(Put(w, z).data) = Len(w.data) + Len(z) /\ Len(w.data) \in Nat
  BY <1>3, <1>4, WriterParts
<1> DEFINE a == Len(Put(w, z).data)
           b == Len(w.data)
           c == Len(s)
<1>6. a = b + Len(z) /\ Len(z) = c + 1 /\ b \in Nat /\ c \in Nat
  BY <1>2, <1>5, LenProperties
<1> HIDE DEF a, b, c
<1>7. a = b + c + 1
  BY <1>6
<1> QED  BY <1>7 DEF a, b, c, z

LEMMA StringLength ==
    ASSUME NEW w \in Writer, NEW s \in Seq(Byte)
    PROVE  Len(WriteString(w, s).data) < Len(w.data) + Len(s) + 9
<1> DEFINE b == UInt32(Len(s))
           q == WriteUInt(w, b)
           n == AlignedTo(Len(w.data), 4)
<1>1. Len(s) \in Nat /\ b \in Seq(Byte) /\ Len(b) = 4
  BY UInt32IsWord, WordIsBytes
<1>2. WriteString(w, s) = Put(q, s \o <<0>>)
  BY DEF WriteString
<1>3. n \in Nat /\ n < Len(w.data) + 4 /\ Len(w.data) \in Nat
  BY Alignment, WriterParts DEF Sizes
<1> HIDE DEF b
<1>4. q \in Writer /\ Len(q.data) = n + 4
  BY <1>1, WriteUIntIsWriter, UIntLength DEF Sizes
<1> HIDE DEF q, n
<1>5. Len(WriteString(w, s).data) = n + 4 + Len(s) + 1
  BY <1>2, <1>4, TextLength
<1> QED  BY <1>1, <1>3, <1>5

LEMMA SignatureLength ==
    ASSUME NEW w \in Writer, NEW s \in Seq(Byte)
    PROVE  Len(WriteSignature(w, s).data) = Len(w.data) + Len(s) + 2
<1> DEFINE n == Len(s)
           b == n % 256
           q == WriteUInt8(w, b)
<1>1. n \in Nat /\ b \in Byte
  <2>1. n \in Nat
    OBVIOUS
  <2> HIDE DEF n
  <2> QED  BY <2>1 DEF Byte
<1>2. WriteSignature(w, s) = Put(q, s \o <<0>>)
  BY DEF WriteSignature
<1> HIDE DEF b
<1>3. q \in Writer /\ q.data = Append(w.data, b)
  BY <1>1, UInt8GoesOn DEF GoesOn
<1> HIDE DEF q
<1>4. Len(q.data) = Len(w.data) + 1 /\ Len(w.data) \in Nat
  BY <1>1, <1>3, WriterParts
<1>5. Len(WriteSignature(w, s).data) = Len(q.data) + n + 1
  BY <1>2, <1>3, TextLength
<1> QED  BY <1>1, <1>4, <1>5

\* What one field adds to the header.
LEMMA FieldLength ==
    ASSUME NEW w \in Writer, NEW f \in Fields, NEW v, Fits(f, v)
    PROVE  /\ WriteField(w, f, v) \in Writer /\ WriteField(w, f, v).endian = w.endian
           /\ Len(WriteField(w, f, v).data) < Len(w.data) + Len(v) + 21
<1> DEFINE x == FieldHead(w, f)
           u == WriteField(w, f, v)
<1>1. v \in Seq(Byte) /\ Len(v) \in Nat /\ (f \in NumberFields => Len(v) = 4)
  BY DEF Fits
<1>2. /\ x \in Writer /\ x.endian = w.endian /\ Len(x.data) \in Nat
      /\ Len(x.data) < Len(w.data) + 12 /\ Len(w.data) \in Nat
  BY FieldHeadParts, WriterParts
<1>3. /\ f \in StringFields => u = WriteString(x, v)
      /\ f \in NumberFields => u = WriteUInt(x, v)
      /\ f = Signature => u = WriteSignature(x, v)
  BY WriteFieldParts
<1>4. u \in Writer
  BY <1>1, WriteFieldIsWriter
<1> HIDE DEF x, u
<1>5. Len(u.data) \in Nat
  BY <1>4, WriterParts
<1>6. CASE f \in StringFields
  <2>1. u.endian = x.endian
    BY <1>1, <1>2, <1>3, <1>6, StringGoesOn DEF GoesOn
  <2>2. Len(u.data) < Len(x.data) + Len(v) + 9
    BY <1>1, <1>2, <1>3, <1>6, StringLength
  <2>3. Len(u.data) < Len(w.data) + Len(v) + 21
    BY <1>1, <1>2, <1>5, <2>2
  <2> QED  BY <1>2, <1>4, <2>1, <2>3 DEF u
<1>7. CASE f \in NumberFields
  <2>1. u.endian = x.endian
    BY <1>1, <1>2, <1>3, <1>7, UIntGoesOn DEF GoesOn, Sizes
  <2> DEFINE n == AlignedTo(Len(x.data), 4)
  <2>2. Len(u.data) = n + 4
    BY <1>1, <1>2, <1>3, <1>7, UIntLength DEF Sizes
  <2>3. n \in Nat /\ n < Len(x.data) + 4
    BY <1>2, Alignment DEF Sizes
  <2> HIDE DEF n
  <2>4. Len(u.data) < Len(w.data) + Len(v) + 21
    BY <1>1, <1>2, <2>2, <2>3
  <2> QED  BY <1>2, <1>4, <2>1, <2>4 DEF u
<1>8. CASE f = Signature
  <2>1. u.endian = x.endian
    BY <1>1, <1>2, <1>3, <1>8, SignatureGoesOn DEF GoesOn
  <2>2. Len(u.data) = Len(x.data) + Len(v) + 2
    BY <1>1, <1>2, <1>3, <1>8, SignatureLength
  <2>3. Len(u.data) < Len(w.data) + Len(v) + 21
    BY <1>1, <1>2, <1>5, <2>2
  <2> QED  BY <1>2, <1>4, <2>1, <2>3 DEF u
<1>9. f \in StringFields \/ f \in NumberFields \/ f = Signature
  BY DEF Fields
<1> QED  BY <1>6, <1>7, <1>8, <1>9 DEF u

\* Behind whole words of eight bytes it is the same field.
LEMMA OwnFieldAfter ==
    ASSUME NEW x \in Blocks, NEW w \in Writer, NEW f \in Fields, NEW v, Fits(f, v)
    PROVE  WriteField(After(x, w), f, v) = After(x, WriteField(w, f, v))
<1> DEFINE p == PadTo(w, 8)
           q == WriteUInt8(p, f)
           c == << Peer!TypeOf(f) >>
           s == FieldHead(w, f)
           z == FieldHead(After(x, w), f)
<1>1. v \in Seq(Byte) /\ (f \in NumberFields => Len(v) = 4)
  BY DEF Fits
<1>2. f \in Byte /\ c \in Seq(Byte)
  BY FieldCodes
<1>3. p \in Writer /\ PadTo(After(x, w), 8) = After(x, p)
  BY PaddedLength, PadToAfter DEF Sizes
<1>s. s = WriteSignature(q, c)
  BY DEF FieldHead
<1>z. z = WriteSignature(WriteUInt8(After(x, p), f), c)
  BY <1>3 DEF FieldHead
<1> HIDE DEF p, c, s, z
<1>4. q \in Writer /\ WriteUInt8(After(x, p), f) = After(x, q)
  BY <1>2, <1>3, WriteUInt8IsWriter, UInt8After
<1> HIDE DEF q
<1>5. s \in Writer /\ z = After(x, s)
  BY <1>2, <1>4, <1>s, <1>z, WriteSignatureIsWriter, SignatureAfter
<1> DEFINE u == WriteField(w, f, v)
           y == WriteField(After(x, w), f, v)
<1>6. /\ f \in StringFields => u = WriteString(s, v) /\ y = WriteString(z, v)
      /\ f \in NumberFields => u = WriteUInt(s, v) /\ y = WriteUInt(z, v)
      /\ f = Signature => u = WriteSignature(s, v) /\ y = WriteSignature(z, v)
  BY WriteFieldParts DEF s, z
<1> HIDE DEF u, y
<1>7. f \in StringFields => y = After(x, u)
  BY <1>1, <1>5, <1>6, StringAfter
<1>8. f \in NumberFields => y = After(x, u)
  BY <1>1, <1>5, <1>6, UIntAfter DEF Sizes
<1>9. f = Signature => y = After(x, u)
  BY <1>1, <1>5, <1>6, SignatureAfter
<1>10. f \in StringFields \/ f \in NumberFields \/ f = Signature
  BY DEF Fields
<1> QED  BY <1>7, <1>8, <1>9, <1>10 DEF u, y

\* Those of the fields g that are in S.
Restricted(g, S) == [f \in DOMAIN g \cap S |-> g[f]]

\* From where w is, the example reads of d the fields of g that are in S, and
\* stops at "end".
FieldsLeft(d, end, g, w, S) ==
    /\ Begins(w, d) /\ w.endian = Little /\ Len(w.data) <= end
    /\ LET F == Peer!FieldsFrom(d, Little, end)[Len(w.data)]
       IN  F.ok /\ F.val = Restricted(g, S) /\ F.next = end

LEMMA SizedParts ==
    ASSUME NEW g \in FieldMaps, Sized(g), NEW f \in DOMAIN g
    PROVE  /\ f \in Fields /\ Fits(f, g[f]) /\ CanWrite(f, g[f])
           /\ Len(g[f]) \in Nat /\ Len(g[f]) < TextLimit
<1> DEFINE v == g[f]
           k == TextLimit
           l == LengthLimit
<1>1. f \in Fields /\ v \in Seq(Byte) /\ (f \in NumberFields => Len(v) = 4)
  BY FieldMapParts
<1>2. Len(v) < k /\ (f = Signature => Len(v) < 256)
  BY DEF Sized
<1>3. k \in Nat /\ l \in Nat /\ k < l
  BY DEF TextLimit, MaxSize, LengthLimit
<1> HIDE DEF v, k, l
<1>4. Len(v) \in Nat
  BY <1>1
<1>5. Len(v) < l
  BY <1>2, <1>3, <1>4
<1>6. Fits(f, v) /\ CanWrite(f, v)
  BY <1>1, <1>2, <1>5 DEF Fits, CanWrite, l
<1> QED  BY <1>1, <1>2, <1>4, <1>6 DEF v, k

\* The fields x are the field f alone.
Single(x, f, v) == DOMAIN x = {f} /\ x[f] = v

\* One field that the example reads back.
LEMMA FieldIsReadBack ==
    ASSUME NEW w \in Writer, w.endian = Little, NEW f \in Fields, NEW v, CanWrite(f, v),
           NEW d, Begins(WriteField(w, f, v), d)
    PROVE  LET a     == AlignedTo(Len(w.data), 8)
               next  == Len(WriteField(w, f, v).data)
               field == Peer!FieldAt(d, Little, a)
           IN  /\ Begins(w, d) /\ a \in Nat /\ Len(w.data) <= a /\ a < next /\ next <= Len(d)
               /\ field.ok /\ field.next = next
               /\ Single(field.val, f, v)
<1> DEFINE u == WriteField(w, f, v)
           n == Len(w.data)
           a == AlignedTo(n, 8)
           at == Align(At(w, d), 8)
           read == ParseField(<<>>, at.r)
           field == Peer!FieldAt(d, Little, a)
<1>1. Begins(w, d) /\ at.ok /\ read = Got(WithField(<<>>, f, v), At(u, d))
  BY FieldComesBack
<1>2. /\ At(w, d) \in Reader /\ At(w, d).data = d /\ At(w, d).pos = n
      /\ At(w, d).endian = Little /\ d \in Seq(Byte)
  BY <1>1, AtIsReader DEF Begins
<1>3. /\ n \in Nat /\ a \in Nat /\ n <= a
  BY WriterParts, Alignment DEF Sizes
<1>4. at.r \in Reader /\ at.r.data = d /\ at.r.endian = Little
  <2>1. ReadsOn(at, At(w, d), Nat)
    BY <1>2, AlignStays DEF Sizes
  <2> HIDE DEF at
  <2> QED  BY <1>2, <2>1 DEF ReadsOn
<1>5. at.r.pos = a
  <2> DEFINE r == At(w, d)
  <2>1. r.pos = n
    BY <1>2
  <2>2. at = Seek(r, a)
    BY <2>1 DEF Align
  <2>3. at.r = [r EXCEPT !.pos = a]
    <3> HIDE DEF a, r
    <3> QED  BY <1>1, <2>2 DEF Seek, Got, Nothing
  <2>4. r \in Readers
    BY <1>2, ReaderParts
  <2> HIDE DEF a, r, at
  <2> QED  BY <2>3, <2>4 DEF Readers
<1>6. u \in Writer /\ Len(u.data) \in Nat /\ Len(u.data) <= Len(d)
  BY WriterParts DEF Begins
<1>7. At(u, d).pos = Len(u.data)
  BY AtIsReader
<1>8. read.ok /\ read.val = WithField(<<>>, f, v) /\ read.r.pos = Len(u.data)
  <2> HIDE DEF read, u
  <2> QED  BY <1>1, <1>7 DEF Got
<1>9. a < Len(u.data)
  <2> HIDE DEF u, a, at
  <2> QED  BY <1>4, <1>5, <1>8, NoFieldsAreAMap, ParseFieldMoves
<1>10. AgreeOver(field, read, <<>>)
  <2> HIDE DEF at, a
  <2>1. AgreeOver(Peer!FieldAt(at.r.data, at.r.endian, at.r.pos), ParseField(<<>>, at.r), <<>>)
    BY <1>4, NoFieldsAreAMap, FieldsAgree
  <2> QED  BY <1>4, <1>5, <2>1
<1> HIDE DEF u, n, a, at, read, field
<1>11. field.ok /\ field.next = Len(u.data) /\ Peer!Over(field.val, <<>>) = WithField(<<>>, f, v)
  BY <1>8, <1>10 DEF AgreeOver
<1>12. Single(field.val, f, v)
  <2> DEFINE x == field.val
             y == WithField(<<>>, f, v)
             z == Peer!Over(x, <<>>)
  <2>1. DOMAIN y = {f} /\ y[f] = v
    <3>1. DOMAIN <<>> = {}
      OBVIOUS
    <3> QED  BY <3>1 DEF WithField
  <2>2. DOMAIN z = DOMAIN x /\ \A h \in DOMAIN x : z[h] = x[h]
    <3>1. DOMAIN <<>> = {}
      OBVIOUS
    <3> HIDE DEF x
    <3> QED  BY <3>1 DEF Peer!Over
  <2>3. z = y
    BY <1>11
  <2> HIDE DEF x, y, z
  <2>4. DOMAIN x = {f} /\ x[f] = v
    BY <2>1, <2>2, <2>3
  <2> QED  BY <2>4 DEF x, Single
<1> QED  BY <1>1, <1>3, <1>6, <1>9, <1>11, <1>12 DEF u, n, a, field

\* Going back over one field.
LEMMA OneFieldMore ==
    ASSUME NEW d \in Seq(Byte), NEW end \in Nat, end <= Len(d), NEW g \in FieldMaps, Sized(g),
           NEW w \in Writer, w.endian = Little, NEW f \in Fields, NEW S,
           FieldsLeft(d, end, g, WriteIfSet(w, f, g), S)
    PROVE  FieldsLeft(d, end, g, w, S \cup {f})
<1>1. CASE f \notin DOMAIN g
  <2>1. WriteIfSet(w, f, g) = w
    BY <1>1 DEF WriteIfSet
  <2>2. Restricted(g, S) = Restricted(g, S \cup {f})
    <3>1. DOMAIN g \cap S = DOMAIN g \cap (S \cup {f})
      BY <1>1
    <3> QED  BY <3>1 DEF Restricted
  <2>3. FieldsLeft(d, end, g, w, S)
    BY <2>1
  <2> QED  BY <2>2, <2>3 DEF FieldsLeft
<1>2. CASE f \in DOMAIN g
  <2> DEFINE v == g[f]
             u == WriteField(w, f, v)
             p == Len(w.data)
             q == Len(u.data)
             a == AlignedTo(p, 8)
             From == Peer!FieldsFrom(d, Little, end)
             field == Peer!FieldAt(d, Little, a)
             rest == From[q]
  <2>1. WriteIfSet(w, f, g) = u
    BY <1>2 DEF WriteIfSet
  <2>2. FieldsLeft(d, end, g, u, S)
    BY <2>1
  <2>3. /\ Begins(u, d) /\ q <= end
        /\ rest.ok /\ rest.val = Restricted(g, S) /\ rest.next = end
    BY <2>2 DEF FieldsLeft
  <2>4. CanWrite(f, v)
    BY <1>2, SizedParts
  <2>5. /\ Begins(w, d) /\ a \in Nat /\ p <= a /\ a < q /\ q <= Len(d)
        /\ field.ok /\ field.next = q /\ Single(field.val, f, v)
    <3> HIDE DEF v
    <3> QED  BY <2>3, <2>4, FieldIsReadBack
  <2>6. p \in Nat /\ Len(d) \in Nat
    BY WriterParts
  <2>7. q \in Nat
    BY <2>3, WriterParts DEF Begins
  <2> HIDE DEF q, a, field, u
  <2>8. p \in 0 .. Len(d) /\ p <= end /\ ~(p >= end) /\ ~(a > Len(d)) /\ ~(a >= end)
    BY <2>3, <2>5, <2>6, <2>7
  <2>9. From[p] = FromHere(d, Little, end, From, p)
    <3>1. Little \in Byte
      BY DEF Little, Byte
    <3> QED  BY <2>8, <3>1, FieldsFromHere
  <2> HIDE DEF From, p
  <2>10. From[p] = Peer!Read(Peer!Over(rest.val, field.val), rest.next)
    <3>1. FromHere(d, Little, end, From, p) =
            IF p >= end THEN Peer!Read(<<>>, p)
            ELSE IF a > Len(d) THEN Peer!Thrown
            ELSE IF a >= end THEN Peer!Read(<<>>, a)
            ELSE IF ~field.ok THEN field
            ELSE IF From[field.next].ok
                 THEN Peer!Read(Peer!Over(From[field.next].val, field.val), From[field.next].next)
            ELSE From[field.next]
      BY DEF FromHere, a, field
    <3>2. From[field.next] = rest
      BY <2>5
    <3> HIDE DEF rest
    <3> QED  BY <2>3, <2>5, <2>8, <2>9, <3>1, <3>2
  <2>11. Peer!Over(Restricted(g, S), field.val) = Restricted(g, S \cup {f})
    <3> DEFINE x == field.val
               y == Restricted(g, S)
               z == Restricted(g, S \cup {f})
    <3>1. DOMAIN x = {f} /\ x[f] = g[f]
      BY <2>5 DEF Single
    <3>2. DOMAIN y = DOMAIN g \cap S /\ \A h \in DOMAIN y : y[h] = g[h]
      BY DEF Restricted
    <3>3. z = [h \in DOMAIN g \cap (S \cup {f}) |-> g[h]]
      BY DEF Restricted
    <3>4. Peer!Over(y, x) = [h \in DOMAIN y \cup DOMAIN x |-> IF h \in DOMAIN y THEN y[h] ELSE x[h]]
      BY DEF Peer!Over
    <3> HIDE DEF x, y, z
    <3>5. DOMAIN y \cup DOMAIN x = DOMAIN g \cap (S \cup {f})
      BY <1>2, <3>1, <3>2
    <3>6. \A h \in DOMAIN y \cup DOMAIN x : (IF h \in DOMAIN y THEN y[h] ELSE x[h]) = g[h]
      BY <3>1, <3>2
    <3>7. Peer!Over(y, x) = z
      BY <3>3, <3>4, <3>5, <3>6
    <3> QED  BY <3>7 DEF x, y, z
  <2> HIDE DEF rest
  <2>12. From[p].ok /\ From[p].val = Restricted(g, S \cup {f}) /\ From[p].next = end
    BY <2>3, <2>10, <2>11 DEF Peer!Read
  <2> QED  BY <2>5, <2>8, <2>12 DEF FieldsLeft, From, p
<1> QED  BY <1>1, <1>2

\* One step of the library's writer, by itself and behind the fixed header.
LEMMA IfSetParts ==
    ASSUME NEW x \in Blocks, NEW g \in FieldMaps, Sized(g), NEW w \in Writer,
           w.endian = Little, NEW f \in Fields
    PROVE  LET u == WriteIfSet(w, f, g)
           IN  /\ u \in Writer /\ u.endian = Little
               /\ Len(u.data) < Len(w.data) + TextLimit + 21
               /\ WriteIfSet(After(x, w), f, g) = After(x, u)
<1> DEFINE k == TextLimit
<1>0. k \in Nat
  BY DEF TextLimit, MaxSize
<1>1. CASE f \notin DOMAIN g
  <2>1. \A y : WriteIfSet(y, f, g) = y
    BY <1>1 DEF WriteIfSet
  <2>2. Len(w.data) \in Nat
    BY WriterParts
  <2> HIDE DEF k
  <2>3. Len(w.data) < Len(w.data) + k + 21
    BY <1>0, <2>2
  <2> QED  BY <2>1, <2>3 DEF k
<1>2. CASE f \in DOMAIN g
  <2> DEFINE v == g[f]
             u == WriteField(w, f, v)
  <2>1. \A y : WriteIfSet(y, f, g) = WriteField(y, f, v)
    BY <1>2 DEF WriteIfSet
  <2>2. Fits(f, v) /\ Len(v) \in Nat /\ Len(v) < k
    BY <1>2, SizedParts
  <2> HIDE DEF v
  <2>3. u \in Writer /\ u.endian = w.endian /\ Len(u.data) < Len(w.data) + Len(v) + 21
    BY <2>2, FieldLength
  <2>4. WriteField(After(x, w), f, v) = After(x, u)
    BY <2>2, OwnFieldAfter
  <2>5. Len(w.data) \in Nat /\ Len(u.data) \in Nat
    BY <2>3, WriterParts
  <2> HIDE DEF k, u
  <2>6. Len(u.data) < Len(w.data) + k + 21
    BY <1>0, <2>2, <2>3, <2>5
  <2>7. WriteIfSet(w, f, g) = u
    BY <2>1 DEF u
  <2> QED  BY <2>1, <2>3, <2>4, <2>6, <2>7 DEF k
<1> QED  BY <1>1, <1>2

\* The library's header fields: how long they can be, and that the example reads
\* them all, in front of anything.
LEMMA FieldsAreReadBack ==
    ASSUME NEW g \in FieldMaps, Sized(g), NEW x \in Blocks, Len(x) = HeaderSize
    PROVE  LET all == SerializeFields(g)
               end == HeaderSize + Len(all)
           IN  /\ Len(all) < LengthLimit
               /\ \A d : Begins(Wrote(x \o all, Little), d) =>
                    LET F == Peer!FieldsFrom(d, Little, end)[HeaderSize]
                    IN  F.ok /\ F.val = g /\ F.next = end
<1> DEFINE W(w, f) == WriteIfSet(w, f, g)
           w0 == NewWriter
           w1 == W(w0, Path)
           w2 == W(w1, Interface)
           w3 == W(w2, Member)
           w4 == W(w3, ErrorName)
           w5 == W(w4, Destination)
           w6 == W(w5, Sender)
           w7 == W(w6, ReplySerial)
           w8 == W(w7, UnixFDs)
           w9 == W(w8, Signature)
           all == SerializeFields(g)
           end == HeaderSize + Len(all)
           k == TextLimit + 21
           Written(w, j) == w \in Writer /\ w.endian = Little /\ Len(w.data) <= j * k
<1>1. all = w9.data
  BY DEF SerializeFields
<1>2. /\ Path \in Fields /\ Interface \in Fields /\ Member \in Fields /\ ErrorName \in Fields
      /\ Destination \in Fields /\ Sender \in Fields /\ ReplySerial \in Fields
      /\ UnixFDs \in Fields /\ Signature \in Fields
  BY DEF Fields, StringFields, NumberFields
<1>3. k \in Nat
  BY DEF TextLimit, MaxSize
<1>4. w0 \in Writer /\ w0.data = <<>> /\ w0.endian = Little /\ Len(w0.data) = 0
  <2>1. Little \in Byte
    BY DEF Little, Byte
  <2>2. NewWriter \in Writer
    BY <2>1, NewWriterIsWriter
  <2> QED  BY <2>2 DEF NewWriter
<1>5. ASSUME NEW w \in Writer, w.endian = Little, NEW f \in Fields
      PROVE  /\ W(w, f) \in Writer /\ W(w, f).endian = Little
             /\ Len(W(w, f).data) < Len(w.data) + k
             /\ W(After(x, w), f) = After(x, W(w, f))
  <2> DEFINE u == W(w, f)
  <2>1. /\ u \in Writer /\ u.endian = Little
        /\ Len(u.data) < Len(w.data) + TextLimit + 21
        /\ W(After(x, w), f) = After(x, u)
    BY <1>5, IfSetParts
  <2>2. Len(u.data) \in Nat /\ Len(w.data) \in Nat /\ TextLimit \in Nat
    BY <2>1, WriterParts DEF TextLimit, MaxSize
  <2> HIDE DEF u
  <2> DEFINE t == TextLimit
             y == Len(u.data)
             z == Len(w.data)
  <2>3. y < z + t + 21 /\ y \in Nat /\ z \in Nat /\ t \in Nat
    BY <2>1, <2>2
  <2> HIDE DEF t, y, z
  <2>4. y < z + (t + 21)
    BY <2>3
  <2> QED  BY <2>1, <2>4 DEF u, t, y, z
<1> HIDE DEF W, k
<1>6. ASSUME NEW w, NEW f \in Fields, NEW j \in Nat, Written(w, j)
      PROVE  Written(W(w, f), j + 1) /\ W(After(x, w), f) = After(x, W(w, f))
  <2> DEFINE u == W(w, f)
             y == Len(u.data)
             z == Len(w.data)
  <2>1. /\ w \in Writer /\ w.endian = Little /\ z <= j * k /\ z \in Nat
    BY <1>6, WriterParts
  <2>2. /\ u \in Writer /\ u.endian = Little /\ y < z + k
        /\ W(After(x, w), f) = After(x, u)
    BY <1>5, <2>1
  <2>3. y \in Nat
    BY <2>2, WriterParts
  <2> HIDE DEF y, z
  <2>4. (j + 1) * k = j * k + k /\ j * k \in Nat
    BY <1>3
  <2>5. y <= (j + 1) * k
    BY <1>3, <2>1, <2>2, <2>3, <2>4
  <2> QED  BY <2>2, <2>5 DEF y, u
<1>7. Written(w0, 0)
  <2>1. 0 * k = 0
    BY <1>3
  <2> QED  BY <1>4, <2>1
<1> HIDE DEF Written, w0
<1>8. Written(w1, 1) /\ W(After(x, w0), Path) = After(x, w1)
  <2>1. 0 \in Nat /\ 0 + 1 = 1
    OBVIOUS
  <2>2. Written(W(w0, Path), 0 + 1) /\ W(After(x, w0), Path) = After(x, W(w0, Path))
    BY <1>2, <1>6, <1>7, <2>1
  <2> QED  BY <2>1, <2>2
<1> HIDE DEF w1
<1>9. Written(w2, 2) /\ W(After(x, w1), Interface) = After(x, w2)
  <2>1. 1 \in Nat /\ 1 + 1 = 2
    OBVIOUS
  <2>2. Written(W(w1, Interface), 1 + 1) /\ W(After(x, w1), Interface) = After(x, W(w1, Interface))
    BY <1>2, <1>6, <1>8, <2>1
  <2> QED  BY <2>1, <2>2
<1> HIDE DEF w2
<1>10. Written(w3, 3) /\ W(After(x, w2), Member) = After(x, w3)
  <2>1. 2 \in Nat /\ 2 + 1 = 3
    OBVIOUS
  <2>2. Written(W(w2, Member), 2 + 1) /\ W(After(x, w2), Member) = After(x, W(w2, Member))
    BY <1>2, <1>6, <1>9, <2>1
  <2> QED  BY <2>1, <2>2
<1> HIDE DEF w3
<1>11. Written(w4, 4) /\ W(After(x, w3), ErrorName) = After(x, w4)
  <2>1. 3 \in Nat /\ 3 + 1 = 4
    OBVIOUS
  <2>2. Written(W(w3, ErrorName), 3 + 1) /\ W(After(x, w3), ErrorName) = After(x, W(w3, ErrorName))
    BY <1>2, <1>6, <1>10, <2>1
  <2> QED  BY <2>1, <2>2
<1> HIDE DEF w4
<1>12. Written(w5, 5) /\ W(After(x, w4), Destination) = After(x, w5)
  <2>1. 4 \in Nat /\ 4 + 1 = 5
    OBVIOUS
  <2>2. Written(W(w4, Destination), 4 + 1) /\ W(After(x, w4), Destination) = After(x, W(w4, Destination))
    BY <1>2, <1>6, <1>11, <2>1
  <2> QED  BY <2>1, <2>2
<1> HIDE DEF w5
<1>13. Written(w6, 6) /\ W(After(x, w5), Sender) = After(x, w6)
  <2>1. 5 \in Nat /\ 5 + 1 = 6
    OBVIOUS
  <2>2. Written(W(w5, Sender), 5 + 1) /\ W(After(x, w5), Sender) = After(x, W(w5, Sender))
    BY <1>2, <1>6, <1>12, <2>1
  <2> QED  BY <2>1, <2>2
<1> HIDE DEF w6
<1>14. Written(w7, 7) /\ W(After(x, w6), ReplySerial) = After(x, w7)
  <2>1. 6 \in Nat /\ 6 + 1 = 7
    OBVIOUS
  <2>2. Written(W(w6, ReplySerial), 6 + 1) /\ W(After(x, w6), ReplySerial) = After(x, W(w6, ReplySerial))
    BY <1>2, <1>6, <1>13, <2>1
  <2> QED  BY <2>1, <2>2
<1> HIDE DEF w7
<1>15. Written(w8, 8) /\ W(After(x, w7), UnixFDs) = After(x, w8)
  <2>1. 7 \in Nat /\ 7 + 1 = 8
    OBVIOUS
  <2>2. Written(W(w7, UnixFDs), 7 + 1) /\ W(After(x, w7), UnixFDs) = After(x, W(w7, UnixFDs))
    BY <1>2, <1>6, <1>14, <2>1
  <2> QED  BY <2>1, <2>2
<1> HIDE DEF w8
<1>16. Written(w9, 9) /\ W(After(x, w8), Signature) = After(x, w9)
  <2>1. 8 \in Nat /\ 8 + 1 = 9
    OBVIOUS
  <2>2. Written(W(w8, Signature), 8 + 1) /\ W(After(x, w8), Signature) = After(x, W(w8, Signature))
    BY <1>2, <1>6, <1>15, <2>1
  <2> QED  BY <2>1, <2>2
<1> HIDE DEF w9
<1>17. Len(all) \in Nat /\ Len(all) < LengthLimit /\ end \in Nat
  <2> DEFINE n == Len(all)
  <2>1. w9 \in Writer /\ n <= 9 * k
    BY <1>1, <1>16 DEF Written
  <2>2. n \in Nat
    BY <1>1, <2>1, WriterParts
  <2>3. 9 * k < LengthLimit /\ 9 * k \in Nat /\ LengthLimit \in Nat
    BY DEF k, TextLimit, MaxSize, LengthLimit
  <2> DEFINE l == LengthLimit
  <2> HIDE DEF n, l
  <2>4. n < l
    BY <1>3, <2>1, <2>2, <2>3 DEF l
  <2>5. HeaderSize + n \in Nat
    BY <2>2 DEF HeaderSize
  <2> QED  BY <2>2, <2>4, <2>5 DEF n, l
<1>18. ASSUME NEW d, Begins(Wrote(x \o all, Little), d)
       PROVE  LET F == Peer!FieldsFrom(d, Little, end)[HeaderSize]
              IN  F.ok /\ F.val = g /\ F.next = end
  <2> DEFINE Left(w, S) == FieldsLeft(d, end, g, After(x, w), S)
  <2>1. /\ After(x, w9) = Wrote(x \o all, Little) /\ Begins(After(x, w9), d)
        /\ x \in Seq(Byte) /\ w9 \in Writer
    BY <1>1, <1>16, <1>18 DEF After, Wrote, Written, Blocks
  <2>2. After(x, w9).endian = Little /\ Len(After(x, w9).data) = end
    BY <1>1, <1>16, <2>1, AfterIsWriter DEF Written
  <2>3. d \in Seq(Byte) /\ end <= Len(d) /\ Len(d) \in Nat
    BY <2>1, <2>2 DEF Begins
  <2>4. Left(w9, {})
    <3> DEFINE From == Peer!FieldsFrom(d, Little, end)
    <3>1. end \in 0 .. Len(d) /\ Little \in Byte
      BY <1>17, <2>3 DEF Little, Byte
    <3>2. From[end] = FromHere(d, Little, end, From, end)
      BY <2>3, <3>1, FieldsFromHere
    <3> HIDE DEF From, end
    <3>3. From[end] = Peer!Read(<<>>, end)
      BY <1>17, <3>2 DEF FromHere
    <3>4. Restricted(g, {}) = <<>>
      <4>1. DOMAIN g \cap {} = {}
        OBVIOUS
      <4>2. Restricted(g, {}) = [f \in {} |-> g[f]]
        BY <4>1 DEF Restricted
      <4> QED  BY <4>2
    <3>5. From[end].ok /\ From[end].val = Restricted(g, {}) /\ From[end].next = end
      BY <3>3, <3>4 DEF Peer!Read
    <3>6. end <= end
      BY <1>17
    <3> QED  BY <2>1, <2>2, <3>5, <3>6 DEF FieldsLeft, From
  <2>5. ASSUME NEW w, NEW u, NEW f \in Fields, NEW j, NEW S, Written(w, j),
               W(After(x, w), f) = After(x, u), Left(u, S)
        PROVE  Left(w, S \cup {f})
    <3>1. After(x, w) \in Writer /\ After(x, w).endian = Little
      BY <2>1, <2>5, AfterIsWriter DEF Written
    <3>2. FieldsLeft(d, end, g, WriteIfSet(After(x, w), f, g), S)
      BY <2>5 DEF W
    <3> HIDE DEF end
    <3> QED  BY <1>17, <2>3, <3>1, <3>2, OneFieldMore
  <2> HIDE DEF Left
  <2> DEFINE S0 == {}
             S1 == S0 \cup {Signature}
             S2 == S1 \cup {UnixFDs}
             S3 == S2 \cup {ReplySerial}
             S4 == S3 \cup {Sender}
             S5 == S4 \cup {Destination}
             S6 == S5 \cup {ErrorName}
             S7 == S6 \cup {Member}
             S8 == S7 \cup {Interface}
             S9 == S8 \cup {Path}
  <2>6. DOMAIN g \cap S9 = DOMAIN g
    BY FieldMapParts DEF Fields, StringFields, NumberFields
  <2>7. Left(w9, S0)
    BY <2>4
  <2> HIDE DEF S0, S1, S2, S3, S4, S5, S6, S7, S8, S9
  <2>8. Left(w8, S1)
    BY <1>2, <1>15, <1>16, <2>5, <2>7 DEF S1
  <2>9. Left(w7, S2)
    BY <1>2, <1>14, <1>15, <2>5, <2>8 DEF S2
  <2>10. Left(w6, S3)
    BY <1>2, <1>13, <1>14, <2>5, <2>9 DEF S3
  <2>11. Left(w5, S4)
    BY <1>2, <1>12, <1>13, <2>5, <2>10 DEF S4
  <2>12. Left(w4, S5)
    BY <1>2, <1>11, <1>12, <2>5, <2>11 DEF S5
  <2>13. Left(w3, S6)
    BY <1>2, <1>10, <1>11, <2>5, <2>12 DEF S6
  <2>14. Left(w2, S7)
    BY <1>2, <1>9, <1>10, <2>5, <2>13 DEF S7
  <2>15. Left(w1, S8)
    BY <1>2, <1>8, <1>9, <2>5, <2>14 DEF S8
  <2>16. Left(w0, S9)
    BY <1>2, <1>7, <1>8, <2>5, <2>15 DEF S9
  <2>17. After(x, w0) \in Writer /\ Len(After(x, w0).data) = HeaderSize
    <3>1. w0 \in Writer /\ w0.data = <<>>
      BY <1>4, <1>7 DEF w0, Written
    <3>2. Len(w0.data) = 0
      BY <3>1
    <3>3. Len(After(x, w0).data) = Len(x) + Len(w0.data)
      BY <2>1, <3>1, AfterIsWriter
    <3> QED  BY <2>1, <3>1, <3>2, <3>3, AfterIsWriter DEF HeaderSize
  <2>18. Restricted(g, S9) = g
    <3>1. Restricted(g, S9) = [f \in DOMAIN g |-> g[f]]
      BY <2>6 DEF Restricted
    <3> QED  BY <3>1, MapIsMap
  <2> HIDE DEF end
  <2> QED  BY <2>16, <2>17, <2>18 DEF Left, FieldsLeft
<1> QED  BY <1>17, <1>18

\* The bytes s start with the fixed header h.
StartsWith(s, h) ==
    /\ s \in Seq(Byte) /\ Len(s) >= 16
    /\ s[1] = h.endian /\ s[2] = h.type /\ s[3] = h.flags /\ s[4] = h.version
    /\ SubSeq(s, 5, 8) = h.bodyLen /\ SubSeq(s, 9, 12) = h.serial
    /\ SubSeq(s, 13, 16) = h.fieldsLen

LEMMA HeaderStarts ==
    ASSUME NEW h \in Headers, h.endian = Little, h.version = 1
    PROVE  StartsWith(SerializeFixed(h), h)
<1> DEFINE d == SerializeFixed(h)
           read == ReadFixedHeader(NewReader(d))
<1>1. d \in Seq(Byte) /\ Len(d) = HeaderSize
  BY SerializeFixedIsBytes
<1>2. read = Got([h EXCEPT !.valid = TRUE], Advance(NewReader(d), HeaderSize))
  BY HeaderComesBack
<1> HIDE DEF d
<1>3. /\ read.val.endian = d[1] /\ read.val.type = d[2] /\ read.val.flags = d[3]
      /\ read.val.version = d[4]
      /\ read.val.valid =>
           /\ read.val.bodyLen = SubSeq(d, 5, 8) /\ read.val.serial = SubSeq(d, 9, 12)
           /\ read.val.fieldsLen = SubSeq(d, 13, 16)
  BY <1>1, FixedHeaderIsRead
<1> HIDE DEF read
<1>4. read.val = [h EXCEPT !.valid = TRUE]
  BY <1>2 DEF Got
<1>5. /\ read.val.endian = h.endian /\ read.val.type = h.type /\ read.val.flags = h.flags
      /\ read.val.version = h.version /\ read.val.bodyLen = h.bodyLen
      /\ read.val.serial = h.serial /\ read.val.fieldsLen = h.fieldsLen /\ read.val.valid
  BY <1>4 DEF Headers
<1>6. Len(d) >= 16
  BY <1>1 DEF HeaderSize
<1> QED  BY <1>1, <1>3, <1>5, <1>6 DEF StartsWith, d

LEMMA WordsOfHeader == \A k \in {4, 8, 12}, i \in 1 .. 4 : k + i \in 1 .. 16
OBVIOUS

\* What goes on after the header starts with it too.
LEMMA StartsOn ==
    ASSUME NEW h \in Headers, NEW s, StartsWith(s, h), NEW u \in Seq(Byte),
           Len(s) <= Len(u), \A i \in 1 .. Len(s) : u[i] = s[i]
    PROVE  StartsWith(u, h)
<1>1. s \in Seq(Byte) /\ Len(s) \in Nat /\ Len(u) \in Nat /\ Len(s) >= 16 /\ Len(u) >= 16
  <2>1. s \in Seq(Byte) /\ Len(s) >= 16
    BY Zenon DEF StartsWith
  <2>2. Len(s) \in Nat /\ Len(u) \in Nat
    BY <2>1
  <2> QED  BY <2>1, <2>2
<1>2. \A i \in 1 .. 16 : i \in 1 .. Len(s) /\ i \in 1 .. Len(u) /\ u[i] = s[i]
  BY <1>1
<1>3. u[1] = s[1] /\ u[2] = s[2] /\ u[3] = s[3] /\ u[4] = s[4]
  BY <1>2
<1>4. ASSUME NEW k \in {4, 8, 12}, NEW w \in Word, SubSeq(s, k + 1, k + 4) = w
      PROVE  SubSeq(u, k + 1, k + 4) = w
  <2>1. \A i \in 1 .. 4 : SubSeq(s, k + 1, k + 4)[i] = s[k + i]
    BY <1>1
  <2>2. ASSUME NEW i \in 1 .. 4
        PROVE  u[k + i] = w[i]
    <3>1. k + i \in 1 .. 16
      BY Zenon, WordsOfHeader
    <3>2. u[k + i] = s[k + i]
      BY Zenon, <1>2, <3>1
    <3>3. SubSeq(s, k + 1, k + 4)[i] = s[k + i]
      BY Zenon, <2>1
    <3> QED  BY Zenon, <1>4, <3>2, <3>3
  <2>3. k \in Nat /\ k + 4 <= Len(u)
    BY <1>1
  <2> QED  BY <2>2, <2>3, WordAt
<1>5. h.bodyLen \in Word /\ h.serial \in Word /\ h.fieldsLen \in Word
  BY DEF Headers
<1>6. SubSeq(u, 5, 8) = h.bodyLen
  <2>1. 4 + 1 = 5 /\ 4 + 4 = 8
    OBVIOUS
  <2>2. SubSeq(s, 4 + 1, 4 + 4) = h.bodyLen
    BY <2>1 DEF StartsWith
  <2>3. SubSeq(u, 4 + 1, 4 + 4) = h.bodyLen
    BY <1>4, <1>5, <2>2
  <2> QED  BY <2>1, <2>3
<1>7. SubSeq(u, 9, 12) = h.serial
  <2>1. 8 + 1 = 9 /\ 8 + 4 = 12
    OBVIOUS
  <2>2. SubSeq(s, 8 + 1, 8 + 4) = h.serial
    BY <2>1 DEF StartsWith
  <2>3. SubSeq(u, 8 + 1, 8 + 4) = h.serial
    BY <1>4, <1>5, <2>2
  <2> QED  BY <2>1, <2>3
<1>8. SubSeq(u, 13, 16) = h.fieldsLen
  <2>1. 12 + 1 = 13 /\ 12 + 4 = 16
    OBVIOUS
  <2>2. SubSeq(s, 12 + 1, 12 + 4) = h.fieldsLen
    BY <2>1 DEF StartsWith
  <2>3. SubSeq(u, 12 + 1, 12 + 4) = h.fieldsLen
    BY <1>4, <1>5, <2>2
  <2> QED  BY <2>1, <2>3
<1> QED  BY <1>1, <1>3, <1>6, <1>7, <1>8 DEF StartsWith

\* The numbers of such a header, as the example reads them.
LEMMA HeaderNumbers ==
    ASSUME NEW h, h.endian = Little, NEW s, StartsWith(s, h)
    PROVE  /\ Peer!HeaderNumber(s, 4) = h.bodyLen /\ Peer!HeaderNumber(s, 8) = h.serial
           /\ Peer!HeaderNumber(s, 12) = h.fieldsLen
<1>1. \A w : Peer!InOrder(Little, w) = w
  BY PeerVocabulary DEF InOrder, Little, Big
<1>2. s[1] = Little
  BY DEF StartsWith
<1>3. /\ SubSeq(s, 5, 8) = h.bodyLen /\ SubSeq(s, 9, 12) = h.serial
      /\ SubSeq(s, 13, 16) = h.fieldsLen
  BY DEF StartsWith
<1>4. Peer!HeaderNumber(s, 4) = h.bodyLen
  <2>1. 4 + 1 = 5 /\ 4 + 4 = 8
    OBVIOUS
  <2> QED  BY Zenon, <1>1, <1>2, <1>3, <2>1 DEF Peer!HeaderNumber
<1>5. Peer!HeaderNumber(s, 8) = h.serial
  <2>1. 8 + 1 = 9 /\ 8 + 4 = 12
    OBVIOUS
  <2> QED  BY Zenon, <1>1, <1>2, <1>3, <2>1 DEF Peer!HeaderNumber
<1>6. Peer!HeaderNumber(s, 12) = h.fieldsLen
  <2>1. 12 + 1 = 13 /\ 12 + 4 = 16
    OBVIOUS
  <2> QED  BY Zenon, <1>1, <1>2, <1>3, <2>1 DEF Peer!HeaderNumber
<1> QED  BY <1>4, <1>5, <1>6

\* A message that may be sent, as it is on the wire.
Ready(m) ==
    /\ m \in Messages /\ m = WithLengths(m) /\ Sized(m.fields)
    /\ m.fixed.endian = Little /\ m.fixed.version = 1

LEMMA ReadyParts ==
    ASSUME NEW m, Ready(m)
    PROVE  LET d   == Serialize(m)
               n   == Len(SerializeFields(m.fields))
               end == HeaderSize + n
               F   == Peer!FieldsFrom(d, Little, end)[HeaderSize]
           IN  /\ m.fixed \in Headers /\ m.fields \in FieldMaps
               /\ n \in Nat /\ n < LengthLimit
               /\ m.fixed.fieldsLen = UInt32(n) /\ m.fixed.bodyLen = UInt32(0)
               /\ StartsWith(d, m.fixed) /\ Len(d) = AlignedTo(end, 8) /\ end <= Len(d)
               /\ F.ok /\ F.val = m.fields /\ F.next = end
<1> DEFINE g == m.fields
           h == m.fixed
           d == Serialize(m)
           fixed == SerializeFixed(h)
           all == SerializeFields(g)
           n == Len(all)
           end == HeaderSize + n
           padding == Zeros(HeaderPadding(n))
           head == fixed \o all
           x == Wrote(head, Little)
<1>1. m \in Messages /\ h \in Headers /\ g \in FieldMaps
  BY MessageParts DEF Ready
<1>2. fixed \in Seq(Byte) /\ Len(fixed) = HeaderSize
  BY <1>1, SerializeFixedIsBytes
<1>3. fixed \in Blocks
  <2> HIDE DEF fixed
  <2>1. 16 % 8 = 0
    OBVIOUS
  <2> QED  BY <1>2, <2>1 DEF Blocks, HeaderSize
<1>4. all \in Seq(Byte) /\ n \in Nat
  BY <1>1, FieldsAreBytes
<1>5. Len(WrittenBody) = 0 /\ WrittenBody \in Seq(Byte)
  BY DEF WrittenBody
<1>6. h.fieldsLen = UInt32(n) /\ h.bodyLen = UInt32(0)
  <2>1. WithLengths(m).fixed.fieldsLen = UInt32(n) /\ WithLengths(m).fixed.bodyLen = UInt32(0)
    BY <1>1, <1>5 DEF WithLengths, Messages, Headers
  <2>2. WithLengths(m) = m
    BY DEF Ready
  <2> QED  BY Zenon, <2>1, <2>2
<1>7. d = (head \o padding) \o WrittenBody
  BY DEF Serialize, Ready
<1>8. padding \in Seq(Byte) /\ Len(padding) = HeaderPadding(n) /\ HeaderPadding(n) \in Nat
  BY <1>4, PaddedHeader, ZerosAreBytes
<1>9. StartsWith(fixed, h)
  BY <1>1, HeaderStarts DEF Ready
<1>10. AlignedTo(end, 8) = end + HeaderPadding(n) /\ end \in Nat
  <2>1. AlignedTo(HeaderSize + n, 8) = HeaderSize + n + HeaderPadding(n)
    BY <1>4, PaddedHeader
  <2> QED  BY <1>4, <2>1 DEF HeaderSize
<1>11. /\ n < LengthLimit
       /\ \A s : Begins(x, s) =>
            LET F == Peer!FieldsFrom(s, Little, end)[HeaderSize]
            IN  F.ok /\ F.val = g /\ F.next = end
  <2>1. Sized(g)
    BY DEF Ready
  <2> HIDE DEF fixed
  <2> QED  BY <1>1, <1>2, <1>3, <2>1, FieldsAreReadBack
<1> HIDE DEF fixed, all, n, padding, d
<1>12. IsJoin(head, fixed, all, HeaderSize, n)
  BY <1>2, <1>4, Joined DEF HeaderSize, n
<1>13. head \in Seq(Byte) /\ Len(head) = end /\ \A i \in 1 .. HeaderSize : head[i] = fixed[i]
  BY <1>12 DEF IsJoin
<1> HIDE DEF head
<1> DEFINE z == head \o padding
<1>14. IsJoin(z, head, padding, end, HeaderPadding(n))
  BY <1>8, <1>10, <1>13, Joined
<1>15. z \in Seq(Byte) /\ Len(z) = end + HeaderPadding(n) /\ \A i \in 1 .. end : z[i] = head[i]
  BY <1>14 DEF IsJoin
<1>16. d = z \o WrittenBody
  BY <1>7
<1> HIDE DEF z
<1>17. d = z
  <2>1. z \o <<>> = z
    BY <1>15
  <2> QED  BY <1>16, <2>1 DEF WrittenBody
<1>18. d \in Seq(Byte) /\ Len(d) = AlignedTo(end, 8) /\ end <= Len(d)
  <2>1. end <= end + HeaderPadding(n)
    BY <1>8, <1>10
  <2> QED  BY <1>10, <1>15, <1>17, <2>1
<1>19. StartsWith(d, h)
  <2>1. \A i \in 1 .. HeaderSize : d[i] = fixed[i]
    <3>1. \A i \in 1 .. HeaderSize : i \in 1 .. end
      BY <1>4 DEF HeaderSize
    <3> QED  BY <1>13, <1>15, <1>17, <3>1
  <2>2. HeaderSize <= Len(d)
    <3>1. HeaderSize <= end
      BY <1>4 DEF HeaderSize
    <3> HIDE DEF end
    <3>2. Len(d) \in Nat /\ HeaderSize \in Nat
      BY <1>18 DEF HeaderSize
    <3> QED  BY <1>10, <1>18, <3>1, <3>2
  <2> QED  BY <1>1, <1>2, <1>9, <1>18, <2>1, <2>2, StartsOn
<1>20. Begins(x, d)
  <2>1. x \in Writer /\ x.data = head
    BY <1>13, WroteIsWriter DEF Little, Byte
  <2> HIDE DEF x, end
  <2> QED  BY <1>13, <1>15, <1>17, <1>18, <2>1 DEF Begins
<1>21. LET F == Peer!FieldsFrom(d, Little, end)[HeaderSize]
       IN  F.ok /\ F.val = g /\ F.next = end
  BY <1>11, <1>20
<1> HIDE DEF end
<1>22. LET F == Peer!FieldsFrom(d, Little, end)[HeaderSize]
       IN  /\ h \in Headers /\ g \in FieldMaps /\ n \in Nat /\ n < LengthLimit
           /\ h.fieldsLen = UInt32(n) /\ h.bodyLen = UInt32(0)
           /\ StartsWith(d, h) /\ Len(d) = AlignedTo(end, 8) /\ end <= Len(d)
           /\ F.ok /\ F.val = g /\ F.next = end
  BY <1>1, <1>4, <1>6, <1>11, <1>18, <1>19, <1>21
<1> QED  BY <1>22 DEF d, n, all, end

\* What the example's parser makes of a message of the library.
LEMMA ReadyIsParsed ==
    ASSUME NEW m, Ready(m)
    PROVE  LET d  == Serialize(m)
               ex == Peer!Parse(d)
           IN  /\ ex.ok /\ ex.type = m.fixed.type /\ ex.flags = m.fixed.flags
               /\ ex.serial = m.fixed.serial /\ ex.fields = m.fields /\ ex.body = <<>>
<1> DEFINE d == Serialize(m)
           ex == Peer!Parse(d)
           h == m.fixed
           g == m.fields
           n == Len(SerializeFields(m.fields))
           end == HeaderSize + n
           F == Peer!FieldsFrom(d, Little, end)[HeaderSize]
           start == AlignedTo(end, 8)
           H(p) == Peer!HeaderNumber(d, p)
           j == LengthLimit
<1>1. /\ h \in Headers /\ n \in Nat /\ n < j
      /\ h.fieldsLen = UInt32(n) /\ h.bodyLen = UInt32(0)
      /\ StartsWith(d, h) /\ Len(d) = start /\ end <= Len(d)
      /\ F.ok /\ F.val = g /\ F.next = end
  BY ReadyParts
<1>2. h.endian = Little /\ h.version = 1
  BY DEF Ready
<1>3. 0 < j
  BY DEF LengthLimit
<1>4. F = Peer!FieldsFrom(d, Little, 16 + n)[16] /\ end = 16 + n
  BY DEF HeaderSize
<1> HIDE DEF d, n, F, start, j, end
<1>6. Peer!Number(UInt32(n)) = n /\ Peer!Number(UInt32(0)) = 0
  <2>1. Number(UInt32(n)) = n /\ Number(UInt32(0)) = 0
    BY SMT, <1>1, <1>3, UInt32IsWord DEF j
  <2> QED  BY <2>1, PeerWords
<1>7. H(4) = UInt32(0) /\ H(8) = h.serial /\ H(12) = UInt32(n)
  BY <1>1, <1>2, HeaderNumbers
<1> HIDE DEF H
<1>8. /\ d \in Seq(Byte) /\ Len(d) >= 16
      /\ d[1] = Little /\ d[2] = h.type /\ d[3] = h.flags /\ d[4] = 1
  BY <1>1, <1>2 DEF StartsWith
<1>9. /\ Len(d) \in Nat /\ 16 + n <= Len(d) /\ ~(start > Len(d)) /\ ~(start + 0 > Len(d))
      /\ Peer!Number(Peer!HeaderNumber(d, 12)) = n /\ Peer!Number(Peer!HeaderNumber(d, 4)) = 0
  <2>1. Peer!Number(Peer!HeaderNumber(d, 12)) = n /\ Peer!Number(Peer!HeaderNumber(d, 4)) = 0
    BY Zenon, <1>6, <1>7 DEF H
  <2>2. Len(d) \in Nat
    BY <1>8
  <2>3. start \in Nat /\ start + 0 = start
    BY <1>1, <2>2
  <2> QED  BY <1>1, <1>4, <2>1, <2>2, <2>3
<1>10. AlignedTo(F.next, 8) = start
  BY <1>1 DEF start
<1>11. ex = [ok |-> TRUE, endian |-> d[1], type |-> d[2], flags |-> d[3], serial |-> H(8),
             fields |-> F.val, body |-> SubSeq(d, start + 1, start + 0)]
  <2>1. 0 \in Nat
    OBVIOUS
  <2>2. ex = IF d[4] # 1 THEN Peer!Thrown
             ELSE IF ~F.ok THEN F
             ELSE IF start > Len(d) \/ start + 0 > Len(d) THEN Peer!Thrown
             ELSE [ok |-> TRUE, endian |-> d[1], type |-> d[2], flags |-> d[3], serial |-> H(8),
                   fields |-> F.val, body |-> SubSeq(d, start + 1, start + 0)]
    <3> DEFINE f == Peer!FieldsFrom(d, Little, 16 + n)[16]
               a == AlignedTo(f.next, 8)
    <3>1. ex = IF d[4] # 1 THEN Peer!Thrown
               ELSE IF ~f.ok THEN f
               ELSE IF a > Len(d) \/ a + 0 > Len(d) THEN Peer!Thrown
               ELSE [ok |-> TRUE, endian |-> d[1], type |-> d[2], flags |-> d[3], serial |-> H(8),
                     fields |-> f.val, body |-> SubSeq(d, a + 1, a + 0)]
      BY <1>1, <1>8, <1>9, <2>1, ParseSteps DEF H
    <3>2. f = F
      BY <1>4
    <3> HIDE DEF f, ex, H
    <3>3. a = start
      BY <1>10, <3>2
    <3> HIDE DEF a
    <3> QED  BY Zenon, <3>1, <3>2, <3>3
  <2> QED  BY Zenon, <1>1, <1>8, <1>9, <2>2
<1> HIDE DEF ex
<1>12. SubSeq(d, start + 1, start + 0) = <<>>
  BY <1>1, <1>8, <1>9
<1>13. /\ ex.ok /\ ex.type = h.type /\ ex.flags = h.flags
       /\ ex.serial = h.serial /\ ex.fields = g /\ ex.body = <<>>
  BY <1>1, <1>7, <1>8, <1>11, <1>12
<1> QED  BY <1>13 DEF ex, d

\* The example takes such a message, and no more, from a stream that goes on.
LEMMA ReadyIsTaken ==
    ASSUME NEW m, Ready(m), NEW more \in Seq(Byte)
    PROVE  LET d == Serialize(m)
           IN  Peer!ReadMessage(d \o more) = Peer!Read(Peer!Parse(d), Len(d))
<1> DEFINE d == Serialize(m)
           h == m.fixed
           n == Len(SerializeFields(m.fields))
           end == HeaderSize + n
           stream == d \o more
           H(p) == Peer!HeaderNumber(stream, p)
           i == Len(d)
           k == Len(more)
           j == LengthLimit
<1>1. /\ h \in Headers /\ n \in Nat /\ n < j
      /\ h.fieldsLen = UInt32(n) /\ h.bodyLen = UInt32(0)
      /\ StartsWith(d, h) /\ i = AlignedTo(end, 8)
  BY ReadyParts
<1>2. h.endian = Little
  BY DEF Ready
<1>3. 0 < j
  BY DEF LengthLimit
<1>4. Peer!AlignedTo(16 + n, 8) = i
  BY <1>1, PeerVocabulary DEF HeaderSize
<1>5. d \in Seq(Byte) /\ i >= 16
  BY <1>1 DEF StartsWith
<1> HIDE DEF d, n, j
<1>6. i \in Nat /\ k \in Nat
  BY <1>5
<1>7. IsJoin(stream, d, more, i, k)
  BY <1>5, <1>6, Joined
<1> HIDE DEF i, k, stream
<1>8. stream \in Seq(Byte) /\ Len(stream) = i + k /\ \A x \in 1 .. i : stream[x] = d[x]
  BY <1>7 DEF IsJoin
<1>9. Len(stream) \in Nat /\ ~(Len(stream) < 16) /\ ~(i > Len(stream)) /\ i <= Len(stream)
  BY <1>5, <1>6, <1>8
<1>10. StartsWith(stream, h)
  <2>1. Len(d) <= Len(stream) /\ \A x \in 1 .. Len(d) : stream[x] = d[x]
    BY <1>8, <1>9 DEF i
  <2> QED  BY <1>1, <1>8, <2>1, StartsOn
<1>11. H(4) = UInt32(0) /\ H(12) = UInt32(n)
  BY <1>1, <1>2, <1>10, HeaderNumbers
<1>12. stream[1] = Little
  BY <1>2, <1>10 DEF StartsWith
<1>13. Peer!Number(UInt32(n)) = n /\ Peer!Number(UInt32(0)) = 0
  <2>1. Number(UInt32(n)) = n /\ Number(UInt32(0)) = 0
    BY SMT, <1>1, <1>3, UInt32IsWord DEF j
  <2> QED  BY <2>1, PeerWords
<1>14. SubSeq(stream, 1, i) = d
  <2>1. \A x \in 1 .. i : x \in 1 .. Len(stream)
    BY <1>6, <1>9
  <2>2. Len(d) = i
    BY DEF i
  <2> QED  BY <1>5, <1>6, <1>8, <1>9, <2>1, <2>2
<1> HIDE DEF H
<1>15. i + 0 = i
  BY <1>6
<1>16. Peer!ReadMessage(stream) =
         IF Len(stream) < 16 THEN Peer!Thrown
         ELSE IF stream[1] \notin {Little, Big} THEN Peer!Thrown
         ELSE IF i > Len(stream) THEN Peer!Thrown
         ELSE Peer!Read(Peer!Parse(SubSeq(stream, 1, i)), i)
  BY <1>4, <1>11, <1>13, <1>15, PeerWords DEF Peer!ReadMessage, H
<1>17. Peer!ReadMessage(stream) = Peer!Read(Peer!Parse(d), i)
  BY <1>9, <1>12, <1>14, <1>16
<1> QED  BY <1>17 DEF stream, i, d

\* Every message the library has sent in little-endian order, a program's own or
\* one received in that order, is whole for the example: read_message finds its
\* end in the stream with another message behind it, and Message::parse gives the
\* type, the flags, the serial and the fields the program had set. The theorem
\* says nothing of a received big-endian message that is sent on: serialize
\* writes its fixed header big-endian and its fields little-endian.
THEOREM SentIsReadByExample == Spec => []SentIsRead
<1>1. CodecInv /\ Sendable => SentIsRead
  <2> SUFFICES ASSUME CodecInv, Sendable, phase = "sent", msg.fixed.endian = Little
               PROVE  LET read == Peer!ReadMessage(wire \o SerializeFixed(NewFixedHeader))
                          ex   == read.val
                      IN  /\ read.ok /\ read.next = Len(wire)
                          /\ ex.ok
                          /\ ex.type = msg.fixed.type /\ ex.flags = msg.fixed.flags
                          /\ ex.serial = msg.fixed.serial
                          /\ ex.fields = msg.fields
                          /\ ex.body = <<>>
    BY DEF SentIsRead
  <2>1. msg \in Messages
    BY DEF CodecInv, Typed
  <2>2. Ready(msg) /\ wire = Serialize(msg)
    BY <2>1 DEF Sendable, Ready
  <2> DEFINE more == SerializeFixed(NewFixedHeader)
             read == Peer!ReadMessage(Serialize(msg) \o more)
             ex == Peer!Parse(Serialize(msg))
  <2>3. more \in Seq(Byte)
    BY NewMessageIsMessage, SerializeFixedIsBytes
  <2>4. /\ ex.ok /\ ex.type = msg.fixed.type /\ ex.flags = msg.fixed.flags
        /\ ex.serial = msg.fixed.serial /\ ex.fields = msg.fields /\ ex.body = <<>>
    BY <2>2, ReadyIsParsed
  <2> HIDE DEF more
  <2>5. read = Peer!Read(ex, Len(Serialize(msg)))
    BY <2>2, <2>3, ReadyIsTaken
  <2> HIDE DEF read, ex
  <2>6. read.ok /\ read.val = ex /\ read.next = Len(Serialize(msg))
    BY <2>5 DEF Peer!Read
  <2> QED  BY <2>2, <2>4, <2>6 DEF read, more
<1> QED  BY <1>1, CodecInvariant, SendableInvariant, PTL

============================================================================
