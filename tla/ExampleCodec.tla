---------------------------- MODULE ExampleCodec ----------------------------
(***************************************************************************)
(* The other implementation of the wire format in the repository: Reader,  *)
(* Writer and Message of examples/dbus/dbus-message.h, and read_message of *)
(* examples/dbus/main.cpp. An exception is a result that is not ok. Here   *)
(* it stands for the peers of the library: what they write, and how they   *)
(* read what the library writes.                                           *)
(***************************************************************************)
EXTENDS Wire

Read(v, next) == [ok |-> TRUE, val |-> v, next |-> next]
Thrown        == [ok |-> FALSE, overrun |-> FALSE]

\* The read does not stop at the end of the bytes: undefined behaviour.
Overrun == [ok |-> FALSE, overrun |-> TRUE]

\* Go on with the value of a read, from where it stopped.
Then(read, Use(_, _)) == IF read.ok THEN Use(read.val, read.next) ELSE read

----------------------------------------------------------------------------
(* Reader: a read at offset p of the bytes d, in the byte order e *)

\* n characters and a NUL
TextAt(d, p, n) ==
    IF p + n < Len(d) /\ d[p + n + 1] = 0
    THEN Read(SubSeq(d, p + 1, p + n), p + n + 1) ELSE Thrown

SignatureAt(d, p) == IF p < Len(d) THEN TextAt(d, p + 1, d[p + 1]) ELSE Thrown

UInt32At(d, e, p) ==
    LET a == AlignedTo(p, 4)
    IN  IF a + 4 <= Len(d) THEN Read(InOrder(e, SubSeq(d, a + 1, a + 4)), a + 4)
        ELSE Thrown

\* len + 1 wraps here, too.
StringAt(d, e, p) ==
    Then(UInt32At(d, e, p), LAMBDA len, at :
        IF len = MaxUInt32 THEN Overrun ELSE TextAt(d, at, Number(len)))

----------------------------------------------------------------------------
(* Message::parse *)

\* parse_header_field: the fields it sets, none or one, and where it stops.
FieldAt(d, e, p) ==
    LET Keep(known, read) == Then(read, LAMBDA v, next :
            Read([f \in {d[p + 1]} \cap known |-> v], next))
    IN  Then(SignatureAt(d, p + 1), LAMBDA sig, at :
            CASE sig \in {<<CharS>>, <<CharO>>} -> Keep(StringFields, StringAt(d, e, at))
              [] sig = <<CharG>> -> Keep({Signature}, SignatureAt(d, at))
              [] sig = <<CharU>> -> Keep(NumberFields, UInt32At(d, e, at))
              [] OTHER           -> Read(<<>>, at))

\* What the fields "rest" say replaces what the earlier fields "first" say.
Over(rest, first) ==
    [f \in DOMAIN rest \cup DOMAIN first |-> IF f \in DOMAIN rest THEN rest[f] ELSE first[f]]

\* The fields from each offset on, and where they stop.
FieldsFrom(d, e, end) ==
    LET From[p \in 0 .. Len(d)] ==
            LET a == AlignedTo(p, 8)
            IN  IF p >= end THEN Read(<<>>, p)
                ELSE IF a > Len(d) THEN Thrown
                ELSE IF a >= end THEN Read(<<>>, a)
                ELSE Then(FieldAt(d, e, a), LAMBDA field, next :
                         Then(From[next], LAMBDA rest, stop :
                             Read(Over(rest, field), stop)))
    IN  From

\* The numbers of a header of 16 bytes.
HeaderNumber(d, p) == InOrder(d[1], SubSeq(d, p + 1, p + 4))

Parse(d) ==
    IF Len(d) < 16 THEN Thrown
    ELSE IF d[1] \notin {Little, Big} \/ d[4] # 1 THEN Thrown
    ELSE LET end == 16 + Number(HeaderNumber(d, 12))
         IN  IF end > Len(d) THEN Thrown
             ELSE Then(FieldsFrom(d, d[1], end)[16], LAMBDA fields, at :
                 LET start == AlignedTo(at, 8)
                     stop  == start + Number(HeaderNumber(d, 4))
                 IN  IF start > Len(d) \/ stop > Len(d) THEN Thrown
                     ELSE [ok |-> TRUE, endian |-> d[1], type |-> d[2],
                           flags |-> d[3], serial |-> HeaderNumber(d, 8),
                           fields |-> fields, body |-> SubSeq(d, start + 1, stop)])

\* read_message: the first message of a stream, and where it ends.
\* Not ok if the stream ends or blocks before that.
ReadMessage(stream) ==
    IF Len(stream) < 16 THEN Thrown
    ELSE IF stream[1] \notin {Little, Big} THEN Thrown
    ELSE LET total == AlignedTo(16 + Number(HeaderNumber(stream, 12)), 8)
                      + Number(HeaderNumber(stream, 4))
         IN  IF total > Len(stream) THEN Thrown
             ELSE Read(Parse(SubSeq(stream, 1, total)), total)

----------------------------------------------------------------------------
(* Writer and Message::serialize *)

Aligned(b, a) == b \o Zeros(AlignedTo(Len(b), a) - Len(b))

\* write_u8 to write_signature: the value v of the type t after the bytes b.
Write(e, b, t, v) ==
    CASE t = CharY -> Append(b, v)
      [] t \in {CharS, CharO} ->
            Aligned(b, 4) \o InOrder(e, UInt32(Len(v))) \o v \o <<0>>
      [] t = CharG -> b \o <<Len(v)>> \o v \o <<0>>
      [] OTHER     -> Aligned(b, Len(v)) \o InOrder(e, v)

\* The bytes after each of the values; a value is <<type, value>>.
WriteAll(e, values) ==
    LET Written[n \in 0 .. Len(values)] ==
            IF n = 0 THEN <<>>
            ELSE Write(e, Written[n - 1], values[n][1], values[n][2])
    IN  Written

\* write_string_field and the like: the type t and the value v of the field f.
WriteField(e, b, f, t, v) ==
    Write(e, Write(e, Append(Aligned(b, 8), f), CharG, <<t>>), t, v)

\* The bytes after each of the fields; a field is <<code, type, value>>.
WriteFields(e, list) ==
    LET Written[n \in 0 .. Len(list)] ==
            IF n = 0 THEN <<>>
            ELSE WriteField(e, Written[n - 1], list[n][1], list[n][2], list[n][3])
    IN  Written

FieldOrder == <<Path, Interface, Member, ErrorName, ReplySerial, Destination,
                Sender, Signature, UnixFDs>>

TypeOf(f) == CASE f = Path                    -> CharO
               [] f \in StringFields \ {Path} -> CharS
               [] f \in NumberFields          -> CharU
               [] f = Signature               -> CharG

OwnFields(fields) ==
    LET present == SelectSeq(FieldOrder, LAMBDA f : f \in DOMAIN fields)
    IN  [i \in DOMAIN present |-> <<present[i], TypeOf(present[i]), fields[present[i]]>>]

\* The bytes of the message m with the fields of "list".
Encode(m, list) ==
    LET fields == WriteFields(m.endian, list)[Len(list)]
        U(v)   == InOrder(m.endian, v)
    IN  <<m.endian, m.type, m.flags, 1>>
        \o U(UInt32(Len(m.body))) \o U(m.serial) \o U(UInt32(Len(fields)))
        \o Aligned(fields, 8) \o m.body

Serialize(m) == Encode(m, OwnFields(m.fields))

============================================================================
