------------------------------ MODULE Marshal ------------------------------
(***************************************************************************)
(* MessagePrivate::Reader and MessagePrivate::Writer (dbus/message.cpp):   *)
(* values in a buffer of bytes, each aligned to its size.                  *)
(***************************************************************************)
EXTENDS Wire

----------------------------------------------------------------------------
(* Reader: [data, pos, endian]. A read returns an optional value and leaves *)
(* a reader, also when there is no value.                                   *)

NewReader(bytes) == [data |-> bytes, pos |-> 0, endian |-> Little]

Got(v, r)  == [ok |-> TRUE, val |-> v, r |-> r]
Nothing(r) == [ok |-> FALSE, r |-> r, overrun |-> FALSE]

\* The read does not stop at the end of the data: undefined behaviour.
Overrun(r) == [ok |-> FALSE, r |-> r, overrun |-> TRUE]

\* Go on with the value of a read and the reader it left, if there is a value.
Then(read, Use(_, _)) == IF read.ok THEN Use(read.val, read.r) ELSE read

Check(r, n)   == r.pos + n <= Len(r.data)
Advance(r, n) == [r EXCEPT !.pos = @ + n]
Bytes(r, n)   == SubSeq(r.data, r.pos + 1, r.pos + n)

\* Mutation: the position may go past the end.
SeekAnywhere(r, p) == Got(p, [r EXCEPT !.pos = p])

Seek(r, p) == IF p > Len(r.data) THEN Nothing(r) ELSE Got(p, [r EXCEPT !.pos = p])

Align(r, a) == Seek(r, AlignedTo(r.pos, a))

ReadUInt8(r) == IF Check(r, 1) THEN Got(Bytes(r, 1)[1], Advance(r, 1)) ELSE Nothing(r)

\* readUInt16, readUInt32 and readUInt64, and the reads that cast their value.
ReadUInt(r, n) ==
    Then(Align(r, n), LAMBDA pos, at :
        IF Check(at, n) THEN Got(InOrder(r.endian, Bytes(at, n)), Advance(at, n))
        ELSE Nothing(at))

ReadBool(r) == Then(ReadUInt(r, 4), LAMBDA v, at : Got(v # Zeros(4), at))

\* Mutation: the reader stays on the NUL.
ReadCharsOnly(r, n) ==
    IF ~Check(r, n + 1) THEN Nothing(r) ELSE Got(Bytes(r, n), Advance(r, n))

\* n characters and a NUL. A missing NUL leaves the reader where it should be.
ReadChars(r, n) ==
    IF ~Check(r, n + 1) THEN Nothing(r)
    ELSE LET nul == Advance(r, n)
         IN  IF Bytes(nul, 1)[1] # 0 THEN Nothing(nul)
             ELSE Got(Bytes(r, n), Advance(nul, 1))

\* *len + 1 is a sum of 32 bits: for the greatest length it is 0, and the check
\* lets 4294967295 characters pass.
ReadString(r) ==
    Then(ReadUInt(r, 4), LAMBDA len, at :
        IF len = MaxUInt32 THEN Overrun(at) ELSE ReadChars(at, Number(len)))

ReadSignature(r) == Then(ReadUInt8(r), LAMBDA len, at : ReadChars(at, len))

----------------------------------------------------------------------------
(* Writer: [data, endian] *)

NewWriter == [data |-> <<>>, endian |-> Little]

Put(w, bytes) == [w EXCEPT !.data = @ \o bytes]

PadTo(w, a) == Put(w, Zeros(AlignedTo(Len(w.data), a) - Len(w.data)))

WriteUInt8(w, v) == Put(w, <<v>>)

\* writeUInt16, writeUInt32, writeUInt64 and the writes that cast to them.
WriteUInt(w, b) == Put(PadTo(w, Len(b)), InOrder(w.endian, b))

WriteString(w, s) == Put(WriteUInt(w, UInt32(Len(s))), s \o <<0>>)

\* static_cast<uint8_t>(value.size())
WriteSignature(w, s) == Put(WriteUInt8(w, Len(s) % 256), s \o <<0>>)

============================================================================
