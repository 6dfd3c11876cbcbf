---------------------------- MODULE MessageCodec ----------------------------
(***************************************************************************)
(* MessagePrivate (dbus/message.cpp): the headers of a message, from bytes *)
(* and to bytes. DynamicHeader's optionals are a function whose domain is  *)
(* the codes of the fields that are present.                               *)
(***************************************************************************)
EXTENDS Marshal

HeaderSize == 16
MethodCall == 1

NewFixedHeader ==
    [endian |-> Little, type |-> MethodCall, flags |-> 0, version |-> 1,
     bodyLen |-> UInt32(0), serial |-> UInt32(0), fieldsLen |-> UInt32(0),
     valid |-> FALSE]

NewMessage ==
    [fixed |-> NewFixedHeader, fields |-> <<>>, fieldsValid |-> FALSE,
     reader |-> NewReader(<<>>), valid |-> TRUE]

----------------------------------------------------------------------------
(* From bytes *)

\* FixedHeader(reader), for a reader at the start of at least 16 bytes. The
\* endianness is stored in the header, not in the reader.
ReadFixedHeader(r) ==
    LET start == [NewFixedHeader EXCEPT
                    !.endian = r.data[1], !.type = r.data[2],
                    !.flags = r.data[3], !.version = r.data[4]]
        U(k)  == ReadUInt(Advance(r, k), 4).val
    IN  IF start.version # 1 THEN Got(start, Advance(r, 4))
        ELSE Got([start EXCEPT !.bodyLen = U(4), !.serial = U(8),
                               !.fieldsLen = U(12), !.valid = TRUE],
                 Advance(r, HeaderSize))

HeaderTotal(h) == HeaderSize + Number(h.fieldsLen)

\* Mutation: no padding between header and body.
TotalSizeUnpadded(h) == HeaderTotal(h) + Number(h.bodyLen)

\* headerTotal + padding + bodyLen
TotalSize(h) == AlignedTo(HeaderTotal(h), 8) + Number(h.bodyLen)

WithField(fields, code, v) ==
    [f \in DOMAIN fields \cup {code} |-> IF f = code THEN v ELSE fields[f]]

\* A field's value is read; it is kept if the field is one of "known".
Store(fields, code, known, read) ==
    Then(read, LAMBDA v, at :
        Got(IF code \in known THEN WithField(fields, code, v) ELSE fields, at))

\* Mutation: any field of type "s" is kept.
ReadFieldValueOfAnyCode(fields, code, sig, r) ==
    CASE sig \in {<<CharS>>, <<CharO>>} -> Store(fields, code, {code}, ReadString(r))
      [] sig = <<CharG>> -> Store(fields, code, {Signature}, ReadSignature(r))
      [] sig = <<CharU>> -> Store(fields, code, NumberFields, ReadUInt(r, 4))
      [] OTHER           -> Got(fields, r)

\* The value of a type that is not known is not skipped.
ReadFieldValue(fields, code, sig, r) ==
    CASE sig \in {<<CharS>>, <<CharO>>} -> Store(fields, code, StringFields, ReadString(r))
      [] sig = <<CharG>> -> Store(fields, code, {Signature}, ReadSignature(r))
      [] sig = <<CharU>> -> Store(fields, code, NumberFields, ReadUInt(r, 4))
      [] OTHER           -> Got(fields, r)

\* One pass of the loop in DynamicHeader(reader, end), for an aligned reader.
ParseField(fields, r) ==
    Then(ReadUInt8(r), LAMBDA code, at :
        Then(ReadSignature(at), LAMBDA sig, next :
            ReadFieldValue(fields, code, sig, next)))

----------------------------------------------------------------------------
(* To bytes *)

\* Mutation: fields follow each other without padding.
WriteFieldUnaligned(w, f, v) ==
    LET W(char) == WriteSignature(WriteUInt8(w, f), <<char>>)
    IN  CASE f = Path                     -> WriteString(W(CharO), v)
          [] f \in StringFields \ {Path}  -> WriteString(W(CharS), v)
          [] f \in NumberFields           -> WriteUInt(W(CharU), v)
          [] f = Signature                -> WriteSignature(W(CharG), v)

WriteField(w, f, v) ==
    LET W(char) == WriteSignature(WriteUInt8(PadTo(w, 8), f), <<char>>)
    IN  CASE f = Path                     -> WriteString(W(CharO), v)
          [] f \in StringFields \ {Path}  -> WriteString(W(CharS), v)
          [] f \in NumberFields           -> WriteUInt(W(CharU), v)
          [] f = Signature                -> WriteSignature(W(CharG), v)

WriteIfSet(w, f, fields) == IF f \in DOMAIN fields THEN WriteField(w, f, fields[f]) ELSE w

\* The writer of the dynamic header is little-endian whatever the message is.
SerializeFields(fields) ==
    LET W(w, f)  == WriteIfSet(w, f, fields)
        names    == W(W(W(W(NewWriter, Path), Interface), Member), ErrorName)
        busNames == W(W(names, Destination), Sender)
    IN  W(W(W(busNames, ReplySerial), UnixFDs), Signature).data

SerializeFixed(h) ==
    LET w == Put([NewWriter EXCEPT !.endian = h.endian],
                 <<h.endian, h.type, h.flags, h.version>>)
    IN  WriteUInt(WriteUInt(WriteUInt(w, h.bodyLen), h.serial), h.fieldsLen).data

\* What operator<< has put in the body: it writes nothing.
WrittenBody == <<>>

\* serialize() sets the lengths in the message's own header.
WithLengths(m) ==
    [m EXCEPT !.fixed.bodyLen = UInt32(Len(WrittenBody)),
              !.fixed.fieldsLen = UInt32(Len(SerializeFields(m.fields)))]

HeaderPadding(n) == (8 - (n % 8)) % 8

Serialize(m) ==
    LET fields == SerializeFields(m.fields)
    IN  SerializeFixed(WithLengths(m).fixed) \o fields
        \o Zeros(HeaderPadding(Len(fields))) \o WrittenBody

============================================================================
