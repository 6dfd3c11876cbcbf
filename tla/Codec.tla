------------------------------- MODULE Codec -------------------------------
(***************************************************************************)
(* A message object of the library on its way: filled in by the program    *)
(* and sent to a peer, or read from the bytes of a peer, field by field,   *)
(* and then item by item; a message that was read may be sent again. The   *)
(* peers write and read with the example's codec.                          *)
(***************************************************************************)
EXTENDS MessageCodec

Peer == INSTANCE ExampleCodec

CONSTANTS
    PeerMessages,  \* messages of peers [endian, version, type, flags, serial,
                   \*   list: the fields <<code, type, value>> in any order,
                   \*   items: the <<type, value>> of the body]
    Types,         \* values of setType
    Texts,         \* values of the setters
    Serials,       \* serials send gives out
    MaxSets,       \* bound on calls of setters for a message of the program
    MaxChanges,    \* and for one that was received
    NoMessage

MaxSize == 134217728   \* a D-Bus message is smaller

ASSUME ProgramAssumption ==
    /\ Types \subseteq Byte
    /\ \A text \in Texts : text \in Seq(Byte) /\ Len(text) < MaxSize
    /\ Serials \subseteq [1 .. 4 -> Byte] /\ MaxSets \in Nat /\ MaxChanges \in Nat
    /\ NoMessage \notin PeerMessages

VARIABLES
    phase,  \* "open": the program has the message; "sent"; what readFd is
            \* at: "header", "body", "fields"; "failed"; or "undefined": a
            \* read went on past the end, and anything may follow
    msg,    \* the library's object
    wire,   \* the bytes of the message between the library and the peer
    sent,   \* the peer's message on the wire, or NoMessage
    items,  \* what the program has read of the body
    sets    \* calls of setters

vars == <<phase, msg, wire, sent, items, sets>>

Settable == {Path, Interface, Member, ErrorName, Destination}

\* Type invariant. A reader stays inside the bytes it has, and so does every
\* read, until one overruns them.
TypeOK ==
    /\ phase \in {"open", "sent", "header", "body", "fields", "failed", "undefined"}
    /\ DOMAIN msg.fields \subseteq Fields
    /\ wire \in Seq(Byte) /\ msg.reader.data \in Seq(Byte)
    /\ msg.reader.pos \in 0 .. Len(msg.reader.data)
    /\ msg.valid \in BOOLEAN /\ sets \in Nat

Init ==
    /\ phase = "open" /\ msg = NewMessage
    /\ wire = <<>> /\ sent = NoMessage /\ items = <<>> /\ sets = 0

----------------------------------------------------------------------------
(* The program and the library's way out *)

MaySet == sets < (IF sent = NoMessage THEN MaxSets ELSE MaxChanges)

SetField(f, text) ==
    /\ phase \in {"open", "sent"} /\ MaySet
    /\ msg' = [msg EXCEPT !.fields = WithField(@, f, text)]
    /\ phase' = "open" /\ sets' = sets + 1
    /\ UNCHANGED <<wire, sent, items>>

SetType(type) ==
    /\ phase \in {"open", "sent"} /\ MaySet
    /\ msg' = [msg EXCEPT !.fixed.type = type]
    /\ phase' = "open" /\ sets' = sets + 1
    /\ UNCHANGED <<wire, sent, items>>

\* ConnectionPrivate::send gives the message its serial and serializes it.
Send(serial) ==
    /\ phase = "open"
    /\ LET m == [msg EXCEPT !.fixed.serial = serial]
       IN  wire' = Serialize(m) /\ msg' = WithLengths(m)
    /\ phase' = "sent"
    /\ UNCHANGED <<sent, items, sets>>

----------------------------------------------------------------------------
(* A peer's message and the library's way in *)

\* The fields of a peer's message and its body, as the peer's writer writes them.
PeerFields(m) == Peer!WriteFields(m.endian, m.list)[Len(m.list)]
PeerBody(m)   == Peer!WriteAll(m.endian, m.items)[Len(m.items)]

PeerBytes(m) ==
    [Peer!Encode([endian |-> m.endian, type |-> m.type, flags |-> m.flags,
                  serial |-> m.serial, body |-> PeerBody(m)], m.list)
        EXCEPT ![4] = m.version]

\* The values that a peer writes with the type t.
IsValue(t, v) ==
    CASE t = CharY            -> v \in Byte
      [] t = CharQ            -> v \in [1 .. 2 -> Byte]
      [] t \in {CharU, CharB} -> v \in [1 .. 4 -> Byte]
      [] t = CharT            -> v \in [1 .. 8 -> Byte]
      [] t \in {CharS, CharO} -> v \in Seq(Byte) /\ Len(v) < MaxSize
      [] t = CharG            -> v \in Seq(Byte) /\ Len(v) < 256

\* A peer writes each field that the library knows at most once and with its
\* type; it may write others.
ASSUME PeerAssumption ==
    \A m \in PeerMessages :
        /\ m.endian \in {Little, Big}
        /\ m.version \in Byte /\ m.type \in Byte /\ m.flags \in Byte
        /\ m.serial \in [1 .. 4 -> Byte]
        /\ Len(m.list) \in Nat /\ DOMAIN m.list = 1 .. Len(m.list)
        /\ Len(m.items) \in Nat /\ DOMAIN m.items = 1 .. Len(m.items)
        /\ \A i \in 1 .. Len(m.list) :
              LET f == m.list[i][1]
                  t == m.list[i][2]
              IN  /\ f \in Byte /\ IsValue(t, m.list[i][3])
                  /\ t \in {CharY, CharQ, CharU, CharB, CharT, CharS, CharO, CharG}
                  /\ f \in Fields => /\ t = Peer!TypeOf(f)
                                     /\ \A j \in 1 .. Len(m.list) : m.list[j][1] = f => j = i
        /\ \A i \in 1 .. Len(m.items) :
              /\ m.items[i][1] \in {CharY, CharQ, CharU, CharB, CharT, CharS, CharG}
              /\ IsValue(m.items[i][1], m.items[i][2])
        /\ Len(PeerFields(m)) < MaxSize /\ Len(PeerBody(m)) < MaxSize

PeerSends(m) ==
    /\ phase = "open" /\ msg = NewMessage
    /\ wire' = PeerBytes(m) /\ sent' = m
    /\ phase' = "header"
    /\ UNCHANGED <<msg, items, sets>>

\* readFd has the 16 bytes of the fixed header.
HeaderArrives ==
    /\ phase = "header"
    /\ LET h == ReadFixedHeader(NewReader(SubSeq(wire, 1, HeaderSize)))
       IN  \/ /\ h.val.valid
              /\ msg' = [msg EXCEPT !.fixed = h.val, !.reader = h.r]
              /\ phase' = "body"
           \/ /\ ~h.val.valid
              /\ msg' = [msg EXCEPT !.fixed = h.val, !.reader = NewReader(<<>>)]
              /\ phase' = "failed"
    /\ UNCHANGED <<wire, sent, items, sets>>

\* The bytes that the fixed header announces are there; until then readFd
\* returns WouldBlock.
BodyArrives ==
    /\ phase = "body"
    /\ TotalSize(msg.fixed) <= Len(wire)
    /\ msg' = [msg EXCEPT !.reader.data = SubSeq(wire, 1, TotalSize(msg.fixed))]
    /\ phase' = "fields"
    /\ UNCHANGED <<wire, sent, items, sets>>

\* What comes of the program after a read that gave no value.
PhaseAfter(read, otherwise) == IF read.overrun THEN "undefined" ELSE otherwise

AtField == Align(msg.reader, 8).r
MoreFields == AtField.pos < HeaderTotal(msg.fixed)

ReadField ==
    /\ phase = "fields" /\ MoreFields
    /\ LET field == ParseField(msg.fields, AtField)
       IN  \/ /\ field.ok
              /\ msg' = [msg EXCEPT !.fields = field.val, !.reader = field.r]
              /\ UNCHANGED phase
           \/ /\ ~field.ok
              /\ msg' = [msg EXCEPT !.reader = NewReader(<<>>)]
              /\ phase' = PhaseAfter(field, "failed")
    /\ UNCHANGED <<wire, sent, items, sets>>

\* Mutation: the body is taken to begin where the fields end.
OpenUnaligned ==
    /\ phase = "fields" /\ ~MoreFields
    /\ msg' = [msg EXCEPT !.fieldsValid = TRUE]
    /\ phase' = "open"
    /\ UNCHANGED <<wire, sent, items, sets>>

\* readFd returns Success and the message goes to the program.
Open ==
    /\ phase = "fields" /\ ~MoreFields
    /\ msg' = [msg EXCEPT !.fieldsValid = TRUE, !.reader = AtField]
    /\ phase' = "open"
    /\ UNCHANGED <<wire, sent, items, sets>>

\* The type of the item the program reads next, by the peer's signature.
NextType == IF sent # NoMessage /\ Len(items) < Len(sent.items)
            THEN sent.items[Len(items) + 1][1] ELSE CharS

\* operator>>
ExtractString ==
    /\ phase = "open" /\ NextType = CharS
    /\ LET s == ReadString(msg.reader)
       IN  /\ msg' = [msg EXCEPT !.reader = s.r, !.valid = @ /\ s.ok]
           /\ \/ s.ok /\ items' = Append(items, s.val) /\ UNCHANGED phase
              \/ ~s.ok /\ phase' = PhaseAfter(s, "open") /\ UNCHANGED items
    /\ UNCHANGED <<wire, sent, sets>>

\* The reader's functions for the other types, of which operator>> has none yet.
ReadItem(t) ==
    CASE t = CharY            -> ReadUInt8(msg.reader)
      [] t = CharQ            -> ReadUInt(msg.reader, 2)
      [] t = CharU            -> ReadUInt(msg.reader, 4)
      [] t = CharB            -> ReadBool(msg.reader)
      [] t = CharT            -> ReadUInt(msg.reader, 8)
      [] t = CharG            -> ReadSignature(msg.reader)

ExtractOther ==
    /\ phase = "open" /\ NextType # CharS
    /\ LET v == ReadItem(NextType)
       IN  /\ msg' = [msg EXCEPT !.reader = v.r]
           /\ items' = IF v.ok THEN Append(items, v.val) ELSE items
    /\ UNCHANGED <<phase, wire, sent, sets>>

----------------------------------------------------------------------------

ReadFd == HeaderArrives \/ BodyArrives \/ ReadField \/ Open

Next ==
    \/ \E f \in Settable, text \in Texts : SetField(f, text)
    \/ \E type \in Types : SetType(type)
    \/ \E serial \in Serials : Send(serial)
    \/ \E m \in PeerMessages : PeerSends(m)
    \/ ReadFd \/ ExtractString \/ ExtractOther

Spec == Init /\ [][Next]_vars

----------------------------------------------------------------------------
(* Properties *)

Received  == sent # NoMessage
Untouched == Received /\ phase = "open" /\ items = <<>> /\ msg.valid /\ sets = 0

\* The loop over the fields skips values of types it does not know only if
\* they end before the next multiple of 8.
Skippable(m) ==
    \A i \in DOMAIN m.list : m.list[i][1] \in Fields \/ m.list[i][2] # CharT

Regular == Received /\ sent.endian = Little /\ Skippable(sent)

\* The fields of a list that the library knows.
Known(list) ==
    [f \in {list[i][1] : i \in DOMAIN list} \cap Fields |->
        list[CHOOSE i \in DOMAIN list : list[i][1] = f][3]]

\* readFd waits for exactly the bytes a peer has written: with fewer the rest
\* would be taken for the next message, with more it would wait for ever.
LittleEndianWhole ==
    phase = "body" /\ sent.endian = Little => TotalSize(msg.fixed) = Len(wire)

\* A little-endian message is not refused, unless for its version, no read of
\* it overruns its bytes, and the program gets it with the header its sender
\* wrote: with its fields in any order, and fields the library does not know
\* anywhere between them, of any type but the numbers of 8 bytes (Skippable).
NeverMisread ==
    Regular =>
        /\ phase = "failed" => sent.version # 1
        /\ phase # "undefined"
        /\ Untouched => /\ msg.fixed.type = sent.type /\ msg.fixed.flags = sent.flags
                        /\ msg.fixed.serial = sent.serial
                        /\ msg.fields = Known(sent.list)

\* For every little-endian message, also those with unknown fields they both
\* take for something else, the library and the example come to the same
\* result: both refuse it, or a read of both overruns the bytes, or they agree
\* on its header and on its body. Only if the last field runs on past the end
\* of the header the example refuses the message, and the library takes what is
\* left for the body.
AgreesWithExample ==
    LET ex     == Peer!Parse(wire)
        r      == msg.reader
        inside == r.pos = AlignedTo(HeaderTotal(msg.fixed), 8)
    IN  Received /\ sent.endian = Little =>
        /\ phase = "failed" => ex = Peer!Thrown
        /\ phase = "undefined" /\ ~msg.fieldsValid => ex = Peer!Overrun
        /\ Untouched =>
              /\ ex.ok <=> inside
              /\ inside => /\ ex.fields = msg.fields
                           /\ ex.type = msg.fixed.type /\ ex.serial = msg.fixed.serial
                           /\ ex.body = SubSeq(r.data, r.pos + 1, Len(r.data))

\* What the program reads of the body is what the peer wrote, in order, though
\* header and body were aligned from different starts; and the message is
\* invalid only after an attempt to read more than there is.
ItemsInOrder ==
    Regular /\ phase = "open" =>
        LET written == [i \in DOMAIN sent.items |->
                          IF sent.items[i][1] = CharB THEN sent.items[i][2] # Zeros(4)
                          ELSE sent.items[i][2]]
        IN  /\ IsPrefix(items, written)
            /\ msg.valid \/ Len(items) = Len(written)

\* What the library sends in little-endian order, its own messages and those it
\* has received in that order, the example reads from a stream up to the last
\* byte, though another message follows, and with the same header. The body is
\* empty. Nothing is said of a received big-endian message, which serialize
\* writes with a big-endian fixed header before little-endian fields.
SentIsRead ==
    phase = "sent" /\ msg.fixed.endian = Little =>
        LET read == Peer!ReadMessage(wire \o SerializeFixed(NewFixedHeader))
            ex   == read.val
        IN  /\ read.ok /\ read.next = Len(wire)
            /\ ex.ok
            /\ ex.type = msg.fixed.type /\ ex.flags = msg.fixed.flags
            /\ ex.serial = msg.fixed.serial
            /\ ex.fields = msg.fields
            /\ ex.body = <<>>

============================================================================
