------------------------------ MODULE Framing ------------------------------
(***************************************************************************)
(* MessagePrivate::readFd (dbus/message.cpp): how the connection cuts the  *)
(* byte stream of the socket into messages. The bytes of a message arrive  *)
(* in pieces, also while readFd runs; a call of readFd that finds too few  *)
(* keeps them in reader.data for the next call.                            *)
(*                                                                         *)
(* A byte is the number of its message in the stream and its place in it;  *)
(* what a header says is what the message it begins with is. Sizes are in  *)
(* bytes, with a shorter header and a smaller alignment than D-Bus has.    *)
(***************************************************************************)
EXTENDS Integers, Sequences

CONSTANTS
    HeaderSize,   \* bytes of the fixed header: 16
    Alignment,    \* what the header fields are padded to: 8
    Kinds,        \* messages [fields: bytes of the fields, body: bytes, bad: ...]
    MaxMessages,  \* bound on the messages of the stream
    NoHeader

ASSUME SizeAssumption == HeaderSize \in Nat \ {0} /\ Alignment \in Nat \ {0}
ASSUME BoundAssumption == MaxMessages \in Nat
ASSUME KindAssumption ==
    /\ Kinds \subseteq [fields : Nat, body : Nat, bad : {"no", "version", "fields"}]
    /\ NoHeader \notin Kinds

VARIABLES
    sent,        \* the messages of the stream, the last one perhaps in part
    unwritten,   \* bytes of the last message the bus has yet to write
    pipe,        \* bytes in the socket
    eof,         \* the bus has closed its end
    errnoAgain,  \* the thread's errno is EAGAIN
    pc,          \* "idle", or what readFd reads: "header" or "body"
    data,        \* readExact's data
    buffer,      \* reader.data
    header,      \* fixedHeader, or NoHeader while it is not valid
    delivered,   \* numbers of the messages handed to handleBusMsg
    failed       \* readFd has returned Failure

busVars  == <<sent, unwritten, pipe, eof>>
readVars == <<pc, data, buffer, header>>
vars     == <<busVars, errnoAgain, readVars, delivered, failed>>

Garbled == 0     \* stands in "delivered" for bytes that are no message
Byte    == (1 .. MaxMessages) \X Nat

TypeOK ==
    /\ sent \in Seq(Kinds) /\ Len(sent) <= MaxMessages
    /\ unwritten \in Nat
    /\ pipe \in Seq(Byte) /\ data \in Seq(Byte) /\ buffer \in Seq(Byte)
    /\ eof \in BOOLEAN /\ errnoAgain \in BOOLEAN /\ failed \in BOOLEAN
    /\ pc \in {"idle", "header", "body"}
    /\ header \in Kinds \cup {NoHeader}
    /\ delivered \in Seq(1 .. MaxMessages)

Init ==
    /\ sent = <<>> /\ unwritten = 0 /\ pipe = <<>> /\ eof = FALSE
    /\ errnoAgain \in BOOLEAN
    /\ pc = "idle" /\ data = <<>> /\ buffer = <<>> /\ header = NoHeader
    /\ delivered = <<>> /\ failed = FALSE

\* Mutation: the outer "% 8" is missing: an aligned header gets 8 bytes more.
PaddingTooMuch(n) == Alignment - (n % Alignment)

Padding(n) == (Alignment - (n % Alignment)) % Alignment

\* The size the bus gives a message, by the D-Bus specification.
AlignedTo(n) == CHOOSE k \in n .. n + Alignment - 1 : k % Alignment = 0
Size(m) == AlignedTo(HeaderSize + m.fields) + m.body

\* headerTotal + padding + bodyLen
TotalSize(m) == HeaderSize + m.fields + Padding(HeaderSize + m.fields) + m.body

BytesOf(n) == [k \in 1 .. Size(sent[n]) |-> <<n, k>>]

----------------------------------------------------------------------------
(* The bus *)

BusBegins(m) ==
    /\ ~eof /\ unwritten = 0
    /\ Len(sent) < MaxMessages
    /\ sent' = Append(sent, m)
    /\ unwritten' = Size(m)
    /\ UNCHANGED <<pipe, eof, errnoAgain, readVars, delivered, failed>>

\* Any number of bytes becomes readable at once.
BusWrites ==
    /\ ~eof
    /\ \E k \in 1 .. unwritten :
          LET n    == Len(sent)
              from == Size(sent[n]) - unwritten
          IN  /\ pipe' = pipe \o SubSeq(BytesOf(n), from + 1, from + k)
              /\ unwritten' = unwritten - k
    /\ UNCHANGED <<sent, eof, errnoAgain, readVars, delivered, failed>>

BusCloses ==
    /\ ~eof
    /\ eof' = TRUE
    /\ UNCHANGED <<sent, unwritten, pipe, errnoAgain, readVars, delivered, failed>>

\* Other calls of the thread set errno between two calls of readFd.
OtherErrno ==
    /\ pc = "idle"
    /\ errnoAgain' = ~errnoAgain
    /\ UNCHANGED <<busVars, readVars, delivered, failed>>

----------------------------------------------------------------------------
(* readFd *)

\* The loop calls readData for a readable socket; after a Failure the state is
\* Error and readData does not read.
Call ==
    /\ pc = "idle" /\ ~failed
    /\ pipe # <<>> \/ eof
    /\ pc' = "header"
    /\ UNCHANGED <<busVars, errnoAgain, data, buffer, header, delivered, failed>>

\* How many bytes unsureHasData(n) still has to read.
Want == (IF pc = "header" THEN HeaderSize ELSE TotalSize(header)) - Len(buffer) - Len(data)

\* read() returns some of the bytes.
ReadSome ==
    /\ pc # "idle" /\ Want > 0
    /\ \E k \in 1 .. Len(pipe) :
          /\ k <= Want
          /\ data' = data \o SubSeq(pipe, 1, k)
          /\ pipe' = SubSeq(pipe, k + 1, Len(pipe))
    /\ UNCHANGED <<sent, unwritten, eof, errnoAgain, pc, buffer, header, delivered, failed>>

\* Mutation: what this call has read so far is not kept.
KeepNothing == UNCHANGED buffer

\* unsureHasData appends what readExact returned.
Keep == buffer' = buffer \o data

\* readFd's fail: the reader starts anew, Connection goes to Error.
Fail == buffer' = <<>> /\ failed' = TRUE

\* read() finds nothing: it blocks, or it is the end of the stream and errno
\* is what an earlier call made it.
ReadNothing ==
    /\ pc # "idle" /\ Want > 0 /\ pipe = <<>>
    /\ errnoAgain' = IF eof THEN errnoAgain ELSE TRUE
    /\ \/ errnoAgain' /\ Keep /\ UNCHANGED failed
       \/ ~errnoAgain' /\ Fail
    /\ data' = <<>>
    /\ pc' = "idle"
    /\ UNCHANGED <<busVars, header, delivered>>

\* The fixed header is complete: it is parsed unless it was before.
HeaderDone ==
    /\ pc = "header" /\ Want <= 0
    /\ data' = <<>>
    /\ LET bytes == buffer \o data
           m     == IF header = NoHeader THEN sent[bytes[1][1]] ELSE header
       IN  \/ m.bad = "version" /\ Fail /\ pc' = "idle" /\ UNCHANGED header
           \/ m.bad # "version" /\ Keep /\ pc' = "body" /\ header' = m /\ UNCHANGED failed
    /\ UNCHANGED <<busVars, errnoAgain, delivered>>

Number(bytes) == LET n == bytes[1][1]
                 IN  IF bytes = BytesOf(n) THEN n ELSE Garbled

\* Mutation: the next message is read into the header of this one.
ResetReader == data' = <<>> /\ buffer' = <<>> /\ UNCHANGED header

\* readData: readMsg = Message().
NewMessage == data' = <<>> /\ buffer' = <<>> /\ header' = NoHeader

\* The message is complete: its fields are parsed and it is handled.
BodyDone ==
    /\ pc = "body" /\ Want <= 0
    /\ pc' = "idle"
    /\ \/ /\ header.bad = "fields"
          /\ Fail /\ data' = <<>>
          /\ UNCHANGED <<header, delivered>>
       \/ /\ header.bad # "fields"
          /\ delivered' = Append(delivered, Number(buffer \o data))
          /\ NewMessage
          /\ UNCHANGED failed
    /\ UNCHANGED <<busVars, errnoAgain>>

ReadFd == Call \/ ReadSome \/ ReadNothing \/ HeaderDone \/ BodyDone

Next == \/ ReadFd \/ OtherErrno \/ BusWrites \/ BusCloses
        \/ \E m \in Kinds : BusBegins(m)

Spec == Init /\ [][Next]_vars

\* The loop calls the handler of a readable socket and the handler runs on.
FairSpec == Spec /\ WF_vars(ReadFd)

----------------------------------------------------------------------------
(* Properties *)

\* The bytes the reader keeps, those readExact holds and those in the socket
\* are together the stream from the first message not delivered up to the byte
\* the bus writes next, each followed by the one after it: no byte is lost, read
\* twice or taken for another message, wherever a read blocks.
Held == buffer \o data \o pipe

After(b) == IF b[2] < Size(sent[b[1]]) THEN <<b[1], b[2] + 1>> ELSE <<b[1] + 1, 1>>

NextByte == IF unwritten = 0 THEN <<Len(sent) + 1, 1>>
            ELSE <<Len(sent), Size(sent[Len(sent)]) - unwritten + 1>>

Trail == Append(Held, NextByte)

NoByteLost ==
    ~failed =>
        /\ Trail[1] = <<Len(delivered) + 1, 1>>
        /\ \A i \in 1 .. Len(Held) : Trail[i + 1] = After(Trail[i])

\* readFd never reads past the end of the message it is at, so the first byte
\* in the buffer of the next call is the first byte of a message.
NeverPastTheEnd ==
    ~failed /\ buffer \o data # <<>> =>
        Len(buffer) + Len(data) <= Size(sent[Len(delivered) + 1])

Written(n) == n < Len(sent) \/ (n = Len(sent) /\ unwritten = 0)

\* A message the bus has written whole is handled, or the connection fails at
\* a malformed one; no message is stuck in the buffer.
WholeMessagesArrive ==
    \A n \in 1 .. MaxMessages : Written(n) ~> (Len(delivered) >= n \/ failed)

(* Refinement *)

Channel == INSTANCE FramedChannel WITH
    WellFormed <- {m \in Kinds : m.bad = "no"},
    queue <- SubSeq(sent, Len(delivered) + 1, Len(sent)),
    taken <- [i \in 1 .. Len(delivered) |->
                IF delivered[i] = Garbled THEN NoHeader ELSE sent[delivered[i]]],
    up    <- ~failed

\* The cut stream is a queue of messages: whole, once, in order.
IsAChannel == Channel!Spec

============================================================================
