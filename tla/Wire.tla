-------------------------------- MODULE Wire --------------------------------
(***************************************************************************)
(* The vocabulary of the D-Bus wire format that the library and the        *)
(* example share: bytes, integers, alignment, field codes, type codes.     *)
(*                                                                         *)
(* An integer of n bytes is the sequence of its bytes, the least           *)
(* significant first: what memcpy copies on a little-endian machine, so    *)
(* that a cast between signed and unsigned, or from the bits of a double,  *)
(* changes nothing. Only lengths are made numbers; they stay below 2^31.   *)
(***************************************************************************)
EXTENDS Integers, Sequences, SequencesExt, TLC

Little == 108    \* 'l'
Big    == 66     \* 'B'

Byte == 0 .. 255

Number(b) == b[1] + 256 * b[2] + 65536 * b[3] + 16777216 * b[4]
UInt32(n) == [i \in 1 .. 4 |-> (n \div <<1, 256, 65536, 16777216>>[i]) % 256]
MaxUInt32 == <<255, 255, 255, 255>>
Zeros(n)  == [i \in 1 .. n |-> 0]

\* The next multiple of a.
AlignedTo(n, a) == n + ((a - (n % a)) % a)

\* bswap16, bswap32 and bswap64, called when the buffer is big-endian.
InOrder(endian, b) == IF endian = Big THEN Reverse(b) ELSE b

(* Header fields *)

Path        == 1
Interface   == 2
Member      == 3
ErrorName   == 4
ReplySerial == 5
Destination == 6
Sender      == 7
Signature   == 8
UnixFDs     == 9

StringFields == {Path, Interface, Member, ErrorName, Destination, Sender}
NumberFields == {ReplySerial, UnixFDs}
Fields       == StringFields \cup NumberFields \cup {Signature}

(* Types, by their characters *)

CharY == 121   \* byte
CharQ == 113   \* uint16
CharU == 117   \* uint32
CharB == 98    \* boolean
CharT == 116   \* uint64
CharS == 115   \* string
CharO == 111   \* object path
CharG == 103   \* signature

============================================================================
