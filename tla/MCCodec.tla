------------------------------ MODULE MCCodec ------------------------------
(***************************************************************************)
(* A small instance of Codec. The texts make fields that end on a multiple *)
(* of 8 and before it; the bodies put each type behind a shorter one.      *)
(***************************************************************************)
EXTENDS Codec, FiniteSets

Short == <<97>>
Long  == <<97, 98, 99, 100, 101, 102, 103>>

MCTexts   == {Short, Long}
MCTypes   == {MethodCall, 4}
MCSerials == {<<255, 1, 0, 0>>}

One == <<1, 0, 0, 0>>

Headers ==
    { <<>>,
      Member :> Short,
      Path :> Long @@ Member :> Long,
      ErrorName :> Short @@ ReplySerial :> One,
      ReplySerial :> One @@ Sender :> Long @@ Signature :> <<CharS>>,
      Destination :> Short @@ UnixFDs :> One @@ Signature :> <<CharS, CharU>>,
      [f \in Fields |-> IF f \in NumberFields THEN One
                        ELSE IF f = Signature THEN <<CharG>> ELSE Short] }

\* TLC's integers: lengths of big-endian messages that are read as if they
\* were little-endian stay below 2^31.
FewFields == {f \in Headers : Cardinality(DOMAIN f) <= 3}

Bodies ==
    { <<>>,
      << <<CharS, Short>> >>,
      << <<CharS, Long>>, <<CharS, Short>>, <<CharS, <<>>>> >>,
      << <<CharS, Short>>, <<CharY, 7>> >>,
      << <<CharY, 7>>, <<CharQ, <<1, 2>>>>, <<CharT, <<1, 2, 3, 4, 5, 6, 7, 8>>>> >>,
      << <<CharG, <<CharU>>>>, <<CharU, <<1, 2, 3, 4>>>>, <<CharS, Short>> >>,
      << <<CharY, 0>>, <<CharB, One>>, <<CharS, Long>>, <<CharB, Zeros(4)>> >> }

Unknown == 10

\* Fields of a code the library does not know; the last four are numbers of 8
\* bytes: one that is skipped by chance, one that is taken for a field, and two
\* for the beginning of a text, that the body goes on with or that is 4 GiB long.
Others ==
    { << <<Unknown, CharY, 7>> >>,
      << <<Unknown, CharB, One>> >>,
      << <<Unknown, CharS, Long>>, <<Unknown, CharU, One>> >>,
      << <<Unknown, CharT, <<5, 0, 0, 0, 0, 0, 0, 0>>>> >>,
      << <<Unknown, CharT, <<0, 104, 229, 207, 139, 1, 0, 0>>>> >>,
      << <<Unknown, CharT, <<1, 1, 115, 0, 5, 0, 0, 0>>>> >>,
      << <<Unknown, CharT, <<1, 1, 115, 0, 255, 255, 255, 255>>>> >> }

Message(e, v, list, b) ==
    [endian |-> e, version |-> v, type |-> 2, flags |-> 1, serial |-> <<9, 8, 0, 0>>,
     list |-> list, items |-> b]

Own(f) == Peer!OwnFields(f)

MCPeerMessages ==
    { Message(Little, 1, Own(f), b) : f \in Headers, b \in Bodies }
    \cup { Message(Big, 1, Own(f), b) : f \in FewFields, b \in Bodies }
    \cup { Message(Little, 1, list, b) :
             list \in UNION {{o \o Own(f), Own(f) \o o, Reverse(Own(f) \o o)} :
                             f \in Headers, o \in Others},
             b \in {<<>>, << <<CharS, Short>> >>} }
    \cup { Message(Little, 1, list, << <<CharS, Short>>, <<CharU, MaxUInt32>> >>) :
             list \in Others }
    \cup { Message(Little, 2, Own(Member :> Short), <<>>) }

============================================================================
