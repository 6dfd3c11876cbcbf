------------------------- MODULE Connection_proofs -------------------------
(***************************************************************************)
(* Proofs about Connection, for any set of messages, any number of serials *)
(* from two on, and any behaviour of the program and the bus.              *)
(***************************************************************************)
EXTENDS Connection, SequenceTheorems, TLAPS

----------------------------------------------------------------------------
(* Types *)

\* Taking a serial leaves a serial in nextSerial.
LEMMA NextSerialType == \A s \in Serials : (s + 1) % M \in Serials
  BY MAssumption DEF Serials

\* Variables that do not change keep their types.
LEMMA KeepHandshake == HandshakeType /\ UNCHANGED authVars => HandshakeType'
  BY DEF HandshakeType, authVars
LEMMA KeepSend == SendType /\ UNCHANGED sendVars => SendType'
  BY DEF SendType, sendVars
LEMMA KeepSocket == SocketType /\ UNCHANGED busVars => SocketType'
  BY DEF SocketType, busVars

\* Registering a message, or losing its serial, keeps the sending side's types.
LEMMA RegisterType ==
    ASSUME SendType, NEW c \in AllCalls, NEW s \in Serials, Register(c, s)
    PROVE  SendType'
<1>1. nextSerial' \in Serials
      BY NextSerialType DEF Register
<1>2. /\ replies' \in [Serials -> AllCalls \cup {NoCall}]
      /\ serial' \in [AllCalls -> Serials \cup {NoSerial}]
      BY DEF SendType, Register
<1>3. asked' \subseteq AllCalls
      BY DEF SendType, Register
<1> QED
    BY <1>1, <1>2, <1>3 DEF SendType

LEMMA RefuseType ==
    ASSUME SendType, NEW s \in Serials, Refuse(s)
    PROVE  SendType'
  BY NextSerialType DEF SendType, Refuse

\* What readFd takes from the socket is a message and leaves messages; what
\* the bus adds keeps them.
LEMMA TakeType ==
    ASSUME SocketType, inbox # <<>>
    PROVE  Head(inbox) \in Msg /\ Tail(inbox) \in Seq(Msg)
<1>1. inbox \in Seq(Msg)
      BY DEF SocketType
<1> QED
    BY <1>1, HeadTailProperties

LEMMA TakeKeepsType ==
    ASSUME SocketType, inbox # <<>>, inbox' = Tail(inbox), UNCHANGED <<torn, eof>>
    PROVE  SocketType'
<1>1. inbox' \in Seq(Msg)
      BY TakeType
<1>2. torn' \in BOOLEAN /\ eof' \in BOOLEAN
      BY DEF SocketType
<1> QED
    BY <1>1, <1>2 DEF SocketType

LEMMA DeliverType ==
    ASSUME SocketType, NEW m \in Msg, Deliver(m), UNCHANGED eof
    PROVE  SocketType'
<1>1. inbox \in Seq(Msg)
      BY DEF SocketType
<1>2. inbox' \in Seq(Msg)
      BY <1>1 DEF Deliver
<1>3. torn' \in BOOLEAN /\ eof' \in BOOLEAN
      BY DEF SocketType, Deliver
<1> QED
    BY <1>2, <1>3 DEF SocketType

\* doAuth consumes the text there is; the bus adds text.
LEMMA ReadTextType ==
    ASSUME HandshakeType, authData' = Begins(authData, authIn), authIn' = <<>>,
           UNCHANGED busLine
    PROVE  HandshakeType'
<1>1. authIn \in Seq(Text)
      BY DEF HandshakeType
<1>2. authIn # <<>> => Head(authIn) \in Text
      BY <1>1, HeadTailProperties
<1>3. authData \in {"", "ok", "other"}
      BY DEF HandshakeType
<1>4. authData' \in {"", "ok", "other"}
      BY <1>2, <1>3 DEF Begins, Text
<1>5. authIn' \in Seq(Text)
      OBVIOUS
<1> QED
    BY <1>4, <1>5 DEF HandshakeType

LEMMA AddTextType ==
    ASSUME HandshakeType, NEW t \in Text, authIn' = Append(authIn, t),
           busLine' \in {"started", "ended"}, UNCHANGED authData
    PROVE  HandshakeType'
<1>1. authIn \in Seq(Text)
      BY DEF HandshakeType
<1>2. authIn' \in Seq(Text)
      BY <1>1
<1> QED
    BY <1>2 DEF HandshakeType

\* The values every variable takes: a step stays within the types.
LEMMA TypeStep == TypeOK /\ [Next]_vars => TypeOK'
<1> SUFFICES ASSUME ControlType, HandshakeType, SendType, SocketType, [Next]_vars
             PROVE  ControlType' /\ HandshakeType' /\ SendType' /\ SocketType'
    BY DEF TypeOK
<1>1. CASE Construct
      BY <1>1, KeepHandshake, KeepSend, KeepSocket DEF Construct, ControlType, States
<1>2. CASE AuthWait
      BY <1>2, ReadTextType, KeepSend, KeepSocket
      DEF AuthWait, UpdateState, ControlType, States
<1>3. CASE AuthLine
      BY <1>3, ReadTextType, KeepSend, KeepSocket
      DEF AuthLine, UpdateState, ControlType, States
<1>4. ASSUME NEW c \in Calls, Send(c)
      PROVE  ControlType' /\ HandshakeType' /\ SendType' /\ SocketType'
      BY <1>4, RegisterType, KeepHandshake, KeepSocket DEF Send, ControlType, AllCalls
<1>5. CASE SendFails
      BY <1>5, RefuseType, KeepHandshake, KeepSocket DEF SendFails, ControlType
<1>6. CASE SendHello
      BY <1>6, RegisterType, RefuseType, KeepHandshake, KeepSocket
      DEF SendHello, UpdateState, ControlType, AllCalls, States
<1>7. CASE ReadPart
      BY <1>7, KeepHandshake, KeepSend
      DEF ReadPart, UpdateState, ControlType, SocketType, States
<1>8. CASE ReadBad
      BY <1>8, TakeKeepsType, KeepHandshake, KeepSend
      DEF ReadBad, UpdateState, ControlType, States
<1>9. CASE ReadIgnored
      BY <1>9, TakeKeepsType, KeepHandshake, KeepSend DEF ReadIgnored, ControlType
<1>10. CASE ReadReply
      <2> DEFINE m == Head(inbox)
                 c == replies[m.rs]
      <2>1. m \in Msg /\ SocketType'
            BY <1>10, TakeType, TakeKeepsType DEF ReadReply
      <2>2. m.rs \in Serials /\ c \in AllCalls
            BY <1>10, <2>1 DEF SendType, ReadReply, Matches, Msg
      <2>3. result' \in [AllCalls -> Msg \cup {NoMsg}]
            BY <1>10, <2>1, <2>2 DEF ControlType, ReadReply
      <2>4. state' \in States /\ pc' = "thenErase" /\ finishing' \in Serials
            BY <1>10, <2>2 DEF ControlType, ReadReply, UpdateState, AfterHello, States
      <2>5. HandshakeType' /\ SendType'
            BY <1>10, KeepHandshake, KeepSend DEF ReadReply
      <2>6. alive' \in BOOLEAN /\ errnoAgain' \in BOOLEAN /\ fault' \in BOOLEAN
            BY <1>10 DEF ReadReply, ControlType
      <2> QED
          BY <2>1, <2>3, <2>4, <2>5, <2>6 DEF ControlType
<1>11. CASE EraseReply
      BY <1>11, KeepHandshake, KeepSocket DEF EraseReply, ControlType, SendType
<1>12. CASE CallbackReturns
      BY <1>12, KeepHandshake, KeepSend, KeepSocket DEF CallbackReturns, ControlType
<1>13. CASE GoOnDestroyed
      BY <1>13, KeepHandshake, KeepSend, KeepSocket DEF GoOnDestroyed, ControlType
<1>14. CASE Destroy
      BY <1>14, KeepHandshake, KeepSend, KeepSocket DEF Destroy, ControlType
<1>15. CASE OtherErrno
      BY <1>15, KeepHandshake, KeepSend, KeepSocket DEF OtherErrno, ControlType
<1>16. CASE BusText
      BY <1>16, AddTextType, KeepSend, KeepSocket DEF BusText, ControlType, Text
<1>17. CASE BusEndOfLine
      BY <1>17, AddTextType, KeepSend, KeepSocket DEF BusEndOfLine, ControlType, Text
<1>18. ASSUME NEW c \in AllCalls, BusAnswer(c)
       PROVE  ControlType' /\ HandshakeType' /\ SendType' /\ SocketType'
      <2>1. PICK t \in Answers : Deliver([type |-> t, rs |-> serial[c], to |-> c])
            BY <1>18 DEF BusAnswer
      <2>2. [type |-> t, rs |-> serial[c], to |-> c] \in Msg
            BY DEF SendType, Msg
      <2>3. SocketType'
            BY <1>18, <2>1, <2>2, DeliverType DEF BusAnswer
      <2> QED
          BY <1>18, <2>3, KeepHandshake DEF BusAnswer, ControlType, SendType
<1>19. CASE BusNoise
      <2>1. PICK t \in Noise : Deliver([type |-> t, rs |-> NoSerial, to |-> NoCall])
            BY <1>19 DEF BusNoise
      <2>2. [type |-> t, rs |-> NoSerial, to |-> NoCall] \in Msg
            BY DEF Msg
      <2>3. SocketType'
            BY <1>19, <2>1, <2>2, DeliverType DEF BusNoise
      <2> QED
          BY <1>19, <2>3, KeepHandshake, KeepSend DEF BusNoise, ControlType
<1>20. CASE BusPart
      BY <1>20, KeepHandshake, KeepSend DEF BusPart, ControlType, SocketType
<1>21. CASE BusCloses
      BY <1>21, KeepHandshake, KeepSend DEF BusCloses, ControlType, SocketType
<1>22. CASE UNCHANGED vars
      BY <1>22, KeepHandshake, KeepSend, KeepSocket
      DEF vars, authVars, sendVars, busVars, ControlType
<1> QED
    BY <1>1, <1>2, <1>3, <1>4, <1>5, <1>6, <1>7, <1>8, <1>9, <1>10, <1>11,
       <1>12, <1>13, <1>14, <1>15, <1>16, <1>17, <1>18, <1>19, <1>20, <1>21, <1>22
    DEF Next, Handler, GoOn, Client, Bus

\* Every variable keeps its type: in particular nextSerial never leaves the
\* width of the serial on the wire.
THEOREM TypeCorrect == Spec => []TypeOK
<1>1. Init => TypeOK
      <2> SUFFICES ASSUME Init PROVE TypeOK
          OBVIOUS
      <2>1. /\ state = "Connecting" /\ pc = "construct" /\ alive = TRUE
            /\ errnoAgain \in BOOLEAN /\ fault = FALSE
            /\ result = [c \in AllCalls |-> NoMsg] /\ finishing = NoSerial
            BY DEF Init
      <2>2. ControlType
            BY <2>1 DEF ControlType, States
      <2>3. authData = "" /\ authIn = <<>> /\ busLine = "none"
            BY DEF Init
      <2>4. HandshakeType
            BY <2>3, EmptySeq DEF HandshakeType
      <2>5. /\ nextSerial = 1
            /\ replies = [s \in Serials |-> NoCall]
            /\ serial = [c \in AllCalls |-> NoSerial]
            /\ asked = {}
            BY DEF Init
      <2>6. SendType
            BY <2>5, MAssumption DEF SendType, Serials
      <2>7. inbox = <<>> /\ torn = FALSE /\ eof = FALSE
            BY DEF Init
      <2>8. SocketType
            BY <2>7, EmptySeq DEF SocketType
      <2> QED
          BY <2>2, <2>4, <2>6, <2>8 DEF TypeOK
<1>2. TypeOK /\ [Next]_vars => TypeOK'
      BY TypeStep
<1> QED
    BY <1>1, <1>2, PTL DEF Spec

----------------------------------------------------------------------------
(* Replies *)

\* Steps that touch neither a serial, an entry, a result nor the socket.
LEMMA CallsUntouched ==
    ASSUME CallInv,
           UNCHANGED <<inbox, replies, serial, asked, result, finishing>>,
           alive' => alive,
           pc' = "thenErase" => pc = "thenErase",
           alive' /\ pc = "thenErase" => pc' = "thenErase"
    PROVE  CallInv'
<1>1. MatchedReplies' /\ NoReplyLost' /\ EntryFiled'
      BY DEF CallInv, MatchedReplies, NoReplyLost, EntryFiled, Sent
<1>2. EntryWaits' /\ FinishingAnswered'
      BY DEF CallInv, EntryWaits, FinishingAnswered
<1>3. InboxFits' /\ InboxDistinct'
      BY DEF CallInv, InboxFits, InboxDistinct, IsAnswer
<1>4. AskedWaits' /\ UnsentWaits'
      BY DEF CallInv, AskedWaits, UnsentWaits, Sent
<1> QED
    BY <1>1, <1>2, <1>3, <1>4 DEF CallInv

\* send: a free serial, a message not sent before.
LEMMA RegisterKeepsCalls ==
    ASSUME TypeOK, CallInv, NEW c \in AllCalls, NEW s \in Serials,
           ~Sent(c), replies[s] = NoCall, Register(c, s),
           UNCHANGED <<inbox, alive, result, finishing>>,
           pc' = "thenErase" <=> pc = "thenErase"
    PROVE  CallInv'
<1>1. /\ replies \in [Serials -> AllCalls \cup {NoCall}]
      /\ serial \in [AllCalls -> Serials \cup {NoSerial}]
      /\ asked \subseteq AllCalls
      BY DEF TypeOK, SendType
<1>2. /\ replies' = [replies EXCEPT ![s] = c]
      /\ serial' = [serial EXCEPT ![c] = s]
      /\ asked' = asked \cup {c}
      BY DEF Register
<1>3. serial[c] = NoSerial /\ result[c] = NoMsg
      BY DEF Sent, CallInv, UnsentWaits
<1>4. c # NoCall /\ s # NoSerial
      BY CallAssumption, NoneAssumption
<1>5. MatchedReplies'
      BY DEF CallInv, MatchedReplies
<1>6. NoReplyLost'
      BY <1>1, <1>2, <1>4, CallAssumption DEF CallInv, NoReplyLost, Sent
<1>7. EntryFiled'
      BY <1>1, <1>2, <1>3, <1>4, NoneAssumption DEF CallInv, EntryFiled
<1>8. EntryWaits' /\ FinishingAnswered'
      BY <1>1, <1>2, <1>3, <1>4 DEF CallInv, EntryWaits, FinishingAnswered
<1>9. InboxFits'
      BY <1>1, <1>2, <1>3, <1>4 DEF CallInv, InboxFits, IsAnswer
<1>10. InboxDistinct'
      <2>1. InboxDistinct /\ inbox' = inbox
            BY DEF CallInv
      <2> QED
          BY <2>1 DEF InboxDistinct, IsAnswer
<1>11. AskedWaits' /\ UnsentWaits'
      BY <1>1, <1>2, <1>3, <1>4 DEF CallInv, AskedWaits, UnsentWaits, Sent
<1> QED
    BY <1>5, <1>6, <1>7, <1>8, <1>9, <1>10, <1>11 DEF CallInv

\* Taking the first message out of the socket shifts the others.
LEMMA TailShifts ==
    ASSUME TypeOK, inbox # <<>>, inbox' = Tail(inbox)
    PROVE  /\ 1 \in 1 .. Len(inbox) /\ inbox[1] = Head(inbox)
           /\ \A i \in 1 .. Len(inbox') : /\ i + 1 \in 1 .. Len(inbox)
                                          /\ inbox'[i] = inbox[i + 1]
                                          /\ i + 1 # 1
<1>1. inbox \in Seq(Msg)
      BY DEF TypeOK, SocketType
<1>2. Len(inbox) \in Nat \ {0}
      BY <1>1, EmptySeq
<1>3. /\ Len(Tail(inbox)) = Len(inbox) - 1
      /\ \A i \in 1 .. Len(Tail(inbox)) : Tail(inbox)[i] = inbox[i + 1]
      BY <1>1, HeadTailProperties
<1> QED
    BY <1>1, <1>2, <1>3

LEMMA TakeKeepsInbox ==
    ASSUME TypeOK, CallInv, inbox # <<>>, inbox' = Tail(inbox),
           UNCHANGED <<serial, asked, result>>
    PROVE  InboxFits' /\ InboxDistinct'
<1>1. InboxFits'
      BY TailShifts DEF CallInv, InboxFits, IsAnswer
<1>2. InboxDistinct'
      <2> SUFFICES ASSUME NEW i \in 1 .. Len(inbox'), NEW j \in 1 .. Len(inbox'),
                          IsAnswer(inbox'[i]), IsAnswer(inbox'[j]),
                          inbox'[i].to = inbox'[j].to
                   PROVE  i = j
          BY DEF InboxDistinct, IsAnswer
      <2>1. i + 1 = j + 1
            BY TailShifts DEF CallInv, InboxDistinct, IsAnswer
      <2> QED
          BY <2>1
<1> QED
    BY <1>1, <1>2

\* readFd takes a message that completes nothing.
LEMMA IgnoredKeepsCalls ==
    ASSUME TypeOK, CallInv, inbox # <<>>, inbox' = Tail(inbox),
           UNCHANGED <<replies, serial, asked, result, finishing, alive>>,
           pc = "loop", pc' # "thenErase"
    PROVE  CallInv'
<1>1. MatchedReplies' /\ NoReplyLost' /\ EntryFiled'
      BY DEF CallInv, MatchedReplies, NoReplyLost, EntryFiled, Sent
<1>2. EntryWaits' /\ FinishingAnswered'
      BY DEF CallInv, EntryWaits, FinishingAnswered
<1>3. InboxFits' /\ InboxDistinct'
      BY TakeKeepsInbox
<1>4. AskedWaits' /\ UnsentWaits'
      BY DEF CallInv, AskedWaits, UnsentWaits, Sent
<1> QED
    BY <1>1, <1>2, <1>3, <1>4 DEF CallInv

\* An answer to a message that waits reaches the reply of that very message.
LEMMA AnswerFindsItsCall ==
    ASSUME TypeOK, CallInv, inbox # <<>>, Matches(Head(inbox))
    PROVE  LET m == Head(inbox)
           IN  /\ m \in Msg /\ m.rs \in Serials /\ m.to \in AllCalls
               /\ replies[m.rs] = m.to /\ serial[m.to] = m.rs /\ result[m.to] = NoMsg
               /\ m.to \notin asked
<1> DEFINE m == Head(inbox)
<1>1. m \in Msg
      BY TakeType DEF TypeOK
<1>2. m.rs \in Serials
      BY <1>1 DEF Matches, Msg
<1>3. inbox[1] = m /\ 1 \in 1 .. Len(inbox)
      <2>1. inbox \in Seq(Msg)
            BY DEF TypeOK, SocketType
      <2> QED
          BY <2>1, EmptySeq
<1>4. IsAnswer(m)
      BY <1>2, NoneAssumption DEF IsAnswer
<1>5. m.to \in AllCalls /\ serial[m.to] = m.rs /\ result[m.to] = NoMsg /\ m.to \notin asked
      BY <1>3, <1>4 DEF CallInv, InboxFits
<1>6. replies[m.rs] = m.to
      BY <1>2, <1>5, NoneAssumption DEF CallInv, NoReplyLost, Sent
<1> QED
    BY <1>1, <1>2, <1>5, <1>6

\* handleBusMsg up to the Finished callback.
LEMMA ReplyKeepsCalls ==
    ASSUME TypeOK, CallInv, ReadReply
    PROVE  CallInv'
<1> DEFINE m == Head(inbox)
           c == m.to
<1>1. inbox # <<>> /\ Matches(m) /\ pc = "loop" /\ alive
      BY DEF ReadReply, Reading
<1>2. /\ m \in Msg /\ m.rs \in Serials /\ c \in AllCalls
      /\ replies[m.rs] = c /\ serial[c] = m.rs /\ result[c] = NoMsg
      /\ c \notin asked
      BY <1>1, AnswerFindsItsCall
<1>3. /\ result' = [result EXCEPT ![c] = m]
      /\ inbox' = Tail(inbox)
      /\ pc' = "thenErase" /\ finishing' = m.rs
      /\ UNCHANGED <<replies, serial, asked, alive>>
      BY <1>2 DEF ReadReply, UpdateState, sendVars
<1>4. /\ m # NoMsg /\ c # NoCall
      /\ result \in [AllCalls -> Msg \cup {NoMsg}]
      /\ replies \in [Serials -> AllCalls \cup {NoCall}]
      BY <1>2, NoneAssumption, CallAssumption DEF TypeOK, ControlType, SendType
<1> HIDE DEF m, c
<1>5. result'[c] = m /\ \A d \in AllCalls : d # c => result'[d] = result[d]
      BY <1>2, <1>3, <1>4
<1>6. MatchedReplies'
      <2>1. m.to = c
            BY DEF c
      <2> QED
          BY <1>5, <2>1 DEF CallInv, MatchedReplies
<1>7. NoReplyLost'
      BY <1>3, <1>4, <1>5 DEF CallInv, NoReplyLost, Sent
<1>8. EntryFiled'
      BY <1>3 DEF CallInv, EntryFiled
<1>9. EntryWaits'
      BY <1>1, <1>2, <1>3, <1>4, <1>5 DEF CallInv, EntryWaits, EntryFiled
<1>10. FinishingAnswered'
      BY <1>2, <1>3, <1>4, <1>5 DEF FinishingAnswered
<1>11. InboxFits' /\ InboxDistinct'
      <2> SUFFICES ASSUME NEW i \in 1 .. Len(inbox'), IsAnswer(inbox'[i])
                   PROVE  /\ inbox'[i].to \in AllCalls
                          /\ serial'[inbox'[i].to] = inbox'[i].rs
                          /\ result'[inbox'[i].to] = NoMsg
                          /\ inbox'[i].to \notin asked'
          <3>1. InboxDistinct'
                <4> SUFFICES ASSUME NEW k \in 1 .. Len(inbox'), NEW j \in 1 .. Len(inbox'),
                                    IsAnswer(inbox'[k]), IsAnswer(inbox'[j]),
                                    inbox'[k].to = inbox'[j].to
                             PROVE  k = j
                    BY DEF InboxDistinct, IsAnswer
                <4>1. k + 1 = j + 1
                      BY <1>1, <1>3, TailShifts DEF CallInv, InboxDistinct, IsAnswer
                <4> QED
                    BY <4>1
          <3> QED
              BY <3>1 DEF InboxFits, IsAnswer
      <2>1. /\ i + 1 \in 1 .. Len(inbox) /\ inbox'[i] = inbox[i + 1] /\ i + 1 # 1
            /\ 1 \in 1 .. Len(inbox) /\ inbox[1] = m
            BY <1>1, <1>3, TailShifts DEF m
      <2>2. IsAnswer(inbox[1]) /\ inbox[1].to = c
            BY <1>2, <2>1, NoneAssumption DEF IsAnswer, c
      <2>3. inbox[i + 1].to # c
            BY <2>1, <2>2 DEF CallInv, InboxDistinct
      <2>4. /\ inbox[i + 1].to \in AllCalls
            /\ serial[inbox[i + 1].to] = inbox[i + 1].rs
            /\ result[inbox[i + 1].to] = NoMsg
            /\ inbox[i + 1].to \notin asked
            BY <2>1 DEF CallInv, InboxFits
      <2> QED
          BY <1>3, <1>5, <2>1, <2>3, <2>4
<1>12. AskedWaits' /\ UnsentWaits'
      BY <1>2, <1>3, <1>4, <1>5, NoneAssumption
      DEF CallInv, AskedWaits, UnsentWaits, Sent, TypeOK, SendType
<1> QED
    BY <1>6, <1>7, <1>8, <1>9, <1>10, <1>11, <1>12 DEF CallInv

\* handleBusMsg after the Finished callback: the entry erased is not one that
\* a message sent by the callback waits under.
LEMMA EraseKeepsCalls ==
    ASSUME TypeOK, CallInv, EraseReply
    PROVE  CallInv'
<1>1. /\ replies \in [Serials -> AllCalls \cup {NoCall}]
      /\ serial \in [AllCalls -> Serials \cup {NoSerial}]
      BY DEF TypeOK, SendType
<1>2. /\ pc = "thenErase" /\ alive /\ pc' = "loop"
      /\ replies' = [replies EXCEPT ![finishing] = NoCall]
      /\ UNCHANGED <<inbox, serial, asked, result, alive>>
      BY DEF EraseReply, busVars
<1>3. /\ finishing \in Serials
      /\ replies[finishing] # NoCall /\ result[replies[finishing]] # NoMsg
      BY <1>2 DEF CallInv, FinishingAnswered
<1>4. MatchedReplies' /\ FinishingAnswered'
      BY <1>2 DEF CallInv, MatchedReplies, FinishingAnswered
<1>5. NoReplyLost'
      BY <1>1, <1>2, <1>3 DEF CallInv, NoReplyLost, Sent
<1>6. EntryFiled' /\ EntryWaits'
      BY <1>1, <1>2, <1>3 DEF CallInv, EntryFiled, EntryWaits
<1>7. InboxFits' /\ InboxDistinct'
      BY <1>2 DEF CallInv, InboxFits, InboxDistinct, IsAnswer
<1>8. AskedWaits' /\ UnsentWaits'
      BY <1>2 DEF CallInv, AskedWaits, UnsentWaits, Sent
<1> QED
    BY <1>4, <1>5, <1>6, <1>7, <1>8 DEF CallInv

\* The bus answers a message it was asked and forgets it.
LEMMA AnswerKeepsCalls ==
    ASSUME TypeOK, CallInv, NEW c \in AllCalls, BusAnswer(c)
    PROVE  CallInv'
<1>1. PICK t \in Answers : Deliver([type |-> t, rs |-> serial[c], to |-> c])
      BY DEF BusAnswer
<1> DEFINE m == [type |-> t, rs |-> serial[c], to |-> c]
<1>2. /\ c \in asked /\ asked' = asked \ {c}
      /\ UNCHANGED <<pc, alive, replies, serial, result, finishing>>
      BY DEF BusAnswer
<1>3. result[c] = NoMsg
      BY <1>2 DEF CallInv, AskedWaits
<1>4. /\ Len(inbox) \in Nat /\ Len(inbox') = Len(inbox) + 1
      /\ \A i \in 1 .. Len(inbox) : inbox'[i] = inbox[i]
      /\ inbox'[Len(inbox) + 1] = m
      <2>1. inbox \in Seq(Msg) /\ m \in Msg
            BY DEF TypeOK, SocketType, SendType, Msg
      <2>2. inbox' = Append(inbox, m)
            BY <1>1 DEF Deliver
      <2> QED
          BY <2>1, <2>2
<1>5. m.rs = serial[c] /\ m.to = c
      OBVIOUS
<1> HIDE DEF m
<1>6. MatchedReplies' /\ NoReplyLost' /\ EntryFiled'
      BY <1>2 DEF CallInv, MatchedReplies, NoReplyLost, EntryFiled, Sent
<1>7. EntryWaits' /\ FinishingAnswered'
      BY <1>2 DEF CallInv, EntryWaits, FinishingAnswered
<1>8. InboxFits'
      <2> SUFFICES ASSUME NEW i \in 1 .. Len(inbox'), IsAnswer(inbox'[i])
                   PROVE  /\ inbox'[i].to \in AllCalls
                          /\ serial'[inbox'[i].to] = inbox'[i].rs
                          /\ result'[inbox'[i].to] = NoMsg
                          /\ inbox'[i].to \notin asked'
          BY DEF InboxFits, IsAnswer
      <2>1. CASE i = Len(inbox) + 1
            BY <1>2, <1>3, <1>4, <1>5, <2>1
      <2>2. CASE i \in 1 .. Len(inbox)
            BY <1>2, <1>4, <2>2 DEF CallInv, InboxFits
      <2> QED
          BY <1>4, <2>1, <2>2
<1>9. InboxDistinct'
      <2> SUFFICES ASSUME NEW i \in 1 .. Len(inbox'), NEW j \in 1 .. Len(inbox'),
                          IsAnswer(inbox'[i]), IsAnswer(inbox'[j]),
                          inbox'[i].to = inbox'[j].to
                   PROVE  i = j
          BY DEF InboxDistinct, IsAnswer
      <2>1. \A k \in 1 .. Len(inbox) : IsAnswer(inbox[k]) => inbox[k].to # c
            BY <1>2 DEF CallInv, InboxFits
      <2>2. CASE i \in 1 .. Len(inbox) /\ j \in 1 .. Len(inbox)
            BY <1>4, <2>2 DEF CallInv, InboxDistinct
      <2>3. CASE i = Len(inbox) + 1 /\ j \in 1 .. Len(inbox)
            BY <1>4, <1>5, <2>1, <2>3
      <2>4. CASE i \in 1 .. Len(inbox) /\ j = Len(inbox) + 1
            BY <1>4, <1>5, <2>1, <2>4
      <2> QED
          BY <1>4, <2>2, <2>3, <2>4
<1>10. AskedWaits' /\ UnsentWaits'
       BY <1>2 DEF CallInv, AskedWaits, UnsentWaits, Sent
<1> QED
    BY <1>6, <1>7, <1>8, <1>9, <1>10 DEF CallInv

\* What else the bus writes is no answer.
LEMMA NoiseKeepsCalls ==
    ASSUME TypeOK, CallInv, BusNoise
    PROVE  CallInv'
<1>1. PICK t \in Noise : Deliver([type |-> t, rs |-> NoSerial, to |-> NoCall])
      BY DEF BusNoise
<1> DEFINE m == [type |-> t, rs |-> NoSerial, to |-> NoCall]
<1>2. UNCHANGED <<pc, alive, replies, serial, asked, result, finishing>>
      BY DEF BusNoise, sendVars
<1>3. /\ Len(inbox) \in Nat /\ Len(inbox') = Len(inbox) + 1
      /\ \A i \in 1 .. Len(inbox) : inbox'[i] = inbox[i]
      /\ inbox'[Len(inbox) + 1] = m
      <2>1. inbox \in Seq(Msg) /\ m \in Msg
            BY DEF TypeOK, SocketType, Msg
      <2>2. inbox' = Append(inbox, m)
            BY <1>1 DEF Deliver
      <2> QED
          BY <2>1, <2>2
<1>4. \A i \in 1 .. Len(inbox') : IsAnswer(inbox'[i]) =>
          i \in 1 .. Len(inbox) /\ inbox'[i] = inbox[i] /\ IsAnswer(inbox[i])
      BY <1>3 DEF IsAnswer
<1>5. MatchedReplies' /\ NoReplyLost' /\ EntryFiled'
      BY <1>2 DEF CallInv, MatchedReplies, NoReplyLost, EntryFiled, Sent
<1>6. EntryWaits' /\ FinishingAnswered'
      BY <1>2 DEF CallInv, EntryWaits, FinishingAnswered
<1>7. InboxFits'
      <2> SUFFICES ASSUME NEW i \in 1 .. Len(inbox'), IsAnswer(inbox'[i])
                   PROVE  /\ inbox'[i].to \in AllCalls
                          /\ serial'[inbox'[i].to] = inbox'[i].rs
                          /\ result'[inbox'[i].to] = NoMsg
                          /\ inbox'[i].to \notin asked'
          BY DEF InboxFits, IsAnswer
      <2> QED
          BY <1>2, <1>4 DEF CallInv, InboxFits
<1>8. InboxDistinct'
      <2> SUFFICES ASSUME NEW i \in 1 .. Len(inbox'), NEW j \in 1 .. Len(inbox'),
                          IsAnswer(inbox'[i]), IsAnswer(inbox'[j]),
                          inbox'[i].to = inbox'[j].to
                   PROVE  i = j
          BY DEF InboxDistinct, IsAnswer
      <2> QED
          BY <1>4 DEF CallInv, InboxDistinct
<1>9. AskedWaits' /\ UnsentWaits'
      BY <1>2 DEF CallInv, AskedWaits, UnsentWaits, Sent
<1> QED
    BY <1>5, <1>6, <1>7, <1>8, <1>9 DEF CallInv

\* Every step keeps what is known of replies.
LEMMA CallStep ==
    TypeOK /\ CallInv /\ HelloInv /\ [Next]_vars => CallInv'
<1> SUFFICES ASSUME TypeOK, CallInv, HelloInv, [Next]_vars PROVE CallInv'
    OBVIOUS
<1>1. CASE Construct
      BY <1>1, CallsUntouched DEF Construct, sendVars, busVars
<1>2. CASE AuthWait
      BY <1>2, CallsUntouched DEF AuthWait, InAuth, UpdateState, sendVars, busVars
<1>3. CASE AuthLine
      BY <1>3, CallsUntouched DEF AuthLine, InAuth, UpdateState, sendVars, busVars
<1>4. ASSUME NEW c \in Calls, Send(c) PROVE CallInv'
      <2>1. PICK s \in Serials : IsNextFree(s) /\ Register(c, s)
            BY <1>4 DEF Send
      <2>2. c \in AllCalls /\ ~Sent(c) /\ replies[s] = NoCall
            BY <1>4, <2>1 DEF Send, Sent, IsNextFree, AllCalls
      <2> QED
          BY <1>4, <2>1, <2>2, RegisterKeepsCalls DEF Send, busVars
<1>5. CASE SendFails
      BY <1>5, CallsUntouched DEF SendFails, Refuse, busVars
<1>6. CASE SendHello
      <2>1. PICK s \in Serials :
               /\ IsNextFree(s)
               /\ \/ Register(Hello, s) /\ pc' = "loop" /\ UNCHANGED state
                  \/ Refuse(s) /\ UpdateState("Error", "thenLoop")
            BY <1>6 DEF SendHello
      <2>2. CASE Register(Hello, s) /\ pc' = "loop"
            <3>1. Hello \in AllCalls /\ ~Sent(Hello) /\ replies[s] = NoCall
                  BY <1>6, <2>1 DEF SendHello, HelloInv, IsNextFree, AllCalls
            <3> QED
                BY <1>6, <2>1, <2>2, <3>1, RegisterKeepsCalls DEF SendHello, busVars
      <2>3. CASE Refuse(s) /\ UpdateState("Error", "thenLoop")
            BY <1>6, <2>3, CallsUntouched DEF SendHello, Refuse, UpdateState, busVars
      <2> QED
          BY <2>1, <2>2, <2>3
<1>7. CASE ReadPart
      BY <1>7, CallsUntouched DEF ReadPart, Reading, UpdateState, sendVars
<1>8. CASE ReadBad
      BY <1>8, IgnoredKeepsCalls DEF ReadBad, Reading, UpdateState, sendVars
<1>9. CASE ReadIgnored
      BY <1>9, IgnoredKeepsCalls DEF ReadIgnored, Reading, sendVars
<1>10. CASE ReadReply
       BY <1>10, ReplyKeepsCalls
<1>11. CASE EraseReply
       BY <1>11, EraseKeepsCalls
<1>12. CASE CallbackReturns
       BY <1>12, CallsUntouched DEF CallbackReturns, sendVars, busVars
<1>13. CASE GoOnDestroyed
       BY <1>13, CallsUntouched DEF GoOnDestroyed, sendVars, busVars
<1>14. CASE Destroy
       BY <1>14, CallsUntouched DEF Destroy, sendVars, busVars
<1>15. CASE OtherErrno
       BY <1>15, CallsUntouched DEF OtherErrno, sendVars, busVars
<1>16. CASE BusText
       BY <1>16, CallsUntouched DEF BusText, sendVars, busVars
<1>17. CASE BusEndOfLine
       BY <1>17, CallsUntouched DEF BusEndOfLine, sendVars, busVars
<1>18. ASSUME NEW c \in AllCalls, BusAnswer(c) PROVE CallInv'
       BY <1>18, AnswerKeepsCalls
<1>19. CASE BusNoise
       BY <1>19, NoiseKeepsCalls
<1>20. CASE BusPart
       BY <1>20, CallsUntouched DEF BusPart, sendVars
<1>21. CASE BusCloses
       BY <1>21, CallsUntouched DEF BusCloses, sendVars
<1>22. CASE UNCHANGED vars
       BY <1>22, CallsUntouched DEF vars
<1> QED
    BY <1>1, <1>2, <1>3, <1>4, <1>5, <1>6, <1>7, <1>8, <1>9, <1>10, <1>11,
       <1>12, <1>13, <1>14, <1>15, <1>16, <1>17, <1>18, <1>19, <1>20, <1>21, <1>22
    DEF Next, Handler, GoOn, Client, Bus

----------------------------------------------------------------------------
(* The handshake and the invariant as a whole *)

\* Steps that do not move the connection and send no message.
LEMMA HelloUntouched ==
    ASSUME HelloInv, UNCHANGED <<state, pc, serial>>
    PROVE  HelloInv'
  BY DEF HelloInv, Sent

\* Hello is sent by doGetName alone, and doGetName goes on in GettingName.
LEMMA HelloStep == TypeOK /\ HelloInv /\ [Next]_vars => HelloInv'
<1> SUFFICES ASSUME TypeOK, HelloInv, [Next]_vars PROVE HelloInv'
    OBVIOUS
<1>1. CASE Construct
      BY <1>1 DEF Construct, sendVars, HelloInv, Sent
<1>2. CASE AuthWait
      BY <1>2 DEF AuthWait, InAuth, UpdateState, sendVars, HelloInv, Sent
<1>3. CASE AuthLine
      BY <1>3 DEF AuthLine, InAuth, UpdateState, sendVars, HelloInv, Sent
<1>4. ASSUME NEW c \in Calls, Send(c) PROVE HelloInv'
      <2>1. PICK s \in Serials : Register(c, s)
            BY <1>4 DEF Send
      <2>2. serial'[Hello] = serial[Hello] /\ UNCHANGED <<state, pc>>
            BY <1>4, <2>1, CallAssumption DEF Send, Register, TypeOK, SendType, AllCalls
      <2> QED
          BY <2>2 DEF HelloInv, Sent
<1>5. CASE SendFails
      BY <1>5, HelloUntouched DEF SendFails, Refuse
<1>6. CASE SendHello
      <2>1. \/ pc' = "loop" /\ state' = "GettingName"
            \/ pc' = "thenLoop" /\ state' = "Error"
            BY <1>6 DEF SendHello, UpdateState, HelloInv
      <2> QED
          BY <2>1 DEF HelloInv
<1>7. CASE ReadPart
      BY <1>7 DEF ReadPart, Reading, Usable, UpdateState, sendVars, HelloInv, Sent
<1>8. CASE ReadBad
      BY <1>8 DEF ReadBad, UpdateState, HelloInv
<1>9. CASE ReadIgnored
      BY <1>9, HelloUntouched DEF ReadIgnored, sendVars
<1>10. CASE ReadReply
       BY <1>10 DEF ReadReply, Reading, Usable, UpdateState, AfterHello, HelloInv
<1>11. CASE EraseReply
       BY <1>11 DEF EraseReply, HelloInv, Sent
<1>12. CASE CallbackReturns
       BY <1>12 DEF CallbackReturns, sendVars, HelloInv, Sent
<1>13. CASE GoOnDestroyed
       BY <1>13 DEF GoOnDestroyed, sendVars, HelloInv, Sent
<1>14. CASE Destroy \/ OtherErrno
       BY <1>14, HelloUntouched DEF Destroy, OtherErrno, sendVars
<1>15. CASE BusText \/ BusEndOfLine
       BY <1>15, HelloUntouched DEF BusText, BusEndOfLine, sendVars
<1>16. ASSUME NEW c \in AllCalls, BusAnswer(c) PROVE HelloInv'
       BY <1>16, HelloUntouched DEF BusAnswer
<1>17. CASE BusNoise \/ BusPart \/ BusCloses
       BY <1>17, HelloUntouched DEF BusNoise, BusPart, BusCloses, sendVars
<1>18. CASE UNCHANGED vars
       BY <1>18, HelloUntouched DEF vars
<1> QED
    BY <1>1, <1>2, <1>3, <1>4, <1>5, <1>6, <1>7, <1>8, <1>9, <1>10, <1>11,
       <1>12, <1>13, <1>14, <1>15, <1>16, <1>17, <1>18
    DEF Next, Handler, GoOn, Client, Bus

\* Nothing has been sent, answered or received when the connection is made.
LEMMA InitCalls == Init => CallInv /\ HelloInv
<1> SUFFICES ASSUME Init PROVE CallInv /\ HelloInv
    OBVIOUS
<1>1. /\ replies = [s \in Serials |-> NoCall]
      /\ serial = [c \in AllCalls |-> NoSerial]
      /\ result = [c \in AllCalls |-> NoMsg]
      /\ asked = {}
      BY DEF Init
<1>2. pc = "construct" /\ state = "Connecting"
      BY DEF Init
<1>3. inbox = <<>>
      BY DEF Init
<1>4. MatchedReplies /\ NoReplyLost /\ EntryFiled /\ AskedWaits /\ UnsentWaits
      BY <1>1 DEF MatchedReplies, NoReplyLost, EntryFiled, AskedWaits, UnsentWaits, Sent
<1>5. EntryWaits /\ FinishingAnswered
      BY <1>1, <1>2 DEF EntryWaits, FinishingAnswered
<1>6. InboxFits /\ InboxDistinct
      BY <1>3 DEF InboxFits, InboxDistinct
<1>7. HelloInv
      BY <1>1, <1>2 DEF HelloInv, Sent, AllCalls
<1> QED
    BY <1>4, <1>5, <1>6, <1>7 DEF CallInv

\* The inductive invariant holds in every state: entries are filed under the
\* serials their messages were sent with, and an answer in the socket bears
\* the serial of a message that still waits.
THEOREM Invariance == Spec => []IInv
<1>1. Init => CallInv /\ HelloInv
      BY InitCalls
<1>2. TypeOK /\ CallInv /\ HelloInv /\ [Next]_vars => (CallInv /\ HelloInv)'
      BY CallStep, HelloStep
<1>3. IInv <=> TypeOK /\ CallInv /\ HelloInv
      BY DEF IInv
<1> QED
    BY <1>1, <1>2, <1>3, TypeCorrect, PTL DEF Spec

\* A pending reply is completed with the answer to its own message, for any
\* number of calls, any order of the answers and any width of the serial.
THEOREM RepliesMatch == Spec => []MatchedReplies
<1>1. IInv => MatchedReplies
      BY DEF IInv, CallInv
<1> QED
    BY <1>1, Invariance, PTL

\* A message that waits for its answer keeps its entry: a serial in use is not
\* given out again and handleBusMsg erases no other entry.
THEOREM RepliesKept == Spec => []NoReplyLost
<1>1. IInv => NoReplyLost
      BY DEF IInv, CallInv
<1> QED
    BY <1>1, Invariance, PTL

\* The table holds no answered call between handlers: setMessage never stores
\* a second message.
THEOREM EntriesOpen == Spec => []EntriesAreOpen
<1>1. IInv => EntriesAreOpen
      BY DEF IInv, CallInv, EntryWaits, EntriesAreOpen
<1> QED
    BY <1>1, Invariance, PTL

----------------------------------------------------------------------------
(* The states of the connection *)

\* What handleGetNameRespone makes of the answer to Hello: Connected only if
\* it is a return, and only while no answer was stored before.
LEMMA NamedStep ==
    TypeOK /\ CallInv /\ HelloInv /\ ConnectedMeansNamed /\ [Next]_vars
        => ConnectedMeansNamed'
<1> SUFFICES ASSUME TypeOK, CallInv, HelloInv, ConnectedMeansNamed, [Next]_vars,
                    state' = "Connected"
             PROVE  result'[Hello] # NoMsg /\ result'[Hello].type = "return"
    BY DEF ConnectedMeansNamed
<1>1. CASE ReadReply
      <2> DEFINE m == Head(inbox)
                 c == replies[m.rs]
      <2>1. /\ m \in Msg /\ c \in AllCalls /\ result[c] = NoMsg
            BY <1>1, AnswerFindsItsCall DEF ReadReply
      <2>2. result' = [result EXCEPT ![c] = m]
            BY <1>1, <2>1 DEF ReadReply
      <2>3. state' = IF c = Hello THEN AfterHello(m) ELSE state
            BY <1>1 DEF ReadReply, UpdateState
      <2>4. result \in [AllCalls -> Msg \cup {NoMsg}] /\ m # NoMsg
            BY <2>1, NoneAssumption DEF TypeOK, ControlType
      <2>5. CASE c = Hello
            <3>1. state # "Connected"
                  BY <2>1, <2>5 DEF ConnectedMeansNamed
            <3>2. m.type = "return"
                  BY <2>3, <2>5, <3>1 DEF AfterHello
            <3> QED
                BY <2>1, <2>2, <2>4, <2>5, <3>2
      <2>6. CASE c # Hello
            <3>1. result'[Hello] = result[Hello] /\ state = "Connected"
                  BY <2>2, <2>3, <2>4, <2>6 DEF AllCalls
            <3> QED
                BY <3>1 DEF ConnectedMeansNamed
      <2> QED
          BY <2>5, <2>6
<1>2. CASE ~ReadReply
      <2>1. state = "Connected" /\ UNCHANGED result
            BY <1>2 DEF Next, Handler, GoOn, Client, Bus, vars, UpdateState, Construct,
               AuthWait, AuthLine, ReadPart, ReadBad, ReadIgnored, SendHello, EraseReply,
               CallbackReturns, GoOnDestroyed, Send, SendFails, Destroy, OtherErrno,
               BusText, BusEndOfLine, BusNoise, BusPart, BusCloses, BusAnswer
      <2> QED
          BY <2>1 DEF ConnectedMeansNamed
<1> QED
    BY <1>1, <1>2

\* The program never sees Connected before the bus has given a name.
THEOREM Named == Spec => []ConnectedMeansNamed
<1>1. Init => ConnectedMeansNamed
      BY DEF Init, ConnectedMeansNamed
<1>2. IInv /\ ConnectedMeansNamed /\ [Next]_vars => ConnectedMeansNamed'
      BY NamedStep DEF IInv
<1> QED
    BY <1>1, <1>2, Invariance, PTL DEF Spec

\* Error is the last state, whatever the callbacks, the bus and the rest of
\* the process do.
THEOREM ErrorStays == Spec => ErrorIsFinal
<1>1. ASSUME HelloInv, [Next]_vars, state = "Error"
      PROVE  state' = "Error" /\ result' = result
      BY <1>1 DEF HelloInv, Next, Handler, GoOn, Client, Bus, vars, UpdateState, Construct,
         InAuth, Reading, Usable,
         AuthWait, AuthLine, ReadPart, ReadBad, ReadIgnored, ReadReply, SendHello,
         EraseReply, CallbackReturns, GoOnDestroyed, Send, SendFails, Destroy, OtherErrno,
         BusText, BusEndOfLine, BusNoise, BusPart, BusCloses, BusAnswer
<1>2. IInv /\ [Next]_vars => [state = "Error" => state' = "Error" /\ result' = result]_vars
      BY <1>1 DEF IInv
<1> QED
    BY <1>2, Invariance, PTL DEF Spec, ErrorIsFinal

----------------------------------------------------------------------------
(* The first message *)

\* Once the handshake is over and doGetName has gone on, Hello has been sent.
HelloWritten == alive /\ Usable /\ pc # "thenHello" => Sent(Hello)

LEMMA HelloWrittenStep ==
    ASSUME TypeOK, HelloInv, HelloWritten, [Next]_vars
    PROVE  HelloWritten'
<1>1. serial \in [AllCalls -> Serials \cup {NoSerial}] /\ Hello \in AllCalls
      BY DEF TypeOK, SendType, AllCalls
<1>2. CASE SendHello
      <2>1. PICK s \in Serials :
              \/ Register(Hello, s) /\ pc' = "loop" /\ UNCHANGED state
              \/ Refuse(s) /\ UpdateState("Error", "thenLoop")
            BY <1>2 DEF SendHello
      <2>2. CASE Register(Hello, s)
            BY <1>1, <2>2, NoneAssumption DEF Register, HelloWritten, Sent
      <2>3. CASE UpdateState("Error", "thenLoop")
            BY <2>3 DEF UpdateState, HelloWritten, Usable
      <2> QED
          BY <2>1, <2>2, <2>3
<1>3. ASSUME NEW c \in Calls, Send(c) PROVE HelloWritten'
      <2>1. PICK s \in Serials : serial' = [serial EXCEPT ![c] = s]
            BY <1>3 DEF Send, Register
      <2>2. UNCHANGED <<state, pc, alive>>
            BY <1>3 DEF Send
      <2>3. Sent(Hello) => (Sent(Hello))'
            BY <1>1, <2>1, CallAssumption DEF Sent
      <2> QED
          BY <2>2, <2>3 DEF HelloWritten, Usable
<1>4. CASE ~SendHello /\ ~(\E c \in Calls : Send(c))
      <2>1. UNCHANGED serial
            BY <1>4 DEF Next, Handler, GoOn, Client, Bus, vars, sendVars, Refuse, Construct,
               AuthWait, AuthLine, ReadPart, ReadBad, ReadIgnored, ReadReply, EraseReply,
               CallbackReturns, GoOnDestroyed, SendFails, Destroy, OtherErrno,
               BusText, BusEndOfLine, BusNoise, BusPart, BusCloses, BusAnswer
      <2>2. alive' /\ Usable' /\ pc' # "thenHello" => alive /\ Usable /\ pc # "thenHello"
            BY <1>4 DEF HelloInv, Next, Handler, GoOn, Client, Bus, vars, Usable, UpdateState,
               Construct, InAuth, Reading,
               AuthWait, AuthLine, ReadPart, ReadBad, ReadIgnored, ReadReply, EraseReply,
               CallbackReturns, GoOnDestroyed, SendFails, Destroy, OtherErrno,
               BusText, BusEndOfLine, BusNoise, BusPart, BusCloses, BusAnswer
      <2> QED
          BY <2>1, <2>2 DEF HelloWritten, Sent
<1> QED
    BY <1>2, <1>3, <1>4

LEMMA OnlySendSends ==
    ASSUME TypeOK, [Next]_vars, NEW c \in Calls, ~Sent(c), (Sent(c))'
    PROVE  \E b \in Calls : Send(b)
<1>1. serial'[c] # serial[c] /\ serial \in [AllCalls -> Serials \cup {NoSerial}]
      BY DEF Sent, TypeOK, SendType
<1>2. CASE SendHello
      <2>1. UNCHANGED serial \/ \E s \in Serials : serial' = [serial EXCEPT ![Hello] = s]
            BY <1>2 DEF SendHello, Register, Refuse
      <2> QED
          BY <1>1, <2>1, CallAssumption DEF AllCalls
<1>3. CASE ~SendHello /\ ~(\E b \in Calls : Send(b))
      <2>1. UNCHANGED serial
            BY <1>3 DEF Next, Handler, GoOn, Client, Bus, vars, sendVars, Refuse, Construct,
               AuthWait, AuthLine, ReadPart, ReadBad, ReadIgnored, ReadReply, EraseReply,
               CallbackReturns, GoOnDestroyed, SendFails, Destroy, OtherErrno,
               BusText, BusEndOfLine, BusNoise, BusPart, BusCloses, BusAnswer
      <2> QED
          BY <1>1, <2>1
<1> QED
    BY <1>2, <1>3

\* For every program: only what it sends in the callback of
\* StateChanged(GettingName) reaches the bus before Hello.
THEOREM HelloIsFirst == Spec => HelloFirst
<1>1. Init => HelloWritten
      BY DEF Init, HelloWritten, Usable
<1>2. IInv /\ HelloWritten /\ [Next]_vars => HelloWritten'
      BY HelloWrittenStep DEF IInv
<1>3. IInv /\ HelloWritten /\ [Next]_vars
        => [\A c \in Calls : ~Sent(c) /\ (Sent(c))' => Sent(Hello) \/ pc = "thenHello"]_vars
      <2> SUFFICES ASSUME TypeOK, HelloWritten, [Next]_vars,
                          NEW c \in Calls, ~Sent(c), (Sent(c))'
                   PROVE  Sent(Hello) \/ pc = "thenHello"
          BY DEF IInv
      <2>1. PICK b \in Calls : Send(b)
            BY OnlySendSends
      <2> QED
          BY <2>1 DEF Send, ClientRuns, HelloWritten
<1> QED
    BY <1>1, <1>2, <1>3, Invariance, PTL DEF Spec, HelloFirst

----------------------------------------------------------------------------
(* The connection implements CallPromise *)

Outcome == [c \in Calls |->
              IF ~Sent(c) THEN [phase |-> "unsent"]
              ELSE IF result[c] = NoMsg THEN [phase |-> "pending"]
              ELSE [phase |-> "answered", to |-> result[c].to]]

\* The link a state stands for, one case a line.
LEMMA LinkIs ==
    ASSUME state \in States
    PROVE  /\ ~alive \/ state = "Error" => Link = "down"
           /\ alive /\ state \in {"Connecting", "Auth"} => Link = "handshake"
           /\ alive /\ state = "GettingName" => Link = "naming"
           /\ alive /\ state = "Connected" => Link = "open"
  BY DEF Link, States

LEMMA LinkIsThen ==
    ASSUME state' \in States
    PROVE  /\ ~alive' \/ state' = "Error" => Link' = "down"
           /\ alive' /\ state' \in {"Connecting", "Auth"} => Link' = "handshake"
           /\ alive' /\ state' = "GettingName" => Link' = "naming"
           /\ alive' /\ state' = "Connected" => Link' = "open"
  BY DEF Link, States

\* A step that neither sends nor completes a call leaves the outcomes alone.
LEMMA OutcomeUntouched ==
    ASSUME \A c \in Calls : (Sent(c))' = Sent(c) /\ result'[c] = result[c]
    PROVE  Outcome' = Outcome
  BY DEF Outcome

\* How the connection moves in steps that complete no call of the program.
LEMMA LinkMoves ==
    ASSUME TypeOK, TypeOK', HelloInv, [Next]_vars
    PROVE  \/ UNCHANGED Link
           \/ Link = "handshake" /\ Link' = "naming"
           \/ Link = "naming" /\ Link' = "open"
           \/ Link' = "down"
<1>1. state \in States /\ state' \in States
      BY DEF TypeOK, ControlType
<1>2. alive' => alive
      BY DEF Next, Handler, GoOn, Client, Bus, vars, Construct, AuthWait, AuthLine, ReadPart,
         ReadBad, ReadIgnored, ReadReply, SendHello, EraseReply, CallbackReturns,
         GoOnDestroyed, Send, SendFails, Destroy, OtherErrno, BusText, BusEndOfLine,
         BusNoise, BusPart, BusCloses, BusAnswer
<1>3. \/ state' = state
      \/ state' = "Error"
      \/ state = "Connecting" /\ state' = "Auth"
      \/ state = "Auth" /\ state' = "GettingName"
      \/ state = "GettingName" /\ state' = "Connected"
      BY DEF HelloInv, Next, Handler, GoOn, Client, Bus, vars, UpdateState, Construct, InAuth,
         Reading, Usable, AfterHello, AuthWait, AuthLine, ReadPart, ReadBad, ReadIgnored,
         ReadReply, SendHello, EraseReply, CallbackReturns, GoOnDestroyed, Send, SendFails,
         Destroy, OtherErrno, BusText, BusEndOfLine, BusNoise, BusPart, BusCloses, BusAnswer
<1> QED
    BY <1>1, <1>2, <1>3, LinkIs, LinkIsThen DEF States

\* Steps other than Send and ReadReply leave every call of the program as it is.
LEMMA OthersKeepOutcome ==
    ASSUME TypeOK, [Next]_vars, ~ReadReply, ~(\E c \in Calls : Send(c))
    PROVE  Outcome' = Outcome
<1>1. UNCHANGED result
      BY DEF Next, Handler, GoOn, Client, Bus, vars, Construct, AuthWait, AuthLine, ReadPart,
         ReadBad, ReadIgnored, SendHello, EraseReply, CallbackReturns, GoOnDestroyed,
         SendFails, Destroy, OtherErrno, BusText, BusEndOfLine, BusNoise, BusPart,
         BusCloses, BusAnswer
<1>2. UNCHANGED serial \/ \E s \in Serials : serial' = [serial EXCEPT ![Hello] = s]
      BY DEF Next, Handler, GoOn, Client, Bus, vars, sendVars, Refuse, Register, Construct,
         AuthWait, AuthLine, ReadPart, ReadBad, ReadIgnored, SendHello, EraseReply,
         CallbackReturns, GoOnDestroyed, SendFails, Destroy, OtherErrno, BusText,
         BusEndOfLine, BusNoise, BusPart, BusCloses, BusAnswer
<1>3. \A c \in Calls : serial'[c] = serial[c]
      BY <1>2, CallAssumption DEF TypeOK, SendType, AllCalls
<1> QED
    BY <1>1, <1>3, OutcomeUntouched DEF Sent

\* Completing a waiting call while the link is up is a step of the promise.
LEMMA FinishIsAStep ==
    ASSUME NEW c \in Calls, Link \in {"naming", "open"}, UNCHANGED Link,
           Outcome[c] = [phase |-> "pending"],
           Outcome' = [Outcome EXCEPT ![c] = [phase |-> "answered", to |-> c]]
    PROVE  Promise!Next
<1>1. Promise!Finish(c)
      BY DEF Promise!Finish, Promise!Usable, Promise!Pending, Promise!Answer, Outcome
<1> QED
    BY <1>1 DEF Promise!Next

\* Every step of the connection is a step of the promise, or a stutter.
LEMMA PromiseStep ==
    ASSUME IInv, IInv', [Next]_vars
    PROVE  Promise!Next \/ UNCHANGED <<Link, Outcome>>
<1>1. TypeOK /\ TypeOK' /\ CallInv /\ HelloInv
      BY DEF IInv
<1>2. /\ state \in States /\ state' \in States
      /\ serial \in [AllCalls -> Serials \cup {NoSerial}]
      /\ result \in [AllCalls -> Msg \cup {NoMsg}]
      BY <1>1 DEF TypeOK, ControlType, SendType
<1>3. ASSUME Outcome' = Outcome
      PROVE  Promise!Next \/ UNCHANGED <<Link, Outcome>>
      <2>1. UNCHANGED Link \/ Promise!Rise \/ Promise!Fall
            BY <1>1, <1>3, LinkMoves DEF Promise!Rise, Promise!Fall, Outcome
      <2> QED
          BY <1>3, <2>1 DEF Promise!Next
<1>4. CASE ReadReply
      <2> DEFINE m == Head(inbox)
                 call == m.to
      <2>1. /\ m \in Msg /\ m.rs \in Serials /\ call \in AllCalls
            /\ replies[m.rs] = call /\ serial[call] = m.rs /\ result[call] = NoMsg
            BY <1>1, <1>4, AnswerFindsItsCall DEF ReadReply
      <2>2. /\ result' = [result EXCEPT ![call] = m] /\ UNCHANGED <<serial, alive>>
            /\ alive /\ Usable /\ m # NoMsg
            BY <1>4, <2>1, NoneAssumption DEF ReadReply, Reading, sendVars
      <2>3. CASE call = Hello
            <3>1. \A d \in Calls : result'[d] = result[d]
                  BY <1>2, <2>2, <2>3, CallAssumption DEF AllCalls
            <3> QED
                BY <1>3, <2>2, <3>1, OutcomeUntouched DEF Sent
      <2>4. CASE call # Hello
            <3>1. UNCHANGED state
                  BY <1>4, <2>1, <2>4 DEF ReadReply, UpdateState
            <3>2. call \in Calls /\ Sent(call)
                  BY <2>1, <2>4, NoneAssumption DEF AllCalls, Sent
            <3>3. Link \in {"naming", "open"} /\ UNCHANGED Link
                  BY <1>2, <2>2, <3>1, LinkIs, LinkIsThen DEF Usable
            <3>4. Outcome[call] = [phase |-> "pending"]
                  BY <2>1, <3>2 DEF Outcome
            <3>5. Outcome' = [Outcome EXCEPT ![call] = [phase |-> "answered", to |-> call]]
                  <4>1. result'[call] = m /\ m.to = call
                        BY <1>2, <2>1, <2>2
                  <4> HIDE DEF m, call
                  <4>2. \A d \in Calls : d # call => result'[d] = result[d]
                        BY <1>2, <2>2 DEF AllCalls
                  <4>3. serial' = serial /\ serial[call] # NoSerial
                        BY <2>2, <3>2 DEF Sent
                  <4> QED
                      BY <2>2, <3>2, <4>1, <4>2, <4>3 DEF Outcome, Sent
            <3> HIDE DEF m, call
            <3> QED
                BY <3>2, <3>3, <3>4, <3>5, FinishIsAStep
      <2> QED
          BY <2>3, <2>4
<1>5. ASSUME NEW c \in Calls, Send(c)
      PROVE  Promise!Next \/ UNCHANGED <<Link, Outcome>>
      <2>1. PICK s \in Serials : Register(c, s)
            BY <1>5 DEF Send
      <2>2. /\ alive /\ Usable /\ ~Sent(c)
            /\ UNCHANGED <<state, alive, result>>
            /\ serial' = [serial EXCEPT ![c] = s]
            BY <1>5, <2>1 DEF Send, ClientRuns, Sent, Register
      <2>3. Link \in {"naming", "open"} /\ UNCHANGED Link
            BY <1>2, <2>2, LinkIs, LinkIsThen DEF Usable
      <2>4. Outcome[c] = [phase |-> "unsent"]
            BY <2>2 DEF Outcome
      <2>5. Outcome' = [Outcome EXCEPT ![c] = [phase |-> "pending"]]
            <3>1. (Sent(c))' /\ \A d \in Calls : d # c => (Sent(d))' = Sent(d)
                  BY <1>2, <2>2, NoneAssumption DEF Sent, AllCalls
            <3>2. result'[c] = NoMsg /\ \A d \in Calls : result'[d] = result[d]
                  BY <1>1, <2>2 DEF CallInv, UnsentWaits, AllCalls
            <3> QED
                BY <3>1, <3>2 DEF Outcome
      <2>6. Promise!Submit(c)
            BY <2>3, <2>4, <2>5
            DEF Promise!Submit, Promise!Usable, Promise!Unsent, Promise!Pending, Outcome
      <2> QED
          BY <2>6 DEF Promise!Next
<1>6. CASE ~ReadReply /\ ~(\E c \in Calls : Send(c))
      BY <1>1, <1>3, <1>6, OthersKeepOutcome
<1> QED
    BY <1>4, <1>5, <1>6

\* The connection keeps the promise of CallPromise: calls are accepted and
\* answered only while the link is up, at most once, each with its own answer.
THEOREM Implements == Spec => KeepsPromise
<1>1. Init => Promise!Init
      <2> SUFFICES ASSUME Init PROVE Promise!Init
          OBVIOUS
      <2>1. /\ state = "Connecting" /\ alive = TRUE
            /\ serial = [c \in AllCalls |-> NoSerial]
            BY DEF Init
      <2>2. Link = "handshake"
            BY <2>1, LinkIs DEF States
      <2>3. \A c \in Calls : ~Sent(c)
            BY <2>1 DEF Sent, AllCalls
      <2>4. Outcome = [c \in Calls |-> [phase |-> "unsent"]]
            BY <2>3 DEF Outcome
      <2> QED
          BY <2>2, <2>4 DEF Promise!Init, Promise!Unsent, Outcome
<1>2. IInv /\ IInv' /\ [Next]_vars => [Promise!Next]_(Promise!promiseVars)
      BY PromiseStep DEF Promise!promiseVars, Outcome
<1> QED
    BY <1>1, <1>2, Invariance, PTL DEF Spec, KeepsPromise, Promise!Spec

============================================================================
