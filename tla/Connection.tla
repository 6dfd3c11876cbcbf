---------------------------- MODULE Connection ----------------------------
(***************************************************************************)
(* One Firmir::DBus::Connection (dbus/connection.cpp) with its pending     *)
(* replies (dbus/pending-reply.cpp), the program that owns it and the bus. *)
(*                                                                         *)
(* A handler of the connection runs to its end on the loop's thread,       *)
(* except where it emits an event: there the program's callback runs, and  *)
(* may send messages or destroy the connection before the handler goes on. *)
(* "pc" is the place where the handler will go on:                         *)
(*   "loop"       no handler of the connection is on the stack             *)
(*   "thenLoop"   in a StateChanged callback after which the handler ends  *)
(*   "thenHello"  in StateChanged(GettingName); doGetName then sends Hello *)
(*   "thenErase"  in a Finished callback; handleBusMsg then erases the     *)
(*                entry of "replies"                                       *)
(*                                                                         *)
(* The bus is external: it writes one line in the handshake, answers every *)
(* message it received at most once and in any order, and may add signals, *)
(* messages without a reply serial and messages that do not parse.         *)
(***************************************************************************)
EXTENDS Integers, Sequences

CONSTANTS
    Calls,             \* the messages the program may send, each once
    Hello,             \* the message doGetName sends
    Oneway,            \* those of Calls that are never answered (signals)
    M,                 \* number of serials, 2^32 for the uint32_t of the code
    MaxNoise,          \* the bus adds noise while fewer messages are unread
    DestroyWhen,       \* states in whose callbacks the program destroys the
                       \* connection; outside its callbacks it always may
    NoCall, NoSerial, NoMsg

AllCalls == Calls \cup {Hello}
Serials  == 0 .. M - 1

States  == {"Connecting", "Auth", "GettingName", "Connected", "Error"}
Answers == {"return", "garbled", "error"}   \* "garbled": a return whose body is no string
Noise   == {"signal", "orphan", "bad"}      \* "orphan": a return with no reply serial
Msg     == [type : Answers \cup Noise,
            rs   : Serials \cup {NoSerial},  \* dynamicHeader.replySerial
            to   : AllCalls \cup {NoCall}]   \* the message the bus answers (ghost)

ASSUME MAssumption    == M \in Nat \ {0, 1}
ASSUME CallAssumption == /\ Hello \notin Calls
                         /\ Oneway \subseteq Calls
                         /\ NoCall \notin AllCalls
ASSUME NoneAssumption == NoSerial \notin Serials /\ NoMsg \notin Msg
ASSUME ClientAssumption == DestroyWhen \subseteq States

VARIABLES
    state,       \* ConnectionPrivate::state
    pc,          \* where the handler on the stack goes on (see above)
    alive,       \* the Connection has not been destroyed
    errnoAgain,  \* the thread's errno is EAGAIN
    authData,    \* how the line read so far begins: "", "ok" or "other"
    authIn,      \* text of the bus not yet read: chunks and the end of line
    busLine,     \* how much of its line the bus has written
    inbox,       \* whole messages in the socket, not yet read
    torn,        \* an unread part of the message after them is in the socket
    eof,         \* the bus has closed its end
    nextSerial,  \* ConnectionPrivate::nextSerial
    replies,     \* ConnectionPrivate::replies, as the call of each entry
    serial,      \* the serial each message was sent with
    asked,       \* messages the bus has received and not answered
    result,      \* PendingReplyPrivate::result of each call
    finishing,   \* the replySerial handleBusMsg holds in "thenErase"
    fault        \* a handler went on with members of a destroyed connection

vars == <<state, pc, alive, errnoAgain, authData, authIn, busLine, inbox, torn,
          eof, nextSerial, replies, serial, asked, result, finishing, fault>>

authVars == <<authData, authIn, busLine>>
sendVars == <<nextSerial, replies, serial, asked>>
busVars  == <<inbox, torn, eof>>

Text    == {"ok", "other", "eol"}         \* a chunk that begins with OK, one that does not

ControlType ==
    /\ state \in States
    /\ pc \in {"construct", "loop", "thenLoop", "thenHello", "thenErase"}
    /\ alive \in BOOLEAN /\ errnoAgain \in BOOLEAN /\ fault \in BOOLEAN
    /\ result \in [AllCalls -> Msg \cup {NoMsg}]
    /\ finishing \in Serials \cup {NoSerial}

HandshakeType ==
    /\ authData \in {"", "ok", "other"}
    /\ authIn \in Seq(Text)
    /\ busLine \in {"none", "started", "ended"}

SendType ==
    /\ nextSerial \in Serials
    /\ replies \in [Serials -> AllCalls \cup {NoCall}]
    /\ serial \in [AllCalls -> Serials \cup {NoSerial}]
    /\ asked \subseteq AllCalls

SocketType == inbox \in Seq(Msg) /\ torn \in BOOLEAN /\ eof \in BOOLEAN

TypeOK == ControlType /\ HandshakeType /\ SendType /\ SocketType

Init ==
    /\ state = "Connecting" /\ pc = "construct" /\ alive = TRUE
    /\ errnoAgain \in BOOLEAN
    /\ authData = "" /\ authIn = <<>> /\ busLine = "none"
    /\ inbox = <<>> /\ torn = FALSE /\ eof = FALSE
    /\ nextSerial = 1
    /\ replies = [s \in Serials |-> NoCall]
    /\ serial = [c \in AllCalls |-> NoSerial]
    /\ asked = {}
    /\ result = [c \in AllCalls |-> NoMsg]
    /\ finishing = NoSerial /\ fault = FALSE

----------------------------------------------------------------------------
(* Opening and authentication *)

\* startConnect, called by the constructor: nobody can be subscribed yet, so
\* updateState calls nobody and the states passed through are not observable.
Construct ==
    /\ pc = "construct"
    /\ state' \in {"Auth", "Error"}
    /\ pc' = "loop"
    /\ UNCHANGED <<alive, errnoAgain, result, finishing, fault, authVars, sendVars, busVars>>

\* updateState(value): the callback of StateChanged runs, then the handler
\* goes on at "next".
UpdateState(value, next) == state' = value /\ pc' = next

\* How a line begins after "text" has been appended to it.
Begins(line, text) == IF line = "" /\ text # <<>> /\ Head(text) # "eol"
                      THEN Head(text) ELSE line

HasLine == authIn # <<>> /\ authIn[Len(authIn)] = "eol"

InAuth == pc = "loop" /\ alive /\ state = "Auth"

\* doAuth reads to the end of what has arrived, finds no end of line, and the
\* last read says so: it blocks, or it returns 0 and leaves errno alone.
AuthWait ==
    /\ InAuth /\ ~HasLine /\ (authIn # <<>> \/ eof)
    /\ authData' = Begins(authData, authIn)
    /\ authIn' = <<>>
    /\ IF eof /\ ~errnoAgain
       THEN UpdateState("Error", "thenLoop")
       ELSE UNCHANGED <<state, pc>>
    /\ errnoAgain' = IF eof THEN errnoAgain ELSE TRUE
    /\ UNCHANGED <<alive, busLine, result, finishing, fault, sendVars, busVars>>

\* doAuth has a whole line. It is refused, or BEGIN cannot be written, or
\* doGetName starts. The bus writes no second line.
AuthLine ==
    /\ InAuth /\ HasLine
    /\ authData' = Begins(authData, authIn)
    /\ authIn' = <<>>
    /\ \/ UpdateState("Error", "thenLoop")
       \/ Begins(authData, authIn) = "ok" /\ UpdateState("GettingName", "thenHello")
    /\ UNCHANGED <<alive, errnoAgain, busLine, result, finishing, fault, sendVars, busVars>>

----------------------------------------------------------------------------
(* Sending *)

\* Mutation: the guard of send lets the handshake pass.
UsableInAuth == state \in {"Auth", "GettingName", "Connected"}

Usable == state \in {"GettingName", "Connected"}

\* The serial at which "while (replies.contains(nextSerial)) ++nextSerial"
\* stops: the first free one from nextSerial on, modulo the width.
Distance(s) == (s + M - nextSerial) % M

\* Mutation: the loop that skips the serials in use is missing.
IsNext(s) == s = nextSerial

IsNextFree(s) == /\ s \in Serials
                 /\ replies[s] = NoCall
                 /\ \A t \in Serials : Distance(t) < Distance(s) => replies[t] # NoCall

\* Mutation: the reply is registered under nextSerial, already incremented.
RegisterLate(c, s) ==
    /\ nextSerial' = (s + 1) % M
    /\ replies' = [replies EXCEPT ![(s + 1) % M] = c]
    /\ serial' = [serial EXCEPT ![c] = s]
    /\ asked' = asked \cup {c}

\* Mutation: the reply is not registered.
RegisterNothing(c, s) ==
    /\ nextSerial' = (s + 1) % M
    /\ serial' = [serial EXCEPT ![c] = s]
    /\ asked' = asked \cup {c}
    /\ UNCHANGED replies

\* send: the serial is taken; the bytes are written and the reply registered.
Register(c, s) ==
    /\ nextSerial' = (s + 1) % M
    /\ replies' = [replies EXCEPT ![s] = c]
    /\ serial' = [serial EXCEPT ![c] = s]
    /\ asked' = asked \cup {c}

\* Mutation: the serial number is wider than the one on the wire.
RefuseWide(s) == nextSerial' = s + 1 /\ UNCHANGED <<replies, serial, asked>>

\* send: serialize or write fails; the serial is lost, nothing is registered.
Refuse(s) == nextSerial' = (s + 1) % M /\ UNCHANGED <<replies, serial, asked>>

ClientRuns == pc # "construct" /\ alive

\* The program sends a message: from another handler of the loop or from a
\* callback of the connection, that of StateChanged(GettingName) included. In
\* other states send returns null.
Send(c) ==
    /\ ClientRuns /\ Usable
    /\ serial[c] = NoSerial
    /\ \E s \in Serials : IsNextFree(s) /\ Register(c, s)
    /\ UNCHANGED <<state, pc, alive, errnoAgain, result, finishing, fault, authVars, busVars>>

SendFails ==
    /\ ClientRuns /\ Usable
    /\ \E s \in Serials : IsNextFree(s) /\ Refuse(s)
    /\ UNCHANGED <<state, pc, alive, errnoAgain, result, finishing, fault, authVars, busVars>>

\* doGetName goes on after StateChanged(GettingName).
SendHello ==
    /\ pc = "thenHello" /\ alive
    /\ \E s \in Serials :
          /\ IsNextFree(s)
          /\ \/ Register(Hello, s) /\ pc' = "loop" /\ UNCHANGED state
             \/ Refuse(s) /\ UpdateState("Error", "thenLoop")
    /\ UNCHANGED <<alive, errnoAgain, result, finishing, fault, authVars, busVars>>

----------------------------------------------------------------------------
(* Receiving *)

\* Mutation: readData does not look at the state once Auth is over.
ReadingAlways == pc = "loop" /\ alive /\ state # "Auth"

\* readData calls readFd only in these states.
Reading == pc = "loop" /\ alive /\ Usable

\* readFd takes what there is of a message and the rest is missing.
ReadPart ==
    /\ Reading /\ inbox = <<>> /\ (torn \/ eof)
    /\ torn' = FALSE
    /\ IF eof /\ ~errnoAgain
       THEN UpdateState("Error", "thenLoop")
       ELSE UNCHANGED <<state, pc>>
    /\ errnoAgain' = IF eof THEN errnoAgain ELSE TRUE
    /\ UNCHANGED <<alive, inbox, eof, result, finishing, fault, authVars, sendVars>>

\* readFd: a header that does not parse.
ReadBad ==
    /\ Reading /\ inbox # <<>> /\ Head(inbox).type = "bad"
    /\ inbox' = Tail(inbox)
    /\ UpdateState("Error", "thenLoop")
    /\ UNCHANGED <<alive, errnoAgain, torn, eof, result, finishing, fault, authVars, sendVars>>

\* handleBusMsg finds the entry of "replies" a message answers.
Matches(m) == m.type \in Answers /\ m.rs # NoSerial /\ replies[m.rs] # NoCall

ReadIgnored ==
    /\ Reading /\ inbox # <<>> /\ Head(inbox).type # "bad" /\ ~Matches(Head(inbox))
    /\ inbox' = Tail(inbox)
    /\ UNCHANGED <<state, pc, alive, errnoAgain, torn, eof, result, finishing, fault,
                   authVars, sendVars>>

\* Mutation: any answer that is no error counts as a name.
AfterHelloUnchecked(m) == IF state # "GettingName" THEN state
                          ELSE IF m.type = "error" THEN "Error" ELSE "Connected"

\* The Finished handler of Hello: it acts only in GettingName.
AfterHello(m) == IF state # "GettingName" THEN state
                 ELSE IF m.type = "return" THEN "Connected" ELSE "Error"

\* setMessage stores the first message and emits Finished; the callback runs,
\* then handleBusMsg erases the entry of the serial it holds.
ReadReply ==
    /\ Reading /\ inbox # <<>> /\ Matches(Head(inbox))
    /\ LET m == Head(inbox)
           c == replies[m.rs]
       IN  /\ result' = IF result[c] = NoMsg THEN [result EXCEPT ![c] = m] ELSE result
           /\ UpdateState(IF c = Hello THEN AfterHello(m) ELSE state, "thenErase")
           /\ finishing' = m.rs
    /\ inbox' = Tail(inbox)
    /\ UNCHANGED <<alive, errnoAgain, torn, eof, fault, authVars, sendVars>>

\* Mutation: the entry erased is the one of the last message sent.
EraseLast ==
    /\ pc = "thenErase" /\ alive
    /\ replies' = [replies EXCEPT ![(nextSerial + M - 1) % M] = NoCall]
    /\ finishing' = NoSerial
    /\ pc' = "loop"
    /\ UNCHANGED <<state, alive, errnoAgain, nextSerial, serial, asked, result,
                   fault, authVars, busVars>>

\* Mutation: the entry stays.
EraseForgotten ==
    /\ pc = "thenErase" /\ alive
    /\ finishing' = NoSerial
    /\ pc' = "loop"
    /\ UNCHANGED <<state, alive, errnoAgain, result, fault, authVars, sendVars, busVars>>

\* handleBusMsg goes on: replies.erase(*replySerial).
EraseReply ==
    /\ pc = "thenErase" /\ alive
    /\ replies' = [replies EXCEPT ![finishing] = NoCall]
    /\ finishing' = NoSerial
    /\ pc' = "loop"
    /\ UNCHANGED <<state, alive, errnoAgain, nextSerial, serial, asked, result,
                   fault, authVars, busVars>>

\* The callback after which nothing is left to do returns.
CallbackReturns ==
    /\ pc = "thenLoop"
    /\ pc' = "loop"
    /\ UNCHANGED <<state, alive, errnoAgain, result, finishing, fault,
                   authVars, sendVars, busVars>>

----------------------------------------------------------------------------
(* The program destroys the connection *)

\* ~Connection and ~ConnectionPrivate: the loop forgets the socket.
Destroy ==
    /\ ClientRuns
    /\ pc = "loop" \/ state \in DestroyWhen
    /\ alive' = FALSE
    /\ UNCHANGED <<state, pc, errnoAgain, result, finishing, fault,
                   authVars, sendVars, busVars>>

\* A handler goes on although its connection is gone: doGetName sends through
\* it, handleBusMsg erases from its map.
GoOnDestroyed ==
    /\ pc \in {"thenHello", "thenErase"} /\ ~alive
    /\ fault' = TRUE
    /\ pc' = "loop"
    /\ UNCHANGED <<state, alive, errnoAgain, result, finishing,
                   authVars, sendVars, busVars>>

----------------------------------------------------------------------------
(* The bus, and the rest of the process *)

BusUp == ~eof /\ alive /\ state \notin {"Connecting", "Error"}

BusText ==
    /\ BusUp /\ busLine = "none"
    /\ \E t \in {"ok", "other"} : authIn' = Append(authIn, t)
    /\ busLine' = "started"
    /\ UNCHANGED <<state, pc, alive, errnoAgain, authData, result, finishing, fault,
                   sendVars, busVars>>

BusEndOfLine ==
    /\ BusUp /\ busLine = "started"
    /\ authIn' = Append(authIn, "eol")
    /\ busLine' = "ended"
    /\ UNCHANGED <<state, pc, alive, errnoAgain, authData, result, finishing, fault,
                   sendVars, busVars>>

\* The rest of a message arrives: a part of it may have been there before.
Deliver(m) == inbox' = Append(inbox, m) /\ torn' = FALSE

BusAnswer(c) ==
    /\ BusUp /\ c \in asked \ Oneway
    /\ \E t \in Answers : Deliver([type |-> t, rs |-> serial[c], to |-> c])
    /\ asked' = asked \ {c}
    /\ UNCHANGED <<state, pc, alive, errnoAgain, eof, nextSerial, replies, serial,
                   result, finishing, fault, authVars>>

BusNoise ==
    /\ BusUp /\ Usable /\ Len(inbox) < MaxNoise
    /\ \E t \in Noise : Deliver([type |-> t, rs |-> NoSerial, to |-> NoCall])
    /\ UNCHANGED <<state, pc, alive, errnoAgain, eof, result, finishing, fault,
                   authVars, sendVars>>

BusPart ==
    /\ BusUp /\ Usable /\ ~torn
    /\ torn' = TRUE
    /\ UNCHANGED <<state, pc, alive, errnoAgain, inbox, eof, result, finishing, fault,
                   authVars, sendVars>>

BusCloses ==
    /\ BusUp
    /\ eof' = TRUE
    /\ UNCHANGED <<state, pc, alive, errnoAgain, inbox, torn, result, finishing, fault,
                   authVars, sendVars>>

\* Other system calls of the thread set errno (a timer's read blocks, say).
OtherErrno ==
    /\ ClientRuns
    /\ errnoAgain' = ~errnoAgain
    /\ UNCHANGED <<state, pc, alive, result, finishing, fault, authVars, sendVars, busVars>>

----------------------------------------------------------------------------

Handler == AuthWait \/ AuthLine \/ ReadPart \/ ReadBad \/ ReadIgnored \/ ReadReply
GoOn    == SendHello \/ EraseReply \/ CallbackReturns \/ GoOnDestroyed
Client  == (\E c \in Calls : Send(c)) \/ SendFails \/ Destroy \/ OtherErrno
Bus     == \/ BusText \/ BusEndOfLine \/ BusNoise \/ BusPart \/ BusCloses
           \/ \E c \in AllCalls : BusAnswer(c)

Next == Construct \/ Handler \/ GoOn \/ Client \/ Bus

Spec == Init /\ [][Next]_vars

\* The loop calls the handler of a readable socket, callbacks return, and the
\* bus finishes its line and answers what it received.
Fairness ==
    /\ WF_vars(Construct) /\ WF_vars(Handler) /\ WF_vars(GoOn)
    /\ WF_vars(BusText) /\ WF_vars(BusEndOfLine)
    /\ \A c \in AllCalls : WF_vars(BusAnswer(c))

FairSpec == Spec /\ Fairness

----------------------------------------------------------------------------
(* Safety *)

Sent(c) == serial[c] # NoSerial

\* handleBusMsg completes a pending reply with the answer the bus gave to the
\* message the reply was returned for, whatever the order of the answers and
\* however often the serials have wrapped around.
MatchedReplies == \A c \in AllCalls : result[c] # NoMsg => result[c].to = c

\* A message that was sent and not answered keeps its entry in "replies": no
\* later send overwrites it, and the erase after a Finished callback that has
\* sent messages itself removes the entry of the answered call only.
NoReplyLost ==
    \A c \in AllCalls : Sent(c) /\ result[c] = NoMsg => replies[serial[c]] = c

\* Between two handlers every entry waits for its first answer, so the error
\* "for second time" of PendingReplyPrivate::setMessage is never reported.
EntriesAreOpen ==
    alive /\ pc = "loop" =>
        \A s \in Serials : replies[s] # NoCall => result[replies[s]] = NoMsg

\* A program that sees the state Connected has a connection with a name: the
\* bus answered Hello, and with a name.
ConnectedMeansNamed ==
    state = "Connected" => result[Hello] # NoMsg /\ result[Hello].type = "return"

\* No handler goes on with the members of a connection its callback destroyed.
NoUseAfterDestroy == ~fault

\* The inductive invariant behind them. An entry is filed under the serial its
\* message was sent with; it waits for an answer, except the one whose Finished
\* callback is running, which has just got it.
EntryFiled == \A s \in Serials : replies[s] # NoCall => serial[replies[s]] = s

EntryWaits ==
    alive => \A s \in Serials :
                 replies[s] # NoCall /\ ~(pc = "thenErase" /\ s = finishing)
                     => result[replies[s]] = NoMsg

FinishingAnswered ==
    pc = "thenErase" => /\ finishing \in Serials
                        /\ replies[finishing] # NoCall
                        /\ result[replies[finishing]] # NoMsg

\* An answer in the socket bears the serial of its message, which has no
\* result yet and gets no other answer.
IsAnswer(m) == m.rs # NoSerial

InboxFits ==
    \A i \in 1 .. Len(inbox) : IsAnswer(inbox[i]) =>
        LET m == inbox[i]
        IN  m.to \in AllCalls /\ serial[m.to] = m.rs /\ result[m.to] = NoMsg /\ m.to \notin asked

InboxDistinct ==
    \A i, j \in 1 .. Len(inbox) :
        IsAnswer(inbox[i]) /\ IsAnswer(inbox[j]) /\ inbox[i].to = inbox[j].to => i = j

AskedWaits  == \A c \in asked : Sent(c) /\ result[c] = NoMsg
UnsentWaits == \A c \in AllCalls : ~Sent(c) => result[c] = NoMsg

CallInv == /\ MatchedReplies /\ NoReplyLost
           /\ EntryFiled /\ EntryWaits /\ FinishingAnswered
           /\ InboxFits /\ InboxDistinct /\ AskedWaits /\ UnsentWaits

\* Hello is sent once, when doGetName goes on.
HelloInv == /\ pc = "construct" => state = "Connecting"
            /\ pc = "thenHello" => state = "GettingName"
            /\ pc = "thenHello" \/ state \in {"Connecting", "Auth"} => ~Sent(Hello)

IInv == TypeOK /\ CallInv /\ HelloInv

(* Steps *)

\* Only in the callback of StateChanged(GettingName), which doGetName runs
\* before it sends Hello, can a program get ahead of Hello: nothing is sent
\* before, and nothing after the callback without Hello on the wire, though
\* Hello may be refused and the connection destroyed.
HelloFirst ==
    [][\A c \in Calls : ~Sent(c) /\ (Sent(c))' => Sent(Hello) \/ pc = "thenHello"]_vars

\* Once in Error the connection never leaves it, and no call is answered.
ErrorIsFinal == [][state = "Error" => state' = "Error" /\ result' = result]_vars

(* Liveness *)

\* Authentication comes to an end: the connection is named or reports Error,
\* unless the bus hangs up or the program destroys the connection.
Settles == state = "Auth" ~> (state \in {"Connected", "Error"} \/ eof \/ ~alive)

\* A message that expects an answer gets it, unless the connection fails.
CallsFinish ==
    \A c \in Calls \ Oneway :
        Sent(c) ~> (result[c] # NoMsg \/ state = "Error" \/ eof \/ ~alive)

\* The end of the stream is an error of the connection: the reads of doAuth
\* and readExact return 0 and the connection leaves its working states.
EofNoticed == (eof /\ pc = "loop") ~> (state = "Error" \/ ~alive)

(* Refinement *)

Link == IF ~alive \/ state = "Error" THEN "down"
        ELSE CASE state \in {"Connecting", "Auth"} -> "handshake"
               [] state = "GettingName" -> "naming"
               [] state = "Connected" -> "open"

Promise == INSTANCE CallPromise WITH
    link <- Link,
    outcome <- [c \in Calls |->
                  IF ~Sent(c) THEN [phase |-> "unsent"]
                  ELSE IF result[c] = NoMsg THEN [phase |-> "pending"]
                  ELSE [phase |-> "answered", to |-> result[c].to]]

\* The connection keeps the promise of CallPromise.
KeepsPromise == Promise!Spec

============================================================================
