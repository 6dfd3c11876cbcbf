# firmir: a specification of its event loop and its D-Bus client

firmir is a small C++ library in two parts. `core` has an epoll event loop, timers on
`timerfd`, and objects that emit events to subscribers. `dbus` has a D-Bus client
connection that runs on that loop. Everything runs on one thread, except that
`EventLoop::quit` may be called from another. What makes the code hard is not
parallelism but re-entry: each event runs code of the program in the middle of a handler,
and that code may send, stop, destroy, emit, or run another loop before the handler goes on.

The modules here model that control flow; TLC checks them on small instances, and TLAPS
proves the invariants of all seven state machines for every value of the constants.

## The system

| component | state | operations | what makes it correct |
|---|---|---|---|
| `ConnectionPrivate` (dbus/connection.cpp) | `state`, `authData`, `nextSerial`, `replies`, `readMsg`, the socket | `startConnect`, `readData` (`doAuth`, `readFd`, `handleBusMsg`), `doGetName`, `send`, `updateState`, the destructor | each call is completed by its own answer, once; Hello comes first; Connected means named; Error is final; the handshake ends; no handler runs on after the destruction |
| `PendingReplyPrivate` (dbus/pending-reply.cpp) | `result` | `setMessage`, which emits Finished | set once, by the answer to the message it was returned for |
| message framing (dbus/message.cpp) | `reader.data`, `fixedHeader`, `dynamicHeader` | `readFd`, `readExact` | the stream is cut at the message boundaries wherever reads stop |
| message codec (dbus/message.cpp) | a buffer and a position, the two headers | Reader, Writer, `serialize`, the setters, `operator<<`, `operator>>` | what is read is what was written, or it is refused; whole messages are waited for; the other codec of the repository agrees |
| `EventLoopPrivate` (core/event-loop.cpp) | `events`, the epoll set, `running`, `wakeFd` | `addEvent`, `removeEvent`, `exec`, `quit` | ready sources are served, destroyed ones are not called, quit ends every exec |
| `EventLoop` (core/event-loop.cpp) | `Singleton::extValue`, `Singleton::value` | the constructor, the destructor, `instance` | one answer for the whole run; objects find again the loop they are at |
| `TimerPrivate` (core/firmir-timer.cpp) | `active`, `singleShot`, `intervalMs`, a timerfd | the setters, `start`, `stop`, static `singleShot`, onRead | fields and kernel agree; after stop only what was read is emitted; periodic timers fire; static ones delete themselves |
| `Object` (core/firmir-object.cpp) | `m_subscribers`, `m_subscribtions` | `connectTo`, `emitEvent`, the destructor | callbacks of live handlers only; no pointer to a destroyed object is followed |
| `dbus::Message` (examples/dbus/dbus-message.h) | a message by value | `parse`, `serialize`, Reader, Writer | the same wire format as the library's |
| `Variant`, logging, example programs | - | conversions, output, demonstrations | - |

Interactions: `Connection`, `PendingReply` and `Timer` are `Object`s and tell the program what
happens by `emitEvent`. `ConnectionPrivate` and `TimerPrivate` register a descriptor and a
callback with the loop. A connection calls `removeEvent` when it goes; a timer only closes
its descriptor, and the kernel takes it out of the epoll set. `send` gives out a `PendingReply`
that `replies` also holds until the answer comes. The connection subscribes itself to the
reply of Hello.

## The modules

| module | models |
|---|---|
| `CallPromise` | abstract: a link that rises and falls, calls that are accepted and answered at most once |
| `Connection` | `ConnectionPrivate` and its pending replies, the program, the bus; implements `CallPromise` |
| `FramedChannel` | abstract: a queue of messages that may break |
| `Framing` | `readFd` and `readExact` over a byte stream; implements `FramedChannel` |
| `EventLoop` | the loop, nested `exec`, sources that remove their entry or not, `quit` from two threads |
| `TimerLoop` | timers in a loop: composes the timer with `EventLoop` (INSTANCE); every step is one of the loop's, or leaves the loop alone |
| `Object` | subscriptions and destruction |
| `LoopInstance` | which loop `instance()` is, with the scopes of a program's loops, connections and timers |
| `Wire` | the vocabulary of the wire format: bytes, alignment, field and type codes |
| `Marshal` | `MessagePrivate::Reader` and `Writer` as functions over bytes |
| `MessageCodec` | the fixed and the dynamic header and `serialize`, over `Marshal` |
| `ExampleCodec` | `parse` and `serialize` of examples/dbus/dbus-message.h and `read_message` of examples/dbus/main.cpp, over `Wire` only |
| `Codec` | a message object that is filled, sent, read and sent again; its peers use `ExampleCodec` (INSTANCE) |
| `Connection_proofs`, `EventLoop_proofs`, `TimerLoop_proofs`, `Framing_proofs`, `Object_proofs`, `LoopInstance_proofs`, `Codec_proofs`, `CodecReading_proofs` | theorems, see What is proved |
| `MC...` | the instances TLC checks |

Some correspondences that are not obvious:

* **Connection, `pc`.** A handler is one action up to the place where it emits an event. The
  callback then runs (any number of `Send`, `SendFails`, `Destroy`, `OtherErrno`), and an action
  of its own goes on with the handler: `SendHello` after StateChanged(GettingName),
  `EraseReply` after Finished, `CallbackReturns` where nothing is left to do. `alive` and
  `fault` record a handler that goes on with a connection its callback destroyed. When the
  handler of Hello's Finished calls `updateState`, the two callbacks are at one place of the
  model, since nothing happens between them.
* **Connection, `Destroy`.** The destructor's own work: the socket is closed and the loop forgets it.
  What the base class `Object` does with subscriptions is in `Object`, not repeated here.
* **Connection, serials.** `uint32_t nextSerial` counts modulo `M`. `IsNextFree` says where the
  loop `while (replies.contains(nextSerial)) ++nextSerial` stops. A failing `serialize` or
  `write` loses the serial (`Refuse`). Messages without an answer leave their entry for ever,
  as in the code.
* **Connection, errno.** `doAuth` and `readExact` treat `read() <= 0` alike and ask `errno`. A read
  that returns 0 does not set it, so `errnoAgain` is what the last failing call of the thread
  left, and `OtherErrno` changes it between handlers.
* **Connection, ghosts.** `to` in a message, `serial` and `asked` exist to state properties.
  The code looks at `rs` only; `serial[c]` is the number in the bytes sent.
* **EventLoop, `stack`.** One frame per running `exec`: whether it is in `epoll_wait`, what is left
  of the array that `epoll_wait` filled, and the source whose callback runs. `Test` is
  `while (running)` and `Wait` the return of `epoll_wait`: between them another thread's store is
  not seen, and only its write to the wake descriptor ends the wait. That is what
  `QuitStops` is about. `touched` records destroyed sources
  that were called. `Release` erases what the code erases: for a connection the entry of its
  number, for a timer none.
* **TimerLoop.** `left` is the rest of onRead's `for (i < expirations)`. `timerfd_settime` forgets
  expirations that were not read (`UpdateParams`), a setter reaches the kernel only while the
  timer is active, and `setIntervalMs` and `setActive` return early when nothing changes.
  A callback may delete any timer but a static one. `careful` is a ghost: it records that no timer was destroyed
  while a running `exec` needed it (`InUse`): its array listed it, or its onRead had Timeouts to emit.
  After the use of a destroyed timer, noted in `gone` and `touched`, the model goes on, but nothing is claimed of it.
* **Framing.** A byte is (number of its message, place in it). What `readFd` believes of sizes
  comes from the header it parsed, so a stream cut at the wrong place shows as bytes that
  are no message. `Size` is what the bus sends; `TotalSize` is what the code computes.
* **Object.** `Destroy` follows `m_subscribtions` as the destructor does; `orderly` records
  whether each object so far outlived nobody that handled its events.

* **Marshal and MessageCodec.** An integer of n bytes is the sequence of its bytes, least
  significant first: `memcpy` on a little-endian machine. Casts between signed and unsigned then
  change nothing, and the readers for all widths are one operator (`ReadUInt`). A read that finds
  nothing still leaves a reader, at the place the code leaves it. `Then` is the early
  return after each read. The optionals of
  `DynamicHeader` are a function whose domain is the fields that are present.
  `readString` adds 1 to the length in 32 bits, so for 2^32 - 1 its check passes and it runs past the end: that
  read is an `Overrun`, and so it is in the example, whose `read_string` has the same sum.
* **Codec.** `readFd` is four actions, so that the properties can speak of the places between:
  the fixed header is parsed (`HeaderArrives`), the announced bytes are there (`BodyArrives`), one
  field is parsed (`ReadField`), the body begins (`Open`). How bytes arrive is in `Framing`.
  `ExtractString` is `operator>>`; the readers of the other types, which have no `operator>>`,
  are called by `ExtractOther` on bodies of their type. `operator<<` writes nothing (`WrittenBody`).
  A peer's message has a `list` of fields, in any order and with any of unknown codes between them.
  After an `Overrun` the phase is "undefined", and nothing happens any more.
* **ExampleCodec.** An exception is a result that is not `ok`. The loops of `parse` and of its writer are
  recursive functions: `FieldsFrom` over the offsets, `WriteFields` and `WriteAll` over the number of values
  written so far. It is the second implementation
  of the format in the repository, written without the first, and so the reference
  the library is compared with: `AgreesWithExample` for what comes in, `SentIsRead` for what goes out.
* **LoopInstance, `stack`.** The objects the program has constructed, its `exec` calls and the callbacks
  in them, in the order they were entered; C++ leaves them in the opposite order. `dangled`
  records that `instance()` was used when it was a loop already destroyed; nothing is said of the
  program after that.

A definition whose comment begins with "Mutation:" is a wrong version of the definition after
it. PROJECT.json pairs each property with one, and TLC finds the property violated by it. They
take no part in the specifications.

## The runs

| run | properties | instance |
|---|---|---|
| `connection_calls` | `TypeOK`, `MatchedReplies`, `NoReplyLost`, `EntriesAreOpen`, `HelloFirst`, `ConnectedMeansNamed`, `ErrorIsFinal`, `KeepsPromise` | three messages and Hello, one of them one-way, three serials |
| `connection_progress` | `IInv`, `Settles`, `CallsFinish` | two messages and Hello, three serials, fairness |
| `event_loop` | `TypeOK`, `InterestRegistered`, `RemovedNeverCalled`, `QuitStops`, `ReadyServed` | two connections, a timer, two descriptors, two nested loops |
| `timer_loop` | `TypeOK`, `KernelAgrees`, `NothingDestroyedIsUsed`, `StoppedOnlyDrains`, `PeriodicFires`, `StaticFires` | two timers, intervals 0 and 1, two expirations, callbacks that delete timers |
| `framing` | `TypeOK`, `NoByteLost`, `NeverPastTheEnd`, `WholeMessagesArrive`, `IsAChannel` | three messages of five kinds |
| `object` | `TypeOK`, `LiveHandlersOnly`, `OrderlyIsSafe` | three objects, two events |
| `codec` | `TypeOK`, `LittleEndianWhole`, `NeverMisread`, `AgreesWithExample`, `ItemsInOrder`, `SentIsRead` | 355 messages of a peer, two texts, up to five setters |
| `loop_instance` | `TypeOK`, `CallbacksAtTheInstance`, `RemovedWhereAdded`, `InstanceIsStable` | two loops of the program and the one `instance()` makes, two connections, a timer |
| `connection_eof`, `connection_destroy`, `timer_delete`, `object_dangling` | one each, violated: see Findings | as above |

The bounds, and why they suffice:

* `M = 3` serials for four messages: `nextSerial` wraps around while calls wait, and over the
  entry a one-way message keeps for ever. If three messages are sent from StateChanged(GettingName), the table
  is full and `SendHello` never comes: the endless loop of `send`. The proofs hold for every `M`.
* `MaxNoise = 1`: the bus adds a signal, a stray return or a malformed message only while the
  socket is empty. Noise changes no table, so a second one repeats the first.
* Two descriptors for three sources: numbers are used again, the case the stale entries of
  timers are about. `MaxDepth = 2`: an array of the outer loop goes stale while the inner runs.
* `MaxTicks = 2`: the first number of expirations at which onRead has something left to emit
  after a callback.
* `timer_loop` with `MaxDepth = 1`: two nested loops have a million states, too many for the liveness
  properties. With `MaxDepth = 2`, `SPECIFICATION Spec` and without `PeriodicFires` and `StaticFires` TLC ends in two minutes and finds
  the other properties to hold; their theorems cover every depth.
* Framing with a header of two bytes, padded to two: fields end on the boundary and before it,
  a body is there or not, and any number of bytes may arrive at once, so each read may stop
  after each byte. Three messages: one handled, one being read, one behind it.
* `codec`: the two texts make fields that end on a multiple of 8 and before it. Each body puts a type
  behind a shorter one, so that its alignment matters. The fields of unknown code have every kind of
  type: one the parser reads, one it does not and that ends by chance on the next boundary, one whose
  bytes look like a field, one whose bytes begin a text that the body goes on with, one whose bytes begin a
  text of 2^32 - 1 characters. A body has such a length, too. Lists come in the order of the
  example's writer, backwards, and with the unknown fields before and behind. `MaxSets = 5` fills in every field a program can set, in any order;
  `MaxChanges = 2` changes a message that was received. Lengths are TLC integers, below 2^31, so
  big-endian messages have few fields.
* `loop_instance` with `MaxDepth = 8`: two loops, three clients and three entered calls. Two loops are
  enough: the first decides the instance, and the second is any other.
* `Object` with `MaxCallbacks = 1` and `MaxDepth = 1`; deeper emissions change no table, and the
  proofs cover every depth.

Deadlock is checked in `event_loop` and `timer_loop`, where the program always has something it
may do. The other systems may stop: a connection in Error, a stream that has been read, a
program whose objects are gone or that used a destroyed loop, a message that was refused.

### Fairness

* `Connection`: the loop calls the handler of a readable socket (`WF` of `Handler`; `ReadyServed`
  of `EventLoop` is the reason), callbacks return (`GoOn`), the bus writes its line of the
  handshake and answers what it received. The program is not fair: it may do nothing.
* `EventLoop`: the thread is scheduled (`WF` of `LoopStep`), callbacks return (`SF`: a nested loop
  disables the return while it runs), and a thread that has begun `quit` ends it. Nothing makes
  the kernel readable, or another thread quit. `ReadyServed` needs no more, because an array
  is emptied before the next wait: sources that stay ready starve nobody.
* `TimerLoop`: in addition an armed timer expires.
* `Framing`: the handler of a readable socket is called and runs on; the bus need not go on.

## What is proved

`tlapm` checks these for every set of messages, sources, timers, objects and every bound. They
assume the named ASSUMEs of the modules only:

* "none" values are not values, Hello is not one of the program's messages, bounds are natural numbers;
* `M`, the number of serials, is at least 2;
* a fixed header and its alignment have at least one byte (`SizeAssumption`), a kind of message has the
  lengths of its parts and what is wrong with it (`KindAssumption`);
* the default interval of a timer is not 0 (`IntervalAssumption`; the constructor sets one second);
* setters get texts of bytes shorter than the 2^27 bytes D-Bus allows for a message (`ProgramAssumption`): the
  library does not check, and the lengths in a header are 32 bits. A peer writes values of the types it names, each
  field that the library knows at most once and with its own type, and fields and a body shorter than 2^27 bytes; it
  may write any other fields anywhere (`PeerAssumption`). TLC evaluates both on the messages of the run.

The theorems on specifications have no other hypotheses; `FieldComesBack`, `HeaderComesBack` and `FieldsAreWrittenAlike`, which are about
functions, have some on the sizes and values the wire format can tell.

* **Connection_proofs.** `Invariance`: `Spec => []IInv`. `MatchedReplies` and `NoReplyLost` alone
  are not inductive. That an answer finds the entry of its message needs: entries are filed
  under the serial their message has (`EntryFiled`); an answer in the socket bears its
  message's serial, and that message has no result and gets no other answer (`InboxFits`,
  `InboxDistinct`, `AskedWaits`); and the erase after Finished, which holds only a number, still
  finds the entry of the call just answered (`FinishingAnswered`, `EntryWaits`), though the
  callback has sent messages: none got that serial, because the entry was still there. From
  `IInv` follow `RepliesMatch`, `RepliesKept`, `EntriesOpen`; `HelloInv` with it gives `Named` and
  `HelloIsFirst`, an action property, for any program. `ErrorStays` is one too. `Implements` proves `KeepsPromise`: each
  action maps to one of CallPromise's or to a stutter.
* **EventLoop_proofs.** `LoopInv`: what the epoll set has is registered to its live owner, and each
  entry of a source that calls `removeEvent` is that of a live source under its own number
  (`EntriesOfRemovers`). The second part is what makes `RemovedNeverCalled` inductive: a stale
  number in an array either has no entry, or has that of its new owner.
* **Object_proofs.** `TableInv`: for live objects the two tables agree in both directions
  (`CallbacksAreNoted`, `PointersHaveCallbacks`), and objects not yet constructed are in neither
  (`NewIsFresh`). `HandlersAreLive` follows. `OrderlyDestruction` needs the second direction: a
  handler still pointing to an object has a callback there, so an orderly destruction
  has no such handler.
* **LoopInstance_proofs.** `InstanceStays` is the action property. `ScopeInv`: the objects that are alive
  are on the stack, each once (`Scoped`); the loop that runs or that a client was added to is below it
  there (`LoopsBelow`); and that loop is the instance (`AtTheInstance`). `QuitReaches` and
  `ConnectionsAreRemoved` follow: the second needs the order of the scopes, because it says that the
  destructor's `instance()` is a loop that still lives.
* **TimerLoop_proofs.** `TimersRunInALoop`: each step of timers is one of `EventLoop` or leaves the loop
  alone, so a timer does nothing to the loop that a source may not do. `TimerInv` has the registry of
  the loop (`Registry`), the kernel's timers (`KernelInv`) and the emissions under way (`CallInv`).
  `KernelAgrees` is not inductive: whether an armed timerfd fits the fields after a setter depends on what
  its unread expirations and its readiness were before (`TimerFits`). `KernelFollows` and the action property
  `StopDrains` follow: an array filled before `stop` still holds the descriptor, but onRead then
  finds no expirations and returns; only an onRead that is running emits on, and no more than it has read.
  `NothingDangles` holds for any program and any depth of nested loops: a destroyed timer is used only after one was
  destroyed that a running `exec` needed (`careful`; the run `timer_delete` shows what happens then). `BatchInv` is its reason: while the program is careful the
  arrays name live timers only, none of them the timer whose callback the loop runs. An array has each descriptor once, so a static
  timer that deletes itself is not met again in the array that called it, and with its one Timeout it has nothing left to emit.
* **Framing_proofs.** `FramingInv`. `NoByteLost` is about the bytes in hand one after the other, and is not
  inductive: that `readFd` cuts at the right place needs the header it kept to be that of the
  message at the front, with all its bytes in the buffer (`HeaderInv`); that the size it computes is the
  one the bus writes (`NeverPastTheEnd`, from a lemma on the two formulas for padding); and that from any
  byte in hand to the last the stream runs through its messages (`Stretch`), which survives
  dropping a message at the front and adding bytes at the end. `EveryByteIsKept` and `NeverReadsOn` follow.
  `FramingImplementsChannel` proves `IsAChannel` with it: a step that hands on a message hands on the next
  one, whole, and the others are stutters or the break.
* **Codec_proofs.** First lemmas for every argument: each operator of `Marshal` leaves a reader inside its bytes or
  a writer of bytes; `AlignedTo` is the next multiple; `Number(UInt32(n)) = n` below 2^32. `CodecInv`: the types,
  with every header, field and reader a value the code can hold; the bytes on the wire are those of the
  peer (`WireInv`); the fixed header is the one on the wire and the reader is behind it (`HeaderInv`). From it
  `CodecTypeCorrect`: no bytes move a reader past the end, but for a text of the length 2^32 - 1, after
  which nothing is claimed; `WaitsForWhole`:
  `LittleEndianWhole` for fields and bodies of every length; and `SentIsWhole`: what `serialize` returns is as long
  as the header in it says. Three theorems are about the format alone. `FieldComesBack`: a field
  written at any place, in either byte order and with anything behind it, is parsed as that field, and the reader is
  then where the writer was. Its hypothesis `CanWrite` has the lengths that can be read back: below 2^32 - 1, and below
  256 for a signature, which `writeSignature` cuts with a cast. `HeaderComesBack` is the same for the fixed header,
  little-endian ones only (below). `FieldsAreWrittenAlike`: the example, which writes in its own way,
  writes the same bytes for each field.
* **CodecReading_proofs.** The other invariants of `Codec`, for lists of fields and bodies of every length. What a peer
  has written, and what the example's parser makes of an offset, are recursive functions; a recursive function
  is unfolded one step at a time (`CountingUp`, `CountingDown`), and what holds of all of its values is shown by the least
  number for which it would fail (`LeastNumber`).
  `ReadingInv` says where the reader stands: between two fields it is where the peer's writer was, up to the padding
  that one of them has put in and the other will, with exactly the fields written up to there (`FieldsRead`); the same for
  the items of the body, which the peer wrote from a start of its own (`ItemsRead`); a message whose
  fields are all skippable is refused for its version only (`NotRefused`). `HeaderIsNeverMisread` and
  `ItemsReadInOrder` follow.
  `LibraryAgreesWithExample` needs no `Skippable`: both readers may be lost, but in the same way, and if one overruns
  the bytes so does the other. `Alike` says that what
  the example reads of the whole message is what it reads from the library's position on, over what the library has
  read; `FieldsFrom` makes the one step that `ReadField` makes.
  `SentIsReadByExample` is about messages in little-endian order: all a program makes, and all it has received but the
  big-endian ones (see Findings). It rests on `Sendable`: a message has the version 1 and every text in it is shorter than
  `TextLimit`, because it was given by a setter or lay in the bytes of a peer's message. So nine fields stay far below 2^32, and
  `serialize` can say how long they are. Then, from the last field of `DynamicHeader::serialize` back to the first,
  the example reads from where a field begins that field and those behind it (`FieldsLeft`).
* `TypeCorrect`, `LoopTypeCorrect`, `TimerTypeCorrect`, `FramingTypeCorrect`, `ObjectTypeCorrect`,
  `InstanceTypeCorrect`, `CodecTypeCorrect`: the type invariants.

Only model-checked: all liveness (`Settles`, `CallsFinish`, `QuitStops`, `ReadyServed`, `PeriodicFires`,
`StaticFires`, `WholeMessagesArrive`), which needs fairness and ENABLED. Every invariant and every action property of
the runs that pass is proved.

## Findings

* `connection_eof`. The end of the stream goes unnoticed when `errno` is EAGAIN from an earlier
  call: the connection keeps its state, and the loop calls its handler again and again.
* `connection_destroy`. A program that destroys its connection in a StateChanged callback when
  the state is Error: if Error was the answer to Hello, the callback runs under `handleBusMsg`,
  which then erases from the destroyed map.
* `timer_delete`. A timer deleted in its own Timeout callback is used again when more than
  one expiration was read.
* `object_dangling`. The destructor of an object does not leave the `m_subscribtions` of those who
  handle its events; a handler that outlives an emitter follows the pointer. A
  connection is such a handler: of the PendingReply of Hello, which is freed when its entry
  is erased.

A program that sends from StateChanged(GettingName) gets ahead of Hello; nothing in the repository forbids or
allows it. `HelloFirst` holds for all programs and says that no other place lets a message do so.

Seen while modelling, and said by nothing in the repository to be otherwise:

* A big-endian message is not understood. The fixed header keeps its `endian`, the reader does not,
  so `readFd` computes a size from swapped lengths and waits for it; on a stream it takes the
  messages that follow for the rest of this one. If the two lengths are the same read backwards, as in a message without
  fields and body, the message is delivered, with its serial swapped. The properties of reading are therefore
  about little-endian messages.
* The value of a field of an unknown type is not skipped. If it crosses a multiple of 8, its bytes are taken
  for a field: `NeverMisread` leaves those messages out (`Skippable`). The example does the same, which
  `AgreesWithExample` shows, with one difference: if what is taken for the last field runs on past the end of
  the header, the example finds the body outside the message and refuses it, while the library takes what is left for the body.
* A length of 2^32 - 1 makes the sum `*len + 1` in `readString` wrap around to 0, so its check passes and the
  string is made of 4 GB behind the buffer. `read_string` of the example does the same. No peer of the model writes such a
  length for a field, but the bytes of an unknown field that is taken for one may hold it. The model stops there (phase "undefined"):
  `AgreesWithExample` says that both reach it on the same messages, `NeverMisread` that messages whose fields are `Skippable` do not lead to it.
* A received message that is sent again loses its body and keeps its field Signature. If it came in big-endian
  order, `serialize` writes the fixed header in that order and the fields in little-endian order, so the example takes
  the length of each text in them backwards; `SentIsRead` is about the others.
* With a nested `exec`, a static single-shot timer can be called after its destruction: the inner loop
  dispatches it, it deletes itself, and its descriptor is still in the array of the outer loop, whose table
  has kept the entry. `NothingDestroyedIsUsed` counts that as a timer destroyed while it was needed;
  `exec` itself reports nesting as an error.
* A `stop` in a Timeout callback does not end the Timeouts of the expirations that were read together with it.
* The first loop constructed is the instance for ever: a program that leaves it and then constructs a
  connection or a timer, or destroys a connection whose `connect` had failed, uses a destroyed loop.

## Not modelled, and assumptions

* No connection callback runs a nested `exec`, which `exec` itself reports as an error. One that does under `handleBusMsg` would let
  `readFd` read into a `readMsg` that was moved from, whose headers are still valid.
* `write` takes all bytes or none. No signal interrupts `read`, `write` or `epoll_wait`
  (after one, `exec` would only test `running` again).
* Creating descriptors does not fail, except the socket's `connect`. `exec` waits for at most 64
  events; with more descriptors ready the rest is fetched by the next wait.
* The bus writes one line in the handshake, answers a message at most once, and does not
  answer messages it did not get.
* The sum `16 + fieldsLen` in `readFd`, of 32 bits, does not wrap around: that takes a length within 16 of 2^32. A peer's fields are
  shorter than 2^27 bytes (`PeerAssumption`), so their length is far from that in its own byte order, and read backwards, for a
  big-endian message, it ends in a byte below 8 and is at most 2^32 - 249.
* A `quit` before `exec` has set `running` is lost, in the code and in the model.
* `exitCode` is stored and never read; `onWrite` is never set.
* The machine is little-endian, as the code assumes when it takes `endian` to mean "do not swap".
* `Reader::readDouble` (nothing calls it), `toString` and `deserialize` (declared, never defined).
  Copying and moving a `Message` is copying a value; a signature is shorter than 256 characters.
* Objects of `LoopInstance` live in scopes. A connection on the heap that outlives its loop uses a
  destroyed loop whatever `instance()` is. Globals, which are destroyed after main, are left out.
* `Variant` converts values and keeps no state, and no other component uses it; logging is output.
  The client in examples/dbus/main.cpp is a blocking program of its own that shares nothing with
  the library but the wire format; only its `read_message` is modelled.

## Plan

Done, in order: Connection with CallPromise and its proofs, EventLoop and its proofs, TimerLoop,
Object and its proofs, Framing with FramedChannel, Codec with the two codecs, LoopInstance and
its proofs, the proofs of Framing, TimerLoop and Codec. What is left:

1. `NestedReads`: Framing and EventLoop together, with a callback that runs `exec`; and a
   connection's `write` that takes a part of the bytes.
2. `Lifetime`: the PendingReply of Hello, the connection and the program's handlers as an
   instance of Object.
