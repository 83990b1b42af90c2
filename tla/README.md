# A TLA+ model of lopack

lopack is a C++ wrapper of liblo for sending and receiving OSC (Open Sound
Control) messages. This directory holds TLA+ modules that model its classes,
the TLC configurations that check them on small instances, and proofs that
TLAPS checks for every value of the constants. Paths below are relative to the
repository; `OscSender.cpp` and the other library files are in `src/lopack/`.

## 1. The system

| Part | State | Operations | What makes it hard |
|---|---|---|---|
| **OscSender** | address, message, stack of open bundles, pattern, two in-progress flags; liblo's heap of handles | setup, send, clear, begin/end message and bundle, fourteen add functions, `<<`, getters | ownership of handles passes to bundles; the stack, the tree in the heap and the flags are three views of one thing; calls come in any order and may throw |
| **OscReceiver** | server handle, running / ignore / multicast flags, vector of attached objects; liblo's server, thread and socket | setup, setupMulticast, start, stop, clear, handleMessages, add/remove objects, ignoreMessages; callbacks messageCB, errorCB | a server thread without any lock, joined by stop(); polling and thread on the same socket; objects that go away; start and receive failing |
| **OscObject** | vector of attached objects | add, remove, removeAll, processOsc (recursive) | recursion over a graph that need not be a tree; stop at the first taker; callbacks that change vectors under the iterators of the loops that called them |
| **OscTypes: TimeTag** | 32 bit seconds and fraction | now, add, diff, comparison | no carry; a constructor that sets nothing |
| **OscTypes: ReceivedMessage** | a liblo message with a reference count | type tests, as..., try... | eleven accessors and seven conversions that repeat each other; a reference that copies share |
| **OscTypes: others** | plain values | MidiMessage, Symbol, Blob, stream manipulators, MessageSource | byte order, borrowed pointers |
| **Log** | none | output | none |
| **lptest** | `done` flag | main, testSender, poll, process, processOscMessage | the poll loop ends only when `/quit` arrives; order of destruction |

How they interact: a client builds packets with an OscSender, which hands them
to liblo's UDP socket. liblo's server thread, or the user's thread inside
`handleMessages()`, takes a datagram and calls `OscReceiver::messageCB`;
`processMessage` offers it to each attached OscObject, which offers it to the
objects attached to it, and at last to the virtual `process()`.

What correctness means for each part:

* OscSender: no handle is used after it was freed, or freed twice, or lost; what
  is sent is what was built; calls in a documented order succeed.
* OscReceiver: one dispatch at a time; after stop() no callback runs; stop()
  returns; what arrives is dispatched, once; a client that changes its objects
  only while stopped has no race.
* OscObject: the order the header documents; the first taker ends it; iterators
  stay valid, or are not used; the recursion ends.
* TimeTag: adding milliseconds moves a tag forward by as much.
* ReceivedMessage: an accessor reads an argument only as the type it has; a
  conversion keeps what fits; what a client keeps stays allocated.
* lptest: every message is handled by the class it is meant for, and main() returns.

The hazards behind these, with their lines, are in `PROJECT.json`.

## 2. Modules

| Module | Models |
|---|---|
| `OscSender` | the class OscSender and the part of liblo's heap it uses, under any client |
| `SenderClient` | OscSender with a client that matches begin and end, as `lptest` does |
| `PacketBuilder` | abstract specification: packets as values, no handles |
| `SenderRefinement` | how the sender's state reads as that of `PacketBuilder` |
| `OscSenderProofs`, `SenderRefinementProofs` | theorems about the sender and about it with its client, and that the two implement `PacketBuilder` |
| `ObjectVector` | the vector of attached objects that two classes have |
| `OscReceiver` | the class OscReceiver, its user's thread, liblo's server threads and sockets |
| `ReceiverClient` | OscReceiver with a client that changes the list only while stopped |
| `OscReceiverProofs` | theorems about the two |
| `OscObject`, `OscObjectProofs` | objects attached to objects, the recursive dispatch, and callbacks that change the vectors |
| `TimeTag` | a time tag and the calls that set and move it |
| `ReceivedMessage` | the is... and as... functions, as operators on a message |
| `MessageClient` | the try... functions, and the life of a received message |
| `OscTypesProofs` | theorems about time tags and received messages |
| `Lptest` | the test program: `OscSender`, `OscReceiver`, `ReceivedMessage` and the network composed under main() |
| `LptestSenderProofs`, `LptestStepProofs`, `LptestProofs` | theorems about the test program: what testSender() puts onto the wire, the steps of main(), the callbacks and the network, and the two together |
| `MC...` | instances for TLC, with symmetry sets and the reference order |

Definitions keep the names of the source. Operators whose comment begins with
"Mistake" are variants of the definition that follows them with a plausible
bug; no specification uses them, and they serve to confirm that a property
would notice the bug.

### OscSender

The variables `m_...` are the members. `live` is the set of allocated handles;
`args`, `elems` and `stamp` are what messages and bundles hold. `ret` is the last
call and what it threw, `sent` what it gave to the socket. Each public function
is one action, since nothing is concurrent; the throwing branch of a function is
a disjunct of it. A call that dereferences a null message or the back of an
empty stack ends in the life stage `undefined`. The fourteen add functions have the
same control and are one action `addArg(tag)`; `operator<<` is `Stream`.
`lo_bundle_free_recursive` frees `Tree(elems, root)`, the least set that holds
the root and the elements of its bundles. An error from `lo_send_*` is ignored
in the code, so `send` may or may not put the packet on the wire.

`PacketBuilder` says what this is for, without handles: a message is a pattern and a
sequence of arguments, a bundle a time tag and a sequence of items, and the state is the bundles
that are open, the message in progress, the finished packet and the packet on the wire.
`SenderRefinement` reads the sender's state as such values. `Values` evaluates the tree below
each bundle by a recursive function over the heap. A nested bundle is an element of
the one around it from `beginBundle()` on, although its contents are still to
come; `Complete` leaves it out until it is closed, which is when `PacketBuilder`
puts it in.

### OscReceiver

Threads interleave at every access to what they share, the members and liblo's
server. The user's thread makes one call at a time. `start` is two steps, since the thread
it creates may run before `m_isRunning` is set (`LeaveStart`); `stop`, `clear`
and the destructor are two steps, lowering liblo's flag (`EnterStop`) and what
follows the join (`LeaveStop`). A server thread loops through `ServerCheck`,
`ServerRecv` and `processMessage`, whose steps are reading the ignore flag,
offering to one object, and offering to `process()`. `work[t]` is the message and
iterator of thread t. Changing the vector while the server thread iterates is a
data race: either it goes unnoticed or the behaviour ends in `undefined`. (The
ignore flag is also written without a lock while the server thread may read it. It
is a byte, of which a build reads the old or the new value, and that is what the model does;
the results below are about the vector, not about this flag.) Calling
an object that was destroyed is undefined as well, and so is calling `process()` while the
destructor runs. A call of `errorCB` throws: out of `setup()` or
`handleMessages()`, or on the server thread, where nothing catches it
(`terminated`). `fate[d]` is a history variable for the datagrams.

The branch of `processMessage` that erases null pointers is unreachable, since
`addOscObject` refuses them; `TypeOK` states that.

### OscObject

`stack` is the C++ call stack: one frame per `processOsc` in progress, with its
iterator. `MaxDepth` is the room the platform's stack has, one frame per
node at least (`RoomAssumption`); the code itself has no limit.
`offered` lists the callbacks made for the message, each as the stack
it was called from: an object attached in two places has two turns, and its
stack tells them apart. `OscReceiver::processMessage` is the same
loop and is the bottom frame, of the node `Receiver`.

Objects are attached and detached between messages and, for the nodes in
`Meddlers`, from inside a callback. `push_back` and `erase` then invalidate iterators of
frames further down as the C++ standard says: `push_back` all or none (it
reallocates or not), `erase` those from the erased element on, `clear` all. A
frame's `valid` records it. A loop whose attached object refused increments its iterator,
and if that is invalid the behaviour ends in `undefined`; a loop whose attached
object took the message returns without touching it.

### TimeTag

A client has one tag and sets it or adds to it. `from` and `asked` are what it
counts from and what it asked for since. The widths are constants (`SEC`, `FRAC`:
2^32 in the code, `MS`: 1000), so a small instance wraps where the code does.
`Stored` is the conversion in `tag.frac += ...`: the sum is a double, and the conversion of one that does not fit
32 bits is undefined, so that any value may be left (it wraps on x86-64 and saturates on ARM). The code's quotient of
doubles is the integer quotient `Fraction`.

### ReceivedMessage and MessageClient

A message is a path and a sequence of typed arguments. `is`, `as` and `try` are the
families isBool ..., asBool ..., tryBool ... with the type as a parameter; `as`
answers with what was thrown or with the member of `lo_arg` that was read and its value, so
that reading the wrong member is visible. `Chain` lists the tests each try... function makes, in
order, and `Convert` its casts: integers keep the low bits, a floating value that does not fit an
integer gives any value, and what a float or a double cannot represent is rounded. `Floating` is the set of
numbers of a floating type, those with a mantissa up to `prec` and an exponent up to `exp`; `Rounded` gives the
nearest ones, and infinity beyond the largest. So an int64_t beyond 2^53 is rounded on its way into a double, as one beyond
2^24 is into a float. Floating values are counted in
halves, which is enough to tell a fraction that is cut off.

The actions are the life of the liblo message: `messageCB` (parsed with one
reference, the wrapper takes another), `Copy` and `Drop` of the wrapper by a
client, which run no code of the class, and `Return`, where liblo gives up its own.

### Lptest

`testSender` is the script of main.cpp as a sequence of calls, carried out one at a
time by the actions of `OscSender`; `Dispatch` decides what `OscReceiver` leaves open, the
answers of `Object` and `TestReceiver`, and reads the arguments they read with the
accessors of `ReceivedMessage`. `stage` is the place main() has reached, with the two
destructors at its end in the order of C++: object first. What is abstracted:

* the network carries messages; those of one packet are sent or lost together, and stay in order;
* `/test5`, in a bundle ten milliseconds ahead, may be overtaken by what follows;
* the values of arguments are left out, their types kept;
* SLEEP guarantees nothing: what was sent may arrive at any later time;
* which free handle the allocator returns is fixed (`LeastHandle`);
* setup() may fail to create the server, but no other process holds port 9990.

## 3. Runs

Passing:

| Run | Checks | Bounds |
|---|---|---|
| `sender_any` | `TypeOK`, `NoDangling`, `SingleOwner`, `OpenBundlesNest`, `BundlesReachable`, `ContentsStable`, `OnlyClearStrands` under any sequence of calls | 2 messages, 3 bundles, 1 argument |
| `sender_client` | `FlagsAgree`, `CallsSucceed`, `LeakFree`, and refinement of `PacketBuilder` (`SendsWhatWasBuilt`) | 2 addresses, 2 messages, 3 bundles, 2 time tags |
| `receiver_any` | `TypeOK`, `ThreadsAccounted`, `SerialDispatch`, `StoppedIsQuiet` under any calls, failing starts and receive errors | 2 servers, 2 objects, 2 attachments, 2 datagrams |
| `receiver_client` | `NeverUndefined`, and with fair threads `StopReturns` and `QueuedIsDispatched` | 2 servers, 1 object attached up to twice, 2 datagrams |
| `object_tree` | `TypeOK`, `StackIsPath`, `EachInTurn`, `OfferedInOrder`, `OverflowNeedsCycle` | 3 objects, 2 attachments each, changed between messages |
| `object_callbacks` | `StackIsPath`, `TakerMayChange`, `DispatchEnds` | 2 objects, 2 attachments each, every callback may change any vector |
| `osc_types` | `EarlyByTwoSecondsEach`; `KeptMessagesValid`, `ReadsAsItsType`, `TryKeepsNumbers` | 3 seconds of 8 fractions, 3 calls of add(); 2 messages, 2 copies, 2 bit char, 3 bit int, mantissas up to 2 (float) and 4 (double) |
| `lptest` | `RunsClean`, `HandledAsWritten`, `PollMissesNothing`, `MainReturns` | the program as it is; one packet lost |

Why the bounds are enough for the cases of interest: three bundles give a root,
a nested bundle and either a sibling or a third level, and two messages give one
in a bundle and one outside or a second in the same bundle. Handles are reused after they
are freed, so a dangling one would meet its successor. Two servers on one port
give a receiver that was cleared and set up again while the first socket is
still bound; two datagrams give one in dispatch and one waiting. Three objects
give every shape of attachment up to depth three, diamonds, duplicates and
cycles; two, with two attachments each, give a callback that changes the vector
of its own loop and of an outer one, before, at and behind the iterator. The argument
values of `osc_types` lie on both sides of every limit of every destination: 64 bit integers that a char, an int,
a float and a double do not hold, and floats and doubles that an integer or the other does not. `lptest`
is a closed program and needs no bound but on losses: one packet, which may be `/quit` in either
phase. Symmetry is used for handles, objects and datagrams in runs without
liveness properties.

`EachInTurn` and `OfferedInOrder` state the same order twice. `OfferedInOrder` compares the
callbacks with a postorder computed by recursion, for dispatches on acyclic attachments; `EachInTurn`
says it turn by turn, with the iterators of the stacks, in any graph, and is
the one that is proved.

Deadlock checking is off where the system may stop: after destruction, after
undefined behaviour, or when a bound (handles, servers) is used up.

Fairness (`receiver_client`, `object_callbacks`, `lptest`): weak fairness of each thread's
steps. The operating system runs every thread that can run, liblo's wait for a
datagram times out after a second at most, and callbacks return. In `receiver_client`
nothing is assumed of the client, which need not make another call; in `lptest` the
client is main(), which does, and the loopback device delivers what it accepted.
Errors may happen in all of them, and the properties say what they end in, but
no fairness condition brings one about (`ReceiveFails` in `Lptest`).

What the liveness properties do not promise: `MainReturns` excepts a lost `/quit` and a
failed setup(), after which poll() really does spin for ever.

Runs that show a disagreement between a comment and the code:

| Run | Comment | What happens |
|---|---|---|
| `bundle_guard` | `OscSender.h:115`, `:54` | `beginBundle()` without a time tag tests the wrong flag: it cannot nest and is not refused in the middle of a message |
| `second_bundle` | `OscSender.h:119` | after a root bundle is ended, the next one is nested in it and `send()` throws |
| `time_ahead` | `OscTypes.h:111`, `:93` | `add()` carries nothing into the seconds: a tag moved over the end of a second is a second or more early |
| `accessor_guard` | `OscTypes.h:256` | `asBlob()` tests no type and reads any argument as a blob |

`sender_client` passes because its client sends or clears between two root bundles;
with `Sequels = TRUE` it does not, and that is `second_bundle`. `osc_types` passes beside
`time_ahead` because `EarlyByTwoSecondsEach` says how much may be lost, and beside
`accessor_guard` because `ReadsAsItsType` is about the other accessors.

Others were met that one line of the code decides and no run is spent on:

* `clear()` of the sender leaves the in-progress flags set (`OscSender.h:82`, "clear the current message/bundles(s)"); `OnlyClearStrands` says that nothing else does such a thing;
* `clear()` of the receiver never frees the server, whose socket stays bound (`OscReceiver.h:70`, "stop thread & release socket");
* `stop()` leaves the socket bound (`OscReceiver.h:78`, "closes connection");
* `isListening()` returns true whatever the thread does (`OscReceiver.h:105`);
* the is... functions answer false on a bad index (`OscTypes.h:234`, "throws an exception on bad index");
* `TimeTag(lo_timetag)` assigns the member to itself, so it and `getTimeTag()` give an arbitrary tag (`OscTypes.h:96`, `:228`);
* `diff()` subtracts the tag from the current time, `diff(tag)` the argument from the tag: their signs differ (`OscTypes.h:114`, `:117`);
* the reference that ReceivedMessage takes is never given back (`OscTypes.h:207`), which is also why kept copies are safe;
* `Symbol(std::string)` keeps a pointer into its own by-value parameter (`OscTypes.h:130`).

## 4. Proofs

`OscSenderProofs` proves, for any sets of handles, patterns, tags and time tags
and any bound on arguments:

* `TypeCorrect`: `Spec => []TypeOK`;
* `SenderHoldsNothingFreed`, `SenderFreesOnce`, `SenderBundlesNest`, `SenderLosesNoBundle`: no
  dangling handle, one owner each, nested open bundles, and every allocated bundle
  reachable from the root, always;
* `SenderContentsStable`: bundle contents are append-only and frozen at the end;
* `SenderOnlyClearStrands`: flags and handles come apart only through clear().

The only assumption is `HandlesAssumption`: the kinds of handle are disjoint and
NULL is none of them, patterns are strings, `LO_TT_IMMEDIATE` is a time tag and the
bound on arguments is a natural number. The inductive invariant is the type invariant with
the four memory properties. None of the four is inductive alone: `clear()`
leaves nothing dangling because every allocated bundle is in the tree it frees
(`BundlesReachable`); that needs a new bundle to be attached to one in the tree, which
is what `OpenBundlesNest` says of the stack; attaching keeps one owner because
`m_message` and a new bundle have none yet (`SingleOwner`). A lemma for each kind
of change to the heap (`ClearSafe`, `NewMessageSafe`, `PopSafe`,
`AttachMessageSafe`, `OpenBundleSafe`, `FrameSafe`) carries the argument, and `StepInv`
has one step per action. `Tree` is an intersection of closed sets rather than a
recursion, which the provers can use.

It also proves `FlagsFollowClient`, `ClientCallsSucceed` and `ClientLeaksNothing`
of a client that matches begin with end, for any depth of nesting, assuming
`Sequels = FALSE` (it sends or clears between two root bundles; without that
they are false). The sender's invariant is strengthened with `Matched`, which says
which of the client's `building`, `depth` and `ready` stands behind each member, and `Owned`,
which says that an address or message is either a member or in the root's tree.

`SenderRefinementProofs` proves `SenderImplementsBuilder`: with `Sequels = FALSE`, the
specification of the sender and its client implies that of `PacketBuilder` under the
mapping of `SenderRefinement`, for any handles, patterns, arguments and time tags and
any depth of nesting. Every call is shown to be the abstract call of the same name
(`BeginMessageStep` ... `ClearStep`) or to change nothing the mapping sees (`OtherStep`). What makes it work is what can be
said of the values without induction over trees:

* a recursive function means something only if its equation has a solution. `Readable`, a
  conjunct of the invariant, says that the heap has one; each call keeps it by giving the next solution
  explicitly, since it changes the value of one bundle at most (`ValuesChange`, `ValuesKept`);
* the solution is the only one (`ValuesUnique`): of the bundles where two solutions differ, one
  has the least rank, and its elements have the same value in both. `Ranked`, the other conjunct,
  says that such a rank exists: a bundle ranks below the one that holds it;
* an open bundle is not yet part of the value of the bundle around it, so
  adding to the innermost one changes no other value (`OuterValues`); `endBundle()` puts the
  finished value at the end of the next one;
* when `send()` runs no bundle is open, so the tree on the wire is the one that was
  finished (`PacketIsFinished`);
* a message handle that is not allocated holds no arguments (`Unwritten`), so a new message is
  empty although handles are reused.

`OscReceiverProofs` proves, for any number of servers, ports, objects and datagrams:

* `ReceiverTypeCorrect`: `Spec => []TypeOK`, so no null pointer is ever attached;
* `ThreadsAreAccountedFor`: every server thread is the current server's and known to
  `m_isRunning`, and none is left when stop() has returned;
* `DispatchIsSerial`: callbacks never run on two threads at once;
* `StoppedReceiverIsQuiet`: `Spec => StoppedIsQuiet`. While the receiver is stopped no server thread begins or
  goes on with a dispatch or fails, whatever arrives;
* `ClientIsRaceFree`: a client that touches the list, destroys objects or destroys the receiver
  only while `m_isRunning` is false never races on `m_objects`, has a dead object called or loses the receiver
  under a callback.

They assume `ReceiverAssumption` (the user's thread is not a server, NULL is no
server, object or port) and `NoMessageAssumption` (NULL is no dispatch). The inductive invariant adds `WorkPlaced`: a dispatch is either on a
server thread that is out of its receive call or inside `handleMessages()`, which
was entered with `m_isRunning` false and keeps it so, because only the
user's thread writes that flag. `SerialDispatch` follows, since the one server thread there can be
exists only while `m_isRunning`. The client's theorem adds that attached objects
exist and that the destructor was entered with `m_isRunning` false.

The module also shows that no datagram is in two queues or dispatches at once (`InOnePlace`). This rests on
what is assumed of the socket and of `lo_server_recv`, and is a lemma for `LptestProofs` rather than a
result about lopack.

`OscObjectProofs` proves `ObjectTypeCorrect`, `StackFollowsAttachments` and `TakersMayChange`
for any number of objects attached in any shape, any depth and any meddling
callbacks, from `ObjectAssumption` (NULL and the receiver are no objects). `TakerMayChange` is not
inductive. `Answered` makes it so: while nothing has been changed all
iterators are valid, and once something has, by callbacks that take the message,
control is in a callback or on the way out with the answer true.

`OverflowsInCyclesOnly` needs `RoomAssumption`, which TLC evaluates on the instance. When
a call finds no room there are more calls in progress than nodes, so two frames have the
same node (a map from frames to fewer nodes is not injective), and by `StackIsPath` each node
between the two has the next attached to it: the attachments are not acyclic.

`AskedInTurn` proves `EachInTurn` for any graph of attachments. The inductive invariant `Order` adds how far the loops in progress
are among the turns already taken: every turn taken lies before the loops on the
stack (`LoopReached`), everything attached before an iterator has had its turn
(`EarlierOffered`), and so has the object that has just refused, after all that is
attached to it (`RefusedBelow`).
A turn is known by its call stack, so the argument compares sequences and needs
no induction over the tree.

`OscTypesProofs` proves `TimeTagEarly` for any widths, delays and number of calls, from
`TimeAssumption` (the widths are positive). It rests on two lemmas: `Fraction` is less than
a second, and `Stored` loses at most two, whatever the undefined conversion gives. While the seconds last (`InEra`) they do not wrap.

It also proves `MessagesKept` for any number of messages and copies; the
invariant counts two references during a callback and one after it. And it proves
`ReadAsTyped` and `NumbersArrive`, for messages of any length, any widths of char and int and any
precision and range of float and double, from `ContentAssumption` (liblo has parsed each argument: it has a type tag, and
one that is a number has a number as its value). No type tag is of two types
that one of these functions tests for, so the first test that succeeds is the only one, whatever
their order; the rest is arithmetic, destination by destination.

`LptestProofs`, with the two modules it extends, proves of the test program, for any
servers, any handles, any bound on losses and any interleaving of main(), the server
thread and the network:

* `TestProgramRunsClean`: no call of the sender and no accessor in a callback throws, and nothing is
  undefined, although main() destroys the object before the receiver that points to it;
* `MessagesHandledAsWritten`: what a callback takes is what testSender() wrote, and it is taken
  by the class it was meant for;
* `PollHandlesAllBeforeQuit`: when poll() ends, what was sent before `/quit` was handled,
  lost, or is to be held back;
* `TestProgramIsClient`: `Spec => R!Spec`, where `R` is `OscReceiver` with the program's
  constants. Each step of the program is a step of the receiver or leaves it alone.

They assume `SenderConstants` and `ReceiverConstants`: the kinds of handle are disjoint,
main()'s thread is no server, and NULL is none of these. TLC evaluates both. None of
the three invariants is inductive. `Inv` is, and its conjuncts depend on one another:

* `ReceiverSafe` is the invariant of `OscReceiverProofs`. It is not proved again: since the
  program is a client of the receiver, its lemmas are used through the instance `RP`;
* `Control` ties the receiver's flags, calls and objects to the place main() has
  reached: the thread runs only from inside start() (the stage `starting`) to stop(), where the object exists. That is
  why destroying the object first is harmless;
* `Positioned` and `Composing` say what the sender holds at each statement of testSender():
  the arguments of the message in progress, the elements of the open bundles and that a
  freed handle is empty. So no call throws, and `UnpackedAlone` and `UnpackedNest` give what
  send() puts onto the wire. `Held`, which unpacks nested bundles, is a recursive function; its equation
  has a solution for the two levels that testSender() builds, which `HeldIs` and `UnpackedNest` use,
  and no induction is needed;
* `Written` says that the d-th message sent is the d-th of the script. The accessors of a callback
  then find the types they ask for (`ObjectReadable`, `Test3Readable`);
* `Taken` says which class took a message, and that one past the object was not meant for it;
* `Order` says that every message is lost, on its way or past it (`OnItsWay`), that all take one
  socket (`OneSocket`), and that none but `/test5` is overtaken (`InOrder`). `PollMissesNothing` follows,
  since only `/quit` ends the poll (`Quit`).

Only model-checked:

* `OfferedInOrder`, whose reference order is a recursive operator over the attachments
  (what it computes for every graph would need induction over data); `AskedInTurn` proves the order in another form;
* all liveness (`StopReturns`, `QueuedIsDispatched`, `DispatchEnds`, `MainReturns`), which is outside
  the prover's reach.

## 5. Not modelled

* The wire format and the matching of addresses: liblo's. Argument values are kept where the
  library looks at them (`MessageClient`) and are types elsewhere.
* A callback that calls stop(), clear() or the destructor of its own receiver: it
  joins its own thread, and what happens is decided inside liblo and pthread_join.
* Callbacks that change the receiver's list are in `OscObject`, where the receiver is a
  node; `OscReceiver`, which has the threads, keeps them out, since both would only
  multiply interleavings of steps that one thread makes.
* `MessageSource`: three getters on a pointer that liblo lends; when liblo frees it cannot be seen from here.
* The pointers that `Symbol` and `Blob` borrow, and the rest of the value carriers.
* Allocation failure, and copying an OscSender, whose implicit copy shares handles.
* The allocation of copied address patterns, which nothing frees (`OscSender.cpp:208`); `LeakFree` is about liblo's handles.
* The root address of receivers and objects: a string that only clients read.
* `Log.h`, getters, `print` functions, `testTimeTag()` and build files: no state.

What is left of the library is output, getters and values without behaviour.

## 6. Plan

1. Two receivers, or a callback that sends: a reply from inside a dispatch.
2. The liveness of `Lptest` under other losses: several packets, reordering on a real network.
