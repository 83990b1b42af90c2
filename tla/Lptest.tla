-------------------------------- MODULE Lptest --------------------------------
(***************************************************************************)
(* The test program src/lptest (main.cpp, TestReceiver.h): an OscSender, an*)
(* OscReceiver with one OscObject, and the network between them, driven by *)
(* main().  The sender runs its script twice: first the receiver polls for *)
(* what was sent, then its thread receives it.                             *)
(*                                                                         *)
(* The sender and the receiver are the modules OscSender and OscReceiver;  *)
(* what they leave open, main() and the callbacks decide here, reading the *)
(* messages as in ReceivedMessage.  Datagram d is the d-th message that was*)
(* sent, alone or in a bundle.                                             *)
(***************************************************************************)
EXTENDS ReceivedMessage, FiniteSets

CONSTANTS
    Addresses, Messages, Bundles,   \* handles, as in OscSender, but numbers
    Servers,                        \* as in OscReceiver
    TheObject,                      \* main()'s Object
    User,                           \* main()'s thread
    NULL,
    StartMayFail, ErrorsHappen,     \* as in OscReceiver
    MaxLost                         \* bound: no packet is lost once this many
                                    \* messages are

VARIABLES
    m_address, m_message, m_bundles, m_addressPattern,
    m_messageInProgress, m_bundleInProgress,
    slife, sret, sent, live, args, elems, stamp,
    m_serverThread, m_isMulticast, m_isRunning, m_ignoreMessages, m_objects,
    rlife, call, rret, port, active, thread, inbox, work, fate, existing,
    stage,      \* where main() is
    line,       \* the next statement of testSender()
    word,       \* the next call of it, when the statement builds a message
    done,       \* TestReceiver::done
    content,    \* what each message that was sent holds
    net,        \* sent and not arrived
    lost,       \* messages that lo_send_* did not get onto the wire
    takenBy     \* who handled each message: "Object", "TestReceiver", "nobody"

sender == <<m_address, m_message, m_bundles, m_addressPattern,
            m_messageInProgress, m_bundleInProgress, slife, sret, sent, live,
            args, elems, stamp>>
receiver == <<m_serverThread, m_isMulticast, m_isRunning, m_ignoreMessages,
              m_objects, rlife, call, rret, port, active, thread, inbox, work,
              fate, existing>>
wire == <<content, net, lost>>
script == <<line, word>>
vars == <<sender, receiver, stage, script, done, wire, takenBy>>

-----------------------------------------------------------------------------
(* What testSender() sends.                                                *)

AllTypes == <<"T", "F", "c", "N", "I", "i", "h", "f", "d", "s", "S", "m", "t",
              "b">>

\* The messages, in the order in which they are sent.
Sends ==
    <<[path |-> "/test1", types |-> <<"T", "f", "f", "N", "s", "s">>],
      [path |-> "/test2", types |-> <<"m", "b">>],
      [path |-> "/test3", types |-> AllTypes],
      [path |-> "/test4", types |-> <<"F", "i", "f", "s">>],
      [path |-> "/test5", types |-> <<"s", "s">>],
      [path |-> "/object", types |-> <<"i", "f", "s">>],
      [path |-> "/quit", types |-> <<>>]>>

\* Message n stands for beginMessage, one call per argument and endMessage.
testSender ==
    <<<<"construct">>, <<"setup">>,
      <<"message", 1>>, <<"send">>,
      <<"message", 2>>, <<"send">>,
      <<"message", 3>>, <<"send">>,
      <<"beginBundle", "now">>, <<"message", 4>>,
      <<"beginBundle", "later">>, <<"message", 5>>, <<"endBundle">>,
      <<"endBundle">>, <<"send">>,
      <<"message", 6>>, <<"send">>,
      <<"message", 7>>, <<"send">>,
      <<"destroy">>>>

Datagrams == 1..(2 * Len(Sends))

\* What OscSender and OscReceiver assume, for the program's constants.
ASSUME SenderConstants ==
    /\ Addresses \cap Messages = {}
    /\ Addresses \cap Bundles = {}
    /\ Messages \cap Bundles = {}
    /\ NULL \notin Addresses \cup Messages \cup Bundles

ASSUME ReceiverConstants ==
    /\ User \notin Servers
    /\ NULL \notin Servers \cup {TheObject} \cup {9990}
    /\ StartMayFail \in BOOLEAN /\ ErrorsHappen \in BOOLEAN
    /\ NULL \notin [msg : Datagrams, next : Nat]

S == INSTANCE OscSender WITH
        Patterns <- {Sends[i].path : i \in 1..Len(Sends)},
        Tags <- {AllTypes[i] : i \in 1..Len(AllTypes)},
        TimeTags <- {"immediate", "now", "later"},
        LO_TT_IMMEDIATE <- "immediate",
        MaxArgs <- Len(AllTypes),
        life <- slife, ret <- sret

R == INSTANCE OscReceiver WITH
        Ports <- {9990}, Objects <- {TheObject}, MaxAttached <- 1,
        life <- rlife, ret <- rret

-----------------------------------------------------------------------------
Init ==
    /\ S!Init /\ m_address = NULL
    /\ R!Init
    /\ stage = "setup"
    /\ line = 1
    /\ word = 0
    /\ done = FALSE
    /\ content = <<>>
    /\ net = <<>>
    /\ lost = {}
    /\ takenBy = [d \in Datagrams |-> "nobody"]

-----------------------------------------------------------------------------
(* testSender().                                                           *)

\* A message in a packet.  late: the receiver is to hold it back until its time
\* tag.
Packed(m, path, late) == [path |-> path, types |-> args[m], late |-> late]

\* The messages in element e of a bundle, given those held in each bundle.
Opened(e, late, held) ==
    IF e.handle \in Messages THEN <<Packed(e.handle, e.path, late)>>
                             ELSE held[e.handle]

\* The messages in bundle b, in order.
InBundle(b, held) ==
    LET upTo[i \in 0..Len(elems[b])] ==
          IF i = 0 THEN <<>>
          ELSE upTo[i - 1] \o Opened(elems[b][i], stamp[b] = "later", held)
    IN  upTo[Len(elems[b])]

Held[b \in Bundles] == InBundle(b, Held)

Unpacked(packet) ==
    IF packet.root \in Messages THEN <<Packed(packet.root, packet.path, FALSE)>>
                                ELSE Held[packet.root]

construct ==
    /\ m_address' = NULL /\ m_message' = NULL /\ m_bundles' = <<>>
    /\ m_addressPattern' = ""
    /\ m_messageInProgress' = FALSE /\ m_bundleInProgress' = FALSE
    /\ slife' = "alive"
    /\ sret' = [op |-> "construct", exc |-> "none"]
    /\ sent' = NULL
    /\ UNCHANGED <<live, args, elems, stamp>>

\* The packet goes onto the wire whole, or not at all.
Send ==
    /\ S!send
    /\ IF S!CannotSend THEN UNCHANGED wire
       ELSE LET new == Unpacked(S!Packet)
                ids == [i \in 1..Len(new) |-> Len(content) + i]
            IN  /\ content' = content \o new
                /\ IF sent' = NULL
                   THEN /\ Cardinality(lost) < MaxLost
                        /\ lost' = lost \cup {ids[i] : i \in 1..Len(ids)}
                        /\ UNCHANGED net
                   ELSE net' = net \o ids /\ UNCHANGED lost

\* The next call of the statement that builds message m.
BuildMessage(m) ==
    \/ word = 0 /\ S!beginMessage(m.path)
    \/ word \in 1..Len(m.types) /\ S!addArg(m.types[word])
    \/ word = Len(m.types) + 1 /\ S!endMessage

Perform(c) ==
    \/ c[1] = "construct" /\ construct /\ UNCHANGED wire
    \/ c[1] = "setup" /\ S!setup /\ UNCHANGED wire
    \/ c[1] = "message" /\ BuildMessage(Sends[c[2]]) /\ UNCHANGED wire
    \/ c[1] = "beginBundle" /\ S!beginBundleAt(c[2]) /\ UNCHANGED wire
    \/ c[1] = "endBundle" /\ S!endBundle /\ UNCHANGED wire
    \/ c[1] = "send" /\ Send
    \/ c[1] = "destroy" /\ S!destroy /\ UNCHANGED wire

\* More calls of statement c follow the next one.
Continues(c) == c[1] = "message" /\ word =< Len(Sends[c[2]].types)

\* Which free handle the allocator returns makes no difference; it is the least.
LeastHandle ==
    \A Kind \in {Messages, Bundles} :
        \A h \in (live' \ live) \cap Kind, g \in Kind \ live : h =< g

\* An exception of the sender is not caught.
RunSender(then) ==
    /\ Perform(testSender[line])
    /\ LeastHandle
    /\ IF Continues(testSender[line])
       THEN word' = word + 1 /\ line' = line
       ELSE word' = 0 /\ line' = (line % Len(testSender)) + 1
    /\ stage' = IF sret'.exc # "none" THEN "terminated"
                ELSE IF line = Len(testSender) THEN then ELSE stage
    /\ UNCHANGED <<receiver, done, takenBy>>

-----------------------------------------------------------------------------
(* The callbacks.                                                          *)

\* Mistake: Object expects one argument less.
ObjectTakesFewer(c) == checkAddressAndTypes(c, "/object", <<"i", "f">>)

\* Object::processOscMessage.
ObjectTakes(c) == checkAddressAndTypes(c, "/object", <<"i", "f", "s">>)

ObjectReads == <<<<"Int32", 0>>, <<"Float", 1>>, <<"String", 2>>>>

\* What TestReceiver::process reads of /test3; nil and infinitum have no value.
Test3Reads ==
    <<<<"Bool", 0>>, <<"Bool", 1>>, <<"Char", 2>>, <<"Int32", 5>>,
      <<"Int64", 6>>, <<"Float", 7>>, <<"Double", 8>>, <<"String", 9>>,
      <<"Symbol", 10>>, <<"MidiMessage", 11>>, <<"TimeTag", 12>>, <<"Blob", 13>>>>

\* The accessors in reads succeed.
Readable(c, reads) ==
    \A i \in 1..Len(reads) : as(reads[i][1], c, reads[i][2]).exc = "none"

\* Mistake: any message ends the poll.
QuitsAny(c) == TRUE

\* Mistake: another address than the one testSender() sends.
QuitsNever(c) == c.path = "/exit"

\* process() sets done.
Quits(c) == c.path = "/quit"

\* A message as the accessors see it; values are left out.
Received(c) ==
    [path |-> c.path,
     args |-> [i \in 1..Len(c.types) |-> [type |-> c.types[i], val |-> <<>>]]]

\* A step of processMessage on thread t.  Where the receiver leaves the answer
\* of a callback open, it is the one above; TestReceiver::process answers true
\* to anything.  An exception in a callback is not caught.
Dispatch(t) ==
    LET c == Received(content[work[t].msg])
        who == IF work[t].next = 0 THEN "nobody"
               ELSE IF work[t].next =< Len(m_objects) THEN "Object"
               ELSE "TestReceiver"
        takes == \/ who = "Object" /\ ObjectTakes(c)
                 \/ who = "TestReceiver"
        reads == IF who = "Object" THEN ObjectReads
                 ELSE IF checkAddressAndTypes(c, "/test3", AllTypes)
                 THEN Test3Reads ELSE <<>>
    IN  /\ work[t] # NULL
        /\ R!processMessage(t)
        /\ rlife' = "alive" => (fate'[work[t].msg] = "handled" <=> takes)
        /\ takenBy' = IF takes THEN [takenBy EXCEPT ![work[t].msg] = who]
                               ELSE takenBy
        /\ done' = (done \/ (who = "TestReceiver" /\ Quits(c)))
        /\ stage' = IF takes /\ ~Readable(c, reads) THEN "terminated" ELSE stage
        /\ UNCHANGED <<sender, script, wire>>

-----------------------------------------------------------------------------
(* main().                                                                 *)

\* A step of main() that leaves the sender alone.
Main(next) == stage' = next /\ UNCHANGED <<sender, script, wire, takenBy>>

\* setup() is called outside the try block, and its result is not looked at.
Setup ==
    /\ stage = "setup"
    /\ R!setup(9990)
    /\ Main(IF rret'.val = "ReceiveException" THEN "terminated" ELSE "attach")
    /\ UNCHANGED done

Attach ==
    /\ stage = "attach"
    /\ R!addOscObject(TheObject)
    /\ Main("testSender")
    /\ UNCHANGED done

SendToPoll == stage = "testSender" /\ RunSender("beginPoll")

BeginPoll ==
    /\ stage = "beginPoll"
    /\ done' = FALSE
    /\ Main("poll")
    /\ UNCHANGED receiver

\* One turn of the loop in poll(), until the call of handleMessages() returns or
\* dispatches.  Its exception is caught at the end of main().
Poll ==
    /\ stage = "poll"
    /\ ~done
    /\ R!handleMessages
    /\ Main(IF rret'.val = "ReceiveException" THEN "unwind"
            ELSE "poll")
    /\ UNCHANGED done

EndPoll ==
    /\ stage = "poll"
    /\ done /\ call = "none"
    /\ Main("start")
    /\ UNCHANGED <<receiver, done>>

Start ==
    /\ stage = "start"
    /\ R!start
    /\ Main("starting")
    /\ UNCHANGED done

SendToThread == stage = "testSenderAgain" /\ RunSender("stop")

\* Mistake: main() returns without stopping the thread.
StopForgotten ==
    /\ stage = "stop"
    /\ Main("unwind")
    /\ UNCHANGED <<receiver, done>>

Stop ==
    /\ stage = "stop"
    /\ R!stop
    /\ Main("stopping")
    /\ UNCHANGED done

\* object is destroyed first, with the receiver still pointing to it.
DestroyObject ==
    /\ stage = "unwind"
    /\ R!destroyObject(TheObject)
    /\ Main("destroy")
    /\ UNCHANGED done

DestroyReceiver ==
    /\ stage = "destroy"
    /\ R!destroy
    /\ Main("destroying")
    /\ UNCHANGED done

\* start() returns.
Started ==
    /\ stage = "starting"
    /\ R!LeaveStart
    /\ Main("testSenderAgain")
    /\ UNCHANGED done

\* stop() or the destructor of the receiver returns.
Leave ==
    /\ stage \in {"stopping", "destroying"}
    /\ R!LeaveStop
    /\ Main(IF stage = "stopping" THEN "unwind" ELSE "returned")
    /\ UNCHANGED done

MainStep ==
    \/ Setup \/ Attach \/ SendToPoll \/ BeginPoll \/ Poll \/ EndPoll
    \/ Start \/ Started \/ SendToThread \/ Stop \/ Leave
    \/ DestroyObject \/ DestroyReceiver
    \/ Dispatch(User)

-----------------------------------------------------------------------------
(* The server thread and the network.                                      *)

ServerStep(s) ==
    \/ /\ R!ServerCheck(s) \/ R!ServerRecv(s)
       /\ UNCHANGED <<sender, stage, script, done, wire, takenBy>>
    \/ Dispatch(s)

\* Messages arrive in the order in which they were sent, but one with a time tag
\* in the future is overtaken by those behind it.
Deliver ==
    \E s \in Servers, i \in 1..Len(net) :
        /\ \A j \in 1..(i - 1) : content[net[j]].late
        /\ R!Arrive(s, net[i])
        /\ net' = SubSeq(net, 1, i - 1) \o SubSeq(net, i + 1, Len(net))
        /\ UNCHANGED <<sender, stage, script, done, content, lost, takenBy>>

Running == stage \notin {"returned", "terminated"} /\ rlife # "terminated"

Next == Running /\ (MainStep \/ Deliver \/ \E s \in Servers : ServerStep(s))

\* The operating system runs both threads, and the loopback device delivers.  That
\* receiving may fail at any moment does not mean that it ever does.
ReceiveFails == stage = "poll" /\ stage' = "unwind"

Fairness ==
    /\ WF_vars(Running /\ MainStep /\ ~ReceiveFails)
    /\ WF_vars(Running /\ Deliver)
    /\ \A s \in Servers : WF_vars(Running /\ ServerStep(s))

Spec == Init /\ [][Next]_vars /\ Fairness

-----------------------------------------------------------------------------
\* Which message of testSender() datagram d is.
Nr(d) == ((d - 1) % Len(Sends)) + 1

\* The program breaks no rule of the classes it uses: no call of the sender
\* throws, no accessor does, and nothing is undefined: not with the object gone
\* before the receiver that points to it, with the thread, or after an error.
\* Only the receiver's own exceptions end it early.
RunsClean ==
    /\ slife # "undefined" /\ rlife # "undefined"
    /\ stage = "terminated" =>
          rret = [op |-> "setup", val |-> "ReceiveException"]

\* What is handled is what testSender() wrote, after its way through the
\* sender's bundles and the receiver's thread, and by the class it was meant for.
HandledAsWritten ==
    \A d \in Datagrams : takenBy[d] # "nobody" =>
        /\ content[d].path = Sends[Nr(d)].path
        /\ content[d].types = Sends[Nr(d)].types
        /\ takenBy[d] = IF content[d].path = "/object" THEN "Object"
                                                       ELSE "TestReceiver"

\* When poll() ends, everything sent before /quit has been handled, except what
\* was lost and what was to be held back.
PollMissesNothing ==
    stage = "start" =>
        \A d \in 1..Len(Sends) :
            d \in lost \/ content[d].late \/ takenBy[d] # "nobody"

\* main() returns, through both phases and whatever is lost, unless /quit never
\* reaches poll(): because it was lost, or because setup() failed, which main()
\* does not look at.
MainReturns ==
    <>(\/ stage \in {"returned", "terminated"} \/ rlife = "terminated"
       \/ stage = "poll" /\ (m_serverThread = NULL \/ Len(Sends) \in lost))
=============================================================================
