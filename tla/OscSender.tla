------------------------------ MODULE OscSender ------------------------------
(***************************************************************************)
(* osc::OscSender (src/lopack/OscSender.cpp, OscSender.h): the object that *)
(* builds an OSC message or a tree of nested bundles out of liblo handles  *)
(* and sends it.                                                           *)
(*                                                                         *)
(* The variables m_... are the members of the class.  The heap is liblo's: *)
(* which handles are allocated, what each message holds and what each      *)
(* bundle owns.  Every public member function that changes state is one    *)
(* action; the functions run on one thread, so a call is atomic.  A call   *)
(* that throws leaves its exception in ret, and a call whose behaviour the *)
(* C++ standard or liblo leaves undefined ends the behaviour in the        *)
(* "undefined" life stage.                                                 *)
(***************************************************************************)
EXTENDS Naturals, Sequences

CONSTANTS
    Addresses,     \* lo_address handles the allocator can return
    Messages,      \* lo_message handles
    Bundles,       \* lo_bundle handles
    Patterns,      \* OSC address patterns a client passes to beginMessage
    Tags,          \* arguments a client adds; one per kind of add function
    TimeTags,      \* time tags a client gives to a bundle
    LO_TT_IMMEDIATE,
    NULL,
    MaxArgs        \* bound: arguments per message

ASSUME HandlesAssumption ==
    /\ Addresses \cap Messages = {}
    /\ Addresses \cap Bundles = {}
    /\ Messages \cap Bundles = {}
    /\ NULL \notin Addresses \cup Messages \cup Bundles
    /\ LO_TT_IMMEDIATE \in TimeTags
    /\ Patterns \subseteq STRING
    /\ MaxArgs \in Nat

VARIABLES
    m_address,            \* host address to send to, or NULL
    m_message,            \* message being built or waiting to be sent, or NULL
    m_bundles,            \* stack of open bundles; the front is the root
    m_addressPattern,     \* pattern of m_message
    m_messageInProgress,
    m_bundleInProgress,
    life,                 \* "alive", "destroyed" or "undefined"
    ret,                  \* the last call and the exception it threw
    sent,                 \* what the last call handed to the socket, or NULL
    live,                 \* heap: allocated handles
    args,                 \* heap: arguments of each message
    elems,                \* heap: elements of each bundle, in order
    stamp                 \* heap: time tag of each bundle

object == <<m_address, m_message, m_bundles, m_addressPattern,
            m_messageInProgress, m_bundleInProgress>>
heap == <<live, args, elems, stamp>>
vars == <<object, life, ret, sent, heap>>

Contents == Messages \cup Bundles
Handles == Addresses \cup Contents
Paths == Patterns \cup {""}
Elements == [handle : Contents, path : Paths]
Packets == [to : Addresses, root : Contents, path : Paths,
            args : [Messages -> Seq(Tags)],
            elems : [Bundles -> Seq(Elements)],
            stamp : [Bundles -> TimeTags]]

Ops == {"construct", "setup", "send", "clear", "beginMessage", "addArg",
        "endMessage", "beginBundle", "beginBundleAt", "endBundle",
        "getPort", "destroy"}
Exceptions == {"none", "SendException", "MessageInProgressException",
               "MessageNotInProgressException", "BundleNotInProgressException"}

back(s) == s[Len(s)]
pop_back(s) == SubSeq(s, 1, Len(s) - 1)

-----------------------------------------------------------------------------
(* How a call ends.                                                        *)

Returns(op) == ret' = [op |-> op, exc |-> "none"] /\ life' = life

Throws(op, e) ==
    /\ ret' = [op |-> op, exc |-> e]
    /\ sent' = NULL
    /\ UNCHANGED <<object, life, heap>>

\* The call dereferences a null pointer or an element that is not there.
Undefined(op) ==
    /\ ret' = [op |-> op, exc |-> "none"]
    /\ life' = "undefined"
    /\ sent' = NULL
    /\ UNCHANGED <<object, heap>>

-----------------------------------------------------------------------------
(* What lo_bundle_free_recursive releases when bundles hold the elements   *)
(* es: the bundle, its elements, their elements, and so on.                *)

Kids(es, b) == {es[b][i].handle : i \in 1..Len(es[b])}
Closed(es, S) == \A b \in S \cap Bundles : Kids(es, b) \subseteq S
Tree(es, r) ==
    {h \in Contents :
        \A S \in SUBSET Contents : r \in S /\ Closed(es, S) => h \in S}

\* Mistake: lo_bundle_free, which leaves nested bundles and messages allocated.
FreedShallow ==
    IF m_bundles # <<>> THEN {Head(m_bundles)} ELSE {m_message}

\* The handles clear() releases.
Freed == IF m_bundles # <<>> THEN Tree(elems, Head(m_bundles)) ELSE {m_message}

-----------------------------------------------------------------------------
\* OscSender() or OscSender(address, port), which calls setup().
Init ==
    /\ m_message = NULL
    /\ m_bundles = <<>>
    /\ m_addressPattern = ""
    /\ m_messageInProgress = FALSE
    /\ m_bundleInProgress = FALSE
    /\ \/ m_address = NULL /\ live = {}
       \/ m_address \in Addresses /\ live = {m_address}
    /\ args = [m \in Messages |-> <<>>]
    /\ elems = [b \in Bundles |-> <<>>]
    /\ stamp = [b \in Bundles |-> LO_TT_IMMEDIATE]
    /\ life = "alive"
    /\ ret = [op |-> "construct", exc |-> "none"]
    /\ sent = NULL

\* The old address is released before the new one is allocated.
setup ==
    /\ \E a \in Addresses \ (live \ {m_address}) :
          /\ m_address' = a
          /\ live' = (live \ {m_address}) \cup {a}
    /\ Returns("setup")
    /\ sent' = NULL
    /\ UNCHANGED <<m_message, m_bundles, m_addressPattern, m_messageInProgress,
                   m_bundleInProgress, args, elems, stamp>>

\* Mistake: m_message is not reset.
ClearKeepsMessage(rest) ==
    /\ LET freed == Freed IN
          /\ live' = (live \ freed) \ rest
          /\ args' = [m \in Messages |-> IF m \in freed THEN <<>> ELSE args[m]]
          /\ elems' = [b \in Bundles |-> IF b \in freed THEN <<>> ELSE elems[b]]
          /\ stamp' = [b \in Bundles |-> IF b \in freed THEN LO_TT_IMMEDIATE
                                                        ELSE stamp[b]]
    /\ m_bundles' = <<>>
    /\ m_addressPattern' = ""
    /\ UNCHANGED <<m_message, m_messageInProgress, m_bundleInProgress>>

\* The statements of clear(), shared by clear, send and the destructor.  The
\* two in-progress flags keep their values.
Clear(rest) ==
    /\ LET freed == Freed IN
          /\ live' = (live \ freed) \ rest
          /\ args' = [m \in Messages |-> IF m \in freed THEN <<>> ELSE args[m]]
          /\ elems' = [b \in Bundles |-> IF b \in freed THEN <<>> ELSE elems[b]]
          /\ stamp' = [b \in Bundles |-> IF b \in freed THEN LO_TT_IMMEDIATE
                                                        ELSE stamp[b]]
    /\ m_bundles' = <<>>
    /\ m_addressPattern' = ""
    /\ m_message' = NULL
    /\ UNCHANGED <<m_messageInProgress, m_bundleInProgress>>

clear ==
    /\ Clear({})
    /\ Returns("clear")
    /\ sent' = NULL
    /\ UNCHANGED m_address

\* What lo_send_bundle or lo_send_message serialises.
Packet ==
    [to |-> m_address,
     root |-> IF m_bundles # <<>> THEN Head(m_bundles) ELSE m_message,
     path |-> IF m_bundles # <<>> THEN "" ELSE m_addressPattern,
     args |-> args, elems |-> elems, stamp |-> stamp]

\* Mistake: a message is required even when there are bundles.
CannotSendBundle ==
    \/ m_address = NULL \/ m_bundleInProgress \/ m_messageInProgress
    \/ m_message = NULL

CannotSend ==
    \/ m_address = NULL \/ m_bundleInProgress \/ m_messageInProgress
    \/ m_bundles = <<>> /\ m_message = NULL

\* The result of lo_send_* is ignored: a failed send is cleared like any other.
send ==
    \/ /\ CannotSend
       /\ Throws("send", "SendException")
    \/ /\ ~CannotSend
       /\ sent' \in {Packet, NULL}
       /\ Clear({})
       /\ Returns("send")
       /\ UNCHANGED m_address

\* The members go with the object.
destroy ==
    /\ Clear({m_address})
    /\ m_address' = NULL
    /\ life' = "destroyed"
    /\ ret' = [op |-> "destroy", exc |-> "none"]
    /\ sent' = NULL

-----------------------------------------------------------------------------
(* Message building.                                                       *)

beginMessage(pattern) ==
    \/ /\ m_messageInProgress
       /\ Throws("beginMessage", "MessageInProgressException")
    \/ /\ ~m_messageInProgress
       /\ \E m \in Messages \ live :
             /\ m_message' = m
             /\ live' = live \cup {m}
       /\ m_messageInProgress' = TRUE
       /\ m_addressPattern' = pattern
       /\ Returns("beginMessage")
       /\ sent' = NULL
       /\ UNCHANGED <<m_address, m_bundles, m_bundleInProgress, args, elems,
                      stamp>>

\* addBool ... addBlob: one guard, one lo_message_add_* call each.
addArg(tag) ==
    \/ /\ ~m_messageInProgress
       /\ Throws("addArg", "MessageNotInProgressException")
    \/ /\ m_messageInProgress
       /\ m_message = NULL
       /\ Undefined("addArg")
    \/ /\ m_messageInProgress
       /\ m_message # NULL
       /\ Len(args[m_message]) < MaxArgs
       /\ args' = [args EXCEPT ![m_message] = Append(@, tag)]
       /\ Returns("addArg")
       /\ sent' = NULL
       /\ UNCHANGED <<object, live, elems, stamp>>

\* lo_bundle_add_message and lo_bundle_add_bundle: b takes ownership of h.
BundleAdd(es, b, h, path) ==
    [es EXCEPT ![b] = Append(@, [handle |-> h, path |-> path])]

\* Mistake: added to the outermost bundle.
AttachToRoot(h, path) == elems' = BundleAdd(elems, Head(m_bundles), h, path)

\* Mistake: the pattern copies made for earlier messages are deleted, although
\* liblo still points to them.
AttachDeletesCopies(h, path) ==
    LET lost == [b \in Bundles |->
                    [i \in 1..Len(elems[b]) |-> [elems[b][i] EXCEPT !.path = ""]]]
    IN  elems' = BundleAdd(lost, back(m_bundles), h, path)

\* h joins the innermost bundle, a message with a pattern copy of its own.
Attach(h, path) == elems' = BundleAdd(elems, back(m_bundles), h, path)

\* Mistake: the message stays in progress.
AddMessageStaysOpen(m, p, left) ==
    /\ m_bundles # <<>>
    /\ IF m_message = NULL THEN elems' = elems ELSE Attach(m, p)
    /\ m_message' = left
    /\ m_addressPattern' = ""
    /\ Returns("endMessage")
    /\ sent' = NULL
    /\ UNCHANGED <<m_address, m_bundles, m_bundleInProgress,
                   m_messageInProgress, live, args, stamp>>

\* What EndMessageInBundle does with message m and pattern p when afterwards
\* m_message is left.
AddMessageToBundle(m, p, left) ==
    /\ m_bundles # <<>>
    /\ IF m_message = NULL THEN elems' = elems ELSE Attach(m, p)
    /\ m_message' = left
    /\ m_addressPattern' = ""
    /\ m_messageInProgress' = FALSE
    /\ Returns("endMessage")
    /\ sent' = NULL
    /\ UNCHANGED <<m_address, m_bundles, m_bundleInProgress, live, args, stamp>>

\* Mistake: m_message is reset before it is added.
EndMessageResetFirst == AddMessageToBundle(NULL, m_addressPattern, NULL)

\* Mistake: m_addressPattern is reset before it is copied.
EndMessagePatternFirst == AddMessageToBundle(m_message, "", NULL)

\* Mistake: m_message is not reset.
EndMessageKeeps == AddMessageToBundle(m_message, m_addressPattern, m_message)

\* The branch of endMessage taken inside a bundle.  lo_bundle_add_message on a
\* null message either ignores it or dereferences it.
EndMessageInBundle ==
    \/ /\ m_bundles = <<>> \/ m_message = NULL
       /\ Undefined("endMessage")
    \/ AddMessageToBundle(m_message, m_addressPattern, NULL)

endMessage ==
    \/ /\ ~m_messageInProgress
       /\ Throws("endMessage", "MessageNotInProgressException")
    \/ /\ m_messageInProgress
       /\ m_bundleInProgress
       /\ EndMessageInBundle
    \/ /\ m_messageInProgress
       /\ ~m_bundleInProgress
       /\ m_messageInProgress' = FALSE
       /\ Returns("endMessage")
       /\ sent' = NULL
       /\ UNCHANGED <<m_address, m_message, m_bundles, m_addressPattern,
                      m_bundleInProgress, heap>>

-----------------------------------------------------------------------------
(* Bundle building.                                                        *)

\* The statements after the guard, common to both overloads of beginBundle.
OpenBundle(tag) ==
    /\ \E b \in Bundles \ live :
          /\ live' = live \cup {b}
          /\ stamp' = [stamp EXCEPT ![b] = tag]
          /\ IF m_bundles = <<>> THEN elems' = elems ELSE Attach(b, "")
          /\ m_bundles' = Append(m_bundles, b)
    /\ m_bundleInProgress' = TRUE
    /\ sent' = NULL
    /\ UNCHANGED <<m_address, m_message, m_addressPattern,
                   m_messageInProgress, args>>

\* beginBundle() tests the bundle flag ...
beginBundle ==
    \/ /\ m_bundleInProgress
       /\ Throws("beginBundle", "MessageInProgressException")
    \/ /\ ~m_bundleInProgress
       /\ OpenBundle(LO_TT_IMMEDIATE)
       /\ Returns("beginBundle")

\* ... and beginBundle(const TimeTag &) the message flag.
beginBundleAt(tag) ==
    \/ /\ m_messageInProgress
       /\ Throws("beginBundleAt", "MessageInProgressException")
    \/ /\ ~m_messageInProgress
       /\ OpenBundle(tag)
       /\ Returns("beginBundleAt")

\* Mistake: the flag outlives the last bundle.
endBundleKeepsFlag ==
    /\ m_bundleInProgress
    /\ m_bundles' = IF Len(m_bundles) > 1 THEN pop_back(m_bundles) ELSE m_bundles
    /\ Returns("endBundle")
    /\ sent' = NULL
    /\ UNCHANGED <<m_address, m_message, m_addressPattern, m_messageInProgress,
                   m_bundleInProgress, heap>>

\* The root stays on the stack: send() and clear() find it there.
endBundle ==
    \/ /\ ~m_bundleInProgress
       /\ Throws("endBundle", "BundleNotInProgressException")
    \/ /\ m_bundleInProgress
       /\ IF Len(m_bundles) > 1
          THEN /\ m_bundles' = pop_back(m_bundles)
               /\ UNCHANGED m_bundleInProgress
          ELSE /\ m_bundleInProgress' = FALSE
               /\ UNCHANGED m_bundles
       /\ Returns("endBundle")
       /\ sent' = NULL
       /\ UNCHANGED <<m_address, m_message, m_addressPattern,
                      m_messageInProgress, heap>>

-----------------------------------------------------------------------------
\* getPort() builds a std::string from a null pointer when there is no address;
\* the other getters, and print(), only read.
getPort ==
    \/ /\ m_address = NULL
       /\ Undefined("getPort")
    \/ /\ m_address # NULL
       /\ Returns("getPort")
       /\ sent' = NULL
       /\ UNCHANGED <<object, heap>>

\* operator<< : every overload forwards to one member function.  The stream
\* interface has no manipulator for beginBundle() without a time tag.
Stream ==
    \/ \E p \in Patterns : beginMessage(p)
    \/ \E t \in Tags : addArg(t)
    \/ endMessage
    \/ \E t \in TimeTags : beginBundleAt(t)
    \/ endBundle

Next ==
    /\ life = "alive"
    /\ \/ Stream
       \/ beginBundle
       \/ setup
       \/ send
       \/ clear
       \/ getPort
       \/ destroy

Spec == Init /\ [][Next]_vars
-----------------------------------------------------------------------------
(* Properties that hold whatever sequence of calls the client makes.       *)

\* Every member and heap cell has its C++ type.
TypeOK ==
    /\ m_address \in Addresses \cup {NULL}
    /\ m_message \in Messages \cup {NULL}
    /\ m_bundles \in Seq(Bundles)
    /\ m_addressPattern \in Paths
    /\ m_messageInProgress \in BOOLEAN
    /\ m_bundleInProgress \in BOOLEAN
    /\ life \in {"alive", "destroyed", "undefined"}
    /\ ret \in [op : Ops, exc : Exceptions]
    /\ live \subseteq Handles
    /\ args \in [Messages -> Seq(Tags)]
    /\ elems \in [Bundles -> Seq(Elements)]
    /\ stamp \in [Bundles -> TimeTags]

\* No member of the sender and no element of an allocated bundle points to a
\* handle that was freed: what clear(), send() and the destructor release has
\* not been released before, and nothing they leave behind refers to it.  A
\* bundle that is not allocated holds nothing, so lo_bundle_new starts empty.
NoDangling ==
    /\ m_address # NULL => m_address \in live
    /\ m_message # NULL => m_message \in live
    /\ \A i \in 1..Len(m_bundles) : m_bundles[i] \in live
    /\ \A b \in live \cap Bundles : Kids(elems, b) \subseteq live
    /\ \A b \in Bundles \ live : elems[b] = <<>>

\* A message or bundle is an element of at most one bundle, at one place, and
\* what clear() releases by itself (the root, or m_message) is an element of
\* none: lo_bundle_free_recursive meets every handle once.
SingleOwner ==
    /\ \A b, c \in Bundles : \A i \in 1..Len(elems[b]), j \in 1..Len(elems[c]) :
          elems[b][i].handle = elems[c][j].handle => b = c /\ i = j
    /\ \A b \in Bundles : m_message \notin Kids(elems, b)
    /\ m_bundles # <<>> => \A b \in Bundles : Head(m_bundles) \notin Kids(elems, b)

\* The stack of open bundles is a path of the tree that meets no bundle twice:
\* each open bundle is the last element of the one that encloses it, so
\* appending to back() keeps the order in which the client made its calls.
OpenBundlesNest ==
    /\ \A i \in 1..(Len(m_bundles) - 1) :
          /\ elems[m_bundles[i]] # <<>>
          /\ back(elems[m_bundles[i]]).handle = m_bundles[i + 1]
    /\ \A i, j \in 1..Len(m_bundles) : m_bundles[i] = m_bundles[j] => i = j

\* An allocated bundle is reachable from the front of m_bundles, so the next
\* clear() releases it: misuse can leak messages but never a bundle.
BundlesReachable ==
    live \cap Bundles \subseteq IF m_bundles = <<>> THEN {}
                                ELSE Tree(elems, Head(m_bundles))

\* The four together, which is what the destructor and the next packet rely on.
MemorySafe == NoDangling /\ SingleOwner /\ OpenBundlesNest /\ BundlesReachable

\* While a bundle stays allocated its contents only grow at the end, and once
\* endBundle() has taken it off the stack they no longer change.
ContentsStable ==
    [][\A b \in live \cap live' \cap Bundles :
          /\ Len(elems[b]) =< Len(elems'[b])
          /\ \A i \in 1..Len(elems[b]) : elems'[b][i] = elems[b][i]
          /\ stamp'[b] = stamp[b]
          /\ (\A i \in 1..Len(m_bundles) : m_bundles[i] # b)
                => elems'[b] = elems[b]]_vars

\* A flag that says something is in progress has a handle to back it.
Sound ==
    /\ m_messageInProgress => m_message # NULL
    /\ m_bundleInProgress => m_bundles # <<>>

\* Flags and handles fall apart in one way only: a clear() (or the destructor's)
\* in the middle of a message or bundle.  No other call, in whatever order and
\* whatever it throws, leaves a state in which a building function dereferences a
\* null message or the back of an empty stack.
OnlyClearStrands ==
    [][/\ Sound /\ ~Sound' => ret'.op \in {"clear", "destroy"}
       /\ life' = "undefined" /\ life = "alive" => ~Sound \/ ret'.op = "getPort"]_vars

-----------------------------------------------------------------------------
(* What comments of OscSender.h say and the code does not do.              *)

\* OscSender.h:115, "begin a bundle, can be called within other bundles", and
\* :54, "opening or closing bundle or message while message is in progress":
\* such a call throws when a message is in progress and only then.
RefusedWhenMidMessage ==
    /\ ret.exc = "MessageInProgressException" => m_messageInProgress
    /\ ret.op \in {"beginBundle", "beginBundleAt", "endBundle"} /\
       ret.exc = "none" => ~m_messageInProgress
=============================================================================
