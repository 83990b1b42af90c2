---------------------------- MODULE SenderClient ----------------------------
(***************************************************************************)
(* An OscSender driven by a client that follows the comments of            *)
(* OscSender.h and the order of calls in src/lptest/main.cpp (testSender): *)
(* begin and end match, messages do not nest, arguments are added between  *)
(* beginMessage and endMessage, and send() is called on something finished.*)
(* The client keeps its own view of what it has asked for; the properties  *)
(* relate that view to the sender's members and to the heap.               *)
(***************************************************************************)
EXTENDS OscSender

CONSTANT Sequels   \* whether the client begins a bundle after finishing one

ASSUME SequelsAssumption == Sequels \in BOOLEAN

VARIABLES
    depth,      \* bundles the client has begun and not ended
    building,   \* the client is between beginMessage and endMessage
    ready       \* finished and not yet sent: "nothing", "message", "bundle"

client == <<depth, building, ready>>
cvars == <<vars, client>>

CInit ==
    /\ Init
    /\ depth = 0
    /\ building = FALSE
    /\ ready = "nothing"

Idle == depth = 0 /\ ~building

CBeginMessage ==
    /\ ~building
    /\ depth > 0 \/ ready = "nothing"
    /\ \E p \in Patterns : beginMessage(p)
    /\ building' = TRUE
    /\ UNCHANGED <<depth, ready>>

CAddArg ==
    /\ building
    /\ \E t \in Tags : addArg(t)
    /\ UNCHANGED client

CEndMessage ==
    /\ building
    /\ endMessage
    /\ building' = FALSE
    /\ ready' = IF depth = 0 THEN "message" ELSE ready
    /\ UNCHANGED depth

\* A root bundle; the overload without a time tag cannot open a nested one.
CBeginBundle ==
    /\ ~building
    /\ \/ Idle /\ ready = "nothing" /\ beginBundle
       \/ /\ \/ depth > 0
             \/ ready = "nothing"
             \/ Sequels /\ ready = "bundle"
          /\ \E t \in TimeTags : beginBundleAt(t)
    /\ depth' = depth + 1
    /\ ready' = "nothing"
    /\ UNCHANGED building

CEndBundle ==
    /\ ~building
    /\ depth > 0
    /\ endBundle
    /\ depth' = depth - 1
    /\ ready' = IF depth = 1 THEN "bundle" ELSE ready
    /\ UNCHANGED building

CSend ==
    /\ Idle
    /\ ready # "nothing"
    /\ m_address # NULL
    /\ send
    /\ ready' = "nothing"
    /\ UNCHANGED <<depth, building>>

CClear ==
    /\ Idle
    /\ clear
    /\ ready' = "nothing"
    /\ UNCHANGED <<depth, building>>

CSetup == setup /\ UNCHANGED client

CGetPort == m_address # NULL /\ getPort /\ UNCHANGED client

\* A message begun inside a bundle is ended before the sender goes away.
CDestroy ==
    /\ ~(building /\ depth > 0)
    /\ destroy
    /\ depth' = 0
    /\ building' = FALSE
    /\ ready' = "nothing"

CNext ==
    /\ life = "alive"
    /\ \/ CBeginMessage \/ CAddArg \/ CEndMessage
       \/ CBeginBundle \/ CEndBundle
       \/ CSend \/ CClear \/ CSetup \/ CGetPort \/ CDestroy

CSpec == CInit /\ [][CNext]_cvars

-----------------------------------------------------------------------------
\* The in-progress flags, which guard every building function and send(), say
\* what the client has begun and not ended.
FlagsAgree ==
    life = "alive" =>
        /\ m_messageInProgress <=> building
        /\ m_bundleInProgress <=> depth > 0
        /\ depth > 0 => Len(m_bundles) = depth

\* No call of such a client throws, and none dereferences a null message or an
\* empty stack.
CallsSucceed == ret.exc = "none" /\ life # "undefined"

\* Every allocated handle is one the sender still refers to: what send(), clear()
\* and the destructor drop, they free.
LeakFree ==
    live = ({m_address, m_message} \ {NULL}) \cup
              (IF m_bundles = <<>> THEN {} ELSE Tree(elems, Head(m_bundles)))
=============================================================================
