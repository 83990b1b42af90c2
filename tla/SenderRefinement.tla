-------------------------- MODULE SenderRefinement --------------------------
(***************************************************************************)
(* The sender with a well-behaved client implements PacketBuilder.  The    *)
(* refinement mapping reads handles as values: a message is its pattern    *)
(* and arguments, a bundle its time tag and the values of its elements.    *)
(***************************************************************************)
EXTENDS SenderClient

\* The value of element e in a heap where messages hold as and the value of each
\* bundle is val.
ItemValue(e, as, val) ==
    IF e.handle \in Messages THEN [path |-> e.path, args |-> as[e.handle]]
                             ELSE val[e.handle]

\* The value of each bundle in the heap as, es, st.
Values(as, es, st) ==
    LET val[b \in Bundles] ==
            [tag |-> st[b],
             items |-> [i \in 1..Len(es[b]) |-> ItemValue(es[b][i], as, val)]]
    IN  val

\* The elements of each bundle that are complete: all but the open bundle it
\* encloses, which is its last element.
Complete ==
    [b \in Bundles |->
        IF \E i \in 1..(Len(m_bundles) - 1) : m_bundles[i] = b
        THEN pop_back(elems[b]) ELSE elems[b]]

\* The values of the bundles, and of m_message, as the sender holds them.
ValuesNow == Values(args, Complete, stamp)
MessageValue == [path |-> m_addressPattern, args |-> args[m_message]]

OpenBundles ==
    IF m_bundleInProgress /\ m_bundles # <<>>
    THEN [i \in 1..Len(m_bundles) |-> ValuesNow[m_bundles[i]]] ELSE <<>>

OpenMessage ==
    IF m_messageInProgress /\ m_message # NULL THEN <<MessageValue>> ELSE <<>>

Finished ==
    IF m_bundleInProgress \/ m_messageInProgress THEN <<>>
    ELSE IF m_bundles # <<>> THEN <<ValuesNow[Head(m_bundles)]>>
    ELSE IF m_message # NULL THEN <<MessageValue>>
    ELSE <<>>

OnTheWire ==
    IF sent = NULL THEN <<>>
    ELSE <<ItemValue([handle |-> sent.root, path |-> sent.path], sent.args,
                     Values(sent.args, sent.elems, sent.stamp))>>

Abstract == INSTANCE PacketBuilder WITH
    open <- OpenBundles, msg <- OpenMessage, done <- Finished, out <- OnTheWire

\* The sender puts on the wire exactly the message or bundle tree its client
\* spelled out, in order and with its time tags, and starts the next packet
\* from nothing.
SendsWhatWasBuilt == Abstract!PSpec
=============================================================================
