--------------------------- MODULE ReceiverClient ---------------------------
(***************************************************************************)
(* An OscReceiver whose client keeps to the order of src/lptest/main.cpp:  *)
(* objects are attached before start(), and the receiver is stopped before *)
(* its objects, or itself, go away.  An object is detached before it is    *)
(* destroyed.  Flags may be set, and datagrams arrive, at any time.        *)
(***************************************************************************)
EXTENDS OscReceiver

\* Calls that are safe while the thread runs.
AnyTime ==
    \/ \E p \in Ports : setup(p) \/ setupMulticast(p)
    \/ start \/ stop \/ clear \/ handleMessages
    \/ \E yesno \in BOOLEAN : ignoreMessages(yesno)

\* Calls made only when it does not.
WhenStopped ==
    /\ ~m_isRunning
    /\ \/ \E o \in Objects : addOscObject(o) /\ o \in existing
       \/ \E o \in Objects : removeOscObject(o)
       \/ removeAllOscObjects
       \/ destroy
       \/ \E o \in existing :
             /\ \A i \in 1..Len(m_objects) : m_objects[i] # o
             /\ destroyObject(o)

CNext ==
    \/ AnyTime
    \/ WhenStopped
    \/ UserStep
    \/ \E s \in Servers : ServerStep(s)
    \/ \E s \in Servers, d \in Datagrams : Arrive(s, d)

CSpec == Init /\ [][CNext]_vars
FairCSpec == CSpec /\ Fairness

-----------------------------------------------------------------------------
\* Without a lock anywhere, such a client never races with the server thread on
\* m_objects, never has a destroyed object called and never loses the receiver
\* under a callback: m_isRunning, which only the user's thread writes, is false
\* only when the server thread has been joined.
NeverUndefined == life # "undefined"
=============================================================================
