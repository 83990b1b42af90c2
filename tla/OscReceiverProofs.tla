-------------------------- MODULE OscReceiverProofs --------------------------
(***************************************************************************)
(* Theorems about OscReceiver for any number of servers, ports, objects and*)
(* datagrams, and for any interleaving of the user's calls with the server *)
(* threads; and about ReceiverClient, whose client changes the object list *)
(* only while the receiver is stopped.                                     *)
(*                                                                         *)
(* SerialDispatch is not inductive.  It follows from where a dispatch can  *)
(* be: on a server thread that is out of its receive call, of which there  *)
(* is one and only while m_isRunning, or start() is about to set it; or    *)
(* inside handleMessages(), which was entered when m_isRunning was false   *)
(* (WorkPlaced).                                                           *)
(***************************************************************************)
EXTENDS ReceiverClient, SequenceTheorems, TLAPS

\* A thread that dispatches is at the place in the code where it can.
WorkPlaced ==
    /\ \A s \in Servers : work[s] # NULL => thread[s] = "recv"
    /\ work[User] # NULL => call = "handleMessages"
    /\ call = "handleMessages" => ~m_isRunning

RInv == TypeOK /\ ThreadsAccounted /\ WorkPlaced

\* The part of the state the two invariants about threads are about.
control == <<m_serverThread, m_isRunning, call, active, thread, work>>

-----------------------------------------------------------------------------
(* The vector of objects.                                                 *)

\* removeOscObject() leaves objects that were attached, and no more of them.
LEMMA RemovedFrom ==
    ASSUME NEW S, NEW v \in Seq(S), NEW o
    PROVE  /\ removed(v, o) \in Seq(S)
           /\ Len(removed(v, o)) =< Len(v)
           /\ \A i \in 1..Len(removed(v, o)) :
                 \E j \in 1..Len(v) : removed(v, o)[i] = v[j]
<1>1. CASE find(v, o) \notin 1..Len(v)
  <2>1. Len(v) \in Nat
    BY LenProperties
  <2>2. removed(v, o) = v
    BY <1>1 DEF removed
  <2> QED
    BY <2>1, <2>2
<1>2. CASE find(v, o) \in 1..Len(v)
  <2> DEFINE k == find(v, o)
             p == SubSeq(v, 1, k - 1)
             q == SubSeq(v, k + 1, Len(v))
  <2>1. Len(v) \in Nat /\ \A i \in 1..Len(v) : v[i] \in S
    BY LenProperties, ElementOfSeq
  <2>2. k \in 1..Len(v)
    BY <1>2
  <2> HIDE DEF k
  <2>3. /\ p \in Seq(S) /\ Len(p) = k - 1
        /\ \A i \in 1..(k - 1) : p[i] = v[i]
    BY <2>1, <2>2, SubSeqProperties
  <2>4. /\ q \in Seq(S) /\ Len(q) = Len(v) - k
        /\ \A i \in 1..(Len(v) - k) : q[i] = v[k + i]
    BY <2>1, <2>2, SubSeqProperties
  <2> HIDE DEF p, q
  <2> DEFINE r == p \o q
  <2>5. /\ r \in Seq(S) /\ Len(r) = Len(v) - 1
        /\ \A i \in 1..(Len(v) - 1) :
              r[i] = IF i =< k - 1 THEN p[i] ELSE q[i - (k - 1)]
    BY <2>1, <2>2, <2>3, <2>4, ConcatProperties
  <2>6. removed(v, o) = r
    BY <1>2, Zenon DEF removed, erase, k, p, q
  <2> HIDE DEF r
  <2>7. \A i \in 1..(Len(v) - 1) : \E j \in 1..Len(v) : r[i] = v[j]
    <3> TAKE i \in 1..(Len(v) - 1)
    <3>1. CASE i =< k - 1
      BY <3>1, <2>1, <2>2, <2>3, <2>5
    <3>2. CASE ~(i =< k - 1)
      <4>1. i - (k - 1) \in 1..(Len(v) - k) /\ i + 1 \in 1..Len(v)
            /\ k + (i - (k - 1)) = i + 1
        BY <3>2, <2>1, <2>2
      <4> QED
        BY <4>1, <3>2, <2>4, <2>5, Zenon
    <3> QED
      BY <3>1, <3>2
  <2> QED
    BY <2>1, <2>5, <2>6, <2>7
<1> QED
  BY <1>1, <1>2

-----------------------------------------------------------------------------
(* The invariant.                                                          *)

\* Before the first call there is no thread and nothing attached.
LEMMA InitR ==
    ASSUME Init
    PROVE  RInv
<1> USE ReceiverAssumption
<1>1. TypeOK
  <2>1. m_objects \in Seq(Objects) /\ Len(m_objects) =< MaxAttached
    BY DEF Init
  <2>2. inbox \in [Servers -> Seq(Datagrams)]
    BY DEF Init
  <2>3. work \in [Threads -> Work \cup {NULL}]
    BY DEF Init
  <2>4. ret \in [op : Ops, val : Results]
    BY DEF Init, Ops, Results
  <2>5. fate \in [Datagrams -> Fates]
    BY DEF Init, Fates
  <2> QED
    BY <2>1, <2>2, <2>3, <2>4, <2>5, Zenon DEF Init, TypeOK
<1>2. ThreadsAccounted
  BY DEF Init, ThreadsAccounted
<1>3. WorkPlaced
  BY DEF Init, WorkPlaced, Threads
<1> QED
  BY <1>1, <1>2, <1>3 DEF RInv

\* With the flag down, and not inside start(), the server threads are gone, and so
\* are their dispatches.
LEMMA NoThreads ==
    ASSUME RInv, ~m_isRunning, call # "start"
    PROVE  \A s \in Servers : thread[s] = "none" /\ work[s] = NULL
BY DEF RInv, ThreadsAccounted, WorkPlaced

\* Steps that leave the control state alone.
LEMMA FrameControl ==
    ASSUME RInv, UNCHANGED control
    PROVE  ThreadsAccounted' /\ WorkPlaced'
BY DEF RInv, ThreadsAccounted, WorkPlaced, control

\* setup() and setupMulticast().
LEMMA SetupInv ==
    ASSUME RInv, NEW op \in {"setup", "setupMulticast"}, NEW p \in Ports,
           NEW multicast \in BOOLEAN, Setup(op, p, multicast)
    PROVE  RInv'
<1> USE ReceiverAssumption
<1>1. TypeOK'
  <2>1. ret' \in [op : Ops, val : Results]
    BY DEF Setup, Returns, errorCB, Ops, Results
  <2>2. UNCHANGED <<m_isRunning, m_ignoreMessages, m_objects, life, call,
                    active, thread, messages, existing>>
    BY Zenon DEF Setup, members
  <2>3. m_serverThread' \in Servers \cup {NULL} /\ m_isMulticast' \in BOOLEAN
    BY DEF RInv, TypeOK, Setup, members
  <2>4. port' \in [Servers -> Ports \cup {NULL}]
    BY Zenon DEF RInv, TypeOK, Setup, members
  <2> QED
    BY <2>1, <2>2, <2>3, <2>4 DEF RInv, TypeOK, messages
<1>2. /\ UNCHANGED <<m_isRunning, call, active, thread, work>>
      /\ m_serverThread' = m_serverThread \/ m_serverThread = NULL
  BY DEF Setup, members, messages
<1>3. ThreadsAccounted' /\ WorkPlaced'
  BY <1>2 DEF RInv, ThreadsAccounted, WorkPlaced
<1> QED
  BY <1>1, <1>3 DEF RInv

\* The first half of start(): with no call in progress, a flag that is down means
\* no thread.
LEMMA StartInv ==
    ASSUME RInv, start
    PROVE  RInv'
<1> USE ReceiverAssumption
<1>1. TypeOK'
  BY Zenon DEF RInv, TypeOK, start, members, messages
<1>2. /\ call = "none" /\ call' = "start"
      /\ UNCHANGED <<m_serverThread, m_isRunning, work>>
  BY DEF start, UserReady, members, messages
<1>3. ThreadsAccounted'
  BY <1>2 DEF RInv, TypeOK, ThreadsAccounted, start, Blocking
<1>4. WorkPlaced'
  BY <1>2 DEF RInv, TypeOK, ThreadsAccounted, WorkPlaced, start, Blocking
<1> QED
  BY <1>1, <1>3, <1>4 DEF RInv

\* The second half: a thread is the current server's, which is not NULL.
LEMMA LeaveStartInv ==
    ASSUME RInv, LeaveStart
    PROVE  RInv'
<1> USE ReceiverAssumption
<1>1. TypeOK'
  BY DEF RInv, TypeOK, LeaveStart, Returns, Ops, Results, liblo, messages
<1>2. /\ UNCHANGED <<m_serverThread, active, thread, work>>
      /\ call = "start" /\ call' = "none"
      /\ m_isRunning' = (m_isRunning \/ m_serverThread # NULL)
  BY DEF LeaveStart, liblo, messages
<1>3. ThreadsAccounted'
  BY <1>2, Zenon DEF RInv, ThreadsAccounted, Blocking
<1>4. WorkPlaced'
  BY <1>2 DEF RInv, WorkPlaced
<1> QED
  BY <1>1, <1>3, <1>4 DEF RInv

\* The first half of stop(), clear() and the destructor.
LEMMA EnterStopInv ==
    ASSUME RInv, NEW op \in Blocking, EnterStop(op)
    PROVE  RInv'
<1>1. TypeOK'
  BY Zenon DEF RInv, TypeOK, EnterStop, members, messages
<1>2. ThreadsAccounted'
  BY DEF RInv, ThreadsAccounted, EnterStop, UserReady, members
<1>3. WorkPlaced'
  BY DEF RInv, WorkPlaced, EnterStop, members, messages, UserReady, Blocking
<1> QED
  BY <1>1, <1>2, <1>3 DEF RInv

\* The second half: the thread that was joined was the only one.
LEMMA LeaveStopInv ==
    ASSUME RInv, LeaveStop
    PROVE  RInv'
<1> USE ReceiverAssumption
<1>1. TypeOK'
  BY Zenon DEF RInv, TypeOK, LeaveStop, Returns, Ops, Results, Blocking, liblo,
         messages
<1>2. UNCHANGED <<active, thread, work>> /\ call \in Blocking /\ call' = "none"
  BY DEF LeaveStop, liblo, messages
<1>3. \A s \in Servers : thread[s] = "none"
  BY DEF RInv, ThreadsAccounted, LeaveStop, Joined
<1>4. ThreadsAccounted'
  BY <1>2, <1>3 DEF RInv, ThreadsAccounted
<1>5. WorkPlaced'
  BY <1>2, <1>3 DEF RInv, WorkPlaced, Blocking
<1> QED
  BY <1>1, <1>4, <1>5 DEF RInv

\* Taking a datagram keeps the queues, the dispatches and the fates well typed.
LEMMA ReceiveType ==
    ASSUME TypeOK, NEW t \in Threads, NEW s \in Servers, Receive(t, s)
    PROVE  /\ inbox' \in [Servers -> Seq(Datagrams)]
           /\ work' \in [Threads -> Work \cup {NULL}]
           /\ fate' \in [Datagrams -> Fates]
<1> USE ReceiverAssumption
<1>1. inbox[s] \in Seq(Datagrams) /\ inbox[s] # <<>>
  BY DEF TypeOK, Receive
<1>2. Head(inbox[s]) \in Datagrams /\ Tail(inbox[s]) \in Seq(Datagrams)
  BY <1>1, HeadTailProperties
<1>3. [msg |-> Head(inbox[s]), next |-> 0] \in Work
  BY <1>2 DEF Work
<1> QED
  BY <1>2, <1>3 DEF TypeOK, Receive, Fates

\* handleMessages() begins a dispatch only when no thread is running.
LEMMA HandleMessagesInv ==
    ASSUME RInv, handleMessages
    PROVE  RInv'
<1> USE ReceiverAssumption
<1>1. /\ UNCHANGED <<members, life, liblo, existing>> /\ call = "none"
      /\ ret' \in [op : Ops, val : Results]
  BY DEF handleMessages, UserReady, Returns, errorCB, Ops, Results, RInv, TypeOK
<1>2. CASE UNCHANGED <<call, messages>>
  <2>1. TypeOK'
    BY <1>1, <1>2 DEF RInv, TypeOK, members, liblo, messages
  <2>2. UNCHANGED control
    BY <1>1, <1>2 DEF control, members, liblo, messages
  <2> QED
    BY <2>1, <2>2, FrameControl DEF RInv
<1>3. CASE /\ m_serverThread # NULL /\ ~m_isRunning
           /\ Receive(User, m_serverThread)
           /\ call' = "handleMessages"
  <2>1. m_serverThread \in Servers /\ User \in Threads /\ TypeOK
    BY <1>3 DEF RInv, TypeOK, Threads
  <2>2. TypeOK'
    BY <1>1, <1>3, <2>1, ReceiveType DEF TypeOK, members, liblo
  <2>3. \A s \in Servers : work'[s] = work[s]
    BY <1>3, <2>1 DEF Receive, TypeOK, Threads
  <2>4. ThreadsAccounted'
    BY <1>1, <1>3 DEF RInv, ThreadsAccounted, members, liblo, Blocking
  <2>5. WorkPlaced'
    BY <1>1, <1>3, <2>3 DEF RInv, WorkPlaced, members, liblo
  <2> QED
    BY <2>2, <2>4, <2>5 DEF RInv
<1> QED
  BY <1>2, <1>3 DEF handleMessages

\* The loop of a server thread.
LEMMA ServerLoopInv ==
    ASSUME RInv, NEW s \in Servers, ServerCheck(s) \/ ServerRecv(s)
    PROVE  RInv'
<1> USE ReceiverAssumption
<1>1. /\ UNCHANGED <<members, call, ret, port, active, existing>>
      /\ thread[s] \in {"check", "recv"} /\ work[s] = NULL
      /\ thread \in [Servers -> {"none", "check", "recv"}]
      /\ s \in Threads /\ TypeOK
  BY DEF ServerCheck, ServerRecv, RInv, WorkPlaced, TypeOK, Threads
<1>2. CASE /\ UNCHANGED <<life, messages>>
           /\ thread' = [thread EXCEPT ![s] = IF active[s] THEN "recv"
                                                           ELSE "none"]
  <2>1. TypeOK'
    BY <1>1, <1>2 DEF TypeOK, members, messages
  <2>2. ThreadsAccounted'
    BY <1>1, <1>2 DEF RInv, ThreadsAccounted, members
  <2>3. WorkPlaced'
    BY <1>1, <1>2 DEF RInv, WorkPlaced, members, messages
  <2> QED
    BY <2>1, <2>2, <2>3 DEF RInv
<1>3. CASE /\ UNCHANGED <<life, messages>>
           /\ thread' = [thread EXCEPT ![s] = "check"]
  <2>1. TypeOK'
    BY <1>1, <1>3 DEF TypeOK, members, messages
  <2>2. ThreadsAccounted'
    BY <1>1, <1>3 DEF RInv, ThreadsAccounted, members
  <2>3. WorkPlaced'
    BY <1>1, <1>3 DEF RInv, WorkPlaced, members, messages
  <2> QED
    BY <2>1, <2>2, <2>3 DEF RInv
<1>4. CASE Receive(s, s) /\ thread[s] = "recv" /\ UNCHANGED <<life, thread>>
  <2>1. TypeOK'
    BY <1>1, <1>4, ReceiveType DEF TypeOK, members
  <2>2. \A t \in Threads : t # s => work'[t] = work[t]
    BY <1>1, <1>4 DEF Receive, TypeOK
  <2>3. ThreadsAccounted'
    BY <1>1, <1>4 DEF RInv, ThreadsAccounted, members
  <2>4. WorkPlaced'
    BY <1>1, <1>4, <2>2 DEF RInv, WorkPlaced, members, Threads
  <2> QED
    BY <2>1, <2>3, <2>4 DEF RInv
<1>5. CASE life' = "terminated" /\ UNCHANGED <<thread, messages>>
  <2>1. TypeOK'
    BY <1>1, <1>5 DEF TypeOK, members, messages
  <2>2. UNCHANGED control
    BY <1>1, <1>5 DEF control, members, messages
  <2> QED
    BY <2>1, <2>2, FrameControl DEF RInv
<1> QED
  BY <1>2, <1>3, <1>4, <1>5 DEF ServerCheck, ServerRecv

\* One step of processMessage(), on either kind of thread.
LEMMA ProcessInv ==
    ASSUME RInv, NEW t \in Threads, processMessage(t)
    PROVE  RInv'
<1> USE ReceiverAssumption
<1>1. /\ UNCHANGED <<members, port, active, inbox, existing>>
      /\ TypeOK /\ work[t] \in Work /\ work[t] # NULL
      /\ work \in [Threads -> Work \cup {NULL}]
  BY DEF processMessage, RInv, TypeOK
<1>2. ASSUME NEW n \in 0..(MaxAttached + 1), Step(t, n)
      PROVE  RInv'
  <2>1. /\ work' \in [Threads -> Work \cup {NULL}]
        /\ \A u \in Threads : u # t => work'[u] = work[u]
    BY <1>1, <1>2 DEF Step, Work
  <2>2. TypeOK'
    BY <1>1, <1>2, <2>1 DEF TypeOK, Step, members
  <2>3. ThreadsAccounted'
    BY <1>1, <1>2 DEF RInv, ThreadsAccounted, Step, members
  <2>4. WorkPlaced'
    BY <1>1, <1>2, <2>1 DEF RInv, WorkPlaced, Step, members, Threads
  <2> QED
    BY <2>2, <2>3, <2>4 DEF RInv
<1>3. ASSUME NEW f \in {"ignored", "handled", "refused"}, Finish(t, f)
      PROVE  RInv'
  <2>1. /\ work' \in [Threads -> Work \cup {NULL}]
        /\ \A u \in Threads : u # t => work'[u] = work[u]
        /\ work'[t] = NULL
    BY <1>1, <1>3 DEF Finish
  <2>2. fate' \in [Datagrams -> Fates] /\ UNCHANGED life
    BY <1>1, <1>3 DEF TypeOK, Finish, Work, Fates
  <2>3. CASE t = User
    <3>1. call' = "none" /\ UNCHANGED thread /\ call = "handleMessages"
          /\ ret' \in [op : Ops, val : Results]
      BY <1>1, <1>3, <2>3 DEF Finish, Returns, Ops, Results, RInv, WorkPlaced
    <3>2. TypeOK'
      BY <1>1, <2>1, <2>2, <3>1 DEF TypeOK, members
    <3>3. ThreadsAccounted'
      BY <1>1, <3>1 DEF RInv, ThreadsAccounted, members, Blocking
    <3>4. WorkPlaced'
      BY <1>1, <2>1, <2>3, <3>1 DEF RInv, WorkPlaced, members, Threads
    <3> QED
      BY <3>2, <3>3, <3>4 DEF RInv
  <2>4. CASE t # User
    <3>1. /\ t \in Servers /\ thread[t] = "recv"
          /\ thread' = [thread EXCEPT ![t] = "check"] /\ UNCHANGED <<call, ret>>
      BY <1>1, <1>3, <2>4 DEF Finish, Threads, RInv, WorkPlaced
    <3>2. TypeOK'
      BY <1>1, <2>1, <2>2, <3>1 DEF TypeOK, members
    <3>3. ThreadsAccounted'
      BY <1>1, <3>1 DEF RInv, TypeOK, ThreadsAccounted, members
    <3>4. WorkPlaced'
      BY <1>1, <2>1, <2>4, <3>1 DEF RInv, TypeOK, WorkPlaced, members, Threads
    <3> QED
      BY <3>2, <3>3, <3>4 DEF RInv
  <2> QED
    BY <2>3, <2>4
<1>4. CASE Undefined
  <2>1. TypeOK'
    BY <1>1, <1>4 DEF TypeOK, Undefined, members
  <2>2. UNCHANGED control
    BY <1>1, <1>4 DEF control, Undefined, members
  <2> QED
    BY <2>1, <2>2, FrameControl DEF RInv
<1>5. CASE ProcessBegin(t)
  BY <1>2, <1>3, <1>5 DEF ProcessBegin
<1>6. CASE ProcessObject(t)
  <2>1. work[t].next + 1 \in 0..(MaxAttached + 1)
    BY <1>1, <1>6, LenProperties DEF ProcessObject, TypeOK
  <2> QED
    BY <1>2, <1>3, <1>4, <1>6, <2>1 DEF ProcessObject
<1>7. CASE ProcessSelf(t)
  BY <1>3, <1>4, <1>7 DEF ProcessSelf
<1> QED
  BY <1>5, <1>6, <1>7 DEF processMessage

\* The user's calls that only write members no thread's control depends on.
LEMMA ListInv ==
    ASSUME RInv,
           \/ \E o \in Objects \cup {NULL} :
                 addOscObject(o) \/ removeOscObject(o)
           \/ removeAllOscObjects
           \/ \E yesno \in BOOLEAN : ignoreMessages(yesno)
           \/ \E o \in existing : destroyObject(o)
    PROVE  RInv'
<1> USE ReceiverAssumption
<1>1. m_objects \in Seq(Objects) /\ Len(m_objects) \in Nat
  BY LenProperties DEF RInv, TypeOK
<1>2. ASSUME NEW op \in Ops, NEW new \in Seq(Objects), Len(new) =< MaxAttached,
             Mutate(op, new)
      PROVE  RInv'
  <2>1. TypeOK'
    BY <1>2 DEF RInv, TypeOK, Mutate, Returns, Results, liblo, messages
  <2>2. UNCHANGED control
    BY <1>2 DEF Mutate, control, liblo, messages
  <2> QED
    BY <2>1, <2>2, FrameControl DEF RInv
<1>3. ASSUME NEW op \in Ops, Nothing(op)
      PROVE  RInv'
  <2>1. TypeOK'
    BY <1>3 DEF RInv, TypeOK, Nothing, Returns, Results, members, liblo, messages
  <2>2. UNCHANGED control
    BY <1>3 DEF Nothing, control, members, liblo, messages
  <2> QED
    BY <2>1, <2>2, FrameControl DEF RInv
<1>4. ASSUME NEW o \in Objects \cup {NULL}, addOscObject(o)
      PROVE  RInv'
  <2>1. CASE o = NULL /\ Nothing("addOscObject")
    BY <1>3, <2>1 DEF Ops
  <2>2. CASE /\ o # NULL /\ Len(m_objects) < MaxAttached
             /\ Mutate("addOscObject", added(m_objects, o))
    <3>1. /\ added(m_objects, o) \in Seq(Objects)
          /\ Len(added(m_objects, o)) =< MaxAttached
      BY <1>1, <2>2, AppendProperties DEF added
    <3> QED
      BY <1>2, <2>2, <3>1, Zenon DEF Ops
  <2> QED
    BY <1>4, <2>1, <2>2 DEF addOscObject
<1>5. ASSUME NEW o \in Objects \cup {NULL}, removeOscObject(o)
      PROVE  RInv'
  <2>1. CASE o = NULL /\ Nothing("removeOscObject")
    BY <1>3, <2>1 DEF Ops
  <2>2. CASE o # NULL /\ Mutate("removeOscObject", removed(m_objects, o))
    <3>1. /\ removed(m_objects, o) \in Seq(Objects)
          /\ Len(removed(m_objects, o)) =< Len(m_objects)
      BY <1>1, RemovedFrom
    <3>2. Len(removed(m_objects, o)) =< MaxAttached
      BY <1>1, <3>1, LenProperties DEF RInv, TypeOK
    <3> QED
      BY <1>2, <2>2, <3>1, <3>2 DEF Ops
  <2> QED
    BY <1>5, <2>1, <2>2 DEF removeOscObject
<1>6. CASE removeAllOscObjects
  <2>1. <<>> \in Seq(Objects) /\ Len(<<>>) =< MaxAttached
    OBVIOUS
  <2> QED
    BY <1>2, <1>6, <2>1, Zenon DEF removeAllOscObjects, Ops
<1>7. ASSUME NEW yesno \in BOOLEAN, ignoreMessages(yesno)
      PROVE  RInv'
  <2>1. TypeOK'
    BY <1>7 DEF RInv, TypeOK, ignoreMessages, Returns, Ops, Results, liblo,
                messages
  <2>2. UNCHANGED control
    BY <1>7 DEF ignoreMessages, control, liblo, messages
  <2> QED
    BY <2>1, <2>2, FrameControl DEF RInv
<1>8. ASSUME NEW o \in existing, destroyObject(o)
      PROVE  RInv'
  <2>1. TypeOK'
    BY <1>8 DEF RInv, TypeOK, destroyObject, Returns, Ops, Results, members,
                liblo, messages
  <2>2. UNCHANGED control
    BY <1>8 DEF destroyObject, control, members, liblo, messages
  <2> QED
    BY <2>1, <2>2, FrameControl DEF RInv
<1> QED
  BY <1>4, <1>5, <1>6, <1>7, <1>8

\* A datagram arrives.
LEMMA ArriveInv ==
    ASSUME RInv, NEW s \in Servers, NEW d \in Datagrams, Arrive(s, d)
    PROVE  RInv'
<1>1. inbox' \in [Servers -> Seq(Datagrams)]
  <2>1. Append(inbox[s], d) \in Seq(Datagrams)
    BY AppendProperties DEF RInv, TypeOK
  <2> QED
    BY <2>1 DEF RInv, TypeOK, Arrive
<1>2. TypeOK'
  BY <1>1 DEF RInv, TypeOK, Arrive, Fates, members, liblo
<1>3. UNCHANGED control
  BY DEF Arrive, control, members, liblo
<1> QED
  BY <1>2, <1>3, FrameControl DEF RInv

\* Every step, of the user's thread, of a server thread and of the network,
\* preserves the invariant.
LEMMA StepR ==
    ASSUME RInv, [Next]_vars
    PROVE  RInv'
<1>1. CASE UserCall
  <2>1. CASE \E p \in Ports : setup(p) \/ setupMulticast(p)
    BY <2>1, SetupInv, Zenon DEF setup, setupMulticast
  <2>2. CASE start
    BY <2>2, StartInv
  <2>3. CASE stop \/ clear \/ destroy
    BY <2>3, EnterStopInv DEF stop, clear, destroy, Blocking
  <2>4. CASE handleMessages
    BY <2>4, HandleMessagesInv
  <2> QED
    BY <1>1, <2>1, <2>2, <2>3, <2>4, ListInv DEF UserCall
<1>2. CASE UserStep
  BY <1>2, LeaveStartInv, LeaveStopInv, ProcessInv DEF UserStep, Threads
<1>3. ASSUME NEW s \in Servers, ServerStep(s)
      PROVE  RInv'
  BY <1>3, ServerLoopInv, ProcessInv DEF ServerStep, Threads
<1>4. ASSUME NEW s \in Servers, NEW d \in Datagrams, Arrive(s, d)
      PROVE  RInv'
  BY <1>4, ArriveInv
<1>5. CASE UNCHANGED vars
  <2>1. TypeOK'
    BY <1>5 DEF RInv, TypeOK, vars, members, liblo, messages
  <2>2. UNCHANGED control
    BY <1>5 DEF vars, control, members, liblo, messages
  <2> QED
    BY <2>1, <2>2, FrameControl DEF RInv
<1> QED
  BY <1>1, <1>2, <1>3, <1>4, <1>5 DEF Next

\* Members, flags, queues and dispatches keep their types, and in particular no
\* null pointer is ever attached: the branch of processMessage() that erases
\* null pointers is dead code.
THEOREM ReceiverTypeCorrect ==
    Spec => []TypeOK
<1>1. RInv => TypeOK
  BY DEF RInv
<1> QED
  BY <1>1, InitR, StepR, PTL DEF Spec

\* However start(), stop(), clear() and setup() are interleaved with server
\* threads, and even if starting a thread fails, a thread is the current
\* server's and known to m_isRunning, and none is left when stop() returns.
THEOREM ThreadsAreAccountedFor ==
    Spec => []ThreadsAccounted
<1>1. RInv => ThreadsAccounted
  BY DEF RInv
<1> QED
  BY <1>1, InitR, StepR, PTL DEF Spec

LEMMA RInvIsSerial ==
    RInv => SerialDispatch
BY ReceiverAssumption
   DEF RInv, ThreadsAccounted, WorkPlaced, SerialDispatch, Threads

\* Callbacks never run on two threads at once, although the code has no lock:
\* m_isRunning keeps polling and the server thread apart.
THEOREM DispatchIsSerial ==
    Spec => []SerialDispatch
<1> QED
  BY RInvIsSerial, InitR, StepR, PTL DEF Spec

\* Whatever calls came before, a receiver that is not running is quiet: no server
\* thread, of the current server or of one that clear() dropped, dispatches
\* anything, changes a dispatch into undefined behaviour or ends the program.
THEOREM StoppedReceiverIsQuiet ==
    Spec => StoppedIsQuiet
<1>1. ASSUME RInv, [Next]_vars, Stopped
      PROVE  life' = life /\ \A s \in Servers : work'[s] = NULL
  <2>1. \A s \in Servers : thread[s] = "none" /\ work[s] = NULL
    BY <1>1, ReceiverAssumption
       DEF RInv, ThreadsAccounted, WorkPlaced, Stopped
  <2>2. call = "none" /\ work[User] = NULL /\ ~Iterating
    BY <1>1, <2>1 DEF Stopped, RInv, WorkPlaced, Iterating
  <2>3. CASE UNCHANGED <<life, work>>
    BY <2>1, <2>3
  <2>4. CASE UserCall
    <3>1. CASE handleMessages
      <4>1. CASE m_serverThread # NULL /\ Receive(User, m_serverThread)
        BY <2>1, <3>1, <4>1, <1>1, ReceiverAssumption
           DEF Receive, handleMessages, RInv, TypeOK, Threads
      <4> QED
        BY <2>3, <3>1, <4>1 DEF handleMessages, messages
    <3>2. CASE \E p \in Ports : setup(p) \/ setupMulticast(p)
      BY <2>3, <3>2 DEF setup, setupMulticast, Setup, messages
    <3>3. CASE start \/ stop \/ clear \/ destroy
      BY <2>3, <3>3, Zenon DEF start, stop, clear, destroy, EnterStop, messages
    <3>4. \A op, new : Mutate(op, new) \/ Nothing(op) => UNCHANGED <<life, work>>
      BY <2>2 DEF Mutate, Nothing, messages
    <3>5. CASE \E o \in Objects \cup {NULL} : addOscObject(o) \/ removeOscObject(o)
      BY <2>3, <3>4, <3>5 DEF addOscObject, removeOscObject
    <3>6. CASE removeAllOscObjects
      BY <2>3, <3>4, <3>6 DEF removeAllOscObjects
    <3>7. CASE \E yesno \in BOOLEAN : ignoreMessages(yesno)
      BY <2>3, <3>7 DEF ignoreMessages, messages
    <3>8. CASE \E o \in existing : destroyObject(o)
      BY <2>3, <3>8 DEF destroyObject, messages
    <3> QED
      BY <2>4, <3>1, <3>2, <3>3, <3>5, <3>6, <3>7, <3>8 DEF UserCall
  <2>5. ~UserStep
    BY <2>2 DEF UserStep, LeaveStart, LeaveStop, Blocking, processMessage
  <2>6. ASSUME NEW s \in Servers PROVE ~ServerStep(s)
    BY <2>1 DEF ServerStep, ServerCheck, ServerRecv, processMessage
  <2>7. CASE \E s \in Servers, d \in Datagrams : Arrive(s, d)
    BY <2>3, <2>7 DEF Arrive
  <2>8. CASE UNCHANGED vars
    BY <2>3, <2>8 DEF vars, messages
  <2> QED
    BY <1>1, <2>4, <2>5, <2>6, <2>7, <2>8 DEF Next
<1> QED
  BY <1>1, InitR, StepR, PTL DEF Spec, StoppedIsQuiet

-----------------------------------------------------------------------------
(* Datagrams.  That a datagram is dispatched at most once is what liblo and*)
(* the kernel are taken to do; the receiver only does not spoil it.  The   *)
(* lemmas below say where a datagram is, for the proofs about Lptest.      *)

\* A datagram that arrived is in one place, and that place is what its fate
\* says: queued at one socket, or with one thread, and afterwards nowhere.
InOnePlace ==
    \A d \in Datagrams :
        /\ fate[d] = "dispatching" <=> \E t \in Threads : work[t] # NULL
                                                     /\ work[t].msg = d
        /\ fate[d] = "queued" <=>
              \E s \in Servers : \E i \in 1..Len(inbox[s]) : inbox[s][i] = d
        /\ \A r, s \in Servers :
              \A i \in 1..Len(inbox[r]), j \in 1..Len(inbox[s]) :
                 inbox[r][i] = d /\ inbox[s][j] = d => r = s /\ i = j

\* The parts of InOnePlace: with the dispatching thread, in the queues.
WithThread == \A d \in Datagrams :
    fate[d] = "dispatching" <=> \E t \in Threads : work[t] # NULL /\ work[t].msg = d
InQueue == \A d \in Datagrams :
    fate[d] = "queued" <=>
        \E s \in Servers : \E i \in 1..Len(inbox[s]) : inbox[s][i] = d
QueuedOnce ==
    \A r, s \in Servers : \A i \in 1..Len(inbox[r]), j \in 1..Len(inbox[s]) :
        inbox[r][i] = inbox[s][j] => r = s /\ i = j

LEMMA Places ==
    ASSUME TypeOK PROVE InOnePlace <=> WithThread /\ InQueue /\ QueuedOnce
<1>1. \A s \in Servers : \A i \in 1..Len(inbox[s]) : inbox[s][i] \in Datagrams
  <2>1. \A s \in Servers : inbox[s] \in Seq(Datagrams)
    BY DEF TypeOK
  <2> QED
    BY <2>1, ElementOfSeq
<1> QED
  BY <1>1 DEF InOnePlace, WithThread, InQueue, QueuedOnce

\* The head of a queue moves to a thread that has nothing.
LEMMA ReceivePlaces ==
    ASSUME TypeOK, InOnePlace, NEW t \in Threads, NEW s \in Servers,
           work[t] = NULL, Receive(t, s)
    PROVE  WithThread' /\ InQueue' /\ QueuedOnce'
<1> DEFINE h == Head(inbox[s])
           q == inbox[s]
<1>1. WithThread /\ InQueue /\ QueuedOnce
  BY Places
<1>2. q \in Seq(Datagrams) /\ q # <<>>
  BY DEF TypeOK, Receive
<1>3. /\ Len(q) \in Nat \ {0} /\ h \in Datagrams /\ h = q[1]
      /\ Tail(q) \in Seq(Datagrams) /\ Len(Tail(q)) = Len(q) - 1
      /\ \A i \in 1..Len(Tail(q)) : Tail(q)[i] = q[i + 1]
  BY <1>2, HeadTailProperties, EmptySeq
<1>4. /\ \A u \in Threads : u # t => work'[u] = work[u]
      /\ work'[t] = [msg |-> h, next |-> 0]
      /\ \A d \in Datagrams : fate'[d] = IF d = h THEN "dispatching" ELSE fate[d]
      /\ \A r \in Servers : r # s => inbox'[r] = inbox[r]
      /\ inbox'[s] = Tail(q)
  BY <1>3 DEF TypeOK, Receive
<1>5. work'[t] # NULL /\ work'[t].msg = h
  <2>1. [msg |-> h, next |-> 0] \in [msg : Datagrams, next : Nat]
    BY <1>3
  <2> QED
    BY <1>4, <2>1, NoMessageAssumption
<1>6. fate[h] = "queued"
  BY <1>1, <1>3, SMTT(20) DEF InQueue
<1>7. WithThread'
  BY <1>1, <1>3, <1>4, <1>5, <1>6 DEF WithThread
<1> HIDE DEF h, q
<1>8. \A r \in Servers : \A i \in 1..Len(inbox'[r]) :
         \E j \in 1..Len(inbox[r]) :
            /\ inbox'[r][i] = inbox[r][j]
            /\ j = (IF r = s THEN i + 1 ELSE i)
            /\ inbox[r][j] # h
  <2> SUFFICES ASSUME NEW r \in Servers, NEW i \in 1..Len(inbox'[r])
               PROVE  \E j \in 1..Len(inbox[r]) :
                         /\ inbox'[r][i] = inbox[r][j]
                         /\ j = (IF r = s THEN i + 1 ELSE i)
                         /\ inbox[r][j] # h
    OBVIOUS
  <2>1. 1 \in 1..Len(inbox[s]) /\ inbox[s][1] = h
    BY <1>3 DEF q
  <2>2. CASE r = s
    <3>0. inbox'[r] = Tail(q)
      BY <1>4, <2>2
    <3>1. i + 1 \in 1..Len(inbox[s]) /\ inbox'[r][i] = inbox[s][i + 1] /\ i + 1 # 1
      BY <1>3, <3>0 DEF q
    <3> QED
      BY <1>1, <2>1, <2>2, <3>1 DEF QueuedOnce
  <2>3. CASE r # s
    BY <1>1, <1>4, <2>1, <2>3 DEF QueuedOnce
  <2> QED
    BY <2>2, <2>3
<1>9. QueuedOnce'
  <2> SUFFICES ASSUME NEW r \in Servers, NEW u \in Servers,
                      NEW i \in 1..Len(inbox'[r]), NEW j \in 1..Len(inbox'[u]),
                      inbox'[r][i] = inbox'[u][j]
               PROVE  r = u /\ i = j
    BY DEF QueuedOnce
  <2>1. PICK k \in 1..Len(inbox[r]) : inbox'[r][i] = inbox[r][k]
                                    /\ k = (IF r = s THEN i + 1 ELSE i)
    BY <1>8
  <2>2. PICK l \in 1..Len(inbox[u]) : inbox'[u][j] = inbox[u][l]
                                    /\ l = (IF u = s THEN j + 1 ELSE j)
    BY <1>8
  <2>3. r = u /\ k = l
    <3>1. inbox[r][k] = inbox[u][l]
      BY <2>1, <2>2, Zenon
    <3>2. \A a \in 1..Len(inbox[r]), b \in 1..Len(inbox[u]) :
             inbox[r][a] = inbox[u][b] => r = u /\ a = b
      BY <1>1 DEF QueuedOnce
    <3>3. k \in 1..Len(inbox[r]) /\ l \in 1..Len(inbox[u])
      OBVIOUS
    <3> QED
      BY <3>1, <3>2, <3>3, Zenon
  <2>4. Len(inbox'[r]) \in Nat
    BY <1>3, <1>4, LenProperties DEF TypeOK
  <2> QED
    BY <2>1, <2>2, <2>3, <2>4
<1>10. \A r \in Servers : \A j \in 1..Len(inbox[r]) : inbox[r][j] # h =>
          \E i \in 1..Len(inbox'[r]) : inbox'[r][i] = inbox[r][j]
  <2> SUFFICES ASSUME NEW r \in Servers, NEW j \in 1..Len(inbox[r]),
                      inbox[r][j] # h
               PROVE  \E i \in 1..Len(inbox'[r]) : inbox'[r][i] = inbox[r][j]
    OBVIOUS
  <2>1. CASE r = s
    <3>1. j # 1
      BY <1>3, <2>1 DEF q
    <3>2. j - 1 \in 1..(Len(q) - 1) /\ (j - 1) + 1 = j
      BY <1>3, <2>1, <3>1 DEF q
    <3>3. inbox'[r] = Tail(q)
      BY <1>4, <2>1
    <3>4. j - 1 \in 1..Len(inbox'[r]) /\ inbox'[r][j - 1] = q[j]
      BY <1>3, <3>2, <3>3
    <3> QED
      BY <2>1, <3>4 DEF q
  <2>2. CASE r # s
    BY <1>4, <2>2
  <2> QED
    BY <2>1, <2>2
<1>11. InQueue'
  <2> SUFFICES ASSUME NEW d \in Datagrams
               PROVE  fate'[d] = "queued" <=>
                        \E r \in Servers : \E i \in 1..Len(inbox'[r]) :
                           inbox'[r][i] = d
    BY DEF InQueue
  <2>1. CASE d = h
    BY <1>4, <1>8, <2>1, SMTT(20)
  <2>2. CASE d # h
    <3>1. fate'[d] = "queued" <=>
             \E r \in Servers : \E j \in 1..Len(inbox[r]) : inbox[r][j] = d
      BY <1>1, <1>4, <2>2 DEF InQueue
    <3>2. ASSUME NEW r \in Servers, NEW j \in 1..Len(inbox[r]), inbox[r][j] = d
          PROVE  \E i \in 1..Len(inbox'[r]) : inbox'[r][i] = d
      BY <1>10, <2>2, <3>2
    <3>3. ASSUME NEW r \in Servers, NEW i \in 1..Len(inbox'[r]), inbox'[r][i] = d
          PROVE  \E j \in 1..Len(inbox[r]) : inbox[r][j] = d
      BY <1>8, <3>3, SMTT(20)
    <3> QED
      BY <3>1, <3>2, <3>3, Zenon
  <2> QED
    BY <2>1, <2>2
<1> QED
  BY <1>7, <1>9, <1>11

\* A datagram that arrives has been nowhere before.
LEMMA ArrivePlaces ==
    ASSUME TypeOK, InOnePlace, NEW s \in Servers, NEW d \in Datagrams, Arrive(s, d)
    PROVE  WithThread' /\ InQueue' /\ QueuedOnce'
<1> DEFINE q == inbox[s]
<1>1. WithThread /\ InQueue /\ QueuedOnce
  BY Places
<1>2. q \in Seq(Datagrams) /\ Len(q) \in Nat
  BY LenProperties DEF TypeOK
<1>3. /\ work' = work
      /\ \A e \in Datagrams : fate'[e] = IF e = d THEN "queued" ELSE fate[e]
      /\ \A r \in Servers : r # s => inbox'[r] = inbox[r]
      /\ inbox'[s] = Append(q, d)
  BY DEF TypeOK, Arrive
<1>4. /\ Len(inbox'[s]) = Len(q) + 1 /\ inbox'[s][Len(q) + 1] = d
      /\ \A i \in 1..Len(q) : inbox'[s][i] = q[i]
  BY <1>2, <1>3, AppendProperties
<1>5. fate[d] = "unsent"
  BY DEF Arrive
<1>6. WithThread'
  BY <1>1, <1>3, <1>5 DEF WithThread
<1> HIDE DEF q
<1>7. \A r \in Servers : \A i \in 1..Len(inbox[r]) :
         i \in 1..Len(inbox'[r]) /\ inbox'[r][i] = inbox[r][i] /\ inbox[r][i] # d
  <2> SUFFICES ASSUME NEW r \in Servers, NEW i \in 1..Len(inbox[r])
               PROVE  i \in 1..Len(inbox'[r]) /\ inbox'[r][i] = inbox[r][i]
                      /\ inbox[r][i] # d
    OBVIOUS
  <2>1. inbox[r][i] # d
    BY <1>1, <1>5 DEF InQueue
  <2>2. CASE r = s
    BY <1>2, <1>4, <2>1, <2>2 DEF q
  <2>3. CASE r # s
    BY <1>3, <2>1, <2>3
  <2> QED
    BY <2>2, <2>3
<1>8. \A r \in Servers : \A i \in 1..Len(inbox'[r]) :
         \/ i \in 1..Len(inbox[r]) /\ inbox'[r][i] = inbox[r][i]
                                  /\ inbox'[r][i] # d
         \/ r = s /\ i = Len(q) + 1 /\ inbox'[r][i] = d
  <2> SUFFICES ASSUME NEW r \in Servers, NEW i \in 1..Len(inbox'[r])
               PROVE  \/ i \in 1..Len(inbox[r]) /\ inbox'[r][i] = inbox[r][i]
                                               /\ inbox'[r][i] # d
                      \/ r = s /\ i = Len(q) + 1 /\ inbox'[r][i] = d
    OBVIOUS
  <2>1. CASE r = s
    <3>1. i \in 1..Len(q) \/ i = Len(q) + 1
      BY <1>2, <1>4, <2>1
    <3> QED
      BY <1>4, <1>7, <2>1, <3>1 DEF q
  <2>2. CASE r # s
    BY <1>3, <1>7, <2>2
  <2> QED
    BY <2>1, <2>2
<1>9. QueuedOnce'
  <2> SUFFICES ASSUME NEW r \in Servers, NEW u \in Servers,
                      NEW i \in 1..Len(inbox'[r]), NEW j \in 1..Len(inbox'[u]),
                      inbox'[r][i] = inbox'[u][j]
               PROVE  r = u /\ i = j
    BY DEF QueuedOnce
  <2>1. \A a \in 1..Len(inbox[r]), b \in 1..Len(inbox[u]) :
           inbox[r][a] = inbox[u][b] => r = u /\ a = b
    BY <1>1 DEF QueuedOnce
  <2>2. /\ \/ i \in 1..Len(inbox[r]) /\ inbox'[r][i] = inbox[r][i]
                                     /\ inbox'[r][i] # d
           \/ r = s /\ i = Len(q) + 1 /\ inbox'[r][i] = d
        /\ \/ j \in 1..Len(inbox[u]) /\ inbox'[u][j] = inbox[u][j]
                                     /\ inbox'[u][j] # d
           \/ u = s /\ j = Len(q) + 1 /\ inbox'[u][j] = d
    BY <1>8
  <2> QED
    BY <2>1, <2>2, Zenon
<1>10. InQueue'
  <2> SUFFICES ASSUME NEW e \in Datagrams
               PROVE  fate'[e] = "queued" <=>
                        \E r \in Servers : \E i \in 1..Len(inbox'[r]) :
                           inbox'[r][i] = e
    BY DEF InQueue
  <2>1. CASE e = d
    <3>1. Len(q) + 1 \in 1..Len(inbox'[s]) /\ inbox'[s][Len(q) + 1] = d
      BY <1>2, <1>4
    <3> QED
      BY <1>3, <2>1, <3>1
  <2>2. CASE e # d
    <3>1. fate'[e] = "queued" <=>
             \E r \in Servers : \E j \in 1..Len(inbox[r]) : inbox[r][j] = e
      BY <1>1, <1>3, <2>2 DEF InQueue
    <3>2. ASSUME NEW r \in Servers, NEW j \in 1..Len(inbox[r]), inbox[r][j] = e
          PROVE  \E i \in 1..Len(inbox'[r]) : inbox'[r][i] = e
      BY <1>7, <3>2
    <3>3. ASSUME NEW r \in Servers, NEW i \in 1..Len(inbox'[r]), inbox'[r][i] = e
          PROVE  \E j \in 1..Len(inbox[r]) : inbox[r][j] = e
      BY <1>8, <2>2, <3>3
    <3> QED
      BY <3>1, <3>2, <3>3, Zenon
  <2> QED
    BY <2>1, <2>2
<1> QED
  BY <1>6, <1>9, <1>10

\* A dispatch gets on, or ends.
LEMMA ProcessPlaces ==
    ASSUME RInv, InOnePlace, NEW t \in Threads, processMessage(t)
    PROVE  WithThread' /\ InQueue' /\ QueuedOnce'
<1>1. WithThread /\ InQueue /\ QueuedOnce /\ TypeOK /\ SerialDispatch
  BY Places, RInvIsSerial DEF RInv
<1>2. /\ inbox' = inbox /\ work \in [Threads -> Work \cup {NULL}]
      /\ work[t] # NULL /\ work[t] \in Work
      /\ \A u \in Threads : u # t => work[u] = NULL
  BY <1>1 DEF processMessage, TypeOK, SerialDispatch
<1>3. work[t].msg \in Datagrams /\ fate[work[t].msg] = "dispatching"
  BY <1>1, <1>2 DEF WithThread, Work
<1>4. CASE \E n \in Nat : Step(t, n)
  <2>1. PICK n \in Nat : Step(t, n)
    BY <1>4
  <2>2. fate' = fate /\ work' = [work EXCEPT ![t].next = n]
    BY <2>1 DEF Step
  <2>3. /\ \A u \in Threads : u # t => work'[u] = work[u]
        /\ work'[t].msg = work[t].msg
        /\ work'[t] \in [msg : Datagrams, next : Nat]
    BY <1>2, <2>2 DEF Work
  <2>4. work'[t] # NULL
    BY <2>3, NoMessageAssumption
  <2>5. WithThread'
    BY <1>1, <1>2, <2>2, <2>3, <2>4, SMTT(20) DEF WithThread
  <2> QED
    BY <1>1, <1>2, <2>2, <2>5 DEF InQueue, QueuedOnce
<1>5. ASSUME NEW f \in {"ignored", "handled", "refused"}, Finish(t, f)
      PROVE  WithThread' /\ InQueue' /\ QueuedOnce'
  <2>1. /\ \A u \in Threads : work'[u] = NULL
        /\ \A d \in Datagrams : fate'[d] = IF d = work[t].msg THEN f ELSE fate[d]
    BY <1>1, <1>2, <1>3, <1>5, SMTT(20) DEF Finish, TypeOK
  <2>2. \A d \in Datagrams : fate'[d] # "dispatching"
    BY <1>1, <1>2, <2>1, SMTT(20) DEF WithThread
  <2>3. WithThread'
    BY <2>1, <2>2 DEF WithThread
  <2>4. \A d \in Datagrams : fate'[d] = "queued" <=> fate[d] = "queued"
    BY <1>3, <2>1
  <2>5. InQueue /\ QueuedOnce /\ inbox' = inbox
    BY <1>1, <1>2
  <2>6. InQueue'
    BY <2>4, <2>5, SMTT(20) DEF InQueue
  <2>7. QueuedOnce'
    BY <2>5, SMTT(20) DEF QueuedOnce
  <2> QED
    BY <2>3, <2>6, <2>7
<1>6. CASE Undefined
  BY <1>1, <1>2, <1>6 DEF Undefined, WithThread, InQueue, QueuedOnce
<1>7. CASE ProcessBegin(t)
  BY <1>4, <1>5, <1>7 DEF ProcessBegin
<1>8. CASE ProcessObject(t)
  <2>1. work[t].next + 1 \in Nat
    BY <1>2 DEF Work
  <2> QED
    BY <1>4, <1>5, <1>6, <1>8, <2>1 DEF ProcessObject
<1>9. CASE ProcessSelf(t)
  BY <1>5, <1>6, <1>9 DEF ProcessSelf
<1> QED
  BY <1>7, <1>8, <1>9 DEF processMessage

\* Every step moves a datagram from one place to the next, or none.
LEMMA StepPlaces ==
    ASSUME RInv, InOnePlace, [Next]_vars
    PROVE  WithThread' /\ InQueue' /\ QueuedOnce'
<1>1. WithThread /\ InQueue /\ QueuedOnce /\ TypeOK
  BY Places DEF RInv
<1>2. CASE UNCHANGED messages
  BY <1>1, <1>2 DEF messages, WithThread, InQueue, QueuedOnce
<1>3. CASE \E t \in Threads : processMessage(t)
  BY <1>3, ProcessPlaces
<1>4. CASE \E s \in Servers, d \in Datagrams : Arrive(s, d)
  BY <1>1, <1>4, ArrivePlaces
<1>5. CASE handleMessages
  <2>1. CASE m_serverThread # NULL /\ Receive(User, m_serverThread)
    <3>1. m_serverThread \in Servers /\ User \in Threads /\ work[User] = NULL
      BY <1>1, <1>5, <2>1, SMTT(20)
      DEF TypeOK, Threads, RInv, WorkPlaced, handleMessages, UserReady
    <3> QED
      BY <1>1, <2>1, <3>1, ReceivePlaces
  <2> QED
    BY <1>2, <1>5, <2>1 DEF handleMessages, messages
<1>6. ASSUME NEW s \in Servers, ServerCheck(s) \/ ServerRecv(s)
      PROVE  WithThread' /\ InQueue' /\ QueuedOnce'
  <2>1. CASE work[s] = NULL /\ Receive(s, s)
    BY <1>1, <2>1, ReceivePlaces DEF Threads
  <2> QED
    BY <1>2, <1>6, <2>1, Zenon DEF ServerCheck, ServerRecv, messages
<1>7. CASE UserCall
  <2>1. CASE \E p \in Ports : setup(p) \/ setupMulticast(p)
    BY <1>2, <2>1 DEF setup, setupMulticast, Setup
  <2>2. CASE start
    BY <1>2, <2>2 DEF start
  <2>3. CASE stop \/ clear \/ destroy
    BY <1>2, <2>3, Zenon DEF stop, clear, destroy, EnterStop
  <2>4. CASE \E o \in Objects \cup {NULL} : addOscObject(o) \/ removeOscObject(o)
    BY <1>2, <2>4, ZenonT(30) DEF addOscObject, removeOscObject, Nothing, Mutate
  <2>5. CASE removeAllOscObjects \/ \E yesno \in BOOLEAN : ignoreMessages(yesno)
    BY <1>2, <2>5 DEF removeAllOscObjects, ignoreMessages, Mutate
  <2>6. CASE \E o \in existing : destroyObject(o)
    BY <1>2, <2>6 DEF destroyObject
  <2> QED
    BY <1>5, <1>7, <2>1, <2>2, <2>3, <2>4, <2>5, <2>6 DEF UserCall
<1>8. CASE LeaveStart \/ LeaveStop
  BY <1>2, <1>8 DEF LeaveStart, LeaveStop
<1>9. CASE UNCHANGED vars
  BY <1>2, <1>9 DEF vars
<1> QED
  BY <1>3, <1>4, <1>6, <1>7, <1>8, <1>9 DEF Next, UserStep, ServerStep, Threads

\* Before the first call no datagram has arrived.
LEMMA InitPlaces ==
    ASSUME Init
    PROVE  InOnePlace
<1>1. \A s \in Servers : inbox[s] = <<>> /\ Len(inbox[s]) = 0
  BY EmptySeq DEF Init
<1> QED
  BY <1>1 DEF Init, InOnePlace

\* The same as StepPlaces, put together.
LEMMA StepInOnePlace ==
    ASSUME RInv, InOnePlace, [Next]_vars
    PROVE  InOnePlace'
<1>1. WithThread' /\ InQueue' /\ QueuedOnce'
  BY StepPlaces
<1>2. \A d \in Datagrams : \A r, s \in Servers :
         \A i \in 1..Len(inbox'[r]), j \in 1..Len(inbox'[s]) :
            inbox'[r][i] = d /\ inbox'[s][j] = d => r = s /\ i = j
  BY <1>1, ZenonT(30) DEF QueuedOnce
<1> QED
  BY <1>1, <1>2, Zenon DEF InOnePlace, WithThread, InQueue

-----------------------------------------------------------------------------
(* The client that changes the list only while the receiver is stopped.    *)

Attached == \A i \in 1..Len(m_objects) : m_objects[i] \in existing

CInv ==
    /\ RInv
    /\ NeverUndefined
    /\ Attached
    /\ call = "destroy" => ~m_isRunning

\* The client makes no step that OscReceiver does not have.
LEMMA ClientSteps ==
    ASSUME CNext
    PROVE  Next
<1>1. AnyTime => UserCall
  BY DEF AnyTime, UserCall
<1>2. WhenStopped => UserCall
  BY DEF WhenStopped, UserCall
<1> QED
  BY <1>1, <1>2 DEF CNext, Next

\* Steps that change neither what is attached nor what exists.
LEMMA FrameAttached ==
    ASSUME Attached, UNCHANGED <<m_objects, existing>>
    PROVE  Attached'
BY DEF Attached

\* A change of the list while stopped: no thread is iterating.
LEMMA MutateClient ==
    ASSUME CInv, ~m_isRunning, NEW op, NEW new, Mutate(op, new)
    PROVE  NeverUndefined' /\ m_objects' = new
<1>1. ~Iterating
  BY NoThreads DEF CInv, Iterating, Mutate, UserReady
<1> QED
  BY <1>1 DEF Mutate, CInv, NeverUndefined

\* Every step of the client, its receiver and the network preserves CInv.
LEMMA StepC ==
    ASSUME CInv, [CNext]_vars
    PROVE  CInv'
<1> USE ReceiverAssumption
<1>1. RInv /\ RInv'
  BY ClientSteps, StepR DEF CInv
<1>2. m_objects \in Seq(Objects) /\ Len(m_objects) \in Nat
  BY <1>1, LenProperties DEF RInv, TypeOK
<1> DEFINE Rest == /\ NeverUndefined' /\ Attached'
                   /\ call' = "destroy" => ~m_isRunning'
<1>3. ASSUME AnyTime PROVE Rest
  <2>1. /\ UNCHANGED <<m_objects, existing, life>>
        /\ call' # "destroy"
    BY <1>3, ZenonT(30)
       DEF AnyTime, setup, setupMulticast, Setup, start, stop, clear, EnterStop,
           handleMessages, ignoreMessages, members, UserReady
  <2> QED
    BY <2>1, FrameAttached, SMTT(20) DEF CInv, NeverUndefined
<1>4. ASSUME WhenStopped PROVE Rest
  <2>1. ~m_isRunning
    BY <1>4, Zenon DEF WhenStopped
  <2>2. ASSUME NEW o \in Objects, addOscObject(o), o \in existing
        PROVE  Rest
    <3>1. Mutate("addOscObject", added(m_objects, o))
      BY <2>2 DEF addOscObject
    <3>2. NeverUndefined' /\ m_objects' = Append(m_objects, o)
      BY <2>1, <3>1, MutateClient, Zenon DEF added
    <3>3. UNCHANGED <<existing, call, m_isRunning>>
      BY <3>1 DEF Mutate
    <3>4. Attached'
      BY <1>2, <2>2, <3>2, <3>3, AppendProperties DEF CInv, Attached
    <3> QED
      BY <3>2, <3>3, <3>4 DEF CInv
  <2>3. ASSUME NEW o \in Objects, removeOscObject(o)
        PROVE  Rest
    <3>1. Mutate("removeOscObject", removed(m_objects, o))
      BY <2>3 DEF removeOscObject
    <3>2. NeverUndefined' /\ m_objects' = removed(m_objects, o)
      BY <2>1, <3>1, MutateClient
    <3>3. UNCHANGED <<existing, call, m_isRunning>>
      BY <3>1 DEF Mutate
    <3>4. \A i \in 1..Len(m_objects') :
             \E j \in 1..Len(m_objects) : m_objects'[i] = m_objects[j]
      BY <1>2, <3>2, RemovedFrom
    <3>5. Attached'
      BY <3>3, <3>4 DEF CInv, Attached
    <3> QED
      BY <3>2, <3>3, <3>5 DEF CInv
  <2>4. ASSUME removeAllOscObjects PROVE Rest
    <3>1. Mutate("removeAllOscObjects", <<>>)
      BY <2>4 DEF removeAllOscObjects
    <3>2. NeverUndefined' /\ m_objects' = <<>>
      BY <2>1, <3>1, MutateClient
    <3>3. UNCHANGED <<existing, call, m_isRunning>>
      BY <3>1 DEF Mutate
    <3> QED
      BY <3>2, <3>3 DEF CInv, Attached
  <2>5. ASSUME destroy PROVE Rest
    <3>1. UNCHANGED <<m_objects, existing, life, m_isRunning>>
      BY <2>5 DEF destroy, EnterStop, members
    <3> QED
      BY <2>1, <3>1, FrameAttached DEF CInv, NeverUndefined
  <2>6. ASSUME NEW o \in existing, destroyObject(o),
               \A i \in 1..Len(m_objects) : m_objects[i] # o
        PROVE  Rest
    <3>1. /\ UNCHANGED <<m_objects, life, call, m_isRunning>>
          /\ existing' = existing \ {o}
      BY <2>6 DEF destroyObject, members
    <3> QED
      BY <2>6, <3>1 DEF CInv, NeverUndefined, Attached
  <2> QED
    BY <1>4, <2>2, <2>3, <2>4, <2>5, <2>6, Zenon DEF WhenStopped
<1>5. ASSUME NEW t \in Threads, processMessage(t)
      PROVE  Rest
  <2>1. UNCHANGED <<m_objects, existing, m_isRunning>> /\ work[t] # NULL
    BY <1>5, SMTT(20) DEF processMessage, members
  <2>2. call # "destroy"
    BY <1>1, <2>1, NoThreads DEF CInv, RInv, WorkPlaced, Threads
  <2>3. work[t].next \in 1..Len(m_objects)
           => m_objects[work[t].next] \in existing
    BY DEF CInv, Attached
  <2>4. \A n, f : Step(t, n) \/ Finish(t, f) =>
                  life' = life /\ (call' = call \/ call' = "none")
    BY DEF Step, Finish
  <2>5. life' = life /\ call' # "destroy"
    BY <1>5, <2>2, <2>3, <2>4
       DEF processMessage, ProcessBegin, ProcessObject, ProcessSelf
  <2> QED
    BY <2>1, <2>5, FrameAttached DEF CInv, NeverUndefined
<1>6. ASSUME NEW s \in Servers, ServerCheck(s) \/ ServerRecv(s)
      PROVE  Rest
  <2>1. /\ UNCHANGED <<m_objects, existing, call, m_isRunning>>
        /\ life' = life \/ life' = "terminated"
    BY <1>6 DEF ServerCheck, ServerRecv, members
  <2> QED
    BY <2>1, FrameAttached DEF CInv, NeverUndefined
<1>7. ASSUME LeaveStart \/ LeaveStop PROVE Rest
  <2>1. UNCHANGED <<m_objects, existing>> /\ call' = "none"
        /\ (life' = life \/ life' = "destroyed")
    BY <1>7 DEF LeaveStart, LeaveStop
  <2> QED
    BY <2>1, FrameAttached DEF CInv, NeverUndefined
<1>8. ASSUME NEW s \in Servers, NEW d \in Datagrams, Arrive(s, d)
      PROVE  Rest
  <2>1. UNCHANGED <<m_objects, existing, call, m_isRunning, life>>
    BY <1>8 DEF Arrive, members
  <2> QED
    BY <2>1, FrameAttached DEF CInv, NeverUndefined
<1>9. ASSUME UNCHANGED vars PROVE Rest
  <2>1. UNCHANGED <<m_objects, existing, call, m_isRunning, life>>
    BY <1>9 DEF vars, members
  <2> QED
    BY <2>1, FrameAttached DEF CInv, NeverUndefined
<1>10. Rest
  BY <1>3, <1>4, <1>5, <1>6, <1>7, <1>8, <1>9
     DEF CNext, UserStep, ServerStep, Threads
<1> QED
  BY <1>1, <1>10 DEF CInv

\* For any number of servers, objects and datagrams: if objects are attached,
\* detached and destroyed, and the receiver is destroyed, only while
\* m_isRunning is false, then the server thread never meets an m_objects
\* that is being changed, an object that is gone, or a receiver half destroyed.
THEOREM ClientIsRaceFree ==
    CSpec => []NeverUndefined
<1>1. ASSUME Init PROVE CInv
  <2>1. RInv
    BY <1>1, InitR
  <2>2. life = "alive" /\ call = "none" /\ m_objects = <<>>
    BY <1>1 DEF Init
  <2>3. Attached
    BY <2>2 DEF Attached
  <2> QED
    BY <2>1, <2>2, <2>3 DEF CInv, NeverUndefined
<1>2. CInv => NeverUndefined
  BY DEF CInv
<1> QED
  BY <1>1, <1>2, StepC, PTL DEF CSpec
=============================================================================
