----------------------------- MODULE OscReceiver -----------------------------
(***************************************************************************)
(* osc::OscReceiver (src/lopack/OscReceiver.cpp, OscReceiver.h): owns a    *)
(* liblo server, receives datagrams on liblo's server thread or by polling *)
(* on the user's thread, and offers each message to the attached OscObjects*)
(* and then to the virtual process().                                      *)
(*                                                                         *)
(* Two kinds of thread run.  The user's thread makes one call at a time;   *)
(* stop(), clear() and the destructor block in it until the server thread  *)
(* is joined, and handleMessages() dispatches in it.  Every liblo server   *)
(* that was started has a thread that loops: test the active flag, receive,*)
(* dispatch.  There are no locks, so each access to a member is a step.    *)
(***************************************************************************)
EXTENDS ObjectVector

CONSTANTS
    Servers,       \* lo_server_thread handles; bounds how many are ever made
    Ports,
    Objects,       \* OscObjects of the client
    Datagrams,     \* datagrams the network carries, each at most once
    User,          \* the user's thread
    NULL,
    MaxAttached,   \* bound: length of m_objects
    StartMayFail,  \* lo_server_thread_start may fail to create the thread
    ErrorsHappen   \* liblo may report an error while receiving

ASSUME ReceiverAssumption ==
    /\ User \notin Servers
    /\ NULL \notin Servers \cup Objects \cup Ports
    /\ MaxAttached \in Nat
    /\ StartMayFail \in BOOLEAN /\ ErrorsHappen \in BOOLEAN

\* NULL stands for "no message" in work as well.
ASSUME NoMessageAssumption == NULL \notin [msg : Datagrams, next : Nat]

VARIABLES
    m_serverThread,    \* current server, or NULL
    m_isMulticast,
    m_isRunning,       \* "should the thread be running?"
    m_ignoreMessages,
    m_objects,         \* attached objects, in the order they were added
    life,              \* "alive", "destroyed", "undefined", "terminated"
    call,              \* the call the user's thread is inside, or "none"
    ret,               \* the last call that returned, and its result
    port,              \* liblo: port each server's socket is bound to, or NULL
    active,            \* liblo: the flag each server thread tests
    thread,            \* liblo: where each server thread is
    inbox,             \* kernel: datagrams waiting at each socket
    work,              \* message each thread is dispatching, or NULL
    fate,              \* what has become of each datagram
    existing           \* the client's objects that are not destroyed

members == <<m_serverThread, m_isMulticast, m_isRunning, m_ignoreMessages,
             m_objects>>
liblo == <<port, active, thread>>
messages == <<inbox, work, fate>>
vars == <<members, life, call, ret, liblo, messages, existing>>

Threads == Servers \cup {User}
Blocking == {"stop", "clear", "destroy"}
Ops == Blocking \cup {"construct", "setup", "setupMulticast", "start",
        "handleMessages", "addOscObject", "removeOscObject",
        "removeAllOscObjects", "ignoreMessages", "destroyObject"}
Results == {"none", "true", "false", "ReceiveException"}
Fates == {"unsent", "queued", "dispatching", "ignored", "handled", "refused"}
Work == [msg : Datagrams, next : 0..(MaxAttached + 1)]

Returns(op, r) == ret' = [op |-> op, val |-> r]

-----------------------------------------------------------------------------
Init ==
    /\ m_serverThread = NULL
    /\ m_isMulticast = FALSE
    /\ m_isRunning = FALSE
    /\ m_ignoreMessages = FALSE
    /\ m_objects = <<>>
    /\ life = "alive"
    /\ call = "none"
    /\ ret = [op |-> "construct", val |-> "none"]
    /\ port = [s \in Servers |-> NULL]
    /\ active = [s \in Servers |-> FALSE]
    /\ thread = [s \in Servers |-> "none"]
    /\ inbox = [s \in Servers |-> <<>>]
    /\ work = [t \in Threads |-> NULL]
    /\ fate = [d \in Datagrams |-> "unsent"]
    /\ existing = Objects

\* liblo reported an error inside call op: errorCB throws, and the exception
\* leaves the call.
errorCB(op) == Returns(op, "ReceiveException")

\* The user's thread is free to make a call.
UserReady == life = "alive" /\ call = "none"

InUse(p) == \E s \in Servers : port[s] = p

\* setup() and setupMulticast().  A port in use makes liblo call errorCB, whose
\* exception leaves setup(); multicast sockets may share a port.
Setup(op, p, multicast) ==
    /\ UserReady
    /\ \/ /\ m_serverThread # NULL
          /\ Returns(op, "false")
          /\ UNCHANGED <<members, port>>
       \/ /\ m_serverThread = NULL
          /\ InUse(p)
          /\ errorCB(op)
          /\ UNCHANGED <<members, port>>
       \/ /\ m_serverThread = NULL
          /\ ~InUse(p) \/ multicast
          /\ \E s \in Servers :
                /\ port[s] = NULL
                /\ port' = [port EXCEPT ![s] = p]
                /\ m_serverThread' = s
          /\ m_isMulticast' = multicast
          /\ Returns(op, "true")
          /\ UNCHANGED <<m_isRunning, m_ignoreMessages, m_objects>>
       \/ /\ m_serverThread = NULL   \* lo_server_thread_new returned NULL
          /\ Returns(op, "false")
          /\ UNCHANGED <<members, port>>
    /\ UNCHANGED <<life, call, active, thread, messages, existing>>

setup(p) == Setup("setup", p, FALSE)
setupMulticast(p) == Setup("setupMulticast", p, TRUE)

\* lo_server_thread_start creates a thread unless one is active; its result is
\* ignored.  The thread runs before m_isRunning says so.
start ==
    /\ UserReady
    /\ call' = "start"
    /\ IF m_serverThread = NULL
       THEN UNCHANGED <<active, thread>>
       ELSE \/ /\ ~active[m_serverThread]
               /\ active' = [active EXCEPT ![m_serverThread] = TRUE]
               /\ thread' = [thread EXCEPT ![m_serverThread] = "check"]
            \/ /\ active[m_serverThread] \/ StartMayFail
               /\ UNCHANGED <<active, thread>>
    /\ UNCHANGED <<members, life, ret, port, messages, existing>>

\* Mistake: start() does not note that the thread runs.
LeaveStartUnnoted ==
    /\ life = "alive"
    /\ call = "start"
    /\ call' = "none"
    /\ Returns("start", "none")
    /\ UNCHANGED <<members, life, liblo, messages, existing>>

\* The rest of start().
LeaveStart ==
    /\ life = "alive"
    /\ call = "start"
    /\ m_isRunning' = (m_isRunning \/ m_serverThread # NULL)
    /\ call' = "none"
    /\ Returns("start", "none")
    /\ UNCHANGED <<m_serverThread, m_isMulticast, m_ignoreMessages, m_objects,
                   life, liblo, messages, existing>>

-----------------------------------------------------------------------------
(* stop(), clear() and the destructor: clear() begins with stop() and the  *)
(* destructor is clear() after the derived class's destructor has run.     *)

\* Mistake: the thread is waited for but not told to stop.
EnterStopUnsignalled(op) ==
    /\ UserReady
    /\ call' = op
    /\ UNCHANGED <<members, life, ret, liblo, messages, existing>>

\* lo_server_thread_stop lowers the flag and joins.
EnterStop(op) ==
    /\ UserReady
    /\ call' = op
    /\ active' = [s \in Servers |-> IF s = m_serverThread THEN FALSE
                                                         ELSE active[s]]
    /\ UNCHANGED <<members, life, ret, port, thread, messages, existing>>

\* pthread_join returns when there is no thread left.
Joined == m_serverThread # NULL => thread[m_serverThread] = "none"

\* What follows the join.  clear() drops the handle but does not free the
\* server, so its socket stays bound.
LeaveStop ==
    /\ life = "alive"
    /\ call \in Blocking
    /\ Joined
    /\ IF m_serverThread = NULL
       THEN UNCHANGED <<m_isRunning, m_ignoreMessages>>
       ELSE m_isRunning' = FALSE /\ m_ignoreMessages' = FALSE
    /\ IF call = "stop"
       THEN UNCHANGED <<m_serverThread, m_isMulticast>>
       ELSE m_serverThread' = NULL /\ m_isMulticast' = FALSE
    /\ life' = IF call = "destroy" THEN "destroyed" ELSE life
    /\ call' = "none"
    /\ Returns(call, "none")
    /\ UNCHANGED <<m_objects, liblo, messages, existing>>

\* Mistake: clear() drops the handle without stop().
clearOnly ==
    /\ UserReady
    /\ m_serverThread' = NULL
    /\ m_isMulticast' = FALSE
    /\ Returns("clear", "none")
    /\ UNCHANGED <<m_isRunning, m_ignoreMessages, m_objects, life, call, liblo,
                   messages, existing>>

stop == EnterStop("stop")
clear == EnterStop("clear")
destroy == EnterStop("destroy")

-----------------------------------------------------------------------------
(* Receiving.  t is the thread that dispatches what arrived at server s.   *)

Receive(t, s) ==
    /\ inbox[s] # <<>>
    /\ work' = [work EXCEPT ![t] = [msg |-> Head(inbox[s]), next |-> 0]]
    /\ fate' = [fate EXCEPT ![Head(inbox[s])] = "dispatching"]
    /\ inbox' = [inbox EXCEPT ![s] = Tail(@)]

\* Mistake: polls although the thread is running.
handleMessagesAlways ==
    /\ UserReady
    /\ m_serverThread # NULL
    /\ Receive(User, m_serverThread)
    /\ call' = "handleMessages"
    /\ UNCHANGED <<ret, members, life, liblo, existing>>

handleMessages ==
    /\ UserReady
    /\ \/ /\ \/ m_serverThread = NULL \/ m_isRunning
             \/ m_serverThread # NULL /\ inbox[m_serverThread] = <<>>
          /\ Returns("handleMessages", "none")
          /\ UNCHANGED <<call, messages>>
       \/ /\ m_serverThread # NULL /\ ~m_isRunning
          /\ Receive(User, m_serverThread)
          /\ call' = "handleMessages"
          /\ UNCHANGED ret
       \/ /\ m_serverThread # NULL /\ ~m_isRunning
          /\ ErrorsHappen
          /\ errorCB("handleMessages")
          /\ UNCHANGED <<call, messages>>
    /\ UNCHANGED <<members, life, liblo, existing>>

\* The loop of a server thread.
ServerCheck(s) ==
    /\ life = "alive"
    /\ thread[s] = "check"
    /\ thread' = [thread EXCEPT ![s] = IF active[s] THEN "recv" ELSE "none"]
    /\ UNCHANGED <<members, life, call, ret, port, active, messages, existing>>

\* Mistake: a datagram is only taken when another one follows it.
ServerRecvLate(s) ==
    /\ life = "alive"
    /\ thread[s] = "recv"
    /\ work[s] = NULL
    /\ IF Len(inbox[s]) > 1
       THEN Receive(s, s) /\ UNCHANGED thread
       ELSE thread' = [thread EXCEPT ![s] = "check"] /\ UNCHANGED messages
    /\ UNCHANGED <<members, life, call, ret, port, active, existing>>

ServerRecv(s) ==
    /\ life = "alive"
    /\ thread[s] = "recv"
    /\ work[s] = NULL
    /\ \/ /\ Receive(s, s)
          /\ UNCHANGED <<life, thread>>
       \/ /\ inbox[s] = <<>>         \* the wait timed out
          /\ thread' = [thread EXCEPT ![s] = "check"]
          /\ UNCHANGED <<life, messages>>
       \/ /\ ErrorsHappen            \* errorCB's exception leaves the thread
          /\ life' = "terminated"
          /\ UNCHANGED <<thread, messages>>
    /\ UNCHANGED <<members, call, ret, port, active, existing>>

-----------------------------------------------------------------------------
(* messageCB and processMessage, in the thread t.                          *)

Step(t, n) ==
    /\ work' = [work EXCEPT ![t].next = n]
    /\ UNCHANGED <<life, call, ret, thread, fate>>

\* The callback returns: to the loop, or to the caller of handleMessages().
Finish(t, f) ==
    /\ work' = [work EXCEPT ![t] = NULL]
    /\ fate' = [fate EXCEPT ![work[t].msg] = f]
    /\ IF t = User
       THEN /\ call' = "none"
            /\ Returns("handleMessages", "true")
            /\ UNCHANGED thread
       ELSE /\ thread' = [thread EXCEPT ![t] = "check"]
            /\ UNCHANGED <<call, ret>>
    /\ UNCHANGED life

\* A call on an object that is not there any more.
Undefined ==
    /\ life' = "undefined"
    /\ UNCHANGED <<call, ret, thread, work, fate>>

\* Reads m_ignoreMessages and sets iter to m_objects.begin().
ProcessBegin(t) ==
    /\ work[t].next = 0
    /\ IF m_ignoreMessages THEN Finish(t, "ignored") ELSE Step(t, 1)

\* Offers the message to one object.  An object is never null: addOscObject
\* refuses null pointers, so the branch that erases them is not reached.
ProcessObject(t) ==
    /\ work[t].next \in 1..Len(m_objects)
    /\ IF m_objects[work[t].next] \in existing
       THEN Finish(t, "handled") \/ Step(t, work[t].next + 1)
       ELSE Undefined

\* The virtual process(), whose object the destructor may be taking apart.
ProcessSelf(t) ==
    /\ work[t].next > Len(m_objects)
    /\ \/ Finish(t, "handled") \/ Finish(t, "refused")
       \/ call = "destroy" /\ Undefined

processMessage(t) ==
    /\ life = "alive"
    /\ work[t] # NULL
    /\ ProcessBegin(t) \/ ProcessObject(t) \/ ProcessSelf(t)
    /\ UNCHANGED <<members, port, active, inbox, existing>>

-----------------------------------------------------------------------------
(* Changes of m_objects.  One made while the server thread iterates over   *)
(* the vector is a data race: it either goes unnoticed or is the end.      *)

Iterating == \E s \in Servers : work[s] # NULL /\ work[s].next > 0

Mutate(op, new) ==
    /\ UserReady
    /\ \/ /\ m_objects' = new
          /\ \A s \in Servers : work[s] # NULL => work[s].next =< Len(new) + 1
          /\ UNCHANGED life
       \/ /\ Iterating
          /\ life' = "undefined"
          /\ UNCHANGED m_objects
    /\ Returns(op, "none")
    /\ UNCHANGED <<m_serverThread, m_isMulticast, m_isRunning,
                   m_ignoreMessages, call, liblo, messages, existing>>

Nothing(op) ==
    /\ UserReady
    /\ Returns(op, "none")
    /\ UNCHANGED <<members, life, call, liblo, messages, existing>>

\* Mistake: a null pointer is attached like any other.
addOscObjectUnchecked(o) ==
    /\ Len(m_objects) < MaxAttached
    /\ Mutate("addOscObject", added(m_objects, o))

addOscObject(o) ==
    \/ o = NULL /\ Nothing("addOscObject")
    \/ /\ o # NULL
       /\ Len(m_objects) < MaxAttached
       /\ Mutate("addOscObject", added(m_objects, o))

removeOscObject(o) ==
    \/ o = NULL /\ Nothing("removeOscObject")
    \/ o # NULL /\ Mutate("removeOscObject", removed(m_objects, o))

removeAllOscObjects == Mutate("removeAllOscObjects", <<>>)

\* The flag is a plain bool, which the server thread may read at this moment: it
\* reads the old value or the new one.
ignoreMessages(yesno) ==
    /\ UserReady
    /\ m_ignoreMessages' = yesno
    /\ Returns("ignoreMessages", "none")
    /\ UNCHANGED <<m_serverThread, m_isMulticast, m_isRunning, m_objects, life,
                   call, liblo, messages, existing>>

-----------------------------------------------------------------------------
(* The rest of the world.                                                  *)

\* The client destroys one of its objects; OscObject does not detach itself.
destroyObject(o) ==
    /\ UserReady
    /\ existing' = existing \ {o}
    /\ Returns("destroyObject", "none")
    /\ UNCHANGED <<members, life, call, liblo, messages>>

\* A datagram reaches a bound socket.  One that never does is lost.
Arrive(s, d) ==
    /\ port[s] # NULL
    /\ fate[d] = "unsent"
    /\ inbox' = [inbox EXCEPT ![s] = Append(@, d)]
    /\ fate' = [fate EXCEPT ![d] = "queued"]
    /\ UNCHANGED <<members, life, call, ret, liblo, work, existing>>

ServerStep(s) == ServerCheck(s) \/ ServerRecv(s) \/ processMessage(s)
UserStep == LeaveStart \/ LeaveStop \/ processMessage(User)

UserCall ==
    \/ \E p \in Ports : setup(p) \/ setupMulticast(p)
    \/ start \/ stop \/ clear \/ destroy \/ handleMessages
    \/ \E o \in Objects \cup {NULL} : addOscObject(o) \/ removeOscObject(o)
    \/ removeAllOscObjects
    \/ \E yesno \in BOOLEAN : ignoreMessages(yesno)
    \/ \E o \in existing : destroyObject(o)

Next ==
    \/ UserCall
    \/ UserStep
    \/ \E s \in Servers : ServerStep(s)
    \/ \E s \in Servers, d \in Datagrams : Arrive(s, d)

\* The operating system runs every thread that can run, and callbacks return:
\* a call, once made, gets on.  The user need not make any.
Fairness == WF_vars(UserStep) /\ \A s \in Servers : WF_vars(ServerStep(s))

Spec == Init /\ [][Next]_vars

-----------------------------------------------------------------------------
(* Properties that hold whatever calls the client makes.                   *)

\* Every member, flag and socket has its type; in particular no null pointer is
\* ever attached.
TypeOK ==
    /\ m_serverThread \in Servers \cup {NULL}
    /\ m_isMulticast \in BOOLEAN
    /\ m_isRunning \in BOOLEAN
    /\ m_ignoreMessages \in BOOLEAN
    /\ m_objects \in Seq(Objects) /\ Len(m_objects) =< MaxAttached
    /\ life \in {"alive", "destroyed", "undefined", "terminated"}
    /\ call \in Blocking \cup {"none", "start", "handleMessages"}
    /\ ret \in [op : Ops, val : Results]
    /\ port \in [Servers -> Ports \cup {NULL}]
    /\ active \in [Servers -> BOOLEAN]
    /\ thread \in [Servers -> {"none", "check", "recv"}]
    /\ inbox \in [Servers -> Seq(Datagrams)]
    /\ work \in [Threads -> Work \cup {NULL}]
    /\ fate \in [Datagrams -> Fates]
    /\ existing \subseteq Objects

\* A server thread that exists belongs to the current server, and m_isRunning
\* knows of it as soon as start() has returned; its flag is down only while the
\* user's thread waits for it.  So none outlives stop(), clear() or the
\* destructor, a server that clear() drops is never heard of again, and start()
\* never makes a second.
ThreadsAccounted ==
    \A s \in Servers :
        /\ thread[s] # "none" =>
              s = m_serverThread /\ (m_isRunning \/ call = "start")
        /\ thread[s] # "none" /\ ~active[s] => call \in Blocking
        /\ active[s] => thread[s] # "none"

\* Messages are dispatched one at a time: polling and the server threads never
\* run callbacks at the same moment.
SerialDispatch ==
    \A t, u \in Threads : work[t] # NULL /\ work[u] # NULL => t = u

\* The receiver was never started, or stop() or clear() has returned.
Stopped == call = "none" /\ (m_serverThread = NULL \/ ~m_isRunning)

\* A stopped receiver is quiet until start() is called: what arrives meanwhile is
\* dispatched only by handleMessages(), and no error on a thread of it ends the
\* program.
StoppedIsQuiet ==
    [][Stopped => life' = life /\ \A s \in Servers : work'[s] = NULL]_vars

\* stop(), clear() and the destructor return: the join ends even when a dispatch
\* is under way and datagrams keep arriving.
StopReturns ==
    (call \in Blocking) ~> (call = "none" \/ life # "alive")

\* While the thread runs, a datagram that waits at the socket is dispatched.
QueuedIsDispatched ==
    \A d \in Datagrams, s \in Servers :
        (fate[d] = "queued" /\ thread[s] # "none"
            /\ \E i \in 1..Len(inbox[s]) : inbox[s][i] = d)
          ~> (fate[d] # "queued" \/ thread[s] = "none" \/ life # "alive")
=============================================================================
