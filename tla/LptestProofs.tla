----------------------------- MODULE LptestProofs -----------------------------
(***************************************************************************)
(* Theorems about the test program, for any number of servers, handles and *)
(* lost messages, and for any interleaving of main() with the server thread*)
(* and the network.                                                        *)
(*                                                                         *)
(* main() is a client of an OscReceiver, so what OscReceiverProofs shows of*)
(* every client holds here (ReceiverSafe).  The rest of the invariant says *)
(* where main() is (Control), what the sender holds at each statement of   *)
(* testSender() (Positioned, Composing), what was sent (Written), who has  *)
(* taken it (Taken), and that nothing overtakes anything (Order).          *)
(***************************************************************************)
EXTENDS LptestStepProofs

Inv ==
    /\ ReceiverSafe
    /\ Control /\ Positioned /\ Composing /\ Written /\ Taken /\ Order

-----------------------------------------------------------------------------
(* A message is received.                                                  *)

\* What the receiver does with the message at the head of its queue.
Pops(t, s, e) ==
    /\ inbox[s] \in Seq(Datagrams) /\ inbox[s] # <<>>
    /\ 1 \in 1..Len(inbox[s]) /\ e \in Datagrams /\ fate[e] = "queued"
    /\ \A d \in Datagrams : fate'[d] = IF d = e THEN "dispatching" ELSE fate[d]
    /\ \A u \in Servers \cup {User} :
          work'[u] = IF u = t THEN [msg |-> e, next |-> 0] ELSE work[u]
    /\ \A r \in Servers :
          inbox'[r] = IF r = s THEN Tail(inbox[s]) ELSE inbox[r]

\* R!Receive takes the head of the queue.
LEMMA ReceivePops ==
    ASSUME ReceiverSafe, NEW t \in Servers \cup {User}, NEW s \in Servers,
           R!Receive(t, s)
    PROVE  Pops(t, s, inbox[s][1])
<1>1. /\ inbox \in [Servers -> Seq(Datagrams)] /\ fate \in [Datagrams -> R!Fates]
      /\ work \in [Servers \cup {User} -> R!Work \cup {NULL}]
  BY DEF ReceiverSafe, R!TypeOK, R!Threads
<1>2. inbox[s] \in Seq(Datagrams) /\ inbox[s] # <<>>
  BY <1>1 DEF R!Receive
<1>3. 1 \in 1..Len(inbox[s]) /\ inbox[s][1] \in Datagrams /\ Head(inbox[s]) = inbox[s][1]
  BY <1>2
<1>4. fate[inbox[s][1]] = "queued"
  BY <1>3 DEF ReceiverSafe, InOnePlace
<1>5. /\ work' = [work EXCEPT ![t] = [msg |-> inbox[s][1], next |-> 0]]
      /\ fate' = [fate EXCEPT ![inbox[s][1]] = "dispatching"]
      /\ inbox' = [inbox EXCEPT ![s] = Tail(inbox[s])]
  BY <1>3, Zenon DEF R!Receive
<1>6. \A d \in Datagrams :
         fate'[d] = IF d = inbox[s][1] THEN "dispatching" ELSE fate[d]
  BY <1>1, <1>5, Zenon
<1>7. \A u \in Servers \cup {User} :
         work'[u] = IF u = t THEN [msg |-> inbox[s][1], next |-> 0] ELSE work[u]
  BY <1>1, <1>5, Zenon
<1>8. \A r \in Servers : inbox'[r] = IF r = s THEN Tail(inbox[s]) ELSE inbox[r]
  BY <1>1, <1>5, Zenon
<1> QED BY <1>2, <1>3, <1>4, <1>6, <1>7, <1>8, Zenon DEF Pops

\* Everything sent before the head of the queue, and not held back, was lost or
\* has been handled: it is not on the wire, not behind in the queue, and nothing
\* is being dispatched.
LEMMA HeadIsNext ==
    ASSUME ReceiverSafe, Written, OnItsWay, OneSocket, InOrder, NEW s \in Servers,
           inbox[s] \in Seq(Datagrams), inbox[s] # <<>>, fate[inbox[s][1]] = "queued",
           \A u \in Servers \cup {User} : work[u] = NULL,
           NEW d \in Datagrams, d < inbox[s][1], Nr(d) # 5
    PROVE  d \in lost \/ fate[d] = "handled"
<1> DEFINE e == inbox[s][1]
<1>1. e \in Datagrams /\ 1 \in 1..Len(inbox[s]) /\ Len(inbox[s]) \in Nat
  OBVIOUS
<1>2. Len(content) \in Nat
  BY DEF Written
<1>3. d =< Len(content)
  <2>1. e =< Len(content)
    BY <1>1 DEF OnItsWay
  <2> QED BY <1>1, <1>2, <2>1, SendsAre, SMTT(20)
<1>4. \A i \in 1..Len(net) : net[i] # d
  BY <1>1 DEF InOrder
<1>5. d \in lost \/ fate[d] \in {"queued", "dispatching", "handled"}
  BY <1>3, <1>4 DEF OnItsWay
<1>6. fate[d] # "dispatching"
  BY DEF ReceiverSafe, InOnePlace, R!Threads
<1>7. fate[d] # "queued"
  <2> SUFFICES ASSUME fate[d] = "queued"
               PROVE  FALSE
    OBVIOUS
  <2>1. PICK r \in Servers : \E i \in 1..Len(inbox[r]) : inbox[r][i] = d
    BY DEF ReceiverSafe, InOnePlace
  <2>2. inbox[r] # <<>>
    BY <2>1
  <2>3. r = s
    BY <2>2 DEF OneSocket
  <2>4. PICK i \in 1..Len(inbox[s]) : inbox[s][i] = d
    BY <2>1, <2>3
  <2>5. 1 < i
    <3>1. i # 1
      BY <2>4, <1>1, SendsAre, SMTT(20)
    <3> QED BY <3>1, <1>1
  <2> QED BY <2>4, <2>5, <1>1 DEF InOrder
<1> QED BY <1>5, <1>6, <1>7

\* The message received is the next in order, as nothing else is dispatched.
LEMMA ReceiveTraffic ==
    ASSUME ReceiverSafe, Written, Taken, OnItsWay, OneSocket, InOrder,
           NEW t \in Servers \cup {User}, NEW s \in Servers, R!Receive(t, s),
           \A u \in Servers \cup {User} : work[u] = NULL,
           stage' # "setup", UNCHANGED <<port, takenBy, content, net, lost>>
    PROVE  /\ Taken' /\ OnItsWay' /\ OneSocket' /\ InOrder'
           /\ fate[7] = "handled" => fate'[7] = "handled"
<1> DEFINE e == inbox[s][1]
<1>1. /\ inbox[s] \in Seq(Datagrams) /\ inbox[s] # <<>>
      /\ 1 \in 1..Len(inbox[s]) /\ e \in Datagrams /\ fate[e] = "queued"
      /\ \A d \in Datagrams : fate'[d] = IF d = e THEN "dispatching" ELSE fate[d]
      /\ \A u \in Servers \cup {User} :
            work'[u] = IF u = t THEN [msg |-> e, next |-> 0] ELSE work[u]
      /\ \A r \in Servers :
            inbox'[r] = IF r = s THEN Tail(inbox[s]) ELSE inbox[r]
  <2>1. Pops(t, s, e)
    BY ReceivePops, Zenon
  <2> HIDE DEF e
  <2> QED BY <2>1, Zenon DEF Pops
<1>2. /\ Len(Tail(inbox[s])) \in Nat
      /\ \A i \in 1..Len(Tail(inbox[s])) :
            Tail(inbox[s])[i] = inbox[s][i + 1] /\ i + 1 \in 1..Len(inbox[s])
  BY <1>1, TailIs
<1>3. \A d \in Datagrams : d < e /\ Nr(d) # 5 => d \in lost \/ fate[d] = "handled"
  BY <1>1, HeadIsNext, Zenon
<1> HIDE DEF e
<1>4. \A d \in Datagrams : /\ fate'[d] # "unsent" <=> fate[d] # "unsent"
                           /\ fate'[d] = "handled" <=> fate[d] = "handled"
                           /\ d # e => fate'[d] = fate[d]
                           /\ fate'[d] \in {fate[d], "dispatching"}
  BY <1>1
<1>5. Taken'
  <2>1. \A u \in Servers \cup {User} :
           work'[u] # NULL => work'[u] = [msg |-> e, next |-> 0]
    BY <1>1, Zenon
  <2>2. \A u \in Servers \cup {User} : work'[u] # NULL => ~(work'[u].next > 1)
    BY <2>1
  <2> QED BY <2>2, <1>4, Zenon DEF Taken, Nr
<1>6. OnItsWay'
  BY <1>4, Zenon DEF OnItsWay
<1>7. OneSocket'
  <2>1. \A r \in Servers : inbox'[r] # <<>> => inbox[r] # <<>>
    BY <1>1, Zenon
  <2> QED BY <2>1, Zenon DEF OneSocket
<1>8. InOrder'
  <2>1. \A d, f \in Datagrams : d < f /\ Nr(d) # 5 =>
           /\ fate'[f] # "unsent" => \A i \in 1..Len(net) : net[i] # d
           /\ fate'[f] \in {"dispatching", "handled"} =>
                 d \in lost \/ fate'[d] = "handled"
    BY <1>3, <1>4, Zenon DEF InOrder
  <2>2. ASSUME NEW i \in 1..Len(Tail(inbox[s])), NEW j \in 1..Len(Tail(inbox[s])),
               i < j, Tail(inbox[s])[j] < Tail(inbox[s])[i]
        PROVE  Nr(Tail(inbox[s])[j]) = 5
    <3>1. i + 1 < j + 1
      BY <2>2, <1>2
    <3>2. i + 1 \in 1..Len(inbox[s]) /\ j + 1 \in 1..Len(inbox[s])
      BY <1>2, Zenon
    <3>3. inbox[s][j + 1] < inbox[s][i + 1] => Nr(inbox[s][j + 1]) = 5
      BY <3>1, <3>2, Zenon DEF InOrder
    <3>4. Tail(inbox[s])[j] = inbox[s][j + 1] /\ Tail(inbox[s])[i] = inbox[s][i + 1]
      BY <1>2, Zenon
    <3> QED BY <3>3, <3>4, <2>2, Zenon
  <2>3. ASSUME NEW r \in Servers
        PROVE  \A i, j \in 1..Len(inbox'[r]) :
                 i < j /\ inbox'[r][j] < inbox'[r][i] => Nr(inbox'[r][j]) = 5
    <3>1. CASE r = s
      <4>1. inbox'[r] = Tail(inbox[s])
        BY <3>1, <1>1, Zenon
      <4> QED BY <4>1, <2>2, Zenon
    <3>2. CASE r # s
      <4>1. inbox'[r] = inbox[r]
        BY <3>2, <1>1, Zenon
      <4> QED BY <4>1, ZenonT(30) DEF InOrder
    <3> QED BY <3>1, <3>2
  <2> QED BY <2>1, <2>3, Zenon DEF InOrder, Nr
<1>9. fate[7] = "handled" => fate'[7] = "handled"
  BY <1>4, SendsAre
<1> QED BY <1>5, <1>6, <1>7, <1>8, <1>9, SMTT(20)

\* handleMessages() receives the next message, or finds none.
LEMMA PollTraffic ==
    ASSUME ReceiverSafe, Control, Written, Taken, Order, Poll
    PROVE  Taken' /\ Order'
<1>1. /\ stage = "poll" /\ R!handleMessages /\ stage' \in {"unwind", "poll"}
      /\ UNCHANGED <<takenBy, content, net, lost, done>>
  BY DEF Poll, Main, wire
<1>2. /\ port' = port /\ call = "none"
      /\ \/ UNCHANGED <<inbox, work, fate>>
         \/ m_serverThread # NULL /\ R!Receive(User, m_serverThread)
  BY <1>1, Zenon DEF R!handleMessages, R!liblo, R!messages, R!UserReady
<1>3. CASE UNCHANGED <<inbox, work, fate>>
  <2>1. Taken' /\ OnItsWay' /\ InOrder'
    BY <1>1, <1>3, KeepsTraffic DEF Order
  <2>2. OneSocket' /\ Quit'
    BY <1>1, <1>2, <1>3, KeepsSocket, KeepsQuit DEF Order
  <2> QED BY <2>1, <2>2 DEF Order
<1>4. CASE m_serverThread # NULL /\ R!Receive(User, m_serverThread)
  <2>1. m_serverThread \in Servers
    BY <1>4 DEF ReceiverSafe, R!TypeOK
  <2>2. \A u \in Servers \cup {User} : work[u] = NULL
    <3>1. ~m_isRunning
      BY <1>1 DEF Control
    <3> QED BY <3>1, <1>2, Stopped DEF ReceiverSafe, WorkPlaced
  <2>3. stage' # "setup"
    BY <1>1
  <2>4. /\ Taken' /\ OnItsWay' /\ OneSocket' /\ InOrder'
        /\ fate[7] = "handled" => fate'[7] = "handled"
    BY <1>1, <1>2, <1>4, <2>1, <2>2, <2>3, ReceiveTraffic, Zenon DEF Order
  <2>5. Quit'
    BY <1>1, <2>4, KeepsQuit DEF Order
  <2> QED BY <2>4, <2>5 DEF Order
<1> QED BY <1>2, <1>3, <1>4

\* The server thread receives the next message, or waits.
LEMMA ServerTraffic ==
    ASSUME ReceiverSafe, Control, Written, Taken, Order, NEW s \in Servers,
           R!ServerCheck(s) \/ R!ServerRecv(s),
           UNCHANGED <<stage, done, takenBy, content, net, lost>>
    PROVE  Taken' /\ Order'
<1>1. /\ port' = port
      /\ \/ UNCHANGED <<inbox, work, fate>>
         \/ thread[s] = "recv" /\ work[s] = NULL /\ R!Receive(s, s)
  BY Zenon DEF R!ServerCheck, R!ServerRecv, R!messages
<1>2. CASE UNCHANGED <<inbox, work, fate>>
  <2>1. Taken' /\ OnItsWay' /\ InOrder'
    BY <1>2, KeepsTraffic DEF Order
  <2>2. OneSocket' /\ Quit'
    BY <1>1, <1>2, KeepsSocket, KeepsQuit DEF Order
  <2> QED BY <2>1, <2>2 DEF Order
<1>3. CASE thread[s] = "recv" /\ work[s] = NULL /\ R!Receive(s, s)
  <2>1. s = m_serverThread /\ (m_isRunning \/ call = "start")
    BY <1>3 DEF ReceiverSafe, R!ThreadsAccounted
  <2>2. \A u \in Servers \cup {User} : work[u] = NULL
    <3>1. \A r \in Servers : work[r] # NULL => r = m_serverThread
      BY DEF ReceiverSafe, R!ThreadsAccounted, WorkPlaced
    <3>2. work[User] = NULL
      BY <2>1 DEF ReceiverSafe, WorkPlaced
    <3> QED BY <3>1, <3>2, <2>1, <1>3, SMTT(20)
  <2>3. stage' # "setup"
    BY <2>1 DEF Control
  <2>4. /\ Taken' /\ OnItsWay' /\ OneSocket' /\ InOrder'
        /\ fate[7] = "handled" => fate'[7] = "handled"
    BY <1>1, <1>3, <2>2, <2>3, ReceiveTraffic, Zenon DEF Order
  <2>5. Quit'
    BY <2>4, KeepsQuit DEF Order
  <2> QED BY <2>4, <2>5 DEF Order
<1> QED BY <1>1, <1>2, <1>3

-----------------------------------------------------------------------------
(* A message is dispatched.                                                *)

\* A dispatch that ends leaves its message handled, by the callback that takes it.
LEMMA DispatchTraffic ==
    ASSUME ReceiverSafe, Control, Written, Taken, Order,
           NEW t \in Servers \cup {User}, Dispatch(t)
    PROVE  Taken' /\ Order'
<1> DEFINE d == work[t].msg
<1>1. done \in BOOLEAN
  BY DEF Order, Quit
<1>2. /\ work[t] # NULL
      /\ UNCHANGED <<stage, port, inbox, content, net, lost>>
      /\ (\E n \in 1..2 : Steps(t, n)) \/ Handles(t)
  BY <1>1, DispatchIs, Zenon DEF Order, wire
<1>3. /\ work[t] \in [msg : Datagrams, next : 0..2] /\ fate[d] = "dispatching"
      /\ d \in Datagrams
      /\ t = User => stage = "poll"
      /\ t # User => stage # "poll"
      /\ stage # "start"
  BY <1>2, DispatchPlace
<1>4. Nr(d) \in 1..7 /\ d \in 1..Len(content)
  BY <1>2, Dispatched, Zenon DEF Order
<1>5. /\ work \in [Servers \cup {User} -> R!Work \cup {NULL}]
      /\ fate \in [Datagrams -> R!Fates]
  BY DEF ReceiverSafe, R!TypeOK, R!Threads
<1>6. OneSocket'
  BY <1>2, KeepsSocket DEF Order
<1>7. CASE \E n \in 1..2 : Steps(t, n)
  <2>1. PICK n \in 1..2 : Steps(t, n)
    BY <1>7
  <2>2. /\ UNCHANGED <<fate, takenBy, done>>
        /\ n > 1 => Nr(d) # 6
        /\ \A u \in Servers \cup {User} :
              work'[u] = IF u = t THEN [work[t] EXCEPT !.next = n] ELSE work[u]
    BY <2>1, <1>5, Zenon DEF Steps
  <2>3. work'[t].next = n /\ work'[t].msg = d
    BY <2>2, <1>3
  <2>4. Taken'
    <3>1. ASSUME NEW u \in Servers \cup {User}, work'[u] # NULL, work'[u].next > 1
          PROVE  Sends[Nr(work'[u].msg)].path # "/object"
      <4>1. CASE u = t
        <5>1. Nr(d) # 6
          BY <3>1, <4>1, <2>2, <2>3
        <5> QED BY <5>1, <4>1, <2>3, <1>4, SendsAre
      <4>2. CASE u # t
        BY <3>1, <4>2, <2>2, Zenon DEF Taken
      <4> QED BY <4>1, <4>2
    <3> QED BY <3>1, <2>2, <1>2, Zenon DEF Taken, Nr
  <2>5. OnItsWay'
    BY <2>2, <1>2, Zenon DEF Order, OnItsWay
  <2>6. InOrder'
    <3>1. UNCHANGED <<fate, inbox, net, lost>>
      BY <2>2, <1>2
    <3> QED BY <3>1, Zenon DEF Order, InOrder, Nr
  <2>7. Quit'
    BY <2>2, <1>2, KeepsQuit DEF Order
  <2> QED BY <2>4, <2>5, <2>6, <2>7, <1>6, SMTT(20) DEF Order
<1>8. CASE Handles(t)
  <2> DEFINE w == IF Nr(d) = 6 THEN "Object" ELSE "TestReceiver"
  <2>1. /\ \A u \in Servers \cup {User} : work'[u] = IF u = t THEN NULL ELSE work[u]
        /\ \A e \in Datagrams : fate'[e] = IF e = d THEN "handled" ELSE fate[e]
        /\ done' = (done \/ Nr(d) = 7)
    BY <1>8, <1>5, Zenon DEF Handles
  <2>2. /\ takenBy' \in [Datagrams -> {"nobody", "Object", "TestReceiver"}]
        /\ \A e \in Datagrams : takenBy'[e] = IF e = d THEN w ELSE takenBy[e]
    <3>1. /\ takenBy \in [Datagrams -> {"nobody", "Object", "TestReceiver"}]
          /\ takenBy' = [takenBy EXCEPT ![d] = w]
      BY <1>8, Zenon DEF Handles, Taken
    <3> QED BY <3>1, Zenon
  <2>3. /\ w # "nobody" /\ d =< Len(content)
        /\ w = "Object" => Sends[Nr(d)].path = "/object"
        /\ w = "TestReceiver" => Sends[Nr(d)].path # "/object"
    BY <1>4, SendsAre
  <2> HIDE DEF w
  <2>4. Taken'
    <3>1. ASSUME NEW e \in Datagrams
          PROVE  /\ takenBy'[e] # "nobody" => e =< Len(content)
                 /\ takenBy'[e] = "Object" => Sends[Nr(e)].path = "/object"
                 /\ takenBy'[e] = "TestReceiver" => Sends[Nr(e)].path # "/object"
                 /\ fate'[e] = "handled" => takenBy'[e] # "nobody"
      <4>1. CASE e = d
        <5>1. takenBy'[e] = w
          BY <4>1, <2>2
        <5> QED BY <5>1, <4>1, <2>3, Zenon
      <4>2. CASE e # d
        <5>1. takenBy'[e] = takenBy[e] /\ fate'[e] = fate[e]
          BY <4>2, <2>1, <2>2, Zenon
        <5> QED BY <5>1, Zenon DEF Taken
      <4> QED BY <4>1, <4>2
    <3>2. \A u \in Servers \cup {User} : work'[u] # NULL /\ work'[u].next > 1 =>
             Sends[Nr(work'[u].msg)].path # "/object"
      BY <2>1, Zenon DEF Taken
    <3> QED BY <3>1, <3>2, <2>2, <1>2, Zenon DEF Taken, Nr
  <2>5. \A e \in Datagrams : /\ fate'[e] # "unsent" <=> fate[e] # "unsent"
                             /\ fate[e] = "handled" => fate'[e] = "handled"
                             /\ fate'[e] \in {"dispatching", "handled"} =>
                                   fate[e] \in {"dispatching", "handled"}
                             /\ fate'[e] \in {fate[e], "handled"}
    BY <2>1, <1>3
  <2>6. OnItsWay'
    BY <2>5, <1>2, Zenon DEF Order, OnItsWay
  <2>7. InOrder'
    BY <2>5, <1>2, ZenonT(30) DEF Order, InOrder, Nr
  <2>8. Quit'
    <3>1. ASSUME stage = "poll", done'
          PROVE  fate'[7] = "handled"
      <4>1. CASE done
        BY <4>1, <3>1, <2>5, SendsAre DEF Order, Quit
      <4>2. CASE Nr(d) = 7
        <5>1. Len(content) = 7
          BY <3>1 DEF Written
        <5>2. d \in 1..7
          BY <5>1, <1>4
        <5>3. d = 7
          BY <5>2, <4>2, NrIs, SMTT(20)
        <5> QED BY <5>3, <2>1, <1>3, SMTT(20)
      <4> QED BY <4>1, <4>2, <3>1, <2>1, Zenon
    <3>2. done' \in BOOLEAN
      BY <2>1
    <3> QED BY <3>1, <3>2, <1>2, <1>3, SMTT(20) DEF Quit
  <2> QED BY <2>4, <2>6, <2>7, <2>8, <1>6, SMTT(20) DEF Order
<1> QED BY <1>2, <1>7, <1>8

-----------------------------------------------------------------------------
(* A message arrives.                                                      *)

\* Only messages to be held back are overtaken.
LEMMA DeliverTraffic ==
    ASSUME ReceiverSafe, Written, Taken, Order, Deliver
    PROVE  Taken' /\ Order'
<1>1. PICK s \in Servers, i \in 1..Len(net) :
         /\ \A j \in 1..(i - 1) : content[net[j]].late
         /\ R!Arrive(s, net[i])
         /\ net' = SubSeq(net, 1, i - 1) \o SubSeq(net, i + 1, Len(net))
         /\ UNCHANGED <<sender, stage, script, done, content, lost, takenBy>>
  BY Zenon DEF Deliver
<1> DEFINE e == net[i]
           L == Len(content)
           N == Len(net)
<1>2. /\ net \in Seq(1..L) /\ N \in Nat /\ L \in Nat /\ L =< 14
      /\ \A j \in 1..N : net[j] \in 1..L
      /\ \A j, k \in 1..N : j < k => net[j] < net[k]
  BY SMTT(20) DEF Written, Order, OnItsWay
<1>3. e \in 1..L /\ e \in Datagrams
  <2>1. e \in 1..L
    BY <1>2
  <2> HIDE DEF e, L
  <2> QED BY <1>2, <2>1, SendsAre
<1>4. /\ port[s] # NULL /\ fate[e] = "unsent"
      /\ UNCHANGED <<port, work>>
      /\ inbox' = [inbox EXCEPT ![s] = Append(inbox[s], e)]
      /\ fate' = [fate EXCEPT ![e] = "queued"]
  BY <1>1, Zenon DEF R!Arrive, R!liblo
<1>5. /\ inbox \in [Servers -> Seq(Datagrams)] /\ fate \in [Datagrams -> R!Fates]
  BY DEF ReceiverSafe, R!TypeOK
<1>6. /\ \A d \in Datagrams : fate'[d] = IF d = e THEN "queued" ELSE fate[d]
      /\ \A r \in Servers :
            inbox'[r] = IF r = s THEN Append(inbox[s], e) ELSE inbox[r]
  BY <1>4, <1>5, Zenon
<1>7. /\ net' \in Seq(1..L) /\ Len(net') = N - 1
      /\ \A k \in 1..(N - 1) : net'[k] = IF k < i THEN net[k] ELSE net[k + 1]
  <2> DEFINE D == 1..L
  <2>1. net' = Without(net, i)
    BY <1>1, Zenon DEF Without
  <2>2. net \in Seq(D) /\ i \in 1..Len(net)
    BY <1>2
  <2> HIDE DEF D
  <2>3. /\ Without(net, i) \in Seq(D) /\ Len(Without(net, i)) = Len(net) - 1
        /\ \A k \in 1..(Len(net) - 1) :
              Without(net, i)[k] = IF k < i THEN net[k] ELSE net[k + 1]
    BY <2>2, WithoutIs, Zenon
  <2> QED BY <2>1, <2>3, Zenon DEF D
<1> HIDE DEF e, L, N
<1>8. Taken'
  <2>1. \A d \in Datagrams : fate'[d] = "handled" => fate[d] = "handled"
    BY <1>6
  <2> QED BY <2>1, <1>1, <1>4, Zenon DEF Taken, Nr
<1>9. OnItsWay'
  <2>1. ASSUME NEW j \in 1..(N - 1), NEW k \in 1..(N - 1), j < k
        PROVE  net'[j] < net'[k]
    <3> DEFINE a == IF j < i THEN j ELSE j + 1
               b == IF k < i THEN k ELSE k + 1
    <3>1. a \in 1..N /\ b \in 1..N /\ a < b
      BY <2>1, <1>2
    <3>2. net'[j] = net[a] /\ net'[k] = net[b]
      BY <1>7
    <3> HIDE DEF a, b
    <3> QED BY <3>1, <3>2, <1>2, Zenon
  <2>2. ASSUME NEW d, d # e, NEW j \in 1..N, net[j] = d
        PROVE  \E k \in 1..(N - 1) : net'[k] = d
    <3> DEFINE k == IF j < i THEN j ELSE j - 1
    <3>1. j # i
      BY <2>2 DEF e
    <3>2. i \in 1..N
      BY DEF N
    <3>3. k \in 1..(N - 1) /\ (k < i <=> j < i) /\ (~(j < i) => k + 1 = j)
      BY <3>1, <3>2, <1>2, SMTT(20)
    <3>4. net'[k] = net[j]
      BY <3>3, <1>7
    <3> QED BY <3>3, <3>4, <2>2, SMTT(20)
  <2>3. ASSUME NEW d \in Datagrams
        PROVE  /\ fate'[d] \in {"unsent", "queued", "dispatching", "handled"}
               /\ fate'[d] # "unsent" => d =< L
               /\ d =< L => \/ d \in lost \/ fate'[d] # "unsent"
                            \/ \E k \in 1..(N - 1) : net'[k] = d
    <3>1. CASE d = e
      <4>1. fate'[d] = "queued" /\ d =< L
        BY <3>1, <1>2, <1>3, <1>6, SMTT(20)
      <4> QED BY <4>1
    <3>2. CASE d # e
      <4>1. fate'[d] = fate[d]
        BY <3>2, <1>6, Zenon
      <4> QED BY <4>1, <3>2, <2>2, Zenon DEF Order, OnItsWay, L, N
    <3> QED BY <3>1, <3>2
  <2> QED BY <2>1, <2>3, <1>1, <1>7, Zenon DEF OnItsWay, L, Datagrams
<1>10. OneSocket'
  <2>1. \A r \in Servers : inbox'[r] # <<>> => port[r] # NULL
    BY <1>4, <1>6, Zenon DEF Order, OneSocket
  <2> QED BY <2>1, <1>1, <1>4, Zenon DEF Order, OneSocket
<1>11. InOrder'
  <2>1. \A k \in 1..(N - 1) : \E j \in 1..N : j # i /\ net'[k] = net[j]
    <3> SUFFICES ASSUME NEW k \in 1..(N - 1)
                 PROVE  \E j \in 1..N : j # i /\ net'[k] = net[j]
      OBVIOUS
    <3> DEFINE j == IF k < i THEN k ELSE k + 1
    <3>1. j \in 1..N /\ j # i
      BY <1>2
    <3>2. net'[k] = net[j]
      BY <1>7
    <3> QED BY <3>1, <3>2
  <2>2. ASSUME NEW d \in Datagrams, d < e, Nr(d) # 5, NEW j \in 1..N, net[j] = d
        PROVE  FALSE
    <3>1. j < i
      BY <2>2, <1>2, <1>3, SMTT(20) DEF e, N
    <3>2. content[d].late
      BY <3>1, <2>2, <1>1, <1>2
    <3>3. content[d] = OnWire(Nr(d)) /\ Nr(d) \in 1..7
      <4>1. d \in 1..L
        BY <2>2, <1>2
      <4> QED BY <4>1, NrIs, SendsAre, Zenon DEF Written, L
    <3>4. OnWire(Nr(d)).late = (Nr(d) = 5)
      BY Zenon DEF OnWire
    <3> QED BY <3>2, <3>3, <3>4, <2>2, Zenon
  <2>3. ASSUME NEW d \in Datagrams, NEW f \in Datagrams, d < f, Nr(d) # 5,
               fate'[f] # "unsent", NEW k \in 1..(N - 1), net'[k] = d
        PROVE  FALSE
    <3>1. PICK j \in 1..N : j # i /\ net[j] = d
      BY <2>1, <2>3, Zenon
    <3>2. CASE f = e
      BY <3>1, <3>2, <2>2, <2>3, Zenon
    <3>3. CASE f # e
      <4>1. fate[f] # "unsent"
        BY <3>3, <2>3, <1>6, Zenon
      <4> QED BY <4>1, <3>1, <2>3, Zenon DEF Order, InOrder, N
    <3> QED BY <3>2, <3>3
  <2>4. ASSUME NEW d \in Datagrams, NEW f \in Datagrams, d < f, Nr(d) # 5,
               fate'[f] \in {"dispatching", "handled"}
        PROVE  d \in lost \/ fate'[d] = "handled"
    <3>1. f # e /\ fate'[f] = fate[f]
      BY <2>4, <1>6
    <3>2. d \in lost \/ fate[d] = "handled"
      BY <3>1, <2>4, Zenon DEF Order, InOrder
    <3>3. fate[d] = "handled" => fate'[d] = "handled"
      BY <1>4, <1>6
    <3> QED BY <3>2, <3>3
  <2>5. ASSUME NEW r \in Servers, NEW j \in 1..Len(inbox'[r]),
               NEW k \in 1..Len(inbox'[r]), j < k, inbox'[r][k] < inbox'[r][j]
        PROVE  Nr(inbox'[r][k]) = 5
    <3> DEFINE q == inbox[s]
    <3>1. q \in Seq(Datagrams) /\ Len(q) \in Nat
      BY <1>5
    <3>2. /\ Len(Append(q, e)) = Len(q) + 1 /\ Append(q, e)[Len(q) + 1] = e
          /\ \A m \in 1..Len(q) : Append(q, e)[m] = q[m] /\ q[m] \in Datagrams
      BY <3>1, <1>3
    <3>3. CASE r # s
      <4>1. inbox'[r] = inbox[r]
        BY <3>3, <1>6, Zenon
      <4> QED BY <4>1, <2>5, ZenonT(30) DEF Order, InOrder
    <3>4. CASE r = s /\ k =< Len(q)
      <4>1. inbox'[r] = Append(q, e)
        BY <3>4, <1>6, Zenon
      <4>2. j \in 1..Len(q) /\ k \in 1..Len(q)
        BY <4>1, <3>1, <3>2, <3>4, <2>5, SMTT(20)
      <4>3. inbox'[r][j] = q[j] /\ inbox'[r][k] = q[k]
        BY <4>1, <4>2, <3>2, Zenon
      <4>4. q[k] < q[j]
        BY <4>3, <2>5, Zenon
      <4>5. Nr(q[k]) = 5
        BY <4>2, <4>4, <2>5, Zenon DEF Order, InOrder
      <4> QED BY <4>3, <4>5, Zenon
    <3>5. CASE r = s /\ ~(k =< Len(q))
      <4>0. inbox'[r] = Append(q, e)
        BY <3>5, <1>6, Zenon
      <4>1. /\ k = Len(q) + 1 /\ j \in 1..Len(q)
            /\ inbox'[r][k] = e /\ inbox'[r][j] = q[j] /\ q[j] \in Datagrams
        <5>1. k = Len(q) + 1 /\ j \in 1..Len(q)
          BY <4>0, <3>1, <3>2, <3>5, <2>5, SMTT(20)
        <5> QED BY <5>1, <4>0, <3>2, Zenon
      <4>2. fate[q[j]] = "queued"
        BY <4>1 DEF ReceiverSafe, InOnePlace
      <4>3. e < q[j] /\ net[i] = e /\ i \in 1..Len(net)
        BY <4>1, <2>5 DEF e
      <4> QED BY <4>1, <4>2, <4>3, <1>3, Zenon DEF Order, InOrder
    <3> QED BY <3>3, <3>4, <3>5
  <2> QED BY <2>3, <2>4, <2>5, <1>1, <1>7, Zenon DEF InOrder, Nr
<1>12. Quit'
  <2>1. fate[7] = "handled" => fate'[7] = "handled"
    BY <1>4, <1>6, SendsAre, SMTT(20)
  <2> QED BY <2>1, <1>1, KeepsQuit, SMTT(20) DEF Order
<1> QED BY <1>8, <1>9, <1>10, <1>11, <1>12, SMTT(20) DEF Order

\* What testSender() sends is taken by nobody yet.
LEMMA SenderTraffic ==
    ASSUME Composing, Positioned, Written, Taken, Order,
           NEW next, Then(next), RunSender(next)
    PROVE  Taken' /\ Order'
<1>1. UNCHANGED <<port, inbox, work, fate, done, takenBy>>
  BY Zenon DEF RunSender, receiver
<1>2. Len(content) \in Nat /\ Len(content') \in Nat /\ Len(content) =< Len(content')
  BY ContentGrows, NewAre
<1>3. Sending /\ stage' \in {stage, next}
  <2>1. Sending
    BY DEF Then, Sending
  <2> QED BY <2>1, RunsOn, Zenon
<1>4. Taken'
  <2>1. takenBy' \in [Datagrams -> {"nobody", "Object", "TestReceiver"}]
    BY <1>1, Zenon DEF Taken
  <2>2. \A d \in Datagrams :
           /\ takenBy'[d] # "nobody" => d =< Len(content)
           /\ takenBy'[d] = "Object" => Sends[Nr(d)].path = "/object"
           /\ takenBy'[d] = "TestReceiver" => Sends[Nr(d)].path # "/object"
           /\ fate'[d] = "handled" => takenBy'[d] # "nobody"
    BY <1>1, Zenon DEF Taken
  <2>3. \A d \in Datagrams : d =< Len(content) => d =< Len(content')
    BY <1>2, SendsAre DEF Datagrams
  <2>4. \A t \in Servers \cup {User} : work'[t] # NULL /\ work'[t].next > 1 =>
           Sends[Nr(work'[t].msg)].path # "/object"
    BY <1>1, Zenon DEF Taken
  <2> QED BY <2>1, <2>2, <2>3, <2>4, Zenon DEF Taken, Nr
<1>5. OnItsWay' /\ InOrder'
  BY SendsInOrder DEF Order
<1>6. stage' \notin {"setup", "poll", "start"}
  BY <1>3 DEF Then, Sending
<1>7. OneSocket' /\ Quit'
  BY <1>1, <1>6, KeepsSocket, KeepsQuit, SMTT(20) DEF Order
<1> QED BY <1>4, <1>5, <1>7 DEF Order

-----------------------------------------------------------------------------
(* The invariant.                                                          *)

\* What Inv says beyond the receiver.
Program == Control /\ Positioned /\ Composing /\ Written /\ Taken /\ Order

\* Before main() begins nothing is attached, composed or sent.
LEMMA InitProgram ==
    ASSUME Init
    PROVE  Program
<1>1. /\ stage = "setup" /\ line = 1 /\ word = 0 /\ done = FALSE
      /\ content = <<>> /\ net = <<>> /\ lost = {}
      /\ takenBy = [d \in Datagrams |-> "nobody"]
      /\ m_address = NULL /\ S!Init /\ R!Init
  BY DEF Init
<1>2. /\ m_isRunning = FALSE /\ m_ignoreMessages = FALSE /\ m_objects = <<>>
      /\ rlife = "alive" /\ call = "none" /\ existing = {TheObject}
      /\ rret = [op |-> "construct", val |-> "none"]
      /\ port = [s \in Servers |-> NULL] /\ inbox = [s \in Servers |-> <<>>]
      /\ work = [t \in Servers \cup {User} |-> NULL]
      /\ fate = [d \in Datagrams |-> "unsent"]
  BY <1>1, Zenon DEF R!Init, R!Threads
<1>3. /\ m_bundles = <<>> /\ ~m_bundleInProgress /\ slife = "alive"
      /\ args = [m \in Messages |-> <<>>] /\ elems = [b \in Bundles |-> <<>>]
      /\ stamp = [b \in Bundles |-> "immediate"]
  BY <1>1, Zenon DEF S!Init
<1>4. Control
  <2>1. rret.val # "ReceiveException"
    BY <1>2
  <2> QED BY <1>1, <1>2, <2>1, SMTT(20) DEF Control, Stages
<1>5. Positioned
  BY <1>1 DEF Positioned, Sending, BuildLines
<1>6. Composing
  <2>1. Heap
    <3>1. \A A : <<>> \in Seq(A)
      OBVIOUS
    <3> QED BY <1>3, <3>1 DEF Heap
  <2>2. MessageSoFar
    BY <1>1 DEF MessageSoFar, BuildLines, SendLines
  <2>3. BundlesSoFar
    BY <1>1, <1>3 DEF BundlesSoFar
  <2> QED BY <1>1, <1>3, <2>1, <2>2, <2>3, SMTT(20) DEF Composing
<1>7. Len(content) = 0 /\ Len(net) = 0
  BY <1>1
<1>8. Written
  <2> DEFINE W == {OnWire(n) : n \in 1..7}
  <2> HIDE DEF W
  <2>1. content \in Seq(W)
    BY <1>1, SMTT(20)
  <2> QED BY <1>1, <1>7, <2>1 DEF Written, W, Sending
<1>9. Taken
  BY <1>1, <1>2, SMTT(20) DEF Taken
<1>10. OnItsWay
  BY <1>1, <1>2, <1>7, SendsAre, SMTT(20) DEF OnItsWay
<1>11. OneSocket
  BY <1>1, <1>2 DEF OneSocket
<1>12. InOrder
  <2>1. \A s \in Servers : Len(inbox[s]) = 0
    BY <1>2
  <2> QED BY <1>2, <2>1 DEF InOrder
<1>13. Quit
  BY <1>1, Zenon DEF Quit
<1> QED BY <1>4, <1>5, <1>6, <1>8, <1>9, <1>10, <1>11, <1>12, <1>13 DEF Program, Order

\* A step of testSender().
LEMMA SenderProgram ==
    ASSUME Inv, NEW next, Then(next), RunSender(next)
    PROVE  Program'
<1>1. Sending
  BY DEF Then, Sending
<1>2. Positioned' /\ Composing' /\ Written'
  BY <1>1, RunsOn, Composes, WritesOn, SMTT(20) DEF Inv
<1>3. Control' /\ Taken' /\ Order'
  BY RunSenderControl, SenderTraffic DEF Inv
<1> QED BY <1>2, <1>3 DEF Program

\* A step that leaves the sender alone.
LEMMA OtherProgram ==
    ASSUME Inv, UNCHANGED <<sender, script, content>>, Onward,
           Control', Taken', Order'
    PROVE  Program'
<1>1. Composing'
  BY KeepsSender DEF Inv
<1>2. Positioned' /\ Written'
  BY KeepsPlace DEF Inv
<1> QED BY <1>1, <1>2 DEF Program

\* A callback, in either thread.
LEMMA DispatchProgram ==
    ASSUME Inv, NEW t \in Servers \cup {User}, Dispatch(t)
    PROVE  Program'
<1>1. done \in BOOLEAN /\ OnItsWay
  BY DEF Inv, Order, Quit
<1>2. UNCHANGED <<sender, script, content>> /\ stage' = stage
  BY <1>1, DispatchIs, Zenon DEF Inv, wire
<1>3. Control' /\ Onward
  BY <1>1, <1>2, DispatchControl DEF Inv, Onward
<1>4. Taken' /\ Order'
  BY DispatchTraffic DEF Inv
<1> QED BY <1>2, <1>3, <1>4, OtherProgram, SMTT(20)

\* A step of main().
LEMMA MainProgram ==
    ASSUME Inv, MainStep
    PROVE  Program'
<1>1. CASE SendToPoll \/ SendToThread
  BY <1>1, SenderProgram DEF SendToPoll, SendToThread, Then
<1>2. CASE Setup
  <2>1. UNCHANGED <<sender, script, content>>
    BY <1>2 DEF Setup, Main, wire
  <2> QED BY <1>2, <2>1, SetupControl, SetupTraffic, OtherProgram, SMTT(20) DEF Inv
<1>3. CASE Poll
  <2>1. UNCHANGED <<sender, script, content>>
    BY <1>3, Zenon DEF Poll, Main, wire
  <2> QED BY <1>3, <2>1, PollControl, PollTraffic, OtherProgram DEF Inv
<1>4. CASE Silent
  <2>1. UNCHANGED <<sender, script, content>>
    BY <1>4, Zenon DEF Silent, Attach, BeginPoll, EndPoll, Start, Started, Stop,
                       Leave, DestroyObject, DestroyReceiver, Main, wire
  <2>2. Control' /\ Onward
    BY <1>4, AttachControl, BeginPollControl, EndPollControl, StartControl,
       StartedControl, StopControl, LeaveControl, DestroyObjectControl, Zenon DEF Silent, Inv
  <2> QED BY <1>4, <2>1, <2>2, SilentTraffic, OtherProgram, SMTT(20) DEF Inv
<1>5. CASE Dispatch(User)
  BY <1>5, DispatchProgram
<1> QED BY <1>1, <1>2, <1>3, <1>4, <1>5, Zenon DEF MainStep, Silent

\* The loop of the server thread, and the network.
LEMMA WorldProgram ==
    ASSUME Inv, Deliver \/ \E s \in Servers : ServerStep(s)
    PROVE  Program'
<1>1. CASE Deliver
  <2>1. PICK s \in Servers, i \in 1..Len(net) :
           /\ R!Arrive(s, net[i])
           /\ UNCHANGED <<sender, stage, script, content>>
    BY <1>1, Zenon DEF Deliver
  <2>2. Control' /\ Onward
    BY <2>1, ArriveControl DEF Inv, Onward
  <2> QED BY <1>1, <2>1, <2>2, DeliverTraffic, OtherProgram DEF Inv
<1>2. ASSUME NEW s \in Servers, ServerStep(s)
      PROVE  Program'
  <2>1. CASE Dispatch(s)
    BY <2>1, DispatchProgram
  <2>2. CASE /\ R!ServerCheck(s) \/ R!ServerRecv(s)
             /\ UNCHANGED <<sender, stage, script, done, wire, takenBy>>
    <3>1. UNCHANGED <<sender, stage, script, done, content, net, lost, takenBy>>
      BY <2>2, Zenon DEF wire
    <3>2. Control' /\ Onward
      BY <2>2, <3>1, ServerControl, SMTT(20) DEF Inv, Onward
    <3>3. Taken' /\ Order'
      BY <2>2, <3>1, ServerTraffic DEF Inv
    <3> QED BY <3>1, <3>2, <3>3, OtherProgram, SMTT(20)
  <2> QED BY <1>2, <2>1, <2>2 DEF ServerStep
<1> QED BY <1>1, <1>2

\* Every step keeps what the invariant says of the program.
LEMMA StepProgram ==
    ASSUME Inv, [Next]_vars
    PROVE  Program'
<1>1. CASE Next
  BY <1>1, MainProgram, WorldProgram, SMTT(20) DEF Next
<1>2. CASE UNCHANGED vars
  <2>1. /\ UNCHANGED <<sender, script, stage, done, content, net, lost, takenBy>>
        /\ UNCHANGED <<m_isRunning, m_serverThread, call, m_objects, existing,
                       m_ignoreMessages, rlife, rret, port, inbox, work, fate>>
    BY <1>2, Zenon DEF vars, wire, receiver
  <2>2. Control' /\ Onward
    BY <2>1, KeepsControl, SMTT(20) DEF Inv, Onward, control
  <2>3. Taken' /\ Order'
    BY <2>1, KeepsTraffic, KeepsSocket, KeepsQuit DEF Inv, Order
  <2> QED BY <2>1, <2>2, <2>3, OtherProgram, SMTT(20)
<1> QED BY <1>1, <1>2

-----------------------------------------------------------------------------
(* main() is a client of the receiver.                                     *)

\* The steps of the receiver that the program takes.
SetsUp == R!setup(9990)
ReceiverStep ==
    \/ SetsUp \/ R!addOscObject(TheObject) \/ R!handleMessages
    \/ R!start \/ R!LeaveStart \/ R!stop \/ R!destroy \/ R!LeaveStop
    \/ TheObject \in existing /\ R!destroyObject(TheObject)
    \/ \E t \in Servers \cup {User} : R!processMessage(t)
    \/ \E s \in Servers : R!ServerCheck(s) \/ R!ServerRecv(s)
    \/ \E s \in Servers, d \in Datagrams : R!Arrive(s, d)

\* Every step of the program is a step of the receiver or leaves it alone.
LEMMA UsesReceiver ==
    ASSUME Inv, [Next]_vars
    PROVE  ReceiverStep \/ UNCHANGED receiver
<1>1. CASE Setup
  BY <1>1 DEF Setup, ReceiverStep, SetsUp
<1>2. CASE SendToPoll \/ SendToThread \/ BeginPoll \/ EndPoll
  BY <1>2, Zenon DEF SendToPoll, SendToThread, RunSender, BeginPoll, EndPoll
<1>3. CASE Attach \/ Poll \/ Start \/ Started \/ Stop \/ Leave \/ DestroyReceiver
  BY <1>3, Zenon DEF Attach, Poll, Start, Started, Stop, Leave, DestroyReceiver,
                     ReceiverStep
<1>4. CASE DestroyObject
  <2>1. TheObject \in existing
    BY <1>4 DEF DestroyObject, Inv, Control
  <2> QED BY <1>4, <2>1, Zenon DEF DestroyObject, ReceiverStep
<1>5. ASSUME NEW t \in Servers \cup {User}, Dispatch(t)
      PROVE  ReceiverStep
  BY <1>5, Zenon DEF Dispatch, ReceiverStep
<1>6. CASE Deliver
  <2>1. PICK s \in Servers, i \in 1..Len(net) : R!Arrive(s, net[i])
    BY <1>6, Zenon DEF Deliver
  <2>2. net[i] \in Datagrams
    <3>1. /\ net \in Seq(1..Len(content)) /\ Len(content) \in Nat
          /\ Len(content) =< 14
      BY DEF Inv, Order, OnItsWay, Written
    <3>2. net[i] \in 1..Len(content)
      BY <3>1, SMTT(20)
    <3>3. Datagrams = 1..14
      BY SendsAre
    <3>4. \A n \in Nat : n =< 14 => 1..n \subseteq 1..14
      OBVIOUS
    <3> QED BY <3>1, <3>2, <3>3, <3>4, Zenon
  <2> QED BY <2>1, <2>2, Zenon DEF ReceiverStep
<1>7. ASSUME NEW s \in Servers, ServerStep(s)
      PROVE  ReceiverStep
  BY <1>5, <1>7, Zenon DEF ServerStep, ReceiverStep
<1>8. CASE UNCHANGED vars
  BY <1>8, Zenon DEF vars
<1> QED BY <1>1, <1>2, <1>3, <1>4, <1>5, <1>6, <1>7, <1>8, Zenon DEF Next, MainStep

\* As OscReceiver says it.
LEMMA ReceiverSteps ==
    ASSUME Inv, [Next]_vars
    PROVE  [R!Next]_(R!vars)
<1>1. UNCHANGED receiver => UNCHANGED R!vars
  BY Zenon DEF receiver, R!vars, R!members, R!liblo, R!messages
<1>2. \/ R!setup(9990) \/ R!addOscObject(TheObject) \/ R!handleMessages
      \/ R!start \/ R!stop \/ R!destroy
      \/ TheObject \in existing /\ R!destroyObject(TheObject)
      => R!UserCall
  BY DEF R!UserCall
<1>3. SetsUp => R!UserCall
  BY <1>2 DEF SetsUp
<1>4. \/ R!addOscObject(TheObject) \/ R!handleMessages
      \/ R!start \/ R!stop \/ R!destroy
      \/ TheObject \in existing /\ R!destroyObject(TheObject)
      => R!UserCall
  BY <1>2
<1>5. ReceiverStep => R!Next
  BY <1>3, <1>4, Zenon DEF ReceiverStep, R!Next, R!UserStep, R!ServerStep
<1> QED BY <1>1, <1>5, UsesReceiver, Zenon

-----------------------------------------------------------------------------
(* What the invariant says of messages that were handled.                  *)

\* What is handled was sent, and taken by the callback for its address pattern.
LEMMA InvHandled ==
    ASSUME Inv
    PROVE  HandledAsWritten
<1> SUFFICES ASSUME NEW d \in Datagrams, takenBy[d] # "nobody"
             PROVE  /\ content[d].path = Sends[Nr(d)].path
                    /\ content[d].types = Sends[Nr(d)].types
                    /\ takenBy[d] = IF content[d].path = "/object"
                                    THEN "Object" ELSE "TestReceiver"
  BY Zenon DEF HandledAsWritten
<1>1. /\ d =< Len(content)
      /\ takenBy[d] \in {"nobody", "Object", "TestReceiver"}
      /\ takenBy[d] = "Object" => Sends[Nr(d)].path = "/object"
      /\ takenBy[d] = "TestReceiver" => Sends[Nr(d)].path # "/object"
  BY Zenon DEF Inv, Taken
<1>2. d \in 1..Len(content)
  <2>1. Len(content) \in Nat /\ d \in 1..14
    BY SendsAre DEF Inv, Written
  <2> QED BY <1>1, <2>1, SMTT(20)
<1>3. content[d] = OnWire(Nr(d))
  BY <1>2, Zenon DEF Inv, Written
<1>4. content[d].path = Sends[Nr(d)].path /\ content[d].types = Sends[Nr(d)].types
  BY <1>3 DEF OnWire
<1> QED BY <1>1, <1>4, Zenon

\* When /quit is handled, so is what was sent before it and arrived.
LEMMA InvPolled ==
    ASSUME Inv
    PROVE  PollMissesNothing
<1> SUFFICES ASSUME stage = "start", NEW d \in 1..7
             PROVE  d \in lost \/ content[d].late \/ takenBy[d] # "nobody"
  BY SendsAre DEF PollMissesNothing
<1>1. fate[7] = "handled" /\ Len(content) = 7
  BY DEF Inv, Order, Quit, Written
<1>2. d \in Datagrams /\ 7 \in Datagrams /\ Nr(d) = d
  BY SendsAre, NrIs
<1>3. CASE d = 5
  <2>1. content[5] = OnWire(5)
    <3>1. content[5] = OnWire(Nr(5))
      BY <1>1 DEF Inv, Written
    <3> QED BY <1>2, <1>3, <3>1, SMTT(20)
  <2>2. OnWire(5).late
    BY Zenon DEF OnWire
  <2> QED BY <1>3, <2>1, <2>2, Zenon
<1>4. CASE d # 5
  <2>1. d = 7 \/ d < 7
    OBVIOUS
  <2>2. d \in lost \/ fate[d] = "handled"
    BY <1>1, <1>2, <1>4, <2>1, SMTT(20) DEF Inv, Order, InOrder
  <2> QED BY <1>2, <2>2, Zenon DEF Inv, Taken
<1> QED BY <1>3, <1>4, SMTT(20)

\* As OscReceiverProofs says it.
RP == INSTANCE OscReceiverProofs WITH
         Ports <- {9990}, Objects <- {TheObject}, MaxAttached <- 1,
         life <- rlife, ret <- rret

\* R and RP are the same receiver.
LEMMA SameInvariant ==
    ReceiverSafe <=> RP!RInv /\ RP!InOnePlace
<1>1. R!TypeOK <=> RP!TypeOK
  BY DEF R!TypeOK, RP!TypeOK, R!Blocking, RP!Blocking, R!Ops, RP!Ops,
         R!Results, RP!Results, R!Fates, RP!Fates, R!Work, RP!Work,
         R!Threads, RP!Threads
<1>2. R!ThreadsAccounted <=> RP!ThreadsAccounted
  BY Zenon DEF R!ThreadsAccounted, RP!ThreadsAccounted, R!Blocking, RP!Blocking
<1>3. WorkPlaced <=> RP!WorkPlaced
  BY Zenon DEF WorkPlaced, RP!WorkPlaced
<1>4. InOnePlace <=> RP!InOnePlace
  BY ZenonT(30) DEF InOnePlace, RP!InOnePlace, R!Threads, RP!Threads
<1> QED BY <1>1, <1>2, <1>3, <1>4, Zenon DEF ReceiverSafe, RP!RInv

\* They take the same steps.
LEMMA SameSteps ==
    ASSUME ReceiverStep
    PROVE  RP!Next
<1>1. SetsUp => RP!setup(9990)
  BY DEF SetsUp, R!setup, RP!setup, R!Setup, RP!Setup, R!UserReady, RP!UserReady,
         R!Returns, RP!Returns, R!errorCB, RP!errorCB, R!InUse, RP!InUse,
         R!members, RP!members, R!messages, RP!messages
<1>2. R!addOscObject(TheObject) => RP!addOscObject(TheObject)
  BY Zenon DEF R!addOscObject, RP!addOscObject, R!Mutate, RP!Mutate, R!Nothing,
               RP!Nothing, R!UserReady, RP!UserReady, R!Returns, RP!Returns,
               R!Iterating, RP!Iterating, R!members, RP!members, R!liblo,
               RP!liblo, R!messages, RP!messages, R!added, RP!added
<1>3. R!handleMessages => RP!handleMessages
  BY Zenon DEF R!handleMessages, RP!handleMessages, R!UserReady, RP!UserReady,
               R!Returns, RP!Returns, R!errorCB, RP!errorCB, R!Receive,
               RP!Receive, R!members, RP!members, R!liblo, RP!liblo,
               R!messages, RP!messages
<1>4. (R!start => RP!start) /\ (R!LeaveStart => RP!LeaveStart)
  BY Zenon DEF R!start, RP!start, R!LeaveStart, RP!LeaveStart, R!UserReady,
               RP!UserReady, R!Returns, RP!Returns, R!members, RP!members,
               R!liblo, RP!liblo, R!messages, RP!messages
<1>5. R!stop => RP!stop
  BY Zenon DEF R!stop, RP!stop, R!EnterStop, RP!EnterStop, R!UserReady,
               RP!UserReady, R!members, RP!members, R!messages, RP!messages,
               R!liblo, RP!liblo
<1>6. R!destroy => RP!destroy
  BY Zenon DEF R!destroy, RP!destroy, R!EnterStop, RP!EnterStop, R!UserReady,
               RP!UserReady, R!members, RP!members, R!messages, RP!messages,
               R!liblo, RP!liblo
<1>7. R!LeaveStop => RP!LeaveStop
  BY Zenon DEF R!LeaveStop, RP!LeaveStop, R!Joined, RP!Joined, R!Blocking,
               RP!Blocking, R!Returns, RP!Returns, R!liblo, RP!liblo,
               R!messages, RP!messages
<1>8. R!destroyObject(TheObject) => RP!destroyObject(TheObject)
  BY Zenon DEF R!destroyObject, RP!destroyObject, R!UserReady, RP!UserReady,
               R!Returns, RP!Returns, R!members, RP!members, R!liblo, RP!liblo,
               R!messages, RP!messages
<1>9. \A t : R!processMessage(t) => RP!processMessage(t)
  BY Zenon DEF R!processMessage, RP!processMessage, R!ProcessBegin,
               RP!ProcessBegin, R!ProcessObject, RP!ProcessObject,
               R!ProcessSelf, RP!ProcessSelf, R!Finish, RP!Finish, R!Step,
               RP!Step, R!Undefined, RP!Undefined, R!Returns, RP!Returns,
               R!members, RP!members
<1>10. \A t : R!ServerCheck(t) => RP!ServerCheck(t)
  BY Zenon DEF R!ServerCheck, RP!ServerCheck, R!members, RP!members,
               R!messages, RP!messages
<1>11. \A t : R!ServerRecv(t) => RP!ServerRecv(t)
  BY Zenon DEF R!ServerRecv, RP!ServerRecv, R!Receive, RP!Receive, R!members,
               RP!members, R!messages, RP!messages
<1>12. \A s, d : R!Arrive(s, d) => RP!Arrive(s, d)
  BY Zenon DEF R!Arrive, RP!Arrive, R!members, RP!members, R!liblo, RP!liblo
<1>13. \/ RP!setup(9990) \/ RP!addOscObject(TheObject) \/ RP!handleMessages
       \/ RP!start \/ RP!stop \/ RP!destroy
       \/ TheObject \in existing /\ RP!destroyObject(TheObject)
       => RP!UserCall
  BY DEF RP!UserCall
<1>14. SetsUp => RP!UserCall
  BY <1>1, <1>13, SMTT(20)
<1>15. \/ RP!addOscObject(TheObject) \/ RP!handleMessages
       \/ RP!start \/ RP!stop \/ RP!destroy
       \/ TheObject \in existing /\ RP!destroyObject(TheObject)
       => RP!UserCall
  BY <1>13, SMTT(20)
<1> QED
  BY <1>2, <1>3, <1>4, <1>5, <1>6, <1>7, <1>8, <1>9, <1>10, <1>11, <1>12,
     <1>14, <1>15, Zenon
  DEF ReceiverStep, RP!Next, RP!UserStep, RP!ServerStep

\* The constants of the instance satisfy the assumptions of OscReceiver.
LEMMA InstanceConstants ==
    RP!ReceiverAssumption /\ RP!NoMessageAssumption
  BY ReceiverConstants, SMTT(20) DEF RP!ReceiverAssumption, RP!NoMessageAssumption

\* The invariant holds when main() begins.
LEMMA InitInv ==
    ASSUME Init
    PROVE  Inv
<1>1. R!Init
  BY Zenon DEF Init
<1>2. RP!Init
  BY <1>1, Zenon DEF R!Init, RP!Init, R!Threads, RP!Threads
<1>3. RP!RInv /\ RP!InOnePlace
  BY <1>2, InstanceConstants, RP!InitR, RP!InitPlaces, SMTT(20)
<1> QED BY <1>3, SameInvariant, InitProgram, Zenon DEF Program, Inv

\* Every step keeps the invariant.
LEMMA StepInv ==
    ASSUME Inv, [Next]_vars
    PROVE  Inv'
<1>1. [RP!Next]_(RP!vars)
  <2>1. UNCHANGED receiver => UNCHANGED RP!vars
    BY Zenon DEF receiver, RP!vars, RP!members, RP!liblo, RP!messages
  <2> QED BY <2>1, UsesReceiver, SameSteps, Zenon
<1>2. RP!RInv /\ RP!InOnePlace
  BY SameInvariant, Zenon DEF Inv
<1>3. RP!RInv' /\ RP!InOnePlace'
  BY <1>1, <1>2, InstanceConstants, RP!StepR, RP!StepInOnePlace
<1>4. ReceiverSafe'
  BY <1>3, SameInvariant, PTL
<1> QED BY <1>4, StepProgram, Zenon DEF Program, Inv

-----------------------------------------------------------------------------
(* Theorems.                                                               *)

\* Inv holds throughout.
LEMMA Invariant ==
    Spec => []Inv
<1> QED BY InitInv, StepInv, PTL DEF Spec

\* No accessor or call of the test program throws, and nothing it does is
\* undefined, whatever is lost, late or interleaved, and although main()
\* destroys the object before the receiver that points to it.  Only the
\* receiver's own exceptions, from setup() or in its thread, end it early.
THEOREM TestProgramRunsClean ==
    Spec => []RunsClean
<1>1. Inv => RunsClean
  BY Zenon DEF Inv, Composing, Control, RunsClean
<1> QED BY <1>1, Invariant, PTL

\* Every message that is handled was written by testSender() just so, came
\* through its bundles in its place, and went to the class it was meant for.
THEOREM MessagesHandledAsWritten ==
    Spec => []HandledAsWritten
<1> QED BY InvHandled, Invariant, PTL

\* poll() ends only when all that was sent before /quit is handled, but for what
\* was lost and what was held back: the messages of testSender() go through one
\* socket, and nothing overtakes anything on the way.
THEOREM PollHandlesAllBeforeQuit ==
    Spec => []PollMissesNothing
<1> QED BY InvPolled, Invariant, PTL

\* The test program uses the receiver only in ways OscReceiver provides for, so
\* that all that is shown of every client holds of it.
THEOREM TestProgramIsClient ==
    Spec => R!Spec
<1>1. Init => R!Init
  BY Zenon DEF Init
<1> QED BY <1>1, ReceiverSteps, Invariant, PTL DEF Spec, R!Spec
=============================================================================
