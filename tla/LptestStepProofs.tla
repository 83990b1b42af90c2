-------------------------- MODULE LptestStepProofs --------------------------
(***************************************************************************)
(* Steps of the test program, for LptestProofs: testSender() sends what it *)
(* wrote, in order (Written, OnItsWay, InOrder); the callbacks take and can*)
(* read what they get (Taken, DispatchIs); and main() is where the receiver*)
(* and the object let it be (Control).                                     *)
(*                                                                         *)
(* ReceiverSafe is what OscReceiverProofs shows of every client.           *)
(***************************************************************************)
EXTENDS LptestSenderProofs

Stages == {"setup", "attach", "testSender", "beginPoll", "poll", "start",
           "starting", "testSenderAgain", "stop", "stopping", "unwind", "destroy",
           "destroying", "returned", "terminated"}

-----------------------------------------------------------------------------
(* main() and the receiver.                                                *)

\* As in OscReceiverProofs: a thread that dispatches is where it can.
WorkPlaced ==
    /\ \A s \in Servers : work[s] # NULL => thread[s] = "recv"
    /\ work[User] # NULL => call = "handleMessages"
    /\ call = "handleMessages" => ~m_isRunning

\* As there: where a datagram is that arrived.
InOnePlace ==
    \A d \in Datagrams :
        /\ fate[d] = "dispatching" <=> \E t \in R!Threads : work[t] # NULL
                                                       /\ work[t].msg = d
        /\ fate[d] = "queued" <=>
              \E s \in Servers : \E i \in 1..Len(inbox[s]) : inbox[s][i] = d
        /\ \A r, s \in Servers :
              \A i \in 1..Len(inbox[r]), j \in 1..Len(inbox[s]) :
                 inbox[r][i] = d /\ inbox[s][j] = d => r = s /\ i = j

ReceiverSafe == R!TypeOK /\ R!ThreadsAccounted /\ WorkPlaced /\ InOnePlace

\* The thread may run only between start() and stop(), where the object is
\* attached and exists; a call of the receiver is in progress only where main()
\* waits for it.
Control ==
    /\ stage \in Stages
    /\ stage \in Stages \ {"testSenderAgain", "stop", "stopping"} => ~m_isRunning
    /\ m_serverThread = NULL => ~m_isRunning
    /\ \/ call = "none"
       \/ stage = "poll" /\ call = "handleMessages"
       \/ stage = "starting" /\ call = "start"
       \/ stage = "stopping" /\ call = "stop"
       \/ stage = "destroying" /\ call = "destroy"
    /\ m_objects = IF stage \in {"setup", "attach", "terminated"}
                   THEN <<>> ELSE <<TheObject>>
    /\ stage \notin {"destroy", "destroying", "returned"} => existing = {TheObject}
    /\ ~m_ignoreMessages
    /\ rlife # "undefined"
    /\ stage = "terminated" =>
          rret = [op |-> "setup", val |-> "ReceiveException"]
    /\ stage \notin {"terminated", "unwind"} => rret.val # "ReceiveException"

-----------------------------------------------------------------------------
(* What was sent, and what became of it.                                   *)

\* How many messages were sent before this run of testSender().
Base == IF stage = "testSenderAgain" THEN 7 ELSE 0

Written ==
    /\ content \in Seq({OnWire(n) : n \in 1..7})
    /\ \A d \in 1..Len(content) : content[d] = OnWire(Nr(d))
    /\ stage \in {"setup", "attach", "terminated"} => Len(content) = 0
    /\ Sending => Len(content) = Base + SentBefore[line]
    /\ stage \in {"beginPoll", "poll", "start", "starting"} => Len(content) = 7
    /\ Len(content) =< 14

Taken ==
    /\ takenBy \in [Datagrams -> {"nobody", "Object", "TestReceiver"}]
    /\ \A d \in Datagrams :
          /\ takenBy[d] # "nobody" => d =< Len(content)
          /\ takenBy[d] = "Object" => Sends[Nr(d)].path = "/object"
          /\ takenBy[d] = "TestReceiver" => Sends[Nr(d)].path # "/object"
          /\ fate[d] = "handled" => takenBy[d] # "nobody"
    /\ \A t \in Servers \cup {User} : work[t] # NULL /\ work[t].next > 1 =>
          Sends[Nr(work[t].msg)].path # "/object"

\* Every message is lost, on its way, or past it.
OnItsWay ==
    /\ net \in Seq(1..Len(content))
    /\ \A i, j \in 1..Len(net) : i < j => net[i] < net[j]
    /\ \A d \in Datagrams :
          /\ fate[d] \in {"unsent", "queued", "dispatching", "handled"}
          /\ fate[d] # "unsent" => d =< Len(content)
          /\ d =< Len(content) =>
                \/ d \in lost \/ fate[d] # "unsent"
                \/ \E i \in 1..Len(net) : net[i] = d

\* When a message is past the network, its queue or its dispatch, those before
\* it that are not held back are too.
InOrder ==
    /\ \A d, e \in Datagrams : d < e /\ Nr(d) # 5 =>
          /\ fate[e] # "unsent" => \A i \in 1..Len(net) : net[i] # d
          /\ fate[e] \in {"dispatching", "handled"} =>
                d \in lost \/ fate[d] = "handled"
    /\ \A s \in Servers : \A i, j \in 1..Len(inbox[s]) :
          i < j /\ inbox[s][j] < inbox[s][i] => Nr(inbox[s][j]) = 5

\* All messages take the same socket.
OneSocket ==
    /\ stage = "setup" => \A s \in Servers : port[s] = NULL
    /\ \A r, s \in Servers : port[r] # NULL /\ port[s] # NULL => r = s
    /\ \A s \in Servers : inbox[s] # <<>> => port[s] # NULL

\* Nothing but /quit ends the poll.
Quit ==
    /\ done \in BOOLEAN
    /\ (stage = "poll" /\ done) \/ stage = "start" => fate[7] = "handled"

Order == OnItsWay /\ OneSocket /\ InOrder /\ Quit

-----------------------------------------------------------------------------
(* Sequences.                                                              *)

\* A sequence whose elements are all in B.
LEMMA Widened ==
    ASSUME NEW A, NEW B, NEW s \in Seq(A), \A i \in 1..Len(s) : s[i] \in B
    PROVE  s \in Seq(B)
  OBVIOUS

\* A queue without its head.
LEMMA TailIs ==
    ASSUME NEW A, NEW q \in Seq(A), q # <<>>
    PROVE  /\ q[1] \in A /\ Head(q) = q[1] /\ Len(q) \in Nat /\ Len(q) >= 1
           /\ Tail(q) \in Seq(A) /\ Len(Tail(q)) = Len(q) - 1
           /\ \A i \in 1..Len(Tail(q)) : Tail(q)[i] = q[i + 1] /\ i + 1 \in 1..Len(q)
  OBVIOUS

\* q without its i-th element.
Without(q, i) == SubSeq(q, 1, i - 1) \o SubSeq(q, i + 1, Len(q))

\* What is left when element i is taken out.
LEMMA WithoutIs ==
    ASSUME NEW A, NEW q \in Seq(A), NEW i \in 1..Len(q)
    PROVE  /\ Without(q, i) \in Seq(A) /\ Len(Without(q, i)) = Len(q) - 1
           /\ \A k \in 1..(Len(q) - 1) :
                 Without(q, i)[k] = IF k < i THEN q[k] ELSE q[k + 1]
<1> DEFINE a == SubSeq(q, 1, i - 1)
           b == SubSeq(q, i + 1, Len(q))
<1>0. a \in Seq(A) /\ b \in Seq(A)
  OBVIOUS
<1>1. /\ Len(a) = i - 1
      /\ \A k \in 1..(i - 1) : a[k] = q[k]
  OBVIOUS
<1>2. /\ Len(b) = Len(q) - i
      /\ \A k \in 1..(Len(q) - i) : b[k] = q[i + k]
  OBVIOUS
<1> HIDE DEF a, b
<1>3. /\ a \o b \in Seq(A) /\ Len(a \o b) = Len(a) + Len(b)
      /\ \A k \in 1..Len(a) : (a \o b)[k] = a[k]
      /\ \A k \in 1..Len(b) : (a \o b)[Len(a) + k] = b[k]
  BY <1>0
<1>4. Len(a \o b) = Len(q) - 1
  BY <1>1, <1>2, <1>3
<1>5. ASSUME NEW k \in 1..(Len(q) - 1)
      PROVE  (a \o b)[k] = IF k < i THEN q[k] ELSE q[k + 1]
  <2>1. CASE k < i
    BY <2>1, <1>1, <1>3
  <2>2. CASE ~(k < i)
    <3> DEFINE m == k - i + 1
    <3>1. /\ m \in 1..Len(b) /\ m \in 1..(Len(q) - i)
          /\ Len(a) + m = k /\ i + m = k + 1
      BY <2>2, <1>1, <1>2
    <3> HIDE DEF m
    <3>2. (a \o b)[k] = b[m]
      BY <3>1, <1>3, Zenon
    <3>3. b[m] = q[k + 1]
      BY <3>1, <1>2, Zenon
    <3> QED BY <2>2, <3>2, <3>3
  <2> QED BY <2>1, <2>2, Zenon
<1> QED BY <1>3, <1>4, <1>5, Zenon DEF a, b, Without

-----------------------------------------------------------------------------
(* The network, when testSender() sends.                                   *)

\* The messages a statement sends.
New ==
    IF line \in SendLines THEN <<OnWire(MessageAt[line])>>
    ELSE IF line = 15 THEN <<OnWire(4), OnWire(5)>> ELSE <<>>

Ids == [i \in 1..Len(New) |-> Len(content) + i]

\* They go onto the wire together, or are lost together.
LEMMA WhatIsSent ==
    ASSUME Composing, Positioned, NEW then, RunSender(then)
    PROVE  \/ New = <<>> /\ UNCHANGED wire
           \/ /\ content' = content \o New
              /\ \/ lost' = lost \cup {Ids[i] : i \in 1..Len(Ids)} /\ net' = net
                 \/ net' = net \o Ids /\ lost' = lost
<1>1. Perform(testSender[line]) /\ line \in 1..20
  BY DEF RunSender, Positioned
<1>2. CASE line \in SendLines \cup {15}
  <2>1. Send
    BY <1>1, <1>2, ScriptIs, Performed, Zenon
  <2>2. ~S!CannotSend
    BY <1>2, ReadyToSend
  <2>3. Unpacked(S!Packet) = New
    <3>1. 15 \notin SendLines
      BY DEF SendLines
    <3> QED BY <3>1, <1>2, UnpackedAlone, UnpackedNest, Zenon DEF New
  <2>4. LET new == Unpacked(S!Packet)
            ids == [i \in 1..Len(new) |-> Len(content) + i]
        IN  /\ content' = content \o new
            /\ IF sent' = NULL
               THEN /\ lost' = lost \cup {ids[i] : i \in 1..Len(ids)}
                    /\ UNCHANGED net
               ELSE net' = net \o ids /\ UNCHANGED lost
    BY <2>1, <2>2, Zenon DEF Send
  <2> QED BY <2>3, <2>4, Zenon DEF Ids
<1>3. CASE line \notin SendLines \cup {15}
  <2>1. UNCHANGED wire
    <3>1. CASE line \in BuildLines
      <4>1. testSender[line] = <<"message", MessageAt[line]>>
        BY <3>1, ScriptIs, Zenon
      <4> QED BY <4>1, <1>1, Performed, Zenon
    <3>2. CASE line \notin BuildLines
      <4>1. line \in {1, 2, 9, 11, 13, 14, 20}
        BY <1>1, <1>3, <3>2 DEF BuildLines, SendLines
      <4> QED BY <4>1, <1>1, ScriptIs, Performed, Zenon
    <3> QED BY <3>1, <3>2
  <2> QED BY <1>3, <2>1, Zenon DEF New
<1> QED BY <1>2, <1>3

\* The messages in New are the next ones of the script.
LEMMA NewAre ==
    ASSUME Positioned
    PROVE  /\ New \in Seq({OnWire(n) : n \in 1..7})
           /\ \A i \in 1..Len(New) : New[i] = OnWire(SentBefore[line] + i)
           /\ Len(New) \in Nat
           /\ SentBefore[line] \in 0..7 /\ SentBefore[line] + Len(New) =< 7
           /\ line # 20 => SentBefore[line + 1] = SentBefore[line] + Len(New)
           /\ line = 20 => SentBefore[line] = 7 /\ New = <<>>
           /\ line \in BuildLines => New = <<>>
<1> DEFINE W == {OnWire(n) : n \in 1..7}
<1>1. \A n \in 1..7 : OnWire(n) \in W
  OBVIOUS
<1> HIDE DEF W
<1>2. line \in 1..20
  BY DEF Positioned
<1>3. SentBefore[line] \in 0..7
  BY <1>2 DEF SentBefore
<1>4. CASE line \in SendLines
  <2>1. MessageAt[line] \in 1..7 /\ MessageAt[line] = SentBefore[line] + 1
    BY <1>4 DEF SendLines, MessageAt, SentBefore
  <2>2. /\ line # 20 /\ line \notin BuildLines
        /\ SentBefore[line + 1] = SentBefore[line] + 1
    BY <1>4 DEF SendLines, SentBefore, BuildLines
  <2>3. New = <<OnWire(SentBefore[line] + 1)>>
    BY <1>4, <2>1 DEF New
  <2>4. OnWire(SentBefore[line] + 1) \in W
    BY <1>1, <2>1
  <2>5. New \in Seq(W) /\ Len(New) = 1 /\ New[1] = OnWire(SentBefore[line] + 1)
    BY <2>3, <2>4
  <2> QED BY <1>3, <2>1, <2>2, <2>5 DEF W
<1>5. CASE line = 15
  <2>1. /\ SentBefore[line] = 3 /\ SentBefore[line + 1] = 5
        /\ line \notin BuildLines \cup SendLines
    BY <1>5 DEF SendLines, SentBefore, BuildLines
  <2>2. New = <<OnWire(4), OnWire(5)>>
    BY <1>5, <2>1 DEF New
  <2>3. OnWire(4) \in W /\ OnWire(5) \in W
    BY <1>1
  <2>4. New \in Seq(W) /\ Len(New) = 2 /\ New[1] = OnWire(4) /\ New[2] = OnWire(5)
    BY <2>2, <2>3
  <2>5. \A i \in 1..2 : New[i] = OnWire(3 + i)
    BY <2>4
  <2> QED BY <1>5, <2>1, <2>4, <2>5 DEF W
<1>6. CASE line \notin SendLines \cup {15}
  <2>1. New = <<>>
    BY <1>6 DEF New
  <2>2. line # 20 => SentBefore[line + 1] = SentBefore[line]
    BY <1>2, <1>6 DEF SendLines, SentBefore
  <2>3. line = 20 => SentBefore[line] = 7
    BY DEF SentBefore
  <2>4. New \in Seq(W) /\ Len(New) = 0
    BY <2>1
  <2> QED BY <1>3, <2>1, <2>2, <2>3, <2>4 DEF W
<1> QED BY <1>4, <1>5, <1>6

\* The two runs of testSender() send the same seven messages.
LEMMA NrIs ==
    /\ \A d \in 1..7 : Nr(d) = d /\ Nr(7 + d) = d
    /\ \A d \in 1..14 : Nr(d) \in 1..7
<1>1. \A d \in 1..7 : (d - 1) % 7 = d - 1 /\ (7 + d - 1) % 7 = d - 1
  OBVIOUS
<1>2. \A d \in 1..7 : Nr(d) = d /\ Nr(7 + d) = d
  BY <1>1, SendsAre DEF Nr
<1>3. \A d \in 1..14 : d \in 1..7 \/ (d - 7 \in 1..7 /\ d = 7 + (d - 7))
  OBVIOUS
<1> QED BY <1>2, <1>3

\* What main() does when testSender() returns.
Then(next) ==
    \/ stage = "testSender" /\ next = "beginPoll"
    \/ stage = "testSenderAgain" /\ next = "stop"

\* A statement adds what it sends to what was sent.
LEMMA ContentGrows ==
    ASSUME Composing, Positioned, Written, NEW next, RunSender(next)
    PROVE  /\ content' = content \o New
           /\ content' \in Seq({OnWire(n) : n \in 1..7})
           /\ Len(content') = Len(content) + Len(New) /\ Len(content) \in Nat
           /\ \A i \in 1..Len(content) : content'[i] = content[i]
           /\ \A i \in 1..Len(New) : content'[Len(content) + i] = New[i]
<1> DEFINE W == {OnWire(n) : n \in 1..7}
<1>1. content \in Seq(W) /\ New \in Seq(W)
  BY NewAre, Zenon DEF Written
<1> HIDE DEF W
<1>2. content' = content \o New
  <2>1. New = <<>> => content \o New = content
    BY <1>1
  <2> QED BY <2>1, WhatIsSent, Zenon DEF wire
<1>3. /\ content \o New \in Seq(W) /\ Len(content \o New) = Len(content) + Len(New)
      /\ Len(content) \in Nat
      /\ \A i \in 1..Len(content) : (content \o New)[i] = content[i]
      /\ \A i \in 1..Len(New) : (content \o New)[Len(content) + i] = New[i]
  BY <1>1
<1> QED BY <1>2, <1>3, Zenon DEF W

\* What goes onto the wire is the message that is due.
LEMMA WritesOn ==
    ASSUME Composing, Positioned, Written, NEW next, Then(next), RunSender(next)
    PROVE  Written'
<1> DEFINE L == Len(content)
           K == Len(New)
           B == SentBefore[line]
<1>1. Sending /\ L = Base + B /\ Base \in {0, 7}
  BY DEF Then, Sending, Written, Base
<1>2. /\ content' \in Seq({OnWire(n) : n \in 1..7})
      /\ Len(content') = L + K
      /\ \A i \in 1..L : content'[i] = content[i]
      /\ \A i \in 1..K : content'[L + i] = New[i]
  BY ContentGrows, Zenon
<1>3. /\ \A i \in 1..K : New[i] = OnWire(B + i)
      /\ K \in Nat /\ B \in 0..7 /\ B + K =< 7
      /\ line # 20 => SentBefore[line + 1] = B + K
      /\ line = 20 => B = 7 /\ K = 0
      /\ line \in BuildLines => K = 0
  BY NewAre
<1>4. stage' = IF line = 20 THEN next ELSE stage
  BY <1>1, RunsOn, Zenon
<1>5. /\ \A i \in 1..L : content[i] = OnWire(Nr(i))
  BY DEF Written
<1>6. /\ line \in BuildLines => line' \in {line, line + 1} /\ line # 20
      /\ line \notin BuildLines => line' = IF line = 20 THEN 1 ELSE line + 1
      /\ line \in 1..20
  BY ScriptMoves DEF Moved, BuildLines, Positioned
<1> HIDE DEF L, K, B
<1>7. \A i \in 1..K : Nr(L + i) = B + i
  BY <1>1, <1>3, NrIs
<1>8. \A d \in 1..(L + K) : content'[d] = OnWire(Nr(d))
  <2> SUFFICES ASSUME NEW d \in 1..(L + K)
               PROVE  content'[d] = OnWire(Nr(d))
    OBVIOUS
  <2>1. CASE d \in 1..L
    BY <2>1, <1>2, <1>5
  <2>2. CASE d \notin 1..L
    <3>1. d - L \in 1..K /\ d = L + (d - L)
      BY <1>1, <1>3, <2>2
    <3>2. content'[L + (d - L)] = OnWire(B + (d - L)) /\ Nr(L + (d - L)) = B + (d - L)
      BY <3>1, <1>2, <1>3, <1>7, Zenon
    <3> QED BY <3>1, <3>2
  <2> QED BY <2>1, <2>2
<1>9. \A d \in 1..Len(content') : content'[d] = OnWire(Nr(d))'
  BY <1>2, <1>8 DEF OnWire, Nr
<1>10. Len(content') =< 14
  BY <1>1, <1>2, <1>3
<1>11. CASE line = 20
  <2>1. /\ stage' = next /\ line' = 1 /\ SentBefore[1] = 0
        /\ next = "beginPoll" => Base = 0
        /\ next \in {"beginPoll", "stop"}
    BY <1>4, <1>6, <1>11 DEF Then, Base, BuildLines, SentBefore
  <2>2. next = "beginPoll" => Len(content') = 7
    BY <2>1, <1>1, <1>2, <1>3, <1>11, SMTT(20)
  <2> QED BY <2>1, <2>2, <1>2, <1>9, <1>10 DEF Written, Sending, OnWire
<1>12. CASE line # 20
  <2>1. stage' = stage /\ stage \in {"testSender", "testSenderAgain"} /\ Base' = Base
    BY <1>4, <1>12 DEF Then, Base
  <2>2. SentBefore[line'] = B + K
    BY <1>3, <1>6, <1>12 DEF B
  <2>3. Len(content') = Base + SentBefore[line']
    BY <2>2, <1>1, <1>2, <1>3
  <2> QED BY <2>1, <2>3, <1>2, <1>9, <1>10 DEF Written, OnWire
<1> QED BY <1>11, <1>12

\* What is sent is behind everything on its way.
LEMMA SendsInOrder ==
    ASSUME Composing, Positioned, Written, OnItsWay, InOrder,
           NEW next, RunSender(next)
    PROVE  OnItsWay' /\ InOrder'
<1> DEFINE L == Len(content)
           K == Len(New)
           N == Len(net)
<1>1. Len(content') = L + K /\ L \in Nat /\ K \in Nat
  BY ContentGrows, NewAre
<1>2. UNCHANGED <<fate, inbox>>
  BY DEF RunSender, receiver
<1>3. /\ Len(Ids) = K /\ \A i \in 1..K : Ids[i] = L + i
  BY <1>1 DEF Ids
<1>4. \/ lost' = lost \cup {Ids[i] : i \in 1..Len(Ids)} /\ net' = net
      \/ net' = net \o Ids /\ lost' = lost
  <2>1. CASE New = <<>>
    <3>1. Ids = <<>>
      BY <2>1 DEF Ids
    <3>2. net \in Seq(1..L)
      BY DEF OnItsWay
    <3>3. net \o Ids = net
      BY <3>1, <3>2
    <3> QED BY <3>3, <2>1, WhatIsSent, Zenon DEF wire
  <2>2. CASE New # <<>>
    BY <2>2, WhatIsSent, Zenon
  <2> QED BY <2>1, <2>2
<1>5. /\ net \in Seq(1..L) /\ N \in Nat
      /\ \A i \in 1..N : net[i] \in 1..L
      /\ \A i, j \in 1..N : i < j => net[i] < net[j]
  BY DEF OnItsWay
<1>6. Ids \in Seq(1..(L + K))
  BY <1>1 DEF Ids
<1> HIDE DEF L, K, N
<1>7. net \in Seq(1..(L + K))
  <2>1. \A i \in 1..N : net[i] \in 1..(L + K)
    BY <1>1, <1>5
  <2> QED BY <1>5, <2>1, Widened, Zenon DEF N
<1>8. CASE lost' = lost \cup {Ids[i] : i \in 1..Len(Ids)} /\ net' = net
  <2>1. \A d \in Datagrams : d =< L + K =>
           \/ d =< L \/ d \in lost'
    <3> SUFFICES ASSUME NEW d \in Datagrams, d =< L + K, ~(d =< L)
                 PROVE  d \in {Ids[i] : i \in 1..Len(Ids)}
      BY <1>8
    <3>1. d - L \in 1..K /\ d = L + (d - L)
      BY <1>1, SendsAre
    <3> QED BY <3>1, <1>3
  <2>2. OnItsWay'
    <3>1. \A d \in Datagrams : d =< L => d =< L + K
      BY <1>1, SendsAre
    <3> QED BY <3>1, <2>1, <1>1, <1>2, <1>7, <1>8, Zenon DEF OnItsWay, L, N, Datagrams
  <2>3. InOrder'
    BY <1>2, <1>8 DEF InOrder, Nr
  <2> QED BY <2>2, <2>3
<1>9. CASE net' = net \o Ids /\ lost' = lost
  <2>1. /\ Len(net') = N + K /\ net' \in Seq(1..(L + K))
        /\ \A i \in 1..N : net'[i] = net[i]
        /\ \A i \in 1..(N + K) : ~(i =< N) => net'[i] = L + (i - N)
    <3>1. /\ Len(net') = N + K /\ net' \in Seq(1..(L + K))
          /\ \A i \in 1..N : net'[i] = net[i]
          /\ \A i \in 1..K : net'[N + i] = Ids[i]
      <4> DEFINE D == 1..(L + K)
      <4>1. net \in Seq(D) /\ Ids \in Seq(D)
        BY <1>6, <1>7
      <4> HIDE DEF D
      <4>2. /\ net \o Ids \in Seq(D) /\ Len(net \o Ids) = Len(net) + Len(Ids)
            /\ \A i \in 1..Len(net) : (net \o Ids)[i] = net[i]
            /\ \A i \in 1..Len(Ids) : (net \o Ids)[Len(net) + i] = Ids[i]
        BY <4>1
      <4> QED BY <4>2, <1>3, <1>9, Zenon DEF N, D
    <3>2. \A i \in 1..(N + K) : ~(i =< N) => i - N \in 1..K /\ i = N + (i - N)
      BY <1>1, <1>5
    <3> QED BY <3>1, <3>2, <1>3, Zenon
  <2>2. \A i, j \in 1..(N + K) : i < j => net'[i] < net'[j]
    <3> SUFFICES ASSUME NEW i \in 1..(N + K), NEW j \in 1..(N + K), i < j
                 PROVE  net'[i] < net'[j]
      OBVIOUS
    <3>1. CASE j =< N
      <4>1. i \in 1..N /\ j \in 1..N
        BY <3>1, <1>5
      <4> QED BY <4>1, <2>1, <1>5
    <3>2. CASE i =< N /\ ~(j =< N)
      <4>1. i \in 1..N /\ net'[i] = net[i] /\ net'[j] = L + (j - N)
        BY <3>2, <2>1, <1>5
      <4>2. net[i] \in 1..L
        BY <4>1, <1>5
      <4> QED BY <4>1, <4>2, <3>2, <1>1, <1>5, SMTT(20)
    <3>3. CASE ~(i =< N) /\ ~(j =< N)
      <4>1. net'[i] = L + (i - N) /\ net'[j] = L + (j - N)
        BY <3>3, <2>1
      <4> QED BY <4>1, <1>1, <1>5
    <3> QED BY <3>1, <3>2, <3>3, <1>1, <1>5
  <2>3. \A d \in Datagrams : d =< L + K =>
           \/ d =< L \/ \E i \in 1..(N + K) : net'[i] = d
    <3> SUFFICES ASSUME NEW d \in Datagrams, d =< L + K, ~(d =< L)
                 PROVE  \E i \in 1..(N + K) : net'[i] = d
      OBVIOUS
    <3>1. N + (d - L) \in 1..(N + K) /\ ~(N + (d - L) =< N)
      BY <1>1, <1>5, SendsAre
    <3>2. net'[N + (d - L)] = L + ((N + (d - L)) - N)
      BY <3>1, <2>1
    <3>3. net'[N + (d - L)] = d
      BY <3>2, <1>1, <1>5, SendsAre
    <3> QED BY <3>1, <3>3
  <2>4. \A i \in 1..N : i \in 1..(N + K)
    BY <1>1, <1>5
  <2>5. OnItsWay'
    <3>1. \A d \in Datagrams :
             /\ fate[d] \in {"unsent", "queued", "dispatching", "handled"}
             /\ fate[d] # "unsent" => d =< L
             /\ d =< L => d \in lost \/ fate[d] # "unsent"
                             \/ \E i \in 1..N : net[i] = d
      BY DEF OnItsWay, L, N
    <3>2. ASSUME NEW d \in Datagrams
          PROVE  /\ fate'[d] \in {"unsent", "queued", "dispatching", "handled"}
                 /\ fate'[d] # "unsent" => d =< L + K
                 /\ d =< L + K => d \in lost' \/ fate'[d] # "unsent"
                             \/ \E i \in 1..(N + K) : net'[i] = d
      <4>1. d =< L => d =< L + K
        BY <1>1, SendsAre
      <4>2. (\E i \in 1..N : net[i] = d) => \E i \in 1..(N + K) : net'[i] = d
        BY <2>1, <2>4, Zenon
      <4> QED BY <4>1, <4>2, <3>1, <2>3, <1>2, <1>9, Zenon
    <3> QED BY <3>2, <1>1, <2>1, <2>2, ZenonT(30) DEF OnItsWay, Datagrams
  <2>6. InOrder'
    <3>1. ASSUME NEW d \in Datagrams, NEW e \in Datagrams, d < e, Nr(d) # 5,
                 fate[e] # "unsent", NEW i \in 1..(N + K), net'[i] = d
          PROVE  FALSE
      <4>1. e =< L /\ \A k \in 1..N : net[k] # d
        BY <3>1 DEF OnItsWay, InOrder, L, N
      <4>2. ~(i =< N)
        <5>1. i =< N => i \in 1..N
          BY <1>1, <1>5
        <5> QED BY <5>1, <4>1, <2>1, <3>1, Zenon
      <4> QED BY <4>1, <4>2, <2>1, <3>1, <1>1, <1>5, SendsAre, SMTT(20)
    <3>2. \A d, e \in Datagrams : d < e /\ Nr(d) # 5 =>
             /\ fate'[e] # "unsent" => \A i \in 1..Len(net') : net'[i] # d
             /\ fate'[e] \in {"dispatching", "handled"} =>
                   d \in lost' \/ fate'[d] = "handled"
      BY <3>1, <2>1, <1>2, <1>9, Zenon DEF InOrder
    <3>3. \A s \in Servers : \A i, j \in 1..Len(inbox'[s]) :
             i < j /\ inbox'[s][j] < inbox'[s][i] => Nr(inbox'[s][j]) = 5
      BY <1>2, Zenon DEF InOrder
    <3> QED BY <3>2, <3>3 DEF InOrder, Nr
  <2> QED BY <2>5, <2>6
<1> QED BY <1>4, <1>8, <1>9

-----------------------------------------------------------------------------
(* The callbacks read what testSender() wrote.                             *)

\* The type tags each accessor accepts.
LEMMA TagsAre ==
    /\ TagsOf("Bool") = {"T", "F"} /\ TagsOf("Char") = {"c"}
    /\ TagsOf("Int32") = {"i"} /\ TagsOf("Int64") = {"h"}
    /\ TagsOf("Float") = {"f"} /\ TagsOf("Double") = {"d"}
    /\ TagsOf("String") = {"s"} /\ TagsOf("Symbol") = {"S"}
    /\ TagsOf("MidiMessage") = {"m"} /\ TagsOf("TimeTag") = {"t"}
    /\ TagsOf("Blob") = {"b"}
  BY DEF TagsOf, Letter

\* An accessor of the type that the argument has does not throw.
LEMMA Reads ==
    ASSUME NEW r, r.types \in Seq(Letters), NEW at \in Nat, at < Len(r.types),
           NEW k, r.types[at + 1] \in TagsOf(k)
    PROVE  as(k, Received(r), at).exc = "none"
<1> DEFINE c == Received(r)
<1>1. /\ Len(c.args) = Len(r.types)
      /\ c.args[at + 1] = [type |-> r.types[at + 1], val |-> <<>>]
  BY DEF Received
<1> HIDE DEF c
<1>2. arg(c, at) = [type |-> r.types[at + 1], val |-> <<>>]
  BY <1>1 DEF arg, numArgs
<1>3. r.types[at + 1] # "*"
  BY DEF Letters
<1>4. is(k, c, at) /\ arg(c, at) # NoArg
  <2>1. arg(c, at).type = r.types[at + 1]
    BY <1>2
  <2>2. NoArg.type = "*"
    BY DEF NoArg
  <2> QED BY <2>1, <2>2, <1>3, Zenon DEF is, typeTag
<1>5. \A m, v : Got(m, v).exc = "none"
  BY Zenon DEF Got
<1> QED BY <1>4, <1>5, Zenon DEF as, c

\* A message arrives with the types and the address pattern it was sent with.
LEMMA TypesOfReceived ==
    ASSUME NEW r, r.types \in Seq(Letters)
    PROVE  types(Received(r)) = r.types /\ Received(r).path = r.path
<1>1. /\ Len(Received(r).args) = Len(r.types)
      /\ \A i \in 1..Len(r.types) : Received(r).args[i].type = r.types[i]
      /\ Received(r).path = r.path
  BY DEF Received
<1>2. types(Received(r)) = [i \in 1..Len(r.types) |-> r.types[i]]
  BY <1>1 DEF types, numArgs
<1> QED BY <1>1, <1>2, SMTT(20)

\* The reads of TestObject suit the arguments of /object.
LEMMA ObjectReadable ==
    ASSUME NEW r, r.types = <<"i", "f", "s">>
    PROVE  Readable(Received(r), ObjectReads)
<1>1. /\ r.types \in Seq(Letters) /\ Len(r.types) = 3
      /\ r.types[0 + 1] = "i" /\ r.types[1 + 1] = "f" /\ r.types[2 + 1] = "s"
  BY DEF Letters
<1> DEFINE ok(k, at) == as(k, Received(r), at).exc = "none"
<1>2. ASSUME NEW k, NEW at \in 0..2, r.types[at + 1] \in TagsOf(k)
      PROVE  ok(k, at)
  <2>1. at \in Nat /\ at < Len(r.types)
    BY <1>1
  <2> QED BY <2>1, <1>1, <1>2, Reads, Zenon
<1> HIDE DEF ok
<1>3. ok("Int32", 0) /\ ok("Float", 1) /\ ok("String", 2)
  BY <1>1, <1>2, TagsAre
<1>4. \A i \in 1..Len(ObjectReads) : ok(ObjectReads[i][1], ObjectReads[i][2])
  BY <1>3 DEF ObjectReads
<1> QED BY <1>4, Zenon DEF Readable, ok

\* The reads of TestReceiver suit the arguments of the third message.
LEMMA Test3Readable ==
    ASSUME NEW r, r.types = AllTypes
    PROVE  Readable(Received(r), Test3Reads)
<1>1. r.types \in Seq(Letters) /\ Len(r.types) = 14
  <2>1. Sends[3].types \in Seq(Letters)
    BY SendsTyped
  <2>2. Len(AllTypes) = 14
    BY DEF AllTypes
  <2> QED BY <2>1, <2>2, SendsAre, Zenon
<1>2. /\ r.types[0 + 1] = "T" /\ r.types[1 + 1] = "F" /\ r.types[2 + 1] = "c"
      /\ r.types[5 + 1] = "i" /\ r.types[6 + 1] = "h" /\ r.types[7 + 1] = "f"
      /\ r.types[8 + 1] = "d" /\ r.types[9 + 1] = "s" /\ r.types[10 + 1] = "S"
      /\ r.types[11 + 1] = "m" /\ r.types[12 + 1] = "t" /\ r.types[13 + 1] = "b"
  BY DEF AllTypes
<1> DEFINE ok(k, at) == as(k, Received(r), at).exc = "none"
<1>3. ASSUME NEW k, NEW at \in 0..13, r.types[at + 1] \in TagsOf(k)
      PROVE  ok(k, at)
  <2>1. at \in Nat /\ at < Len(r.types)
    BY <1>1
  <2> QED BY <2>1, <1>1, <1>3, Reads, Zenon
<1> HIDE DEF ok
<1>4. ok("Bool", 0) /\ ok("Bool", 1) /\ ok("Char", 2) /\ ok("Int32", 5)
  BY <1>2, <1>3, TagsAre
<1>5. ok("Int64", 6) /\ ok("Float", 7) /\ ok("Double", 8) /\ ok("String", 9)
  BY <1>2, <1>3, TagsAre
<1>6. ok("Symbol", 10) /\ ok("MidiMessage", 11) /\ ok("TimeTag", 12) /\ ok("Blob", 13)
  BY <1>2, <1>3, TagsAre
<1>7. \A i \in 1..Len(Test3Reads) : ok(Test3Reads[i][1], Test3Reads[i][2])
  BY <1>4, <1>5, <1>6 DEF Test3Reads
<1> QED BY <1>7, Zenon DEF Readable, ok

-----------------------------------------------------------------------------
(* A step of a dispatch.                                                   *)

\* While the receiver is stopped no thread dispatches.
LEMMA Stopped ==
    ASSUME ReceiverSafe, ~m_isRunning, call # "start"
    PROVE  \A s \in Servers : thread[s] = "none" /\ work[s] = NULL
  BY DEF ReceiverSafe, R!ThreadsAccounted, WorkPlaced

\* Where main() is while thread t dispatches, and what it dispatches.
LEMMA DispatchPlace ==
    ASSUME ReceiverSafe, Control, NEW t \in Servers \cup {User}, work[t] # NULL
    PROVE  /\ work[t] \in [msg : Datagrams, next : 0..2]
           /\ stage \in {"poll", "starting", "testSenderAgain", "stop", "stopping"}
           /\ t = User => stage = "poll" /\ call = "handleMessages"
           /\ t # User => stage # "poll" /\ call # "handleMessages"
           /\ call # "destroy"
           /\ m_objects = <<TheObject>> /\ existing = {TheObject}
           /\ fate[work[t].msg] = "dispatching"
<1>1. work[t] \in [msg : Datagrams, next : 0..2]
  <2>1. work[t] \in R!Work
    BY DEF ReceiverSafe, R!TypeOK, R!Threads
  <2> QED BY <2>1 DEF R!Work
<1>2. fate[work[t].msg] = "dispatching"
  BY <1>1 DEF ReceiverSafe, InOnePlace, R!Threads
<1>3. CASE t = User
  <2>1. call = "handleMessages"
    BY <1>3 DEF ReceiverSafe, WorkPlaced
  <2> QED BY <1>1, <1>2, <1>3, <2>1 DEF Control
<1>4. CASE t # User
  <2>1. m_isRunning \/ call = "start"
    BY <1>4, Stopped
  <2>2. stage \in {"starting", "testSenderAgain", "stop", "stopping"}
    BY <2>1 DEF Control
  <2> QED BY <1>1, <1>2, <1>4, <2>2 DEF Control
<1> QED BY <1>3, <1>4

\* A message that is dispatched is one that was sent, as it was written.
LEMMA Dispatched ==
    ASSUME ReceiverSafe, Control, Written, OnItsWay,
           NEW t \in Servers \cup {User}, work[t] # NULL
    PROVE  /\ work[t].msg \in 1..Len(content)
           /\ Nr(work[t].msg) \in 1..7
           /\ content[work[t].msg] = OnWire(Nr(work[t].msg))
<1>1. work[t].msg \in Datagrams /\ fate[work[t].msg] = "dispatching"
  BY DispatchPlace
<1>2. work[t].msg =< Len(content)
  BY <1>1 DEF OnItsWay
<1>3. work[t].msg \in 1..Len(content)
  <2>1. Len(content) \in Nat
    BY DEF Written
  <2> QED BY <1>1, <1>2, <2>1, SendsAre
<1>4. Nr(work[t].msg) \in 1..7
  BY <1>1, NrIs, SendsAre
<1> QED BY <1>3, <1>4, Zenon DEF Written

\* The iterator moves on, past Object only with a message that is not for it.
Steps(t, n) ==
    /\ work' = [work EXCEPT ![t].next = n]
    /\ n > 1 => Nr(work[t].msg) # 6
    /\ UNCHANGED <<call, rret, thread, fate, takenBy, done>>

\* The message is handled, by the class it is for.
Handles(t) ==
    LET d == work[t].msg IN
    /\ work' = [work EXCEPT ![t] = NULL]
    /\ fate' = [fate EXCEPT ![d] = "handled"]
    /\ takenBy' = [takenBy EXCEPT ![d] =
                      IF Nr(d) = 6 THEN "Object" ELSE "TestReceiver"]
    /\ done' = (done \/ Nr(d) = 7)
    /\ IF t = User
       THEN /\ call' = "none" /\ thread' = thread
            /\ rret' = [op |-> "handleMessages", val |-> "true"]
       ELSE UNCHANGED <<call, rret>>

\* What the callbacks answer to message n.
LEMMA Answers ==
    ASSUME NEW n \in 1..7
    PROVE  LET c == Received(OnWire(n)) IN
           /\ ObjectTakes(c) <=> n = 6
           /\ Quits(c) <=> n = 7
           /\ ObjectTakes(c) => Readable(c, ObjectReads)
           /\ Readable(c, IF checkAddressAndTypes(c, "/test3", AllTypes)
                          THEN Test3Reads ELSE <<>>)
<1> DEFINE r == OnWire(n)
           c == Received(r)
<1>1. r.types = Sends[n].types /\ r.path = Sends[n].path
  BY DEF OnWire
<1>2. r.types \in Seq(Letters)
  BY <1>1, SendsTyped, Zenon
<1>3. types(c) = r.types /\ c.path = r.path
  BY <1>2, TypesOfReceived, Zenon
<1> HIDE DEF r, c
<1>4. ObjectTakes(c) <=> n = 6
  BY <1>1, <1>3, SendsAre DEF ObjectTakes, checkAddressAndTypes
<1>5. Quits(c) <=> n = 7
  BY <1>1, <1>3, SendsAre DEF Quits
<1>6. ObjectTakes(c) => Readable(c, ObjectReads)
  BY <1>3, ObjectReadable, Zenon DEF ObjectTakes, checkAddressAndTypes, c
<1>7. checkAddressAndTypes(c, "/test3", AllTypes) => Readable(c, Test3Reads)
  BY <1>3, Test3Readable, Zenon DEF checkAddressAndTypes, c
<1>8. Readable(c, <<>>)
  BY DEF Readable
<1>9. Readable(c, IF checkAddressAndTypes(c, "/test3", AllTypes)
                  THEN Test3Reads ELSE <<>>)
  BY <1>7, <1>8, Zenon
<1> QED BY <1>4, <1>5, <1>6, <1>9, Zenon DEF c, r

\* The receiver's part of a step.
LEMMA Processed ==
    ASSUME ReceiverSafe, Control, NEW t \in Servers \cup {User},
           work[t] # NULL, R!processMessage(t)
    PROVE  /\ rlife' = rlife /\ rlife = "alive"
           /\ UNCHANGED <<m_serverThread, m_isMulticast, m_isRunning,
                 m_ignoreMessages, m_objects, port, active, inbox, existing>>
           /\ \/ work[t].next = 0 /\ R!Step(t, 1)
              \/ work[t].next = 1 /\ (R!Step(t, 2) \/ R!Finish(t, "handled"))
              \/ /\ work[t].next = 2
                 /\ R!Finish(t, "handled") \/ R!Finish(t, "refused")
<1>1. /\ work[t] \in [msg : Datagrams, next : 0..2] /\ call # "destroy"
      /\ m_objects = <<TheObject>> /\ existing = {TheObject} /\ ~m_ignoreMessages
  BY DispatchPlace DEF Control
<1>2. work[t].next \in {0, 1, 2}
  BY <1>1
<1>3. Len(m_objects) = 1 /\ m_objects[1] \in existing
  BY <1>1
<1>4. /\ rlife = "alive"
      /\ R!ProcessBegin(t) \/ R!ProcessObject(t) \/ R!ProcessSelf(t)
      /\ UNCHANGED <<m_serverThread, m_isMulticast, m_isRunning,
            m_ignoreMessages, m_objects, port, active, inbox, existing>>
  BY Zenon DEF R!processMessage, R!members
<1>5. CASE R!ProcessBegin(t)
  <2>1. work[t].next = 0 /\ R!Step(t, 1)
    BY <1>1, <1>5, Zenon DEF R!ProcessBegin
  <2> QED BY <2>1, <1>4, Zenon DEF R!Step
<1>6. CASE R!ProcessObject(t)
  <2>1. work[t].next \in 1..1
    BY <1>3, <1>6, Zenon DEF R!ProcessObject
  <2>2. work[t].next = 1 /\ 1 + 1 = 2
    BY <2>1
  <2>3. R!Step(t, 2) \/ R!Finish(t, "handled")
    BY <2>2, <1>3, <1>6, Zenon DEF R!ProcessObject
  <2> QED BY <2>2, <2>3, <1>4, Zenon DEF R!Step, R!Finish
<1>7. CASE R!ProcessSelf(t)
  <2>1. work[t].next > 1
    BY <1>3, <1>7, Zenon DEF R!ProcessSelf
  <2>2. work[t].next = 2
    BY <2>1, <1>2
  <2>3. R!Finish(t, "handled") \/ R!Finish(t, "refused")
    BY <1>1, <1>7, Zenon DEF R!ProcessSelf
  <2> QED BY <2>2, <2>3, <1>4, Zenon DEF R!Finish
<1> QED BY <1>4, <1>5, <1>6, <1>7, ZenonT(30)

\* A dispatch breaks nothing: no exception leaves a callback, and what each
\* object is offered last is what it handles.
LEMMA DispatchIs ==
    ASSUME ReceiverSafe, Control, Written, Taken, OnItsWay, done \in BOOLEAN,
           NEW t \in Servers \cup {User}, Dispatch(t)
    PROVE  /\ work[t] # NULL
           /\ UNCHANGED <<stage, rlife, m_serverThread, m_isMulticast, m_isRunning,
                 m_ignoreMessages, m_objects, port, active, inbox, existing,
                 sender, script, wire>>
           /\ (\E n \in 1..2 : Steps(t, n)) \/ Handles(t)
<1> DEFINE d == work[t].msg
           c == Received(content[d])
           n == Nr(d)
<1>1. work[t] # NULL /\ R!processMessage(t) /\ UNCHANGED <<sender, script, wire>>
  BY Zenon DEF Dispatch
<1>2. /\ rlife' = rlife /\ rlife = "alive"
      /\ UNCHANGED <<m_serverThread, m_isMulticast, m_isRunning,
            m_ignoreMessages, m_objects, port, active, inbox, existing>>
      /\ \/ work[t].next = 0 /\ R!Step(t, 1)
         \/ work[t].next = 1 /\ (R!Step(t, 2) \/ R!Finish(t, "handled"))
         \/ /\ work[t].next = 2
            /\ R!Finish(t, "handled") \/ R!Finish(t, "refused")
  BY <1>1, Processed, ZenonT(30)
<1>3. n \in 1..7 /\ content[d] = OnWire(n) /\ d \in Datagrams
  BY <1>1, Dispatched, DispatchPlace
<1>4. /\ ObjectTakes(c) <=> n = 6
      /\ Quits(c) <=> n = 7
      /\ ObjectTakes(c) => Readable(c, ObjectReads)
      /\ Readable(c, IF checkAddressAndTypes(c, "/test3", AllTypes)
                     THEN Test3Reads ELSE <<>>)
  BY <1>3, Answers, Zenon
<1>5. Len(m_objects) = 1
  BY <1>1, DispatchPlace, SMTT(20)
<1>6. fate[d] = "dispatching" /\ fate \in [Datagrams -> R!Fates]
  BY <1>1, DispatchPlace DEF ReceiverSafe, R!TypeOK
<1> DEFINE takes(w) == (w = "Object" /\ ObjectTakes(c)) \/ w = "TestReceiver"
<1>7. ASSUME NEW w,
             w = IF work[t].next = 0 THEN "nobody"
                 ELSE IF work[t].next =< Len(m_objects) THEN "Object"
                 ELSE "TestReceiver"
      PROVE  /\ fate'[d] = "handled" <=> takes(w)
             /\ takenBy' = IF takes(w) THEN [takenBy EXCEPT ![d] = w] ELSE takenBy
             /\ done' = (done \/ (w = "TestReceiver" /\ Quits(c)))
             /\ stage' = IF takes(w) /\ ~Readable(c, IF w = "Object" THEN ObjectReads
                            ELSE IF checkAddressAndTypes(c, "/test3", AllTypes)
                            THEN Test3Reads ELSE <<>>)
                         THEN "terminated" ELSE stage
  BY <1>2, <1>7, Zenon DEF Dispatch
<1> HIDE DEF d, c, n
<1>8. CASE work[t].next = 0
  <2>1. R!Step(t, 1)
    <3>1. 0 # 1 /\ 0 # 2
      BY SMTT(20)
    <3> QED BY <3>1, <1>2, <1>8, ZenonT(30)
  <2>2. takenBy' = takenBy /\ done' = done /\ stage' = stage
    BY <1>7, <1>8
  <2>3. ~(1 > 1) /\ 1 \in 1..2
    OBVIOUS
  <2>4. Steps(t, 1)
    BY <2>1, <2>2, <2>3, ZenonT(30) DEF Steps, R!Step
  <2> QED BY <2>2, <2>3, <2>4, <1>1, <1>2, ZenonT(30)
<1>9. CASE work[t].next = 1
  <2>1. /\ fate'[d] = "handled" <=> n = 6
        /\ takenBy' = IF n = 6 THEN [takenBy EXCEPT ![d] = "Object"] ELSE takenBy
        /\ done' = done /\ stage' = stage
    <3>1. "Object" = IF work[t].next = 0 THEN "nobody"
                     ELSE IF work[t].next =< Len(m_objects) THEN "Object"
                     ELSE "TestReceiver"
      BY <1>5, <1>9
    <3>2. "Object" # "TestReceiver"
      OBVIOUS
    <3>3. /\ fate'[d] = "handled" <=> takes("Object")
          /\ takenBy' = IF takes("Object") THEN [takenBy EXCEPT ![d] = "Object"]
                                           ELSE takenBy
          /\ done' = (done \/ ("Object" = "TestReceiver" /\ Quits(c)))
          /\ stage' = IF takes("Object") /\ ~Readable(c, ObjectReads)
                      THEN "terminated" ELSE stage
      BY <3>1, <1>7, Zenon
    <3>4. takes("Object") <=> n = 6
      BY <3>2, <1>4, Zenon
    <3>5. ~(takes("Object") /\ ~Readable(c, ObjectReads))
      BY <3>2, <1>4, Zenon
    <3> QED BY <3>2, <3>3, <3>4, <3>5, SMTT(20)
  <2>2. CASE R!Step(t, 2)
    <3>1. fate' = fate /\ n # 6
      BY <2>1, <2>2, <1>6 DEF R!Step
    <3>2. 2 \in 1..2
      OBVIOUS
    <3>3. Steps(t, 2)
      BY <3>1, <2>1, <2>2, ZenonT(30) DEF Steps, R!Step, n, d
    <3> QED BY <3>2, <3>3, <2>1, <1>1, <1>2, Zenon
  <2>3. CASE R!Finish(t, "handled")
    <3>1. fate' = [fate EXCEPT ![d] = "handled"]
      BY <2>3 DEF R!Finish, d
    <3>2. n = 6
      BY <3>1, <2>1, <1>3, <1>6
    <3>3. done' = (done \/ n = 7)
      <4>1. n # 7
        BY <3>2
      <4> QED BY <4>1, <2>1, Zenon
    <3>4. Handles(t)
      BY <3>1, <3>2, <3>3, <2>1, <2>3, Zenon DEF Handles, R!Finish, R!Returns, n, d
    <3> QED BY <3>4, <2>1, <1>1, <1>2, SMTT(20)
  <2> QED BY <2>2, <2>3, <1>2, <1>9, SMTT(20)
<1>10. CASE work[t].next = 2
  <2>1. /\ fate'[d] = "handled"
        /\ takenBy' = [takenBy EXCEPT ![d] = "TestReceiver"]
        /\ done' = (done \/ n = 7) /\ stage' = stage
    <3>1. "TestReceiver" = IF work[t].next = 0 THEN "nobody"
                     ELSE IF work[t].next =< Len(m_objects) THEN "Object"
                     ELSE "TestReceiver"
      BY <1>5, <1>10, SMTT(20)
    <3>2. "Object" # "TestReceiver"
      OBVIOUS
    <3> QED BY <3>1, <3>2, <1>4, <1>7, Zenon
  <2>2. R!Finish(t, "handled")
    <3>1. 2 # 0 /\ 2 # 1
      OBVIOUS
    <3>2. CASE R!Finish(t, "refused")
      <4>1. fate' = [fate EXCEPT ![d] = "refused"]
        BY <3>2, Zenon DEF R!Finish, d
      <4> QED BY <4>1, <2>1, <1>3, <1>6, SMTT(20)
    <3> QED BY <3>1, <3>2, <1>2, <1>10, Zenon
  <2>3. n # 6
    <3>1. work[t].next > 1
      BY <1>10
    <3>2. Sends[n].path # "/object"
      BY <3>1, <1>1, Zenon DEF Taken, n, d
    <3> QED BY <3>2, <1>3, SendsAre, Zenon
  <2>4. Handles(t)
    BY <2>1, <2>2, <2>3, Zenon DEF Handles, R!Finish, R!Returns, n, d
  <2> QED BY <2>1, <2>4, <1>1, <1>2
<1> QED BY <1>2, <1>8, <1>9, <1>10, Zenon

-----------------------------------------------------------------------------
(* Steps that leave the sender alone.                                      *)

\* The sender changes only in testSender().
LEMMA KeepsSender ==
    ASSUME Composing, UNCHANGED <<sender, script>>
    PROVE  Composing'
<1>1. UNCHANGED <<m_address, m_message, m_bundles, m_addressPattern,
                  m_messageInProgress, m_bundleInProgress, slife, live, args,
                  elems, stamp, line, word>>
  BY Zenon DEF sender, script
<1>2. Heap'
  BY <1>1, SMTT(20) DEF Composing, Heap
<1>3. MessageSoFar'
  BY <1>1 DEF Composing, MessageSoFar, Begun
<1>4. BundlesSoFar'
  BY <1>1, KeepBundles DEF Composing
<1> QED BY <1>1, <1>2, <1>3, <1>4, Zenon DEF Composing

\* The steps of main() outside testSender(), and where each leads.
Onward ==
    \/ stage = "setup" /\ stage' \in {"attach", "terminated"}
    \/ stage = "attach" /\ stage' = "testSender"
    \/ stage = "beginPoll" /\ stage' = "poll"
    \/ stage = "poll" /\ stage' \in {"unwind", "start"}
    \/ stage = "start" /\ stage' = "starting"
    \/ stage = "starting" /\ stage' = "testSenderAgain"
    \/ stage = "stop" /\ stage' = "stopping"
    \/ stage = "stopping" /\ stage' = "unwind"
    \/ stage = "unwind" /\ stage' = "destroy"
    \/ stage = "destroy" /\ stage' = "destroying"
    \/ stage = "destroying" /\ stage' = "returned"
    \/ stage' = stage

\* Other steps find testSender() at its start, or leave it where it is.
LEMMA KeepsPlace ==
    ASSUME Positioned, Written, Onward, UNCHANGED <<script, content>>
    PROVE  Positioned' /\ Written'
<1>1. line' = line /\ word' = word /\ content' = content
  BY DEF script
<1>2. /\ Sending => stage' = stage
      /\ Sending' => stage' = stage \/ ~Sending
  BY DEF Onward, Sending
<1>3. Positioned'
  BY <1>1, <1>2, SMTT(20) DEF Positioned, Sending
<1>4. \A d : OnWire(Nr(d))' = OnWire(Nr(d))
  BY DEF OnWire, Nr
<1>5. /\ stage' \in {"setup", "attach", "terminated"} => Len(content) = 0
      /\ stage' \in {"beginPoll", "poll", "start", "starting"} => Len(content) = 7
  BY DEF Onward, Written
<1>6. Sending' => Len(content) = Base' + SentBefore[line]
  <2>1. CASE stage' = stage
    BY <2>1 DEF Written, Sending, Base
  <2>2. CASE stage' # stage
    <3>1. ~Sending => line = 1
      BY DEF Positioned
    <3>2. SentBefore[1] = 0
      BY DEF SentBefore
    <3>3. Sending' => /\ ~Sending
                      /\ \/ stage = "attach" /\ stage' = "testSender" /\ Len(content) = 0
                         \/ /\ stage = "starting" /\ stage' = "testSenderAgain"
                            /\ Len(content) = 7
      BY <2>2 DEF Onward, Sending, Written
    <3>4. Sending' => line = 1 /\ Len(content) = Base'
      BY <3>1, <3>3 DEF Base
    <3>5. 0 + 0 = 0 /\ 7 + 0 = 7 /\ Base' \in {0, 7}
      BY DEF Base
    <3> QED BY <3>2, <3>4, <3>5
  <2> QED BY <2>1, <2>2
<1>7. Written'
  BY <1>1, <1>4, <1>5, <1>6, Zenon DEF Written, OnWire
<1> QED BY <1>3, <1>7

-----------------------------------------------------------------------------
(* main() and the threads of the receiver.                                 *)

\* What Control is about.
control == <<stage, m_isRunning, m_serverThread, call, m_objects, existing,
             m_ignoreMessages, rlife, rret>>

\* Steps that leave the control state alone.
LEMMA KeepsControl ==
    ASSUME Control, UNCHANGED control
    PROVE  Control'
  BY Zenon DEF Control, control

\* setup(): attached next, or terminated by its exception.
LEMMA SetupControl ==
    ASSUME Control, Setup
    PROVE  Control' /\ Onward
<1>1. /\ stage = "setup" /\ R!setup(9990)
      /\ stage' = IF rret'.val = "ReceiveException" THEN "terminated" ELSE "attach"
  BY DEF Setup, Main
<1>2. /\ ~m_isRunning /\ call = "none" /\ m_objects = <<>>
      /\ existing = {TheObject} /\ ~m_ignoreMessages /\ rlife # "undefined"
  BY <1>1 DEF Control
<1>3. /\ UNCHANGED <<m_isRunning, call, m_objects, existing, m_ignoreMessages, rlife>>
      /\ \E v : rret' = [op |-> "setup", val |-> v]
  <2>1. /\ \/ R!Returns("setup", "false") /\ UNCHANGED R!members
           \/ R!errorCB("setup") /\ UNCHANGED R!members
           \/ /\ R!Returns("setup", "true")
              /\ UNCHANGED <<m_isRunning, m_ignoreMessages, m_objects>>
        /\ UNCHANGED <<rlife, call, existing>>
    BY <1>1 DEF R!setup, R!Setup
  <2> QED BY <2>1, Zenon DEF R!Returns, R!errorCB, R!members
<1>4. PICK v : rret' = [op |-> "setup", val |-> v]
  BY <1>3, Zenon
<1>5. rret'.val = v
  BY <1>4
<1>6. stage' \in {"attach", "terminated"} /\ stage' \in Stages
  BY <1>1, SMTT(20) DEF Stages
<1> QED BY <1>1, <1>2, <1>3, <1>4, <1>5, <1>6, SMTT(20) DEF Control, Onward

\* addOscObject: the object is in the vector.
LEMMA AttachControl ==
    ASSUME ReceiverSafe, Control, Attach
    PROVE  Control' /\ Onward
<1>1. stage = "attach" /\ R!addOscObject(TheObject) /\ stage' = "testSender"
  BY DEF Attach, Main
<1>2. /\ ~m_isRunning /\ call = "none" /\ m_objects = <<>>
      /\ existing = {TheObject} /\ ~m_ignoreMessages /\ rlife # "undefined"
  BY <1>1 DEF Control
<1>3. TheObject # NULL
  BY ReceiverConstants
<1>4. R!Mutate("addOscObject", R!added(m_objects, TheObject))
  BY <1>1, <1>3, Zenon DEF R!addOscObject
<1>5. ~R!Iterating
  BY <1>2, Stopped DEF R!Iterating
<1>6. /\ m_objects' = R!added(m_objects, TheObject) /\ rlife' = rlife
      /\ rret' = [op |-> "addOscObject", val |-> "none"]
      /\ UNCHANGED <<m_isRunning, call, existing, m_ignoreMessages>>
  BY <1>4, <1>5, Zenon DEF R!Mutate, R!Returns
<1>7. m_objects' = <<TheObject>>
  BY <1>2, <1>6 DEF R!added
<1>8. rret'.val # "ReceiveException"
  BY <1>6
<1> QED BY <1>1, <1>2, <1>6, <1>7, <1>8, SMTT(20) DEF Control, Onward, Stages

\* A turn of the loop in poll(): it goes on, or its exception is caught.
LEMMA PollControl ==
    ASSUME Control, Poll
    PROVE  Control' /\ Onward
<1>1. /\ stage = "poll" /\ R!handleMessages
      /\ stage' = IF rret'.val = "ReceiveException" THEN "unwind" ELSE "poll"
  BY DEF Poll, Main
<1>2. /\ ~m_isRunning /\ m_objects = <<TheObject>> /\ rret.val # "ReceiveException"
      /\ existing = {TheObject} /\ ~m_ignoreMessages /\ rlife # "undefined"
  BY <1>1 DEF Control
<1>3. UNCHANGED <<m_isRunning, m_serverThread, m_objects, existing,
                  m_ignoreMessages, rlife>>
  BY <1>1, Zenon DEF R!handleMessages, R!members
<1>4. /\ call = "none"
      /\ \/ call' = call
         \/ call' = "handleMessages" /\ rret' = rret
  BY <1>1, Zenon DEF R!handleMessages, R!UserReady
<1>5. CASE call' = call
  BY <1>1, <1>2, <1>3, <1>4, <1>5, SMTT(20) DEF Control, Onward, Stages
<1>6. CASE call' = "handleMessages" /\ rret' = rret
  BY <1>1, <1>2, <1>3, <1>6, SMTT(20) DEF Control, Onward, Stages
<1> QED BY <1>4, <1>5, <1>6

\* The loop of handleMessages() is entered.
LEMMA BeginPollControl ==
    ASSUME Control, BeginPoll
    PROVE  Control' /\ Onward
<1>1. /\ stage = "beginPoll" /\ stage' = "poll"
      /\ UNCHANGED <<m_isRunning, m_serverThread, call, m_objects, existing,
                     m_ignoreMessages, rlife, rret>>
  BY Zenon DEF BeginPoll, Main, receiver
<1> QED BY <1>1 DEF Control, Onward, Stages

\* The loop ends, between calls.
LEMMA EndPollControl ==
    ASSUME Control, EndPoll
    PROVE  Control' /\ Onward
<1>1. /\ stage = "poll" /\ stage' = "start" /\ call = "none"
      /\ UNCHANGED <<m_isRunning, m_serverThread, call, m_objects, existing,
                     m_ignoreMessages, rlife, rret>>
  BY Zenon DEF EndPoll, Main, receiver
<1> QED BY <1>1 DEF Control, Onward, Stages

\* start() begins: the thread may run, with the object attached.
LEMMA StartControl ==
    ASSUME Control, Start
    PROVE  Control' /\ Onward
<1>1. /\ stage = "start" /\ call' = "start" /\ stage' = "starting"
      /\ UNCHANGED <<m_isRunning, m_serverThread, m_objects, existing,
                     m_ignoreMessages, rlife, rret>>
  BY ZenonT(30) DEF Start, Main, R!start, R!members
<1> QED BY <1>1 DEF Control, Onward, Stages

\* start() returns.
LEMMA StartedControl ==
    ASSUME Control, Started
    PROVE  Control' /\ Onward
<1>1. stage = "starting" /\ R!LeaveStart /\ stage' = "testSenderAgain"
  BY DEF Started, Main
<1>2. /\ rret' = [op |-> "start", val |-> "none"] /\ call' = "none"
      /\ m_isRunning' = (m_isRunning \/ m_serverThread # NULL)
      /\ UNCHANGED <<m_serverThread, m_objects, existing, m_ignoreMessages, rlife>>
  BY <1>1, Zenon DEF R!LeaveStart, R!Returns
<1>3. rret'.val # "ReceiveException"
  BY <1>2, SMTT(20)
<1>4. m_serverThread' = NULL => ~m_isRunning'
  BY <1>1, <1>2, Zenon DEF Control
<1> QED BY <1>1, <1>2, <1>3, <1>4, SMTT(20) DEF Control, Onward, Stages

\* stop(), by main() or by the destructor, begins.
LEMMA StopControl ==
    ASSUME Control, Stop \/ DestroyReceiver
    PROVE  Control' /\ Onward
<1>1. /\ \/ stage = "stop" /\ call' = "stop" /\ stage' = "stopping"
         \/ stage = "destroy" /\ call' = "destroy" /\ stage' = "destroying"
      /\ UNCHANGED <<m_isRunning, m_serverThread, m_objects, existing,
                     m_ignoreMessages, rlife, rret>>
  BY ZenonT(30) DEF Stop, DestroyReceiver, Main, R!stop, R!destroy, R!EnterStop, R!members
<1> QED BY <1>1 DEF Control, Onward, Stages

\* stop() or the destructor returns when the thread is gone.
LEMMA LeaveControl ==
    ASSUME Control, Leave
    PROVE  Control' /\ Onward
<1>1. /\ stage \in {"stopping", "destroying"} /\ R!LeaveStop
      /\ stage' = IF stage = "stopping" THEN "unwind" ELSE "returned"
  BY DEF Leave, Main
<1>2. /\ m_serverThread # NULL => m_isRunning' = FALSE /\ m_ignoreMessages' = FALSE
      /\ m_serverThread = NULL => UNCHANGED <<m_isRunning, m_ignoreMessages>>
      /\ rlife' = rlife \/ rlife' = "destroyed"
      /\ call' = "none" /\ rret' = [op |-> call, val |-> "none"]
      /\ UNCHANGED <<m_objects, existing>>
  BY <1>1, ZenonT(30) DEF R!LeaveStop, R!Returns
<1>3. ~m_isRunning' /\ ~m_ignoreMessages'
  BY <1>1, <1>2, SMTT(20) DEF Control
<1>4. rret'.val # "ReceiveException"
  BY <1>2, SMTT(20)
<1> QED BY <1>1, <1>2, <1>3, <1>4, SMTT(20) DEF Control, Onward, Stages

\* The object is destroyed, when nothing can dispatch to it.
LEMMA DestroyObjectControl ==
    ASSUME Control, DestroyObject
    PROVE  Control' /\ Onward
<1>1. /\ stage = "unwind" /\ stage' = "destroy"
      /\ rret' = [op |-> "destroyObject", val |-> "none"]
      /\ UNCHANGED <<m_isRunning, m_serverThread, call, m_objects,
                     m_ignoreMessages, rlife>>
  BY Zenon DEF DestroyObject, Main, R!destroyObject, R!Returns, R!members
<1>2. rret'.val # "ReceiveException"
  BY <1>1, SMTT(20)
<1> QED BY <1>1, <1>2 DEF Control, Onward, Stages

\* testSender() is not a call of the receiver.
LEMMA RunSenderControl ==
    ASSUME Control, Composing, Positioned, NEW next, Then(next), RunSender(next)
    PROVE  Control'
<1>1. UNCHANGED <<m_isRunning, m_serverThread, call, m_objects, existing,
                  m_ignoreMessages, rlife, rret>>
  BY Zenon DEF RunSender, receiver
<1>2. Sending
  BY DEF Then, Sending
<1>3. stage' = IF line = 20 THEN next ELSE stage
  BY <1>2, RunsOn, ZenonT(30)
<1> QED BY <1>1, <1>3 DEF Control, Then, Stages

\* No step of a dispatch is undefined or fails to read.
LEMMA DispatchControl ==
    ASSUME ReceiverSafe, Control, Written, Taken, OnItsWay, done \in BOOLEAN,
           NEW t \in Servers \cup {User}, Dispatch(t)
    PROVE  Control'
<1>1. /\ work[t] # NULL
      /\ UNCHANGED <<stage, m_isRunning, m_serverThread, m_objects, existing,
                     m_ignoreMessages, rlife>>
      /\ (\E n \in 1..2 : Steps(t, n)) \/ Handles(t)
  BY DispatchIs, Zenon
<1>2. \/ UNCHANGED <<call, rret>>
      \/ /\ t = User /\ call' = "none"
         /\ rret' = [op |-> "handleMessages", val |-> "true"]
  BY <1>1, Zenon DEF Steps, Handles
<1>3. CASE UNCHANGED <<call, rret>>
  BY <1>1, <1>3, KeepsControl, SMTT(20) DEF control
<1>4. CASE t = User /\ call' = "none" /\ rret' = [op |-> "handleMessages", val |-> "true"]
  <2>1. stage = "poll"
    BY <1>1, <1>4, DispatchPlace, Zenon
  <2>2. rret'.val # "ReceiveException"
    BY <1>4, SMTT(20)
  <2> QED BY <1>1, <1>4, <2>1, <2>2, SMTT(20) DEF Control
<1> QED BY <1>2, <1>3, <1>4, SMTT(20)

\* The loop of the server thread.
LEMMA ServerControl ==
    ASSUME Control, NEW s \in Servers, R!ServerCheck(s) \/ R!ServerRecv(s),
           stage' = stage
    PROVE  Control'
<1>1. /\ UNCHANGED <<stage, m_isRunning, m_serverThread, call, m_objects, existing,
                     m_ignoreMessages, rret>>
      /\ rlife' = rlife \/ rlife' = "terminated"
  BY Zenon DEF R!ServerCheck, R!ServerRecv, R!members
<1> QED BY <1>1 DEF Control

\* A datagram arrives.
LEMMA ArriveControl ==
    ASSUME Control, NEW s, NEW d, R!Arrive(s, d), stage' = stage
    PROVE  Control'
<1>1. UNCHANGED control
  BY Zenon DEF R!Arrive, R!members, control
<1> QED BY <1>1, KeepsControl

-----------------------------------------------------------------------------
(* Steps that leave the messages where they are.                           *)

\* Steps that touch no message.
LEMMA KeepsTraffic ==
    ASSUME Taken, OnItsWay, InOrder,
           UNCHANGED <<inbox, work, fate, takenBy, content, net, lost>>
    PROVE  Taken' /\ OnItsWay' /\ InOrder'
<1>1. Taken'
  BY Zenon DEF Taken, Nr
<1>2. OnItsWay'
  BY Zenon DEF OnItsWay
<1>3. InOrder'
  BY Zenon DEF InOrder, Nr
<1> QED BY <1>1, <1>2, <1>3

\* Steps that touch no queue.
LEMMA KeepsSocket ==
    ASSUME OneSocket, UNCHANGED <<port, inbox>>, stage' = "setup" => stage = "setup"
    PROVE  OneSocket'
  BY Zenon DEF OneSocket

\* Steps that leave the poll and its flag alone.
LEMMA KeepsQuit ==
    ASSUME Quit, done' = done, fate[7] = "handled" => fate'[7] = "handled",
           stage' = "poll" => stage = "poll",
           stage' = "start" => stage = "start" \/ (stage = "poll" /\ done)
    PROVE  Quit'
  BY Zenon DEF Quit

\* The statements of main() that only call, start or stop the receiver.
Silent == Attach \/ BeginPoll \/ EndPoll \/ Start \/ Started \/ Stop \/ Leave
          \/ DestroyObject \/ DestroyReceiver

\* They touch no message.
LEMMA SilentTraffic ==
    ASSUME Taken, Order, Silent
    PROVE  Taken' /\ Order'
<1>1. UNCHANGED <<inbox, work, fate, port, takenBy, content, net, lost>>
  <2>1. CASE Attach
    BY <2>1, Zenon DEF Attach, Main, wire, R!addOscObject, R!Mutate, R!Nothing,
                       R!messages, R!liblo
  <2>2. CASE BeginPoll \/ EndPoll
    BY <2>2, Zenon DEF BeginPoll, EndPoll, Main, wire, receiver
  <2>3. CASE Start \/ Started
    BY <2>3, Zenon DEF Start, Started, Main, wire, R!start, R!LeaveStart,
                       R!messages, R!liblo
  <2>4. CASE Stop \/ DestroyReceiver
    BY <2>4, Zenon DEF Stop, DestroyReceiver, Main, wire, R!stop, R!destroy,
                       R!EnterStop, R!messages
  <2>5. CASE Leave
    BY <2>5, Zenon DEF Leave, Main, wire, R!LeaveStop, R!messages, R!liblo
  <2>6. CASE DestroyObject
    BY <2>6, Zenon DEF DestroyObject, Main, wire, R!destroyObject, R!messages, R!liblo
  <2> QED BY <2>1, <2>2, <2>3, <2>4, <2>5, <2>6, Zenon DEF Silent
<1>2. Taken' /\ OnItsWay' /\ InOrder'
  BY <1>1, KeepsTraffic, Zenon DEF Order
<1>3. stage' \in {"testSender", "poll", "start", "starting", "testSenderAgain",
                  "stopping", "unwind", "returned", "destroy", "destroying"}
  BY DEF Silent, Attach, BeginPoll, EndPoll, Start, Started, Stop, Leave,
         DestroyObject, DestroyReceiver, Main
<1>4. OneSocket'
  BY <1>1, <1>3, KeepsSocket DEF Order
<1>5. Quit'
  <2>1. CASE BeginPoll
    <3>1. stage' = "poll" /\ done' = FALSE
      BY <2>1, Zenon DEF BeginPoll, Main
    <3> QED BY <3>1, Zenon DEF Quit
  <2>2. CASE EndPoll
    <3>1. stage' = "start" /\ stage = "poll" /\ done /\ done' = done
      BY <2>2, Zenon DEF EndPoll, Main
    <3> QED BY <3>1, <1>1, KeepsQuit DEF Order
  <2>3. CASE Silent /\ ~BeginPoll /\ ~EndPoll
    <3>1. done' = done /\ stage' # "poll" /\ stage' # "start"
      BY <2>3 DEF Silent, Attach, Start, Started, Stop, Leave, DestroyObject,
                  DestroyReceiver, Main
    <3> QED BY <3>1, <1>1, KeepsQuit, ZenonT(30) DEF Order
  <2> QED BY <2>1, <2>2, <2>3
<1> QED BY <1>2, <1>4, <1>5 DEF Order

\* setup() opens the one socket, with an empty queue.
LEMMA SetupTraffic ==
    ASSUME ReceiverSafe, Taken, Order, Setup
    PROVE  Taken' /\ Order'
<1>1. /\ stage = "setup" /\ stage' \in {"attach", "terminated"} /\ R!setup(9990)
      /\ UNCHANGED <<takenBy, content, net, lost, done>>
  BY DEF Setup, Main, wire
<1>2. \/ port' = port
      \/ \E s \in Servers : \E p : port' = [port EXCEPT ![s] = p]
  BY <1>1 DEF R!setup, R!Setup
<1>3. UNCHANGED <<inbox, work, fate>>
  BY <1>1 DEF R!setup, R!Setup, R!messages
<1>4. Taken' /\ OnItsWay' /\ InOrder'
  BY <1>1, <1>3, KeepsTraffic DEF Order
<1>5. Quit'
  BY <1>1, <1>3, KeepsQuit, SMTT(20) DEF Order
<1>6. OneSocket'
  <2>1. /\ \A s \in Servers : port[s] = NULL
        /\ \A s \in Servers : inbox[s] = <<>>
    BY <1>1 DEF Order, OneSocket
  <2>2. \A r, s \in Servers : port'[r] # NULL /\ port'[s] # NULL => r = s
    <3>1. CASE port' = port
      BY <3>1, <2>1
    <3>2. CASE \E s \in Servers : \E p : port' = [port EXCEPT ![s] = p]
      <4>1. PICK s \in Servers : \E p : port' = [port EXCEPT ![s] = p]
        BY <3>2, Zenon
      <4>2. \A r \in Servers \ {s} : port'[r] = NULL
        BY <4>1, <2>1 DEF ReceiverSafe, R!TypeOK
      <4> QED BY <4>2
    <3> QED BY <3>1, <3>2, <1>2, SMTT(20)
  <2> QED BY <2>1, <2>2, <1>1, <1>3, SMTT(20) DEF OneSocket
<1> QED BY <1>4, <1>5, <1>6 DEF Order
=============================================================================
