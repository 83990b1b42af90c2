------------------------- MODULE LptestSenderProofs -------------------------
(***************************************************************************)
(* What the sender holds at each statement of testSender() (Positioned,    *)
(* Composing), and that what send() puts onto the wire then is what was    *)
(* written (UnpackedAlone, UnpackedNest).  The first of three modules of   *)
(* proofs about the test program.                                          *)
(***************************************************************************)
EXTENDS Lptest, TLAPS

Sending == stage \in {"testSender", "testSenderAgain"}

\* The type tags.
Letters == {"T", "F", "c", "N", "I", "i", "h", "f", "d", "s", "S", "m", "t", "b"}

\* The statements that build a message, and those that send one.
BuildLines == {3, 5, 7, 10, 12, 16, 18}
SendLines == {4, 6, 8, 17, 19}

\* The message that is built, or waits to be sent, at each statement; 0: none.
MessageAt == <<0, 0, 1, 1, 2, 2, 3, 3, 0, 4, 0, 5, 0, 0, 0, 6, 6, 7, 7, 0>>

\* How many messages have been sent before each statement.
SentBefore == <<0, 0, 0, 0, 1, 1, 2, 2, 3, 3, 3, 3, 3, 3, 3, 5, 5, 6, 6, 7>>

\* m_message is message n up to its first k arguments.
Begun(n, k) ==
    /\ m_message \in Messages \cap live
    /\ m_addressPattern = Sends[n].path
    /\ args[m_message] = SubSeq(Sends[n].types, 1, k)

MessageSoFar ==
    /\ line >= 2 => (m_messageInProgress <=> line \in BuildLines /\ word > 0)
    /\ line \in BuildLines /\ word > 0 => Begun(MessageAt[line], word - 1)
    /\ line \in SendLines =>
          Begun(MessageAt[line], Len(Sends[MessageAt[line]].types))

\* Element e of a bundle is message n, complete, and not the one in progress.
Complete(e, n) ==
    /\ e.handle \in Messages \cap live
    /\ e.path = Sends[n].path
    /\ args[e.handle] = Sends[n].types
    /\ m_messageInProgress => e.handle # m_message

\* The bundles of testSender(): r, and c in it.
Nest(r, c) ==
    /\ line \in {12, 13} => m_bundles = <<r, c>>
    /\ line \notin {12, 13} => m_bundles = <<r>>
    /\ m_bundleInProgress <=> line # 15
    /\ r \in live /\ stamp[r] = "now"
    /\ \A b \in Bundles \ {r, c} : elems[b] = <<>>
    /\ line = 10 => Len(elems[r]) = 0
    /\ line = 11 => Len(elems[r]) = 1
    /\ line =< 11 => c = r
    /\ line >= 11 => Complete(elems[r][1], 4)
    /\ line >= 12 =>
          /\ Len(elems[r]) = 2 /\ elems[r][2].handle = c
          /\ c # r /\ c \in live /\ stamp[c] = "later"
    /\ line = 12 => Len(elems[c]) = 0
    /\ line >= 13 => Len(elems[c]) = 1 /\ Complete(elems[c][1], 5)

BundlesSoFar ==
    IF line \in 10..15
    THEN \E r, c \in Bundles : Nest(r, c)
    ELSE /\ m_bundles = <<>> /\ ~m_bundleInProgress
         /\ \A b \in Bundles : elems[b] = <<>>

\* What is not allocated is empty, so that a new message starts so.
Heap ==
    /\ args \in [Messages -> Seq(Letters)]
    /\ elems \in [Bundles -> Seq(S!Elements)]
    /\ stamp \in [Bundles -> {"immediate", "now", "later"}]
    /\ \A m \in Messages \ live : args[m] = <<>>

Composing ==
    /\ Heap /\ MessageSoFar /\ BundlesSoFar
    /\ m_address \in Addresses \cup {NULL}
    /\ line >= 3 => m_address # NULL
    /\ slife # "undefined"

Positioned ==
    /\ line \in 1..20
    /\ word \in Nat
    /\ ~Sending => line = 1
    /\ line \in BuildLines => word =< Len(Sends[MessageAt[line]].types) + 1
    /\ line \notin BuildLines => word = 0

\* Message n of testSender() as it goes onto the wire.
OnWire(n) == [path |-> Sends[n].path, types |-> Sends[n].types, late |-> (n = 5)]

-----------------------------------------------------------------------------
(* The script.                                                             *)

\* The statements of testSender(), by what they call.
LEMMA ScriptIs ==
    /\ Len(testSender) = 20
    /\ testSender[1] = <<"construct">> /\ testSender[2] = <<"setup">>
    /\ testSender[9] = <<"beginBundle", "now">>
    /\ testSender[11] = <<"beginBundle", "later">>
    /\ testSender[13] = <<"endBundle">> /\ testSender[14] = <<"endBundle">>
    /\ testSender[20] = <<"destroy">>
    /\ \A k \in BuildLines : testSender[k] = <<"message", MessageAt[k]>>
    /\ \A k \in SendLines \cup {15} : testSender[k] = <<"send">>
  BY DEF testSender, BuildLines, SendLines, MessageAt

\* Which message a statement builds or sends.
LEMMA Placement ==
    /\ \A k \in BuildLines \cup SendLines : MessageAt[k] \in 1..7
    /\ MessageAt[3] = 1 /\ MessageAt[4] = 1 /\ MessageAt[5] = 2 /\ MessageAt[6] = 2
    /\ MessageAt[7] = 3 /\ MessageAt[8] = 3 /\ MessageAt[10] = 4
    /\ MessageAt[12] = 5 /\ MessageAt[16] = 6 /\ MessageAt[17] = 6
    /\ MessageAt[18] = 7 /\ MessageAt[19] = 7
  BY DEF BuildLines, SendLines, MessageAt

\* A message outside a bundle is sent by the statement after the one that
\* builds it.
LEMMA NextLine ==
    /\ \A k \in BuildLines \ {10, 12} :
          /\ k \in 3..18 /\ k \notin 10..15 /\ k + 1 \notin 10..15
          /\ k + 1 \in SendLines /\ k + 1 \notin BuildLines
          /\ MessageAt[k + 1] = MessageAt[k]
    /\ \A k \in SendLines :
          /\ k \in 4..19 /\ k \notin BuildLines
          /\ k \notin 10..15 /\ k + 1 \notin 10..15
          /\ k + 1 \notin SendLines
    /\ \A k \in {1, 2, 9, 11, 13, 14, 15, 20} : k \notin BuildLines \cup SendLines
  BY DEF BuildLines, SendLines, MessageAt

\* What of the messages the callbacks tell apart.
LEMMA SendsAre ==
    /\ Len(Sends) = 7
    /\ Datagrams = 1..14
    /\ Sends[3].types = AllTypes
    /\ Sends[6].path = "/object" /\ Sends[6].types = <<"i", "f", "s">>
    /\ \A n \in 1..7 : Sends[n].path = "/object" <=> n = 6
    /\ \A n \in 1..7 : Sends[n].path = "/quit" <=> n = 7
  BY DEF Sends, Datagrams

\* The arguments of every message have type tags.
LEMMA SendsTyped ==
    ASSUME NEW n \in 1..7
    PROVE  Sends[n].types \in Seq(Letters)
  <1>1. Sends[1].types \in Seq(Letters)
    <2>1. Sends[1].types = <<"T", "f", "f", "N", "s", "s">>
      BY DEF Sends
    <2> QED BY <2>1 DEF Letters
  <1>2. Sends[2].types \in Seq(Letters)
    <2>1. Sends[2].types = <<"m", "b">>
      BY DEF Sends
    <2> QED BY <2>1 DEF Letters
  <1>3. Sends[3].types \in Seq(Letters)
    <2>1. Sends[3].types = AllTypes
      BY DEF Sends
    <2> QED BY <2>1 DEF Letters, AllTypes
  <1>4. Sends[4].types \in Seq(Letters)
    <2>1. Sends[4].types = <<"F", "i", "f", "s">>
      BY DEF Sends
    <2> QED BY <2>1 DEF Letters
  <1>5. Sends[5].types \in Seq(Letters)
    <2>1. Sends[5].types = <<"s", "s">>
      BY DEF Sends
    <2> QED BY <2>1 DEF Letters
  <1>6. Sends[6].types \in Seq(Letters)
    <2>1. Sends[6].types = <<"i", "f", "s">>
      BY DEF Sends
    <2> QED BY <2>1 DEF Letters
  <1>7. Sends[7].types \in Seq(Letters)
    <2>1. Sends[7].types = <<>>
      BY DEF Sends
    <2> QED BY <2>1 DEF Letters
  <1> QED BY <1>1, <1>2, <1>3, <1>4, <1>5, <1>6, <1>7

\* One more argument.
LEMMA OneMore ==
    ASSUME NEW s \in Seq(Letters), NEW k \in 1..Len(s)
    PROVE  /\ SubSeq(s, 1, 0) = <<>>
           /\ Append(SubSeq(s, 1, k - 1), s[k]) = SubSeq(s, 1, k)
           /\ SubSeq(s, 1, Len(s)) = s
  OBVIOUS

\* None of the arguments, and all of them.
LEMMA NoWords ==
    ASSUME NEW s \in Seq(Letters)
    PROVE  SubSeq(s, 1, 0) = <<>> /\ SubSeq(s, 1, Len(s)) = s
  OBVIOUS

\* A sequence of one element.
LEMMA OneElement ==
    ASSUME NEW A, NEW s \in Seq(A), Len(s) = 1
    PROVE  s = <<s[1]>>
  OBVIOUS

\* A sequence of two elements.
LEMMA TwoElements ==
    ASSUME NEW A, NEW s \in Seq(A), Len(s) = 2
    PROVE  s = <<s[1], s[2]>>
  OBVIOUS

\* push_back and pop_back on a stack of one bundle and of two.
LEMMA Stack ==
    ASSUME NEW A, NEW a \in A, NEW b \in A
    PROVE  /\ Append(<<a>>, b) = <<a, b>>
           /\ SubSeq(<<a, b>>, 1, Len(<<a, b>>) - 1) = <<a>>
<1> DEFINE s == Append(<<a>>, b)
           t == <<a, b>>
<1>1. s \in Seq(A) /\ Len(s) = 2 /\ s[1] = a /\ s[2] = b
  OBVIOUS
<1>2. t \in Seq(A) /\ Len(t) = 2 /\ t[1] = a
  OBVIOUS
<1> HIDE DEF s, t
<1>3. s = <<s[1], s[2]>>
  BY <1>1, TwoElements
<1>4. /\ SubSeq(t, 1, 1) \in Seq(A)
      /\ Len(SubSeq(t, 1, 1)) = 1 /\ SubSeq(t, 1, 1)[1] = a
  BY <1>2
<1>5. SubSeq(t, 1, 1) = <<a>>
  BY <1>4, OneElement, Zenon
<1>6. Len(t) - 1 = 1
  BY <1>2
<1> QED BY <1>1, <1>3, <1>5, <1>6 DEF s, t

-----------------------------------------------------------------------------
(* The calls that build a message.                                         *)

\* Bundles stay as they are when only a message outside them changes.
LEMMA KeepBundles ==
    ASSUME BundlesSoFar, line' = line, live \subseteq live',
           UNCHANGED <<m_bundles, m_bundleInProgress, elems, stamp>>,
           \A m \in Messages \cap live :
              ~m_messageInProgress \/ m # m_message =>
                 /\ args'[m] = args[m]
                 /\ m_messageInProgress' => m # m_message'
    PROVE  BundlesSoFar'
<1>1. CASE line \in 10..15
  <2>1. PICK r \in Bundles, c \in Bundles : Nest(r, c)
    BY <1>1 DEF BundlesSoFar
  <2>2. \A e, n : Complete(e, n) =>
           /\ e.handle \in Messages \cap live' /\ e.path = Sends[n].path
           /\ args'[e.handle] = Sends[n].types
           /\ m_messageInProgress' => e.handle # m_message'
    BY DEF Complete
  <2>3. Nest(r, c)'
    BY <2>1, <2>2 DEF Nest, Complete
  <2> QED BY <1>1, <2>3 DEF BundlesSoFar
<1>2. CASE line \notin 10..15
  BY <1>2 DEF BundlesSoFar
<1> QED BY <1>1, <1>2

\* beginMessage: a new message, still empty, with the address pattern.
LEMMA BeginInv ==
    ASSUME Composing, line \in BuildLines, word = 0,
           S!beginMessage(Sends[MessageAt[line]].path), line' = line, word' = 1
    PROVE  Composing' /\ sret'.exc = "none"
<1>1. ~m_messageInProgress
  BY DEF Composing, MessageSoFar, BuildLines
<1>2. PICK m \in Messages \ live : m_message' = m /\ live' = live \cup {m}
  BY <1>1 DEF S!beginMessage
<1>3. /\ m_messageInProgress' = TRUE
      /\ m_addressPattern' = Sends[MessageAt[line]].path
      /\ sret' = [op |-> "beginMessage", exc |-> "none"] /\ slife' = slife
      /\ UNCHANGED <<m_address, m_bundles, m_bundleInProgress, args, elems,
                     stamp>>
  BY <1>1 DEF S!beginMessage, S!Returns
<1>4. Heap'
  BY <1>2, <1>3 DEF Composing, Heap
<1>5. MessageSoFar'
  <2>1. SubSeq(Sends[MessageAt[line]].types, 1, 0) = <<>>
    BY SendsTyped, NoWords, Placement
  <2>2. Begun(MessageAt[line], 0)'
    BY <1>2, <1>3, <2>1 DEF Begun, Composing, Heap
  <2> QED BY <1>3, <2>2 DEF MessageSoFar, BuildLines, SendLines, Begun
<1>6. BundlesSoFar'
  BY <1>1, <1>2, <1>3, KeepBundles DEF Composing
<1> QED BY <1>3, <1>4, <1>5, <1>6 DEF Composing

\* An operator<<: the message has one argument more.
LEMMA AddInv ==
    ASSUME Composing, line \in BuildLines,
           word \in 1..Len(Sends[MessageAt[line]].types),
           S!addArg(Sends[MessageAt[line]].types[word]),
           line' = line, word' = word + 1
    PROVE  Composing' /\ sret'.exc = "none"
<1> DEFINE n == MessageAt[line]
<1> USE SenderConstants
<1>1. n \in 1..7 /\ Sends[n].types \in Seq(Letters)
  BY Placement, SendsTyped, Zenon
<1> HIDE DEF n
<1>2. m_messageInProgress /\ Begun(n, word - 1)
  BY <1>1 DEF Composing, MessageSoFar, BuildLines, n
<1>3. /\ m_message \in Messages \cap live /\ m_message # NULL
      /\ args[m_message] = SubSeq(Sends[n].types, 1, word - 1)
      /\ m_addressPattern = Sends[n].path
  BY <1>2 DEF Begun
<1>4. /\ args' = [args EXCEPT ![m_message] = Append(@, Sends[n].types[word])]
      /\ sret' = [op |-> "addArg", exc |-> "none"] /\ slife' = slife
      /\ UNCHANGED <<m_address, m_message, m_bundles, m_addressPattern,
                     m_messageInProgress, m_bundleInProgress, live, elems,
                     stamp>>
  BY <1>2, <1>3, Zenon DEF S!addArg, S!Returns, S!object, n
<1>5. args \in [Messages -> Seq(Letters)]
  BY DEF Composing, Heap
<1>6. args'[m_message] = SubSeq(Sends[n].types, 1, word)
  BY <1>1, <1>3, <1>4, <1>5, OneMore DEF n
<1>7. Heap'
  <2>1. Sends[n].types[word] \in Letters
    BY <1>1 DEF n
  <2> QED BY <1>3, <1>4, <1>5, <2>1 DEF Composing, Heap
<1>8. MessageSoFar'
  <2>1. word' - 1 = word
    OBVIOUS
  <2>2. Begun(MessageAt[line], word - 1)'
    BY <1>3, <1>4, <1>6, <2>1 DEF Begun, n
  <2> QED BY <1>2, <1>4, <2>2 DEF MessageSoFar, BuildLines, SendLines
<1>9. BundlesSoFar'
  BY <1>2, <1>4, <1>5, KeepBundles DEF Composing
<1> QED BY <1>4, <1>7, <1>8, <1>9 DEF Composing

\* endMessage outside a bundle.
LEMMA EndInv ==
    ASSUME Composing, line \in BuildLines \ {10, 12},
           word = Len(Sends[MessageAt[line]].types) + 1,
           S!endMessage, line' = line + 1, word' = 0
    PROVE  Composing' /\ sret'.exc = "none"
<1> DEFINE n == MessageAt[line]
<1>1. /\ n \in 1..7 /\ Sends[n].types \in Seq(Letters)
      /\ line' \in SendLines /\ line' \notin BuildLines /\ line' >= 2
      /\ MessageAt[line'] = n
      /\ line \notin 10..15 /\ line' \notin 10..15 /\ line \in 3..18
  <2>1. n \in 1..7
    BY Placement
  <2>2. Sends[n].types \in Seq(Letters)
    BY <2>1, SendsTyped, Zenon
  <2> QED BY <2>1, <2>2, NextLine
<1>2. word > 0 /\ word - 1 = Len(Sends[n].types)
  BY <1>1
<1>3. m_messageInProgress /\ Begun(n, Len(Sends[n].types)) /\ ~m_bundleInProgress
  <2>1. line >= 2 /\ line \in BuildLines
    BY <1>1
  <2> QED BY <1>1, <1>2, <2>1 DEF Composing, MessageSoFar, BundlesSoFar
<1> HIDE DEF n
<1>4. /\ m_messageInProgress' = FALSE
      /\ sret' = [op |-> "endMessage", exc |-> "none"] /\ slife' = slife
      /\ UNCHANGED <<m_address, m_message, m_bundles, m_addressPattern,
                     m_bundleInProgress, live, args, elems, stamp>>
  BY <1>3 DEF S!endMessage, S!Returns, S!heap
<1>5. Heap'
  BY <1>4 DEF Composing, Heap
<1>6. MessageSoFar'
  <2>1. Begun(n, Len(Sends[n].types))'
    BY <1>1, <1>3, <1>4 DEF Begun, n
  <2> QED BY <1>1, <1>3, <1>4 DEF MessageSoFar, Begun
<1>7. BundlesSoFar'
  BY <1>1, <1>4 DEF Composing, BundlesSoFar
<1> QED BY <1>1, <1>4, <1>5, <1>6, <1>7 DEF Composing

\* endMessage in a bundle: the message joins the innermost one.
LEMMA EndInBundle ==
    ASSUME Composing, line \in {10, 12},
           word = Len(Sends[MessageAt[line]].types) + 1,
           S!endMessage, line' = line + 1, word' = 0,
           NEW b \in Bundles, m_bundles # <<>>, S!back(m_bundles) = b,
           m_bundleInProgress
    PROVE  /\ m_message \in Messages \cap live
           /\ args[m_message] = Sends[MessageAt[line]].types
           /\ m_addressPattern = Sends[MessageAt[line]].path
           /\ elems' = [elems EXCEPT ![b] =
                 Append(@, [handle |-> m_message, path |-> m_addressPattern])]
           /\ m_messageInProgress' = FALSE
           /\ sret'.exc = "none" /\ slife' = slife
           /\ UNCHANGED <<m_address, m_bundles, m_bundleInProgress, live, args,
                          stamp>>
           /\ Heap' /\ MessageSoFar'
<1> DEFINE n == MessageAt[line]
<1> USE SenderConstants
<1>1. /\ n \in 1..7 /\ Sends[n].types \in Seq(Letters)
      /\ line \in BuildLines /\ line >= 2
      /\ line' \notin BuildLines \cup SendLines
  <2>1. line \in BuildLines /\ line' \in {11, 13}
    BY DEF BuildLines
  <2>2. n \in 1..7
    BY <2>1, Placement
  <2>3. Sends[n].types \in Seq(Letters)
    BY <2>2, SendsTyped, Zenon
  <2> QED BY <2>1, <2>2, <2>3, NextLine
<1>2. word > 0 /\ word - 1 = Len(Sends[n].types)
  BY <1>1
<1>3. m_messageInProgress /\ Begun(n, Len(Sends[n].types))
  BY <1>1, <1>2 DEF Composing, MessageSoFar, BuildLines
<1> HIDE DEF n
<1>4. /\ m_message \in Messages \cap live /\ m_message # NULL
      /\ args[m_message] = Sends[n].types
      /\ m_addressPattern = Sends[n].path
  BY <1>1, <1>3, NoWords DEF Begun
<1>5. S!AddMessageToBundle(m_message, m_addressPattern, NULL)
  BY <1>3, <1>4, Zenon DEF S!endMessage, S!EndMessageInBundle
<1>6. /\ S!Attach(m_message, m_addressPattern)
      /\ m_messageInProgress' = FALSE
      /\ sret' = [op |-> "endMessage", exc |-> "none"] /\ slife' = slife
      /\ UNCHANGED <<m_address, m_bundles, m_bundleInProgress, live, args, stamp>>
  BY <1>4, <1>5, Zenon DEF S!AddMessageToBundle, S!Returns
<1>7. elems' = [elems EXCEPT ![b] =
                 Append(@, [handle |-> m_message, path |-> m_addressPattern])]
  BY <1>6 DEF S!Attach, S!BundleAdd
<1>8. Heap'
  <2>1. [handle |-> m_message, path |-> m_addressPattern] \in S!Elements
    <3>1. m_addressPattern \in S!Paths
      BY <1>1, <1>4, SendsAre DEF S!Paths
    <3> QED BY <1>4, <3>1 DEF S!Elements, S!Contents
  <2> QED BY <1>6, <1>7, <2>1 DEF Composing, Heap
<1>9. MessageSoFar'
  BY <1>1, <1>6 DEF MessageSoFar
<1> QED BY <1>4, <1>6, <1>7, <1>8, <1>9 DEF n

\* endMessage in the root bundle: the message becomes its first element.
LEMMA EndInRoot ==
    ASSUME Composing, line = 10,
           word = Len(Sends[MessageAt[line]].types) + 1,
           S!endMessage, line' = 11, word' = 0
    PROVE  Composing' /\ sret'.exc = "none"
<1>1. PICK r \in Bundles, c \in Bundles : Nest(r, c)
  BY DEF Composing, BundlesSoFar
<1>2. /\ m_bundles = <<r>> /\ m_bundles # <<>> /\ S!back(m_bundles) = r
      /\ m_bundleInProgress /\ c = r
      /\ elems[r] \in Seq(S!Elements) /\ Len(elems[r]) = 0
  <2>1. elems \in [Bundles -> Seq(S!Elements)]
    BY DEF Composing, Heap
  <2>2. m_bundles = <<r>> /\ m_bundleInProgress /\ c = r /\ Len(elems[r]) = 0
    BY <1>1 DEF Nest
  <2> QED BY <2>1, <2>2 DEF S!back
<1>3. line \in {10, 12} /\ line' = line + 1 /\ MessageAt[line] = 4
  BY Placement
<1>4. /\ m_message \in Messages \cap live
      /\ args[m_message] = Sends[4].types
      /\ m_addressPattern = Sends[4].path
      /\ elems' = [elems EXCEPT ![r] =
            Append(@, [handle |-> m_message, path |-> m_addressPattern])]
      /\ m_messageInProgress' = FALSE
      /\ sret'.exc = "none" /\ slife' = slife
      /\ UNCHANGED <<m_address, m_bundles, m_bundleInProgress, live, args, stamp>>
      /\ Heap' /\ MessageSoFar'
  BY <1>2, <1>3, EndInBundle, Zenon
<1>5. /\ Len(elems'[r]) = 1
      /\ elems'[r][1] = [handle |-> m_message, path |-> m_addressPattern]
      /\ \A b \in Bundles \ {r} : elems'[b] = elems[b]
  BY <1>2, <1>4 DEF Composing, Heap
<1>6. /\ m_messageInProgress' = FALSE
      /\ UNCHANGED <<m_bundles, m_bundleInProgress, live, args, stamp>>
  BY <1>4
<1>7. Complete(elems[r][1], 4)'
  BY <1>4, <1>5, <1>6 DEF Complete
<1>8. Nest(r, c)'
  BY <1>1, <1>2, <1>5, <1>6, <1>7, SMTT(20) DEF Nest
<1> QED BY <1>4, <1>8 DEF Composing, BundlesSoFar

\* endMessage in the nested bundle: the message becomes its only element.
LEMMA EndInNested ==
    ASSUME Composing, line = 12,
           word = Len(Sends[MessageAt[line]].types) + 1,
           S!endMessage, line' = 13, word' = 0
    PROVE  Composing' /\ sret'.exc = "none"
<1>1. PICK r \in Bundles, c \in Bundles : Nest(r, c)
  BY DEF Composing, BundlesSoFar
<1>2. /\ m_bundles = <<r, c>> /\ m_bundles # <<>> /\ S!back(m_bundles) = c
      /\ m_bundleInProgress /\ c # r
      /\ elems[c] \in Seq(S!Elements) /\ Len(elems[c]) = 0
  <2>1. elems \in [Bundles -> Seq(S!Elements)]
    BY DEF Composing, Heap
  <2>2. m_bundles = <<r, c>> /\ m_bundleInProgress /\ c # r /\ Len(elems[c]) = 0
    BY <1>1 DEF Nest
  <2> QED BY <2>1, <2>2 DEF S!back
<1>3. line \in {10, 12} /\ line' = line + 1 /\ MessageAt[line] = 5
  BY Placement
<1>4. /\ m_message \in Messages \cap live
      /\ args[m_message] = Sends[5].types
      /\ m_addressPattern = Sends[5].path
      /\ elems' = [elems EXCEPT ![c] =
            Append(@, [handle |-> m_message, path |-> m_addressPattern])]
      /\ m_messageInProgress' = FALSE
      /\ sret'.exc = "none" /\ slife' = slife
      /\ UNCHANGED <<m_address, m_bundles, m_bundleInProgress, live, args, stamp>>
      /\ Heap' /\ MessageSoFar'
  BY <1>2, <1>3, EndInBundle, Zenon
<1>5. /\ Len(elems'[c]) = 1
      /\ elems'[c][1] = [handle |-> m_message, path |-> m_addressPattern]
      /\ \A b \in Bundles \ {c} : elems'[b] = elems[b]
  BY <1>2, <1>4 DEF Composing, Heap
<1>6. /\ m_messageInProgress' = FALSE
      /\ UNCHANGED <<m_bundles, m_bundleInProgress, live, args, stamp>>
  BY <1>4
<1>7. Complete(elems[r][1], 4)'
  <2>1. Complete(elems[r][1], 4) /\ elems'[r] = elems[r]
    BY <1>1, <1>2, <1>5 DEF Nest
  <2> QED BY <1>6, <2>1 DEF Complete
<1>8. Complete(elems[c][1], 5)'
  BY <1>4, <1>5, <1>6 DEF Complete
<1>9. Nest(r, c)'
  BY <1>1, <1>2, <1>5, <1>6, <1>7, <1>8, SMTT(20) DEF Nest
<1> QED BY <1>4, <1>9 DEF Composing, BundlesSoFar

-----------------------------------------------------------------------------
(* The other calls of the sender.                                          *)

\* The constructor: nothing in progress.
LEMMA ConstructInv ==
    ASSUME Composing, line = 1, construct, line' = 2, word' = 0
    PROVE  Composing' /\ sret'.exc = "none"
<1>1. /\ m_bundles' = <<>> /\ m_messageInProgress' = FALSE /\ m_address' = NULL
      /\ m_bundleInProgress' = FALSE /\ slife' = "alive"
      /\ sret' = [op |-> "construct", exc |-> "none"]
      /\ UNCHANGED <<live, args, elems, stamp>>
  BY Zenon DEF construct
<1>2. Heap'
  BY <1>1 DEF Composing, Heap
<1>3. MessageSoFar'
  BY <1>1, NextLine DEF MessageSoFar
<1>4. BundlesSoFar'
  BY <1>1 DEF Composing, BundlesSoFar
<1> QED BY <1>1, <1>2, <1>3, <1>4 DEF Composing

\* setup(): the sender has an address.
LEMMA SetupInv ==
    ASSUME Composing, line = 2, S!setup, line' = 3, word' = 0
    PROVE  Composing' /\ sret'.exc = "none"
<1> USE SenderConstants
<1>1. PICK a \in Addresses : m_address' = a /\ live' = (live \ {m_address}) \cup {a}
  BY DEF S!setup
<1>2. /\ sret' = [op |-> "setup", exc |-> "none"] /\ slife' = slife
      /\ UNCHANGED <<m_message, m_bundles, m_addressPattern,
                     m_messageInProgress, m_bundleInProgress, args, elems, stamp>>
  BY DEF S!setup, S!Returns
<1>3. Heap'
  BY <1>1, <1>2 DEF Composing, Heap
<1>4. MessageSoFar'
  BY <1>2, NextLine DEF Composing, MessageSoFar, SendLines
<1>5. BundlesSoFar'
  BY <1>2 DEF Composing, BundlesSoFar
<1> QED BY <1>1, <1>2, <1>3, <1>4, <1>5 DEF Composing

\* beginBundle, with a handle that is neither in use nor left over.
LEMMA BeginRoot ==
    ASSUME Composing, line = 9, S!beginBundleAt("now"), line' = 10, word' = 0
    PROVE  Composing' /\ sret'.exc = "none"
<1>1. /\ ~m_messageInProgress /\ m_bundles = <<>>
      /\ \A b \in Bundles : elems[b] = <<>>
      /\ elems \in [Bundles -> Seq(S!Elements)]
  BY NextLine DEF Composing, MessageSoFar, BundlesSoFar, Heap
<1>2. S!OpenBundle("now") /\ S!Returns("beginBundleAt")
  BY <1>1, Zenon DEF S!beginBundleAt
<1>3. PICK b \in Bundles \ live :
         /\ live' = live \cup {b} /\ stamp' = [stamp EXCEPT ![b] = "now"]
         /\ elems' = elems /\ m_bundles' = Append(m_bundles, b)
  BY <1>1, <1>2, Zenon DEF S!OpenBundle
<1>4. /\ m_bundleInProgress' = TRUE
      /\ sret' = [op |-> "beginBundleAt", exc |-> "none"] /\ slife' = slife
      /\ UNCHANGED <<m_address, m_message, m_addressPattern,
                     m_messageInProgress, args>>
  BY <1>2, Zenon DEF S!OpenBundle, S!Returns
<1>5. Heap'
  BY <1>3, <1>4 DEF Composing, Heap
<1>6. MessageSoFar'
  BY <1>1, <1>4 DEF MessageSoFar, SendLines
<1>7. Nest(b, b)'
  <2>1. m_bundles' = <<b>> /\ stamp'[b] = "now" /\ Len(elems'[b]) = 0
    BY <1>1, <1>3 DEF Composing, Heap
  <2> QED BY <1>1, <1>3, <1>4, <2>1 DEF Nest
<1>8. BundlesSoFar'
  BY <1>3, <1>7 DEF BundlesSoFar
<1> QED BY <1>4, <1>5, <1>6, <1>8 DEF Composing

\* beginBundle inside a bundle: the new one becomes its second element.
LEMMA BeginNested ==
    ASSUME Composing, line = 11, S!beginBundleAt("later"), line' = 12, word' = 0
    PROVE  Composing' /\ sret'.exc = "none"
<1>1. PICK r \in Bundles, c \in Bundles : Nest(r, c)
  BY DEF Composing, BundlesSoFar
<1>2. ~m_messageInProgress
  BY NextLine DEF Composing, MessageSoFar
<1>3. /\ m_bundles = <<r>> /\ m_bundles # <<>> /\ c = r /\ r \in live
      /\ Complete(elems[r][1], 4) /\ Len(elems[r]) = 1 /\ stamp[r] = "now"
      /\ \A b \in Bundles \ {r} : elems[b] = <<>>
  BY <1>1 DEF Nest
<1>4. S!OpenBundle("later") /\ S!Returns("beginBundleAt")
  BY <1>2, Zenon DEF S!beginBundleAt
<1>5. PICK b \in Bundles \ live :
         /\ live' = live \cup {b} /\ stamp' = [stamp EXCEPT ![b] = "later"]
         /\ m_bundles' = Append(m_bundles, b)
         /\ \E p \in S!Paths : S!Attach(b, p)
  <2>1. "" \in S!Paths
    BY Zenon DEF S!Paths
  <2> QED BY <1>3, <1>4, <2>1, Zenon DEF S!OpenBundle
<1>6. /\ m_bundleInProgress' = TRUE
      /\ sret' = [op |-> "beginBundleAt", exc |-> "none"] /\ slife' = slife
      /\ UNCHANGED <<m_address, m_message, m_addressPattern,
                     m_messageInProgress, args>>
  BY <1>4, Zenon DEF S!OpenBundle, S!Returns
<1>7. PICK p \in S!Paths :
         elems' = [elems EXCEPT ![r] = Append(@, [handle |-> b, path |-> p])]
  <2>1. S!back(m_bundles) = r
    BY <1>3 DEF S!back
  <2> QED BY <1>5, <2>1, Zenon DEF S!Attach, S!BundleAdd
<1>8. b # r /\ elems \in [Bundles -> Seq(S!Elements)]
  BY <1>3, <1>5 DEF Composing, Heap
<1>9. [handle |-> b, path |-> p] \in S!Elements
  BY <1>5, <1>7 DEF S!Elements, S!Contents
<1>10. Heap'
  BY <1>5, <1>6, <1>7, <1>8, <1>9 DEF Composing, Heap
<1>11. MessageSoFar'
  BY <1>2, <1>6 DEF MessageSoFar, SendLines
<1>12. /\ elems'[r][1] = elems[r][1] /\ elems'[r][2].handle = b
       /\ Len(elems'[r]) = 2
       /\ \A a \in Bundles \ {r} : elems'[a] = <<>>
  <2> DEFINE x == [handle |-> b, path |-> p]
  <2>1. x \in S!Elements /\ x.handle = b
    BY <1>9
  <2> HIDE DEF x
  <2>2. /\ elems'[r] = Append(elems[r], x) /\ elems[r] \in Seq(S!Elements)
        /\ \A a \in Bundles \ {r} : elems'[a] = elems[a]
    BY <1>7, <1>8 DEF x
  <2>3. elems'[r][1] = elems[r][1] /\ elems'[r][2] = x /\ Len(elems'[r]) = 2
    BY <1>3, <2>1, <2>2
  <2> QED BY <1>3, <2>1, <2>2, <2>3
<1>13. m_bundles' = <<r, b>> /\ stamp'[r] = "now" /\ stamp'[b] = "later"
  <2>1. stamp \in [Bundles -> {"immediate", "now", "later"}]
    BY DEF Composing, Heap
  <2>2. stamp'[r] = "now" /\ stamp'[b] = "later"
    BY <1>3, <1>5, <1>8, <2>1, SMTT(20)
  <2> QED BY <1>3, <1>5, <2>2, Stack
<1>14. Complete(elems[r][1], 4)'
  BY <1>2, <1>3, <1>5, <1>6, <1>12, SMTT(20) DEF Complete
<1>15. Nest(r, b)'
  <2>1. m_bundles' = <<r, b>> /\ m_bundleInProgress' /\ r \in live' /\ b \in live'
    BY <1>3, <1>5, <1>6, <1>13, Zenon
  <2>2. /\ \A a \in Bundles \ {r, b} : elems'[a] = <<>>
        /\ elems'[b] = <<>> /\ Len(elems'[b]) = 0
    BY <1>5, <1>8, <1>12, SMTT(20)
  <2>3. Len(elems'[r]) = 2 /\ elems'[r][2].handle = b /\ b # r
    BY <1>8, <1>12
  <2> QED BY <1>13, <1>14, <2>1, <2>2, <2>3, SMTT(20) DEF Nest
<1>16. BundlesSoFar'
  BY <1>5, <1>15 DEF BundlesSoFar
<1> QED BY <1>6, <1>10, <1>11, <1>16 DEF Composing

\* endBundle: the nested bundle leaves the stack, the root does not.
LEMMA EndBundleInv ==
    ASSUME Composing, line \in {13, 14}, S!endBundle, line' = line + 1, word' = 0
    PROVE  Composing' /\ sret'.exc = "none"
<1>1. PICK r \in Bundles, c \in Bundles : Nest(r, c)
  BY DEF Composing, BundlesSoFar
<1>2. ~m_messageInProgress /\ m_bundleInProgress
  BY <1>1, NextLine DEF Composing, MessageSoFar, Nest
<1>3. /\ sret' = [op |-> "endBundle", exc |-> "none"] /\ slife' = slife
      /\ IF Len(m_bundles) > 1
         THEN m_bundles' = S!pop_back(m_bundles) /\ UNCHANGED m_bundleInProgress
         ELSE m_bundleInProgress' = FALSE /\ UNCHANGED m_bundles
      /\ UNCHANGED <<m_address, m_message, m_addressPattern,
                     m_messageInProgress, live, args, elems, stamp>>
  BY <1>2, Zenon DEF S!endBundle, S!Returns, S!heap
<1>4. Heap'
  BY <1>3 DEF Composing, Heap
<1>5. MessageSoFar'
  BY <1>2, <1>3 DEF MessageSoFar, SendLines, BuildLines
<1>6. m_bundles' = <<r>> /\ (m_bundleInProgress' <=> line = 13)
  <2>1. CASE line = 13
    <3>1. m_bundles = <<r, c>>
      BY <1>1, <2>1 DEF Nest
    <3>2. m_bundles' = S!pop_back(m_bundles) /\ UNCHANGED m_bundleInProgress
      BY <1>3, <3>1
    <3>3. S!pop_back(m_bundles) = <<r>>
      BY <3>1, Stack, Zenon DEF S!pop_back
    <3> QED BY <1>2, <2>1, <3>2, <3>3
  <2>2. CASE line = 14
    <3>1. m_bundles = <<r>>
      BY <1>1, <2>2, SMTT(20) DEF Nest
    <3> QED BY <1>3, <2>2, <3>1
  <2> QED BY <2>1, <2>2
<1>7. Nest(r, c)'
  <2>1. \A e, n : Complete(e, n) => Complete(e, n)'
    BY <1>3, Zenon DEF Complete
  <2>2. UNCHANGED <<live, elems, stamp>>
    BY <1>3
  <2> QED BY <1>1, <1>6, <2>1, <2>2, SMTT(20) DEF Nest
<1>8. BundlesSoFar'
  BY <1>7 DEF BundlesSoFar
<1> QED BY <1>3, <1>4, <1>5, <1>8 DEF Composing

-----------------------------------------------------------------------------
(* clear() inside send() and the destructor.                               *)

\* clear() empties what it frees.
LEMMA ClearFacts ==
    ASSUME NEW rest, S!Clear(rest)
    PROVE  /\ live' = (live \ S!Freed) \ rest
           /\ args' = [m \in Messages |-> IF m \in S!Freed THEN <<>> ELSE args[m]]
           /\ elems' = [b \in Bundles |-> IF b \in S!Freed THEN <<>> ELSE elems[b]]
           /\ stamp' = [b \in Bundles |-> IF b \in S!Freed THEN "immediate"
                                                          ELSE stamp[b]]
           /\ m_bundles' = <<>> /\ m_message' = NULL
           /\ UNCHANGED <<m_messageInProgress, m_bundleInProgress>>
  BY Zenon DEF S!Clear

\* What clear() frees is empty, so that a new message starts so.
LEMMA ClearHeap ==
    ASSUME Heap, NEW rest, rest \cap Messages = {}, S!Clear(rest)
    PROVE  Heap'
<1>1. /\ live' = (live \ S!Freed) \ rest
      /\ args' = [m \in Messages |-> IF m \in S!Freed THEN <<>> ELSE args[m]]
      /\ elems' = [b \in Bundles |-> IF b \in S!Freed THEN <<>> ELSE elems[b]]
      /\ stamp' = [b \in Bundles |-> IF b \in S!Freed THEN "immediate"
                                                     ELSE stamp[b]]
  BY ClearFacts
<1>2. args' \in [Messages -> Seq(Letters)]
  BY <1>1 DEF Heap
<1>3. elems' \in [Bundles -> Seq(S!Elements)]
  BY <1>1 DEF Heap
<1>4. stamp' \in [Bundles -> {"immediate", "now", "later"}]
  BY <1>1 DEF Heap
<1>5. \A m \in Messages \ live' : args'[m] = <<>>
  BY <1>1 DEF Heap
<1> QED BY <1>2, <1>3, <1>4, <1>5 DEF Heap

\* Both bundles of testSender() are in the tree that is released.
LEMMA NestReleased ==
    ASSUME Heap, line = 15, NEW r \in Bundles, NEW c \in Bundles, Nest(r, c)
    PROVE  r \in S!Freed /\ c \in S!Freed
<1>1. /\ m_bundles = <<r>> /\ Len(elems[r]) = 2 /\ elems[r][2].handle = c
  BY DEF Nest
<1>2. S!Freed = S!Tree(elems, r)
  <2>1. m_bundles # <<>> /\ Head(m_bundles) = r
    BY <1>1
  <2> QED BY <2>1, Zenon DEF S!Freed
<1>3. c \in S!Kids(elems, r)
  BY <1>1 DEF S!Kids
<1>4. r \in S!Tree(elems, r)
  BY DEF S!Tree, S!Contents
<1>5. c \in S!Tree(elems, r)
  BY <1>3 DEF S!Tree, S!Contents, S!Closed
<1> QED BY <1>2, <1>4, <1>5

\* send() finds a message or a bundle, and neither in progress.
LEMMA ReadyToSend ==
    ASSUME Composing, line \in SendLines \cup {15}
    PROVE  ~S!CannotSend
<1>1. ~m_messageInProgress /\ m_address # NULL
  <2>1. line \in 4..19 /\ line \notin BuildLines
    BY NextLine
  <2> QED BY <2>1 DEF Composing, MessageSoFar
<1>2. CASE line \in SendLines
  BY <1>1, <1>2, NextLine, SenderConstants
     DEF S!CannotSend, Composing, MessageSoFar, BundlesSoFar, Begun
<1>3. CASE line = 15
  <2>1. PICK r \in Bundles, c \in Bundles : Nest(r, c)
    BY <1>3 DEF Composing, BundlesSoFar
  <2>2. m_bundles = <<r>> /\ ~m_bundleInProgress
    BY <1>3, <2>1 DEF Nest
  <2> QED BY <1>1, <2>2 DEF S!CannotSend
<1> QED BY <1>2, <1>3

\* send() succeeds and leaves nothing behind.
LEMMA SendInv ==
    ASSUME Composing, line \in SendLines \cup {15}, S!send, line' = line + 1, word' = 0
    PROVE  Composing' /\ sret'.exc = "none"
<1>1. /\ line \in 4..19 /\ line \notin BuildLines
      /\ line' \in 5..20 /\ line' \notin SendLines /\ line' \notin 10..15
  BY NextLine DEF SendLines
<1>2. ~S!CannotSend
  BY ReadyToSend
<1>3. /\ S!Clear({}) /\ sret' = [op |-> "send", exc |-> "none"] /\ slife' = slife
      /\ UNCHANGED m_address
  BY <1>2, Zenon DEF S!send, S!Returns
<1>4. Heap'
  BY <1>3, ClearHeap DEF Composing
<1>5. /\ ~m_messageInProgress /\ UNCHANGED <<m_messageInProgress, m_bundleInProgress>>
      /\ m_bundles' = <<>>
      /\ elems' = [b \in Bundles |-> IF b \in S!Freed THEN <<>> ELSE elems[b]]
  BY <1>1, <1>3, ClearFacts DEF Composing, MessageSoFar
<1>6. MessageSoFar'
  BY <1>1, <1>5 DEF MessageSoFar
<1>7. ~m_bundleInProgress /\ \A b \in Bundles : elems'[b] = <<>>
  <2>1. CASE line \in SendLines
    BY <1>5, <2>1, NextLine DEF Composing, BundlesSoFar
  <2>2. CASE line = 15
    <3>1. PICK r \in Bundles, c \in Bundles : Nest(r, c)
      BY <2>2 DEF Composing, BundlesSoFar
    <3>2. r \in S!Freed /\ c \in S!Freed
      BY <2>2, <3>1, NestReleased DEF Composing
    <3> QED BY <1>5, <2>2, <3>1, <3>2 DEF Nest
  <2> QED BY <2>1, <2>2, SMTT(20)
<1>8. BundlesSoFar'
  BY <1>1, <1>5, <1>7 DEF BundlesSoFar
<1> QED BY <1>1, <1>3, <1>4, <1>6, <1>8 DEF Composing

\* The destructor leaves nothing behind.
LEMMA DestroyInv ==
    ASSUME Composing, line = 20, S!destroy, line' = 1, word' = 0
    PROVE  Composing' /\ sret'.exc = "none"
<1>1. /\ S!Clear({m_address}) /\ m_address' = NULL /\ slife' = "destroyed"
      /\ sret' = [op |-> "destroy", exc |-> "none"]
  BY Zenon DEF S!destroy
<1>2. Heap'
  BY <1>1, ClearHeap, SenderConstants DEF Composing
<1>3. /\ UNCHANGED m_bundleInProgress /\ m_bundles' = <<>>
      /\ elems' = [b \in Bundles |-> IF b \in S!Freed THEN <<>> ELSE elems[b]]
  BY <1>1, ClearFacts
<1>4. MessageSoFar'
  BY NextLine DEF MessageSoFar
<1>5. BundlesSoFar'
  BY <1>3 DEF Composing, BundlesSoFar
<1> QED BY <1>1, <1>2, <1>4, <1>5 DEF Composing

-----------------------------------------------------------------------------
(* What send() puts onto the wire.                                         *)

\* u is the running concatenation in InBundle.
UpTo(u, b, held) ==
    u = [i \in 0..Len(elems[b]) |->
            IF i = 0 THEN <<>>
            ELSE u[i - 1] \o Opened(elems[b][i], stamp[b] = "later", held)]

\* What the recursive function in InBundle returns, when there is such a function.
LEMMA InBundleIs ==
    ASSUME NEW b, NEW held, NEW u, UpTo(u, b, held)
    PROVE  \E v : UpTo(v, b, held) /\ InBundle(b, held) = v[Len(elems[b])]
<1> DEFINE V == CHOOSE v : v = [i \in 0..Len(elems[b]) |->
                   IF i = 0 THEN <<>>
                   ELSE v[i - 1] \o Opened(elems[b][i], stamp[b] = "later", held)]
<1>1. InBundle(b, held) = V[Len(elems[b])]
  BY DEF InBundle
<1>2. \E v : v = [i \in 0..Len(elems[b]) |->
                IF i = 0 THEN <<>>
                ELSE v[i - 1] \o Opened(elems[b][i], stamp[b] = "later", held)]
  BY Zenon DEF UpTo
<1>3. V = [i \in 0..Len(elems[b]) |->
                IF i = 0 THEN <<>>
                ELSE V[i - 1] \o Opened(elems[b][i], stamp[b] = "later", held)]
  BY <1>2, Zenon
<1>4. UpTo(V, b, held)
  BY <1>3, Zenon DEF UpTo
<1> QED BY <1>1, <1>4, Zenon

\* The bundles of testSender() have at most two elements.
LEMMA BundleOf0 ==
    ASSUME NEW b, NEW held, Len(elems[b]) = 0
    PROVE  InBundle(b, held) = <<>>
<1> DEFINE u == [i \in 0..0 |-> <<>>]
<1>1. UpTo(u, b, held)
  BY DEF UpTo
<1>2. PICK v : UpTo(v, b, held) /\ InBundle(b, held) = v[0]
  BY <1>1, InBundleIs, Zenon
<1> QED BY <1>2 DEF UpTo

\* A bundle of one element holds what the element holds.
LEMMA BundleOf1 ==
    ASSUME NEW b, NEW held, Len(elems[b]) = 1, NEW T,
           Opened(elems[b][1], stamp[b] = "later", held) \in Seq(T)
    PROVE  InBundle(b, held) = Opened(elems[b][1], stamp[b] = "later", held)
<1> DEFINE x == Opened(elems[b][1], stamp[b] = "later", held)
<1> DEFINE u == [i \in 0..1 |-> IF i = 0 THEN <<>> ELSE <<>> \o x]
<1>1. UpTo(u, b, held)
  BY DEF UpTo
<1>2. PICK v : UpTo(v, b, held) /\ InBundle(b, held) = v[1]
  BY <1>1, InBundleIs, Zenon
<1>3. v[0] = <<>> /\ v[1] = v[0] \o x
  BY <1>2 DEF UpTo
<1> HIDE DEF x
<1>4. x \in Seq(T)
  BY DEF x
<1> QED BY <1>2, <1>3, <1>4 DEF x

\* A bundle of two elements holds what they hold, in order.
LEMMA BundleOf2 ==
    ASSUME NEW b, NEW held, Len(elems[b]) = 2, NEW T,
           Opened(elems[b][1], stamp[b] = "later", held) \in Seq(T),
           Opened(elems[b][2], stamp[b] = "later", held) \in Seq(T)
    PROVE  InBundle(b, held) =
              Opened(elems[b][1], stamp[b] = "later", held)
              \o Opened(elems[b][2], stamp[b] = "later", held)
<1> DEFINE x == Opened(elems[b][1], stamp[b] = "later", held)
           y == Opened(elems[b][2], stamp[b] = "later", held)
<1> DEFINE u == [i \in 0..2 |-> IF i = 0 THEN <<>>
                                ELSE IF i = 1 THEN <<>> \o x ELSE (<<>> \o x) \o y]
<1>1. UpTo(u, b, held)
  BY DEF UpTo
<1>2. PICK v : UpTo(v, b, held) /\ InBundle(b, held) = v[2]
  BY <1>1, InBundleIs, Zenon
<1>3. \A i \in 0..2 : v[i] = IF i = 0 THEN <<>>
        ELSE v[i - 1] \o Opened(elems[b][i], stamp[b] = "later", held)
  BY <1>2, Zenon DEF UpTo
<1>4. /\ 0 \in 0..2 /\ 1 \in 0..2 /\ 2 \in 0..2 /\ 1 # 0 /\ 2 # 0
      /\ 1 - 1 = 0 /\ 2 - 1 = 1
  OBVIOUS
<1>5. v[1] = v[0] \o x /\ v[2] = v[1] \o y
  BY <1>3, <1>4, Zenon
<1>6. v[0] = <<>>
  BY <1>3, <1>4, Zenon
<1>7. v[1] = x
  BY <1>5, <1>6
<1> QED BY <1>2, <1>5, <1>7, Zenon

-----------------------------------------------------------------------------
\* Held satisfies its equation, when something does.
LEMMA HeldIs ==
    ASSUME NEW h, h = [b \in Bundles |-> InBundle(b, h)]
    PROVE  Held = [b \in Bundles |-> InBundle(b, Held)]
<1> DEFINE V == CHOOSE v : v = [b \in Bundles |-> InBundle(b, v)]
<1>1. Held = V
  BY DEF Held
<1>2. \E v : v = [b \in Bundles |-> InBundle(b, v)]
  BY Zenon
<1>3. V = [b \in Bundles |-> InBundle(b, V)]
  BY <1>2, Zenon
<1> QED BY <1>1, <1>3, Zenon

\* A message that is sent alone.
LEMMA UnpackedAlone ==
    ASSUME Composing, line \in SendLines
    PROVE  Unpacked(S!Packet) = <<OnWire(MessageAt[line])>>
<1>1. /\ Begun(MessageAt[line], Len(Sends[MessageAt[line]].types))
      /\ m_bundles = <<>> /\ MessageAt[line] \in 1..7 /\ MessageAt[line] # 5
  BY Placement DEF Composing, MessageSoFar, BundlesSoFar, SendLines, MessageAt
<1>2. S!Packet.root = m_message /\ S!Packet.path = m_addressPattern
  BY <1>1, Zenon DEF S!Packet
<1>3. args[m_message] = Sends[MessageAt[line]].types
  BY <1>1, SendsTyped, NoWords, Zenon DEF Begun
<1>4. m_message \in Messages /\ m_addressPattern = Sends[MessageAt[line]].path
  BY <1>1, Zenon DEF Begun
<1> QED BY <1>1, <1>2, <1>3, <1>4, Zenon DEF Unpacked, Packed, OnWire

\* Two sequences of one element.
LEMMA Joined ==
    ASSUME NEW A, NEW a \in A, NEW b \in A
    PROVE  <<a>> \o <<b>> = <<a, b>>
<1> DEFINE s == <<a>> \o <<b>>
<1>1. s \in Seq(A) /\ Len(s) = 2 /\ s[1] = a /\ s[2] = b
  OBVIOUS
<1> HIDE DEF s
<1>2. s = <<s[1], s[2]>>
  BY <1>1, TwoElements
<1> QED BY <1>1, <1>2, Zenon DEF s

\* The root bundle: message 4, and message 5 in the bundle inside it.
LEMMA UnpackedNest ==
    ASSUME Composing, line = 15
    PROVE  Unpacked(S!Packet) = <<OnWire(4), OnWire(5)>>
<1>1. PICK r, c \in Bundles : Nest(r, c)
  BY DEF Composing, BundlesSoFar
<1>2. m_bundles = <<r>>
  BY <1>1 DEF Nest
<1>3. S!Packet.root = r
  <2>1. m_bundles # <<>> /\ Head(m_bundles) = r
    BY <1>2
  <2> QED BY <2>1, Zenon DEF S!Packet
<1>4. /\ Len(elems[r]) = 2 /\ Complete(elems[r][1], 4) /\ elems[r][2].handle = c
      /\ stamp[r] = "now" /\ c # r
  BY <1>1 DEF Nest
<1>5. /\ Len(elems[c]) = 1 /\ Complete(elems[c][1], 5) /\ stamp[c] = "later"
      /\ \A b \in Bundles \ {r, c} : elems[b] = <<>>
  BY <1>1 DEF Nest
<1>6. r \notin Messages /\ c \notin Messages
  BY SenderConstants
<1> DEFINE W == {OnWire(n) : n \in 1..7}
           h == [b \in Bundles |-> IF b = r THEN <<OnWire(4)>> \o <<OnWire(5)>>
                                   ELSE IF b = c THEN <<OnWire(5)>> ELSE <<>>]
<1>7. OnWire(4) \in W /\ OnWire(5) \in W
  <2>1. 4 \in 1..7 /\ 5 \in 1..7
    OBVIOUS
  <2> QED BY <2>1, Zenon
<1>8. ASSUME NEW held
      PROVE  /\ Opened(elems[r][1], stamp[r] = "later", held) = <<OnWire(4)>>
             /\ Opened(elems[r][2], stamp[r] = "later", held) = held[c]
             /\ Opened(elems[c][1], stamp[c] = "later", held) = <<OnWire(5)>>
  <2>1. /\ OnWire(4) = [path |-> Sends[4].path, types |-> Sends[4].types,
                        late |-> (stamp[r] = "later")]
        /\ OnWire(5) = [path |-> Sends[5].path, types |-> Sends[5].types,
                        late |-> (stamp[c] = "later")]
    BY <1>4, <1>5 DEF OnWire
  <2>2. Complete(elems[r][1], 4) /\ Complete(elems[c][1], 5)
    BY <1>4, <1>5
  <2>3. Opened(elems[r][1], stamp[r] = "later", held) = <<OnWire(4)>>
    <3>1. Opened(elems[r][1], stamp[r] = "later", held) =
             <<[path |-> Sends[4].path, types |-> Sends[4].types,
                late |-> (stamp[r] = "later")]>>
      BY <2>2, Zenon DEF Opened, Complete, Packed
    <3> QED BY <2>1, <3>1, Zenon
  <2>4. Opened(elems[c][1], stamp[c] = "later", held) = <<OnWire(5)>>
    <3>1. Opened(elems[c][1], stamp[c] = "later", held) =
             <<[path |-> Sends[5].path, types |-> Sends[5].types,
                late |-> (stamp[c] = "later")]>>
      BY <2>2, Zenon DEF Opened, Complete, Packed
    <3> QED BY <2>1, <3>1, Zenon
  <2>5. Opened(elems[r][2], stamp[r] = "later", held) = held[c]
    BY <1>4, <1>6, Zenon DEF Opened
  <2> QED BY <2>3, <2>4, <2>5
<1> HIDE DEF W
<1>9. <<OnWire(4)>> \in Seq(W) /\ <<OnWire(5)>> \in Seq(W)
  BY <1>7
<1>10. ASSUME NEW held
       PROVE  /\ InBundle(c, held) = <<OnWire(5)>>
              /\ held[c] = <<OnWire(5)>> =>
                    InBundle(r, held) = <<OnWire(4)>> \o <<OnWire(5)>>
              /\ \A b \in Bundles \ {r, c} : InBundle(b, held) = <<>>
  <2>1. InBundle(c, held) = <<OnWire(5)>>
    <3>1. Opened(elems[c][1], stamp[c] = "later", held) = <<OnWire(5)>>
      BY <1>8, Zenon
    <3>2. Len(elems[c]) = 1
      BY <1>5
    <3>3. InBundle(c, held) = Opened(elems[c][1], stamp[c] = "later", held)
      BY <3>1, <3>2, <1>9, BundleOf1, Zenon
    <3> QED BY <3>1, <3>3, Zenon
  <2>2. ASSUME held[c] = <<OnWire(5)>>
        PROVE  InBundle(r, held) = <<OnWire(4)>> \o <<OnWire(5)>>
    <3>1. /\ Opened(elems[r][1], stamp[r] = "later", held) = <<OnWire(4)>>
          /\ Opened(elems[r][2], stamp[r] = "later", held) = <<OnWire(5)>>
      BY <2>2, <1>8, Zenon
    <3>2. Len(elems[r]) = 2
      BY <1>4
    <3>3. InBundle(r, held) = Opened(elems[r][1], stamp[r] = "later", held)
                              \o Opened(elems[r][2], stamp[r] = "later", held)
      BY <3>1, <3>2, <1>9, BundleOf2, Zenon
    <3> QED BY <3>1, <3>3, Zenon
  <2>3. \A b \in Bundles \ {r, c} : InBundle(b, held) = <<>>
    BY <1>5, BundleOf0, Zenon
  <2> QED BY <2>1, <2>2, <2>3, Zenon
<1>11. h = [b \in Bundles |-> InBundle(b, h)]
  <2>1. h[c] = <<OnWire(5)>> /\ h[r] = <<OnWire(4)>> \o <<OnWire(5)>>
    BY <1>4, Zenon
  <2>2. \A b \in Bundles : h[b] = InBundle(b, h)
    BY <2>1, <1>10, Zenon
  <2> QED BY <2>2, Zenon
<1>12. Held = [b \in Bundles |-> InBundle(b, Held)]
  BY <1>11, HeldIs, Zenon
<1>13. Held[c] = <<OnWire(5)>>
  BY <1>10, <1>12, Zenon
<1>14. Held[r] = <<OnWire(4)>> \o <<OnWire(5)>>
  BY <1>10, <1>12, <1>13, Zenon
<1>15. <<OnWire(4)>> \o <<OnWire(5)>> = <<OnWire(4), OnWire(5)>>
  BY <1>7, Joined, Zenon
<1> QED BY <1>3, <1>6, <1>14, <1>15 DEF Unpacked

-----------------------------------------------------------------------------
(* A step of testSender().                                                 *)

\* Each statement is one call of the sender.
LEMMA Performed ==
    ASSUME NEW c, Perform(c)
    PROVE  /\ c = <<"construct">> => construct /\ UNCHANGED wire
           /\ c = <<"setup">> => S!setup /\ UNCHANGED wire
           /\ \A n : c = <<"message", n>> => BuildMessage(Sends[n]) /\ UNCHANGED wire
           /\ \A k : c = <<"beginBundle", k>> => S!beginBundleAt(k) /\ UNCHANGED wire
           /\ c = <<"endBundle">> => S!endBundle /\ UNCHANGED wire
           /\ c = <<"send">> => Send
           /\ c = <<"destroy">> => S!destroy /\ UNCHANGED wire
  BY DEF Perform

\* Where a step leaves the script.
Moved ==
    /\ line \in BuildLines =>
          IF word =< Len(Sends[MessageAt[line]].types)
          THEN word' = word + 1 /\ line' = line
          ELSE word' = 0 /\ line' = line + 1
    /\ line \notin BuildLines =>
          word' = 0 /\ line' = IF line = 20 THEN 1 ELSE line + 1

\* A step of testSender() is at a statement and moves on from it.
LEMMA ScriptMoves ==
    ASSUME Positioned, NEW then, RunSender(then)
    PROVE  Moved
<1>1. /\ line \in 1..20 /\ Len(testSender) = 20
      /\ IF Continues(testSender[line])
         THEN word' = word + 1 /\ line' = line
         ELSE word' = 0 /\ line' = (line % Len(testSender)) + 1
  BY ScriptIs DEF Positioned, RunSender
<1>2. CASE line \in BuildLines
  <2>1. testSender[line] = <<"message", MessageAt[line]>> /\ line # 20
    BY <1>2, ScriptIs DEF BuildLines
  <2>2. Continues(testSender[line]) <=> word =< Len(Sends[MessageAt[line]].types)
    BY <2>1 DEF Continues
  <2>3. line % 20 = line
    BY <1>1, <2>1
  <2> QED BY <1>1, <1>2, <2>2, <2>3 DEF Moved
<1>3. CASE line \notin BuildLines
  <2>1. testSender[line][1] # "message"
    BY <1>1, <1>3, ScriptIs DEF BuildLines, SendLines
  <2>2. line' = (line % 20) + 1 /\ word' = 0
    BY <1>1, <2>1 DEF Continues
  <2>3. line % 20 = IF line = 20 THEN 0 ELSE line
    BY <1>1
  <2> QED BY <1>3, <2>2, <2>3 DEF Moved
<1> QED BY <1>2, <1>3

\* No statement throws, and each leaves the sender as the next one needs it.
LEMMA Composes ==
    ASSUME Composing, Positioned, NEW then, RunSender(then)
    PROVE  Composing' /\ sret'.exc = "none"
<1>1. Perform(testSender[line]) /\ Moved /\ line \in 1..20 /\ word \in Nat
  BY ScriptMoves DEF RunSender, Positioned
<1>2. CASE line \in BuildLines
  <2> DEFINE n == MessageAt[line]
  <2>1. /\ testSender[line] = <<"message", n>> /\ n \in 1..7
        /\ word =< Len(Sends[n].types) + 1
    BY <1>2, ScriptIs, Placement DEF Positioned
  <2>2. Len(Sends[n].types) \in Nat
    BY <2>1, SendsTyped
  <2>3. BuildMessage(Sends[n])
    BY <1>1, <2>1, Performed, Zenon
  <2>4. /\ word =< Len(Sends[n].types) => word' = word + 1 /\ line' = line
        /\ ~(word =< Len(Sends[n].types)) => word' = 0 /\ line' = line + 1
    BY <1>1, <1>2 DEF Moved
  <2> HIDE DEF n
  <2>5. CASE word = 0 /\ S!beginMessage(Sends[n].path)
    <3>1. word' = 1 /\ line' = line
      BY <2>2, <2>4, <2>5
    <3> QED BY <3>1, <1>2, <2>5, BeginInv, Zenon DEF n
  <2>6. CASE word \in 1..Len(Sends[n].types) /\ S!addArg(Sends[n].types[word])
    <3>1. word' = word + 1 /\ line' = line
      BY <2>2, <2>4, <2>6
    <3> QED BY <3>1, <1>2, <2>6, AddInv, Zenon DEF n
  <2>7. CASE word = Len(Sends[n].types) + 1 /\ S!endMessage
    <3>1. word' = 0 /\ line' = line + 1
      BY <2>2, <2>4, <2>7
    <3>2. CASE line \notin {10, 12}
      BY <3>1, <3>2, <1>2, <2>7, EndInv, Zenon DEF n
    <3>3. CASE line = 10
      <4>1. line' = 11
        BY <3>1, <3>3
      <4> QED BY <4>1, <3>1, <3>3, <2>7, EndInRoot, Zenon DEF n
    <3>4. CASE line = 12
      <4>1. line' = 13
        BY <3>1, <3>4
      <4> QED BY <4>1, <3>1, <3>4, <2>7, EndInNested, Zenon DEF n
    <3> QED BY <3>2, <3>3, <3>4, Zenon
  <2> QED BY <2>3, <2>5, <2>6, <2>7, Zenon DEF BuildMessage
<1>3. CASE line \notin BuildLines
  <2>1. word' = 0 /\ line' = IF line = 20 THEN 1 ELSE line + 1
    BY <1>1, <1>3 DEF Moved
  <2>2. CASE line = 1
    <3>1. construct
      BY <1>1, <2>2, ScriptIs, Performed, Zenon
    <3> QED BY <2>1, <2>2, <3>1, ConstructInv
  <2>3. CASE line = 2
    <3>1. S!setup
      BY <1>1, <2>3, ScriptIs, Performed, Zenon
    <3> QED BY <2>1, <2>3, <3>1, SetupInv
  <2>4. CASE line = 9
    <3>1. S!beginBundleAt("now")
      BY <1>1, <2>4, ScriptIs, Performed, Zenon
    <3> QED BY <2>1, <2>4, <3>1, BeginRoot
  <2>5. CASE line = 11
    <3>1. S!beginBundleAt("later")
      BY <1>1, <2>5, ScriptIs, Performed, Zenon
    <3> QED BY <2>1, <2>5, <3>1, BeginNested
  <2>6. CASE line \in {13, 14}
    <3>1. S!endBundle
      BY <1>1, <2>6, ScriptIs, Performed, Zenon
    <3>2. line' = line + 1
      BY <2>1, <2>6
    <3> QED BY <2>1, <2>6, <3>1, <3>2, EndBundleInv, Zenon
  <2>7. CASE line \in SendLines \cup {15}
    <3>1. S!send
      BY <1>1, <2>7, ScriptIs, Performed, Zenon DEF Send
    <3>2. line' = line + 1
      BY <2>1, <2>7 DEF SendLines
    <3> QED BY <2>1, <2>7, <3>1, <3>2, SendInv, Zenon
  <2>8. CASE line = 20
    <3>1. S!destroy
      BY <1>1, <2>8, ScriptIs, Performed, Zenon
    <3> QED BY <2>1, <2>8, <3>1, DestroyInv
  <2>9. line \in {1, 2, 9, 11, 13, 14, 20} \cup SendLines \cup {15}
    BY <1>1, <1>3 DEF BuildLines, SendLines
  <2> QED BY <2>2, <2>3, <2>4, <2>5, <2>6, <2>7, <2>8, <2>9, Zenon
<1> QED BY <1>2, <1>3

\* The script goes on, or main() does.
LEMMA RunsOn ==
    ASSUME Composing, Positioned, Sending, NEW then, RunSender(then)
    PROVE  /\ stage' = IF line = 20 THEN then ELSE stage
           /\ Positioned'
<1>1. stage' = IF line = 20 THEN then ELSE stage
  BY Composes, ScriptIs DEF RunSender
<1>2. Moved /\ line \in 1..20 /\ word \in Nat
  BY ScriptMoves DEF Positioned
<1>3. CASE line \in BuildLines
  <2>1. MessageAt[line] \in 1..7 /\ word =< Len(Sends[MessageAt[line]].types) + 1
    BY <1>3, Placement DEF Positioned
  <2>2. Len(Sends[MessageAt[line]].types) \in Nat
    BY <2>1, SendsTyped
  <2>3. line # 20 /\ line + 1 \in 1..20 /\ line + 1 \notin BuildLines
    BY <1>3 DEF BuildLines
  <2>4. Sending'
    BY <1>1, <2>3 DEF Sending
  <2>5. CASE word =< Len(Sends[MessageAt[line]].types)
    <3>1. word' = word + 1 /\ line' = line
      BY <1>2, <1>3, <2>5 DEF Moved
    <3> QED BY <3>1, <1>1, <1>2, <1>3, <2>2, <2>4, <2>5 DEF Positioned
  <2>6. CASE ~(word =< Len(Sends[MessageAt[line]].types))
    <3>1. word' = 0 /\ line' = line + 1
      BY <1>2, <1>3, <2>6 DEF Moved
    <3> QED BY <3>1, <1>1, <2>3, <2>4 DEF Positioned
  <2> QED BY <1>1, <2>5, <2>6
<1>4. CASE line \notin BuildLines
  <2>1. word' = 0 /\ line' = IF line = 20 THEN 1 ELSE line + 1
    BY <1>2, <1>4 DEF Moved
  <2>2. line' \in 1..20 /\ (line # 20 => Sending') /\ (line = 20 => line' = 1)
    BY <1>1, <1>2, <2>1 DEF Sending
  <2>3. line' \in BuildLines =>
           MessageAt[line'] \in 1..7 /\ Len(Sends[MessageAt[line']].types) \in Nat
    <3>1. line' \in BuildLines => MessageAt[line'] \in 1..7
      BY Placement
    <3>2. \A n \in 1..7 : Len(Sends[n].types) \in Nat
      BY SendsTyped
    <3> QED BY <3>1, <3>2, Zenon
  <2> QED BY <1>1, <2>1, <2>2, <2>3 DEF Positioned
<1> QED BY <1>3, <1>4

=============================================================================
