--------------------------- MODULE OscObjectProofs ---------------------------
(***************************************************************************)
(* Theorems about OscObject for any objects, any attachments (trees or not)*)
(* and callbacks that attach and detach while the loops below them run.    *)
(*                                                                         *)
(* TakerMayChange is not inductive.  It follows from two facts about a     *)
(* dispatch: without a change every iterator is valid, and after a change  *)
(* by callbacks that have all taken their message, control is in a callback*)
(* or on its way out with the answer true (Answered).                      *)
(*                                                                         *)
(* OverflowNeedsCycle follows from StackIsPath by counting: a path longer  *)
(* than there are nodes meets one of them twice.  EachInTurn needs Order,  *)
(* which says how far the loops in progress are among the turns taken; a   *)
(* turn is known by its call stack, so no induction over the tree is needed*)
(***************************************************************************)
EXTENDS OscObject, SequenceTheorems, FiniteSetTheorems, TLAPS

Answered ==
    /\ Between => stack = <<>>
    /\ meddling = "none" => \A i \in 1..Len(stack) : stack[i].valid
    /\ status = "busy" /\ meddling = "changed" => pc \in {"callback", "true"}

OInv == TypeOK /\ StackIsPath /\ Answered /\ TakerMayChange

-----------------------------------------------------------------------------
(* The vector of children.                                                *)

\* A search ends at a place of the vector or behind it.
LEMMA FindInside ==
    ASSUME NEW S, NEW v \in Seq(S), NEW o
    PROVE  find(v, o) \in 1..(Len(v) + 1)
<1> DEFINE passed == {i \in 1..Len(v) : \A j \in 1..i : v[j] # o}
<1>1. Len(v) \in Nat
  BY LenProperties
<1>2. IsFiniteSet(1..Len(v)) /\ Cardinality(1..Len(v)) = Len(v)
  BY <1>1, FS_Interval, SMTT(20)
<1>3. passed \subseteq 1..Len(v)
  OBVIOUS
<1> HIDE DEF passed
<1>4. IsFiniteSet(passed) /\ Cardinality(passed) =< Cardinality(1..Len(v))
  BY <1>2, <1>3, FS_Subset
<1>5. Cardinality(passed) \in Nat
  BY <1>4, FS_CardinalityType
<1>6. 1 + Cardinality(passed) \in 1..(Len(v) + 1)
  BY <1>1, <1>2, <1>4, <1>5
<1> QED
  BY <1>6 DEF find, passed

\* removeOscObject() leaves the objects before the one it takes out in their
\* places.
LEMMA RemovedBehind ==
    ASSUME NEW S, NEW v \in Seq(S), NEW o
    PROVE  /\ removed(v, o) \in Seq(S)
           /\ \A i \in 1..(find(v, o) - 1) :
                 i \in 1..Len(removed(v, o)) /\ removed(v, o)[i] = v[i]
<1>1. CASE find(v, o) \notin 1..Len(v)
  <2>1. Len(v) \in Nat /\ find(v, o) = Len(v) + 1
    BY <1>1, FindInside, LenProperties
  <2>2. removed(v, o) = v
    BY <1>1 DEF removed
  <2> QED
    BY <2>1, <2>2
<1>2. CASE find(v, o) \in 1..Len(v)
  <2> DEFINE k == find(v, o)
             p == SubSeq(v, 1, k - 1)
             q == SubSeq(v, k + 1, Len(v))
  <2>1. Len(v) \in Nat /\ \A i \in 1..Len(v) : v[i] \in S
    BY LenProperties, ElementOfSeq
  <2>2. k \in 1..Len(v)
    BY <1>2
  <2> HIDE DEF k
  <2>3. /\ p \in Seq(S) /\ Len(p) = k - 1
        /\ \A i \in 1..(k - 1) : p[i] = v[i]
    BY <2>1, <2>2, SubSeqProperties
  <2>4. /\ q \in Seq(S) /\ Len(q) = Len(v) - k
        /\ \A i \in 1..(Len(v) - k) : q[i] = v[k + i]
    BY <2>1, <2>2, SubSeqProperties
  <2> HIDE DEF p, q
  <2> DEFINE r == p \o q
  <2>5. /\ r \in Seq(S) /\ Len(r) = Len(v) - 1
        /\ \A i \in 1..(Len(v) - 1) :
              r[i] = IF i =< k - 1 THEN p[i] ELSE q[i - (k - 1)]
    BY <2>1, <2>2, <2>3, <2>4, ConcatProperties
  <2>6. removed(v, o) = r
    BY <1>2 DEF removed, erase, k, p, q
  <2> HIDE DEF r
  <2>7. \A i \in 1..(k - 1) : i \in 1..Len(r) /\ r[i] = v[i]
    BY <2>1, <2>2, <2>3, <2>5
  <2> QED
    BY <2>5, <2>6, <2>7 DEF k
<1> QED
  BY <1>1, <1>2

-----------------------------------------------------------------------------
(* Frames.                                                                 *)

\* The innermost frame, and the stack without it.
LEMMA Frames ==
    ASSUME stack \in Seq(Frame), stack # <<>>
    PROVE  /\ Len(stack) \in Nat \ {0}
           /\ top \in Frame
           /\ caller \in Seq(Frame)
           /\ Len(caller) = Len(stack) - 1
           /\ \A i \in 1..(Len(stack) - 1) : caller[i] = stack[i]
<1>1. Len(stack) \in Nat \ {0}
  BY EmptySeq
<1>2. \A i \in 1..Len(stack) : stack[i] \in Frame
  BY ElementOfSeq
<1>3. /\ caller \in Seq(Frame)
      /\ Len(caller) = IF 1 =< Len(stack) - 1 THEN Len(stack) - 1 ELSE 0
      /\ \A i \in 1..(Len(stack) - 1) : caller[i] = stack[1 + i - 1]
  BY <1>1, <1>2, SubSeqProperties DEF caller
<1>4. top \in Frame
  BY <1>1, <1>2 DEF top
<1>5. Len(caller) = Len(stack) - 1
  <2>1. \A k \in Nat \ {0} : (IF 1 =< k - 1 THEN k - 1 ELSE 0) = k - 1
    OBVIOUS
  <2> QED
    BY <1>1, <1>3, <2>1, Zenon
<1>6. \A i \in 1..(Len(stack) - 1) : caller[i] = stack[i]
  BY <1>1, <1>3
<1> QED
  BY <1>1, <1>3, <1>4, <1>5, <1>6

\* A vector holds objects.
LEMMA Vectors ==
    ASSUME TypeOK, NEW n \in Nodes
    PROVE  /\ m_objects[n] \in Seq(Objects)
           /\ Len(m_objects[n]) \in Nat
           /\ \A i \in 1..Len(m_objects[n]) : m_objects[n][i] \in Objects
<1>1. m_objects[n] \in Seq(Objects)
  BY DEF TypeOK
<1> QED
  BY <1>1, LenProperties, ElementOfSeq

-----------------------------------------------------------------------------
(* The invariant.                                                          *)

LEMMA InitO ==
    Init => OInv
<1> SUFFICES ASSUME Init PROVE OInv
  OBVIOUS
<1>1. TypeOK
  <2>1. <<>> \in Seq(Objects) /\ <<>> \in Seq(Frame) /\ <<>> \in Seq(Seq(Frame))
    BY EmptySeq
  <2> QED
    BY <2>1 DEF Init, TypeOK
<1>2. Len(stack) = 0
  BY EmptySeq DEF Init
<1>3. StackIsPath /\ Answered /\ TakerMayChange
  BY <1>2 DEF Init, StackIsPath, Returned, Answered, TakerMayChange
<1> QED
  BY <1>1, <1>3 DEF OInv

\* A vector changes, and keeps what the spared iterators point at.
LEMMA ChangeInv ==
    ASSUME OInv, NEW n \in Nodes, NEW new \in Seq(Objects), NEW spared,
           \A i \in spared : i \in 1..Len(m_objects[n]) =>
               i \in 1..Len(new) /\ new[i] = m_objects[n][i],
           Change(n, new, spared)
    PROVE  OInv'
<1>1. TypeOK /\ StackIsPath /\ Answered /\ TakerMayChange
  BY DEF OInv
<1>2. m_objects' \in [Nodes -> Seq(Objects)] /\ m_objects'[n] = new
      /\ \A k \in Nodes \ {n} : m_objects'[k] = m_objects[k]
  BY <1>1 DEF TypeOK, Change
<1>3. CASE Between /\ status' = "idle" /\ stack' = stack /\ offered' = <<>>
           /\ accepts' = {} /\ pc' = "loop" /\ meddling' = "none"
  <2>1. stack' = <<>> /\ Len(stack') = 0
    BY <1>1, <1>3, EmptySeq DEF Answered
  <2>2. TypeOK'
    <3>1. <<>> \in Seq(Seq(Frame))
      BY EmptySeq
    <3> QED
      BY <3>1, <1>1, <1>2, <1>3 DEF TypeOK
  <2>3. StackIsPath' /\ Answered' /\ TakerMayChange'
    BY <2>1, <1>3 DEF StackIsPath, Returned, Answered, TakerMayChange
  <2> QED
    BY <2>2, <2>3 DEF OInv
<1>4. CASE /\ InCallback
           /\ stack' = [i \in 1..Len(stack) |->
                          [stack[i] EXCEPT !.valid =
                             @ /\ (stack[i].node = n => stack[i].iter \in spared)]]
           /\ meddling' = IF meddling = "none" THEN "changed" ELSE meddling
           /\ UNCHANGED <<accepts, pc, offered, status>>
  <2>1. Len(stack) \in Nat \ {0} /\ \A i \in 1..Len(stack) : stack[i] \in Frame
    BY <1>1, <1>4, Frames, ElementOfSeq DEF TypeOK, StackIsPath, InCallback
  <2>2. \A i \in 1..Len(stack) :
           /\ stack'[i] \in Frame
           /\ stack'[i].node = stack[i].node /\ stack'[i].iter = stack[i].iter
           /\ stack'[i].valid =>
                 stack[i].valid /\ (stack[i].node = n => stack[i].iter \in spared)
    BY <1>4, <2>1 DEF Frame
  <2>3. stack' \in Seq(Frame) /\ Len(stack') = Len(stack) /\ stack' # <<>>
    <3>1. stack' \in [1..Len(stack) -> Frame]
      BY <1>4, <2>2
    <3>2. stack' \in Seq(Frame)
      BY <3>1, <2>1, SeqDef
    <3>3. Len(stack') = Len(stack)
      BY <3>1, <3>2, <2>1, LenProperties
    <3> QED
      BY <3>2, <3>3, <2>1, EmptySeq
  <2>4. TypeOK'
    BY <1>1, <1>2, <1>4, <2>3 DEF TypeOK
  <2>5. StackIsPath'
    <3>1. ASSUME NEW i \in 1..(Len(stack) - 1), stack'[i].valid
          PROVE  /\ stack'[i].iter \in 1..Len(m_objects'[stack'[i].node])
                 /\ stack'[i + 1].node
                       = m_objects'[stack'[i].node][stack'[i].iter]
      <4>1. i \in 1..Len(stack) /\ i + 1 \in 1..Len(stack)
        BY <2>1
      <4>2. /\ stack[i].valid /\ stack[i].node \in Nodes
            /\ stack[i].node = n => stack[i].iter \in spared
            /\ stack'[i].node = stack[i].node /\ stack'[i].iter = stack[i].iter
            /\ stack'[i + 1].node = stack[i + 1].node
        BY <2>1, <2>2, <3>1, <4>1 DEF Frame
      <4>3. /\ stack[i].iter \in 1..Len(m_objects[stack[i].node])
            /\ stack[i + 1].node = m_objects[stack[i].node][stack[i].iter]
        BY <1>1, <4>2 DEF StackIsPath
      <4>4. CASE stack[i].node = n
        BY <1>2, <4>2, <4>3, <4>4
      <4>5. CASE stack[i].node # n
        BY <1>2, <4>2, <4>3, <4>5
      <4> QED
        BY <4>4, <4>5
    <3>2. stack'[1].node = Receiver
      BY <1>1, <1>4, <2>1, <2>2 DEF StackIsPath, InCallback
    <3>3. ~Returned'
      BY <1>4 DEF Returned, InCallback
    <3> QED
      BY <2>3, <3>1, <3>2, <3>3 DEF StackIsPath
  <2>6. Answered' /\ TakerMayChange'
    BY <1>4 DEF Answered, TakerMayChange, InCallback, Between
  <2> QED
    BY <2>4, <2>5, <2>6 DEF OInv
<1> QED
  BY <1>3, <1>4 DEF Change

\* processOsc() of a node is called: the receiver's, for a new message, or that
\* of the object the innermost iterator points at.
LEMMA CallInv ==
    ASSUME TypeOK, NEW n \in Nodes, Call(n), UNCHANGED m_objects, pc' = "loop",
           \/ stack = <<>> /\ n = Receiver
           \/ /\ status = "busy" /\ StackIsPath
              /\ top.iter \in 1..Len(m_objects[top.node])
              /\ n = m_objects[top.node][top.iter]
    PROVE  /\ stack' \in Seq(Frame)
           /\ status' \in {"busy", "overflow"}
           /\ StackIsPath'
           /\ (\A i \in 1..Len(stack) : stack[i].valid)
                 => \A i \in 1..Len(stack') : stack'[i].valid
<1> DEFINE frame == [node |-> n, iter |-> 1, valid |-> TRUE]
<1>1. stack \in Seq(Frame) /\ Len(stack) \in Nat /\ frame \in Frame
  BY LenProperties DEF TypeOK, Frame
<1>2. CASE stack' = stack /\ status' = "overflow"
  <2>1. StackIsPath'
    <3>1. CASE stack = <<>>
      BY <1>2, <3>1, EmptySeq DEF StackIsPath, Returned
    <3>2. CASE StackIsPath
      BY <1>2, <3>2 DEF StackIsPath, Returned
    <3> QED
      BY <3>1, <3>2
  <2> QED
    BY <1>1, <1>2, <2>1
<1>3. CASE stack' = Append(stack, frame) /\ status' = "busy"
  <2> HIDE DEF frame
  <2>1. /\ stack' \in Seq(Frame) /\ stack' # <<>>
        /\ Len(stack') = Len(stack) + 1
        /\ \A i \in 1..Len(stack) : stack'[i] = stack[i]
        /\ stack'[Len(stack) + 1] = frame
    BY <1>1, <1>3, AppendProperties
  <2>2. frame.node = n /\ frame.valid
    BY DEF frame
  <2>3. ~Returned'
    BY DEF Returned
  <2>4. CASE stack = <<>> /\ n = Receiver
    <3>1. Len(stack) = 0
      BY <2>4, EmptySeq
    <3> QED
      BY <1>3, <2>1, <2>2, <2>3, <2>4, <3>1 DEF StackIsPath
  <2>5. CASE /\ status = "busy" /\ StackIsPath
             /\ top.iter \in 1..Len(m_objects[top.node])
             /\ n = m_objects[top.node][top.iter]
    <3>1. Len(stack) \in Nat \ {0} /\ stack'[1].node = Receiver
      <4>1. stack # <<>> /\ stack[1].node = Receiver
        BY <2>5 DEF StackIsPath
      <4>2. Len(stack) \in Nat \ {0}
        BY <1>1, <4>1, EmptySeq
      <4>3. 1 \in 1..Len(stack)
        BY <4>2
      <4> QED
        BY <2>1, <4>1, <4>2, <4>3
    <3>2. ASSUME NEW i \in 1..(Len(stack') - 1), stack'[i].valid
          PROVE  /\ stack'[i].iter \in 1..Len(m_objects'[stack'[i].node])
                 /\ stack'[i + 1].node
                       = m_objects'[stack'[i].node][stack'[i].iter]
      <4>1. CASE i = Len(stack)
        <5>1. stack'[i] = top /\ stack'[i + 1].node = n
          BY <2>1, <2>2, <3>1, <4>1 DEF top
        <5> QED
          BY <5>1, <2>5
      <4>2. CASE i # Len(stack)
        <5>1. i \in 1..(Len(stack) - 1) /\ i \in 1..Len(stack)
              /\ i + 1 \in 1..Len(stack)
          BY <2>1, <3>1, <4>2
        <5>2. stack'[i] = stack[i] /\ stack'[i + 1] = stack[i + 1]
          BY <2>1, <5>1
        <5>3. /\ stack[i].iter \in 1..Len(m_objects[stack[i].node])
              /\ stack[i + 1].node = m_objects[stack[i].node][stack[i].iter]
          BY <2>5, <3>2, <5>1, <5>2, SMTT(20) DEF StackIsPath
        <5> QED
          BY <5>2, <5>3
      <4> QED
        BY <4>1, <4>2
    <3>3. StackIsPath'
      BY <2>1, <2>3, <3>1, <3>2 DEF StackIsPath
    <3>4. (\A i \in 1..Len(stack) : stack[i].valid)
             => \A i \in 1..Len(stack') : stack'[i].valid
      BY <1>1, <2>1, <2>2
    <3> QED
      BY <1>3, <2>1, <3>3, <3>4, SMTT(20)
  <2> QED
    BY <2>4, <2>5
<1> QED
  BY <1>2, <1>3 DEF Call

\* The innermost processOsc() returns to the loop that called it.
LEMMA ReturnInv ==
    ASSUME TypeOK, StackIsPath, status = "busy", UNCHANGED m_objects,
           NEW answer, Return(answer)
    PROVE  /\ stack' \in Seq(Frame)
           /\ status' \in {"busy", "done"}
           /\ StackIsPath'
           /\ Between' => stack' = <<>>
           /\ (\A i \in 1..Len(stack) : stack[i].valid)
                 => \A i \in 1..Len(stack') : stack'[i].valid
<1>1. /\ Len(stack) \in Nat \ {0}
      /\ stack' \in Seq(Frame)
      /\ Len(stack') = Len(stack) - 1
      /\ \A i \in 1..(Len(stack) - 1) : stack'[i] = stack[i]
  BY Frames DEF TypeOK, StackIsPath, Return
<1>2. status' = IF stack' = <<>> THEN "done" ELSE "busy"
  BY DEF Return
<1>3. ASSUME NEW i \in 1..(Len(stack') - 1), stack'[i].valid
      PROVE  /\ stack'[i].iter \in 1..Len(m_objects'[stack'[i].node])
             /\ stack'[i + 1].node = m_objects'[stack'[i].node][stack'[i].iter]
  <2>1. i \in 1..(Len(stack) - 1) /\ i + 1 \in 1..(Len(stack) - 1)
    BY <1>1
  <2>2. stack'[i] = stack[i] /\ stack'[i + 1] = stack[i + 1]
    BY <1>1, <2>1
  <2> QED
    BY <1>3, <2>1, <2>2 DEF StackIsPath
<1>4. stack' # <<>> =>
        /\ stack'[1].node = Receiver
        /\ top'.valid => top'.iter \in 1..Len(m_objects'[top'.node])
  <2> SUFFICES ASSUME stack' # <<>>
               PROVE  /\ stack'[1].node = Receiver
                      /\ top'.valid => top'.iter \in 1..Len(m_objects'[top'.node])
    OBVIOUS
  <2>1. Len(stack') \in Nat \ {0}
    BY <1>1, EmptySeq
  <2>2. stack'[1] = stack[1] /\ stack'[Len(stack')] = stack[Len(stack) - 1]
        /\ Len(stack) - 1 \in 1..(Len(stack) - 1)
    BY <1>1, <2>1
  <2> QED
    BY <2>2 DEF StackIsPath, top
<1>5. StackIsPath'
  BY <1>2, <1>3, <1>4 DEF StackIsPath, Returned
<1>6. (\A i \in 1..Len(stack) : stack[i].valid)
         => \A i \in 1..Len(stack') : stack'[i].valid
  BY <1>1
<1> QED
  BY <1>1, <1>2, <1>5, <1>6 DEF Between

\* The loop goes on, or meets an iterator that was invalidated.
LEMMA NextObjectInv ==
    ASSUME OInv, status = "busy", pc = "false", NextObject,
           UNCHANGED <<m_objects, accepts, offered, meddling>>
    PROVE  OInv'
<1>1. TypeOK /\ StackIsPath /\ Answered /\ TakerMayChange
  BY DEF OInv
<1>2. Len(stack) \in Nat \ {0} /\ top \in Frame /\ Len(stack) \in 1..Len(stack)
  BY <1>1, Frames DEF TypeOK, StackIsPath
<1>3. CASE top.valid /\ pc' = "loop" /\ status' = status
           /\ stack' = [stack EXCEPT ![Len(stack)].iter = @ + 1]
  <2> DEFINE frame == [top EXCEPT !.iter = @ + 1]
  <2>1. frame \in Frame /\ frame.node = top.node /\ frame.valid = top.valid
    BY <1>2 DEF Frame
  <2>2. stack' = [stack EXCEPT ![Len(stack)] = frame]
    BY <1>3 DEF top
  <2> HIDE DEF frame
  <2>3. /\ stack' \in Seq(Frame) /\ Len(stack') = Len(stack)
        /\ \A i \in 1..Len(stack) :
              stack'[i] = IF i = Len(stack) THEN frame ELSE stack[i]
    BY <1>1, <1>2, <2>1, <2>2, ExceptSeq DEF TypeOK
  <2>4. \A i \in 1..Len(stack) :
           stack'[i].node = stack[i].node /\ stack'[i].valid = stack[i].valid
    BY <2>1, <2>3 DEF top
  <2>5. stack' # <<>> /\ stack'[1].node = Receiver
    <3>1. stack' # <<>>
      BY <1>2, <2>3, EmptySeq
    <3> QED
      BY <1>1, <1>2, <2>4, <3>1 DEF StackIsPath
  <2>6. TypeOK'
    BY <1>1, <1>3, <2>3 DEF TypeOK
  <2>7. ASSUME NEW i \in 1..(Len(stack') - 1), stack'[i].valid
        PROVE  /\ stack'[i].iter \in 1..Len(m_objects'[stack'[i].node])
               /\ stack'[i + 1].node
                     = m_objects'[stack'[i].node][stack'[i].iter]
    <3>1. i \in 1..(Len(stack) - 1) /\ i \in 1..Len(stack) /\ i # Len(stack)
          /\ i + 1 \in 1..Len(stack)
      BY <1>2, <2>3
    <3>2. stack'[i] = stack[i] /\ stack'[i + 1].node = stack[i + 1].node
      BY <2>3, <2>4, <3>1
    <3> QED
      BY <1>1, <2>7, <3>1, <3>2 DEF StackIsPath
  <2>8. StackIsPath'
    BY <1>3, <2>5, <2>7 DEF StackIsPath, Returned
  <2>9. Answered' /\ TakerMayChange'
    BY <1>1, <1>3, <2>3, <2>4 DEF Answered, TakerMayChange, Between
  <2> QED
    BY <2>6, <2>8, <2>9 DEF OInv
<1>4. CASE ~top.valid /\ status' = "undefined" /\ UNCHANGED <<stack, pc>>
  <2>1. meddling = "refused"
    BY <1>1, <1>2, <1>4 DEF TypeOK, Answered, top
  <2> QED
    BY <1>1, <1>4, <2>1
    DEF OInv, TypeOK, StackIsPath, Returned, Answered, TakerMayChange, Between
<1> QED
  BY <1>3, <1>4 DEF NextObject

\* Every step of the callers, the loops and the callbacks keeps the invariant.
LEMMA StepO ==
    OInv /\ [Next]_vars => OInv'
<1> SUFFICES ASSUME OInv, [Next]_vars PROVE OInv'
  OBVIOUS
<1>1. TypeOK /\ StackIsPath /\ Answered /\ TakerMayChange
  BY DEF OInv
<1>2. ASSUME NEW n \in Nodes, NEW o \in Objects \cup {NULL}, addOscObject(n, o)
      PROVE  OInv'
  <2>1. m_objects[n] \in Seq(Objects)
    BY <1>1, Vectors
  <2>2. CASE Change(n, m_objects[n], 1..Len(m_objects[n]))
    BY <2>1, <2>2, ChangeInv
  <2>3. CASE o # NULL /\ \E spared \in {1..Len(m_objects[n]), {}} :
                Change(n, added(m_objects[n], o), spared)
    <3> DEFINE new == added(m_objects[n], o)
    <3>1. PICK spared \in {1..Len(m_objects[n]), {}} : Change(n, new, spared)
      BY <2>3
    <3>2. /\ new \in Seq(Objects) /\ Len(new) = Len(m_objects[n]) + 1
          /\ \A i \in 1..Len(m_objects[n]) : new[i] = m_objects[n][i]
      BY <2>1, <2>3, AppendProperties DEF added
    <3> HIDE DEF new
    <3>3. Len(m_objects[n]) \in Nat
      BY <2>1, LenProperties
    <3>4. \A i \in 1..Len(m_objects[n]) :
             i \in 1..Len(new) /\ new[i] = m_objects[n][i]
      BY <3>2, <3>3
    <3> QED
      BY <3>1, <3>2, <3>4, ChangeInv
  <2> QED
    BY <1>2, <2>2, <2>3 DEF addOscObject
<1>3. ASSUME NEW n \in Nodes, NEW o \in Objects \cup {NULL}, removeOscObject(n, o)
      PROVE  OInv'
  <2>1. m_objects[n] \in Seq(Objects)
    BY <1>1, Vectors
  <2>2. CASE Change(n, m_objects[n], 1..Len(m_objects[n]))
    BY <2>1, <2>2, ChangeInv
  <2>3. CASE Change(n, removed(m_objects[n], o), 1..(find(m_objects[n], o) - 1))
    <3> DEFINE new == removed(m_objects[n], o)
               spared == 1..(find(m_objects[n], o) - 1)
    <3>1. new \in Seq(Objects)
          /\ \A i \in spared : i \in 1..Len(new) /\ new[i] = m_objects[n][i]
      BY <2>1, RemovedBehind
    <3>2. Change(n, new, spared)
      BY <2>3
    <3> HIDE DEF new, spared
    <3> QED
      BY <3>1, <3>2, ChangeInv
  <2> QED
    BY <1>3, <2>2, <2>3 DEF removeOscObject
<1>4. ASSUME NEW n \in Nodes, removeAllOscObjects(n)
      PROVE  OInv'
  <2>1. <<>> \in Seq(Objects)
    BY EmptySeq
  <2>2. Change(n, <<>>, {})
    BY <1>4 DEF removeAllOscObjects
  <2> DEFINE new == <<>>
             spared == {}
  <2>3. new \in Seq(Objects) /\ Change(n, new, spared)
        /\ \A i \in spared : i \in 1..Len(new) /\ new[i] = m_objects[n][i]
    BY <2>1, <2>2
  <2> HIDE DEF new, spared
  <2> QED
    BY <2>3, ChangeInv
<1>5. ASSUME NEW yes \in SUBSET Nodes, Dispatch(yes)
      PROVE  OInv'
  <2>1. stack = <<>> /\ Len(stack) = 0 /\ Receiver \in Nodes
    BY <1>1, <1>5, EmptySeq DEF Answered, Dispatch, Nodes
  <2>2. /\ stack' \in Seq(Frame) /\ status' \in {"busy", "overflow"}
        /\ StackIsPath' /\ \A i \in 1..Len(stack') : stack'[i].valid
    BY <1>1, <1>5, <2>1, CallInv DEF Dispatch
  <2>3. <<>> \in Seq(Seq(Frame))
    BY EmptySeq
  <2>4. TypeOK'
    BY <1>1, <1>5, <2>2, <2>3 DEF TypeOK, Dispatch
  <2>5. Answered' /\ TakerMayChange'
    BY <1>5, <2>2 DEF Answered, TakerMayChange, Between, Dispatch
  <2> QED
    BY <2>2, <2>4, <2>5 DEF OInv
<1>6. CASE CallAttached
  <2> DEFINE n == m_objects[top.node][top.iter]
  <2>1. top \in Frame /\ stack # <<>>
    BY <1>1, <1>6, Frames DEF CallAttached, InLoop, TypeOK, StackIsPath
  <2>2. top.node \in Nodes /\ top.iter \in Nat \ {0}
    BY <2>1 DEF Frame
  <2>3. top.iter \in 1..Len(m_objects[top.node]) /\ n \in Nodes
    BY <1>1, <1>6, <2>2, Vectors DEF CallAttached, Nodes
  <2>4. /\ Call(n) /\ status = "busy" /\ pc' = "loop" /\ pc = "loop"
        /\ UNCHANGED <<m_objects, accepts, offered, meddling>>
    BY <1>6 DEF CallAttached, InLoop
  <2> HIDE DEF n
  <2>5. /\ stack' \in Seq(Frame) /\ status' \in {"busy", "overflow"}
        /\ StackIsPath'
        /\ (\A i \in 1..Len(stack) : stack[i].valid)
              => \A i \in 1..Len(stack') : stack'[i].valid
    BY <1>1, <2>3, <2>4, CallInv DEF n
  <2>6. TypeOK'
    BY <1>1, <2>4, <2>5 DEF TypeOK
  <2>7. Answered' /\ TakerMayChange'
    BY <1>1, <2>4, <2>5 DEF Answered, TakerMayChange, Between
  <2> QED
    BY <2>5, <2>6, <2>7 DEF OInv
<1>7. CASE Resume
  <2>1. CASE pc = "true"
    <3>1. /\ status = "busy" /\ Return("true") /\ pc' = "true"
          /\ UNCHANGED <<m_objects, accepts, offered, meddling>>
      BY <1>7, <2>1 DEF Resume, Returned, Return
    <3>2. /\ stack' \in Seq(Frame) /\ status' \in {"busy", "done"}
          /\ StackIsPath' /\ (Between' => stack' = <<>>)
          /\ (\A i \in 1..Len(stack) : stack[i].valid)
                => \A i \in 1..Len(stack') : stack'[i].valid
      BY <1>1, <3>1, ReturnInv
    <3>3. TypeOK'
      BY <1>1, <3>1, <3>2 DEF TypeOK
    <3>4. Answered' /\ TakerMayChange'
      BY <1>1, <3>1, <3>2 DEF Answered, TakerMayChange
    <3> QED
      BY <3>2, <3>3, <3>4 DEF OInv
  <2>2. CASE pc # "true"
    BY <1>7, <2>2, NextObjectInv DEF Resume, Returned
  <2> QED
    BY <2>1, <2>2
<1>8. CASE processOscMessage
  <2>1. offered' \in Seq(Seq(Frame))
    BY <1>1, <1>8, AppendProperties DEF processOscMessage, TypeOK
  <2>2. TypeOK'
    BY <1>1, <1>8, <2>1 DEF processOscMessage, TypeOK
  <2>3. StackIsPath' /\ Answered' /\ TakerMayChange'
    BY <1>1, <1>8 DEF processOscMessage, LoopOver, InLoop, StackIsPath,
       Returned, Answered, TakerMayChange, Between
  <2> QED
    BY <2>2, <2>3 DEF OInv
<1>9. CASE Answer
  <2> DEFINE answer == IF top.node \in accepts THEN "true" ELSE "false"
  <2>1. /\ status = "busy" /\ Return(answer) /\ pc' = answer
        /\ UNCHANGED <<m_objects, accepts, offered>>
    BY <1>9 DEF Answer, Return
  <2>2. /\ stack' \in Seq(Frame) /\ status' \in {"busy", "done"}
        /\ StackIsPath' /\ (Between' => stack' = <<>>)
        /\ (\A i \in 1..Len(stack) : stack[i].valid)
              => \A i \in 1..Len(stack') : stack'[i].valid
    BY <1>1, <2>1, ReturnInv
  <2>3. TypeOK'
    BY <1>1, <1>9, <2>1, <2>2 DEF TypeOK, Answer
  <2>4. Answered' /\ TakerMayChange'
    BY <1>1, <1>9, <2>1, <2>2 DEF Answered, TakerMayChange, Answer
  <2> QED
    BY <2>2, <2>3, <2>4 DEF OInv
<1>10. CASE UNCHANGED vars
  BY <1>1, <1>10 DEF vars, OInv, TypeOK, StackIsPath, Returned, top, Answered,
     TakerMayChange, Between
<1> QED
  BY <1>2, <1>3, <1>4, <1>5, <1>6, <1>7, <1>8, <1>9, <1>10
  DEF Next, processOsc

-----------------------------------------------------------------------------
(* The depth of the recursion.                                             *)

\* A chain of calls along attachments that is longer than there are nodes meets
\* a node twice, and what lies between is a cycle.
LEMMA DeepChainIsCycle ==
    ASSUME TypeOK, StackIsPath, stack # <<>>,
           \A i \in 1..Len(stack) : stack[i].valid,
           top.iter \in 1..Len(m_objects[top.node]),
           MaxDepth =< Len(stack)
    PROVE  ~Acyclic
<1> DEFINE len == Len(stack)
           n == m_objects[top.node][top.iter]
           f == [i \in 1..(len + 1) |-> IF i = len + 1 THEN n ELSE stack[i].node]
<1>1. len \in Nat \ {0} /\ top \in Frame
      /\ \A i \in 1..len : stack[i] \in Frame
  BY Frames, ElementOfSeq DEF TypeOK
<1>2. n \in Nodes
  BY <1>1, Vectors DEF Frame, Nodes
<1>3. \A i \in 1..len : stack[i].node \in Nodes
  BY <1>1 DEF Frame
<1>4. f \in [1..(len + 1) -> Nodes]
  BY <1>1, <1>2, <1>3
<1>5. ASSUME NEW i \in 1..len
      PROVE  /\ stack[i].iter \in 1..Len(m_objects[f[i]])
             /\ f[i + 1] = m_objects[f[i]][stack[i].iter]
  <2>1. f[i] = stack[i].node
    BY <1>1, SMTT(20)
  <2>2. CASE i = len
    <3>1. f[i + 1] = n
      BY <1>1, <2>2, SMTT(20)
    <3> QED
      BY <2>1, <2>2, <3>1 DEF top
  <2>3. CASE i # len
    <3>1. i \in 1..(len - 1) /\ f[i + 1] = stack[i + 1].node
      BY <1>1, <2>3
    <3> QED
      BY <2>1, <3>1 DEF StackIsPath
  <2> QED
    BY <2>2, <2>3
<1> HIDE DEF f, n
<1>6. PICK x, y \in 1..(len + 1) : x < y /\ f[x] = f[y]
  <2>1. IsFiniteSet(Nodes) /\ Cardinality(Nodes) \in Nat
    BY RoomAssumption, FS_AddElement, FS_CardinalityType DEF Nodes
  <2>2. /\ IsFiniteSet(1..(len + 1))
        /\ Cardinality(1..(len + 1)) =
              IF 1 > len + 1 THEN 0 ELSE (len + 1) - 1 + 1
    BY <1>1, FS_Interval
  <2>3. Cardinality(Nodes) < Cardinality(1..(len + 1))
    BY <1>1, <2>1, <2>2, RoomAssumption, ObjectAssumption
  <2>4. \E x, y \in 1..(len + 1) : x # y /\ f[x] = f[y]
    BY <1>4, <2>1, <2>2, <2>3, FS_PigeonHole
  <2>5. PICK x, y \in 1..(len + 1) : x # y /\ f[x] = f[y]
    BY <2>4
  <2>6. CASE x < y
    BY <2>5, <2>6
  <2>7. CASE y < x
    BY <2>5, <2>7
  <2>8. x < y \/ y < x
    BY <2>5, <1>1
  <2> QED
    BY <2>6, <2>7, <2>8
<1> DEFINE S == {f[i] : i \in x..(y - 1)}
<1>7. S \in (SUBSET Nodes) \ {{}}
  <2>1. \A i \in x..(y - 1) : f[i] \in Nodes
    BY <1>1, <1>4, <1>6, SMTT(20)
  <2>2. x \in x..(y - 1)
    BY <1>1, <1>6
  <2> QED
    BY <2>1, <2>2
<1>8. ASSUME NEW m \in S
      PROVE  \E i \in 1..Len(m_objects[m]) : m_objects[m][i] \in S
  <2>1. PICK i \in x..(y - 1) : m = f[i]
    OBVIOUS
  <2>2. i \in 1..len
    BY <1>1, <1>6, <2>1
  <2>3. f[i + 1] \in S
    <3>1. CASE i + 1 = y
      <4>1. x \in x..(y - 1)
        BY <1>1, <1>6
      <4> QED
        BY <1>6, <3>1, <4>1
    <3>2. CASE i + 1 # y
      <4>1. i + 1 \in x..(y - 1)
        BY <1>1, <1>6, <2>1, <3>2
      <4> QED
        BY <4>1
    <3> QED
      BY <3>1, <3>2
  <2> QED
    BY <1>5, <2>1, <2>2, <2>3
<1> QED
  BY <1>7, <1>8, Zenon DEF Acyclic

\* A call overflows the stack only in a cycle, and nothing happens afterwards.
LEMMA StepOverflow ==
    OInv /\ OverflowNeedsCycle /\ [Next]_vars => OverflowNeedsCycle'
<1> SUFFICES ASSUME OInv, OverflowNeedsCycle, [Next]_vars, status' = "overflow"
             PROVE  ~Acyclic' \/ meddling' = "refused"
  BY DEF OverflowNeedsCycle
<1>1. TypeOK /\ StackIsPath /\ Answered
  BY DEF OInv
<1>2. CASE UNCHANGED vars
  BY <1>2 DEF vars, OverflowNeedsCycle, Acyclic
<1>3. CASE CallAttached
  <2>1. /\ status = "busy" /\ pc = "loop" /\ UNCHANGED <<m_objects, meddling>>
        /\ top.iter =< Len(m_objects[top.node])
        /\ ~(Len(stack) < MaxDepth)
    BY <1>3 DEF CallAttached, InLoop, Call
  <2>2. stack # <<>> /\ Len(stack) \in Nat /\ top \in Frame
    BY <1>1, <2>1, Frames DEF TypeOK, StackIsPath
  <2>3. CASE meddling = "none"
    <3>1. \A i \in 1..Len(stack) : stack[i].valid
      BY <1>1, <2>3 DEF Answered
    <3>2. top.iter \in 1..Len(m_objects[top.node]) /\ MaxDepth =< Len(stack)
      BY <1>1, <2>1, <2>2, Vectors, ObjectAssumption DEF Frame
    <3>3. ~Acyclic
      BY <1>1, <2>2, <3>1, <3>2, DeepChainIsCycle
    <3> QED
      BY <2>1, <3>3 DEF Acyclic
  <2>4. CASE meddling # "none"
    BY <1>1, <2>1, <2>4 DEF TypeOK, Answered
  <2> QED
    BY <2>3, <2>4
<1>4. ASSUME NEW yes \in SUBSET Nodes, Dispatch(yes)
      PROVE  FALSE
  <2>1. Len(stack) = 0
    BY <1>1, <1>4, EmptySeq DEF Answered, Dispatch
  <2> QED
    BY <1>4, <2>1, ObjectAssumption DEF Dispatch, Call
<1>5. ASSUME NEW n, NEW new, NEW spared, Change(n, new, spared)
      PROVE  FALSE
  BY <1>5 DEF Change, InCallback
<1>6. CASE Resume \/ processOscMessage \/ Answer
  BY <1>6 DEF Resume, Returned, Return, NextObject, processOscMessage, LoopOver,
     InLoop, Answer
<1> QED
  BY <1>2, <1>3, <1>4, <1>5, <1>6
  DEF Next, processOsc, addOscObject, removeOscObject, removeAllOscObjects

-----------------------------------------------------------------------------
(* The order of the callbacks.  The loops in progress are themselves on the*)
(* way to a turn, and Reached relates their iterators to the turns that    *)
(* were taken.                                                             *)

\* g goes on where f ends.
Above(f, g) == Len(f) < Len(g) /\ \A i \in 1..Len(f) : f[i] = g[i]

\* A loop comes after every turn so far.
LoopReached ==
    pc = "loop" =>
        /\ top.iter =< Len(m_objects[top.node]) + 1
        /\ \A i \in 1..Len(offered) : Before(offered[i], stack)

\* What the iterators have passed had its turn.
EarlierOffered ==
    \A k \in 1..Len(stack) : \A p \in 1..(stack[k].iter - 1) :
        \E i \in 1..Len(offered) : TurnBelow(offered[i], stack, k, p)

\* So has the object that has just answered false, after all below it.
RefusedBelow ==
    pc = "false" =>
        /\ \E i \in 1..Len(offered) :
              TurnBelow(offered[i], stack, Len(stack), top.iter)
        /\ \A i \in 1..Len(offered) :
              Before(offered[i], stack) \/ Above(stack, offered[i])

\* A callback in progress is the last turn.
CallbackLast == pc = "callback" => offered # <<>> /\ offered[Len(offered)] = stack

Reached == LoopReached /\ EarlierOffered /\ RefusedBelow /\ CallbackLast

Order ==
    meddling = "none" =>
        /\ InOrder /\ UpToTaker
        /\ status = "busy" => Reached
        /\ pc = "true" => offered # <<>> /\ Takes(offered[Len(offered)])

\* A way is made of frames.
LEMMA Ways ==
    ASSUME NEW f \in Seq(Frame)
    PROVE  /\ Len(f) \in Nat
           /\ \A i \in 1..Len(f) :
                 f[i] \in Frame /\ f[i].node \in Nodes /\ f[i].iter \in Nat \ {0}
<1>1. \A i \in 1..Len(f) : f[i] \in Frame
  BY ElementOfSeq
<1> QED
  BY <1>1, LenProperties DEF Frame

\* The turns taken are ways.
LEMMA Offered ==
    ASSUME TypeOK
    PROVE  /\ Len(offered) \in Nat
           /\ \A i \in 1..Len(offered) :
                 offered[i] \in Seq(Frame) /\ Len(offered[i]) \in Nat
<1>1. Len(offered) \in Nat
  BY LenProperties DEF TypeOK
<1>2. \A i \in 1..Len(offered) : offered[i] \in Seq(Frame)
  BY ElementOfSeq DEF TypeOK
<1> QED
  BY <1>1, <1>2, Ways

\* A longer way is after what the shorter one is after.
LEMMA BeforeLonger ==
    ASSUME NEW f, NEW s, NEW t, Len(s) \in Nat, Len(t) \in Nat, Len(f) \in Nat,
           Len(s) =< Len(t), \A i \in 1..Len(s) : t[i] = s[i], Before(f, s)
    PROVE  Before(f, t)
<1>1. PICK k \in 1..Len(f) : /\ k \in 1..Len(s) /\ f[k].iter < s[k].iter
                             /\ \A i \in 1..(k - 1) : f[i] = s[i]
  BY DEF Before
<1>2. k \in 1..Len(t) /\ t[k] = s[k] /\ \A i \in 1..(k - 1) : t[i] = s[i]
  BY <1>1
<1> QED
  BY <1>1, <1>2 DEF Before

\* A way that is one frame shorter is after it too, unless it only stops above.
LEMMA BeforeShorter ==
    ASSUME NEW f, NEW s, NEW t, Len(s) \in Nat, Len(t) \in Nat, Len(f) \in Nat,
           Len(s) = Len(t) + 1, \A i \in 1..Len(t) : t[i] = s[i], Before(f, s)
    PROVE  Before(f, t) \/ Above(t, f)
<1>1. PICK k \in 1..Len(f) : /\ k \in 1..Len(s) /\ f[k].iter < s[k].iter
                             /\ \A i \in 1..(k - 1) : f[i] = s[i]
  BY DEF Before
<1>2. CASE k = Len(s)
  <2>1. Len(t) < Len(f) /\ \A i \in 1..Len(t) : t[i] = f[i]
    BY <1>1, <1>2
  <2> QED
    BY <2>1 DEF Above
<1>3. CASE k # Len(s)
  <2>1. k \in 1..Len(t) /\ t[k] = s[k] /\ \A i \in 1..(k - 1) : t[i] = s[i]
    BY <1>1, <1>3
  <2> QED
    BY <1>1, <2>1 DEF Before
<1> QED
  BY <1>2, <1>3

\* The next iterator is after everything below the last.
LEMMA BeforeNext ==
    ASSUME NEW f \in Seq(Frame), NEW s \in Seq(Frame), NEW t \in Seq(Frame),
           s # <<>>, Len(t) = Len(s), \A i \in 1..(Len(s) - 1) : t[i] = s[i],
           t[Len(s)].iter = s[Len(s)].iter + 1, Before(f, s) \/ Above(s, f)
    PROVE  Before(f, t)
<1> DEFINE l == Len(s)
<1>1. /\ Len(f) \in Nat /\ l \in Nat \ {0}
      /\ \A i \in 1..Len(f) : f[i].iter \in Nat \ {0}
      /\ \A i \in 1..l : s[i].iter \in Nat \ {0}
  BY EmptySeq, Ways
<1>2. CASE Before(f, s)
  <2>1. PICK k \in 1..Len(f) : /\ k \in 1..l /\ f[k].iter < s[k].iter
                               /\ \A i \in 1..(k - 1) : f[i] = s[i]
    BY <1>2 DEF Before
  <2>2. f[k].iter < t[k].iter
    <3>1. CASE k = l
      BY <1>1, <2>1, <3>1
    <3>2. CASE k # l
      <4>1. k \in 1..(l - 1)
        BY <1>1, <2>1, <3>2
      <4> QED
        BY <2>1, <4>1
    <3> QED
      BY <3>1, <3>2
  <2>3. \A i \in 1..(k - 1) : i \in 1..(l - 1)
    BY <1>1, <2>1
  <2>4. \A i \in 1..(k - 1) : f[i] = t[i]
    BY <2>1, <2>3
  <2> QED
    BY <2>1, <2>2, <2>4 DEF Before
<1>3. CASE Above(s, f)
  <2>1. l \in 1..Len(f) /\ l \in 1..Len(t) /\ f[l] = s[l]
        /\ \A i \in 1..(l - 1) : f[i] = s[i]
    BY <1>1, <1>3 DEF Above
  <2>2. f[l].iter < t[l].iter
    BY <1>1, <2>1
  <2>3. \A i \in 1..(l - 1) : f[i] = t[i]
    BY <2>1
  <2> QED
    BY <2>1, <2>2, <2>3 DEF Before
<1> QED
  BY <1>2, <1>3

\* A turn below a frame is known by the frames above it.
LEMMA TurnBelowSame ==
    ASSUME NEW f, NEW s, NEW t, NEW k, NEW p, TurnBelow(f, s, k, p),
           t[k].node = s[k].node, \A i \in 1..(k - 1) : t[i] = s[i]
    PROVE  TurnBelow(f, t, k, p)
  BY DEF TurnBelow

\* Turns taken stay taken.
LEMMA OrderKept ==
    ASSUME InOrder, UNCHANGED <<m_objects, offered>>
    PROVE  InOrder'
  BY DEF InOrder, IsTurn

\* A loop starts below the innermost one, after all turns so far.
LEMMA CallOrder ==
    ASSUME TypeOK, InOrder, UpToTaker, Reached, status = "busy", CallAttached,
           stack # <<>>, meddling = "none", TypeOK'
    PROVE  Order'
<1> DEFINE frame == [node |-> m_objects[top.node][top.iter], iter |-> 1,
                     valid |-> TRUE]
<1>1. /\ pc = "loop" /\ pc' = "loop" /\ UNCHANGED <<m_objects, accepts, offered>>
      /\ \/ stack' = Append(stack, frame) /\ status' = "busy"
         \/ status' = "overflow"
  BY DEF CallAttached, InLoop, Call
<1>2. InOrder'
  BY <1>1, OrderKept
<1>3. UpToTaker'
  BY <1>1 DEF UpToTaker, Takes
<1>4. ASSUME status' = "busy" PROVE Reached'
  <2>1. frame.iter = 1
    OBVIOUS
  <2>2. stack' = Append(stack, frame)
    BY <1>1, <1>4
  <2> HIDE DEF frame
  <2>3. /\ stack \in Seq(Frame) /\ stack' \in Seq(Frame) /\ Len(stack) \in Nat
        /\ Len(stack') = Len(stack) + 1
        /\ \A i \in 1..Len(stack) : stack'[i] = stack[i]
        /\ stack'[Len(stack) + 1] = frame
    BY <2>2, AppendProperties, LenProperties DEF TypeOK
  <2>4. LoopReached'
    <3>1. top'.iter = 1
      BY <2>1, <2>3 DEF top
    <3>2. Len(m_objects'[top'.node]) \in Nat
      <4>1. Len(stack') \in 1..Len(stack')
        BY <2>3
      <4>2. top'.node \in Nodes
        BY <2>3, <4>1, Ways DEF top
      <4> QED
        BY <1>1, <4>2, Vectors
    <3>3. ASSUME NEW i \in 1..Len(offered) PROVE Before(offered[i], stack')
      <4>1. Before(offered[i], stack) /\ Len(offered[i]) \in Nat
        BY <1>1, Offered DEF Reached, LoopReached
      <4>2. Len(stack') \in Nat /\ Len(stack) =< Len(stack')
        BY <2>3
      <4> QED
        BY <2>3, <4>1, <4>2, BeforeLonger
    <3>4. top'.iter =< Len(m_objects'[top'.node]) + 1
      BY <3>1, <3>2
    <3> QED
      BY <1>1, <3>3, <3>4 DEF LoopReached
  <2>5. EarlierOffered'
    <3>1. ASSUME NEW k \in 1..Len(stack'), NEW p \in 1..(stack'[k].iter - 1)
          PROVE  \E i \in 1..Len(offered) : TurnBelow(offered[i], stack', k, p)
      <4>1. CASE k = Len(stack) + 1
        BY <2>1, <2>3, <4>1
      <4>2. CASE k # Len(stack) + 1
        <5>1. k \in 1..Len(stack) /\ \A i \in 1..(k - 1) : i \in 1..Len(stack)
          BY <2>3, <4>2
        <5>2. stack'[k] = stack[k] /\ \A i \in 1..(k - 1) : stack'[i] = stack[i]
          BY <2>3, <5>1
        <5>3. PICK i \in 1..Len(offered) : TurnBelow(offered[i], stack, k, p)
          BY <3>1, <5>1, <5>2 DEF Reached, EarlierOffered
        <5>4. TurnBelow(offered[i], stack', k, p)
          BY <5>2, <5>3, TurnBelowSame
        <5> QED
          BY <5>4
      <4> QED
        BY <4>1, <4>2
    <3> QED
      BY <1>1, <3>1 DEF EarlierOffered
  <2> QED
    BY <1>1, <2>4, <2>5 DEF Reached, RefusedBelow, CallbackLast
<1> QED
  BY <1>1, <1>2, <1>3, <1>4 DEF Order

\* A loop that is over is the next turn.
LEMMA MessageOrder ==
    ASSUME TypeOK, StackIsPath, \A i \in 1..Len(stack) : stack[i].valid,
           InOrder, UpToTaker, Reached, processOscMessage
    PROVE  Order'
<1>1. /\ status = "busy" /\ status' = "busy" /\ pc = "loop" /\ pc' = "callback"
      /\ UNCHANGED <<m_objects, accepts, stack>>
      /\ top.iter > Len(m_objects[top.node])
      /\ offered' = Append(offered, stack)
  BY DEF processOscMessage, LoopOver, InLoop
<1>2. /\ stack \in Seq(Frame) /\ stack # <<>> /\ Len(stack) \in Nat \ {0}
      /\ top \in Frame
  BY <1>1, Frames DEF TypeOK, StackIsPath
<1>3. /\ Len(offered) \in Nat /\ Len(offered') = Len(offered) + 1
      /\ \A i \in 1..Len(offered) : offered'[i] = offered[i]
      /\ offered'[Len(offered) + 1] = stack /\ offered' # <<>>
  <2>1. offered \in Seq(Seq(Frame)) /\ stack \in Seq(Frame)
    BY DEF TypeOK
  <2>2. /\ Append(offered, stack) # <<>>
        /\ Len(Append(offered, stack)) = Len(offered) + 1
        /\ \A i \in 1..Len(offered) : Append(offered, stack)[i] = offered[i]
        /\ Append(offered, stack)[Len(offered) + 1] = stack
    BY <2>1, AppendProperties
  <2> QED
    BY <1>1, <2>2, Offered
<1>4. IsTurn(stack)
  <2>1. top.iter = Len(m_objects[top.node]) + 1
    <3>1. top.iter =< Len(m_objects[top.node]) + 1
      BY <1>1 DEF Reached, LoopReached
    <3>2. top.iter \in Nat /\ Len(m_objects[top.node]) \in Nat
      BY <1>2, Vectors DEF Frame
    <3> QED
      BY <1>1, <3>1, <3>2
  <2>2. \A i \in 1..(Len(stack) - 1) : i \in 1..Len(stack)
    BY <1>2
  <2> QED
    BY <1>1, <1>2, <2>1, <2>2 DEF IsTurn, StackIsPath, top
<1>5. InOrder'
  <2>1. (\A i \in 1..Len(offered) : IsTurn(offered[i]))'
    <3>1. \A i \in 1..Len(offered') : IsTurn(offered'[i])
      BY <1>3, <1>4 DEF InOrder
    <3> QED
      BY <1>1, <3>1, Zenon DEF IsTurn
  <2>2. ASSUME NEW i \in 1..Len(offered'), NEW j \in 1..Len(offered'), i < j
        PROVE  Before(offered'[i], offered'[j])
    <3>1. i \in 1..Len(offered)
      BY <1>3, <2>2
    <3>2. CASE j \in 1..Len(offered)
      BY <1>3, <2>2, <3>1, <3>2 DEF InOrder
    <3>3. CASE j = Len(offered) + 1
      BY <1>1, <1>3, <3>1, <3>3 DEF Reached, LoopReached
    <3> QED
      BY <1>3, <3>2, <3>3
  <2>3. ASSUME NEW j \in 1..Len(offered'), NEW k \in 1..Len(offered'[j]),
               NEW p \in 1..(offered'[j][k].iter - 1)
        PROVE  \E i \in 1..Len(offered') : TurnBelow(offered'[i], offered'[j], k, p)
    <3>1. \E i \in 1..Len(offered) : TurnBelow(offered[i], offered'[j], k, p)
      <4>1. CASE j \in 1..Len(offered)
        BY <1>3, <2>3, <4>1 DEF InOrder
      <4>2. CASE j = Len(offered) + 1
        BY <1>3, <2>3, <4>2 DEF Reached, EarlierOffered
      <4> QED
        BY <1>3, <4>1, <4>2
    <3>2. \A i \in 1..Len(offered) : i \in 1..Len(offered')
      BY <1>3
    <3> QED
      BY <1>3, <3>1, <3>2
  <2> QED
    BY <2>1, <2>2, <2>3, SMTT(20) DEF InOrder
<1>6. UpToTaker'
  <2>1. ASSUME NEW i \in 1..Len(offered'), Takes(offered'[i])
        PROVE  i = Len(offered')
    <3>1. CASE i \in 1..Len(offered)
      BY <1>1, <1>3, <2>1, <3>1 DEF UpToTaker
    <3> QED
      BY <1>3, <3>1
  <2> QED
    BY <1>1, <2>1 DEF UpToTaker, Takes
<1>7. Reached'
  <2>1. EarlierOffered'
    <3>1. ASSUME NEW k \in 1..Len(stack), NEW p \in 1..(stack[k].iter - 1)
          PROVE  \E i \in 1..Len(offered') : TurnBelow(offered'[i], stack, k, p)
      <4>1. PICK i \in 1..Len(offered) : TurnBelow(offered[i], stack, k, p)
        BY DEF Reached, EarlierOffered
      <4>2. i \in 1..Len(offered') /\ offered'[i] = offered[i]
        BY <1>3
      <4> QED
        BY <4>1, <4>2
    <3> QED
      BY <1>1, <3>1 DEF EarlierOffered
  <2> QED
    BY <1>1, <1>3, <2>1 DEF Reached, LoopReached, RefusedBelow, CallbackLast
<1> QED
  BY <1>1, <1>5, <1>6, <1>7 DEF Order

\* Returning keeps what the iterators of the outer loops have passed.
LEMMA EarlierKept ==
    ASSUME TypeOK, stack # <<>>, EarlierOffered, stack' = caller, UNCHANGED offered
    PROVE  EarlierOffered'
<1>1. /\ Len(stack) \in Nat \ {0} /\ Len(stack') = Len(stack) - 1
      /\ \A i \in 1..(Len(stack) - 1) : stack'[i] = stack[i]
  BY Frames DEF TypeOK
<1>2. ASSUME NEW k \in 1..Len(stack'), NEW p \in 1..(stack'[k].iter - 1)
      PROVE  \E i \in 1..Len(offered) : TurnBelow(offered[i], stack', k, p)
  <2>1. /\ k \in 1..Len(stack) /\ k \in 1..(Len(stack) - 1)
        /\ \A i \in 1..(k - 1) : i \in 1..(Len(stack) - 1)
    BY <1>1
  <2>2. stack'[k] = stack[k] /\ \A i \in 1..(k - 1) : stack'[i] = stack[i]
    BY <1>1, <2>1
  <2>3. PICK i \in 1..Len(offered) : TurnBelow(offered[i], stack, k, p)
    BY <1>2, <2>1, <2>2 DEF EarlierOffered
  <2>4. TurnBelow(offered[i], stack', k, p)
    BY <2>2, <2>3, TurnBelowSame
  <2> QED
    BY <2>4
<1> QED
  BY <1>2 DEF EarlierOffered

\* A callback answers: its turn is the last below the iterator of its caller.
LEMMA AnswerOrder ==
    ASSUME TypeOK, stack # <<>>, InOrder, UpToTaker, Reached, Answer
    PROVE  Order'
<1> DEFINE last == Len(offered)
<1>1. /\ pc = "callback" /\ UNCHANGED <<m_objects, accepts, offered>>
      /\ stack' = caller /\ status' = IF caller = <<>> THEN "done" ELSE "busy"
      /\ pc' = IF top.node \in accepts THEN "true" ELSE "false"
  BY DEF Answer, Return
<1>2. /\ Len(stack) \in Nat \ {0} /\ Len(stack') = Len(stack) - 1
      /\ stack' \in Seq(Frame)
      /\ \A i \in 1..(Len(stack) - 1) : stack'[i] = stack[i]
  BY <1>1, Frames DEF TypeOK
<1>3. /\ last \in Nat \ {0} /\ offered # <<>> /\ offered[last] = stack
      /\ \A i \in 1..last : Len(offered[i]) \in Nat
  BY <1>1, Offered, EmptySeq DEF TypeOK, Reached, CallbackLast
<1>4. InOrder'
  BY <1>1, OrderKept
<1>5. Takes(offered[last]) <=> pc' = "true"
  BY <1>1, <1>3 DEF Takes, top
<1>6. UpToTaker'
  <2>1. \A i \in 1..last : Takes(offered[i]) => i = last /\ pc' = "true"
    BY <1>5 DEF UpToTaker
  <2>2. status' = "done" => Len(offered[last]) = 1
    BY <1>1, <1>2, <1>3, EmptySeq
  <2> QED
    BY <1>1, <1>3, <1>5, <2>1, <2>2 DEF UpToTaker, Takes
<1>7. ASSUME status' = "busy" PROVE RefusedBelow'
  <2>1. Len(stack') \in Nat \ {0} /\ Len(stack) = Len(stack') + 1
    BY <1>1, <1>2, <1>7, EmptySeq
  <2>2. \A i \in 1..Len(stack') : stack'[i] = stack[i]
    BY <1>2
  <2>3. TurnBelow(stack, stack', Len(stack'), top'.iter)
    <3>1. top' = stack[Len(stack')]
      BY <2>1, <2>2 DEF top
    <3> QED
      BY <2>1, <2>2, <3>1 DEF TurnBelow
  <2>4. ASSUME NEW i \in 1..last
        PROVE  Before(offered[i], stack') \/ Above(stack', offered[i])
    <3>1. CASE i = last
      BY <1>3, <2>1, <2>2, <3>1 DEF Above
    <3>2. CASE i # last
      <4>1. Before(offered[i], stack) /\ Len(offered[i]) \in Nat
        BY <1>3, <3>2 DEF InOrder
      <4> QED
        BY <2>1, <2>2, <4>1, BeforeShorter
    <3> QED
      BY <3>1, <3>2
  <2>5. \E i \in 1..last : TurnBelow(offered[i], stack', Len(stack'), top'.iter)
    BY <1>3, <2>3
  <2> QED
    BY <1>1, <2>4, <2>5 DEF RefusedBelow
<1>8. EarlierOffered'
  BY <1>1, EarlierKept DEF Reached
<1>9. status' = "busy" => Reached'
  BY <1>1, <1>7, <1>8 DEF Reached, LoopReached, CallbackLast
<1>10. pc' = "true" => (offered # <<>> /\ Takes(offered[Len(offered)]))'
  BY <1>1, <1>3, <1>5 DEF Takes
<1> QED
  BY <1>4, <1>6, <1>9, <1>10 DEF Order

\* Back in a loop: the message was taken in the last turn, or the iterator goes
\* on to the next object, whose turns come after all that were taken.
LEMMA ResumeOrder ==
    ASSUME TypeOK, StackIsPath, \A i \in 1..Len(stack) : stack[i].valid,
           stack # <<>>, InOrder, UpToTaker, Reached, Resume,
           pc = "true" => offered # <<>> /\ Takes(offered[Len(offered)]), TypeOK'
    PROVE  Order'
<1>1. /\ status = "busy" /\ pc \in {"true", "false"}
      /\ UNCHANGED <<m_objects, accepts, offered>>
  BY DEF Resume, Returned
<1>2. InOrder'
  BY <1>1, OrderKept
<1>3. CASE pc = "true"
  <2>1. /\ stack' = caller /\ pc' = "true"
        /\ status' = IF caller = <<>> THEN "done" ELSE "busy"
    BY <1>3 DEF Resume, Return
  <2>2. UpToTaker'
    BY <1>1, <1>3, <2>1 DEF UpToTaker, Takes
  <2>3. EarlierOffered'
    BY <1>1, <2>1, EarlierKept DEF Reached
  <2>4. Reached'
    BY <2>1, <2>3 DEF Reached, LoopReached, RefusedBelow, CallbackLast
  <2>5. (offered # <<>> /\ Takes(offered[Len(offered)]))'
    BY <1>1, <1>3 DEF Takes
  <2> QED
    BY <1>2, <2>2, <2>4, <2>5 DEF Order
<1>4. CASE pc = "false"
  <2> DEFINE l == Len(stack)
             frame == [top EXCEPT !.iter = @ + 1]
  <2>1. l \in Nat \ {0} /\ l \in 1..l /\ top \in Frame /\ top.valid
    BY Frames DEF TypeOK, top
  <2>2. /\ pc' = "loop" /\ status' = "busy"
        /\ stack' = [stack EXCEPT ![l] = frame]
    BY <1>1, <1>4, <2>1 DEF Resume, NextObject, top
  <2>3. /\ frame \in Frame /\ frame.iter = top.iter + 1 /\ frame.node = top.node
        /\ top.iter \in Nat \ {0}
    BY <2>1 DEF Frame
  <2> HIDE DEF frame
  <2>4. /\ stack' \in Seq(Frame) /\ Len(stack') = l
        /\ \A i \in 1..l : stack'[i] = IF i = l THEN frame ELSE stack[i]
    BY <2>1, <2>2, <2>3, ExceptSeq DEF TypeOK
  <2>5. /\ \A i \in 1..(l - 1) : stack'[i] = stack[i]
        /\ stack'[l] = frame /\ top' = frame
        /\ \A i \in 1..l : stack'[i].node = stack[i].node
    BY <2>1, <2>3, <2>4 DEF top
  <2>6. UpToTaker'
    BY <1>1, <1>4, <2>2 DEF UpToTaker, Takes
  <2>7. LoopReached'
    <3>1. top'.iter =< Len(m_objects'[top'.node]) + 1
      <4>1. top.iter \in 1..Len(m_objects[top.node])
        BY <1>1, <2>1 DEF StackIsPath, Returned
      <4>2. Len(m_objects[top.node]) \in Nat
        BY <2>1, Vectors DEF Frame
      <4> QED
        BY <1>1, <2>3, <2>5, <4>1, <4>2
    <3>2. ASSUME NEW i \in 1..Len(offered) PROVE Before(offered[i], stack')
      <4>1. /\ Before(offered[i], stack) \/ Above(stack, offered[i])
            /\ offered[i] \in Seq(Frame)
        BY <1>4, Offered DEF Reached, RefusedBelow
      <4>2. stack \in Seq(Frame) /\ stack'[l].iter = stack[l].iter + 1
        BY <2>3, <2>5 DEF TypeOK, top
      <4> QED
        BY <2>4, <2>5, <4>1, <4>2, BeforeNext
    <3> QED
      BY <1>1, <3>1, <3>2 DEF LoopReached
  <2>8. EarlierOffered'
    <3>1. ASSUME NEW k \in 1..l, NEW p \in 1..(stack'[k].iter - 1)
          PROVE  \E i \in 1..Len(offered) : TurnBelow(offered[i], stack', k, p)
      <4>1. \E i \in 1..Len(offered) : TurnBelow(offered[i], stack, k, p)
        <5>1. CASE k # l
          <6>1. k \in 1..(l - 1)
            BY <2>1, <5>1
          <6> QED
            BY <2>5, <3>1, <6>1 DEF Reached, EarlierOffered
        <5>2. CASE k = l /\ p = top.iter
          BY <1>4, <5>2 DEF Reached, RefusedBelow
        <5>3. CASE k = l /\ p # top.iter
          <6>1. p \in 1..(stack[k].iter - 1)
            BY <2>3, <2>5, <3>1, <5>3 DEF top
          <6> QED
            BY <6>1 DEF Reached, EarlierOffered
        <5> QED
          BY <5>1, <5>2, <5>3
      <4>2. PICK i \in 1..Len(offered) : TurnBelow(offered[i], stack, k, p)
        BY <4>1
      <4>3. \A j \in 1..(k - 1) : j \in 1..(l - 1)
        BY <2>1
      <4>4. TurnBelow(offered[i], stack', k, p)
        BY <2>5, <4>2, <4>3, TurnBelowSame
      <4> QED
        BY <4>4
    <3> QED
      BY <1>1, <2>4, <3>1 DEF EarlierOffered
  <2>9. Reached'
    BY <2>2, <2>7, <2>8 DEF Reached, RefusedBelow, CallbackLast
  <2> QED
    BY <1>2, <2>2, <2>6, <2>9 DEF Order
<1> QED
  BY <1>1, <1>3, <1>4

\* Before a message, and with the first call for it, no turn was taken.
NoTurnYet ==
    /\ offered = <<>> /\ pc = "loop" /\ status # "done"
    /\ status = "busy" => /\ Len(stack) = 1 /\ stack[1].iter = 1
                          /\ Len(m_objects[stack[1].node]) \in Nat

LEMMA FirstInOrder ==
    NoTurnYet => Order
<1> SUFFICES ASSUME NoTurnYet PROVE Order
  OBVIOUS
<1>1. /\ offered = <<>> /\ pc = "loop" /\ status # "done"
      /\ status = "busy" => /\ Len(stack) = 1 /\ stack[1].iter = 1
                            /\ Len(m_objects[stack[1].node]) \in Nat
  BY DEF NoTurnYet
<1>2. Len(offered) = 0
  BY <1>1, EmptySeq
<1>3. InOrder /\ UpToTaker
  BY <1>1, <1>2 DEF InOrder, UpToTaker
<1>4. ASSUME status = "busy" PROVE Reached
  <2>1. /\ top = stack[1] /\ top.iter = 1 /\ Len(stack) = 1
        /\ Len(m_objects[top.node]) \in Nat
    BY <1>1, <1>4 DEF top
  <2>2. \A l \in Nat : 1 =< l + 1
    OBVIOUS
  <2>3. \A i \in 1..0 : FALSE
    OBVIOUS
  <2>4. LoopReached
    BY <1>2, <2>1, <2>2, <2>3, Zenon DEF LoopReached
  <2>5. \A k \in 1..1 : k = 1
    OBVIOUS
  <2>6. 1 - 1 = 0
    OBVIOUS
  <2>7. EarlierOffered
    BY <2>1, <2>3, <2>5, <2>6, Zenon DEF EarlierOffered
  <2> QED
    BY <1>1, <2>4, <2>7 DEF Reached, RefusedBelow, CallbackLast
<1> QED
  BY <1>1, <1>3, <1>4 DEF Order

\* Every step takes the next turn, or none.
LEMMA StepOrder ==
    OInv /\ Order /\ OInv' /\ [Next]_vars => Order'
<1> SUFFICES ASSUME OInv, Order, OInv', [Next]_vars, meddling' = "none"
             PROVE  Order'
  BY DEF Order
<1>1. TypeOK /\ StackIsPath /\ Answered /\ TypeOK'
  BY DEF OInv
<1>2. NoTurnYet' => Order'
  BY FirstInOrder, PTL
<1>3. CASE UNCHANGED vars
  BY <1>3 DEF vars, Order, InOrder, IsTurn, UpToTaker, Takes, Reached, LoopReached,
     EarlierOffered, RefusedBelow, CallbackLast, top
<1>4. ASSUME NEW n, NEW new, NEW spared, Change(n, new, spared)
      PROVE  Order'
  <2>1. offered' = <<>> /\ pc' = "loop" /\ status' = "idle"
    BY <1>1, <1>4 DEF Change, TypeOK
  <2> QED
    BY <2>1, <1>2 DEF NoTurnYet
<1>5. ASSUME NEW yes \in SUBSET Nodes, Dispatch(yes)
      PROVE  Order'
  <2> DEFINE frame == [node |-> Receiver, iter |-> 1, valid |-> TRUE]
  <2>1. stack = <<>> /\ Len(stack) = 0
    BY <1>1, <1>5, EmptySeq DEF Answered, Dispatch
  <2>2. /\ offered' = <<>> /\ pc' = "loop" /\ m_objects' = m_objects
        /\ \/ stack' = Append(stack, frame) /\ status' = "busy"
           \/ status' = "overflow"
    BY <1>5 DEF Dispatch, Call
  <2>3. frame \in Frame /\ frame.node = Receiver /\ frame.iter = 1
    BY DEF Frame, Nodes
  <2> HIDE DEF frame
  <2>4. Len(Append(stack, frame)) = 1 /\ Append(stack, frame)[1] = frame
    <3>1. stack \in Seq(Frame)
      BY <1>1 DEF TypeOK
    <3> QED
      BY <2>1, <2>3, <3>1, AppendProperties
  <2>5. Len(m_objects[Receiver]) \in Nat
    BY <1>1, Vectors DEF Nodes
  <2> QED
    BY <1>2, <2>2, <2>3, <2>4, <2>5 DEF NoTurnYet
<1>6. CASE processOsc
  <2>1. status = "busy" /\ meddling = "none"
    BY <1>6 DEF processOsc, CallAttached, InLoop, Resume, Returned,
       processOscMessage, LoopOver, Answer
  <2>2. /\ InOrder /\ UpToTaker /\ Reached
        /\ pc = "true" => offered # <<>> /\ Takes(offered[Len(offered)])
    BY <2>1 DEF Order
  <2>3. stack # <<>> /\ \A i \in 1..Len(stack) : stack[i].valid
    BY <1>1, <2>1 DEF StackIsPath, Answered
  <2> QED
    BY SMTT(20), <1>1, <1>6, <2>1, <2>2, <2>3, CallOrder, ResumeOrder, MessageOrder,
       AnswerOrder DEF processOsc
<1> QED
  BY <1>3, <1>4, <1>5, <1>6
  DEF Next, addOscObject, removeOscObject, removeAllOscObjects

-----------------------------------------------------------------------------
(* The theorems.                                                           *)

LEMMA ObjectInvariant ==
    Spec => []OInv
<1> QED
  BY InitO, StepO, PTL DEF Spec

\* Every vector holds objects and no null pointer, and the call stack is made of
\* frames, whatever is attached to what.
THEOREM ObjectTypeCorrect ==
    Spec => []TypeOK
<1>1. OInv => TypeOK
  BY DEF OInv
<1> QED
  BY <1>1, ObjectInvariant, PTL

\* processOsc() of OscObject.cpp dereferences its iterator only where the vector
\* has an element: the frames are a path of attachments, of any length, in
\* cyclic graphs too.
THEOREM StackFollowsAttachments ==
    Spec => []StackIsPath
<1>1. OInv => StackIsPath
  BY DEF OInv
<1> QED
  BY <1>1, ObjectInvariant, PTL

\* A callback that changes vectors under the loops of processOsc() does no harm
\* if it answers true.
THEOREM TakersMayChange ==
    Spec => []TakerMayChange
<1>1. OInv => TakerMayChange
  BY DEF OInv
<1> QED
  BY <1>1, ObjectInvariant, PTL

\* processOsc() recurses without a limit of its own: whatever the attachments, a
\* stack with room for one frame per node overflows only when some object hangs
\* below itself, or after a callback that changed a vector and refused.
THEOREM OverflowsInCyclesOnly ==
    Spec => []OverflowNeedsCycle
<1>1. Init => OverflowNeedsCycle
  BY DEF Init, OverflowNeedsCycle
<1> QED
  BY <1>1, StepOverflow, ObjectInvariant, PTL DEF Spec

\* processOsc() of OscObject.cpp and processMessage() of OscReceiver.cpp ask every
\* attached object, everything below it first, in the order of the vectors, and
\* stop at the first that takes the message: in every graph of attachments, of
\* any size and shape, a node attached twice or in a cycle included.
THEOREM AskedInTurn ==
    Spec => []EachInTurn
<1>1. Init => Order
  BY FirstInOrder DEF Init, NoTurnYet
<1>2. Order => EachInTurn
  BY DEF Order, EachInTurn
<1> QED
  BY <1>1, <1>2, StepOrder, ObjectInvariant, PTL DEF Spec
=============================================================================
