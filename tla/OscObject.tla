------------------------------ MODULE OscObject ------------------------------
(***************************************************************************)
(* osc::OscObject (src/lopack/OscObject.cpp): objects attached to objects, *)
(* and the recursive processOsc() that offers a message to the attached    *)
(* objects first and to the object itself last.  OscReceiver's             *)
(* processMessage() is the same loop, with process() in the place of       *)
(* processOscMessage(); the node Receiver stands for it.                   *)
(*                                                                         *)
(* The C++ call stack is explicit: one frame per processOsc() in progress, *)
(* with its iterator.  A frame steps by calling the next attached object,  *)
(* by calling its own object's callback, or by returning.  A callback may  *)
(* itself attach and detach objects, under the iterators of the frames.    *)
(***************************************************************************)
EXTENDS ObjectVector, FiniteSets

CONSTANTS
    Objects,
    Receiver,
    NULL,
    MaxAttached,   \* bound: length of each m_objects
    MaxDepth,      \* frames the C++ stack has room for
    Meddlers       \* nodes whose callbacks attach and detach objects

Nodes == Objects \cup {Receiver}

ASSUME ObjectAssumption ==
    /\ NULL \notin Nodes
    /\ Receiver \notin Objects
    /\ MaxAttached \in Nat
    /\ MaxDepth \in Nat \ {0}
    /\ Meddlers \subseteq Nodes

\* The C++ stack has room for a chain through all the objects there are.
ASSUME RoomAssumption ==
    /\ IsFiniteSet(Objects)
    /\ Cardinality(Nodes) =< MaxDepth

VARIABLES
    m_objects,   \* the vector of each node
    accepts,     \* nodes whose callback answers true to the message
    stack,       \* frames of processOsc, innermost last
    pc,          \* innermost frame: in its "loop" or its "callback", or back in
                 \* the loop from a call that answered "true" or "false"
    offered,     \* callbacks called for this message, in order: the stack of each
    status,      \* "idle", "busy", "done", "overflow" or "undefined"
    meddling     \* whether a callback changed a vector for this message:
                 \* "none", "changed", or "refused" if it then answered false

vars == <<m_objects, accepts, stack, pc, offered, status, meddling>>

\* valid: no change of the vector has invalidated the iterator.
Frame == [node : Nodes, iter : Nat \ {0}, valid : BOOLEAN]
top == stack[Len(stack)]
caller == SubSeq(stack, 1, Len(stack) - 1)

Init ==
    /\ m_objects = [n \in Nodes |-> <<>>]
    /\ accepts = {}
    /\ stack = <<>>
    /\ pc = "loop"
    /\ offered = <<>>
    /\ status = "idle"
    /\ meddling = "none"

-----------------------------------------------------------------------------
(* Attaching and detaching, between messages or from a callback.          *)

Between == status \in {"idle", "done"}
InCallback == status = "busy" /\ pc = "callback" /\ top.node \in Meddlers

\* The vector of n becomes new.  Between messages the last one is forgotten; in
\* a callback the iterators into the vector stay valid where spared says so.
Change(n, new, spared) ==
    /\ m_objects' = [m_objects EXCEPT ![n] = new]
    /\ \/ /\ Between
          /\ status' = "idle"
          /\ offered' = <<>>
          /\ accepts' = {}
          /\ pc' = "loop"
          /\ meddling' = "none"
          /\ UNCHANGED stack
       \/ /\ InCallback
          /\ new # m_objects[n]
          /\ stack' = [i \in 1..Len(stack) |->
                         [stack[i] EXCEPT !.valid =
                             @ /\ (stack[i].node = n => stack[i].iter \in spared)]]
          /\ meddling' = IF meddling = "none" THEN "changed" ELSE meddling
          /\ UNCHANGED <<accepts, pc, offered, status>>

\* Mistake: a null pointer is attached like any other.
addOscObjectUnchecked(n, object) ==
    /\ Len(m_objects[n]) < MaxAttached
    /\ Change(n, added(m_objects[n], object), 1..Len(m_objects[n]))

\* push_back spares every iterator, or none when it reallocates.
addOscObject(n, object) ==
    \/ object = NULL /\ Change(n, m_objects[n], 1..Len(m_objects[n]))
    \/ /\ object # NULL
       /\ Len(m_objects[n]) < MaxAttached
       /\ \E spared \in {1..Len(m_objects[n]), {}} :
             Change(n, added(m_objects[n], object), spared)

\* erase spares the iterators before it.
removeOscObject(n, object) ==
    \/ object = NULL /\ Change(n, m_objects[n], 1..Len(m_objects[n]))
    \/ /\ object # NULL
       /\ Change(n, removed(m_objects[n], object),
                 1..(find(m_objects[n], object) - 1))

removeAllOscObjects(n) == Change(n, <<>>, {})

-----------------------------------------------------------------------------
(* One message.                                                            *)

\* Calls processOsc of node n.  The code has no limit of its own: MaxDepth is where
\* the platform's stack ends.
Call(n) ==
    IF Len(stack) < MaxDepth
    THEN /\ stack' = Append(stack, [node |-> n, iter |-> 1, valid |-> TRUE])
         /\ status' = "busy"
    ELSE /\ status' = "overflow"
         /\ UNCHANGED stack

\* Returns from the innermost processOsc.
Return(answer) ==
    /\ stack' = caller
    /\ pc' = answer
    /\ status' = IF caller = <<>> THEN "done" ELSE "busy"

\* A message arrives; yes are the nodes that will want it.
Dispatch(yes) ==
    /\ Between
    /\ accepts' = yes
    /\ offered' = <<>>
    /\ pc' = "loop"
    /\ meddling' = "none"
    /\ Call(Receiver)
    /\ UNCHANGED m_objects

InLoop == status = "busy" /\ pc = "loop"

\* Mistake: iter is incremented before the call.
CallAttachedEarly ==
    /\ InLoop
    /\ top.iter =< Len(m_objects[top.node])
    /\ Len(stack) < MaxDepth
    /\ stack' = Append([stack EXCEPT ![Len(stack)].iter = @ + 1],
                       [node |-> m_objects[top.node][top.iter], iter |-> 1,
                        valid |-> TRUE])
    /\ UNCHANGED <<m_objects, accepts, pc, offered, status, meddling>>

\* The loop: the vector holds no null pointers, so *iter is called.
CallAttached ==
    /\ InLoop
    /\ top.iter =< Len(m_objects[top.node])
    /\ Call(m_objects[top.node][top.iter])
    /\ UNCHANGED <<m_objects, accepts, pc, offered, meddling>>

\* Mistake: iter is incremented in the body and again in the head of the loop.
NextObjectTwice ==
    IF top.valid
    THEN /\ stack' = [stack EXCEPT ![Len(stack)].iter = @ + 2]
         /\ pc' = "loop"
         /\ UNCHANGED status
    ELSE /\ status' = "undefined"
         /\ UNCHANGED <<stack, pc>>

\* The loop goes on with its next iterator, if there still is one.
NextObject ==
    IF top.valid
    THEN /\ stack' = [stack EXCEPT ![Len(stack)].iter = @ + 1]
         /\ pc' = "loop"
         /\ UNCHANGED status
    ELSE /\ status' = "undefined"
         /\ UNCHANGED <<stack, pc>>

Returned == status = "busy" /\ pc \in {"true", "false"}

\* Mistake: the answer of an attached object is not looked at.
ResumeDeaf ==
    /\ Returned
    /\ NextObject
    /\ UNCHANGED <<m_objects, accepts, offered, meddling>>

\* Mistake: iter is incremented whatever the answer.
ResumeIncrements ==
    /\ Returned
    /\ IF pc = "true" /\ top.valid THEN Return("true") ELSE NextObject
    /\ UNCHANGED <<m_objects, accepts, offered, meddling>>

\* Back in the loop: return true at once, or increment iter.
Resume ==
    /\ Returned
    /\ IF pc = "true" THEN Return("true") ELSE NextObject
    /\ UNCHANGED <<m_objects, accepts, offered, meddling>>

LoopOver == InLoop /\ top.iter > Len(m_objects[top.node])

\* Mistake: calls processOsc() of the same object instead.
processOscAgain ==
    /\ LoopOver
    /\ Call(top.node)
    /\ UNCHANGED <<m_objects, accepts, pc, offered, meddling>>

\* The loop is over: processOscMessage() is called ...
processOscMessage ==
    /\ LoopOver
    /\ offered' = Append(offered, stack)
    /\ pc' = "callback"
    /\ UNCHANGED <<m_objects, accepts, stack, status, meddling>>

\* ... and its answer returned.
Answer ==
    /\ status = "busy" /\ pc = "callback"
    /\ Return(IF top.node \in accepts THEN "true" ELSE "false")
    /\ meddling' = IF meddling = "changed" /\ top.node \notin accepts
                   THEN "refused" ELSE meddling
    /\ UNCHANGED <<m_objects, accepts, offered>>

processOsc == CallAttached \/ Resume \/ processOscMessage \/ Answer

Next ==
    \/ \E n \in Nodes : \/ \E o \in Objects \cup {NULL} :
                              addOscObject(n, o) \/ removeOscObject(n, o)
                        \/ removeAllOscObjects(n)
    \/ \E yes \in SUBSET Nodes : Dispatch(yes)
    \/ processOsc

Spec == Init /\ [][Next]_vars

\* The thread that dispatches runs, and callbacks return.
FairSpec == Spec /\ WF_vars(processOsc)

-----------------------------------------------------------------------------
\* Vectors hold objects, never null pointers.
TypeOK ==
    /\ m_objects \in [Nodes -> Seq(Objects)]
    /\ accepts \subseteq Nodes
    /\ stack \in Seq(Frame)
    /\ pc \in {"loop", "callback", "true", "false"}
    /\ offered \in Seq(Seq(Frame))
    /\ status \in {"idle", "busy", "done", "overflow", "undefined"}
    /\ meddling \in {"none", "changed", "refused"}

\* The stack is a path of attachments from the receiver: each frame is the call
\* that its caller's iterator points at, and an iterator is past the end only in
\* the innermost frame.  So *iter is never read past the vector, unless a
\* callback has invalidated it.
StackIsPath ==
    /\ status = "busy" => stack # <<>> /\ stack[1].node = Receiver
    /\ \A i \in 1..(Len(stack) - 1) : stack[i].valid =>
          /\ stack[i].iter \in 1..Len(m_objects[stack[i].node])
          /\ stack[i + 1].node = m_objects[stack[i].node][stack[i].iter]
    /\ Returned /\ top.valid => top.iter \in 1..Len(m_objects[top.node])

\* A callback may attach and detach wherever it likes, under the iterators of the
\* loops that led to it, provided it then takes the message: those loops return
\* without touching their iterators.  Undefined behaviour needs a callback that
\* changed a vector and refused.
TakerMayChange == status = "undefined" => meddling = "refused"

\* Every set of nodes has one with nothing of the set attached to it.
Acyclic ==
    \A S \in (SUBSET Nodes) \ {{}} :
        \E n \in S : \A i \in 1..Len(m_objects[n]) : m_objects[n][i] \notin S

\* The recursion is as deep as the tree: with room for one frame per node it
\* overflows only when an object was attached below itself, which addOscObject
\* does not refuse, or a callback changed the tree on the way.
OverflowNeedsCycle == status = "overflow" => ~Acyclic \/ meddling = "refused"

-----------------------------------------------------------------------------
(* The order of the callbacks.  A node may be attached in several places,  *)
(* and has a turn in each: the stack at its callback tells them apart, and *)
(* its iterators say which turn comes first.                               *)

\* f is a way along attachments from the receiver to a loop that is over.
IsTurn(f) ==
    /\ f # <<>>
    /\ f[1].node = Receiver
    /\ \A i \in 1..(Len(f) - 1) :
          /\ f[i].iter \in 1..Len(m_objects[f[i].node])
          /\ f[i + 1].node = m_objects[f[i].node][f[i].iter]
    /\ f[Len(f)].iter = Len(m_objects[f[Len(f)].node]) + 1

\* Where f and g part, f took the earlier object.
Before(f, g) ==
    \E k \in 1..Len(f) :
        /\ k \in 1..Len(g)
        /\ f[k].iter < g[k].iter
        /\ \A i \in 1..(k - 1) : f[i] = g[i]

\* f is the turn of the p-th object attached to the node of g's k-th frame.
TurnBelow(f, g, k, p) ==
    /\ Len(f) = k + 1
    /\ f[k].node = g[k].node /\ f[k].iter = p
    /\ \A i \in 1..(k - 1) : f[i] = g[i]

\* The node called in turn f takes the message.
Takes(f) == f[Len(f)].node \in accepts

\* Each callback is a turn along attachments, turns come in the order of the
\* vectors and none twice, and none before those of everything attached earlier
\* or below.
InOrder ==
    /\ \A i \in 1..Len(offered) : IsTurn(offered[i])
    /\ \A i, j \in 1..Len(offered) : i < j => Before(offered[i], offered[j])
    /\ \A j \in 1..Len(offered) : \A k \in 1..Len(offered[j]) :
          \A p \in 1..(offered[j][k].iter - 1) :
             \E i \in 1..Len(offered) : TurnBelow(offered[i], offered[j], k, p)

\* The first callback that takes the message is the last, and the dispatch answers
\* true exactly when one took it, else after the receiver's own turn.
UpToTaker ==
    /\ \A i \in 1..Len(offered) : Takes(offered[i]) =>
          i = Len(offered) /\ pc \in {"callback", "true"}
    /\ status = "done" =>
          /\ offered # <<>>
          /\ IF pc = "true" THEN Takes(offered[Len(offered)])
                            ELSE Len(offered[Len(offered)]) = 1

\* "process attached objects, then call processOscMessage" (OscObject.h:42), in
\* any graph of attachments, as long as no callback changes it: every node is
\* asked in its turn, up to the first that takes the message.
EachInTurn == meddling = "none" => InOrder /\ UpToTaker
=============================================================================
