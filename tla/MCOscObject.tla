---------------------------- MODULE MCOscObject ----------------------------
(***************************************************************************)
(* Model checking of OscObject against the order its header promises: the  *)
(* attached objects, recursively, before the object itself.                *)
(***************************************************************************)
EXTENDS OscObject, SequencesExt

Symmetry == Permutations(Objects)

\* "process attached objects, then call processOscMessage" (OscObject.h:42).
RECURSIVE Postorder(_)
Postorder(n) ==
    FlattenSeq([i \in 1..Len(m_objects[n]) |-> Postorder(m_objects[n][i])])
        \o <<n>>

\* In a tree, the callbacks called are those of the postorder, up to and including
\* the first that accepts, and all of them when none does, as long as no callback
\* changes the tree.
OfferedInOrder ==
    Acyclic /\ meddling = "none" =>
        LET order == Postorder(Receiver)
            nodes == [i \in 1..Len(offered) |-> Last(offered[i]).node]
        IN  /\ IsPrefix(nodes, order)
            /\ status = "done" /\ pc = "false" => nodes = order

\* Every dispatch comes to an end, whatever the callbacks answer: with an answer
\* unless the objects form a cycle or a callback changed a vector and refused.
DispatchEnds ==
    (status = "busy") ~>
        \/ status = "done"
        \/ status = "overflow" /\ (~Acyclic \/ meddling = "refused")
        \/ status = "undefined" /\ meddling = "refused"
=============================================================================
