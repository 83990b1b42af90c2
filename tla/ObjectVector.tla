---------------------------- MODULE ObjectVector ----------------------------
(***************************************************************************)
(* The std::vector<OscObject *> m_objects that OscReceiver and OscObject   *)
(* both have, with the same addOscObject and removeOscObject.              *)
(***************************************************************************)
EXTENDS Naturals, Sequences, FiniteSets

\* std::find walks past the elements that differ from o: the first place of o in
\* v, or the end.
find(v, o) == 1 + Cardinality({i \in 1..Len(v) : \A j \in 1..i : v[j] # o})

\* std::vector::erase.
erase(v, i) == SubSeq(v, 1, i - 1) \o SubSeq(v, i + 1, Len(v))

added(v, o) == Append(v, o)

\* removeOscObject takes out one occurrence, if there is one.
removed(v, o) == IF find(v, o) \in 1..Len(v) THEN erase(v, find(v, o)) ELSE v
=============================================================================
