----------------------------- MODULE MCOscTypes -----------------------------
(***************************************************************************)
(* Instance of TimeTag and MessageClient for TLC.  They share no state:  *)
(* a behaviour exercises the one or the other.                             *)
(***************************************************************************)
EXTENDS TimeTag, MessageClient

VARIABLE part

MCDelays == {0, 1, 4, 5, 7}

MCFloat == [prec |-> 2, exp |-> 3]
MCDouble == [prec |-> 4, exp |-> 3]

\* Values on both sides of every bound the conversions have, with CHAR = 4 and
\* INT = 8: 2.5 is the first half, and 5 the first integer, that a double lacks.
MCArgs ==
    {[type |-> t, val |-> None] : t \in {"T", "F", "N", "I"}}
        \cup {[type |-> "c", val |-> n] : n \in 0..3}
        \cup {[type |-> "i", val |-> n] : n \in -4..3}
        \cup {[type |-> "h", val |-> n] : n \in -8..8}
        \cup {[type |-> "f", val |-> h] : h \in Floating(FLOAT)}
        \cup {[type |-> "d", val |-> h] : h \in Floating(DOUBLE)}
        \cup {[type |-> t, val |-> "text"] : t \in {"s", "S", "b", "t"}}
        \cup {[type |-> "m", val |-> <<1, 2, 3, 4>>]}

MCContents ==
    {[path |-> "/p", args |-> <<>>]}
        \cup {[path |-> "/p", args |-> <<a>>] : a \in MCArgs}
        \cup {[path |-> "/p", args |-> <<[type |-> "h", val |-> 5],
                                         [type |-> "f", val |-> 3]>>]}

MCInit == /\ TInit /\ MInit
          /\ part \in {"time", "message"}
          /\ part = "message" => tag = [sec |-> 0, frac |-> 0]

MCNext ==
    \/ part = "time" /\ TNext /\ UNCHANGED <<mvars, part>>
    \/ part = "message" /\ MNext /\ UNCHANGED <<tvars, part>>

MCSpec == MCInit /\ [][MCNext]_<<tvars, mvars, part>>
=============================================================================
