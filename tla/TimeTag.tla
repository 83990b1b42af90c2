------------------------------- MODULE TimeTag -------------------------------
(***************************************************************************)
(* osc::TimeTag (src/lopack/OscTypes.cpp, OscTypes.h): a point in time as  *)
(* 32 bit seconds and 32 bit fractions of a second.  The widths are        *)
(* constants, so that TLC can check small ones and the proofs all of them. *)
(*                                                                         *)
(* A client has one tag and calls its constructors, now() and add().  What *)
(* it has asked for since it last set the tag is kept beside it.           *)
(***************************************************************************)
EXTENDS Integers

CONSTANTS
    SEC,       \* seconds a tag can tell apart: 2^32
    FRAC,      \* fractions in a second: 2^32
    MS,        \* milliseconds in a second: 1000
    Delays,    \* arguments of add() and of the constructor, in milliseconds
    MaxAdds    \* bound: calls of add() between two settings of the tag

ASSUME TimeAssumption ==
    /\ SEC \in Nat \ {0} /\ FRAC \in Nat \ {0} /\ MS \in Nat \ {0}
    /\ Delays \subseteq Nat
    /\ MaxAdds \in Nat

VARIABLES
    tag,     \* the client's TimeTag
    from,    \* its value when it was last set
    asked,   \* what add() was asked to add since, in fractions
    adds     \* how often

tvars == <<tag, from, asked, adds>>

Tags == [sec : 0..(SEC - 1), frac : 0..(FRAC - 1)]
Units(t) == t.sec * FRAC + t.frac

\* lo_timetag_diff, in fractions of a second instead of a double.
diff(a, b) == Units(a) - Units(b)

\* Milliseconds beyond whole seconds, in fractions.  The quotient of doubles in
\* the code differs from this one by less than a fraction.
Fraction(ms) == ((ms % MS) * FRAC) \div MS

\* The values tag.frac += can leave when the sum is f.  It is a double, and
\* converting one of 2^32 or more to uint32_t is undefined: any value (x86-64
\* keeps the low 32 bits, ARM the largest).  The seconds get no carry.
Stored(f) == IF f < FRAC THEN {f} ELSE 0..(FRAC - 1)

\* Mistake: whole seconds are added to the fractions once more.
AddWhole(t, ms) ==
    {[sec |-> (t.sec + ms \div MS) % SEC, frac |-> f] :
        f \in Stored(t.frac + (ms * FRAC) \div MS)}

\* The values add(ms) can leave in t.
Add(t, ms) ==
    {[sec |-> (t.sec + ms \div MS) % SEC, frac |-> f] :
        f \in Stored(t.frac + Fraction(ms))}

-----------------------------------------------------------------------------
\* The tag is set to t, from which the client counts.
SetTo(t) == tag' = t /\ from' = t /\ asked' = 0 /\ adds' = 0

TInit ==
    /\ tag \in Tags
    /\ from = tag
    /\ asked = 0
    /\ adds = 0

\* TimeTag() and now(): lo_timetag_now gives the time of day.
now == \E t \in Tags : SetTo(t)

\* TimeTag(ms): now(), then add(ms).
TimeTagAhead(ms) ==
    /\ from' \in Tags
    /\ tag' \in Add(from', ms)
    /\ asked' = (ms \div MS) * FRAC + Fraction(ms)
    /\ adds' = 1

\* TimeTag(lo_timetag) assigns the member to itself: whatever was there.
TimeTagFromLiblo(timetag) == \E t \in Tags : SetTo(t)

\* TimeTag(sec, frac).
TimeTagOf(sec, frac) == SetTo([sec |-> sec, frac |-> frac])

add(ms) ==
    /\ adds < MaxAdds
    /\ tag' \in Add(tag, ms)
    /\ asked' = asked + (ms \div MS) * FRAC + Fraction(ms)
    /\ adds' = adds + 1
    /\ UNCHANGED from

TNext ==
    \/ now
    \/ \E t \in Tags : TimeTagFromLiblo(t) \/ TimeTagOf(t.sec, t.frac)
    \/ \E ms \in Delays : TimeTagAhead(ms) \/ add(ms)

TSpec == TInit /\ [][TNext]_tvars

-----------------------------------------------------------------------------
\* The seconds last for what was asked.
InEra == Units(from) + asked < SEC * FRAC

\* A tag is never later than asked, and it is early by at most two seconds for
\* each add(), whatever a fraction that does not fit turns into: the one carry
\* that is missing, and the second that a value may fall short of.
EarlyByTwoSecondsEach ==
    InEra => /\ diff(tag, from) =< asked
             /\ asked =< diff(tag, from) + 2 * (adds * FRAC)

\* OscTypes.h:111, "add the number of milliseconds to the current timestamp":
\* the tag has moved by what was asked.
AddsWhatWasAsked == InEra => diff(tag, from) = asked
=============================================================================
