---------------------------- MODULE OscTypesProofs ----------------------------
(***************************************************************************)
(* Theorems about TimeTag and MessageClient.                               *)
(*                                                                         *)
(* How far add() can be off, for seconds and fractions of any width.  And, *)
(* for any number of messages and copies and any arguments of any values:  *)
(* kept messages stay valid, arguments are read as the type they have, and *)
(* numbers that fit their destination arrive unchanged, whatever the widths*)
(* of the types.                                                           *)
(***************************************************************************)
EXTENDS TimeTag, MessageClient, TLAPS

(* Time tags.                                                              *)

\* Quotients and remainders of naturals.
LEMMA DivMod ==
    ASSUME NEW a \in Nat, NEW b \in Nat \ {0}
    PROVE  /\ a \div b \in Nat
           /\ a % b \in 0..(b - 1)
           /\ b * (a \div b) =< a
  <1>1. a \div b \in Int /\ a % b \in 0..(b - 1)
    OBVIOUS
  <1>2. a = b * (a \div b) + (a % b)
    OBVIOUS
  <1>3. b * (a \div b) \in Int
    BY <1>1
  <1>4. b * (a \div b) =< a
    BY <1>1, <1>2, <1>3
  <1>5. a \div b >= 0
    BY <1>1, <1>2
  <1> QED BY <1>1, <1>4, <1>5

\* Less than a second's worth of milliseconds is less than a second's worth of
\* fractions.
LEMMA FractionType ==
    ASSUME NEW ms \in Nat
    PROVE  Fraction(ms) \in 0..(FRAC - 1)
  <1> DEFINE r == ms % MS
             q == (r * FRAC) \div MS
  <1>1. r \in 0..(MS - 1)
    BY DivMod, TimeAssumption
  <1>2. r * FRAC \in Nat /\ r * FRAC < MS * FRAC
    BY <1>1, TimeAssumption
  <1>3. q \in Nat /\ MS * q =< r * FRAC
    <2> HIDE DEF r
    <2> QED BY <1>2, DivMod, TimeAssumption
  <1>4. q < FRAC
    <2> HIDE DEF q, r
    <2>1. MS * q < MS * FRAC
      BY <1>1, <1>2, <1>3, TimeAssumption
    <2> QED BY <2>1, <1>3, TimeAssumption
  <1> QED BY <1>3, <1>4, TimeAssumption DEF Fraction

\* What Stored leaves of a sum of two fractions: all of it or too little, by two
\* seconds at most.
LEMMA StoredBounds ==
    ASSUME NEW f \in Nat, f < 2 * FRAC, NEW g \in Stored(f)
    PROVE  /\ g \in 0..(FRAC - 1)
           /\ g =< f
           /\ f =< g + 2 * FRAC
  <1>1. CASE f < FRAC
    BY <1>1, TimeAssumption DEF Stored
  <1>2. CASE f >= FRAC
    BY <1>2, TimeAssumption DEF Stored
  <1> QED BY <1>1, <1>2, TimeAssumption

\* Added to a tag, whole seconds and fractions make it later by what was asked,
\* or by up to two seconds less, as long as the seconds do not wrap.
LEMMA AddBounds ==
    ASSUME NEW t \in Tags, NEW ms \in Nat, NEW u \in Add(t, ms),
           NEW ask, ask = (ms \div MS) * FRAC + Fraction(ms)
    PROVE  /\ u \in Tags
           /\ ask \in Nat
           /\ Units(t) + ask < SEC * FRAC =>
                 /\ diff(u, t) =< ask
                 /\ ask =< diff(u, t) + 2 * FRAC
  <1> DEFINE q == ms \div MS
             w == Fraction(ms)
  <1>1. q \in Nat /\ w \in 0..(FRAC - 1)
    BY DivMod, FractionType, TimeAssumption
  <1>2. /\ t = [sec |-> t.sec, frac |-> t.frac]
        /\ t.sec \in 0..(SEC - 1) /\ t.frac \in 0..(FRAC - 1)
    BY DEF Tags
  <1>3. PICK g \in Stored(t.frac + w) : u = [sec |-> (t.sec + q) % SEC, frac |-> g]
    BY DEF Add
  <1>4. g \in 0..(FRAC - 1) /\ g =< t.frac + w /\ t.frac + w =< g + 2 * FRAC
    BY <1>1, <1>2, StoredBounds, TimeAssumption
  <1>5. (t.sec + q) % SEC \in 0..(SEC - 1)
    <2>1. t.sec + q \in Nat
      BY <1>1, <1>2, TimeAssumption
    <2> QED BY <2>1, DivMod, TimeAssumption
  <1>6. u \in Tags
    BY <1>3, <1>4, <1>5 DEF Tags
  <1>7. q * FRAC \in Nat /\ ask = q * FRAC + w /\ ask \in Nat
    BY <1>1, TimeAssumption
  <1>8. ASSUME Units(t) + ask < SEC * FRAC
        PROVE  diff(u, t) =< ask /\ ask =< diff(u, t) + 2 * FRAC
    <2> HIDE DEF q, w
    <2>1. t.sec * FRAC \in Nat /\ SEC * FRAC \in Nat
      BY <1>2, TimeAssumption
    <2>2. (t.sec + q) * FRAC = t.sec * FRAC + q * FRAC
      BY <1>1, <1>2, TimeAssumption
    <2>3. (t.sec + q) * FRAC < SEC * FRAC
      BY <1>1, <1>2, <1>7, <1>8, <2>1, <2>2, TimeAssumption DEF Units
    <2>4. t.sec + q \in Nat /\ t.sec + q < SEC
      BY <1>1, <1>2, <2>3, TimeAssumption
    <2>5. u.sec = t.sec + q /\ u.frac = g
      BY <1>3, <2>4, TimeAssumption
    <2>6. Units(u) = t.sec * FRAC + q * FRAC + g
      BY <2>2, <2>5 DEF Units
    <2> QED BY <1>1, <1>2, <1>4, <1>7, <2>1, <2>6, TimeAssumption DEF diff, Units
  <1> QED BY <1>6, <1>7, <1>8

-----------------------------------------------------------------------------
\* The inductive invariant: the types, and how far the tag is from where it
\* should be.
TInv ==
    /\ tag \in Tags /\ from \in Tags
    /\ asked \in Nat /\ adds \in Nat
    /\ EarlyByTwoSecondsEach

\* Units of a tag are naturals.
LEMMA UnitsType ==
    ASSUME NEW t \in Tags
    PROVE  Units(t) \in Nat
  <1>1. t.sec \in Nat /\ t.frac \in Nat
    BY TimeAssumption DEF Tags
  <1>2. t.sec * FRAC \in Nat
    BY <1>1, TimeAssumption
  <1> QED BY <1>1, <1>2 DEF Units

\* A tag that was just set is where it should be.
LEMMA SetInv ==
    ASSUME NEW t \in Tags, SetTo(t)
    PROVE  TInv'
  <1>1. Units(t) \in Nat
    BY UnitsType
  <1>2. tag' = t /\ from' = t /\ asked' = 0 /\ adds' = 0
    BY DEF SetTo
  <1>3. diff(tag', from') = 0
    BY <1>1, <1>2 DEF diff
  <1>4. 0 * FRAC = 0
    BY TimeAssumption
  <1> QED BY <1>2, <1>3, <1>4 DEF TInv, EarlyByTwoSecondsEach, InEra, diff

\* The constructor with a delay.
LEMMA AheadInv ==
    ASSUME NEW ms \in Nat, TimeTagAhead(ms)
    PROVE  TInv'
  <1>1. /\ tag' \in Tags /\ asked' \in Nat
        /\ Units(from') + asked' < SEC * FRAC =>
              /\ diff(tag', from') =< asked'
              /\ asked' =< diff(tag', from') + 2 * FRAC
    BY AddBounds DEF TimeTagAhead
  <1>2. 1 * FRAC = FRAC
    BY TimeAssumption
  <1>3. from' \in Tags /\ adds' = 1
    BY DEF TimeTagAhead
  <1> QED BY <1>1, <1>2, <1>3 DEF TInv, EarlyByTwoSecondsEach, InEra, diff

\* One more add().
LEMMA AddInv ==
    ASSUME TInv, NEW ms \in Nat, add(ms)
    PROVE  TInv'
  <1> DEFINE ask == (ms \div MS) * FRAC + Fraction(ms)
  <1>1. tag' \in Add(tag, ms) /\ from' = from /\ adds' = adds + 1
    BY DEF add
  <1>2. ask \in Nat /\ tag' \in Tags
    BY <1>1, AddBounds DEF TInv
  <1>3. asked' = asked + ask
    <2>1. ms \div MS \in Nat /\ Fraction(ms) \in 0..(FRAC - 1)
      BY DivMod, FractionType, TimeAssumption
    <2>2. (ms \div MS) * FRAC \in Nat
      BY <2>1, TimeAssumption
    <2> QED BY <2>1, <2>2, TimeAssumption DEF add, TInv
  <1>4. /\ Units(tag) \in Nat /\ Units(tag') \in Nat /\ Units(from) \in Nat
        /\ SEC * FRAC \in Nat /\ adds * FRAC \in Nat
    BY <1>2, UnitsType, TimeAssumption DEF TInv
  <1>5. (adds + 1) * FRAC = adds * FRAC + FRAC
    BY TimeAssumption DEF TInv
  <1>6. ASSUME Units(from) + asked + ask < SEC * FRAC
        PROVE  /\ diff(tag', from) =< asked + ask
               /\ asked + ask =< diff(tag', from) + 2 * ((adds + 1) * FRAC)
    <2> HIDE DEF ask
    <2>1. /\ Units(tag) - Units(from) =< asked
          /\ asked =< Units(tag) - Units(from) + 2 * (adds * FRAC)
      BY <1>2, <1>4, <1>6 DEF TInv, EarlyByTwoSecondsEach, InEra, diff
    <2>2. Units(tag) + ask < SEC * FRAC
      BY <1>2, <1>4, <1>6, <2>1 DEF TInv
    <2>3. /\ Units(tag') - Units(tag) =< ask
          /\ ask =< Units(tag') - Units(tag) + 2 * FRAC
      BY <1>1, <2>2, AddBounds DEF TInv, diff, ask
    <2> QED BY <1>2, <1>4, <1>5, <2>1, <2>3, TimeAssumption DEF TInv, diff
  <1>7. EarlyByTwoSecondsEach'
    <2> HIDE DEF ask
    <2> QED BY <1>1, <1>2, <1>3, <1>4, <1>6
            DEF TInv, EarlyByTwoSecondsEach, InEra, diff, Units
  <1>8. asked' \in Nat /\ adds' \in Nat
    <2> HIDE DEF ask
    <2> QED BY <1>1, <1>2, <1>3 DEF TInv
  <1> QED BY <1>1, <1>2, <1>7, <1>8 DEF TInv

\* For any number of seconds, fractions and milliseconds in a second, and any
\* delays, a TimeTag that add() was called on n times is never later than asked
\* and at most 2 * n seconds early.
THEOREM TimeTagEarly == TSpec => []EarlyByTwoSecondsEach
  <1>1. TInit => TInv
    <2> SUFFICES ASSUME TInit PROVE TInv
      OBVIOUS
    <2>1. Units(tag) \in Nat /\ 0 * FRAC = 0
      BY UnitsType, TimeAssumption DEF TInit
    <2>2. diff(tag, from) = 0
      BY <2>1 DEF TInit, diff
    <2> QED BY <2>1, <2>2 DEF TInit, TInv, EarlyByTwoSecondsEach
  <1>2. TInv /\ [TNext]_tvars => TInv'
    <2> SUFFICES ASSUME TInv, [TNext]_tvars PROVE TInv'
      OBVIOUS
    <2>1. CASE now
      BY <2>1, SetInv DEF now
    <2>2. ASSUME NEW t \in Tags, TimeTagFromLiblo(t)
          PROVE  TInv'
      BY <2>2, SetInv DEF TimeTagFromLiblo
    <2>3. ASSUME NEW t \in Tags, TimeTagOf(t.sec, t.frac)
          PROVE  TInv'
      <3>1. [sec |-> t.sec, frac |-> t.frac] \in Tags
        BY DEF Tags
      <3> QED BY <2>3, <3>1, SetInv DEF TimeTagOf
    <2>4. ASSUME NEW ms \in Delays, TimeTagAhead(ms)
          PROVE  TInv'
      BY <2>4, AheadInv, TimeAssumption
    <2>5. ASSUME NEW ms \in Delays, add(ms)
          PROVE  TInv'
      BY <2>5, AddInv, TimeAssumption
    <2>6. CASE UNCHANGED tvars
      BY <2>6 DEF tvars, TInv, EarlyByTwoSecondsEach, InEra, diff, Units
    <2> QED BY <2>1, <2>2, <2>3, <2>4, <2>5, <2>6 DEF TNext
  <1>3. TInv => EarlyByTwoSecondsEach
    BY DEF TInv
  <1> QED BY <1>1, <1>2, <1>3, PTL DEF TSpec

-----------------------------------------------------------------------------
(* Received messages.                                                      *)

\* The inductive invariant: liblo's reference and the wrapper's during a
\* callback, and afterwards the wrapper's, which nothing releases.
MInv ==
    /\ refs \in [Messages -> 0..2]
    /\ content \in [Messages -> Contents \cup {None}]
    /\ copies \in [Messages -> Nat]
    /\ current \in Messages \cup {None}
    /\ \A m \in Messages : current = m => refs[m] = 2 /\ content[m] \in Contents
    /\ KeptMessagesValid

LEMMA MessageInvariant == MSpec => []MInv
  <1>1. MInit => MInv
    BY MessageAssumption DEF MInit, MInv, KeptMessagesValid
  <1>2. MInv /\ [MNext]_mvars => MInv'
    <2> SUFFICES ASSUME MInv, [MNext]_mvars PROVE MInv'
      OBVIOUS
    <2> USE DEF MInv, KeptMessagesValid
    <2>1. ASSUME NEW m \in Messages, NEW c \in Contents, messageCB(m, c)
          PROVE  MInv'
      BY <2>1 DEF messageCB
    <2>2. ASSUME NEW m \in Messages, Copy(m)
          PROVE  MInv'
      BY <2>2 DEF Copy
    <2>3. ASSUME NEW m \in Messages, Drop(m)
          PROVE  MInv'
      BY <2>3 DEF Drop
    <2>4. ASSUME NEW m \in Messages, Return(m)
          PROVE  MInv'
      BY <2>4, MessageAssumption DEF Return, Free
    <2>5. CASE UNCHANGED mvars
      BY <2>5 DEF mvars
    <2> QED BY <2>1, <2>2, <2>3, <2>4, <2>5 DEF MNext
  <1> QED BY <1>1, <1>2, PTL DEF MSpec

\* Whatever a client copies, keeps and drops, what it has is not freed.
THEOREM MessagesKept == MSpec => []KeptMessagesValid
  <1>1. MInv => KeptMessagesValid
    BY DEF MInv
  <1> QED BY <1>1, MessageInvariant, PTL

-----------------------------------------------------------------------------
(* Reading arguments.                                                      *)

Numbers == {"Bool", "Int32", "Int64", "Float", "Double"}

\* The type tags of a type with a tag of its own.
LEMMA TagOfType ==
    ASSUME NEW k \in DOMAIN Letter
    PROVE  TagsOf(k) = {Letter[k]}
  BY DEF TagsOf, Letter

\* The types in a chain are types with a checked accessor.
LEMMA ChainTypes ==
    ASSUME NEW d \in DOMAIN Chain
    PROVE  /\ DOMAIN Chain[d] \subseteq Nat
           /\ \A i \in DOMAIN Chain[d] : Chain[d][i] \in Accessors \ {"Blob"}
  BY DEF Chain, Accessors, Letter

\* A checked accessor answers for its own type, and reads that member.
LEMMA Checked ==
    ASSUME NEW k \in Accessors \ {"Blob"}, NEW c, NEW at
    PROVE  as(k, c, at).read \in {"none", typeTag(c, at)}
  <1>1. CASE ~is(k, c, at) \/ k = "Bool"
    BY <1>1 DEF as, Throws, Got
  <1>2. CASE is(k, c, at) /\ k # "Bool"
    <2>1. k \in DOMAIN Letter
      BY <1>2 DEF Accessors
    <2>2. typeTag(c, at) = Letter[k]
      BY <1>2, <2>1, TagOfType DEF is
    <2> QED BY <1>2, <2>2 DEF as, Throws, Got
  <1> QED BY <1>1, <1>2

\* Types that a chain can hold: no type tag is of two of them.
LEMMA TagsDisjoint ==
    ASSUME NEW k \in Numbers \cup {"Char", "String", "Symbol"},
           NEW l \in Numbers \cup {"Char", "String", "Symbol"}, NEW t,
           t \in TagsOf(k), t \in TagsOf(l)
    PROVE  k = l
  <1>1. TagsOf(k) = IF k = "Bool" THEN {"T", "F"} ELSE {Letter[k]}
    BY DEF TagsOf, Numbers
  <1>2. TagsOf(l) = IF l = "Bool" THEN {"T", "F"} ELSE {Letter[l]}
    BY DEF TagsOf, Numbers
  <1> QED BY <1>1, <1>2 DEF Letter, Numbers

\* At most one place of a chain fits.
LEMMA ChainDistinct ==
    ASSUME NEW d \in DOMAIN Chain, NEW i \in DOMAIN Chain[d],
           NEW j \in DOMAIN Chain[d], NEW t,
           t \in TagsOf(Chain[d][i]), t \in TagsOf(Chain[d][j])
    PROVE  i = j
  <1>1. /\ Chain[d][i] \in Numbers \cup {"Char", "String", "Symbol"}
        /\ Chain[d][j] \in Numbers \cup {"Char", "String", "Symbol"}
    BY DEF Chain, Numbers
  <1>2. Chain[d][i] = Chain[d][j]
    BY <1>1, TagsDisjoint
  <1> QED BY <1>2 DEF Chain

\* An argument with a type tag is there.
LEMMA Present ==
    ASSUME NEW k \in Accessors \ {"Blob"}, NEW c, NEW at, is(k, c, at)
    PROVE  /\ arg(c, at) # NoArg
           /\ as(k, c, at).exc = "none"
  <1>1. ~("*" \in TagsOf(k))
    <2>1. CASE k = "Bool"
      BY <2>1 DEF TagsOf
    <2>2. CASE k # "Bool"
      <3>1. k \in DOMAIN Letter
        BY <2>2 DEF Accessors
      <3> QED BY <3>1, TagOfType DEF Letter
    <2> QED BY <2>1, <2>2
  <1>2. arg(c, at) # NoArg
    BY <1>1 DEF is, typeTag, NoArg
  <1> QED BY <1>2 DEF as, Got

\* try... answers with the one type of its chain that fits.
LEMMA TryFits ==
    ASSUME NEW d \in DOMAIN Chain, NEW c, NEW at, NEW i \in DOMAIN Chain[d],
           is(Chain[d][i], c, at)
    PROVE  /\ try(d, c, at).ok
           /\ try(d, c, at).exc = "none"
           /\ try(d, c, at).dest =
                 Convert(d, Chain[d][i], as(Chain[d][i], c, at).val)
  <1> DEFINE fits == {j \in DOMAIN Chain[d] : is(Chain[d][j], c, at)}
  <1>1. fits = {i}
    BY ChainDistinct DEF is
  <1>2. i \in Nat
    BY ChainTypes
  <1>3. (CHOOSE j \in fits : \A l \in fits : j =< l) = i
    BY <1>1, <1>2
  <1>4. as(Chain[d][i], c, at).exc = "none"
    BY ChainTypes, Present
  <1>5. try(d, c, at) =
          [ok |-> TRUE, exc |-> "none",
           dest |-> Convert(d, Chain[d][i], as(Chain[d][i], c, at).val)]
    BY <1>1, <1>3, <1>4 DEF try
  <1> QED BY <1>5

LEMMA TryFitsNot ==
    ASSUME NEW d \in DOMAIN Chain, NEW c, NEW at,
           \A i \in DOMAIN Chain[d] : ~is(Chain[d][i], c, at)
    PROVE  ~try(d, c, at).ok /\ try(d, c, at).exc = "none"
  <1>1. try(d, c, at) = [ok |-> FALSE, exc |-> "none", dest |-> {}]
    BY DEF try
  <1> QED BY <1>1

\* The checked accessors of OscTypes.cpp and the try... functions read every
\* argument of every message as the type its tag says, and try... never throws.
THEOREM ReadAsTyped == MSpec => []ReadsAsItsType
  <1>1. ReadsAsItsType
    <2>1. ASSUME NEW d \in DOMAIN Chain, NEW at
          PROVE  try(d, received, at).exc = "none"
      <3>1. CASE \A i \in DOMAIN Chain[d] : ~is(Chain[d][i], received, at)
        BY <3>1, TryFitsNot
      <3>2. ASSUME NEW i \in DOMAIN Chain[d], is(Chain[d][i], received, at)
            PROVE  try(d, received, at).exc = "none"
        BY <3>2, TryFits
      <3> QED BY <3>1, <3>2
    <2> QED BY <2>1, Checked DEF ReadsAsItsType
  <1> QED BY <1>1, PTL

-----------------------------------------------------------------------------
(* Numbers.                                                                *)

\* Nothing is lost in a type that has room.
LEMMA Wraps ==
    ASSUME NEW n \in Int, NEW width \in Nat \ {0}
    PROVE  /\ n \in 0..(width - 1) => n % width = n
           /\ n \in (-(width \div 2))..(width \div 2 - 1)
                 => Signed(n, width) = n
  <1>1. \A m \in 0..(width - 1) : m % width = m
    OBVIOUS
  <1>2. width \div 2 \in Nat /\ 2 * (width \div 2) =< width
    OBVIOUS
  <1>3. ASSUME NEW half \in Nat, 2 * half =< width, n \in (-half)..(half - 1)
        PROVE  ((n + half) % width) - half = n
    <2>1. n + half \in 0..(width - 1)
      BY <1>3
    <2>2. (n + half) % width = n + half
      BY <1>1, <2>1
    <2> QED BY <1>3, <2>2
  <1>4. n \in (-(width \div 2))..(width \div 2 - 1) => Signed(n, width) = n
    BY <1>2, <1>3 DEF Signed
  <1> QED BY <1>1, <1>4

\* A whole number of units loses no fraction.
LEMMA TruncWhole ==
    ASSUME NEW h \in Int, h % 2 = 0
    PROVE  Trunc(h) = h \div 2 /\ h \div 2 \in Int
  BY DEF Trunc

\* A number in halves.
LEMMA HalvesType ==
    ASSUME NEW k \in Numbers, NEW v,
           k = "Bool" => v \in BOOLEAN, k # "Bool" => v \in Int
    PROVE  /\ Halves(k, v) \in Int
           /\ k \in {"Int32", "Int64"} => Halves(k, v) = 2 * v
           /\ k \in {"Float", "Double"} => Halves(k, v) = v
  <1>1. CASE k = "Bool"
    <2>1. Halves(k, v) = IF v THEN 2 ELSE 0
      BY <1>1 DEF Halves
    <2>2. Halves(k, v) \in {0, 2}
      BY <1>1, <2>1, Zenon
    <2> QED BY <1>1, <2>2
  <1>2. CASE k # "Bool"
    BY <1>2 DEF Halves, Numbers
  <1> QED BY <1>1, <1>2

\* The value of a numeric argument.
LEMMA NumberValue ==
    ASSUME NEW c \in Contents, NEW at \in Indices(c), NEW k \in Numbers,
           is(k, c, at), NEW v, v = as(k, c, at).val
    PROVE  /\ k = "Bool" => v \in BOOLEAN
           /\ k # "Bool" => v \in Int
  <1>1. CASE k = "Bool"
    BY <1>1 DEF as, Got
  <1>2. CASE k # "Bool"
    <2>1. k \in DOMAIN Letter /\ k \in Accessors \ {"Blob"}
          /\ Letter[k] \in {"i", "h", "f", "d"}
      BY <1>2 DEF Numbers, Letter, Accessors
    <2>2. typeTag(c, at) = Letter[k]
      BY <2>1, TagOfType DEF is
    <2>3. arg(c, at) # NoArg
      BY <2>1, Present
    <2>4. v = arg(c, at).val
      BY <1>2, <2>1, <2>3 DEF as, Got
    <2>5. arg(c, at).val \in Int
      <3>1. at + 1 \in 1..numArgs(c) /\ arg(c, at) = c.args[at + 1]
        BY <2>3, ContentAssumption DEF Indices, arg
      <3> QED BY <2>1, <2>2, <3>1, ContentAssumption DEF typeTag
    <2> QED BY <1>2, <2>4, <2>5
  <1> QED BY <1>1, <1>2

\* A number that a floating type has is the nearest one to itself.
LEMMA RoundedKeeps ==
    ASSUME NEW type \in [prec : Nat, exp : Nat], NEW h \in Floating(type)
    PROVE  Rounded(h, type) = {h}
  <1>1. \A e \in Nat : 2^e \in Int
    OBVIOUS
  <1>2. Floating(type) \subseteq Int
    BY <1>1 DEF Floating
  <1> DEFINE all == Floating(type)
             nearest == {g \in all : \A f \in all : Distance(g, h) =< Distance(f, h)}
  <1> HIDE DEF all
  <1>3. h \in all /\ all \subseteq Int
    BY <1>2 DEF all
  <1>4. \A g \in all : Distance(h, h) =< Distance(g, h)
    BY <1>3 DEF Distance
  <1>5. \A g \in all : Distance(g, h) =< Distance(h, h) => g = h
    BY <1>3 DEF Distance
  <1>6. nearest = {h}
    BY <1>3, <1>4, <1>5, Zenon
  <1>7. \E f, g \in all : f =< h /\ h =< g
    BY <1>3
  <1> QED BY <1>6, <1>7 DEF Rounded, all

\* A number that the destination has is converted to itself.
LEMMA ConvertKeeps ==
    ASSUME NEW d \in DOMAIN Chain \ {"string"}, NEW k \in Numbers, NEW v,
           k = "Bool" => v \in BOOLEAN, k # "Bool" => v \in Int,
           d = "char" => k \in {"Int32", "Int64"},
           Holds(d, Halves(k, v))
    PROVE  Convert(d, k, v) = {Exact(d, Halves(k, v))}
  <1> SUFFICES ASSUME NEW h, h = Halves(k, v), Holds(d, h)
               PROVE  Convert(d, k, v) = {Exact(d, h)}
    OBVIOUS
  <1>1. /\ d \in {"bool", "char", "int", "unsigned", "float", "double"}
        /\ h \in Int
        /\ k \in {"Int32", "Int64"} => h = 2 * v
        /\ k \in {"Float", "Double"} => h = v
    BY HalvesType DEF Chain
  <1>2. CASE d = "bool"
    BY <1>1, <1>2 DEF Convert, Holds, Exact
  <1>3. CASE d = "char"
    <2>1. v \in Int /\ h = 2 * v
      BY <1>1, <1>3
    <2>2. h \div 2 = v
      BY <2>1
    <2>3. v \in (-(CHAR \div 2))..(CHAR \div 2 - 1)
      BY <1>3, <2>2 DEF Holds
    <2>4. Signed(v, CHAR) = v
      BY <2>1, <2>3, Wraps, MessageAssumption
    <2> QED BY <1>3, <2>2, <2>4 DEF Convert, Exact
  <1>4. CASE d = "int"
    <2>1. h % 2 = 0 /\ h \div 2 \in Ints
      BY <1>4 DEF Holds
    <2>2. Trunc(h) = h \div 2 /\ h \div 2 \in Int
      BY <1>1, <2>1, TruncWhole
    <2>3. Signed(h \div 2, INT) = h \div 2
      BY <2>1, <2>2, Wraps, MessageAssumption DEF Ints
    <2>4. Convert(d, k, v) = {h \div 2}
      BY <1>1, <1>4, <2>1, <2>2, <2>3 DEF Convert, ToInteger
    <2> QED BY <1>4, <2>4 DEF Exact
  <1>5. CASE d = "unsigned"
    <2>1. h % 2 = 0 /\ h \div 2 \in Unsigned
      BY <1>5 DEF Holds
    <2>2. Trunc(h) = h \div 2 /\ h \div 2 \in Int
      BY <1>1, <2>1, TruncWhole
    <2>3. (h \div 2) % INT = h \div 2
      BY <2>1, <2>2, Wraps, MessageAssumption DEF Unsigned
    <2>4. Convert(d, k, v) = {h \div 2}
      BY <1>1, <1>5, <2>1, <2>2, <2>3 DEF Convert, ToInteger
    <2> QED BY <1>5, <2>4 DEF Exact
  <1>6. CASE d = "float"
    BY <1>1, <1>6, RoundedKeeps, MessageAssumption DEF Convert, Holds, Exact
  <1>7. CASE d = "double"
    BY <1>1, <1>7, RoundedKeeps, MessageAssumption DEF Convert, Holds, Exact
  <1> QED BY <1>1, <1>2, <1>3, <1>4, <1>5, <1>6, <1>7

\* tryBool, tryChar and the four tryNumber of OscTypes.cpp deliver every number
\* that the destination has, of whichever type it was sent, for any widths of char
\* and int and any precision and range of float and double.
THEOREM NumbersArrive == MSpec => []TryKeepsNumbers
  <1>1. MInv => TryKeepsNumbers
    <2> SUFFICES ASSUME MInv, current # None,
                        NEW at \in Indices(received),
                        NEW d \in DOMAIN Chain \ {"string"}, NEW k \in Numbers,
                        is(k, received, at), try(d, received, at).ok,
                        Holds(d, Halves(k, as(k, received, at).val))
                 PROVE  try(d, received, at).dest =
                          {Exact(d, Halves(k, as(k, received, at).val))}
      BY DEF TryKeepsNumbers, Numbers
    <2>1. received \in Contents
      BY DEF MInv, received
    <2>2. PICK i \in DOMAIN Chain[d] : is(Chain[d][i], received, at)
      BY TryFitsNot
    <2>3. Chain[d][i] = k /\ (d = "char" => k \in {"Int32", "Int64"})
      <3>1. /\ Chain[d][i] \in Numbers \cup {"Char"}
            /\ d = "char" => Chain[d][i] \in {"Char", "Int32", "Int64"}
        BY DEF Chain, Numbers
      <3>2. Chain[d][i] = k
        BY <2>2, <3>1, TagsDisjoint DEF is
      <3> QED BY <3>1, <3>2 DEF Numbers
    <2>4. try(d, received, at).dest = Convert(d, k, as(k, received, at).val)
      BY <2>2, <2>3, TryFits
    <2> DEFINE v == as(k, received, at).val
    <2>5. (k = "Bool" => v \in BOOLEAN) /\ (k # "Bool" => v \in Int)
      BY <2>1, NumberValue
    <2>6. Convert(d, k, v) = {Exact(d, Halves(k, v))}
      <3>1. Holds(d, Halves(k, v))
        OBVIOUS
      <3> HIDE DEF v
      <3> QED BY <2>3, <2>5, <3>1, ConvertKeeps
    <2> QED BY <2>4, <2>6
  <1> QED BY <1>1, MessageInvariant, PTL
=============================================================================
