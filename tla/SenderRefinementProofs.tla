----------------------- MODULE SenderRefinementProofs -----------------------
(***************************************************************************)
(* The sender, driven by a client that matches begin with end, implements  *)
(* PacketBuilder.                                                          *)
(*                                                                         *)
(* The mapping reads the value of a bundle off the heap by a recursive     *)
(* function, which means something only if its equation has a solution.    *)
(* The invariant says that it has one (Readable) and the lemmas need that  *)
(* it has no other, which follows from nesting being well-founded (Ranked).*)
(* Every call changes the value of one bundle at most: an open bundle is   *)
(* left out of the value of the bundle around it until endBundle(), so a   *)
(* solution for the heap before a call is one for the heap after it except *)
(* at that bundle, and what changes there is what PacketBuilder's action   *)
(* says.                                                                   *)
(***************************************************************************)
EXTENDS SenderRefinement, OscSenderProofs, WellFoundedInduction

\* val gives every bundle of the heap as, es, st its value.
AreValues(val, as, es, st) ==
    val = [b \in Bundles |->
              [tag |-> st[b],
               items |-> [i \in 1..Len(es[b]) |-> ItemValue(es[b][i], as, val)]]]

\* Nesting is well-founded: a bundle ranks below the one that holds it.
Ranked(es) ==
    \E rank \in [Bundles -> Nat] :
        \A b \in Bundles : \A i \in 1..Len(es[b]) :
            es[b][i].handle \in Bundles => rank[es[b][i].handle] < rank[b]

\* A handle that is not allocated is an empty message when it is next returned.
Unwritten == \A m \in Messages \ live : args[m] = <<>>

\* The mapping finds a value for each bundle.
Readable == AreValues(ValuesNow, args, Complete, stamp)

RInv == CIInv /\ Ranked(elems) /\ Unwritten /\ Readable

-----------------------------------------------------------------------------
(* The values of a heap.                                                   *)

\* A non-empty set of natural numbers has a least element.
LEMMA LeastRank ==
    ASSUME NEW T \in SUBSET Nat, T # {}
    PROVE  \E n \in T : \A k \in T : n =< k
<1> DEFINE less == {ss \in Nat \X Nat : ss[1] < ss[2]}
<1>1. less = OpToRel(<, Nat)
  BY Zenon DEF OpToRel
<1>2. PICK n \in T : \A k \in T : ~(<<k, n>> \in less)
  <2> HIDE DEF less
  <2>1. IsWellFoundedOn(less, Nat) /\ T \subseteq Nat
    BY <1>1, NatLessThanWellFounded, Zenon
  <2> QED
    BY <2>1, WFMin, Zenon
<1>3. \A k, m \in Nat : k < m => <<k, m>> \in less
  OBVIOUS
<1> HIDE DEF less
<1>4. \A k \in T : ~(k < n)
  BY <1>2, <1>3, Zenon
<1> QED
  BY <1>4

\* When there are values, Values finds them.
LEMMA ValuesExist ==
    ASSUME NEW as, NEW es, NEW st, NEW val, AreValues(val, as, es, st)
    PROVE  AreValues(Values(as, es, st), as, es, st)
<1> DEFINE V == CHOOSE v : v = [b \in Bundles |->
                   [tag |-> st[b],
                    items |-> [i \in 1..Len(es[b]) |-> ItemValue(es[b][i], as, v)]]]
<1>1. Values(as, es, st) = V
  BY DEF Values
<1>2. \E v : v = [b \in Bundles |->
             [tag |-> st[b],
              items |-> [i \in 1..Len(es[b]) |-> ItemValue(es[b][i], as, v)]]]
  BY Zenon DEF AreValues
<1>3. V = [b \in Bundles |->
             [tag |-> st[b],
              items |-> [i \in 1..Len(es[b]) |-> ItemValue(es[b][i], as, V)]]]
  BY <1>2, Zenon
<1> QED
  BY <1>1, <1>3, Zenon DEF AreValues

\* Well-founded nesting has only one assignment of values.
LEMMA ValuesUnique ==
    ASSUME NEW as, NEW es \in [Bundles -> Seq(Elements)], NEW st, Ranked(es),
           NEW u, AreValues(u, as, es, st), NEW v, AreValues(v, as, es, st)
    PROVE  u = v
<1>1. PICK rank \in [Bundles -> Nat] :
         \A b \in Bundles : \A i \in 1..Len(es[b]) :
            es[b][i].handle \in Bundles => rank[es[b][i].handle] < rank[b]
  BY DEF Ranked
<1> DEFINE Differ == {b \in Bundles : u[b] # v[b]}
<1>2. ASSUME Differ # {} PROVE FALSE
  <2> DEFINE T == {rank[b] : b \in Differ}
  <2>1. T \in SUBSET Nat /\ T # {}
    BY <1>2
  <2>2. PICK b \in Differ : \A c \in Differ : rank[b] =< rank[c]
    <3> HIDE DEF T
    <3>1. PICK n \in T : \A k \in T : n =< k
      BY <2>1, LeastRank, Zenon
    <3> QED
      BY <3>1 DEF T
  <2>3. ASSUME NEW i \in 1..Len(es[b])
        PROVE  ItemValue(es[b][i], as, u) = ItemValue(es[b][i], as, v)
    <3> DEFINE h == es[b][i].handle
    <3>1. h \in Messages \cup Bundles
      <4>1. es[b] \in Seq(Elements)
        BY <2>2
      <4>2. es[b][i] \in Elements
        BY <4>1, ElementOfSeq
      <4> QED
        BY <4>2 DEF Elements, Contents
    <3>2. CASE h \in Messages
      BY <3>2 DEF ItemValue
    <3>3. CASE h \notin Messages
      <4>1. h \in Bundles /\ rank[h] < rank[b]
        BY <1>1, <2>2, <3>1, <3>3
      <4>2. rank[h] \in Nat /\ rank[b] \in Nat
        BY <2>2, <4>1
      <4>3. ~(rank[b] =< rank[h])
        BY <4>1, <4>2
      <4>4. u[h] = v[h]
        BY <2>2, <4>1, <4>3
      <4> QED
        BY <3>3, <4>4 DEF ItemValue
    <3> QED
      BY <3>2, <3>3, Zenon
  <2>4. /\ u[b] = [tag |-> st[b], items |->
                      [i \in 1..Len(es[b]) |-> ItemValue(es[b][i], as, u)]]
        /\ v[b] = [tag |-> st[b], items |->
                      [i \in 1..Len(es[b]) |-> ItemValue(es[b][i], as, v)]]
    BY <2>2, Zenon DEF AreValues
  <2>5. [i \in 1..Len(es[b]) |-> ItemValue(es[b][i], as, u)]
           = [i \in 1..Len(es[b]) |-> ItemValue(es[b][i], as, v)]
    BY <2>3, Zenon
  <2>6. u[b] = v[b]
    BY <2>4, <2>5, Zenon
  <2> QED
    BY <2>2, <2>6
<1>3. \A b \in Bundles : u[b] = v[b]
  BY <1>2
<1>4. /\ u = [b \in Bundles |-> u[b]]
      /\ v = [b \in Bundles |-> v[b]]
  BY DEF AreValues
<1> QED
  BY <1>3, <1>4

\* So Values is whatever can be shown to be values.
LEMMA ValuesAre ==
    ASSUME NEW as, NEW es \in [Bundles -> Seq(Elements)], NEW st, Ranked(es),
           NEW v, AreValues(v, as, es, st)
    PROVE  Values(as, es, st) = v
BY ValuesExist, ValuesUnique, Zenon

-----------------------------------------------------------------------------
(* How values change with the heap.                                        *)

\* The values of the elements s.
Items(s, as, val) == [i \in 1..Len(s) |-> ItemValue(s[i], as, val)]

\* No bundle has handle h among the elements es.
NotHeld(es, h) ==
    \A b \in Bundles : \A i \in 1..Len(es[b]) : es[b][i].handle # h

\* The messages among the elements es hold the same in as and bs.
SameMessages(es, as, bs) ==
    \A b \in Bundles : \A i \in 1..Len(es[b]) :
        es[b][i].handle \in Messages => bs[es[b][i].handle] = as[es[b][i].handle]

\* Only bundle c may differ between es, st and fs, sw.
OnlyChanges(c, es, st, fs, sw) ==
    \A b \in Bundles : b # c => fs[b] = es[b] /\ sw[b] = st[b]

\* The assignment w differs from v, at most, in giving bundle c the tag t and items x.
Revalues(w, v, c, t, x) ==
    /\ w[c].tag = t /\ w[c].items = x /\ w[c] = [tag |-> t, items |-> x]
    /\ \A b \in Bundles : b # c => w[b] = v[b]

\* The elements of a bundle, one by one, are handles of contents.
LEMMA ElementType ==
    ASSUME NEW es \in [Bundles -> Seq(Elements)], NEW b \in Bundles
    PROVE  /\ es[b] \in Seq(Elements) /\ Len(es[b]) \in Nat
           /\ \A i \in 1..Len(es[b]) : /\ es[b][i] \in Elements
                                       /\ es[b][i].handle \in Messages \cup Bundles
<1>1. es[b] \in Seq(Elements)
  OBVIOUS
<1>2. \A i \in 1..Len(es[b]) : es[b][i] \in Elements
  BY <1>1, ElementOfSeq
<1> QED
  BY <1>1, <1>2, LenProperties DEF Elements, Contents

\* A sequence with one more place is the shorter one with an element appended.
LEMMA LongerByOne ==
    ASSUME NEW S, NEW n \in Nat, NEW f \in [1..n -> S], NEW g \in [1..(n + 1) -> S],
           \A i \in 1..n : g[i] = f[i]
    PROVE  g = Append(f, g[n + 1])
<1>1. f \in Seq(S) /\ Len(f) = n /\ g[n + 1] \in S
  OBVIOUS
<1> DEFINE h == Append(f, g[n + 1])
<1>2. /\ h \in Seq(S) /\ Len(h) = n + 1
      /\ \A i \in 1..n : h[i] = f[i]
      /\ h[n + 1] = g[n + 1]
  BY <1>1, AppendProperties
<1> HIDE DEF h
<1>3. h \in [1..(n + 1) -> S]
  BY <1>2, LenProperties
<1>4. \A i \in 1..(n + 1) : g[i] = h[i]
  BY <1>2
<1>5. g = h
  BY <1>3, <1>4
<1> QED
  BY <1>5 DEF h

\* One more element is one more value.
LEMMA AppendItem ==
    ASSUME NEW s \in Seq(Elements), NEW e \in Elements, NEW as, NEW val
    PROVE  Items(Append(s, e), as, val)
              = Append(Items(s, as, val), ItemValue(e, as, val))
<1> DEFINE n == Len(s)
           t == Append(s, e)
           old == [i \in 1..n |-> ItemValue(s[i], as, val)]
           new == [i \in 1..(n + 1) |-> ItemValue(t[i], as, val)]
<1>1. n \in Nat /\ Len(t) = n + 1 /\ t[n + 1] = e
      /\ \A i \in 1..n : t[i] = s[i]
  BY AppendProperties, LenProperties
<1> HIDE DEF n, t
<1>2. \A i \in 1..n : old[i] = ItemValue(s[i], as, val)
  OBVIOUS
<1>3. \A i \in 1..(n + 1) : new[i] = ItemValue(t[i], as, val)
  OBVIOUS
<1>4. old = [i \in 1..n |-> old[i]] /\ new = [i \in 1..(n + 1) |-> new[i]]
  OBVIOUS
<1> HIDE DEF old, new
<1>5. n + 1 \in 1..(n + 1) /\ \A i \in 1..n : i \in 1..(n + 1)
  BY <1>1
<1>6. \A i \in 1..n : new[i] = old[i]
  BY <1>1, <1>2, <1>3, <1>5, Zenon
<1>7. new[n + 1] = ItemValue(e, as, val)
  BY <1>1, <1>3, <1>5, Zenon
<1>8. new = Append(old, new[n + 1])
  <2> DEFINE S == {new[i] : i \in 1..(n + 1)}
  <2>1. \A i \in 1..(n + 1) : new[i] \in S
    OBVIOUS
  <2> HIDE DEF S
  <2>2. old \in [1..n -> S] /\ new \in [1..(n + 1) -> S]
    BY <1>4, <1>5, <1>6, <2>1, Zenon
  <2> QED
    BY <1>1, <1>6, <2>2, LongerByOne
<1>9. new = Append(old, ItemValue(e, as, val))
  BY <1>7, <1>8, Zenon
<1> QED
  BY <1>1, <1>9, Zenon DEF Items, new, old, n, t

\* What an assignment of values says of one bundle.
LEMMA ValueOf ==
    ASSUME NEW v, NEW as, NEW es, NEW st
    PROVE  AreValues(v, as, es, st) <=>
              v = [b \in Bundles |-> [tag |-> st[b], items |-> Items(es[b], as, v)]]
BY DEF AreValues, Items

\* Arguments added to a message that is in no bundle change no bundle's value.
LEMMA ValuesKept ==
    ASSUME NEW as, NEW bs, NEW es \in [Bundles -> Seq(Elements)], NEW st,
           Ranked(es), NEW v, AreValues(v, as, es, st), SameMessages(es, as, bs)
    PROVE  AreValues(v, bs, es, st) /\ Values(bs, es, st) = v
<1>1. \A b \in Bundles : Items(es[b], as, v) = Items(es[b], bs, v)
  <2> SUFFICES ASSUME NEW b \in Bundles
               PROVE  Items(es[b], as, v) = Items(es[b], bs, v)
    BY Zenon
  <2>1. \A i \in 1..Len(es[b]) :
           ItemValue(es[b][i], as, v) = ItemValue(es[b][i], bs, v)
    BY Zenon DEF ItemValue, SameMessages
  <2> QED
    BY <2>1, Zenon DEF Items
<1>2. AreValues(v, bs, es, st)
  BY <1>1, ValueOf, Zenon
<1> QED
  BY <1>2, ValuesAre

\* Changing a bundle that no other holds changes its value and no other.
LEMMA ValuesChange ==
    ASSUME NEW as, NEW es \in [Bundles -> Seq(Elements)], NEW st,
           NEW v, AreValues(v, as, es, st), NEW c \in Bundles,
           NEW fs \in [Bundles -> Seq(Elements)], NEW sw, Ranked(fs),
           OnlyChanges(c, es, st, fs, sw), NotHeld(fs, c)
    PROVE  /\ AreValues(Values(as, fs, sw), as, fs, sw)
           /\ Revalues(Values(as, fs, sw), v, c, sw[c], Items(fs[c], as, v))
<1> DEFINE w == [v EXCEPT ![c] = [tag |-> sw[c], items |-> Items(fs[c], as, v)]]
<1>1. v = [b \in Bundles |-> [tag |-> st[b], items |-> Items(es[b], as, v)]]
  BY ValueOf, Zenon
<1>2. \A b \in Bundles : b # c => w[b] = v[b]
  BY <1>1, Zenon
<1>3. w[c] = [tag |-> sw[c], items |-> Items(fs[c], as, v)]
  BY <1>1
<1>4. w = [b \in Bundles |-> w[b]]
  BY <1>1, Zenon
<1> HIDE DEF w
<1>5. \A b \in Bundles : Items(fs[b], as, w) = Items(fs[b], as, v)
  <2> SUFFICES ASSUME NEW b \in Bundles
               PROVE  Items(fs[b], as, w) = Items(fs[b], as, v)
    BY Zenon
  <2>1. \A i \in 1..Len(fs[b]) : fs[b][i].handle # c
                                 /\ fs[b][i].handle \in Messages \cup Bundles
    BY ElementType, Zenon DEF NotHeld
  <2>2. \A i \in 1..Len(fs[b]) :
           ItemValue(fs[b][i], as, w) = ItemValue(fs[b][i], as, v)
    BY <1>2, <2>1 DEF ItemValue
  <2> QED
    BY <2>2, Zenon DEF Items
<1>6. \A b \in Bundles : w[b] = [tag |-> sw[b], items |-> Items(fs[b], as, w)]
  <2> SUFFICES ASSUME NEW b \in Bundles
               PROVE  w[b] = [tag |-> sw[b], items |-> Items(fs[b], as, w)]
    BY Zenon
  <2>1. CASE b = c
    BY <1>3, <1>5, <2>1, Zenon
  <2>2. CASE b # c
    <3>1. v[b] = [tag |-> st[b], items |-> Items(es[b], as, v)]
      BY <1>1, Zenon
    <3> QED
      BY <1>2, <1>5, <2>2, <3>1, Zenon DEF OnlyChanges
  <2> QED
    BY <2>1, <2>2
<1>7. AreValues(w, as, fs, sw)
  BY <1>4, <1>6, ValueOf, Zenon
<1>8. Values(as, fs, sw) = w
  BY <1>7, ValuesAre, Zenon
<1> QED
  <2>1. Revalues(w, v, c, sw[c], Items(fs[c], as, v))
    BY <1>2, <1>3 DEF Revalues
  <2> QED
    BY <1>7, <1>8, <2>1

\* A bundle that gains an element gains its value.
LEMMA ValuesGrow ==
    ASSUME NEW as, NEW es \in [Bundles -> Seq(Elements)], NEW st,
           NEW v, AreValues(v, as, es, st), NEW c \in Bundles,
           NotHeld(es, c), NEW e \in Elements, e.handle # c,
           NEW fs \in [Bundles -> Seq(Elements)], Ranked(fs),
           fs[c] = Append(es[c], e), OnlyChanges(c, es, st, fs, st)
    PROVE  /\ AreValues(Values(as, fs, st), as, fs, st)
           /\ Revalues(Values(as, fs, st), v, c, v[c].tag,
                       Append(v[c].items, ItemValue(e, as, v)))
<1>1. es[c] \in Seq(Elements) /\ Len(es[c]) \in Nat
  BY LenProperties
<1>2. NotHeld(fs, c)
  <2>1. /\ Len(fs[c]) = Len(es[c]) + 1
        /\ \A i \in 1..Len(es[c]) : fs[c][i] = es[c][i]
        /\ fs[c][Len(es[c]) + 1] = e
    BY <1>1, AppendProperties
  <2>2. \A i \in 1..Len(fs[c]) : fs[c][i].handle # c
    BY <1>1, <2>1 DEF NotHeld
  <2> QED
    BY <2>2, Zenon DEF NotHeld, OnlyChanges
<1>3. /\ AreValues(Values(as, fs, st), as, fs, st)
      /\ Revalues(Values(as, fs, st), v, c, st[c], Items(fs[c], as, v))
  BY <1>2, ValuesChange, Zenon
<1>4. Items(fs[c], as, v) = Append(Items(es[c], as, v), ItemValue(e, as, v))
  <2>1. Items(Append(es[c], e), as, v)
           = Append(Items(es[c], as, v), ItemValue(e, as, v))
    BY <1>1, AppendItem, ZenonT(30)
  <2> QED
    BY <2>1
<1>5. v[c] = [tag |-> st[c], items |-> Items(es[c], as, v)]
  <2>1. v = [b \in Bundles |-> [tag |-> st[b], items |-> Items(es[b], as, v)]]
    BY ValueOf, Zenon
  <2> QED
    BY <2>1, Zenon
<1>6. v[c].tag = st[c] /\ v[c].items = Items(es[c], as, v)
  BY <1>5
<1> QED
  BY <1>3, <1>4, <1>6, Zenon

-----------------------------------------------------------------------------
(* The elements of the bundles on the stack that are complete.             *)

\* Taking the last element off and putting it back.
LEMMA PopElements ==
    ASSUME NEW s \in Seq(Elements), s # <<>>
    PROVE  /\ pop_back(s) \in Seq(Elements)
           /\ Len(pop_back(s)) = Len(s) - 1
           /\ \A i \in 1..(Len(s) - 1) : pop_back(s)[i] = s[i]
           /\ s = Append(pop_back(s), back(s))
<1> DEFINE n == Len(s) - 1
           p == pop_back(s)
<1>1. n \in Nat /\ Len(s) = n + 1 /\ s \in [1..(n + 1) -> Elements]
  BY EmptySeq, LenProperties
<1>2. \A i \in 1..n : s[i] \in Elements
  BY <1>1
<1>3. /\ p \in Seq(Elements) /\ Len(p) = n
      /\ \A i \in 1..n : p[i] = s[1 + i - 1]
  BY <1>1, <1>2, SubSeqProperties DEF pop_back
<1> HIDE DEF n, p
<1>4. p \in [1..n -> Elements] /\ \A i \in 1..n : p[i] = s[i]
  BY <1>1, <1>3, LenProperties
<1>5. s = Append(p, s[n + 1])
  BY <1>1, <1>4, LongerByOne
<1> QED
  BY <1>1, <1>3, <1>4, <1>5, Zenon DEF back, n, p

\* Putting an element on and taking it off.
LEMMA PopAppended ==
    ASSUME NEW s \in Seq(Elements), NEW e \in Elements
    PROVE  pop_back(Append(s, e)) = s
<1> DEFINE t == Append(s, e)
           p == pop_back(t)
<1>1. /\ t \in Seq(Elements) /\ t # <<>> /\ Len(t) = Len(s) + 1
      /\ \A i \in 1..Len(s) : t[i] = s[i]
      /\ Len(s) \in Nat
  BY AppendProperties, LenProperties
<1> HIDE DEF t
<1>2. /\ p \in Seq(Elements) /\ Len(p) = Len(t) - 1
      /\ \A i \in 1..(Len(t) - 1) : p[i] = t[i]
  BY <1>1, PopElements, Zenon
<1> HIDE DEF p
<1>3. Len(p) = Len(s) /\ \A i \in 1..Len(p) : p[i] = s[i]
  BY <1>1, <1>2
<1>4. p = s
  BY <1>2, <1>3, SeqEqual
<1> QED
  BY <1>4 DEF p, t

\* The stack of open bundles.
LEMMA Stack ==
    ASSUME IInv
    PROVE  /\ m_bundles \in Seq(Bundles) /\ Len(m_bundles) \in Nat
           /\ m_bundles # <<>> <=> Len(m_bundles) > 0
           /\ \A i \in 1..Len(m_bundles) : m_bundles[i] \in Bundles \cap live
           /\ \A i, j \in 1..Len(m_bundles) : m_bundles[i] = m_bundles[j] => i = j
           /\ m_bundles # <<>> => Head(m_bundles) = m_bundles[1]
<1>1. m_bundles \in Seq(Bundles)
  BY DEF IInv, TypeOK
<1>2. Len(m_bundles) \in Nat /\ \A i \in 1..Len(m_bundles) : m_bundles[i] \in Bundles
  BY <1>1, LenProperties, ElementOfSeq
<1>3. /\ \A i \in 1..Len(m_bundles) : m_bundles[i] \in live
      /\ \A i, j \in 1..Len(m_bundles) : m_bundles[i] = m_bundles[j] => i = j
  BY DEF IInv, MemorySafe, NoDangling, OpenBundlesNest
<1>4. m_bundles # <<>> <=> Len(m_bundles) > 0
  BY <1>1, <1>2, EmptySeq
<1> QED
  BY <1>1, <1>2, <1>3, <1>4

\* The complete elements of a bundle are its first ones: all, or all but one.
LEMMA CompleteElements ==
    ASSUME IInv
    PROVE  /\ Complete \in [Bundles -> Seq(Elements)]
           /\ \A b \in Bundles :
                 /\ Len(Complete[b]) \in Nat /\ Len(elems[b]) \in Nat
                 /\ Len(Complete[b]) =< Len(elems[b])
                 /\ \A i \in 1..Len(Complete[b]) : Complete[b][i] = elems[b][i]
           /\ \A i \in 1..(Len(m_bundles) - 1) :
                 /\ elems[m_bundles[i]] # <<>>
                 /\ Complete[m_bundles[i]] = pop_back(elems[m_bundles[i]])
                 /\ Len(Complete[m_bundles[i]]) = Len(elems[m_bundles[i]]) - 1
<1>1. elems \in [Bundles -> Seq(Elements)] /\ Len(m_bundles) \in Nat
      /\ \A i \in 1..Len(m_bundles) : m_bundles[i] \in Bundles
  BY Stack DEF IInv, TypeOK
<1>2. \A i \in 1..(Len(m_bundles) - 1) :
         i \in 1..Len(m_bundles) /\ elems[m_bundles[i]] # <<>>
  BY <1>1 DEF IInv, MemorySafe, OpenBundlesNest
<1> DEFINE Encloses(b) == \E i \in 1..(Len(m_bundles) - 1) : m_bundles[i] = b
<1>3. ASSUME NEW b \in Bundles
      PROVE  /\ Complete[b] = IF Encloses(b) THEN pop_back(elems[b]) ELSE elems[b]
             /\ Complete[b] \in Seq(Elements)
             /\ Len(Complete[b]) \in Nat /\ Len(elems[b]) \in Nat
             /\ Len(Complete[b]) =< Len(elems[b])
             /\ \A i \in 1..Len(Complete[b]) : Complete[b][i] = elems[b][i]
             /\ Encloses(b) => Len(Complete[b]) = Len(elems[b]) - 1
  <2>1. elems[b] \in Seq(Elements) /\ Len(elems[b]) \in Nat
    BY <1>1, LenProperties
  <2>2. Complete[b] = IF Encloses(b) THEN pop_back(elems[b]) ELSE elems[b]
    BY DEF Complete
  <2>3. Encloses(b) => elems[b] # <<>>
    BY <1>2
  <2> HIDE DEF Encloses
  <2>4. CASE Encloses(b)
    <3>1. /\ pop_back(elems[b]) \in Seq(Elements)
          /\ Len(pop_back(elems[b])) = Len(elems[b]) - 1
          /\ \A i \in 1..(Len(elems[b]) - 1) : pop_back(elems[b])[i] = elems[b][i]
      BY <2>1, <2>3, <2>4, PopElements
    <3>2. Len(pop_back(elems[b])) \in Nat
      BY <3>1, LenProperties
    <3> QED
      BY <2>1, <2>2, <2>4, <3>1, <3>2
  <2>5. CASE ~Encloses(b)
    BY <2>1, <2>2, <2>5
  <2> QED
    BY <2>4, <2>5
<1>4. Complete \in [Bundles -> Seq(Elements)]
  <2>1. Complete = [b \in Bundles |-> Complete[b]]
    BY DEF Complete
  <2> QED
    BY <1>3, <2>1
<1>5. \A i \in 1..(Len(m_bundles) - 1) :
         m_bundles[i] \in Bundles /\ Encloses(m_bundles[i])
  BY <1>1, <1>2
<1> QED
  BY <1>2, <1>3, <1>4, <1>5, Zenon

\* No bundle has an open one among its complete elements.
LEMMA OpenNotHeld ==
    ASSUME IInv, NEW j \in 1..Len(m_bundles), NEW b \in Bundles,
           NEW i \in 1..Len(Complete[b])
    PROVE  Complete[b][i].handle # m_bundles[j]
<1>1. Len(m_bundles) \in Nat /\ \A k \in 1..Len(m_bundles) : m_bundles[k] \in Bundles
      /\ m_bundles # <<>> /\ Head(m_bundles) = m_bundles[1]
  BY Stack
<1>2. i \in 1..Len(elems[b]) /\ Complete[b][i] = elems[b][i]
  BY CompleteElements
<1>3. CASE j = 1
  BY <1>1, <1>2, <1>3 DEF IInv, MemorySafe, SingleOwner, Kids
<1>4. CASE j # 1
  <2> DEFINE d == m_bundles[j - 1]
             n == Len(elems[d])
  <2>1. j - 1 \in 1..(Len(m_bundles) - 1) /\ j - 1 \in 1..Len(m_bundles)
        /\ (j - 1) + 1 = j
    BY <1>1, <1>4
  <2>2. d \in Bundles /\ elems[d] # <<>> /\ elems[d][n].handle = m_bundles[j]
    BY <1>1, <2>1 DEF IInv, MemorySafe, OpenBundlesNest, back
  <2>3. n \in 1..n
    <3>1. elems[d] \in Seq(Elements)
      BY <2>2 DEF IInv, TypeOK
    <3> QED
      BY <2>2, <3>1, EmptySeq
  <2>4. Len(Complete[d]) = n - 1
    BY <2>1, CompleteElements
  <2> HIDE DEF d, n
  <2>5. ASSUME Complete[b][i].handle = m_bundles[j] PROVE b = d /\ i = n
    BY <1>2, <2>2, <2>3, <2>5 DEF n, IInv, MemorySafe, SingleOwner
  <2> QED
    BY <2>3, <2>4, <2>5
<1> QED
  BY <1>3, <1>4

\* Nesting is as well-founded in the complete elements.
LEMMA RankedComplete ==
    ASSUME IInv, Ranked(elems)
    PROVE  Ranked(Complete)
<1>1. PICK rank \in [Bundles -> Nat] :
         \A b \in Bundles : \A i \in 1..Len(elems[b]) :
            elems[b][i].handle \in Bundles => rank[elems[b][i].handle] < rank[b]
  BY DEF Ranked
<1>2. \A b \in Bundles : \A i \in 1..Len(Complete[b]) :
         i \in 1..Len(elems[b]) /\ Complete[b][i] = elems[b][i]
  BY CompleteElements
<1> QED
  BY <1>1, <1>2, Zenon DEF Ranked

\* The innermost bundle is complete up to its last element; no other holds it.
LEMMA Innermost ==
    ASSUME IInv, m_bundles # <<>>
    PROVE  /\ back(m_bundles) \in Bundles /\ back(m_bundles) \in live
           /\ Complete[back(m_bundles)] = elems[back(m_bundles)]
           /\ NotHeld(Complete, back(m_bundles))
           /\ \A i \in 1..(Len(m_bundles) - 1) : m_bundles[i] # back(m_bundles)
<1>1. /\ Len(m_bundles) \in Nat /\ Len(m_bundles) > 0
      /\ \A i \in 1..Len(m_bundles) : m_bundles[i] \in Bundles \cap live
      /\ \A i, j \in 1..Len(m_bundles) : m_bundles[i] = m_bundles[j] => i = j
  BY Stack
<1>2. Len(m_bundles) \in 1..Len(m_bundles)
      /\ \A i \in 1..(Len(m_bundles) - 1) : i \in 1..Len(m_bundles) /\ i # Len(m_bundles)
  BY <1>1
<1>3. \A i \in 1..(Len(m_bundles) - 1) : m_bundles[i] # back(m_bundles)
  BY <1>1, <1>2 DEF back
<1>4. back(m_bundles) \in Bundles /\ back(m_bundles) \in live
  BY <1>1, <1>2 DEF back
<1>5. Complete[back(m_bundles)] = elems[back(m_bundles)]
  BY <1>3, <1>4 DEF Complete
<1>6. NotHeld(Complete, back(m_bundles))
  BY <1>2, OpenNotHeld DEF NotHeld, back
<1> QED
  BY <1>3, <1>4, <1>5, <1>6

-----------------------------------------------------------------------------
(* What the calls do to the values of the bundles.                         *)

\* Calls that leave the stack and the heap's contents alone.
LEMMA ReadSame ==
    ASSUME RInv, UNCHANGED <<m_bundles, args, elems, stamp>>
    PROVE  ValuesNow' = ValuesNow /\ Ranked(elems)' /\ Readable' /\ Complete' = Complete
<1>1. Complete' = Complete
  BY DEF Complete
<1> QED
  BY <1>1 DEF RInv, ValuesNow, Readable

\* An argument added to m_message, which is in no bundle.
LEMMA ReadArg ==
    ASSUME RInv, m_message # NULL, NEW t,
           args' = [args EXCEPT ![m_message] = Append(@, t)],
           UNCHANGED <<m_bundles, elems, stamp>>
    PROVE  ValuesNow' = ValuesNow /\ Ranked(elems)' /\ Readable'
<1>1. Complete' = Complete
  BY DEF Complete
<1>2. Complete \in [Bundles -> Seq(Elements)] /\ Ranked(Complete)
  BY CompleteElements, RankedComplete DEF RInv, CIInv
<1>3. \A b \in Bundles : \A i \in 1..Len(Complete[b]) :
         Complete[b][i].handle # m_message
  <2>1. \A b \in Bundles : \A i \in 1..Len(Complete[b]) :
           i \in 1..Len(elems[b]) /\ Complete[b][i] = elems[b][i]
    BY CompleteElements DEF RInv, CIInv
  <2> QED
    BY <2>1 DEF RInv, CIInv, IInv, MemorySafe, SingleOwner, Kids
<1>4. \A m \in Messages : m # m_message => args'[m] = args[m]
  BY DEF RInv, CIInv, IInv, TypeOK
<1>5. SameMessages(Complete, args, args')
  BY <1>3, <1>4 DEF SameMessages
<1>6. AreValues(ValuesNow, args, Complete, stamp)
  BY DEF RInv, Readable
<1> HIDE DEF ValuesNow
<1>7. /\ AreValues(ValuesNow, args', Complete, stamp)
      /\ Values(args', Complete, stamp) = ValuesNow
  BY <1>2, <1>5, <1>6, ValuesKept
<1>8. ValuesNow' = ValuesNow
  BY <1>1, <1>7 DEF ValuesNow
<1> QED
  BY <1>1, <1>7, <1>8 DEF RInv, Readable

\* endMessage() in a bundle: the innermost bundle gains the message.
LEMMA ReadAttach ==
    ASSUME RInv, IInv', m_bundles # <<>>, m_message # NULL,
           Attach(m_message, m_addressPattern), UNCHANGED <<m_bundles, args, stamp>>
    PROVE  /\ Ranked(elems)' /\ Readable'
           /\ Revalues(ValuesNow', ValuesNow, back(m_bundles),
                       ValuesNow[back(m_bundles)].tag,
                       Append(ValuesNow[back(m_bundles)].items, MessageValue))
<1> DEFINE c == back(m_bundles)
           e == [handle |-> m_message, path |-> m_addressPattern]
<1>1. IInv /\ Ranked(elems) /\ AreValues(ValuesNow, args, Complete, stamp)
  BY DEF RInv, CIInv, Readable
<1>2. /\ m_message \in Messages /\ m_message \notin Bundles /\ e \in Elements
      /\ e.handle = m_message /\ e.path = m_addressPattern
  BY <1>1, HandlesAssumption DEF IInv, TypeOK, Elements, Contents
<1>3. /\ c \in Bundles /\ Complete[c] = elems[c] /\ NotHeld(Complete, c)
      /\ \A i \in 1..(Len(m_bundles) - 1) : m_bundles[i] # c
  BY <1>1, Innermost
<1>4. elems \in [Bundles -> Seq(Elements)]
  BY <1>1 DEF IInv, TypeOK
<1>5. /\ elems'[c] = Append(elems[c], e)
      /\ \A b \in Bundles : b # c => elems'[b] = elems[b]
  BY <1>3, <1>4 DEF Attach, BundleAdd
<1> HIDE DEF c, e
<1>6. Ranked(elems)'
  <2>1. PICK rank \in [Bundles -> Nat] :
           \A b \in Bundles : \A i \in 1..Len(elems[b]) :
              elems[b][i].handle \in Bundles => rank[elems[b][i].handle] < rank[b]
    BY <1>1 DEF Ranked
  <2>2. elems[c] \in Seq(Elements)
    BY <1>3, <1>4
  <2>3. /\ Len(elems'[c]) = Len(elems[c]) + 1 /\ Len(elems[c]) \in Nat
        /\ \A i \in 1..Len(elems[c]) : elems'[c][i] = elems[c][i]
        /\ elems'[c][Len(elems[c]) + 1] = e
    BY <1>2, <1>5, <2>2, AppendProperties, LenProperties
  <2>4. \A i \in 1..Len(elems'[c]) :
           elems'[c][i].handle \in Bundles => rank[elems'[c][i].handle] < rank[c]
    <3> SUFFICES ASSUME NEW i \in 1..Len(elems'[c]), elems'[c][i].handle \in Bundles
                 PROVE  rank[elems'[c][i].handle] < rank[c]
      OBVIOUS
    <3>1. i \in 1..Len(elems[c]) \/ i = Len(elems[c]) + 1
      BY <2>3
    <3>2. i # Len(elems[c]) + 1
      BY <1>2, <2>3
    <3>3. i \in 1..Len(elems[c]) /\ elems'[c][i] = elems[c][i]
      BY <2>3, <3>1, <3>2
    <3> QED
      BY <1>3, <2>1, <3>3
  <2>5. \A b \in Bundles : \A i \in 1..Len(elems'[b]) :
           elems'[b][i].handle \in Bundles => rank[elems'[b][i].handle] < rank[b]
    BY <1>5, <2>1, <2>4, Zenon
  <2> QED
    BY <2>5 DEF Ranked
<1>7. Complete' \in [Bundles -> Seq(Elements)] /\ Ranked(Complete')
  <2>1. IInv' => (Complete \in [Bundles -> Seq(Elements)])'
    BY CompleteElements, PTL
  <2>2. IInv' /\ Ranked(elems)' => Ranked(Complete)'
    BY RankedComplete, PTL
  <2> QED
    BY <1>6, <2>1, <2>2
<1>8. Complete'[c] = Append(Complete[c], e)
  <2>1. Complete'[c] = elems'[c]
    BY <1>3 DEF Complete
  <2> QED
    BY <1>3, <1>5, <2>1
<1>9. OnlyChanges(c, Complete, stamp, Complete', stamp)
  <2>1. \A b \in Bundles : b # c => Complete'[b] = Complete[b]
    BY <1>5 DEF Complete
  <2> QED
    BY <2>1 DEF OnlyChanges
<1>10. Complete \in [Bundles -> Seq(Elements)]
  BY <1>1, CompleteElements
<1>11. e.handle # c
  BY <1>2, <1>3
<1>12. ItemValue(e, args, ValuesNow) = MessageValue
  BY <1>2 DEF ItemValue, MessageValue
<1>13. /\ AreValues(Values(args, Complete', stamp), args, Complete', stamp)
       /\ Revalues(Values(args, Complete', stamp), ValuesNow, c, ValuesNow[c].tag,
                   Append(ValuesNow[c].items, ItemValue(e, args, ValuesNow)))
  <2> HIDE DEF ValuesNow
  <2> QED
    BY <1>1, <1>2, <1>3, <1>7, <1>8, <1>9, <1>10, <1>11, ValuesGrow, Zenon
<1>14. ValuesNow' = Values(args, Complete', stamp)
  BY DEF ValuesNow
<1>15. Readable'
  BY <1>13, <1>14 DEF Readable
<1> QED
  BY <1>6, <1>12, <1>13, <1>14, <1>15 DEF c

\* endBundle() of a nested bundle: the enclosing bundle gains its value.
LEMMA ReadPop ==
    ASSUME RInv, IInv', Len(m_bundles) > 1, m_bundles' = pop_back(m_bundles),
           UNCHANGED <<args, elems, stamp>>
    PROVE  /\ Ranked(elems)' /\ Readable'
           /\ Revalues(ValuesNow', ValuesNow, back(m_bundles'),
                       ValuesNow[back(m_bundles')].tag,
                       Append(ValuesNow[back(m_bundles')].items,
                              ValuesNow[back(m_bundles)]))
<1> DEFINE n == Len(m_bundles)
           d == m_bundles[n - 1]
           e == back(elems[d])
<1>1. IInv /\ Ranked(elems) /\ AreValues(ValuesNow, args, Complete, stamp)
  BY DEF RInv, CIInv, Readable
<1>2. /\ n \in Nat /\ n > 1 /\ Len(m_bundles') = n - 1
      /\ \A i \in 1..(n - 1) : m_bundles'[i] = m_bundles[i]
      /\ \A i \in 1..n : m_bundles[i] \in Bundles
      /\ \A i, j \in 1..n : m_bundles[i] = m_bundles[j] => i = j
  BY <1>1, Stack, PopBack
<1>3. n \in 1..n /\ n - 1 \in 1..n /\ n - 1 \in 1..(n - 1) /\ (n - 1) + 1 = n
  BY <1>2, SMTT(20)
<1>4. /\ d \in Bundles /\ elems[d] # <<>> /\ e.handle = m_bundles[n]
      /\ Complete[d] = pop_back(elems[d])
  BY <1>1, <1>2, <1>3, CompleteElements, SMTT(30)
     DEF IInv, MemorySafe, OpenBundlesNest
<1>5. back(m_bundles') = d /\ back(m_bundles) = m_bundles[n]
  BY <1>2, <1>3 DEF back
<1>6. elems[d] \in Seq(Elements) /\ e \in Elements
      /\ elems[d] = Append(Complete[d], e)
  <2>1. elems[d] \in Seq(Elements)
    BY <1>1, <1>4 DEF IInv, TypeOK
  <2>2. Len(elems[d]) \in 1..Len(elems[d])
    BY <1>4, <2>1, EmptySeq
  <2>3. e \in Elements
    BY <2>1, <2>2, ElementOfSeq DEF back
  <2> QED
    BY <1>4, <2>1, <2>3, PopElements
<1>7. NotHeld(Complete, d)
  BY <1>1, <1>3, OpenNotHeld DEF NotHeld
<1> HIDE DEF d, e
<1>8. Complete'[d] = elems[d]
  <2>1. \A i \in 1..(Len(m_bundles') - 1) : m_bundles'[i] # d
    BY <1>2, <1>3 DEF d
  <2> QED
    BY <1>4, <2>1 DEF Complete
<1>9. OnlyChanges(d, Complete, stamp, Complete', stamp)
  <2>1. ASSUME NEW b \in Bundles, b # d PROVE Complete'[b] = Complete[b]
    <3>1. \A i \in 1..(n - 1) : m_bundles[i] = b => i \in 1..(n - 2)
      BY <1>2, <2>1 DEF d
    <3>2. \A i \in 1..(n - 2) : i \in 1..(n - 1) /\ m_bundles'[i] = m_bundles[i]
      BY <1>2
    <3>3. (\E i \in 1..(n - 2) : m_bundles'[i] = b)
             <=> (\E i \in 1..(n - 1) : m_bundles[i] = b)
      BY <3>1, <3>2, Zenon
    <3>4. Len(m_bundles') - 1 = n - 2
      BY <1>2
    <3> QED
      BY <3>3, <3>4 DEF Complete
  <2> QED
    BY <2>1 DEF OnlyChanges
<1>10. Ranked(elems)'
  BY <1>1
<1>11. Complete' \in [Bundles -> Seq(Elements)] /\ Ranked(Complete')
  <2>1. IInv' => (Complete \in [Bundles -> Seq(Elements)])'
    BY CompleteElements, PTL
  <2>2. IInv' /\ Ranked(elems)' => Ranked(Complete)'
    BY RankedComplete, PTL
  <2> QED
    BY <1>10, <2>1, <2>2
<1>12. Complete \in [Bundles -> Seq(Elements)]
  BY <1>1, CompleteElements
<1>13. e.handle # d /\ ItemValue(e, args, ValuesNow) = ValuesNow[back(m_bundles)]
  <2>1. m_bundles[n] # m_bundles[n - 1] /\ m_bundles[n] \in Bundles
    BY <1>2, <1>3
  <2>2. m_bundles[n] \notin Messages
    BY <2>1, HandlesAssumption
  <2> QED
    BY <1>4, <1>5, <2>1, <2>2 DEF ItemValue, d
<1>14. /\ AreValues(Values(args, Complete', stamp), args, Complete', stamp)
       /\ Revalues(Values(args, Complete', stamp), ValuesNow, d, ValuesNow[d].tag,
                   Append(ValuesNow[d].items, ItemValue(e, args, ValuesNow)))
  <2> HIDE DEF ValuesNow
  <2> QED
    BY <1>1, <1>4, <1>6, <1>7, <1>8, <1>9, <1>11, <1>12, <1>13, ValuesGrow, Zenon
<1>15. ValuesNow' = Values(args, Complete', stamp)
  BY DEF ValuesNow
<1>16. Readable'
  BY <1>14, <1>15 DEF Readable
<1> QED
  BY <1>5, <1>10, <1>13, <1>14, <1>15, <1>16

\* beginBundle(): the new bundle is empty, and incomplete in the one around it.
LEMMA ReadOpen ==
    ASSUME RInv, IInv', NEW tag \in TimeTags, OpenBundle(tag)
    PROVE  /\ Ranked(elems)' /\ Readable'
           /\ \E b \in Bundles :
                 /\ \A i \in 1..Len(m_bundles) : m_bundles[i] # b
                 /\ m_bundles' = Append(m_bundles, b)
                 /\ Revalues(ValuesNow', ValuesNow, b, tag, <<>>)
<1>1. IInv /\ Ranked(elems) /\ AreValues(ValuesNow, args, Complete, stamp)
  BY DEF RInv, CIInv, Readable
<1>2. PICK b \in Bundles \ live :
         /\ stamp' = [stamp EXCEPT ![b] = tag]
         /\ IF m_bundles = <<>> THEN elems' = elems ELSE Attach(b, "")
         /\ m_bundles' = Append(m_bundles, b)
  BY Zenon DEF OpenBundle
<1>3. args' = args
  BY Zenon DEF OpenBundle
<1>4. /\ m_bundles \in Seq(Bundles) /\ Len(m_bundles) \in Nat
      /\ m_bundles # <<>> <=> Len(m_bundles) > 0
      /\ \A i \in 1..Len(m_bundles) : m_bundles[i] \in Bundles /\ m_bundles[i] # b
  BY <1>1, Stack
<1>5. /\ Len(m_bundles') - 1 = Len(m_bundles)
      /\ \A i \in 1..Len(m_bundles) : m_bundles'[i] = m_bundles[i]
  <2>0. m_bundles' = Append(m_bundles, b) /\ b \in Bundles
    BY <1>2, Zenon
  <2>1. Len(m_bundles') = Len(m_bundles) + 1
        /\ \A i \in 1..Len(m_bundles) : m_bundles'[i] = m_bundles[i]
    BY <1>4, <2>0, AppendProperties
  <2> QED
    BY <1>4, <2>1
<1>6. elems \in [Bundles -> Seq(Elements)] /\ stamp \in [Bundles -> TimeTags]
  BY <1>1 DEF IInv, TypeOK
<1>7. elems[b] = <<>> /\ \A a \in Bundles : b \notin Kids(elems, a)
  BY <1>1 DEF IInv, MemorySafe, NoDangling, Kids
<1> DEFINE c == back(m_bundles)
<1>8. ASSUME m_bundles # <<>>
      PROVE  \E e \in Elements :
                /\ e.handle = b /\ c \in Bundles /\ c # b /\ Complete[c] = elems[c]
                /\ elems'[c] = Append(elems[c], e)
                /\ \A a \in Bundles : a # c => elems'[a] = elems[a]
  <2>1. /\ c \in Bundles /\ c \in live /\ Complete[c] = elems[c]
    BY <1>1, <1>8, Innermost
  <2> DEFINE e == [handle |-> b, path |-> ""]
  <2>2. e \in Elements /\ e.handle = b
    BY Zenon DEF Elements, Contents, Paths
  <2>3. elems' = [elems EXCEPT ![c] = Append(@, e)]
    BY <1>2, <1>8, Zenon DEF Attach, BundleAdd
  <2> HIDE DEF e, c
  <2>4. /\ elems'[c] = Append(elems[c], e)
        /\ \A a \in Bundles : a # c => elems'[a] = elems[a]
    BY <1>6, <2>1, <2>3
  <2>5. c # b
    BY <1>2, <2>1, Zenon
  <2> QED
    BY <2>1, <2>2, <2>4, <2>5
<1> HIDE DEF c
<1>9. Complete' = Complete
  <2>1. ASSUME NEW a \in Bundles PROVE Complete'[a] = Complete[a]
    <3>1. Complete'[a] = IF \E i \in 1..Len(m_bundles) : m_bundles[i] = a
                         THEN pop_back(elems'[a]) ELSE elems'[a]
      BY <1>5 DEF Complete
    <3>2. CASE m_bundles = <<>>
      <4>1. ~(\E i \in 1..Len(m_bundles) : m_bundles[i] = a)
            /\ ~(\E i \in 1..(Len(m_bundles) - 1) : m_bundles[i] = a)
            /\ elems' = elems
        BY <1>2, <1>4, <3>2
      <4> QED
        BY <3>1, <4>1 DEF Complete
    <3>3. CASE m_bundles # <<>> /\ a # c
      <4>1. elems'[a] = elems[a]
        BY <1>8, <3>3
      <4>2. \A i \in 1..Len(m_bundles) : m_bundles[i] = a => i \in 1..(Len(m_bundles) - 1)
        BY <1>4, <3>3 DEF c, back
      <4>3. \A i \in 1..(Len(m_bundles) - 1) : i \in 1..Len(m_bundles)
        BY <1>4
      <4> QED
        BY <3>1, <4>1, <4>2, <4>3, Zenon DEF Complete
    <3>4. CASE m_bundles # <<>> /\ a = c
      <4>1. PICK e \in Elements : elems'[c] = Append(elems[c], e)
                                  /\ Complete[c] = elems[c]
        BY <1>8, <3>4
      <4>2. Len(m_bundles) \in 1..Len(m_bundles) /\ m_bundles[Len(m_bundles)] = a
        BY <1>4, <3>4 DEF c, back
      <4>3. elems[c] \in Seq(Elements)
        BY <1>6, <3>4
      <4>4. pop_back(elems'[c]) = elems[c]
        BY <4>1, <4>3, PopAppended
      <4> QED
        BY <3>1, <3>4, <4>1, <4>2, <4>4
    <3> QED
      BY <3>2, <3>3, <3>4
  <2>2. Complete = [a \in Bundles |-> Complete[a]]
        /\ Complete' = [a \in Bundles |-> Complete'[a]]
    BY DEF Complete
  <2> QED
    BY <2>1, <2>2
<1>10. Ranked(elems)'
  <2>1. PICK rank \in [Bundles -> Nat] :
           \A a \in Bundles : \A i \in 1..Len(elems[a]) :
              elems[a][i].handle \in Bundles => rank[elems[a][i].handle] < rank[a]
    BY <1>1 DEF Ranked
  <2>2. CASE m_bundles = <<>>
    BY <1>1, <1>2, <2>2
  <2>3. CASE m_bundles # <<>>
    <3>1. PICK e \in Elements :
             /\ e.handle = b /\ c \in Bundles /\ c # b
             /\ elems'[c] = Append(elems[c], e)
             /\ \A a \in Bundles : a # c => elems'[a] = elems[a]
      BY <1>8, <2>3
    <3>2. elems[c] \in Seq(Elements)
      BY <1>6, <3>1
    <3>3. /\ Len(elems'[c]) = Len(elems[c]) + 1 /\ Len(elems[c]) \in Nat
          /\ \A i \in 1..Len(elems[c]) : elems'[c][i] = elems[c][i]
          /\ elems'[c][Len(elems[c]) + 1] = e
      BY <3>1, <3>2, AppendProperties, LenProperties
    <3> DEFINE higher == [a \in Bundles |-> IF a = b THEN 0 ELSE rank[a] + 1]
    <3>4. higher \in [Bundles -> Nat] /\ higher[b] = 0
          /\ \A a \in Bundles : rank[a] \in Nat /\ (a # b => higher[a] = rank[a] + 1)
      BY <2>1
    <3> HIDE DEF higher
    <3>5. ASSUME NEW a \in Bundles, NEW i \in 1..Len(elems[a]),
                 elems[a][i].handle \in Bundles
          PROVE  higher[elems[a][i].handle] < higher[a]
      <4>1. elems[a][i].handle # b
        BY <1>7, <3>5 DEF Kids
      <4>2. a # b
        BY <1>7, <3>5
      <4> QED
        BY <2>1, <3>4, <3>5, <4>1, <4>2
    <3>6. \A i \in 1..Len(elems'[c]) :
             elems'[c][i].handle \in Bundles => higher[elems'[c][i].handle] < higher[c]
      <4> SUFFICES ASSUME NEW i \in 1..Len(elems'[c]), elems'[c][i].handle \in Bundles
                   PROVE  higher[elems'[c][i].handle] < higher[c]
        OBVIOUS
      <4>1. CASE i \in 1..Len(elems[c])
        BY <3>1, <3>3, <3>5, <4>1
      <4>2. CASE i = Len(elems[c]) + 1
        <5>1. elems'[c][i].handle = b /\ higher[c] = rank[c] + 1 /\ rank[c] \in Nat
          BY <3>1, <3>3, <3>4, <4>2
        <5> QED
          BY <3>4, <5>1
      <4> QED
        BY <3>3, <4>1, <4>2
    <3>7. \A a \in Bundles : \A i \in 1..Len(elems'[a]) :
             elems'[a][i].handle \in Bundles => higher[elems'[a][i].handle] < higher[a]
      BY <3>1, <3>5, <3>6, Zenon
    <3> QED
      BY <3>4, <3>7, Zenon DEF Ranked
  <2> QED
    BY <2>2, <2>3
<1>11. Complete \in [Bundles -> Seq(Elements)] /\ Ranked(Complete)
  BY <1>1, CompleteElements, RankedComplete
<1>12. Complete[b] = <<>> /\ NotHeld(Complete, b)
  <2>1. \A a \in Bundles : /\ Len(Complete[a]) \in Nat
                           /\ Len(Complete[a]) =< Len(elems[a])
                           /\ \A i \in 1..Len(Complete[a]) :
                                 i \in 1..Len(elems[a]) /\ Complete[a][i] = elems[a][i]
    BY <1>1, CompleteElements
  <2>2. Complete[b] \in Seq(Elements) /\ Len(Complete[b]) = 0
    BY <1>7, <1>11, <2>1, EmptySeq
  <2>3. Complete[b] = <<>>
    BY <2>2, EmptySeq
  <2> QED
    BY <1>7, <2>1, <2>3 DEF NotHeld, Kids
<1>13. OnlyChanges(b, Complete, stamp, Complete, stamp') /\ stamp'[b] = tag
  BY <1>2, <1>6, ZenonT(30) DEF OnlyChanges
<1>14. /\ AreValues(Values(args, Complete, stamp'), args, Complete, stamp')
       /\ Revalues(Values(args, Complete, stamp'), ValuesNow, b, stamp'[b],
                   Items(Complete[b], args, ValuesNow))
  <2> HIDE DEF ValuesNow
  <2> QED
    BY <1>1, <1>11, <1>12, <1>13, ValuesChange, SMTT(20)
<1>15. Items(Complete[b], args, ValuesNow) = <<>>
  BY <1>12 DEF Items
<1>16. ValuesNow' = Values(args, Complete, stamp')
  BY <1>3, <1>9, SMTT(20) DEF ValuesNow
<1>17. Readable'
  BY <1>3, <1>9, <1>14, <1>16 DEF Readable
<1> QED
  BY <1>2, <1>4, <1>10, <1>13, <1>14, <1>15, <1>16, <1>17, Zenon

\* Bundles without elements nest in no order at all.
LEMMA NothingNested ==
    ASSUME NEW es, \A b \in Bundles : Len(es[b]) = 0
    PROVE  Ranked(es)
<1> DEFINE rank == [b \in Bundles |-> 0]
<1>1. rank \in [Bundles -> Nat]
  OBVIOUS
<1> HIDE DEF rank
<1>2. \A b \in Bundles : \A i \in 1..Len(es[b]) :
         es[b][i].handle \in Bundles => rank[es[b][i].handle] < rank[b]
  OBVIOUS
<1> QED
  BY <1>1, <1>2 DEF Ranked

\* The value of a bundle without elements is its time tag.
LEMMA NothingToRead ==
    ASSUME NEW as, NEW es, NEW st,
           \A b \in Bundles : es[b] = <<>> /\ Len(es[b]) = 0
    PROVE  AreValues(Values(as, es, st), as, es, st)
<1> DEFINE v == [b \in Bundles |-> [tag |-> st[b], items |-> <<>>]]
<1> HIDE DEF v
<1>1. \A b \in Bundles : Items(es[b], as, v) = <<>>
  <2> SUFFICES ASSUME NEW b \in Bundles PROVE Items(es[b], as, v) = <<>>
    BY Zenon
  <2>1. es[b] = <<>> /\ Len(es[b]) = 0
    OBVIOUS
  <2> QED
    BY <2>1 DEF Items
<1>2. v = [b \in Bundles |-> [tag |-> st[b], items |-> Items(es[b], as, v)]]
  BY <1>1, Zenon DEF v
<1>3. AreValues(v, as, es, st)
  BY <1>2, ValueOf, Zenon
<1> QED
  BY <1>3, ValuesExist, Zenon

\* What clear() leaves: no bundle has elements, no message has arguments that is
\* not allocated.
LEMMA ReadClear ==
    ASSUME RInv, NEW rest, Clear(rest), IInv'
    PROVE  Ranked(elems)' /\ Readable' /\ (rest \cap Messages = {} => Unwritten')
<1>1. IInv /\ Unwritten
  BY DEF RInv, CIInv
<1>2. \A b \in Bundles : elems'[b] = <<>>
  <2> SUFFICES ASSUME NEW b \in Bundles PROVE elems'[b] = <<>>
    OBVIOUS
  <2>1. CASE b \in live
    BY <1>1, <2>1, Zenon DEF IInv, MemorySafe, BundlesReachable, Clear, Freed
  <2>2. CASE b \notin live
    BY <1>1, <2>2, Zenon DEF IInv, MemorySafe, NoDangling, Clear
  <2> QED
    BY <2>1, <2>2
<1>3. m_bundles' = <<>> /\ Len(m_bundles') = 0
  BY EmptySeq, Zenon DEF Clear
<1>4. \A b \in Bundles : Complete'[b] = <<>> /\ Len(Complete'[b]) = 0
  BY <1>2, <1>3, EmptySeq DEF Complete
<1>5. Ranked(elems)'
  <2>1. \A b \in Bundles : Len(elems'[b]) = 0
    BY <1>2, EmptySeq
  <2> QED
    BY <2>1, NothingNested DEF Ranked
<1>6. Readable'
  BY <1>4, NothingToRead DEF Readable, ValuesNow
<1>7. rest \cap Messages = {} => Unwritten'
  BY <1>1, Zenon DEF Unwritten, Clear
<1> QED
  BY <1>5, <1>6, <1>7

-----------------------------------------------------------------------------
(* The open bundles of PacketBuilder.                                      *)

\* The values that the assignment v gives to the bundles s.
Valued(s, v) == [i \in 1..Len(s) |-> v[s[i]]]

\* A value added to the innermost of the open bundles s, as PacketBuilder has it.
LEMMA IntoInnermost ==
    ASSUME NEW s \in Seq(Bundles), s # <<>>,
           \A i, j \in 1..Len(s) : s[i] = s[j] => i = j,
           NEW v, NEW w, NEW x,
           Revalues(w, v, back(s), v[back(s)].tag, Append(v[back(s)].items, x))
    PROVE  Valued(s, w) = Abstract!Into(Valued(s, v), x)
<1> DEFINE n == Len(s)
           bs == [i \in 1..n |-> v[s[i]]]
           cs == [i \in 1..n |-> w[s[i]]]
           y == [tag |-> bs[n].tag, items |-> Append(bs[n].items, x)]
<1>1. n \in Nat /\ n \in 1..n /\ \A i \in 1..n : s[i] \in Bundles
  BY EmptySeq, LenProperties, ElementOfSeq
<1>2. \A i \in 1..n : i # n => s[i] # back(s)
  BY <1>1 DEF back
<1> HIDE DEF n
<1>3. bs[n] = v[back(s)] /\ cs[n] = w[back(s)]
  BY <1>1 DEF back, n
<1>4. \A i \in 1..n : i # n => cs[i] = bs[i]
  BY <1>1, <1>2 DEF Revalues
<1>5. cs[n] = y
  BY <1>3, Zenon DEF Revalues
<1>6. Len(bs) = n
  BY <1>1
<1>7. /\ bs = [i \in 1..n |-> bs[i]] /\ cs = [i \in 1..n |-> cs[i]]
  OBVIOUS
<1>8. Abstract!Into(bs, x) = [bs EXCEPT ![n] = y]
  BY <1>6, Zenon DEF Abstract!Into, Abstract!Bundle
<1> HIDE DEF bs, cs, y
<1>9. [bs EXCEPT ![n] = y] = [i \in 1..n |-> IF i = n THEN y ELSE bs[i]]
  BY <1>7, Zenon
<1>10. cs = [i \in 1..n |-> IF i = n THEN y ELSE bs[i]]
  BY <1>4, <1>5, <1>7
<1>11. cs = Abstract!Into(bs, x)
  BY <1>8, <1>9, <1>10, Zenon
<1> QED
  BY <1>11 DEF n, bs, cs, Valued

\* A new innermost bundle, as PacketBuilder has it.
LEMMA OneMoreOpen ==
    ASSUME NEW s \in Seq(Bundles), NEW b \in Bundles,
           \A i \in 1..Len(s) : s[i] # b,
           NEW v, NEW w, NEW t, NEW x, Revalues(w, v, b, t, x)
    PROVE  Valued(Append(s, b), w) = Append(Valued(s, v), Abstract!Bundle(t, x))
<1> DEFINE n == Len(s)
           r == Append(s, b)
           bs == [i \in 1..n |-> v[s[i]]]
           cs == [i \in 1..(n + 1) |-> w[r[i]]]
           S == {cs[i] : i \in 1..(n + 1)}
<1>1. /\ n \in Nat /\ Len(r) = n + 1 /\ r[n + 1] = b
      /\ \A i \in 1..n : r[i] = s[i] /\ s[i] \in Bundles
  BY AppendProperties, LenProperties, ElementOfSeq
<1> HIDE DEF n, r
<1>2. n + 1 \in 1..(n + 1) /\ \A i \in 1..n : i \in 1..(n + 1)
  BY <1>1
<1>3. cs[n + 1] = Abstract!Bundle(t, x)
  BY <1>1, <1>2 DEF Revalues, Abstract!Bundle
<1>4. \A i \in 1..n : cs[i] = bs[i]
  BY <1>1, <1>2 DEF Revalues, n
<1>5. bs = [i \in 1..n |-> bs[i]] /\ cs = [i \in 1..(n + 1) |-> cs[i]]
  OBVIOUS
<1> HIDE DEF bs, cs
<1>6. \A i \in 1..(n + 1) : cs[i] \in S
  OBVIOUS
<1> HIDE DEF S
<1>7. bs \in [1..n -> S] /\ cs \in [1..(n + 1) -> S]
  BY <1>2, <1>4, <1>5, <1>6, Zenon
<1>8. cs = Append(bs, cs[n + 1])
  BY <1>1, <1>4, <1>7, LongerByOne
<1> QED
  BY <1>1, <1>3, <1>8, Zenon DEF bs, cs, n, r, Valued

\* The bundles open after the innermost one is closed.
LEMMA OuterValues ==
    ASSUME NEW s \in Seq(Bundles), Len(s) > 1, NEW v
    PROVE  /\ SubSeq(Valued(s, v), 1, Len(Valued(s, v)) - 1) = Valued(pop_back(s), v)
           /\ Valued(s, v)[Len(Valued(s, v))] = v[back(s)]
           /\ Valued(pop_back(s), v) # <<>>
<1> DEFINE n == Len(s)
           bs == Valued(s, v)
           r == pop_back(s)
           S == {v[s[i]] : i \in 1..n}
<1>1. n \in Nat /\ n > 1 /\ Len(r) = n - 1 /\ \A i \in 1..(n - 1) : r[i] = s[i]
  BY PopBack, LenProperties
<1>2. bs = [i \in 1..n |-> v[s[i]]] /\ \A i \in 1..n : v[s[i]] \in S
  BY DEF Valued
<1> HIDE DEF n, r, S
<1>3. Len(bs) = n /\ \A i \in 1..n : bs[i] = v[s[i]]
  BY <1>1, <1>2
<1>4. bs[n] = v[back(s)]
  BY <1>1, <1>3 DEF back, n
<1> HIDE DEF bs
<1>5. 1 \in Int /\ n - 1 \in Int /\ \A i \in 1..(n - 1) : i \in 1..n /\ bs[i] \in S
  BY <1>1, <1>2, <1>3
<1> DEFINE o == SubSeq(bs, 1, n - 1)
<1>6. /\ o \in Seq(S) /\ Len(o) = n - 1
      /\ \A i \in 1..(n - 1) : o[i] = bs[i]
  BY <1>1, <1>5, SubSeqProperties
<1> HIDE DEF o
<1>7. o = [i \in 1..(n - 1) |-> o[i]]
  <2>1. o \in [1..(n - 1) -> S]
    BY <1>6, LenProperties
  <2> QED
    BY <2>1
<1>8. \A i \in 1..(n - 1) : o[i] = v[r[i]]
  BY <1>1, <1>3, <1>5, <1>6
<1>9. o = Valued(r, v)
  BY <1>1, <1>7, <1>8 DEF Valued
<1>10. o # <<>>
  BY <1>1, <1>6, EmptySeq
<1> QED
  BY <1>3, <1>4, <1>9, <1>10 DEF bs, o, r

-----------------------------------------------------------------------------
(* Each call is a step of PacketBuilder.                                   *)

\* beginMessage() starts a message without arguments.
LEMMA BeginMessageStep ==
    ASSUME RInv, CBeginMessage, life = "alive"
    PROVE  Abstract!PNext /\ Ranked(elems)' /\ Readable' /\ Unwritten'
<1>1. IInv /\ Matched /\ Unwritten /\ Len(m_bundles) \in Nat
      /\ (m_bundles = <<>> <=> Len(m_bundles) = 0)
  BY EmptyStack DEF RInv, CIInv
<1>2. PICK p \in Patterns : beginMessage(p)
  BY DEF CBeginMessage
<1>3. /\ ~m_messageInProgress /\ m_message = NULL
      /\ m_bundleInProgress \/ m_bundles = <<>>
  BY <1>1 DEF Matched, CBeginMessage, Idle
<1>4. PICK m \in Messages \ live : m_message' = m /\ live' = live \cup {m}
  BY <1>2, <1>3 DEF beginMessage
<1>5. /\ m_messageInProgress' = TRUE /\ m_addressPattern' = p /\ sent' = NULL
      /\ UNCHANGED <<m_bundles, m_bundleInProgress, args, elems, stamp>>
  BY <1>2, <1>3 DEF beginMessage
<1>6. ValuesNow' = ValuesNow /\ Ranked(elems)' /\ Readable'
  BY <1>5, ReadSame
<1>7. m # NULL /\ args[m] = <<>>
  BY <1>1, <1>4, HandlesAssumption DEF Unwritten
<1>8. OpenBundles' = OpenBundles
  BY <1>5, <1>6 DEF OpenBundles
<1>9. OpenMessage = <<>> /\ OpenMessage' = <<[path |-> p, args |-> <<>>]>>
  BY <1>3, <1>4, <1>5, <1>7 DEF OpenMessage, MessageValue
<1>10. Finished = <<>> /\ Finished' = <<>>
  BY <1>3, <1>5 DEF Finished
<1>11. OnTheWire' = <<>>
  BY <1>5 DEF OnTheWire
<1>12. Abstract!PBeginMessage
  BY <1>8, <1>9, <1>10 DEF Abstract!PBeginMessage, Abstract!Message
<1>13. Unwritten'
  BY <1>1, <1>4, <1>5 DEF Unwritten
<1> QED
  BY <1>6, <1>11, <1>12, <1>13 DEF Abstract!PNext

\* addArg() adds to the message being written.
LEMMA AddArgStep ==
    ASSUME RInv, CAddArg, life = "alive"
    PROVE  Abstract!PNext /\ Ranked(elems)' /\ Readable' /\ Unwritten'
<1>1. IInv /\ Matched /\ Unwritten
  BY DEF RInv, CIInv
<1>2. PICK t \in Tags : addArg(t)
  BY DEF CAddArg
<1>3. m_messageInProgress /\ m_message # NULL
  BY <1>1 DEF Matched, CAddArg
<1>4. /\ args' = [args EXCEPT ![m_message] = Append(@, t)] /\ sent' = NULL
      /\ UNCHANGED <<m_message, m_bundles, m_addressPattern, m_messageInProgress,
                     m_bundleInProgress, live, elems, stamp>>
  BY <1>2, <1>3, Zenon DEF addArg, object
<1>5. ValuesNow' = ValuesNow /\ Ranked(elems)' /\ Readable'
  BY <1>3, <1>4, ReadArg, Zenon
<1>6. m_message \in Messages /\ m_message \in live
      /\ args \in [Messages -> Seq(Tags)]
  BY <1>1, <1>3 DEF IInv, TypeOK, MemorySafe, NoDangling
<1>7. args'[m_message] = Append(args[m_message], t)
      /\ \A m \in Messages : m # m_message => args'[m] = args[m]
  BY <1>4, <1>6
<1>8. OpenBundles' = OpenBundles
  BY <1>4, <1>5 DEF OpenBundles
<1>9. OpenMessage = <<[path |-> m_addressPattern, args |-> args[m_message]]>>
  BY <1>3 DEF OpenMessage, MessageValue
<1>10. OpenMessage' = <<[path |-> m_addressPattern,
                         args |-> Append(args[m_message], t)]>>
  BY <1>3, <1>4, <1>7, Zenon DEF OpenMessage, MessageValue
<1>11. Finished = <<>> /\ Finished' = <<>>
  BY <1>3, <1>4 DEF Finished
<1>12. OnTheWire' = <<>>
  BY <1>4 DEF OnTheWire
<1>13. OpenMessage # <<>> /\ OpenMessage[1].path = m_addressPattern
       /\ OpenMessage[1].args = args[m_message]
  BY <1>9
<1>14. Abstract!PAddArg
  BY <1>8, <1>10, <1>11, <1>13, Zenon DEF Abstract!PAddArg, Abstract!Message
<1>15. Unwritten'
  BY <1>1, <1>4, <1>6, <1>7 DEF Unwritten
<1> QED
  BY <1>5, <1>12, <1>14, <1>15 DEF Abstract!PNext

\* endMessage() puts the message into the innermost bundle, or finishes the packet.
LEMMA EndMessageStep ==
    ASSUME RInv, IInv', CEndMessage, life = "alive"
    PROVE  Abstract!PNext /\ Ranked(elems)' /\ Readable' /\ Unwritten'
<1>1. IInv /\ Matched /\ Unwritten /\ Len(m_bundles) \in Nat
      /\ (m_bundles = <<>> <=> Len(m_bundles) = 0)
  BY EmptyStack DEF RInv, CIInv
<1>2. /\ endMessage /\ building /\ m_messageInProgress /\ m_message # NULL
      /\ ready = "nothing"
  BY <1>1 DEF Matched, CEndMessage, Idle
<1>3. OpenMessage = <<MessageValue>> /\ Finished = <<>>
  BY <1>2 DEF OpenMessage, Finished
<1>4. CASE depth = 0
  <2>1. ~m_bundleInProgress /\ m_bundles = <<>>
    BY <1>1, <1>2, <1>4 DEF Matched
  <2>2. /\ m_messageInProgress' = FALSE /\ sent' = NULL
        /\ UNCHANGED <<m_message, m_bundles, m_addressPattern, m_bundleInProgress,
                       live, args, elems, stamp>>
    BY <1>2, <2>1 DEF endMessage, heap
  <2>3. ValuesNow' = ValuesNow /\ Ranked(elems)' /\ Readable'
    BY <2>2, ReadSame
  <2>4. OpenBundles = <<>> /\ OpenBundles' = <<>>
    BY <2>1, <2>2, SMTT(20) DEF OpenBundles
  <2>5. OpenMessage' = <<>> /\ Finished' = <<MessageValue>> /\ OnTheWire' = <<>>
    BY <1>2, <2>1, <2>2 DEF OpenMessage, Finished, MessageValue, OnTheWire
  <2>6. Abstract!PEndMessage
    BY <1>3, <2>4, <2>5 DEF Abstract!PEndMessage
  <2>7. Unwritten'
    BY <1>1, <2>2 DEF Unwritten
  <2> QED
    BY <2>3, <2>5, <2>6, <2>7 DEF Abstract!PNext
<1>5. CASE depth # 0
  <2>1. m_bundleInProgress /\ m_bundles # <<>>
    BY <1>1, <1>2, <1>5 DEF Matched
  <2>2. AddMessageToBundle(m_message, m_addressPattern, NULL)
    BY <1>2, <2>1 DEF endMessage, EndMessageInBundle
  <2>3. /\ Attach(m_message, m_addressPattern) /\ m_message' = NULL /\ sent' = NULL
        /\ m_messageInProgress' = FALSE
        /\ UNCHANGED <<m_bundles, m_bundleInProgress, live, args, stamp>>
    BY <1>2, <2>2, Zenon DEF AddMessageToBundle
  <2>4. /\ Ranked(elems)' /\ Readable'
        /\ Revalues(ValuesNow', ValuesNow, back(m_bundles),
                    ValuesNow[back(m_bundles)].tag,
                    Append(ValuesNow[back(m_bundles)].items, MessageValue))
    BY <1>2, <2>1, <2>3, ReadAttach
  <2>5. /\ OpenBundles = [i \in 1..Len(m_bundles) |-> ValuesNow[m_bundles[i]]]
        /\ OpenBundles' = [i \in 1..Len(m_bundles) |-> ValuesNow'[m_bundles[i]]]
    BY <2>1, <2>3 DEF OpenBundles
  <2>6. OpenBundles' = Abstract!Into(OpenBundles, MessageValue)
    <3>1. /\ m_bundles \in Seq(Bundles)
          /\ \A i, j \in 1..Len(m_bundles) : m_bundles[i] = m_bundles[j] => i = j
      BY <1>1, Stack
    <3> HIDE DEF ValuesNow
    <3>2. Valued(m_bundles, ValuesNow')
             = Abstract!Into(Valued(m_bundles, ValuesNow), MessageValue)
      BY <2>1, <2>4, <3>1, IntoInnermost
    <3> QED
      BY <2>5, <3>2, Zenon DEF Valued
  <2>7. OpenBundles # <<>>
    <3>1. 1 \in 1..Len(m_bundles)
      BY <1>1, <2>1
    <3>2. DOMAIN OpenBundles = 1..Len(m_bundles)
      BY <2>5
    <3> QED
      BY <3>1, <3>2
  <2>8. OpenMessage' = <<>> /\ Finished' = <<>> /\ OnTheWire' = <<>>
    BY <2>1, <2>3 DEF OpenMessage, Finished, OnTheWire
  <2>9. Abstract!PEndMessage
    BY <1>3, <2>6, <2>7, <2>8 DEF Abstract!PEndMessage
  <2>10. Unwritten'
    BY <1>1, <2>3 DEF Unwritten
  <2> QED
    BY <2>4, <2>8, <2>9, <2>10 DEF Abstract!PNext
<1> QED
  BY <1>4, <1>5

\* beginBundle() opens an empty bundle with the client's time tag, or "now".
LEMMA BeginBundleStep ==
    ASSUME Sequels = FALSE, RInv, IInv', CBeginBundle, life = "alive"
    PROVE  Abstract!PNext /\ Ranked(elems)' /\ Readable' /\ Unwritten'
<1>1. IInv /\ Matched /\ Unwritten /\ Len(m_bundles) \in Nat
      /\ (m_bundles = <<>> <=> Len(m_bundles) = 0)
  BY EmptyStack DEF RInv, CIInv
<1>2. /\ ~building /\ ~m_messageInProgress /\ depth \in Nat
      /\ depth > 0 \/ ready = "nothing"
  BY <1>1 DEF Matched, CBeginBundle
<1>3. ready = "nothing"
  BY <1>1, <1>2 DEF Matched, Idle
<1>4. /\ m_message = NULL
      /\ m_bundleInProgress <=> depth > 0
      /\ Len(m_bundles) = depth
  BY <1>1, <1>2, <1>3 DEF Matched
<1>5. PICK tag \in TimeTags : OpenBundle(tag)
  <2>1. CASE Idle /\ ready = "nothing" /\ beginBundle
    <3>1. ~m_bundleInProgress
      BY <1>1, <2>1 DEF Matched, Idle
    <3> QED
      BY <2>1, <3>1, HandlesAssumption DEF beginBundle
  <2>2. CASE \E t \in TimeTags : beginBundleAt(t)
    BY <1>2, <2>2 DEF beginBundleAt
  <2> QED
    BY <2>1, <2>2 DEF CBeginBundle
<1>6. /\ m_bundleInProgress' = TRUE /\ sent' = NULL
      /\ UNCHANGED <<m_message, m_messageInProgress, args>> /\ live \subseteq live'
  BY <1>5, Zenon DEF OpenBundle
<1>7. /\ Ranked(elems)' /\ Readable'
      /\ \E b \in Bundles :
            /\ \A i \in 1..Len(m_bundles) : m_bundles[i] # b
            /\ m_bundles' = Append(m_bundles, b)
            /\ Revalues(ValuesNow', ValuesNow, b, tag, <<>>)
  BY <1>5, ReadOpen
<1>8. PICK b \in Bundles : /\ \A i \in 1..Len(m_bundles) : m_bundles[i] # b
                           /\ m_bundles' = Append(m_bundles, b)
                           /\ Revalues(ValuesNow', ValuesNow, b, tag, <<>>)
  BY <1>7
<1>9. m_bundles \in Seq(Bundles) /\ m_bundles' # <<>>
  <2>1. m_bundles \in Seq(Bundles)
    BY <1>1, Stack
  <2> QED
    BY <1>8, <2>1, AppendProperties
<1>10. OpenBundles = Valued(m_bundles, ValuesNow)
  <2>1. CASE depth > 0
    BY <1>1, <1>4, <2>1 DEF OpenBundles, Valued
  <2>2. CASE ~(depth > 0)
    <3>1. m_bundles = <<>> /\ Len(m_bundles) = 0 /\ OpenBundles = <<>>
      BY <1>1, <1>2, <1>4, <2>2 DEF OpenBundles
    <3>2. Valued(m_bundles, ValuesNow) = <<>>
      BY <3>1 DEF Valued
    <3> QED
      BY <3>1, <3>2
  <2> QED
    BY <2>1, <2>2
<1>11. OpenBundles' = Valued(m_bundles', ValuesNow')
  BY <1>6, <1>9 DEF OpenBundles, Valued
<1>12. OpenBundles' = Append(OpenBundles, Abstract!Bundle(tag, <<>>))
  <2> HIDE DEF ValuesNow
  <2>1. Valued(Append(m_bundles, b), ValuesNow')
           = Append(Valued(m_bundles, ValuesNow), Abstract!Bundle(tag, <<>>))
    BY <1>8, <1>9, OneMoreOpen
  <2> QED
    BY <1>8, <1>10, <1>11, <2>1, SMTT(30)
<1>13. OpenMessage = <<>> /\ OpenMessage' = <<>> /\ OnTheWire' = <<>>
  BY <1>2, <1>6 DEF OpenMessage, OnTheWire
<1>14. Finished = <<>> /\ Finished' = <<>>
  BY <1>1, <1>2, <1>4, <1>6 DEF Finished
<1>15. Abstract!PBeginBundle
  BY <1>12, <1>13, <1>14 DEF Abstract!PBeginBundle
<1>16. Unwritten'
  BY <1>1, <1>6 DEF Unwritten
<1> QED
  BY <1>7, <1>13, <1>15, <1>16 DEF Abstract!PNext

\* endBundle() puts the innermost bundle into the one around it, or finishes the
\* packet.
LEMMA EndBundleStep ==
    ASSUME RInv, IInv', CEndBundle, life = "alive"
    PROVE  Abstract!PNext /\ Ranked(elems)' /\ Readable' /\ Unwritten'
<1>1. IInv /\ Matched /\ Unwritten
  BY DEF RInv, CIInv
<1>2. /\ depth \in Nat \ {0} /\ m_bundleInProgress /\ ~building
      /\ ~m_messageInProgress /\ Len(m_bundles) = depth
  BY <1>1 DEF Matched, CEndBundle, Idle
<1>3. /\ sent' = NULL
      /\ UNCHANGED <<m_message, m_messageInProgress, live, args, elems, stamp>>
      /\ IF Len(m_bundles) > 1
         THEN m_bundles' = pop_back(m_bundles) /\ UNCHANGED m_bundleInProgress
         ELSE m_bundleInProgress' = FALSE /\ UNCHANGED m_bundles
  BY <1>2, Zenon DEF CEndBundle, endBundle, heap
<1>4. /\ m_bundles \in Seq(Bundles) /\ m_bundles # <<>>
      /\ \A i, j \in 1..Len(m_bundles) : m_bundles[i] = m_bundles[j] => i = j
      /\ Head(m_bundles) = m_bundles[1]
  BY <1>1, <1>2, Stack
<1>5. OpenBundles = Valued(m_bundles, ValuesNow)
  BY <1>2, <1>4 DEF OpenBundles, Valued
<1>6. OpenMessage = <<>> /\ OpenMessage' = <<>> /\ OnTheWire' = <<>> /\ Finished = <<>>
  BY <1>2, <1>3 DEF OpenMessage, OnTheWire, Finished
<1>7. Unwritten'
  BY <1>1, <1>3 DEF Unwritten
<1>8. OpenBundles # <<>>
  <2>1. 1 \in 1..Len(m_bundles) /\ DOMAIN OpenBundles = 1..Len(m_bundles)
    BY <1>2, <1>5 DEF Valued
  <2> QED
    BY <2>1
<1>9. CASE depth = 1
  <2>1. m_bundleInProgress' = FALSE /\ m_bundles' = m_bundles
    BY <1>2, <1>3, <1>9
  <2>2. ValuesNow' = ValuesNow /\ Ranked(elems)' /\ Readable'
    BY <1>3, <2>1, ReadSame
  <2>3. OpenBundles' = <<>> /\ Finished' = <<ValuesNow[m_bundles[1]]>>
    BY <1>2, <1>3, <1>4, <2>1, <2>2, SMTT(20) DEF OpenBundles, Finished
  <2>4. Len(OpenBundles) = 1 /\ OpenBundles[1] = ValuesNow[m_bundles[1]]
    BY <1>2, <1>5, <1>9 DEF Valued
  <2>5. SubSeq(OpenBundles, 1, Len(OpenBundles) - 1) = <<>>
    BY <2>4, SubSeqEmpty
  <2>6. Abstract!PEndBundle
    BY <1>6, <1>8, <2>3, <2>4, <2>5, SMTT(20) DEF Abstract!PEndBundle
  <2> QED
    BY <1>6, <1>7, <2>2, <2>6 DEF Abstract!PNext
<1>10. CASE depth # 1
  <2>1. Len(m_bundles) > 1
    BY <1>2, <1>10
  <2>2. m_bundles' = pop_back(m_bundles) /\ m_bundleInProgress'
    BY <1>2, <1>3, <2>1
  <2>3. /\ Ranked(elems)' /\ Readable'
        /\ Revalues(ValuesNow', ValuesNow, back(m_bundles'),
                    ValuesNow[back(m_bundles')].tag,
                    Append(ValuesNow[back(m_bundles')].items,
                           ValuesNow[back(m_bundles)]))
    BY <1>3, <2>1, <2>2, ReadPop, SMTT(20)
  <2>4. /\ m_bundles' \in Seq(Bundles) /\ m_bundles' # <<>>
        /\ \A i, j \in 1..Len(m_bundles') : m_bundles'[i] = m_bundles'[j] => i = j
    <3>1. IInv' => (/\ m_bundles \in Seq(Bundles)
                    /\ \A i, j \in 1..Len(m_bundles) :
                          m_bundles[i] = m_bundles[j] => i = j)'
      BY Stack, PTL
    <3> QED
      BY <1>4, <2>1, <2>2, <3>1, PopBack
  <2>5. OpenBundles' = Valued(m_bundles', ValuesNow')
    BY <2>2, <2>4 DEF OpenBundles, Valued
  <2>6. OpenBundles' = Abstract!Into(Valued(m_bundles', ValuesNow),
                                     ValuesNow[back(m_bundles)])
    <3> HIDE DEF ValuesNow
    <3>1. Valued(m_bundles', ValuesNow')
             = Abstract!Into(Valued(m_bundles', ValuesNow),
                             ValuesNow[back(m_bundles)])
      BY <2>3, <2>4, IntoInnermost
    <3> QED
      BY <2>5, <3>1
  <2>7. /\ SubSeq(OpenBundles, 1, Len(OpenBundles) - 1) = Valued(m_bundles', ValuesNow)
        /\ OpenBundles[Len(OpenBundles)] = ValuesNow[back(m_bundles)]
        /\ Valued(m_bundles', ValuesNow) # <<>>
    <3> HIDE DEF ValuesNow
    <3> QED
      BY <1>4, <1>5, <2>1, <2>2, OuterValues, SMTT(20)
  <2>8. Finished' = <<>>
    BY <2>2 DEF Finished
  <2>9. Abstract!PEndBundle
    BY <1>6, <1>8, <2>6, <2>7, <2>8, Zenon DEF Abstract!PEndBundle
  <2> QED
    BY <1>6, <1>7, <2>3, <2>9 DEF Abstract!PNext
<1> QED
  BY <1>9, <1>10

\* clear(), send() and the destructor leave nothing of the packet.
LEMMA NothingLeft ==
    ASSUME RInv, IInv', NEW rest, Clear(rest), rest \cap Messages = {}
    PROVE  /\ Ranked(elems)' /\ Readable' /\ Unwritten'
           /\ OpenBundles' = <<>> /\ OpenMessage' = <<>> /\ Finished' = <<>>
<1>1. m_bundles' = <<>> /\ m_message' = NULL
  BY Zenon DEF Clear
<1>2. OpenBundles' = <<>> /\ OpenMessage' = <<>> /\ Finished' = <<>>
  BY <1>1 DEF OpenBundles, OpenMessage, Finished
<1> QED
  BY <1>2, ReadClear

\* What is handed to the socket is the finished packet.
LEMMA PacketIsFinished ==
    ASSUME RInv, life = "alive", Idle, ready # "nothing", sent' = Packet
    PROVE  Finished # <<>> /\ (sent' # NULL => OnTheWire' = Finished)
<1>1. IInv /\ Matched /\ Len(m_bundles) \in Nat
      /\ (m_bundles = <<>> <=> Len(m_bundles) = 0)
  BY EmptyStack DEF RInv, CIInv
<1>2. ~m_messageInProgress /\ ~m_bundleInProgress
  BY <1>1 DEF Matched, Idle
<1>3. sent'.args = args /\ sent'.elems = elems /\ sent'.stamp = stamp
  BY Zenon DEF Packet
<1>4. CASE ready = "bundle"
  <2>1. Len(m_bundles) = 1 /\ m_bundles # <<>>
    BY <1>1, <1>4 DEF Matched
  <2>2. Head(m_bundles) = m_bundles[1] /\ m_bundles[1] \in Bundles
    BY <1>1, <2>1, Stack
  <2>3. Finished = <<ValuesNow[m_bundles[1]]>>
    BY <1>2, <2>1, <2>2 DEF Finished
  <2>4. Complete = elems
    <3>1. elems \in [Bundles -> Seq(Elements)]
      BY <1>1 DEF IInv, TypeOK
    <3>2. \A b \in Bundles : Complete[b] = elems[b]
      BY <2>1 DEF Complete
    <3>3. Complete = [b \in Bundles |-> Complete[b]]
      BY DEF Complete
    <3> QED
      BY <3>1, <3>2, <3>3
  <2>5. sent'.root = m_bundles[1]
    BY <2>1, <2>2, Zenon DEF Packet
  <2>6. m_bundles[1] \notin Messages
    BY <2>2, HandlesAssumption
  <2>7. ASSUME NEW e, e.handle = m_bundles[1]
        PROVE  ItemValue(e, args, ValuesNow) = ValuesNow[m_bundles[1]]
    BY <2>6, <2>7 DEF ItemValue
  <2>8. sent' # NULL =>
           OnTheWire' = <<ItemValue([handle |-> m_bundles[1], path |-> sent'.path],
                                    args, ValuesNow)>>
    BY <1>3, <2>4, <2>5, SMTT(30) DEF OnTheWire, ValuesNow
  <2> HIDE DEF ValuesNow
  <2>9. sent' # NULL => OnTheWire' = <<ValuesNow[m_bundles[1]]>>
    BY <2>7, <2>8
  <2> QED
    BY <2>3, <2>9
<1>5. CASE ready = "message"
  <2>1. m_message # NULL /\ Len(m_bundles) = 0 /\ m_bundles = <<>>
    BY <1>1, <1>5 DEF Matched, Idle
  <2>2. m_message \in Messages
    BY <1>1, <2>1 DEF IInv, TypeOK
  <2>3. Finished = <<MessageValue>>
    BY <1>2, <2>1 DEF Finished
  <2>4. sent'.root = m_message /\ sent'.path = m_addressPattern
    BY <2>1, Zenon DEF Packet
  <2>5. sent' # NULL =>
           OnTheWire' = <<ItemValue([handle |-> m_message, path |-> m_addressPattern],
                                    args, Values(args, elems, stamp))>>
    BY <1>3, <2>4, SMTT(20) DEF OnTheWire
  <2>6. \A v : ItemValue([handle |-> m_message, path |-> m_addressPattern], args, v)
                  = MessageValue
    BY <2>2 DEF ItemValue, MessageValue
  <2> QED
    BY <2>3, <2>5, <2>6
<1> QED
  BY <1>1, <1>4, <1>5 DEF Matched

\* send() puts the finished packet on the wire, or loses it.
LEMMA SendStep ==
    ASSUME RInv, IInv', CSend, life = "alive"
    PROVE  Abstract!PNext /\ Ranked(elems)' /\ Readable' /\ Unwritten'
<1>1. IInv /\ Matched /\ Len(m_bundles) \in Nat
      /\ (m_bundles = <<>> <=> Len(m_bundles) = 0)
  BY EmptyStack DEF RInv, CIInv
<1>2. Idle /\ ready # "nothing" /\ m_address # NULL /\ send
  BY DEF CSend
<1>3. ~m_messageInProgress /\ ~m_bundleInProgress
  BY <1>1, <1>2 DEF Matched, Idle
<1>4. ~CannotSend
  BY <1>1, <1>2 DEF Matched, Idle, CannotSend
<1>5. sent' \in {Packet, NULL} /\ Clear({})
  BY <1>2, <1>4 DEF send
<1>6. /\ Ranked(elems)' /\ Readable' /\ Unwritten'
      /\ OpenBundles' = <<>> /\ OpenMessage' = <<>> /\ Finished' = <<>>
  BY <1>5, NothingLeft
<1>7. OpenBundles = <<>> /\ OpenMessage = <<>>
  BY <1>3 DEF OpenBundles, OpenMessage
<1>8. Finished # <<>>
  <2>1. m_bundles # <<>> \/ m_message # NULL
    BY <1>1, <1>2 DEF Matched, Idle
  <2> HIDE DEF ValuesNow, MessageValue
  <2> QED
    BY <1>3, <2>1 DEF Finished
<1>9. OnTheWire' \in {Finished, <<>>}
  <2>1. CASE sent' = NULL
    BY <2>1 DEF OnTheWire
  <2>2. CASE sent' # NULL
    BY <1>2, <1>5, <2>2, PacketIsFinished
  <2> QED
    BY <2>1, <2>2
<1>10. Abstract!PSend
  BY <1>6, <1>7, <1>8, <1>9 DEF Abstract!PSend
<1> QED
  BY <1>6, <1>10 DEF Abstract!PNext

\* clear() and the destructor drop the packet.
LEMMA ClearStep ==
    ASSUME RInv, IInv', life = "alive", CClear \/ CDestroy
    PROVE  Abstract!PNext /\ Ranked(elems)' /\ Readable' /\ Unwritten'
<1>1. m_address \notin Messages
  BY HandlesAssumption DEF RInv, CIInv, IInv, TypeOK
<1>2. PICK rest : Clear(rest) /\ rest \cap Messages = {}
  <2>1. CASE CClear
    BY <2>1 DEF CClear, clear
  <2>2. CASE CDestroy
    <3>1. Clear({m_address}) /\ {m_address} \cap Messages = {}
      BY <1>1, <2>2 DEF CDestroy, destroy
    <3> QED
      BY <3>1
  <2> QED
    BY <2>1, <2>2
<1>3. /\ Ranked(elems)' /\ Readable' /\ Unwritten'
      /\ OpenBundles' = <<>> /\ OpenMessage' = <<>> /\ Finished' = <<>>
  BY <1>2, NothingLeft
<1>4. OnTheWire' = <<>>
  <2>1. sent' = NULL
    BY DEF CClear, clear, CDestroy, destroy
  <2> QED
    BY <2>1 DEF OnTheWire
<1> QED
  BY <1>3, <1>4 DEF Abstract!PNext, Abstract!PClear

\* setup() and getPort() do not touch the packet.
LEMMA OtherStep ==
    ASSUME RInv, life = "alive", CSetup \/ CGetPort
    PROVE  Abstract!PNext /\ Ranked(elems)' /\ Readable' /\ Unwritten'
<1>1. /\ sent' = NULL
      /\ UNCHANGED <<m_message, m_bundles, m_addressPattern, m_messageInProgress,
                     m_bundleInProgress, args, elems, stamp>>
      /\ \A m \in Messages : m \in live => m \in live'
  <2>1. CASE CSetup
    <3>1. m_address \notin Messages
      BY HandlesAssumption DEF RInv, CIInv, IInv, TypeOK
    <3> QED
      BY <2>1, <3>1 DEF CSetup, setup
  <2>2. CASE CGetPort
    BY <2>2 DEF CGetPort, getPort, object, heap
  <2> QED
    BY <2>1, <2>2
<1>2. ValuesNow' = ValuesNow /\ Ranked(elems)' /\ Readable'
  BY <1>1, ReadSame
<1>3. /\ OpenBundles' = OpenBundles /\ OpenMessage' = OpenMessage
      /\ Finished' = Finished /\ OnTheWire' = <<>>
  BY <1>1, <1>2, ZenonT(30) DEF OpenBundles, OpenMessage, MessageValue, Finished, OnTheWire
<1>4. Unwritten'
  BY <1>1 DEF RInv, Unwritten
<1> QED
  BY <1>2, <1>3, <1>4 DEF Abstract!PNext, Abstract!PIdle

-----------------------------------------------------------------------------
(* The refinement.                                                         *)

\* A new sender has sent and begun nothing.
LEMMA InitR ==
    CInit => RInv /\ Abstract!PInit
<1> SUFFICES ASSUME CInit PROVE RInv /\ Abstract!PInit
  OBVIOUS
<1>1. CIInv
  BY InitC
<1>2. /\ m_bundles = <<>> /\ m_message = NULL /\ sent = NULL
      /\ elems = [b \in Bundles |-> <<>>] /\ args = [m \in Messages |-> <<>>]
      /\ ~m_messageInProgress /\ ~m_bundleInProgress
  BY Zenon DEF CInit, Init
<1>3. \A b \in Bundles : elems[b] = <<>> /\ Len(elems[b]) = 0
  BY <1>2, EmptySeq
<1>4. Ranked(elems)
  BY <1>3, NothingNested
<1>5. Readable
  <2>1. \A b \in Bundles : Complete[b] = <<>> /\ Len(Complete[b]) = 0
    BY <1>2, <1>3, EmptySeq DEF Complete
  <2> QED
    BY <2>1, NothingToRead DEF Readable, ValuesNow
<1>6. Unwritten
  BY <1>2 DEF Unwritten
<1>7. Abstract!PInit
  BY <1>2 DEF Abstract!PInit, OpenBundles, OpenMessage, Finished, OnTheWire
<1> QED
  BY <1>1, <1>4, <1>5, <1>6, <1>7 DEF RInv

\* Every call is a step of PacketBuilder, or changes nothing of it.
LEMMA StepR ==
    ASSUME Sequels = FALSE
    PROVE  RInv /\ [CNext]_cvars => RInv' /\ [Abstract!PNext]_(Abstract!pvars)
<1> SUFFICES ASSUME RInv, [CNext]_cvars
             PROVE  RInv' /\ [Abstract!PNext]_(Abstract!pvars)
  OBVIOUS
<1>1. CIInv' /\ IInv'
  BY StepC, Zenon DEF RInv, CIInv
<1>2. CASE UNCHANGED cvars
  <2>1. UNCHANGED <<m_message, m_bundles, m_addressPattern, m_messageInProgress,
                    m_bundleInProgress, sent, live, args, elems, stamp>>
    BY <1>2 DEF cvars, vars, object, heap
  <2>2. ValuesNow' = ValuesNow /\ Ranked(elems)' /\ Readable'
    BY <2>1, ReadSame
  <2>3. Unwritten'
    BY <2>1 DEF RInv, Unwritten
  <2>4. UNCHANGED Abstract!pvars
    BY <2>1, <2>2, Zenon
    DEF Abstract!pvars, OpenBundles, OpenMessage, MessageValue, Finished, OnTheWire
  <2> QED
    BY <1>1, <2>2, <2>3, <2>4 DEF RInv
<1>3. CASE CNext
  <2>1. Abstract!PNext /\ Ranked(elems)' /\ Readable' /\ Unwritten'
    BY <1>1, <1>3, BeginMessageStep, AddArgStep, EndMessageStep, BeginBundleStep,
       EndBundleStep, SendStep, ClearStep, OtherStep, Zenon DEF CNext
  <2> QED
    BY <1>1, <2>1 DEF RInv
<1> QED
  BY <1>2, <1>3

\* The sender implements PacketBuilder: for any handles, patterns, arguments and
\* time tags, to any depth of nesting and any number of arguments, it puts on the
\* wire what its client spelled out, in order, and nothing of an earlier packet.
THEOREM SenderImplementsBuilder ==
    ASSUME Sequels = FALSE
    PROVE  CSpec => SendsWhatWasBuilt
<1> QED
  BY InitR, StepR, PTL DEF CSpec, SendsWhatWasBuilt, Abstract!PSpec
=============================================================================
