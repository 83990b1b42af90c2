--------------------------- MODULE OscSenderProofs ---------------------------
(***************************************************************************)
(* Theorems about OscSender for every set of handles, patterns, arguments  *)
(* and time tags, and for a client that makes any calls in any order; and  *)
(* about SenderClient, whose client matches begin with end.                *)
(*                                                                         *)
(* The inductive invariant is TypeOK /\ MemorySafe.  No conjunct of        *)
(* MemorySafe is inductive alone: clear() is safe because every allocated  *)
(* bundle is reachable from the root (BundlesReachable); reachability      *)
(* survives an attachment because back() is allocated (NoDangling); single *)
(* ownership survives it because the handle attached is new or was         *)
(* m_message, which no bundle owns (SingleOwner).                          *)
(***************************************************************************)
EXTENDS SenderClient, SequenceTheorems, TLAPS

IInv == TypeOK /\ MemorySafe

-----------------------------------------------------------------------------
(* Facts about the tree of a bundle.                                       *)

\* A bundle is in its own tree, and so released by lo_bundle_free_recursive.
LEMMA RootInTree ==
    ASSUME NEW es, NEW r \in Contents
    PROVE  r \in Tree(es, r)
BY DEF Tree

\* The elements of a bundle in the tree are in the tree.
LEMMA TreeClosed ==
    ASSUME NEW es, NEW r, NEW b \in Tree(es, r) \cap Bundles,
           NEW k \in Kids(es, b), k \in Contents
    PROVE  k \in Tree(es, r)
BY DEF Tree, Closed

\* Adding elements to bundles only makes trees larger.
LEMMA TreeGrows ==
    ASSUME NEW es, NEW fs, NEW r,
           \A b \in Bundles : Kids(es, b) \subseteq Kids(fs, b)
    PROVE  Tree(es, r) \subseteq Tree(fs, r)
<1>1. \A S \in SUBSET Contents : Closed(fs, S) => Closed(es, S)
  BY DEF Closed
<1> QED
  BY <1>1 DEF Tree

\* The elements of a bundle are messages and bundles.
LEMMA KidsType ==
    ASSUME NEW es \in [Bundles -> Seq(Elements)], NEW b \in Bundles
    PROVE  Kids(es, b) \subseteq Contents
<1>1. \A i \in 1..Len(es[b]) : es[b][i] \in Elements
  <2>1. es[b] \in Seq(Elements)
    OBVIOUS
  <2> QED
    BY <2>1, ElementOfSeq
<1> QED
  BY <1>1 DEF Kids, Elements

\* What is left on the stack when a nested bundle is ended.
LEMMA PopBack ==
    ASSUME NEW s \in Seq(Bundles), Len(s) > 1
    PROVE  /\ pop_back(s) \in Seq(Bundles)
           /\ Len(pop_back(s)) = Len(s) - 1
           /\ \A i \in 1..Len(pop_back(s)) : pop_back(s)[i] = s[i]
           /\ pop_back(s) # <<>>
           /\ Head(pop_back(s)) = Head(s)
<1>1. Len(s) \in Nat /\ \A i \in 1..(Len(s) - 1) : s[i] \in Bundles
  BY ElementOfSeq
<1>2. /\ pop_back(s) \in Seq(Bundles)
      /\ Len(pop_back(s)) = Len(s) - 1
      /\ \A i \in 1..(Len(s) - 1) : pop_back(s)[i] = s[1 + i - 1]
  BY <1>1, SubSeqProperties DEF pop_back
<1>3. pop_back(s) # <<>> /\ Head(pop_back(s)) = pop_back(s)[1] /\ Head(s) = s[1]
  BY <1>1, <1>2
<1> QED
  BY <1>1, <1>2, <1>3

-----------------------------------------------------------------------------
(* MemorySafe is preserved by each kind of change the member functions     *)
(* make to the bundle stack and to the heap.                               *)

\* Steps that leave the stack, the elements and the allocated contents alone.
LEMMA FrameSafe ==
    ASSUME IInv, UNCHANGED <<m_message, m_bundles, elems>>,
           live' \cap Contents = live \cap Contents,
           m_address' # NULL => m_address' \in live'
    PROVE  MemorySafe'
<1>1. \A h \in Contents : h \in live' <=> h \in live
  OBVIOUS
<1>2. m_message \in Contents \cup {NULL} /\ m_bundles \in Seq(Bundles)
      /\ Bundles \subseteq Contents
      /\ \A b \in Bundles : Kids(elems, b) \subseteq Contents
  BY KidsType, SMTT(20) DEF IInv, TypeOK, Contents
<1>3. NoDangling'
  BY <1>1, <1>2 DEF IInv, MemorySafe, NoDangling, Kids
<1>4. SingleOwner' /\ OpenBundlesNest'
  BY DEF IInv, MemorySafe, SingleOwner, OpenBundlesNest, Kids, back
<1>5. BundlesReachable'
  BY <1>1, <1>2 DEF IInv, MemorySafe, BundlesReachable
<1> QED
  BY <1>3, <1>4, <1>5 DEF MemorySafe

\* clear(): every allocated bundle is in the tree that is released, so no
\* element remains and no stack either.
LEMMA ClearSafe ==
    ASSUME IInv, NEW rest, Clear(rest),
           m_address' # NULL => m_address' = m_address /\ m_address \notin rest
    PROVE  MemorySafe'
<1>1. \A b \in Bundles : elems'[b] = <<>> /\ b \notin live'
  <2> SUFFICES ASSUME NEW b \in Bundles
               PROVE  elems'[b] = <<>> /\ b \notin live'
    OBVIOUS
  <2>1. CASE b \in live
    BY <2>1 DEF IInv, MemorySafe, BundlesReachable, Clear, Freed
  <2>2. CASE b \notin live
    BY <2>2 DEF IInv, MemorySafe, NoDangling, Clear
  <2> QED
    BY <2>1, <2>2
<1>2. m_bundles' = <<>> /\ m_message' = NULL
  BY DEF Clear
<1>3. m_address' # NULL => m_address' \in live'
  <2> SUFFICES ASSUME m_address' # NULL PROVE m_address' \in live'
    OBVIOUS
  <2>1. m_address \in Addresses /\ m_address \in live /\ m_address \notin rest
    BY DEF IInv, TypeOK, MemorySafe, NoDangling
  <2>2. m_address \notin Freed
    BY <2>1, HandlesAssumption DEF Freed, Tree, Contents, IInv, TypeOK
  <2> QED
    BY <2>1, <2>2 DEF Clear
<1>4. NoDangling'
  BY <1>1, <1>2, <1>3 DEF NoDangling
<1>5. SingleOwner'
  BY <1>1, <1>2 DEF SingleOwner, Kids
<1>6. OpenBundlesNest' /\ BundlesReachable'
  BY <1>1, <1>2 DEF OpenBundlesNest, BundlesReachable
<1> QED
  BY <1>4, <1>5, <1>6 DEF MemorySafe

\* beginMessage(): the message is new, and whatever m_message held is dropped.
LEMMA NewMessageSafe ==
    ASSUME IInv, NEW m \in Messages \ live, m_message' = m,
           live' = live \cup {m}, UNCHANGED <<m_address, m_bundles, elems>>
    PROVE  MemorySafe'
<1>1. m \notin Bundles /\ m # NULL
  BY HandlesAssumption
<1>2. NoDangling'
  BY <1>1 DEF IInv, MemorySafe, NoDangling, Kids
<1>3. \A b \in Bundles : m \notin Kids(elems, b)
  BY DEF IInv, MemorySafe, NoDangling, Kids
<1>4. SingleOwner' /\ OpenBundlesNest'
  BY <1>3 DEF IInv, MemorySafe, SingleOwner, OpenBundlesNest, Kids, back
<1>5. BundlesReachable'
  BY <1>1 DEF IInv, MemorySafe, BundlesReachable
<1> QED
  BY <1>2, <1>4, <1>5 DEF MemorySafe

\* endBundle() of a nested bundle: the enclosing one is on top again.
LEMMA PopSafe ==
    ASSUME IInv, Len(m_bundles) > 1, m_bundles' = pop_back(m_bundles),
           UNCHANGED <<m_address, m_message, heap>>
    PROVE  MemorySafe'
<1>1. /\ Len(m_bundles') = Len(m_bundles) - 1
      /\ \A i \in 1..Len(m_bundles') : m_bundles'[i] = m_bundles[i]
      /\ m_bundles' # <<>> /\ m_bundles # <<>>
      /\ Head(m_bundles') = Head(m_bundles)
      /\ Len(m_bundles) \in Nat
  BY PopBack, SMTT(20) DEF IInv, TypeOK
<1>2. NoDangling'
  BY <1>1 DEF IInv, MemorySafe, NoDangling, Kids, heap
<1>3. SingleOwner' /\ BundlesReachable'
  BY <1>1 DEF IInv, MemorySafe, SingleOwner, BundlesReachable, Kids, heap
<1>4. OpenBundlesNest'
  <2>1. elems' = elems
    BY DEF heap
  <2>2. \A i \in 1..(Len(m_bundles') - 1) :
           /\ i \in 1..(Len(m_bundles) - 1)
           /\ m_bundles'[i] = m_bundles[i]
           /\ m_bundles'[i + 1] = m_bundles[i + 1]
    BY <1>1
  <2>3. OpenBundlesNest
    BY DEF IInv, MemorySafe
  <2>4. \A i \in 1..(Len(m_bundles') - 1) :
           /\ elems'[m_bundles'[i]] # <<>>
           /\ back(elems'[m_bundles'[i]]).handle = m_bundles'[i + 1]
    BY <2>1, <2>2, <2>3, Zenon DEF OpenBundlesNest
  <2>5. \A i, j \in 1..Len(m_bundles') : m_bundles'[i] = m_bundles'[j] => i = j
    BY <1>1, <2>3 DEF OpenBundlesNest
  <2> QED
    BY <2>4, <2>5 DEF OpenBundlesNest
<1> QED
  BY <1>2, <1>3, <1>4 DEF MemorySafe

\* What Attach(h, path) does to ownership and reachability when no bundle owns
\* h yet: h gets one owner and the root's tree gains h.
LEMMA AttachFacts ==
    ASSUME IInv, m_bundles # <<>>, NEW h \in Contents, NEW path \in Paths,
           \A b \in Bundles : h \notin Kids(elems, b), Attach(h, path)
    PROVE  LET c == back(m_bundles) IN
           /\ c \in Bundles /\ c \in live /\ Head(m_bundles) \in Bundles
           /\ elems' \in [Bundles -> Seq(Elements)]
           /\ \A b \in Bundles : b # c => elems'[b] = elems[b]
           /\ \A b \in Bundles : Kids(elems', b) =
                  IF b = c THEN Kids(elems, b) \cup {h} ELSE Kids(elems, b)
           /\ Len(elems'[c]) = Len(elems[c]) + 1 /\ Len(elems[c]) \in Nat
           /\ \A i \in 1..Len(elems[c]) : elems'[c][i] = elems[c][i]
           /\ elems'[c][Len(elems'[c])].handle = h
           /\ Tree(elems, Head(m_bundles)) \cup {h}
                  \subseteq Tree(elems', Head(m_bundles))
           /\ \A a, b \in Bundles :
                \A i \in 1..Len(elems'[a]), j \in 1..Len(elems'[b]) :
                  elems'[a][i].handle = elems'[b][j].handle => a = b /\ i = j
<1> DEFINE c == back(m_bundles)
           e == [handle |-> h, path |-> path]
           r == Head(m_bundles)
<1>1. c \in Bundles /\ c \in live /\ r \in Bundles /\ e \in Elements
      /\ e.handle = h
  <2>1. m_bundles \in Seq(Bundles) /\ Len(m_bundles) \in 1..Len(m_bundles)
    BY EmptySeq, LenProperties DEF IInv, TypeOK
  <2>2. c \in Bundles /\ r \in Bundles
    BY <2>1, ElementOfSeq, HeadTailProperties DEF back
  <2>3. c \in live
    BY <2>1 DEF back, IInv, MemorySafe, NoDangling
  <2> QED
    BY <2>2, <2>3 DEF Elements
<1>2. elems \in [Bundles -> Seq(Elements)]
  BY DEF IInv, TypeOK
<1>3. /\ elems' \in [Bundles -> Seq(Elements)]
      /\ elems'[c] = Append(elems[c], e)
      /\ \A b \in Bundles : b # c => elems'[b] = elems[b]
  BY <1>1, <1>2 DEF Attach, BundleAdd
<1> HIDE DEF c, e
<1>4. /\ Len(elems'[c]) = Len(elems[c]) + 1
      /\ \A i \in 1..Len(elems[c]) : elems'[c][i] = elems[c][i]
      /\ elems'[c][Len(elems'[c])] = e
      /\ Len(elems[c]) \in Nat
  <2>1. elems[c] \in Seq(Elements)
    BY <1>1, <1>2
  <2> QED
    BY <1>1, <1>3, <2>1, AppendProperties, LenProperties
<1>5. \A b \in Bundles : Kids(elems', b) =
          IF b = c THEN Kids(elems, b) \cup {h} ELSE Kids(elems, b)
  <2>1. \A b \in Bundles : b # c => Kids(elems', b) = Kids(elems, b)
    BY <1>3 DEF Kids
  <2>2. ASSUME NEW k \in Kids(elems', c) PROVE k \in Kids(elems, c) \cup {h}
    <3>1. PICK i \in 1..Len(elems'[c]) : k = elems'[c][i].handle
      BY <2>2 DEF Kids
    <3>2. i \in 1..Len(elems[c]) \/ i = Len(elems'[c])
      BY <1>4
    <3> QED
      BY <1>1, <1>4, <3>1, <3>2 DEF Kids
  <2>3. ASSUME NEW k \in Kids(elems, c) PROVE k \in Kids(elems', c)
    <3>1. PICK i \in 1..Len(elems[c]) : k = elems[c][i].handle
      BY <2>3 DEF Kids
    <3>2. i \in 1..Len(elems'[c]) /\ elems'[c][i] = elems[c][i]
      BY <1>4
    <3> QED
      BY <3>1, <3>2 DEF Kids
  <2>4. h \in Kids(elems', c)
    <3>1. Len(elems'[c]) \in 1..Len(elems'[c])
      BY <1>4
    <3> QED
      BY <1>1, <1>4, <3>1 DEF Kids
  <2> QED
    BY <2>1, <2>2, <2>3, <2>4
<1>6. Tree(elems, r) \subseteq Tree(elems', r)
  BY <1>5, TreeGrows
<1>7. h \in Tree(elems', r)
  <2>1. c \in Tree(elems, r)
    BY <1>1 DEF IInv, MemorySafe, BundlesReachable
  <2>2. h \in Kids(elems', c)
    BY <1>1, <1>5
  <2> QED
    BY <1>1, <1>6, <2>1, <2>2, TreeClosed
<1>8. ASSUME NEW a \in Bundles, NEW b \in Bundles,
             NEW i \in 1..Len(elems'[a]), NEW j \in 1..Len(elems'[b]),
             elems'[a][i].handle = elems'[b][j].handle
      PROVE  a = b /\ i = j
  <2> DEFINE Old(x, k) == k \in 1..Len(elems[x]) /\ elems'[x][k] = elems[x][k]
             Added(x, k) == x = c /\ k = Len(elems'[c]) /\ elems'[x][k].handle = h
  <2>1. ASSUME NEW x \in Bundles, NEW k \in 1..Len(elems'[x])
        PROVE  Old(x, k) \/ Added(x, k)
    <3>1. CASE x # c
      BY <1>3, <3>1
    <3>2. CASE x = c
      <4>1. k \in 1..Len(elems[c]) \/ k = Len(elems'[c])
        BY <1>4, <3>2
      <4> QED
        BY <1>1, <1>4, <3>2, <4>1
    <3> QED
      BY <3>1, <3>2
  <2>2. (Old(a, i) \/ Added(a, i)) /\ (Old(b, j) \/ Added(b, j))
    BY <2>1
  <2>3. \A x \in Bundles : \A k \in 1..Len(elems[x]) : elems[x][k].handle # h
    BY DEF Kids
  <2>4. CASE Old(a, i) /\ Old(b, j)
    BY <1>8, <2>4 DEF IInv, MemorySafe, SingleOwner
  <2>5. CASE Added(a, i) \/ Added(b, j)
    BY <1>8, <2>2, <2>3, <2>5
  <2> QED
    BY <2>2, <2>4, <2>5
<1> QED
  BY <1>1, <1>3, <1>4, <1>5, <1>6, <1>7, <1>8 DEF c

\* endMessage() inside a bundle.
LEMMA AttachMessageSafe ==
    ASSUME IInv, m_bundles # <<>>, m_message # NULL,
           Attach(m_message, m_addressPattern), m_message' = NULL,
           UNCHANGED <<m_address, m_bundles, live>>
    PROVE  MemorySafe' /\ elems' \in [Bundles -> Seq(Elements)]
<1> DEFINE c == back(m_bundles)
<1>1. /\ m_message \in Messages /\ m_message \in live /\ m_message \in Contents
      /\ m_message \notin Bundles /\ m_addressPattern \in Paths
      /\ \A b \in Bundles : m_message \notin Kids(elems, b)
  BY HandlesAssumption
     DEF IInv, TypeOK, MemorySafe, NoDangling, SingleOwner, Contents
<1>2. /\ c \in Bundles /\ c \in live /\ Head(m_bundles) \in Bundles
      /\ elems' \in [Bundles -> Seq(Elements)]
      /\ \A b \in Bundles : b # c => elems'[b] = elems[b]
      /\ \A b \in Bundles : Kids(elems', b) =
            IF b = c THEN Kids(elems, b) \cup {m_message} ELSE Kids(elems, b)
      /\ Tree(elems, Head(m_bundles)) \subseteq Tree(elems', Head(m_bundles))
      /\ \A a, b \in Bundles :
           \A i \in 1..Len(elems'[a]), j \in 1..Len(elems'[b]) :
             elems'[a][i].handle = elems'[b][j].handle => a = b /\ i = j
  BY <1>1, AttachFacts
<1> HIDE DEF c
<1>3. NoDangling'
  BY <1>1, <1>2 DEF IInv, MemorySafe, NoDangling
<1>4. SingleOwner'
  <2>1. \A b \in Bundles : NULL \notin Kids(elems', b)
    BY <1>2, KidsType, HandlesAssumption DEF Contents
  <2>2. \A b \in Bundles : Head(m_bundles) \notin Kids(elems', b)
    BY <1>1, <1>2 DEF IInv, MemorySafe, SingleOwner
  <2> QED
    BY <1>2, <2>1, <2>2 DEF SingleOwner
<1>5. OpenBundlesNest'
  <2>1. ASSUME NEW i \in 1..(Len(m_bundles) - 1)
        PROVE  elems'[m_bundles[i]] = elems[m_bundles[i]]
    <3>1. /\ i \in 1..Len(m_bundles) /\ Len(m_bundles) \in 1..Len(m_bundles)
          /\ m_bundles[i] \in Bundles /\ i # Len(m_bundles)
      BY LenProperties, ElementOfSeq DEF IInv, TypeOK
    <3>2. m_bundles[i] # c
      BY <3>1 DEF c, back, IInv, MemorySafe, OpenBundlesNest
    <3> QED
      BY <1>2, <3>1, <3>2
  <2> QED
    BY <2>1 DEF IInv, MemorySafe, OpenBundlesNest, back
<1>6. BundlesReachable'
  BY <1>2 DEF IInv, MemorySafe, BundlesReachable
<1> QED
  BY <1>2, <1>3, <1>4, <1>5, <1>6 DEF MemorySafe

\* The part of both overloads of beginBundle() that follows the guard.
LEMMA OpenBundleSafe ==
    ASSUME IInv, NEW tag \in TimeTags, OpenBundle(tag)
    PROVE  /\ MemorySafe'
           /\ elems' \in [Bundles -> Seq(Elements)]
           /\ m_bundles' \in Seq(Bundles)
           /\ stamp' \in [Bundles -> TimeTags]
           /\ live' \subseteq Handles
<1> USE DEF IInv, MemorySafe
<1>1. PICK n \in Bundles \ live :
         /\ live' = live \cup {n}
         /\ stamp' = [stamp EXCEPT ![n] = tag]
         /\ IF m_bundles = <<>> THEN elems' = elems ELSE Attach(n, "")
         /\ m_bundles' = Append(m_bundles, n)
  BY DEF OpenBundle
<1>0. live' = live \cup {n} /\ n \in Bundles /\ n \notin live
  BY <1>1
<1>2. /\ m_address' = m_address /\ m_message' = m_message
      /\ n \in Contents /\ n # NULL /\ n # m_message /\ "" \in Paths
      /\ \A b \in Bundles : n \notin Kids(elems, b)
  <2>1. m_address' = m_address /\ m_message' = m_message
    BY DEF OpenBundle
  <2>2. n \in Contents /\ n # NULL /\ "" \in Paths
    BY HandlesAssumption DEF Contents, Paths
  <2>3. n # m_message
    BY HandlesAssumption DEF TypeOK
  <2>4. \A b \in Bundles : n \notin Kids(elems, b)
    BY DEF NoDangling, Kids
  <2> QED
    BY <2>1, <2>2, <2>3, <2>4
<1>3. stamp' \in [Bundles -> TimeTags] /\ live' \subseteq Handles
  BY <1>1, <1>2 DEF TypeOK, Handles
<1>4. /\ m_bundles' \in Seq(Bundles) /\ m_bundles' # <<>>
      /\ Len(m_bundles') = Len(m_bundles) + 1 /\ Len(m_bundles) \in Nat
      /\ \A i \in 1..Len(m_bundles) : m_bundles'[i] = m_bundles[i]
      /\ \A i \in 1..Len(m_bundles) : m_bundles[i] \in Bundles
      /\ m_bundles'[Len(m_bundles) + 1] = n
      /\ Head(m_bundles') = IF m_bundles = <<>> THEN n ELSE Head(m_bundles)
  <2>1. m_bundles \in Seq(Bundles)
    BY DEF TypeOK
  <2>2. Len(m_bundles) \in Nat /\ \A i \in 1..Len(m_bundles) : m_bundles[i] \in Bundles
    BY <2>1, LenProperties, ElementOfSeq
  <2>3. Head(m_bundles') = IF m_bundles = <<>> THEN n ELSE Head(m_bundles)
    BY <1>1, <2>1, HeadTailAppend
  <2> QED
    <3>1. m_bundles' = Append(m_bundles, n)
      BY <1>1
    <3> QED
      BY <2>1, <2>2, <2>3, <3>1, AppendProperties
<1>5. \A i, j \in 1..Len(m_bundles') : m_bundles'[i] = m_bundles'[j] => i = j
  <2>1. \A i \in 1..Len(m_bundles) : m_bundles[i] # n
    BY DEF NoDangling
  <2>2. \A i \in 1..Len(m_bundles') :
           i \in 1..Len(m_bundles) \/ i = Len(m_bundles) + 1
    BY <1>4
  <2> QED
    BY <1>4, <2>1, <2>2 DEF OpenBundlesNest
<1>6. CASE m_bundles = <<>>
  <2>1. elems' = elems /\ Len(m_bundles') = 1 /\ Head(m_bundles') = n
        /\ m_bundles'[1] = n
    BY <1>1, <1>4, <1>6
  <2>2. NoDangling'
    <3>1. \A b \in live' \cap Bundles : Kids(elems', b) \subseteq live'
      <4>1. \A b \in live \cap Bundles : Kids(elems, b) \subseteq live
        BY DEF NoDangling
      <4>2. Kids(elems, n) = {}
        BY <1>0 DEF NoDangling, Kids
      <4> QED
        BY <1>0, <2>1, <4>1, <4>2
    <3>2. \A b \in Bundles \ live' : elems'[b] = <<>>
      BY <1>0, <2>1 DEF NoDangling
    <3>3. \A i \in 1..Len(m_bundles') : m_bundles'[i] \in live'
      BY <1>0, <2>1
    <3> QED
      BY <1>0, <1>2, <3>1, <3>2, <3>3 DEF NoDangling
  <2>3. SingleOwner'
    <3>1. \A b \in Bundles : m_message' \notin Kids(elems', b)
      BY <1>2, <2>1 DEF SingleOwner
    <3>2. \A b \in Bundles : Head(m_bundles') \notin Kids(elems', b)
      BY <1>2, <2>1
    <3> QED
      BY <2>1, <3>1, <3>2 DEF SingleOwner
  <2>4. OpenBundlesNest'
    BY <1>5, <2>1 DEF OpenBundlesNest
  <2>5. BundlesReachable'
    <3>1. live \cap Bundles = {}
      BY <1>6 DEF BundlesReachable
    <3>2. n \in Tree(elems', n)
      BY <1>2, RootInTree
    <3> QED
      BY <1>0, <1>4, <2>1, <3>1, <3>2 DEF BundlesReachable
  <2> QED
    BY <1>3, <1>4, <2>1, <2>2, <2>3, <2>4, <2>5 DEF TypeOK
<1>7. CASE m_bundles # <<>>
  <2> DEFINE c == back(m_bundles)
  <2>1. Attach(n, "")
    BY <1>1, <1>7
  <2>2. /\ c \in Bundles /\ c \in live /\ Head(m_bundles) \in Bundles
        /\ elems' \in [Bundles -> Seq(Elements)]
        /\ \A b \in Bundles : b # c => elems'[b] = elems[b]
        /\ \A b \in Bundles : Kids(elems', b) =
              IF b = c THEN Kids(elems, b) \cup {n} ELSE Kids(elems, b)
        /\ Len(elems'[c]) = Len(elems[c]) + 1 /\ Len(elems[c]) \in Nat
        /\ elems'[c][Len(elems'[c])].handle = n
        /\ Tree(elems, Head(m_bundles)) \cup {n}
              \subseteq Tree(elems', Head(m_bundles))
        /\ \A a, b \in Bundles :
             \A i \in 1..Len(elems'[a]), j \in 1..Len(elems'[b]) :
               elems'[a][i].handle = elems'[b][j].handle => a = b /\ i = j
    BY <1>2, <1>7, <2>1, AttachFacts
  <2>3. \A i \in 1..Len(m_bundles) : m_bundles[i] = c <=> i = Len(m_bundles)
    BY <1>4, <1>7, SMTT(20) DEF OpenBundlesNest, back
  <2> HIDE DEF c
  <2>4. NoDangling'
    <3>1. \A i \in 1..Len(m_bundles') : m_bundles'[i] \in live'
      <4>1. \A i \in 1..Len(m_bundles') :
               i \in 1..Len(m_bundles) \/ i = Len(m_bundles) + 1
        BY <1>4
      <4> QED
        BY <1>0, <1>4, <4>1 DEF NoDangling
    <3>2. \A b \in live' \cap Bundles : Kids(elems', b) \subseteq live'
      <4> SUFFICES ASSUME NEW b \in live' \cap Bundles, NEW k \in Kids(elems', b)
                   PROVE  k \in live'
        OBVIOUS
      <4>1. k \in Kids(elems, b) \/ k = n
        BY <2>2, SMTT(20)
      <4>2. k \in Kids(elems, b) => b \in live
        BY <1>0 DEF NoDangling, Kids
      <4> QED
        BY <1>0, <4>1, <4>2 DEF NoDangling
    <3>3. \A b \in Bundles \ live' : elems'[b] = <<>>
      BY <1>0, <2>2, SMTT(20) DEF NoDangling
    <3> QED
      BY <1>0, <1>2, <3>1, <3>2, <3>3 DEF NoDangling
  <2>5. SingleOwner'
    <3>1. \A b \in Bundles : m_message \notin Kids(elems', b)
      <4>1. \A b \in Bundles : m_message \notin Kids(elems, b)
        BY DEF SingleOwner
      <4> QED
        BY <1>2, <2>2, <4>1, ZenonT(30)
    <3>2. \A b \in Bundles : Head(m_bundles) \notin Kids(elems', b)
      <4>1. Head(m_bundles) # n
        BY <1>4, <1>7 DEF NoDangling
      <4> QED
        BY <1>7, <2>2, <4>1, SMTT(20) DEF SingleOwner
    <3> QED
      BY <1>2, <1>4, <1>7, <2>2, <3>1, <3>2 DEF SingleOwner
  <2>6. OpenBundlesNest'
    <3>1. ASSUME NEW i \in 1..(Len(m_bundles') - 1)
          PROVE  /\ elems'[m_bundles'[i]] # <<>>
                 /\ back(elems'[m_bundles'[i]]).handle = m_bundles'[i + 1]
      <4>1. CASE i = Len(m_bundles)
        <5>1. m_bundles'[i] = c /\ m_bundles'[i + 1] = n
          BY <1>4, <2>3, <4>1
        <5> QED
          BY <2>2, <5>1 DEF back
      <4>2. CASE i # Len(m_bundles)
        <5>1. /\ i \in 1..(Len(m_bundles) - 1) /\ i \in 1..Len(m_bundles)
              /\ i + 1 \in 1..Len(m_bundles)
          BY <1>4, <4>2
        <5>2. m_bundles[i] # c /\ m_bundles[i] \in Bundles
              /\ m_bundles'[i] = m_bundles[i]
              /\ m_bundles'[i + 1] = m_bundles[i + 1]
          BY <1>4, <2>3, <4>2, <5>1
        <5>3. elems'[m_bundles'[i]] = elems[m_bundles[i]]
          BY <2>2, <5>2
        <5> QED
          BY <5>1, <5>2, <5>3, SMTT(20) DEF OpenBundlesNest, back
      <4> QED
        BY <4>1, <4>2
    <3> QED
      BY <1>5, <3>1 DEF OpenBundlesNest
  <2>7. BundlesReachable'
    BY <1>0, <1>4, <1>7, <2>2 DEF BundlesReachable
  <2> QED
    BY <1>3, <1>4, <2>2, <2>4, <2>5, <2>6, <2>7
<1> QED
  BY <1>6, <1>7

-----------------------------------------------------------------------------
(* The invariant holds initially and every action preserves it.            *)

\* A newly constructed sender owns nothing but its address, if it has one.
LEMMA InitInv ==
    Init => IInv
<1> SUFFICES ASSUME Init PROVE IInv
  OBVIOUS
<1>1. /\ \A b \in Bundles : elems[b] = <<>>
      /\ elems \in [Bundles -> Seq(Elements)] /\ args \in [Messages -> Seq(Tags)]
      /\ stamp \in [Bundles -> TimeTags]
  BY HandlesAssumption, EmptySeq DEF Init
<1>2. /\ m_bundles = <<>> /\ m_bundles \in Seq(Bundles) /\ m_message = NULL
      /\ live \subseteq Addresses /\ m_address \in Addresses \cup {NULL}
      /\ m_address # NULL => m_address \in live
      /\ \A b \in Bundles : b \notin live
  BY HandlesAssumption, EmptySeq DEF Init
<1>3. ret \in [op : Ops, exc : Exceptions] /\ life = "alive"
  BY DEF Init, Ops, Exceptions
<1>4. TypeOK
  BY <1>1, <1>2, <1>3 DEF Init, TypeOK, Paths, Handles
<1>5. NoDangling /\ OpenBundlesNest /\ BundlesReachable
  BY <1>1, <1>2 DEF NoDangling, OpenBundlesNest, BundlesReachable
<1>6. SingleOwner
  BY <1>1, <1>2 DEF SingleOwner, Kids
<1> QED
  BY <1>4, <1>5, <1>6 DEF IInv, MemorySafe

\* A call that throws, or whose behaviour is undefined, leaves members and heap.
LEMMA NoEffectInv ==
    ASSUME IInv, UNCHANGED <<object, heap>>,
           life' \in {"alive", "destroyed", "undefined"},
           ret' \in [op : Ops, exc : Exceptions]
    PROVE  IInv'
<1>1. TypeOK'
  BY DEF IInv, TypeOK, object, heap
<1>2. MemorySafe'
  <2>1. /\ UNCHANGED <<m_message, m_bundles, elems>>
        /\ live' = live /\ m_address' = m_address
    BY DEF object, heap
  <2>2. m_address # NULL => m_address \in live
    BY DEF IInv, MemorySafe, NoDangling
  <2> QED
    BY <2>1, <2>2, FrameSafe
<1> QED
  BY <1>1, <1>2 DEF IInv

\* clear(), send() and the destructor.
LEMMA ClearInv ==
    ASSUME IInv, NEW rest, Clear(rest),
           m_address' \in Addresses \cup {NULL},
           m_address' # NULL => m_address' = m_address /\ m_address \notin rest,
           life' \in {"alive", "destroyed", "undefined"},
           ret' \in [op : Ops, exc : Exceptions]
    PROVE  IInv'
<1>1. TypeOK'
  <2>1. args' \in [Messages -> Seq(Tags)] /\ elems' \in [Bundles -> Seq(Elements)]
    BY EmptySeq DEF IInv, TypeOK, Clear
  <2>2. stamp' \in [Bundles -> TimeTags] /\ live' \subseteq Handles
    BY HandlesAssumption DEF IInv, TypeOK, Clear
  <2>3. m_bundles' \in Seq(Bundles) /\ m_addressPattern' \in Paths
        /\ m_message' = NULL
        /\ m_messageInProgress' \in BOOLEAN /\ m_bundleInProgress' \in BOOLEAN
    BY EmptySeq DEF IInv, TypeOK, Clear, Paths
  <2> QED
    BY <2>1, <2>2, <2>3 DEF TypeOK
<1>2. MemorySafe'
  BY ClearSafe
<1> QED
  BY <1>1, <1>2 DEF IInv

\* Every call, whether it returns, throws or is undefined, preserves the types
\* and the ownership of the handles.
LEMMA StepInv ==
    IInv /\ [Next]_vars => IInv'
<1> SUFFICES ASSUME IInv, [Next]_vars PROVE IInv'
  OBVIOUS
<1> DEFINE Calls == [op : Ops, exc : Exceptions]
           Lives == {"alive", "destroyed", "undefined"}
<1>0. life \in Lives /\ ret \in Calls /\ m_address \in Addresses \cup {NULL}
  BY DEF IInv, TypeOK
<1>1. ASSUME NEW op \in Ops, NEW e \in Exceptions, Throws(op, e) PROVE IInv'
  BY <1>0, <1>1, NoEffectInv DEF Throws
<1>2. ASSUME NEW op \in Ops, Undefined(op) PROVE IInv'
  <2>1. ret' \in Calls /\ life' \in Lives
    BY <1>2 DEF Undefined, Exceptions
  <2> QED
    BY <1>2, <2>1, NoEffectInv DEF Undefined
<1>3. ASSUME NEW op \in Ops, Returns(op) PROVE ret' \in Calls /\ life' \in Lives
  BY <1>0, <1>3 DEF Returns, Exceptions
<1>4. /\ {"setup", "send", "clear", "beginMessage", "addArg", "endMessage",
          "beginBundle", "beginBundleAt", "endBundle", "getPort", "destroy"}
            \subseteq Ops
      /\ {"SendException", "MessageInProgressException", "none",
          "MessageNotInProgressException", "BundleNotInProgressException"}
            \subseteq Exceptions
  BY DEF Ops, Exceptions
<1> HIDE DEF Calls, Lives
<1>5. CASE setup
  <2>1. PICK a \in Addresses \ (live \ {m_address}) :
           m_address' = a /\ live' = (live \ {m_address}) \cup {a}
    BY <1>5 DEF setup
  <2>2. UNCHANGED <<m_message, m_bundles, m_addressPattern, m_messageInProgress,
                    m_bundleInProgress, args, elems, stamp>> /\ Returns("setup")
    BY <1>5 DEF setup
  <2>3. live' \cap Contents = live \cap Contents
    BY <1>0, <2>1, HandlesAssumption DEF Contents
  <2>4. MemorySafe'
    BY <2>1, <2>2, <2>3, FrameSafe
  <2>5. TypeOK'
    BY <1>3, <1>4, <2>1, <2>2 DEF IInv, TypeOK, Handles, Calls, Lives
  <2> QED
    BY <2>4, <2>5 DEF IInv
<1>6. CASE send
  <2>1. CASE Throws("send", "SendException")
    BY <1>1, <1>4, <2>1
  <2>2. CASE Clear({}) /\ Returns("send") /\ m_address' = m_address
    BY <1>0, <1>3, <1>4, <2>2, ClearInv DEF Calls, Lives
  <2> QED
    BY <1>6, <2>1, <2>2 DEF send
<1>7. CASE clear
  <2>1. Clear({}) /\ Returns("clear") /\ m_address' = m_address
    BY <1>7 DEF clear
  <2> QED
    BY <1>0, <1>3, <1>4, <2>1, ClearInv DEF Calls, Lives
<1>8. CASE destroy
  <2>1. /\ Clear({m_address}) /\ m_address' = NULL
        /\ life' \in Lives /\ ret' \in Calls
    BY <1>4, <1>8 DEF destroy, Lives, Calls
  <2> QED
    BY <2>1, ClearInv DEF Lives, Calls
<1>9. ASSUME NEW p \in Patterns, beginMessage(p) PROVE IInv'
  <2>1. CASE Throws("beginMessage", "MessageInProgressException")
    BY <1>1, <1>4, <2>1
  <2>2. CASE ~Throws("beginMessage", "MessageInProgressException")
    <3>1. PICK m \in Messages \ live : m_message' = m /\ live' = live \cup {m}
      BY <1>9, <2>2 DEF beginMessage
    <3>2. /\ m_messageInProgress' = TRUE /\ m_addressPattern' = p
          /\ Returns("beginMessage")
          /\ UNCHANGED <<m_address, m_bundles, m_bundleInProgress, args, elems,
                         stamp>>
      BY <1>9, <2>2 DEF beginMessage
    <3>3. MemorySafe'
      BY <3>1, <3>2, NewMessageSafe
    <3>4. TypeOK'
      BY <1>3, <1>4, <3>1, <3>2
         DEF IInv, TypeOK, Handles, Contents, Paths, Calls, Lives
    <3> QED
      BY <3>3, <3>4 DEF IInv
  <2> QED
    BY <2>1, <2>2
<1>10. ASSUME NEW t \in Tags, addArg(t) PROVE IInv'
  <2>1. CASE Throws("addArg", "MessageNotInProgressException")
    BY <1>1, <1>4, <2>1
  <2>2. CASE Undefined("addArg")
    BY <1>2, <1>4, <2>2
  <2>3. CASE /\ m_message # NULL
             /\ args' = [args EXCEPT ![m_message] = Append(@, t)]
             /\ Returns("addArg")
             /\ UNCHANGED <<object, live, elems, stamp>>
    <3>1. m_message \in Messages
      BY <2>3 DEF IInv, TypeOK
    <3>2. args' \in [Messages -> Seq(Tags)]
      BY <2>3, <3>1 DEF IInv, TypeOK
    <3>3. TypeOK'
      BY <1>3, <1>4, <2>3, <3>2 DEF IInv, TypeOK, object, Calls, Lives
    <3>4. MemorySafe'
      <4>1. /\ UNCHANGED <<m_message, m_bundles, elems>>
            /\ live' = live /\ m_address' = m_address
        BY <2>3 DEF object
      <4>2. m_address # NULL => m_address \in live
        BY DEF IInv, MemorySafe, NoDangling
      <4> QED
        BY <4>1, <4>2, FrameSafe
    <3> QED
      BY <3>3, <3>4 DEF IInv
  <2> QED
    BY <1>10, <2>1, <2>2, <2>3 DEF addArg
<1>11. CASE endMessage
  <2>1. CASE Throws("endMessage", "MessageNotInProgressException")
    BY <1>1, <1>4, <2>1
  <2>2. CASE Undefined("endMessage")
    BY <1>2, <1>4, <2>2
  <2>3. CASE /\ m_bundles # <<>>
             /\ IF m_message = NULL THEN elems' = elems
                                    ELSE Attach(m_message, m_addressPattern)
             /\ m_message' = NULL
             /\ m_addressPattern' = ""
             /\ m_messageInProgress' = FALSE
             /\ Returns("endMessage")
             /\ UNCHANGED <<m_address, m_bundles, m_bundleInProgress, live, args,
                            stamp>>
    <3>1. MemorySafe' /\ elems' \in [Bundles -> Seq(Elements)]
      <4>1. CASE m_message = NULL
        <5>1. /\ UNCHANGED <<m_message, m_bundles, elems>>
              /\ live' = live /\ m_address' = m_address
          BY <2>3, <4>1
        <5>2. m_address # NULL => m_address \in live
          BY DEF IInv, MemorySafe, NoDangling
        <5>3. elems' \in [Bundles -> Seq(Elements)]
          BY <5>1 DEF IInv, TypeOK
        <5> QED
          BY <5>1, <5>2, <5>3, FrameSafe
      <4>2. CASE m_message # NULL
        BY <2>3, <4>2, AttachMessageSafe
      <4> QED
        BY <4>1, <4>2
    <3>2. TypeOK'
      BY <1>3, <1>4, <2>3, <3>1 DEF IInv, TypeOK, Paths, Calls, Lives
    <3> QED
      BY <3>1, <3>2 DEF IInv
  <2>4. CASE /\ m_messageInProgress' = FALSE
             /\ Returns("endMessage")
             /\ UNCHANGED <<m_address, m_message, m_bundles, m_addressPattern,
                            m_bundleInProgress, heap>>
    <3>1. TypeOK'
      BY <1>3, <1>4, <2>4, Zenon DEF IInv, TypeOK, heap, Calls, Lives
    <3>2. MemorySafe'
      <4>1. /\ UNCHANGED <<m_message, m_bundles, elems>>
            /\ live' = live /\ m_address' = m_address
        BY <2>4 DEF heap
      <4>2. m_address # NULL => m_address \in live
        BY DEF IInv, MemorySafe, NoDangling
      <4> QED
        BY <4>1, <4>2, FrameSafe
    <3> QED
      BY <3>1, <3>2, SMTT(20) DEF IInv
  <2> QED
    BY <1>11, <2>1, <2>2, <2>3, <2>4
       DEF endMessage, EndMessageInBundle, AddMessageToBundle
<1>12. ASSUME NEW tag \in TimeTags, NEW op \in Ops, OpenBundle(tag), Returns(op)
       PROVE  IInv'
  <2>1. /\ MemorySafe' /\ elems' \in [Bundles -> Seq(Elements)]
        /\ m_bundles' \in Seq(Bundles) /\ stamp' \in [Bundles -> TimeTags]
        /\ live' \subseteq Handles
    BY <1>12, OpenBundleSafe
  <2>2. /\ m_bundleInProgress' = TRUE
        /\ UNCHANGED <<m_address, m_message, m_addressPattern,
                       m_messageInProgress, args>>
    BY <1>12 DEF OpenBundle
  <2>3. TypeOK'
    BY <1>3, <1>12, <2>1, <2>2 DEF IInv, TypeOK, Calls, Lives
  <2> QED
    BY <2>1, <2>3 DEF IInv
<1>13. CASE beginBundle
  BY <1>1, <1>4, <1>12, <1>13, HandlesAssumption DEF beginBundle
<1>14. ASSUME NEW t \in TimeTags, beginBundleAt(t) PROVE IInv'
  BY <1>1, <1>4, <1>12, <1>14 DEF beginBundleAt
<1>15. CASE endBundle
  <2>1. CASE Throws("endBundle", "BundleNotInProgressException")
    BY <1>1, <1>4, <2>1
  <2>2. CASE ~Throws("endBundle", "BundleNotInProgressException")
    <3>1. /\ Returns("endBundle")
          /\ UNCHANGED <<m_address, m_message, m_addressPattern,
                         m_messageInProgress, heap>>
      BY <1>15, <2>2 DEF endBundle
    <3>2. CASE /\ Len(m_bundles) > 1 /\ m_bundles' = pop_back(m_bundles)
               /\ UNCHANGED m_bundleInProgress
      <4>1. MemorySafe'
        BY <3>1, <3>2, PopSafe
      <4>2. m_bundles' \in Seq(Bundles)
        BY <3>2, PopBack DEF IInv, TypeOK
      <4>3. TypeOK'
        BY <1>3, <1>4, <3>1, <3>2, <4>2 DEF IInv, TypeOK, heap, Calls, Lives
      <4> QED
        BY <4>1, <4>3 DEF IInv
    <3>3. CASE m_bundleInProgress' = FALSE /\ UNCHANGED m_bundles
      <4>1. /\ UNCHANGED <<m_message, m_bundles, elems>>
            /\ live' = live /\ m_address' = m_address
        BY <3>1, <3>3 DEF heap
      <4>2. m_address # NULL => m_address \in live
        BY DEF IInv, MemorySafe, NoDangling
      <4>3. MemorySafe'
        BY <4>1, <4>2, FrameSafe
      <4>4. TypeOK'
        BY <1>3, <1>4, <3>1, <3>3, Zenon DEF IInv, TypeOK, heap, Calls, Lives
      <4> QED
        BY <4>3, <4>4 DEF IInv
    <3> QED
      BY <1>15, <2>2, <3>2, <3>3, Zenon DEF endBundle
  <2> QED
    BY <2>1, <2>2
<1>16. CASE getPort
  <2>1. CASE Undefined("getPort")
    BY <1>2, <1>4, <2>1
  <2>2. CASE Returns("getPort") /\ UNCHANGED <<object, heap>>
    BY <1>3, <1>4, <2>2, NoEffectInv DEF Calls, Lives
  <2> QED
    BY <1>16, <2>1, <2>2 DEF getPort
<1>17. CASE UNCHANGED vars
  BY <1>0, <1>17, NoEffectInv DEF vars, Calls, Lives
<1> QED
  BY <1>5, <1>6, <1>7, <1>8, <1>9, <1>10, <1>11, <1>13, <1>14, <1>15, <1>16,
     <1>17 DEF Next, Stream

\* Whatever calls the client makes, the members and the heap keep their types.
THEOREM TypeCorrect ==
    Spec => []TypeOK
<1>1. IInv => TypeOK
  BY DEF IInv
<1> QED
  BY <1>1, InitInv, StepInv, PTL DEF Spec

\* Whatever calls the client makes, in any order and including the ones that
\* throw: the sender never holds a handle that clear(), send() or setup() freed.
THEOREM SenderHoldsNothingFreed ==
    Spec => []NoDangling
<1>1. IInv => NoDangling
  BY DEF IInv, MemorySafe
<1> QED
  BY <1>1, InitInv, StepInv, PTL DEF Spec

\* Every message and bundle has one owner, so clear() frees none of them twice.
THEOREM SenderFreesOnce ==
    Spec => []SingleOwner
<1>1. IInv => SingleOwner
  BY DEF IInv, MemorySafe
<1> QED
  BY <1>1, InitInv, StepInv, PTL DEF Spec

\* The stack m_bundles is a path of the tree of bundles, to any depth.
THEOREM SenderBundlesNest ==
    Spec => []OpenBundlesNest
<1>1. IInv => OpenBundlesNest
  BY DEF IInv, MemorySafe
<1> QED
  BY <1>1, InitInv, StepInv, PTL DEF Spec

\* No sequence of calls, however wrong, loses a bundle: clear() finds them all.
THEOREM SenderLosesNoBundle ==
    Spec => []BundlesReachable
<1>1. IInv => BundlesReachable
  BY DEF IInv, MemorySafe
<1> QED
  BY <1>1, InitInv, StepInv, PTL DEF Spec

-----------------------------------------------------------------------------
(* Bundle contents are append-only, and frozen once the bundle is ended.   *)

Stable ==
    \A b \in live \cap live' \cap Bundles :
        /\ Len(elems[b]) =< Len(elems'[b])
        /\ \A i \in 1..Len(elems[b]) : elems'[b][i] = elems[b][i]
        /\ stamp'[b] = stamp[b]
        /\ (\A i \in 1..Len(m_bundles) : m_bundles[i] # b)
              => elems'[b] = elems[b]

\* No call rewrites what a bundle holds, and only an open bundle grows.
LEMMA StepStable ==
    ASSUME IInv, [Next]_vars
    PROVE  Stable
<1>0. elems \in [Bundles -> Seq(Elements)]
      /\ \A b \in Bundles : Len(elems[b]) \in Nat
  <2>1. elems \in [Bundles -> Seq(Elements)]
    BY DEF IInv, TypeOK
  <2>2. \A b \in Bundles : elems[b] \in Seq(Elements)
    BY <2>1
  <2> QED
    BY <2>1, <2>2, LenProperties
<1>1. CASE UNCHANGED <<elems, stamp>>
  BY <1>0, <1>1 DEF Stable
<1>2. ASSUME NEW rest, Clear(rest) PROVE Stable
  <2>1. \A b \in Bundles : b \notin live'
    BY <1>2, Zenon DEF IInv, MemorySafe, BundlesReachable, Clear, Freed
  <2> QED
    BY <2>1 DEF Stable
<1>3. ASSUME m_bundles # <<>>, NEW h \in Contents, NEW path \in Paths,
             \A b \in Bundles : h \notin Kids(elems, b), Attach(h, path),
             \A b \in live \cap Bundles : stamp'[b] = stamp[b]
      PROVE  Stable
  <2> DEFINE c == back(m_bundles)
  <2>1. /\ c \in Bundles
        /\ \A b \in Bundles : b # c => elems'[b] = elems[b]
        /\ Len(elems'[c]) = Len(elems[c]) + 1
        /\ \A i \in 1..Len(elems[c]) : elems'[c][i] = elems[c][i]
    BY <1>3, AttachFacts
  <2>2. \E i \in 1..Len(m_bundles) : m_bundles[i] = c
    <3>1. Len(m_bundles) \in 1..Len(m_bundles)
      BY <1>3, EmptySeq, LenProperties DEF IInv, TypeOK
    <3> QED
      BY <3>1 DEF back
  <2> HIDE DEF c
  <2> SUFFICES ASSUME NEW b \in live \cap live' \cap Bundles
               PROVE  /\ Len(elems[b]) =< Len(elems'[b])
                      /\ \A i \in 1..Len(elems[b]) : elems'[b][i] = elems[b][i]
                      /\ stamp'[b] = stamp[b]
                      /\ (\A i \in 1..Len(m_bundles) : m_bundles[i] # b)
                            => elems'[b] = elems[b]
    BY DEF Stable
  <2>3. CASE b = c
    BY <1>0, <1>3, <2>1, <2>2, <2>3
  <2>4. CASE b # c
    BY <1>0, <1>3, <2>1, <2>4
  <2> QED
    BY <2>3, <2>4, SMTT(20)
<1>4. CASE endMessage
  <2>1. CASE m_bundles # <<>> /\ m_message # NULL /\ stamp' = stamp
             /\ Attach(m_message, m_addressPattern)
    <3>1. /\ m_message \in Contents /\ m_addressPattern \in Paths
          /\ \A b \in Bundles : m_message \notin Kids(elems, b)
      BY <2>1 DEF IInv, TypeOK, MemorySafe, SingleOwner, Contents
    <3> QED
      BY <1>3, <2>1, <3>1
  <2> QED
    BY <1>1, <1>4, <2>1
       DEF endMessage, EndMessageInBundle, AddMessageToBundle, Throws, Undefined,
           heap
<1>5. ASSUME NEW tag \in TimeTags, OpenBundle(tag) PROVE Stable
  <2>1. PICK n \in Bundles \ live :
           /\ stamp' = [stamp EXCEPT ![n] = tag]
           /\ IF m_bundles = <<>> THEN elems' = elems ELSE Attach(n, "")
    BY <1>5 DEF OpenBundle
  <2>2. \A b \in live \cap Bundles : stamp'[b] = stamp[b]
    BY <2>1 DEF IInv, TypeOK
  <2>3. CASE m_bundles = <<>>
    BY <1>0, <2>1, <2>2, <2>3 DEF Stable
  <2>4. CASE m_bundles # <<>>
    <3>1. /\ n \in Contents /\ "" \in Paths
          /\ \A b \in Bundles : n \notin Kids(elems, b)
      BY DEF IInv, MemorySafe, NoDangling, Kids, Contents, Paths
    <3> QED
      BY <1>3, <2>1, <2>2, <2>4, <3>1
  <2> QED
    BY <2>3, <2>4
<1>6. CASE beginBundle
  BY <1>1, <1>5, <1>6, HandlesAssumption DEF beginBundle, Throws, heap
<1>7. ASSUME NEW t \in TimeTags, beginBundleAt(t) PROVE Stable
  BY <1>1, <1>5, <1>7 DEF beginBundleAt, Throws, heap
<1>8. CASE send \/ clear \/ destroy
  BY <1>1, <1>2, <1>8 DEF send, clear, destroy, Throws, heap
<1>9. ASSUME \/ \E p \in Patterns : beginMessage(p)
             \/ \E t \in Tags : addArg(t)
             \/ setup \/ endBundle \/ getPort \/ UNCHANGED vars
      PROVE  Stable
  BY <1>1, <1>9
     DEF beginMessage, addArg, setup, endBundle, getPort, vars, Throws,
         Undefined, heap
<1> QED
  BY <1>4, <1>6, <1>7, <1>8, <1>9 DEF Next, Stream

\* No call reorders, removes or rewrites what an allocated bundle already
\* holds, and endBundle() is final: what send() serialises is the sequence of
\* begin and end calls the client made.
THEOREM SenderContentsStable ==
    Spec => ContentsStable
<1>1. IInv /\ [Next]_vars => [Stable]_vars
  BY StepStable, SMTT(20)
<1> QED
  BY <1>1, InitInv, StepInv, PTL DEF Spec, ContentsStable, Stable

-----------------------------------------------------------------------------
\* The step that OnlyClearStrands forbids does not happen.
NoStranding ==
    /\ Sound /\ ~Sound' => ret'.op \in {"clear", "destroy"}
    /\ life' = "undefined" /\ life = "alive" => ~Sound \/ ret'.op = "getPort"

LEMMA StepNoStranding ==
    ASSUME IInv, [Next]_vars PROVE NoStranding
<1> USE DEF NoStranding, Sound
<1>1. ASSUME UNCHANGED <<m_message, m_bundles, m_messageInProgress,
                         m_bundleInProgress, life>>
      PROVE  NoStranding
  BY <1>1
<1>2. ASSUME NEW p \in Patterns, beginMessage(p) PROVE NoStranding
  BY <1>1, <1>2, HandlesAssumption
     DEF beginMessage, Throws, Returns, object, IInv, TypeOK
<1>3. ASSUME NEW t \in Tags, addArg(t) PROVE NoStranding
  BY <1>3 DEF addArg, Throws, Undefined, Returns, object
<1>4. CASE endMessage
  <2>1. CASE Throws("endMessage", "MessageNotInProgressException")
    BY <1>1, <2>1 DEF Throws, object
  <2>2. CASE m_messageInProgress /\ m_bundleInProgress /\ EndMessageInBundle
    <3>1. CASE (m_bundles = <<>> \/ m_message = NULL) /\ Undefined("endMessage")
      BY <2>2, <3>1 DEF Undefined, object
    <3>2. CASE AddMessageToBundle(m_message, m_addressPattern, NULL)
      BY <3>2 DEF AddMessageToBundle, Returns
    <3> QED
      BY <2>2, <3>1, <3>2 DEF EndMessageInBundle
  <2>3. CASE /\ m_messageInProgress' = FALSE /\ life' = life
             /\ UNCHANGED <<m_bundles, m_bundleInProgress>>
    BY <2>3
  <2> QED
    BY <1>4, <2>1, <2>2, <2>3 DEF endMessage, Returns
<1>5. ASSUME NEW t \in TimeTags, OpenBundle(t), life' = life
      PROVE  NoStranding
  <2>1. PICK b \in Bundles : m_bundles' = Append(m_bundles, b)
    BY <1>5 DEF OpenBundle
  <2>2. m_bundles' # <<>>
    <3>1. m_bundles \in Seq(Bundles)
      BY DEF IInv, TypeOK
    <3>2. Len(m_bundles') = Len(m_bundles) + 1 /\ Len(m_bundles) \in Nat
      BY <2>1, <3>1, AppendProperties
    <3> QED
      BY <3>2
  <2> QED
    BY <1>5, <2>2 DEF OpenBundle
<1>6. CASE beginBundle
  BY <1>1, <1>5, <1>6, HandlesAssumption DEF beginBundle, Throws, Returns, object
<1>7. ASSUME NEW t \in TimeTags, beginBundleAt(t) PROVE NoStranding
  BY <1>1, <1>5, <1>7 DEF beginBundleAt, Throws, Returns, object
<1>8. CASE endBundle
  <2>1. Len(m_bundles) > 1 => pop_back(m_bundles) # <<>>
    BY PopBack DEF IInv, TypeOK
  <2> QED
    BY <1>8, <2>1 DEF endBundle, Throws, Returns, object
<1>9. CASE send
  <2>1. CASE Throws("send", "SendException")
    BY <1>1, <2>1 DEF Throws, object
  <2>2. CASE ~CannotSend /\ Clear({}) /\ life' = life
    <3>1. ~m_messageInProgress /\ ~m_bundleInProgress
      BY <2>2 DEF CannotSend
    <3>2. UNCHANGED <<m_messageInProgress, m_bundleInProgress>>
      BY <2>2 DEF Clear
    <3> QED
      BY <2>2, <3>1, <3>2
  <2> QED
    BY <1>9, <2>1, <2>2 DEF send, Returns
<1>10. CASE clear \/ destroy
  BY <1>10 DEF clear, destroy, Returns
<1>11. CASE setup \/ getPort \/ UNCHANGED vars
  BY <1>11 DEF setup, getPort, Undefined, Returns, object, vars
<1> QED
  BY <1>2, <1>3, <1>4, <1>6, <1>7, <1>8, <1>9, <1>10, <1>11 DEF Next, Stream

\* Whatever a client calls, building functions reach undefined behaviour only
\* after a clear() in the middle of a message or a bundle.
THEOREM SenderOnlyClearStrands ==
    Spec => OnlyClearStrands
<1>1. IInv /\ [Next]_vars => [NoStranding]_vars
  BY StepNoStranding
<1> QED
  BY <1>1, InitInv, StepInv, PTL DEF Spec, OnlyClearStrands, NoStranding

-----------------------------------------------------------------------------
(* A client that matches begin with end, and sends or clears before it     *)
(* begins another root bundle: to any depth of nesting, the flags of the   *)
(* sender follow the client, no call throws and nothing is lost.           *)

\* The client's view and the members: which of building, depth and ready is
\* behind m_message, behind the stack of bundles and behind each flag.
Matched ==
    /\ depth \in Nat /\ building \in BOOLEAN
    /\ ready \in {"nothing", "message", "bundle"}
    /\ ready # "nothing" => Idle
    /\ m_messageInProgress <=> building
    /\ m_bundleInProgress <=> depth > 0
    /\ m_message # NULL <=> building \/ ready = "message"
    /\ Len(m_bundles) = IF ready = "bundle" THEN 1 ELSE depth

\* The tree that the front of m_bundles will free.
RootTree == IF m_bundles = <<>> THEN {} ELSE Tree(elems, Head(m_bundles))

\* Who can still free a handle.
Owned ==
    /\ live \cap Addresses \subseteq {m_address}
    /\ live \cap Messages \subseteq {m_message} \cup RootTree

CIInv ==
    /\ IInv
    /\ CallsSucceed
    /\ life = "alive" => Matched
    /\ Owned

-----------------------------------------------------------------------------
\* A stack is empty when its length says so.
LEMMA EmptyStack ==
    ASSUME IInv PROVE Len(m_bundles) \in Nat /\ (m_bundles = <<>> <=> Len(m_bundles) = 0)
<1>1. m_bundles \in Seq(Bundles)
  BY DEF IInv, TypeOK
<1> QED
  BY <1>1, EmptySeq, LenProperties

\* What the root will free is allocated.
LEMMA RootTreeLive ==
    ASSUME IInv PROVE RootTree \subseteq live
<1>1. CASE m_bundles = <<>>
  BY <1>1 DEF RootTree
<1>2. CASE m_bundles # <<>>
  <2> DEFINE S == live \cap Contents
             r == Head(m_bundles)
  <2>1. m_bundles \in Seq(Bundles) /\ Len(m_bundles) \in Nat \ {0}
        /\ r = m_bundles[1] /\ 1 \in 1..Len(m_bundles)
    <3>1. m_bundles \in Seq(Bundles)
      BY DEF IInv, TypeOK
    <3>2. Len(m_bundles) \in Nat \ {0}
      BY <1>2, <3>1, EmptySeq
    <3> QED
      BY <1>2, <3>1, <3>2
  <2>2. r \in live /\ r \in Bundles
    BY <2>1, ElementOfSeq DEF IInv, MemorySafe, NoDangling
  <2>3. Closed(elems, S)
    BY KidsType, Zenon DEF IInv, TypeOK, MemorySafe, NoDangling, Closed
  <2>4. S \in SUBSET Contents /\ r \in S
    BY <2>2 DEF Contents
  <2>5. Tree(elems, r) \subseteq S
    BY <2>3, <2>4 DEF Tree
  <2> QED
    BY <1>2, <2>5 DEF RootTree
<1> QED
  BY <1>1, <1>2

\* Allocated handles that have an owner are the ones LeakFree names.
LEMMA OwnedIsLeakFree ==
    ASSUME IInv, Owned PROVE LeakFree
<1>1. live \subseteq Addresses \cup Messages \cup Bundles
  BY DEF IInv, TypeOK, Handles, Contents
<1>2. live \cap Bundles \subseteq RootTree
  BY DEF IInv, MemorySafe, BundlesReachable, RootTree
<1>3. NULL \notin live
  BY <1>1, HandlesAssumption
<1>4. live \subseteq ({m_address, m_message} \ {NULL}) \cup RootTree
  BY <1>1, <1>2, <1>3 DEF Owned
<1>5. {m_address, m_message} \ {NULL} \subseteq live
  BY DEF IInv, MemorySafe, NoDangling
<1>6. live = ({m_address, m_message} \ {NULL}) \cup RootTree
  BY <1>4, <1>5, RootTreeLive
<1> QED
  BY <1>6 DEF LeakFree, RootTree

-----------------------------------------------------------------------------
(* The invariant.                                                          *)

LEMMA InitC ==
    CInit => CIInv
<1> SUFFICES ASSUME CInit PROVE CIInv
  OBVIOUS
<1>1. IInv
  BY InitInv DEF CInit
<1>2. Len(m_bundles) = 0
  BY EmptySeq DEF CInit, Init
<1>3. Matched
  <2>1. depth \in Nat /\ ~(depth > 0) /\ depth = 0
    BY DEF CInit
  <2> QED
    BY <1>2, <2>1, Zenon DEF CInit, Init, Matched, Idle
<1>4. CallsSucceed
  BY DEF CInit, Init, CallsSucceed
<1>5. Owned
  BY HandlesAssumption DEF CInit, Init, Owned
<1> QED
  BY <1>1, <1>3, <1>4, <1>5 DEF CIInv

\* The client makes calls of OscSender and no others.
LEMMA ClientCalls ==
    CNext => Next
BY DEF CNext, CBeginMessage, CAddArg, CEndMessage, CBeginBundle, CEndBundle,
       CSend, CClear, CSetup, CGetPort, CDestroy, Next, Stream

\* clear(), send() and the destructor leave no message behind when a message and
\* a bundle are not both waiting.
LEMMA ClearOwned ==
    ASSUME IInv, Owned, NEW rest, Clear(rest),
           m_bundles # <<>> => m_message = NULL,
           live' \cap Addresses \subseteq {m_address'}
    PROVE  Owned'
<1>1. live' \cap Messages = {}
  <2>1. CASE m_bundles # <<>>
    BY <2>1, HandlesAssumption, Zenon DEF Owned, RootTree, Clear, Freed
  <2>2. CASE m_bundles = <<>>
    BY <2>2 DEF Owned, RootTree, Clear, Freed
  <2> QED
    BY <2>1, <2>2, SMTT(20)
<1> QED
  BY <1>1 DEF Owned

\* A new bundle, at the root or in the innermost one, takes nothing from anyone.
LEMMA OpenOwned ==
    ASSUME IInv, Owned, NEW tag \in TimeTags, OpenBundle(tag)
    PROVE  /\ Owned'
           /\ Len(m_bundles') = Len(m_bundles) + 1
<1>1. PICK b \in Bundles \ live :
         /\ live' = live \cup {b}
         /\ IF m_bundles = <<>> THEN elems' = elems ELSE Attach(b, "")
         /\ m_bundles' = Append(m_bundles, b)
  BY DEF OpenBundle
<1>2. m_address' = m_address /\ m_message' = m_message
  BY DEF OpenBundle
<1>3. live' \cap Addresses = live \cap Addresses
      /\ live' \cap Messages = live \cap Messages
  BY <1>1, HandlesAssumption
<1>4. m_bundles \in Seq(Bundles) /\ b \in Contents
  BY DEF IInv, TypeOK, Contents
<1>5. Len(m_bundles') = Len(m_bundles) + 1
  BY <1>1, <1>4, AppendProperties
<1>6. RootTree \subseteq RootTree'
  <2>1. CASE m_bundles = <<>>
    BY <2>1 DEF RootTree
  <2>2. CASE m_bundles # <<>>
    <3>1. \A c \in Bundles : b \notin Kids(elems, c)
      <4> SUFFICES ASSUME NEW c \in Bundles PROVE b \notin Kids(elems, c)
        OBVIOUS
      <4>1. CASE c \in live
        BY <4>1 DEF IInv, MemorySafe, NoDangling
      <4>2. CASE c \notin live
        <5>1. elems[c] = <<>> /\ Len(elems[c]) = 0
          BY <4>2, EmptySeq, SMTT(20) DEF IInv, MemorySafe, NoDangling
        <5> QED
          BY <5>1 DEF Kids
      <4> QED
        BY <4>1, <4>2
    <3>2. Tree(elems, Head(m_bundles)) \subseteq Tree(elems', Head(m_bundles))
      BY <1>1, <1>4, <2>2, <3>1, AttachFacts DEF Paths
    <3>3. m_bundles' # <<>> /\ Head(m_bundles') = Head(m_bundles)
      <4>1. Len(m_bundles) \in Nat \ {0}
        BY <1>4, <2>2, EmptySeq
      <4>2. m_bundles' \in Seq(Bundles) /\ m_bundles' # <<>>
            /\ m_bundles'[1] = m_bundles[1]
        <5>1. 1 \in 1..Len(m_bundles)
          BY <4>1
        <5>2. m_bundles' = Append(m_bundles, b) /\ b \in Bundles
          BY <1>1, ZenonT(30)
        <5> DEFINE new == Append(m_bundles, b)
        <5>3. /\ new \in Seq(Bundles) /\ new # <<>>
              /\ \A i \in 1..Len(m_bundles) : new[i] = m_bundles[i]
          BY <1>4, <5>2, AppendProperties, SMTT(20)
        <5> HIDE DEF new
        <5>4. new[1] = m_bundles[1] /\ m_bundles' = new
          BY <5>1, <5>2, <5>3, Zenon DEF new
        <5> QED
          BY <5>3, <5>4
      <4> QED
        BY <1>4, <2>2, <4>2
    <3> QED
      BY <2>2, <3>2, <3>3 DEF RootTree
  <2> QED
    BY <2>1, <2>2
<1> QED
  BY <1>2, <1>3, <1>5, <1>6 DEF Owned

\* Every step of the client keeps the invariant.
LEMMA StepC ==
    ASSUME Sequels = FALSE
    PROVE  CIInv /\ [CNext]_cvars => CIInv'
<1> SUFFICES ASSUME CIInv, [CNext]_cvars PROVE CIInv'
  OBVIOUS
<1>1. IInv /\ CallsSucceed /\ Owned /\ (life = "alive" => Matched)
  BY DEF CIInv
<1>2. IInv'
  <2>1. [Next]_vars
    BY ClientCalls DEF cvars
  <2> QED
    BY <1>1, <2>1, StepInv
<1>3. Len(m_bundles) \in Nat /\ (m_bundles = <<>> <=> Len(m_bundles) = 0)
  BY <1>1, EmptyStack
<1>4. CASE UNCHANGED cvars
  <2>1. UNCHANGED <<client, m_address, m_message, m_bundles, m_messageInProgress,
                    m_bundleInProgress, life, ret, live, elems>>
    BY <1>4, Zenon DEF cvars, vars, object, heap
  <2>2. RootTree' = RootTree
    BY <2>1 DEF RootTree
  <2>3. Owned'
    BY <1>1, <2>1, <2>2, Zenon DEF Owned
  <2>4. CallsSucceed' /\ (life' = "alive" => Matched')
    BY <1>1, <2>1, Zenon DEF CallsSucceed, Matched, Idle, client
  <2> QED
    BY <1>2, <2>3, <2>4, Zenon DEF CIInv
<1>5. CASE CBeginMessage /\ life = "alive"
  <2>1. PICK p \in Patterns : beginMessage(p)
    BY <1>5 DEF CBeginMessage
  <2>2. ~m_messageInProgress /\ m_message = NULL
    BY <1>1, <1>5 DEF Matched, CBeginMessage, Idle
  <2>3. PICK m \in Messages \ live : m_message' = m /\ live' = live \cup {m}
    BY <2>1, <2>2 DEF beginMessage
  <2>4. /\ m_messageInProgress' /\ ret'.exc = "none" /\ life' = life
        /\ UNCHANGED <<m_address, m_bundles, m_bundleInProgress, elems>>
    BY <2>1, <2>2 DEF beginMessage, Returns
  <2>5. m # NULL /\ m \notin Addresses /\ NULL \notin Messages
    BY HandlesAssumption
  <2>6. Matched'
    BY <1>1, <1>5, <2>3, <2>4, <2>5 DEF Matched, CBeginMessage, Idle
  <2>7. Owned'
    BY <1>1, <2>2, <2>3, <2>4, <2>5 DEF Owned, RootTree
  <2>8. CallsSucceed'
    BY <1>5, <2>4 DEF CallsSucceed
  <2> QED
    BY <1>2, <2>6, <2>7, <2>8 DEF CIInv
<1>6. CASE CAddArg /\ life = "alive"
  <2>1. PICK t \in Tags : addArg(t)
    BY <1>6 DEF CAddArg
  <2>2. m_messageInProgress /\ m_message # NULL
    BY <1>1, <1>6 DEF Matched, CAddArg
  <2>3. /\ ret'.exc = "none" /\ life' = life
        /\ UNCHANGED <<object, live, elems, client>>
    BY <1>6, <2>1, <2>2 DEF addArg, Returns, CAddArg
  <2>4. Matched' /\ Owned' /\ CallsSucceed'
    BY <1>1, <1>6, <2>3
    DEF object, client, Matched, Idle, Owned, RootTree, CallsSucceed
  <2> QED
    BY <1>2, <2>4 DEF CIInv
<1>7. CASE CEndMessage /\ life = "alive"
  <2>1. /\ Matched /\ building /\ m_messageInProgress /\ m_message # NULL
        /\ ready = "nothing" /\ depth \in Nat
    BY <1>1, <1>7 DEF Matched, CEndMessage, Idle
  <2>2. /\ endMessage /\ building' = FALSE /\ depth' = depth
        /\ ready' = IF depth = 0 THEN "message" ELSE ready
    BY <1>7 DEF CEndMessage
  <2>3. CASE depth = 0
    <3>1. /\ ~m_messageInProgress' /\ ret'.exc = "none" /\ life' = life
          /\ UNCHANGED <<m_address, m_message, m_bundles, m_bundleInProgress,
                         live, elems>>
      BY <2>1, <2>2, <2>3 DEF Matched, endMessage, Returns, heap
    <3>2. Matched'
      BY <2>1, <2>2, <2>3, <3>1, Zenon DEF Matched, Idle
    <3>3. Owned' /\ CallsSucceed'
      BY <1>1, <1>7, <3>1 DEF Owned, RootTree, CallsSucceed
    <3> QED
      BY <1>2, <3>2, <3>3 DEF CIInv
  <2>4. CASE depth # 0
    <3>1. m_bundleInProgress /\ m_bundles # <<>>
      BY <1>3, <2>1, <2>4 DEF Matched
    <3>2. AddMessageToBundle(m_message, m_addressPattern, NULL)
      BY <2>1, <2>2, <3>1 DEF endMessage, EndMessageInBundle
    <3>3. /\ Attach(m_message, m_addressPattern) /\ m_message' = NULL
          /\ ~m_messageInProgress' /\ ret'.exc = "none" /\ life' = life
          /\ UNCHANGED <<m_address, m_bundles, m_bundleInProgress, live>>
      BY <2>1, <3>2 DEF AddMessageToBundle, Returns
    <3>4. Matched'
      BY <2>1, <2>2, <2>4, <3>3, Zenon DEF Matched, Idle
    <3>5. Tree(elems, Head(m_bundles)) \cup {m_message}
             \subseteq Tree(elems', Head(m_bundles))
      <4>1. m_message \in Contents /\ m_addressPattern \in Paths
            /\ \A b \in Bundles : m_message \notin Kids(elems, b)
        BY <1>1, <2>1 DEF IInv, TypeOK, MemorySafe, SingleOwner, Contents
      <4> QED
        BY <1>1, <3>1, <3>3, <4>1, AttachFacts
    <3>6. Owned'
      BY <1>1, <3>1, <3>3, <3>5 DEF Owned, RootTree
    <3>7. CallsSucceed'
      BY <1>7, <3>3 DEF CallsSucceed
    <3> QED
      BY <1>2, <3>4, <3>6, <3>7 DEF CIInv
  <2> QED
    BY <2>3, <2>4
<1>8. CASE CBeginBundle /\ life = "alive"
  <2>1. /\ Matched /\ ~building /\ ~m_messageInProgress /\ depth \in Nat
        /\ depth > 0 \/ ready = "nothing"
    BY <1>1, <1>8 DEF Matched, CBeginBundle
  <2>2. /\ depth' = depth + 1 /\ ready' = "nothing" /\ building' = building
    BY <1>8 DEF CBeginBundle
  <2>3. ready = "nothing"
    BY <2>1 DEF Matched, Idle
  <2>4. PICK tag \in TimeTags :
           OpenBundle(tag) /\ ret'.exc = "none" /\ life' = life
    <3>1. CASE Idle /\ ready = "nothing" /\ beginBundle
      <4>1. ~m_bundleInProgress
        BY <2>1, <3>1 DEF Matched, Idle
      <4> QED
        BY <3>1, <4>1, HandlesAssumption DEF beginBundle, Returns
    <3>2. CASE \E t \in TimeTags : beginBundleAt(t)
      BY <2>1, <3>2 DEF beginBundleAt, Returns
    <3> QED
      BY <1>8, <3>1, <3>2 DEF CBeginBundle
  <2>5. Owned' /\ Len(m_bundles') = Len(m_bundles) + 1
    BY <1>1, <2>4, OpenOwned
  <2>6. /\ m_bundleInProgress'
        /\ UNCHANGED <<m_message, m_messageInProgress>>
    BY <2>4 DEF OpenBundle
  <2>7. Matched'
    BY <2>1, <2>2, <2>3, <2>5, <2>6 DEF Matched, Idle
  <2>8. CallsSucceed'
    BY <1>8, <2>4 DEF CallsSucceed
  <2> QED
    BY <1>2, <2>5, <2>7, <2>8 DEF CIInv
<1>9. CASE CEndBundle /\ life = "alive"
  <2>1. /\ Matched /\ depth \in Nat \ {0} /\ m_bundleInProgress /\ ~building
        /\ ready = "nothing" /\ Len(m_bundles) = depth
    BY <1>1, <1>9 DEF Matched, CEndBundle, Idle
  <2>2. /\ depth' = depth - 1 /\ building' = building
        /\ ready' = IF depth = 1 THEN "bundle" ELSE ready
    BY <1>9 DEF CEndBundle
  <2>3. /\ ret'.exc = "none" /\ life' = life
        /\ UNCHANGED <<m_address, m_message, m_messageInProgress, live, elems>>
        /\ IF Len(m_bundles) > 1
           THEN m_bundles' = pop_back(m_bundles) /\ UNCHANGED m_bundleInProgress
           ELSE ~m_bundleInProgress' /\ UNCHANGED m_bundles
    <3>1. endBundle
      BY <1>9 DEF CEndBundle
    <3>2. Returns("endBundle") /\ UNCHANGED <<m_address, m_message,
                                              m_messageInProgress, heap>>
      BY <2>1, <3>1 DEF endBundle
    <3>3. IF Len(m_bundles) > 1
          THEN m_bundles' = pop_back(m_bundles) /\ UNCHANGED m_bundleInProgress
          ELSE m_bundleInProgress' = FALSE /\ UNCHANGED m_bundles
      BY <2>1, <3>1, Zenon DEF endBundle
    <3> QED
      BY <3>2, <3>3 DEF Returns, heap
  <2>4. CASE depth = 1
    <3>1. ~m_bundleInProgress' /\ m_bundles' = m_bundles
      BY <2>1, <2>3, <2>4
    <3>2. Matched'
      BY <2>1, <2>2, <2>3, <2>4, <3>1 DEF Matched, Idle
    <3>3. Owned'
      BY <1>1, <2>3, <3>1 DEF Owned, RootTree
    <3>4. CallsSucceed'
      BY <1>9, <2>3 DEF CallsSucceed
    <3> QED
      BY <1>2, <3>2, <3>3, <3>4 DEF CIInv
  <2>5. CASE depth # 1
    <3>1. Len(m_bundles) > 1 /\ m_bundles # <<>>
      BY <1>3, <2>1, <2>5
    <3>2. m_bundles' = pop_back(m_bundles) /\ m_bundleInProgress'
      BY <2>1, <2>3, <3>1
    <3>3. /\ Len(m_bundles') = Len(m_bundles) - 1 /\ m_bundles' # <<>>
          /\ Head(m_bundles') = Head(m_bundles)
      BY <1>1, <3>1, <3>2, PopBack DEF IInv, TypeOK
    <3>4. Matched'
      BY <2>1, <2>2, <2>3, <2>5, <3>2, <3>3 DEF Matched, Idle
    <3>5. Owned'
      BY <1>1, <2>3, <3>1, <3>3 DEF Owned, RootTree
    <3>6. CallsSucceed'
      BY <1>9, <2>3 DEF CallsSucceed
    <3> QED
      BY <1>2, <3>4, <3>5, <3>6 DEF CIInv
  <2> QED
    BY <2>4, <2>5
<1>10. ASSUME life = "alive", Idle, Clear({}), UNCHANGED <<depth, building>>,
              ready' = "nothing", ret'.exc = "none", life' = life,
              m_address' = m_address
       PROVE  CIInv'
  <2>1. Matched /\ (m_bundles # <<>> => m_message = NULL)
    BY <1>1, <1>3, <1>10, SMTT(20) DEF Matched, Idle
  <2>2. live' \cap Addresses \subseteq {m_address'}
    BY <1>1, <1>10 DEF Owned, Clear
  <2>3. Owned'
    BY <1>1, <1>10, <2>1, <2>2, ClearOwned
  <2>4. /\ m_message' = NULL /\ m_bundles' = <<>> /\ Len(m_bundles') = 0
        /\ UNCHANGED <<m_messageInProgress, m_bundleInProgress>>
    BY <1>10, EmptySeq DEF Clear
  <2>5. Matched'
    BY <1>10, <2>1, <2>4 DEF Matched, Idle
  <2>6. CallsSucceed'
    BY <1>10 DEF CallsSucceed
  <2> QED
    BY <1>2, <2>3, <2>5, <2>6 DEF CIInv
<1>11. CASE CSend /\ life = "alive"
  <2>1. Matched /\ Idle /\ ready # "nothing" /\ m_address # NULL /\ send
    BY <1>1, <1>11 DEF CSend
  <2>2. ~CannotSend
    BY <1>3, <2>1 DEF Matched, Idle, CannotSend
  <2>3. Clear({}) /\ ret'.exc = "none" /\ life' = life /\ m_address' = m_address
    BY <2>1, <2>2 DEF send, Returns
  <2> QED
    BY <1>10, <1>11, <2>1, <2>3 DEF CSend
<1>12. CASE CClear /\ life = "alive"
  BY <1>10, <1>12 DEF CClear, clear, Returns
<1>13. CASE CSetup /\ life = "alive"
  <2>1. PICK a \in Addresses \ (live \ {m_address}) :
           m_address' = a /\ live' = (live \ {m_address}) \cup {a}
    BY <1>13 DEF CSetup, setup
  <2>2. /\ ret'.exc = "none" /\ life' = life
        /\ UNCHANGED <<m_message, m_bundles, m_messageInProgress,
                       m_bundleInProgress, elems, client>>
    BY <1>13 DEF CSetup, setup, Returns
  <2>3. a \notin Messages
    BY HandlesAssumption
  <2>4. Owned'
    BY <1>1, <2>1, <2>2, <2>3 DEF Owned, RootTree
  <2>5. Matched' /\ CallsSucceed'
    BY <1>1, <1>13, <2>2 DEF Matched, Idle, client, CallsSucceed
  <2> QED
    BY <1>2, <2>4, <2>5 DEF CIInv
<1>14. CASE CGetPort /\ life = "alive"
  <2>1. ret'.exc = "none" /\ life' = life /\ UNCHANGED <<object, heap, client>>
    BY <1>14 DEF CGetPort, getPort, Returns
  <2>2. Matched' /\ Owned' /\ CallsSucceed'
    BY <1>1, <1>14, <2>1
    DEF object, heap, client, Matched, Idle, Owned, RootTree, CallsSucceed
  <2> QED
    BY <1>2, <2>2 DEF CIInv
<1>15. CASE CDestroy /\ life = "alive"
  <2>1. /\ Clear({m_address}) /\ m_address' = NULL /\ life' = "destroyed"
        /\ ret'.exc = "none" /\ ~(building /\ depth > 0)
    BY <1>15 DEF CDestroy, destroy
  <2>2. m_bundles # <<>> => m_message = NULL
    BY <1>1, <1>3, <1>15, <2>1, SMTT(20) DEF Matched, Idle
  <2>3. live' \cap Addresses \subseteq {m_address'}
    BY <1>1, <2>1 DEF Owned, Clear
  <2>4. Owned'
    BY <1>1, <2>1, <2>2, <2>3, ClearOwned
  <2> QED
    BY <1>2, <2>1, <2>4 DEF CIInv, CallsSucceed
<1> QED
  BY <1>4, <1>5, <1>6, <1>7, <1>8, <1>9, <1>11, <1>12, <1>13, <1>14, <1>15
  DEF CNext

-----------------------------------------------------------------------------
(* The theorems.                                                           *)

LEMMA ClientInvariant ==
    ASSUME Sequels = FALSE
    PROVE  CSpec => []CIInv
<1> QED
  BY InitC, StepC, PTL DEF CSpec

\* The in-progress flags of OscSender, which guard its building functions and
\* send(), follow a client that matches begin with end, to any depth.
THEOREM FlagsFollowClient ==
    ASSUME Sequels = FALSE
    PROVE  CSpec => []FlagsAgree
<1>1. CIInv => FlagsAgree
  BY DEF CIInv, Matched, FlagsAgree, Idle
<1> QED
  BY <1>1, ClientInvariant, PTL

\* No call of such a client throws one of OscSender's exceptions or dereferences
\* a null message or an empty stack.
THEOREM ClientCallsSucceed ==
    ASSUME Sequels = FALSE
    PROVE  CSpec => []CallsSucceed
<1>1. CIInv => CallsSucceed
  BY DEF CIInv
<1> QED
  BY <1>1, ClientInvariant, PTL

\* No handle of such a client is ever lost to the sender: send(), clear() and the
\* destructor free every message, bundle and address they drop.
THEOREM ClientLeaksNothing ==
    ASSUME Sequels = FALSE
    PROVE  CSpec => []LeakFree
<1>1. CIInv => LeakFree
  BY OwnedIsLeakFree DEF CIInv
<1> QED
  BY <1>1, ClientInvariant, PTL
=============================================================================
