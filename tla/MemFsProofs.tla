----------------------------- MODULE MemFsProofs -----------------------------
(***************************************************************************)
(* The arena of MemFs is a tree by path, its calls answer as that tree     *)
(* says, and its handles follow their files, for all paths and nodes.      *)
(***************************************************************************)
EXTENDS MemFs, FileTreeProofs, FiniteSetTheorems

-----------------------------------------------------------------------------
(* Induction over the naturals, for the walks of lookup and of move_node.  *)
(* The initial intervals are ordered by strict inclusion, which is well    *)
(* founded on finite sets: the first natural outside of T has none below.  *)

LEMMA Induction ==
    ASSUME NEW T, 0 \in T, \A n \in T \cap Nat : n + 1 \in T
    PROVE  Nat \subseteq T
<1> SUFFICES ASSUME NEW k \in Nat, k \notin T PROVE FALSE
  OBVIOUS
<1> DEFINE UpTo(n) == 0..n
           W == {UpTo(n) : n \in {m \in Nat : m \notin T}}
<1>1. W \subseteq FiniteSubsetsOf(Nat)
  <2> SUFFICES ASSUME NEW n \in Nat PROVE IsFiniteSet(0..n) /\ 0..n \subseteq Nat
    BY DEF FiniteSubsetsOf
  <2> QED BY FS_Interval
<1>2. W # {}
  OBVIOUS
<1>3. PICK w \in W : \A y \in W : <<y, w>> \notin StrictSubsetOrdering(Nat)
  <2> HIDE DEF W
  <2> QED BY ONLY <1>1, <1>2, FS_StrictSubsetOrderingWellFounded, WFMin
<1>4. PICK m \in Nat : m \notin T /\ w = 0..m
  OBVIOUS
<1>5. m # 0 /\ m - 1 \in Nat /\ (m - 1) + 1 = m
  BY <1>4
<1>6. UpTo(m - 1) \in W
  BY <1>4, <1>5
<1>7. UpTo(m - 1) \subseteq w /\ m \in w /\ m \notin UpTo(m - 1) /\ w \subseteq Nat
  BY <1>4, <1>5
<1>8. <<UpTo(m - 1), w>> \in StrictSubsetOrdering(Nat)
  <2> HIDE DEF UpTo, W
  <2> QED BY <1>7 DEF StrictSubsetOrdering
<1> QED BY <1>3, <1>6, <1>8

-----------------------------------------------------------------------------
(* Paths and names.                                                        *)

LEMMA InitialSegment ==
    ASSUME NEW p \in Seq(Names), NEW n \in 0..Len(p)
    PROVE  /\ SubSeq(p, 1, n) \in Seq(Names) /\ Len(SubSeq(p, 1, n)) = n
           /\ \A i \in 1..n : SubSeq(p, 1, n)[i] = p[i]
<1>1. \A i \in 1..n : p[i] \in Names
  OBVIOUS
<1>2. n \in Int /\ (n = 0 \/ 1 <= n)
  OBVIOUS
<1> QED BY <1>1, <1>2, SubSeqProperties

LEMMA SameEntries ==
    ASSUME NEW p \in Seq(Names), NEW q \in Seq(Names), Len(p) = Len(q), \A i \in 1..Len(p) : p[i] = q[i]
    PROVE  p = q
  OBVIOUS

LEMMA NameOfPath ==
    ASSUME NEW p \in Paths \ {Root}
    PROVE  /\ Parent(p) \in Paths /\ file_name(p) \in Names /\ Len(Parent(p)) = Len(p) - 1
           /\ p = Append(Parent(p), file_name(p)) /\ Len(p) \in Nat \ {0}
           /\ \A i \in 1..Len(p) - 1 : Parent(p)[i] = p[i]
<1>1. p \in Seq(Names) /\ Len(p) \in Nat /\ Len(p) # 0 /\ Parent(p) \in Paths
  BY PathsAssumption, ParentAbove DEF Root
<1>2. file_name(p) = p[Len(p)] /\ file_name(p) \in Names
  BY <1>1 DEF file_name
<1>3. Parent(p) \in Seq(Names) /\ Len(Parent(p)) = Len(p) - 1 /\ \A i \in 1..Len(p) - 1 : Parent(p)[i] = p[i]
  <2>1. Len(p) - 1 \in 0..Len(p)
    BY <1>1
  <2> QED BY <1>1, <2>1, InitialSegment DEF Parent
<1>4. p = Append(Parent(p), file_name(p))
  BY <1>1, <1>2, <1>3
<1> QED BY <1>1, <1>2, <1>3, <1>4

LEMMA NamesTell ==
    ASSUME NEW p \in Paths \ {Root}, NEW q \in Paths \ {Root},
           Parent(p) = Parent(q), file_name(p) = file_name(q)
    PROVE  p = q
  BY NameOfPath

\* The paths on the way to p, by their length.
Start(p, i) == SubSeq(p, 1, i)

LEMMA StartsOf ==
    ASSUME NEW p \in Paths
    PROVE  /\ Start(p, 0) = Root /\ Start(p, Len(p)) = p
           /\ \A i \in 0..Len(p) : Start(p, i) \in Paths /\ Len(Start(p, i)) = i /\ Above(Start(p, i), p)
           /\ \A i \in 1..Len(p) : /\ Start(p, i) # Root /\ Parent(Start(p, i)) = Start(p, i - 1)
                                   /\ file_name(Start(p, i)) = p[i]
           /\ \A q \in Paths : Above(q, p) => Len(q) \in 0..Len(p) /\ q = Start(p, Len(q))
<1>1. p \in Seq(Names) /\ Len(p) \in Nat /\ \A i \in 0..Len(p) : Start(p, i) \in Paths
  BY PathsAssumption DEF Start
<1>2. Start(p, 0) = Root /\ Start(p, Len(p)) = p
  BY <1>1, SubSeqFull, SubSeqEmpty DEF Root, Start
<1>3. ASSUME NEW i \in 0..Len(p)
      PROVE  /\ Start(p, i) \in Seq(Names) /\ Len(Start(p, i)) = i
             /\ \A k \in 1..i : Start(p, i)[k] = p[k]
  BY <1>1, InitialSegment DEF Start
<1>4. ASSUME NEW i \in 0..Len(p) PROVE Above(Start(p, i), p)
  BY <1>1, <1>3 DEF Above
<1>5. ASSUME NEW i \in 1..Len(p)
      PROVE  Start(p, i) # Root /\ Parent(Start(p, i)) = Start(p, i - 1) /\ file_name(Start(p, i)) = p[i]
  <2>1. i \in 0..Len(p) /\ i - 1 \in 0..Len(p)
    BY <1>1
  <2>2. /\ Start(p, i) \in Seq(Names) /\ Len(Start(p, i)) = i /\ \A k \in 1..i : Start(p, i)[k] = p[k]
        /\ Start(p, i - 1) \in Seq(Names) /\ Len(Start(p, i - 1)) = i - 1
        /\ \A k \in 1..i - 1 : Start(p, i - 1)[k] = p[k]
    BY <1>3, <2>1
  <2>3. Start(p, i) # Root
    BY <1>1, <2>2 DEF Root
  <2> DEFINE s == Start(p, i)
             t == Start(p, i - 1)
  <2>4. i - 1 \in 0..Len(s)
    BY <2>2
  <2>5. Parent(s) \in Seq(Names) /\ Len(Parent(s)) = i - 1 /\ \A k \in 1..i - 1 : Parent(s)[k] = s[k]
    BY <2>2, <2>4, InitialSegment DEF Parent
  <2>6. Parent(s) = t
    BY <2>2, <2>5
  <2> QED BY <2>2, <2>3, <2>6 DEF file_name
<1>6. ASSUME NEW q \in Paths, Above(q, p) PROVE Len(q) \in 0..Len(p) /\ q = Start(p, Len(q))
  <2>1. q \in Seq(Names) /\ Len(q) \in 0..Len(p) /\ \A k \in 1..Len(q) : q[k] = p[k]
    BY <1>1, <1>6, PathsAssumption DEF Above
  <2> QED BY <1>3, <2>1
<1> QED BY <1>1, <1>2, <1>3, <1>4, <1>5, <1>6

LEMMA ParentOfRoot == Parent(Root) = Root
  BY DEF Parent, Root

\* What stands at p: an id, or NO_PARENT.
Id(at, p) == IF p \in DOMAIN at THEN at[p] ELSE NO_PARENT

NodeFields == {"parent", "data", "children"}

\* The nodes are records, and their children functions.
AreNodes(n) ==
    \A id \in DOMAIN n :
        /\ id \in Nat /\ id # NO_PARENT
        /\ DOMAIN n[id] = NodeFields
        /\ n[id].children = [name \in DOMAIN n[id].children |-> n[id].children[name]]

\* The arena n is the tree of paths in which at tells the node of each path:
\* every node has exactly one path, its parent is the node of the path above,
\* a collection, and its children are the nodes of the paths below by name.
Shape(n, at) ==
    /\ AreNodes(n)
    /\ at = [p \in DOMAIN at |-> at[p]]
    /\ DOMAIN at \subseteq Paths /\ Root \in DOMAIN at
    /\ at[Root] = ROOT_ID /\ n[ROOT_ID].parent = NO_PARENT /\ IsDirNode(n, ROOT_ID)
    /\ DOMAIN n = {at[p] : p \in DOMAIN at}
    /\ \A p, q \in DOMAIN at : at[p] = at[q] => p = q
    /\ \A p \in DOMAIN at \ {Root} :
         /\ Parent(p) \in DOMAIN at /\ n[at[p]].parent = at[Parent(p)]
         /\ IsDirNode(n, at[Parent(p)])
         /\ file_name(p) \in DOMAIN n[at[Parent(p)]].children
         /\ n[at[Parent(p)]].children[file_name(p)] = at[p]
    /\ \A p \in DOMAIN at : \A name \in DOMAIN n[at[p]].children :
         \E q \in DOMAIN at \ {Root} : Parent(q) = p /\ file_name(q) = name

LEMMA NodeOf ==
    ASSUME NEW n, NEW at, Shape(n, at), NEW p \in DOMAIN at
    PROVE  /\ p \in Paths /\ at[p] \in DOMAIN n /\ at[p] \in Nat /\ at[p] # NO_PARENT
           /\ DOMAIN n[at[p]] = NodeFields
           /\ p # Root => /\ Parent(p) \in DOMAIN at /\ n[at[p]].parent = at[Parent(p)]
                          /\ IsDirNode(n, at[Parent(p)])
<1>1. p \in Paths /\ at[p] \in DOMAIN n
  BY DEF Shape
<1>2. at[p] \in Nat /\ at[p] # NO_PARENT /\ DOMAIN n[at[p]] = NodeFields
  BY <1>1 DEF Shape, AreNodes
<1> QED BY <1>1, <1>2 DEF Shape

-----------------------------------------------------------------------------
(* lookup() finds what is there.                                           *)

Link(n, id, seg) ==
    IF id \notin DOMAIN n \/ seg \notin DOMAIN n[id].children
    THEN NO_PARENT ELSE n[id].children[seg]

Walked(n, p, g) == g = [i \in 0..Len(p) |-> IF i = 0 THEN ROOT_ID ELSE Link(n, g[i - 1], p[i])]

LEMMA LookupWalks ==
    ASSUME NEW n, NEW p, NEW g, Walked(n, p, g)
    PROVE  \E h : Walked(n, p, h) /\ Lookup(n, p) = h[Len(p)]
<1>1. Walked(n, p, CHOOSE h : Walked(n, p, h))
  OBVIOUS
<1>2. Lookup(n, p) = (CHOOSE h : Walked(n, p, h))[Len(p)]
  BY DEF Lookup, Walked, Link
<1> QED BY <1>1, <1>2

\* One step of the walk, from the parent to q.
LEMMA LinkIs ==
    ASSUME NEW n, NEW at, Shape(n, at), NEW q \in Paths \ {Root}
    PROVE  Link(n, Id(at, Parent(q)), file_name(q)) = Id(at, q)
<1>1. CASE Parent(q) \notin DOMAIN at
  <2>1. q \notin DOMAIN at /\ NO_PARENT \notin DOMAIN n
    BY <1>1 DEF Shape, AreNodes
  <2> QED BY <1>1, <2>1 DEF Link, Id
<1>2. CASE q \in DOMAIN at
  <2>1. Parent(q) \in DOMAIN at /\ at[Parent(q)] \in DOMAIN n
    BY <1>2 DEF Shape
  <2> QED BY <1>2, <2>1 DEF Link, Id, Shape
<1>3. CASE Parent(q) \in DOMAIN at /\ q \notin DOMAIN at
  <2>1. ASSUME file_name(q) \in DOMAIN n[at[Parent(q)]].children PROVE FALSE
    <3>1. PICK r \in DOMAIN at \ {Root} : Parent(r) = Parent(q) /\ file_name(r) = file_name(q)
      BY <1>3, <2>1 DEF Shape
    <3>2. r \in Paths \ {Root}
      BY DEF Shape
    <3> QED BY <1>3, <3>1, <3>2, NamesTell
  <2> QED BY <1>3, <2>1 DEF Link, Id
<1> QED BY <1>1, <1>2, <1>3

LEMMA LookupIs ==
    ASSUME NEW n, NEW at, Shape(n, at), NEW p \in Paths
    PROVE  Lookup(n, p) = Id(at, p)
<1> DEFINE g == [i \in 0..Len(p) |-> Id(at, Start(p, i))]
<1>1. p \in Seq(Names) /\ Len(p) \in Nat
  BY PathsAssumption
<1>2. Start(p, 0) = Root /\ Start(p, Len(p)) = p
  BY StartsOf
<1>4. ASSUME NEW i \in 1..Len(p)
      PROVE  Link(n, Id(at, Start(p, i - 1)), p[i]) = Id(at, Start(p, i))
  <2>1. /\ Start(p, i) \in Paths \ {Root}
        /\ Parent(Start(p, i)) = Start(p, i - 1) /\ file_name(Start(p, i)) = p[i]
    BY StartsOf
  <2> QED BY <2>1, LinkIs
<1>5. Id(at, Root) = ROOT_ID
  BY DEF Shape, Id
<1>6. Walked(n, p, g)
  <2>1. \A i \in 0..Len(p) : g[i] = IF i = 0 THEN ROOT_ID ELSE Link(n, g[i - 1], p[i])
    <3> SUFFICES ASSUME NEW i \in 0..Len(p) PROVE g[i] = IF i = 0 THEN ROOT_ID ELSE Link(n, g[i - 1], p[i])
      OBVIOUS
    <3>1. CASE i = 0
      BY <1>2, <1>5, <3>1
    <3>2. CASE i # 0
      <4>1. i \in 1..Len(p) /\ i - 1 \in 0..Len(p)
        BY <1>1, <3>2
      <4> QED BY <1>4, <3>2, <4>1
    <3> QED BY <3>1, <3>2
  <2> QED BY <2>1 DEF Walked
<1>7. PICK h : Walked(n, p, h) /\ Lookup(n, p) = h[Len(p)]
  BY <1>6, LookupWalks
<1> DEFINE T == {i \in Nat : i <= Len(p) => h[i] = Id(at, Start(p, i))}
<1>8. 0 \in T
  BY <1>1, <1>2, <1>5, <1>7 DEF Walked
<1>9. ASSUME NEW i \in T \cap Nat PROVE i + 1 \in T
  <2> SUFFICES ASSUME i + 1 <= Len(p) PROVE h[i + 1] = Id(at, Start(p, i + 1))
    OBVIOUS
  <2>1. i + 1 \in 1..Len(p) /\ i + 1 \in 0..Len(p) /\ (i + 1) - 1 = i /\ i + 1 # 0
    BY <1>1
  <2>2. h[i] = Id(at, Start(p, i))
    BY <1>1, <2>1
  <2>3. h[i + 1] = Link(n, h[(i + 1) - 1], p[i + 1])
    BY <1>7, <2>1 DEF Walked
  <2> QED BY <1>4, <2>1, <2>2, <2>3
<1>10. Len(p) \in T
  <2> HIDE DEF T
  <2> QED BY <1>1, <1>8, <1>9, Induction
<1> QED BY <1>1, <1>2, <1>7, <1>10

\* The node of each path, as lookup() finds it.
Where(n) == [p \in {q \in Paths : Lookup(n, q) \in DOMAIN n} |-> Lookup(n, p)]

LEMMA WhereIs ==
    ASSUME NEW n, NEW at, Shape(n, at)
    PROVE  Where(n) = at
<1>1. ASSUME NEW p \in Paths PROVE Lookup(n, p) \in DOMAIN n <=> p \in DOMAIN at
  <2>1. NO_PARENT \notin DOMAIN n
    BY DEF Shape, AreNodes
  <2> QED BY <2>1, LookupIs DEF Id, Shape
<1>2. \A p \in DOMAIN at : p \in Paths /\ Lookup(n, p) = at[p]
  BY LookupIs DEF Id, Shape
<1>3. {q \in Paths : Lookup(n, q) \in DOMAIN n} = DOMAIN at
  BY <1>1, <1>2
<1>4. at = [p \in DOMAIN at |-> at[p]]
  BY DEF Shape
<1> QED BY <1>2, <1>3, <1>4 DEF Where

\* All on the way to what is there is there, and collections.
LEMMA WayIsThere ==
    ASSUME NEW n, NEW at, Shape(n, at), NEW p \in DOMAIN at, NEW q \in Paths, Above(q, p)
    PROVE  q \in DOMAIN at /\ (q # p => IsDirNode(n, at[q]))
<1>1. p \in Paths /\ p \in Seq(Names) /\ Len(p) \in Nat
  BY PathsAssumption DEF Shape
<1> DEFINE T == {i \in Nat : i <= Len(p) => Start(p, Len(p) - i) \in DOMAIN at}
<1>2. 0 \in T
  BY <1>1, StartsOf
<1>3. ASSUME NEW i \in T \cap Nat PROVE i + 1 \in T
  <2> SUFFICES ASSUME i + 1 <= Len(p) PROVE Start(p, Len(p) - (i + 1)) \in DOMAIN at
    OBVIOUS
  <2>1. Len(p) - i \in 1..Len(p) /\ Len(p) - (i + 1) = (Len(p) - i) - 1 /\ Start(p, Len(p) - i) \in DOMAIN at
    BY <1>1
  <2>2. Start(p, Len(p) - i) # Root /\ Parent(Start(p, Len(p) - i)) = Start(p, Len(p) - (i + 1))
    BY <1>1, <2>1, StartsOf
  <2> QED BY <2>1, <2>2 DEF Shape
<1>4. \A i \in Nat : i \in T
  <2> HIDE DEF T
  <2> QED BY <1>2, <1>3, Induction
<1>5. ASSUME NEW i \in 0..Len(p) PROVE Start(p, i) \in DOMAIN at
  <2>1. Len(p) - i \in Nat /\ Len(p) - (Len(p) - i) = i /\ Len(p) - i <= Len(p)
    BY <1>1
  <2> QED BY <1>4, <2>1
<1>6. Len(q) \in 0..Len(p) /\ q = Start(p, Len(q))
  BY <1>1, StartsOf
<1>7. ASSUME q # p PROVE IsDirNode(n, at[q])
  <2>1. Len(q) + 1 \in 1..Len(p) /\ (Len(q) + 1) - 1 = Len(q) /\ Len(q) + 1 \in 0..Len(p)
    BY <1>1, <1>6, <1>7, StartsOf
  <2>2. Start(p, Len(q) + 1) # Root /\ Parent(Start(p, Len(q) + 1)) = q
    BY <1>1, <1>6, <2>1, StartsOf
  <2>3. Start(p, Len(q) + 1) \in DOMAIN at
    BY <1>5, <2>1
  <2> QED BY <2>2, <2>3 DEF Shape
<1> QED BY <1>5, <1>6, <1>7

-----------------------------------------------------------------------------
(* The way up that move_node walks.                                        *)

Climbed(n, id, g) ==
    g = [i \in 0..Cardinality(DOMAIN n) |->
            IF i = 0 THEN id ELSE IF g[i - 1] = NO_PARENT THEN NO_PARENT ELSE n[g[i - 1]].parent]

LEMMA AncestorsClimb ==
    ASSUME NEW n, NEW id, NEW g, Climbed(n, id, g)
    PROVE  \E h : /\ Climbed(n, id, h)
                  /\ Ancestors(n, id) = {h[i] : i \in 0..Cardinality(DOMAIN n)} \ {NO_PARENT}
<1> DEFINE h == CHOOSE h : Climbed(n, id, h)
<1>1. Climbed(n, id, h)
  OBVIOUS
<1>2. Ancestors(n, id) = {h[i] : i \in 0..Cardinality(DOMAIN n)} \ {NO_PARENT}
  BY DEF Ancestors, Climbed
<1> HIDE DEF h
<1> QED BY <1>1, <1>2

\* There are as many nodes as there are paths on the way to one, at least.
LEMMA WayFits ==
    ASSUME NEW n, NEW at, Shape(n, at), IsFiniteSet(DOMAIN n), NEW p \in DOMAIN at
    PROVE  Cardinality(DOMAIN n) \in Nat /\ Len(p) < Cardinality(DOMAIN n)
<1>1. p \in Paths /\ p \in Seq(Names) /\ Len(p) \in Nat
  BY PathsAssumption DEF Shape
<1>2. Cardinality(DOMAIN n) \in Nat
  BY FS_CardinalityType
<1> SUFFICES ASSUME Cardinality(DOMAIN n) < Len(p) + 1 PROVE FALSE
  BY <1>1, <1>2
<1> DEFINE S == 0..Len(p)
           f == [i \in S |-> at[Start(p, i)]]
<1>3. IsFiniteSet(S) /\ Cardinality(S) = Len(p) + 1
  BY <1>1, FS_Interval
<1>4. ASSUME NEW i \in S PROVE Start(p, i) \in DOMAIN at /\ Len(Start(p, i)) = i
  BY <1>1, StartsOf, WayIsThere
<1>5. f \in [S -> DOMAIN n]
  BY <1>4 DEF Shape
<1>6. \A i, j \in S : i # j => f[i] # f[j]
  <2> SUFFICES ASSUME NEW i \in S, NEW j \in S, at[Start(p, i)] = at[Start(p, j)] PROVE i = j
    OBVIOUS
  <2>1. Start(p, i) = Start(p, j)
    BY <1>4 DEF Shape
  <2> QED BY <1>4, <2>1
<1> HIDE DEF S, f
<1> QED BY <1>3, <1>5, <1>6, FS_PigeonHole

\* The node at p and all above it are the nodes at p and on the way to it.
LEMMA AncestorsAre ==
    ASSUME NEW n, NEW at, Shape(n, at), IsFiniteSet(DOMAIN n), NEW p \in DOMAIN at
    PROVE  Ancestors(n, at[p]) = {at[q] : q \in Trail(p)}
<1> DEFINE N == Cardinality(DOMAIN n)
           Up(i) == IF i <= Len(p) THEN at[Start(p, Len(p) - i)] ELSE NO_PARENT
           g == [i \in 0..N |-> Up(i)]
<1>1. p \in Paths /\ Len(p) \in Nat /\ N \in Nat /\ Len(p) < N
  BY WayFits, PathsAssumption DEF Shape
<1>2. ASSUME NEW i \in 0..Len(p) PROVE Start(p, i) \in DOMAIN at /\ Start(p, i) \in Trail(p)
  BY <1>1, StartsOf, WayIsThere DEF Trail
<1>3. Up(0) = at[p]
  BY <1>1, StartsOf
<1>4. ASSUME NEW i \in Nat
      PROVE  Up(i + 1) = IF Up(i) = NO_PARENT THEN NO_PARENT ELSE n[Up(i)].parent
  <2>1. CASE i + 1 <= Len(p)
    <3>1. Len(p) - i \in 1..Len(p) /\ Len(p) - i \in 0..Len(p) /\ Len(p) - (i + 1) = (Len(p) - i) - 1
      BY <1>1, <2>1
    <3>2. /\ Start(p, Len(p) - i) # Root /\ Parent(Start(p, Len(p) - i)) = Start(p, Len(p) - (i + 1))
          /\ Start(p, Len(p) - i) \in DOMAIN at
      BY <1>1, <1>2, <3>1, StartsOf
    <3>3. n[at[Start(p, Len(p) - i)]].parent = at[Start(p, Len(p) - (i + 1))]
          /\ at[Start(p, Len(p) - i)] # NO_PARENT
      BY <3>2, NodeOf
    <3>4. i <= Len(p)
      BY <1>1, <2>1
    <3> QED BY <2>1, <3>3, <3>4
  <2>2. CASE i = Len(p)
    <3>1. Up(i) = ROOT_ID /\ Up(i + 1) = NO_PARENT
      BY <1>1, <2>2, StartsOf DEF Shape
    <3> QED BY <3>1 DEF Shape
  <2>3. CASE i > Len(p)
    BY <1>1, <2>3
  <2> QED BY <1>1, <2>1, <2>2, <2>3
<1> HIDE DEF Up
<1>5. Climbed(n, at[p], g)
  <2>1. ASSUME NEW i \in 0..N
        PROVE  g[i] = IF i = 0 THEN at[p] ELSE IF g[i - 1] = NO_PARENT THEN NO_PARENT ELSE n[g[i - 1]].parent
    <3>1. CASE i = 0
      BY <1>1, <1>3, <3>1
    <3>2. CASE i # 0
      <4>1. i - 1 \in Nat /\ i - 1 \in 0..N /\ (i - 1) + 1 = i
        BY <1>1, <3>2
      <4>2. Up(i) = IF Up(i - 1) = NO_PARENT THEN NO_PARENT ELSE n[Up(i - 1)].parent
        BY <1>4, <4>1
      <4> QED BY <3>2, <4>1, <4>2
    <3> QED BY <3>1, <3>2
  <2> QED BY <2>1 DEF Climbed
<1>6. PICK h : Climbed(n, at[p], h) /\ Ancestors(n, at[p]) = {h[i] : i \in 0..N} \ {NO_PARENT}
  BY <1>5, AncestorsClimb
<1> DEFINE T == {i \in Nat : i <= N => h[i] = Up(i)}
<1>7. 0 \in T
  BY <1>1, <1>3, <1>6 DEF Climbed
<1>8. ASSUME NEW i \in T \cap Nat PROVE i + 1 \in T
  <2> SUFFICES ASSUME i + 1 <= N PROVE h[i + 1] = Up(i + 1)
    OBVIOUS
  <2>1. i + 1 \in 0..N /\ (i + 1) - 1 = i /\ i + 1 # 0 /\ h[i] = Up(i)
    BY <1>1
  <2>2. h[i + 1] = IF h[(i + 1) - 1] = NO_PARENT THEN NO_PARENT ELSE n[h[(i + 1) - 1]].parent
    BY <1>6, <2>1 DEF Climbed
  <2> QED BY <1>4, <2>1, <2>2
<1>9. \A i \in Nat : i \in T
  <2> HIDE DEF T
  <2> QED BY <1>7, <1>8, Induction
<1>10. Ancestors(n, at[p]) = {Up(i) : i \in 0..N} \ {NO_PARENT}
  BY <1>1, <1>6, <1>9
<1>11. ASSUME NEW i \in 0..N, Up(i) # NO_PARENT PROVE \E q \in Trail(p) : Up(i) = at[q]
  <2>1. i <= Len(p) /\ Len(p) - i \in 0..Len(p) /\ Up(i) = at[Start(p, Len(p) - i)]
    BY <1>1, <1>11 DEF Up
  <2> QED BY <1>2, <2>1
<1>12. ASSUME NEW q \in Trail(p) PROVE at[q] # NO_PARENT /\ \E i \in 0..N : Up(i) = at[q]
  <2>1. Len(q) \in 0..Len(p) /\ q = Start(p, Len(q)) /\ q \in DOMAIN at
    BY <1>1, StartsOf, WayIsThere DEF Trail
  <2>2. Len(p) - Len(q) \in 0..N /\ Len(p) - Len(q) <= Len(p) /\ Len(p) - (Len(p) - Len(q)) = Len(q)
    BY <1>1, <2>1
  <2>3. Up(Len(p) - Len(q)) = at[q]
    BY <2>1, <2>2 DEF Up
  <2>4. at[q] # NO_PARENT
    BY <2>1, NodeOf
  <2> QED BY <2>2, <2>3, <2>4
<1> QED BY <1>10, <1>11, <1>12

-----------------------------------------------------------------------------
(* The calls answer as the tree by path says.                              *)

\* The tree by path; Resources is that of the arena.
Data(n, at) == [p \in DOMAIN at |-> n[at[p]].data]

LEMMA DataIs ==
    ASSUME NEW n, NEW at, Shape(n, at)
    PROVE  /\ \A p \in DOMAIN at : /\ Lookup(n, p) = at[p] /\ Data(n, at)[p] = n[at[p]].data
                                   /\ IsDir(Data(n, at), p) <=> IsDirNode(n, at[p])
                                   /\ IsFile(Data(n, at), p) <=> ~IsDirNode(n, at[p])
           /\ \A p \in Paths : Lookup(n, p) # NO_PARENT <=> p \in DOMAIN at
           /\ DOMAIN Data(n, at) = DOMAIN at
  BY LookupIs, NodeOf DEF Data, Id, IsDir, IsFile, IsDirNode

LEMMA LookupErrorsAre ==
    ASSUME NEW n, NEW at, Shape(n, at), NEW p \in Paths
    PROVE  LookupErrors(n, p) = IF p \in DOMAIN at THEN {} ELSE {Missing(Data(n, at), p)}
<1> DEFINE f == Data(n, at)
<1>1. CASE p \in DOMAIN at
  BY <1>1, DataIs DEF LookupErrors
<1>2. CASE p \notin DOMAIN at
  <2>1. Len(p) \in Nat
    BY PathsAssumption
  <2>2. ASSUME NEW i \in 1..Len(p) - 1, Lookup(n, Start(p, i)) # NO_PARENT,
               ~IsDirNode(n, Lookup(n, Start(p, i)))
        PROVE  \E q \in Trail(p) : q # p /\ IsFile(f, q)
    <3>1. i \in 0..Len(p) /\ i # Len(p)
      BY <2>1
    <3>2. Start(p, i) \in Trail(p) /\ Start(p, i) # p /\ Start(p, i) \in DOMAIN at
      BY <2>2, <3>1, StartsOf, DataIs DEF Trail
    <3> QED BY <2>2, <3>2, DataIs
  <2>3. ASSUME NEW q \in Trail(p), q # p, IsFile(f, q)
        PROVE  \E i \in 1..Len(p) - 1 : /\ Lookup(n, Start(p, i)) # NO_PARENT
                                        /\ ~IsDirNode(n, Lookup(n, Start(p, i)))
    <3>1. q \in DOMAIN at /\ q # Root /\ q \in Paths /\ ~IsDirNode(n, at[q])
      BY <2>3, DataIs DEF IsFile, Shape
    <3>2. Len(q) \in 0..Len(p) /\ q = Start(p, Len(q))
      BY <3>1, StartsOf DEF Trail
    <3>3. Len(q) # 0 /\ Len(q) # Len(p)
      BY <2>3, <3>1, <3>2, StartsOf
    <3>4. Len(q) \in 1..Len(p) - 1
      BY <2>1, <3>2, <3>3
    <3> QED BY <3>1, <3>2, <3>4, DataIs
  <2>4. LookupErrors(n, p) =
          IF \E i \in 1..Len(p) - 1 : /\ Lookup(n, Start(p, i)) # NO_PARENT
                                      /\ ~IsDirNode(n, Lookup(n, Start(p, i)))
          THEN {"Forbidden"} ELSE {"NotFound"}
    BY <1>2, DataIs DEF LookupErrors, Start
  <2> HIDE DEF f
  <2>5. LookupErrors(n, p) = {Missing(f, p)}
    BY <2>2, <2>3, <2>4 DEF Missing
  <2> QED BY <1>2, <2>5 DEF f
<1> QED BY <1>1, <1>2

LEMMA ParentErrorsAre ==
    ASSUME NEW n, NEW at, Shape(n, at), NEW p \in Paths
    PROVE  /\ LookupParentErrors(n, p) = ParentErrors(Data(n, at), p)
           /\ Parent(p) \in Paths
           /\ LookupParentErrors(n, p) = {} <=> IsDir(Data(n, at), Parent(p))
<1>1. Parent(p) \in Paths
  BY ParentAbove, ParentOfRoot, PathsAssumption
<1>2. LookupErrors(n, Parent(p)) = IF Parent(p) \in DOMAIN at THEN {} ELSE {Missing(Data(n, at), Parent(p))}
  BY <1>1, LookupErrorsAre
<1>3. CASE Parent(p) \notin DOMAIN at
  BY <1>1, <1>2, <1>3, DataIs DEF LookupParentErrors, ParentErrors, IsDir
<1>4. CASE Parent(p) \in DOMAIN at
  BY <1>1, <1>2, <1>4, DataIs DEF LookupParentErrors, ParentErrors, IsDir, IsFile
<1> QED BY <1>1, <1>3, <1>4

\* What is missing because its parent is.
LEMMA MissingWithParent ==
    ASSUME NEW n, NEW at, Shape(n, at), NEW p \in Paths, p \notin DOMAIN at,
           ParentErrors(Data(n, at), p) # {}
    PROVE  ParentErrors(Data(n, at), p) = {Missing(Data(n, at), p)}
<1> DEFINE f == Data(n, at)
<1>1. p # Root /\ Parent(p) \in Paths /\ DOMAIN f = DOMAIN at
  BY ParentAbove, DataIs DEF Shape
<1>2. CASE Parent(p) \in DOMAIN at
  <2>1. IsFile(f, Parent(p)) /\ Parent(p) \in Trail(p) /\ Parent(p) # p
    BY <1>1, <1>2, ParentAbove DEF ParentErrors, Trail
  <2> QED BY <1>1, <1>2, <2>1 DEF ParentErrors, Missing
<1>3. CASE Parent(p) \notin DOMAIN at
  <2>1. ASSUME NEW q \in Paths, IsFile(f, q)
        PROVE  (q \in Trail(p) /\ q # p) <=> (q \in Trail(Parent(p)) /\ q # Parent(p))
    <3>1. q # p /\ q # Parent(p)
      BY <1>1, <1>3, <2>1 DEF IsFile
    <3>2. Above(q, p) => Above(q, Parent(p))
      BY <1>1, <3>1, ParentAbove
    <3>3. Above(q, Parent(p)) => Above(q, p)
      BY <1>1, ParentAbove, AboveTransitive
    <3> QED BY <3>1, <3>2, <3>3 DEF Trail
  <2> HIDE DEF f
  <2>2. Missing(f, p) = Missing(f, Parent(p))
    <3>1. (\E q \in Trail(p) : q # p /\ IsFile(f, q)) <=> (\E q \in Trail(Parent(p)) : q # Parent(p) /\ IsFile(f, q))
      BY <2>1 DEF Trail
    <3> QED BY <3>1 DEF Missing
  <2> QED BY <1>1, <1>3, <2>2 DEF ParentErrors, f
<1> QED BY <1>2, <1>3

\* A name leads to the path it makes with the collection's.
LEMMA ChildIs ==
    ASSUME NEW n, NEW at, Shape(n, at), NEW p \in Paths \ {Root}, Parent(p) \in DOMAIN at
    PROVE  /\ file_name(p) \in DOMAIN n[at[Parent(p)]].children <=> p \in DOMAIN at
           /\ p \in DOMAIN at => n[at[Parent(p)]].children[file_name(p)] = at[p]
<1>1. ASSUME file_name(p) \in DOMAIN n[at[Parent(p)]].children PROVE p \in DOMAIN at
  <2>1. PICK q \in DOMAIN at \ {Root} : Parent(q) = Parent(p) /\ file_name(q) = file_name(p)
    BY <1>1 DEF Shape
  <2> QED BY <2>1, NodeOf, NamesTell
<1> QED BY <1>1 DEF Shape

LEMMA CreateAgrees ==
    ASSUME NEW n, NEW at, Shape(n, at), NEW p \in Paths \ {Root}
    PROVE  CreateErrors(n, p) = CreateDirErrors(Data(n, at), p)
<1>1. CASE ParentErrors(Data(n, at), p) # {}
  BY <1>1, ParentErrorsAre DEF CreateErrors, CreateDirErrors
<1>2. CASE ParentErrors(Data(n, at), p) = {}
  <2>1. Parent(p) \in DOMAIN at /\ Lookup(n, Parent(p)) = at[Parent(p)] /\ LookupParentErrors(n, p) = {}
    BY <1>2, ParentErrorsAre, DataIs DEF IsDir
  <2>2. file_name(p) \in DOMAIN n[Lookup(n, Parent(p))].children <=> p \in DOMAIN Data(n, at)
    BY <2>1, ChildIs, DataIs
  <2> QED BY <1>2, <2>1, <2>2 DEF CreateErrors, CreateDirErrors
<1> QED BY <1>1, <1>2

LEMMA NoChildren ==
    ASSUME NEW n, NEW at, Shape(n, at), NEW p \in DOMAIN at
    PROVE  n[at[p]].children = <<>> <=> Members(Data(n, at), p) = {}
<1> DEFINE c == n[at[p]].children
<1>1. c = [name \in DOMAIN c |-> c[name]]
  BY NodeOf DEF Shape, AreNodes
<1>2. DOMAIN c = {} <=> Members(Data(n, at), p) = {}
  <2>1. ASSUME NEW q \in Members(Data(n, at), p) PROVE file_name(q) \in DOMAIN c
    BY <2>1, DataIs DEF Members, Shape
  <2>2. ASSUME NEW name \in DOMAIN c PROVE Members(Data(n, at), p) # {}
    BY <2>2, DataIs DEF Members, Shape
  <2> QED BY <2>1, <2>2
<1> HIDE DEF c
<1>3. DOMAIN c = {} => c = <<>>
  <2> SUFFICES ASSUME DOMAIN c = {} PROVE c = <<>>
    OBVIOUS
  <2>1. c \in [1..0 -> {}]
    BY <1>1
  <2>2. c \in Seq({})
    BY <2>1, SeqDef
  <2> QED BY <2>2
<1> QED BY <1>2, <1>3 DEF c

LEMMA DeleteAgrees ==
    ASSUME NEW n, NEW at, Shape(n, at), NEW p \in Paths
    PROVE  DeleteErrors(n, p) = RemoveErrors(Data(n, at), p)
<1> DEFINE f == Data(n, at)
<1>1. CASE p \notin DOMAIN at
  <2>1. LookupErrors(n, p) = {Missing(f, p)} /\ DOMAIN f = DOMAIN at
    BY <1>1, LookupErrorsAre, DataIs
  <2> QED BY <1>1, <2>1, MissingWithParent, ParentErrorsAre DEF DeleteErrors, RemoveErrors
<1>2. CASE p \in DOMAIN at
  <2>1. IsDir(f, Parent(p))
    <3>1. CASE p = Root
      BY <3>1, ParentOfRoot, DataIs DEF Shape
    <3>2. CASE p # Root
      BY <1>2, <3>2, NodeOf, DataIs
    <3> QED BY <3>1, <3>2
  <2>2. LookupErrors(n, p) = {} /\ LookupParentErrors(n, p) = {} /\ Lookup(n, p) = at[p] /\ DOMAIN f = DOMAIN at
    BY <1>2, <2>1, LookupErrorsAre, ParentErrorsAre, DataIs
  <2>3. at[p] = ROOT_ID <=> p = Root
    BY <1>2 DEF Shape
  <2> QED BY <1>2, <2>2, <2>3, NoChildren DEF DeleteErrors, RemoveErrors
<1> QED BY <1>1, <1>2

LEMMA OpenAgrees ==
    ASSUME NEW n, NEW at, Shape(n, at), NEW p \in Paths, NEW create \in BOOLEAN, NEW create_new \in BOOLEAN
    PROVE  DoOpenErrors(n, p, create, create_new) = OpenErrors(Data(n, at), p, create, create_new)
<1> DEFINE f == Data(n, at)
<1>1. DOMAIN f = DOMAIN at
  BY DataIs
<1>2. CASE p \in DOMAIN at
  <2>1. LookupErrors(n, p) = {} /\ IsDirNode(n, Lookup(n, p)) <=> IsDir(f, p)
    BY <1>2, LookupErrorsAre, DataIs
  <2>2. LookupErrors(n, p) = {}
    BY <1>2, LookupErrorsAre
  <2> QED BY <1>1, <1>2, <2>1, <2>2 DEF DoOpenErrors, OpenErrors
<1>3. CASE p \notin DOMAIN at
  <2>1. LookupErrors(n, p) = {Missing(f, p)} /\ LookupParentErrors(n, p) = ParentErrors(f, p)
    BY <1>3, LookupErrorsAre, ParentErrorsAre
  <2>2. Missing(f, p) \in {"Forbidden", "NotFound"}
    BY DEF Missing
  <2>3. CASE Missing(f, p) = "Forbidden"
    BY <1>1, <1>3, <2>1, <2>3 DEF DoOpenErrors, OpenErrors
  <2>4. CASE Missing(f, p) = "NotFound"
    <3>1. DoOpenErrors(n, p, create, create_new) = IF ~create THEN {"NotFound"} ELSE LookupParentErrors(n, p)
      BY <2>1, <2>4 DEF DoOpenErrors
    <3>2. OpenErrors(f, p, create, create_new) = IF ~create THEN {"NotFound"} ELSE ParentErrors(f, p)
      BY <1>1, <1>3, <2>4 DEF OpenErrors
    <3> QED BY <2>1, <3>1, <3>2
  <2> QED BY <2>2, <2>3, <2>4
<1> QED BY <1>2, <1>3

LEMMA CopyAgrees ==
    ASSUME NEW n, NEW at, Shape(n, at), NEW from \in Paths, NEW to \in Paths
    PROVE  CopyFileErrors(n, from, to) = CopyErrors(Data(n, at), from, to)
<1> DEFINE f == Data(n, at)
<1>1. DOMAIN f = DOMAIN at /\ DoOpenErrors(n, to, TRUE, FALSE) = OpenErrors(f, to, TRUE, FALSE)
  BY DataIs, OpenAgrees
<1>2. CASE from \in DOMAIN at
  <2>1. LookupErrors(n, from) = {} /\ (IsDirNode(n, Lookup(n, from)) <=> IsDir(f, from))
    BY <1>2, LookupErrorsAre, DataIs
  <2> HIDE DEF f
  <2> QED BY <1>1, <1>2, <2>1 DEF CopyFileErrors, CopyErrors, f
<1>3. CASE from \notin DOMAIN at
  <2>1. LookupErrors(n, from) = {Missing(f, from)}
    BY <1>3, LookupErrorsAre
  <2> HIDE DEF f
  <2> QED BY <1>1, <1>3, <2>1 DEF CopyFileErrors, CopyErrors, f
<1> QED BY <1>2, <1>3

LEMMA MoveAgrees ==
    ASSUME NEW n, NEW at, Shape(n, at), IsFiniteSet(DOMAIN n),
           NEW from \in Paths, NEW to \in Paths, from # to,
           \A q \in Paths \cap Subtree(from) : LookupErrors(n, q) = {} => Rebase(q, from, to) \in Paths
    PROVE  MoveErrors(n, from, to) = RenameErrors(Data(n, at), from, to)
<1> DEFINE f == Data(n, at)
<1>1. DOMAIN f = DOMAIN at /\ Root \in DOMAIN at /\ IsDir(f, Root)
  BY DataIs DEF Shape
<1>2. CASE from \notin DOMAIN at
  BY <1>1, <1>2, LookupErrorsAre DEF MoveErrors, RenameErrors
<1>3. CASE from \in DOMAIN at /\ ParentErrors(f, to) # {}
  <2>1. LookupErrors(n, from) = {} /\ LookupParentErrors(n, to) = ParentErrors(f, to)
    BY <1>3, LookupErrorsAre, ParentErrorsAre
  <2>2. IsDir(f, Parent(from))
    BY <1>1, <1>3, NodeOf, ParentOfRoot, DataIs
  <2>3. LookupParentErrors(n, from) = {}
    BY <2>2, ParentErrorsAre
  <2> HIDE DEF f
  <2> QED BY <1>1, <1>3, <2>1, <2>3 DEF MoveErrors, RenameErrors, f
<1>4. CASE from \in DOMAIN at /\ ParentErrors(f, to) = {} /\ IsDir(f, to)
  <2>1. LookupErrors(n, from) = {} /\ LookupParentErrors(n, to) = {} /\ LookupErrors(n, to) = {}
        /\ IsDirNode(n, Lookup(n, to))
    BY <1>4, LookupErrorsAre, ParentErrorsAre, DataIs DEF IsDir
  <2>2. IsDir(f, Parent(from))
    BY <1>1, <1>4, NodeOf, ParentOfRoot, DataIs
  <2>3. LookupParentErrors(n, from) = {}
    BY <2>2, ParentErrorsAre
  <2> HIDE DEF f
  <2> QED BY <1>1, <1>4, <2>1, <2>3 DEF MoveErrors, RenameErrors, f
<1>5. CASE from \in DOMAIN at /\ ParentErrors(f, to) = {} /\ ~IsDir(f, to)
  <2>1. LookupErrors(n, from) = {} /\ LookupParentErrors(n, to) = {} /\ IsDir(f, Parent(to))
    BY <1>5, LookupErrorsAre, ParentErrorsAre
  <2>2. IsDir(f, Parent(from))
    BY <1>1, <1>5, NodeOf, ParentOfRoot, DataIs
  <2>3. LookupParentErrors(n, from) = {}
    BY <2>2, ParentErrorsAre
  <2>4. ~(LookupErrors(n, to) = {} /\ IsDirNode(n, Lookup(n, to)))
    BY <1>5, LookupErrorsAre, DataIs
  <2>5. to # Root /\ Parent(to) \in DOMAIN at /\ Lookup(n, Parent(to)) = at[Parent(to)] /\ Lookup(n, from) = at[from]
    BY <1>1, <1>5, <2>1, DataIs DEF IsDir
  <2>6. at[from] = ROOT_ID <=> from = Root
    BY <1>5 DEF Shape
  <2>7. at[from] \in Ancestors(n, at[Parent(to)]) <=> Above(from, Parent(to))
    <3>1. Ancestors(n, at[Parent(to)]) = {at[q] : q \in Trail(Parent(to))}
      BY <2>5, AncestorsAre
    <3>2. Trail(Parent(to)) \subseteq DOMAIN at /\ Parent(to) \in Paths
      BY <2>5, WayIsThere, NodeOf DEF Trail
    <3>3. \A q \in DOMAIN at : at[q] = at[from] => q = from
      BY <1>5 DEF Shape
    <3> QED BY <3>1, <3>2, <3>3 DEF Trail
  <2>8. Above(from, Parent(to)) <=> Above(from, to)
    <3>1. Above(from, to) => Above(from, Parent(to))
      BY <2>5, ParentAbove
    <3>2. Above(from, Parent(to)) => Above(from, to)
      BY <2>5, ParentAbove, AboveTransitive
    <3> QED BY <3>1, <3>2
  <2>9. from = Root => Above(from, to)
    BY RootIsAbove
  <2>10. ~\E q \in DOMAIN f \cap Subtree(from) : Rebase(q, from, to) \notin Paths
    <3> SUFFICES ASSUME NEW q \in DOMAIN f \cap Subtree(from) PROVE Rebase(q, from, to) \in Paths
      OBVIOUS
    <3>1. q \in Paths \cap Subtree(from) /\ q \in DOMAIN at
      BY <1>1, NodeOf
    <3>2. LookupErrors(n, q) = {}
      BY <3>1, LookupErrorsAre
    <3> QED BY <3>1, <3>2
  <2>11. MoveErrors(n, from, to) = IF Above(from, to) THEN {"Forbidden"} ELSE {}
    BY <2>1, <2>3, <2>4, <2>5, <2>6, <2>7, <2>8, <2>9 DEF MoveErrors
  <2> HIDE DEF f
  <2>12. RenameErrors(f, from, to) = IF Above(from, to) THEN {"Forbidden"} ELSE {}
    BY <1>1, <1>5, <2>10 DEF RenameErrors
  <2> QED BY <2>11, <2>12 DEF f
<1> QED BY <1>2, <1>3, <1>4, <1>5

\* A listing has the names of the members.
LEMMA ListingAgrees ==
    ASSUME NEW n, NEW at, Shape(n, at), NEW p \in DOMAIN at
    PROVE  DOMAIN n[at[p]].children = {file_name(q) : q \in Members(Data(n, at), p)}
<1>1. Members(Data(n, at), p) = {q \in DOMAIN at : q # Root /\ Parent(q) = p}
  BY DataIs DEF Members
<1>2. \A q \in Members(Data(n, at), p) : file_name(q) \in DOMAIN n[at[p]].children
  BY <1>1 DEF Shape
<1>3. \A name \in DOMAIN n[at[p]].children : \E q \in Members(Data(n, at), p) : file_name(q) = name
  BY <1>1 DEF Shape
<1> QED BY <1>2, <1>3

-----------------------------------------------------------------------------
(* What the operations on the arena do to the tree by path.                *)

\* m is the arena at, and f what each path has there.
Holds(m, at, f) == Shape(m, at) /\ Data(m, at) = f

\* m is n with a child more of parent.
Grows(m, n, parent, name, id, data) ==
    /\ AreNodes(m) /\ DOMAIN m = DOMAIN n \cup {id}
    /\ m[id].parent = parent /\ m[id].data = data /\ DOMAIN m[id].children = {}
    /\ \A i \in DOMAIN n : m[i].parent = n[i].parent /\ m[i].data = n[i].data
    /\ \A i \in DOMAIN n \ {parent} : m[i] = n[i]
    /\ DOMAIN m[parent].children = DOMAIN n[parent].children \cup {name}
    /\ m[parent].children[name] = id
    /\ \A other \in DOMAIN n[parent].children \ {name} :
          m[parent].children[other] = n[parent].children[other]

LEMMA WithChildIs ==
    ASSUME NEW n, AreNodes(n), NEW parent \in DOMAIN n, NEW name, NEW id \in Nat \ {NO_PARENT},
           id \notin DOMAIN n, NEW data
    PROVE  Grows(WithChild(n, parent, name, id, data), n, parent, name, id, data)
<1> DEFINE m == WithChild(n, parent, name, id, data)
           children == With(n[parent].children, name, id)
           linked == [n EXCEPT ![parent].children = children]
<1>1. m = [i \in {id} \cup DOMAIN n |-> IF i = id THEN NewNode(parent, data) ELSE linked[i]]
  BY DEF WithChild, With
<1> HIDE DEF m
<1>2. /\ children = [x \in {name} \cup DOMAIN n[parent].children |-> IF x = name THEN id ELSE n[parent].children[x]]
  BY DEF With
<1> HIDE DEF children
<1>3. /\ DOMAIN linked = DOMAIN n /\ DOMAIN linked[parent] = NodeFields
      /\ linked[parent].children = children /\ linked[parent].data = n[parent].data
      /\ linked[parent].parent = n[parent].parent
      /\ \A i \in DOMAIN n \ {parent} : linked[i] = n[i]
  BY DEF AreNodes, NodeFields
<1> HIDE DEF linked
<1>4. NewNode(parent, data).children = <<>> /\ DOMAIN NewNode(parent, data) = NodeFields
      /\ NewNode(parent, data).parent = parent /\ NewNode(parent, data).data = data
  BY DEF NewNode, NodeFields
<1>5. <<>> = [x \in {} |-> x] /\ DOMAIN <<>> = {}
  OBVIOUS
<1>6. DOMAIN m = DOMAIN n \cup {id} /\ m[id] = NewNode(parent, data) /\ \A i \in DOMAIN n : m[i] = linked[i]
  BY <1>1
<1>7. ASSUME NEW i \in DOMAIN m
      PROVE  /\ i \in Nat /\ i # NO_PARENT /\ DOMAIN m[i] = NodeFields
             /\ m[i].children = [x \in DOMAIN m[i].children |-> m[i].children[x]]
  <2>1. CASE i = id
    BY <1>4, <1>5, <1>6, <2>1
  <2>2. CASE i = parent
    BY <1>2, <1>3, <1>6, <2>2 DEF AreNodes
  <2>3. CASE i \in DOMAIN n /\ i # parent
    BY <1>3, <1>6, <2>3 DEF AreNodes
  <2> QED BY <1>6, <2>1, <2>2, <2>3
<1>8. AreNodes(m)
  BY <1>7 DEF AreNodes
<1>9. m[id].parent = parent /\ m[id].data = data /\ DOMAIN m[id].children = {}
  BY <1>4, <1>5, <1>6
<1>10. \A i \in DOMAIN n : m[i].parent = n[i].parent /\ m[i].data = n[i].data
  BY <1>3, <1>6
<1>11. \A i \in DOMAIN n \ {parent} : m[i] = n[i]
  BY <1>3, <1>6
<1>12. m[parent].children = children
  BY <1>3, <1>6
<1> QED BY <1>2, <1>6, <1>8, <1>9, <1>10, <1>11, <1>12 DEF m, Grows

\* add_child: a new path.
LEMMA AddShape ==
    ASSUME NEW n, NEW at, Shape(n, at), NEW p \in Paths \ {Root}, p \notin DOMAIN at,
           Parent(p) \in DOMAIN at, IsDirNode(n, at[Parent(p)]),
           NEW id \in Nat \ {NO_PARENT}, id \notin DOMAIN n, NEW data
    PROVE  Holds(WithChild(n, at[Parent(p)], file_name(p), id, data),
                 With(at, p, id), With(Data(n, at), p, data))
<1> DEFINE m == WithChild(n, at[Parent(p)], file_name(p), id, data)
           parent == at[Parent(p)]
           to == With(at, p, id)
<1>1. /\ AreNodes(m) /\ DOMAIN m = DOMAIN n \cup {id}
      /\ m[id].parent = parent /\ m[id].data = data /\ DOMAIN m[id].children = {}
      /\ \A i \in DOMAIN n : m[i].parent = n[i].parent /\ m[i].data = n[i].data
      /\ \A i \in DOMAIN n \ {parent} : m[i] = n[i]
      /\ DOMAIN m[parent].children = DOMAIN n[parent].children \cup {file_name(p)}
      /\ m[parent].children[file_name(p)] = id
      /\ \A other \in DOMAIN n[parent].children \ {file_name(p)} :
            m[parent].children[other] = n[parent].children[other]
      /\ parent \in DOMAIN n
  <2>1. AreNodes(n) /\ parent \in DOMAIN n /\ m = WithChild(n, parent, file_name(p), id, data)
    BY NodeOf DEF Shape
  <2> HIDE DEF parent, m
  <2>2. Grows(m, n, parent, file_name(p), id, data)
    BY <2>1, WithChildIs
  <2> QED BY <2>1, <2>2 DEF Grows
<1> HIDE DEF m
<1>2. /\ to = [q \in DOMAIN to |-> to[q]] /\ DOMAIN to = DOMAIN at \cup {p} /\ to[p] = id
      /\ \A q \in DOMAIN at : to[q] = at[q]
  BY DEF With
<1> HIDE DEF to
<1>3. \A q \in DOMAIN at : at[q] \in DOMAIN n /\ at[q] # id /\ q # p
  BY NodeOf
<1>4. DOMAIN to \subseteq Paths /\ Root \in DOMAIN to /\ to[Root] = ROOT_ID
  BY <1>2 DEF Shape
<1>5. m[ROOT_ID].parent = NO_PARENT /\ IsDirNode(m, ROOT_ID)
  BY <1>1, <1>3 DEF Shape, IsDirNode
<1>6. DOMAIN m = {to[q] : q \in DOMAIN to}
  <2>1. DOMAIN n = {at[q] : q \in DOMAIN at}
    BY DEF Shape
  <2> QED BY <1>1, <1>2, <2>1
<1>7. \A q, r \in DOMAIN to : to[q] = to[r] => q = r
  <2>1. \A q, r \in DOMAIN at : at[q] = at[r] => q = r
    BY DEF Shape
  <2> QED BY <1>2, <1>3, <2>1
<1>8. ASSUME NEW q \in DOMAIN to \ {Root}
      PROVE  /\ Parent(q) \in DOMAIN to /\ m[to[q]].parent = to[Parent(q)]
             /\ IsDirNode(m, to[Parent(q)])
             /\ file_name(q) \in DOMAIN m[to[Parent(q)]].children
             /\ m[to[Parent(q)]].children[file_name(q)] = to[q]
  <2>1. CASE q = p
    BY <1>1, <1>2, <2>1 DEF IsDirNode
  <2>2. CASE q # p
    <3>1. /\ q \in DOMAIN at /\ Parent(q) \in DOMAIN at /\ n[at[q]].parent = at[Parent(q)]
          /\ IsDirNode(n, at[Parent(q)])
          /\ file_name(q) \in DOMAIN n[at[Parent(q)]].children
          /\ n[at[Parent(q)]].children[file_name(q)] = at[q]
      BY <1>2, <2>2 DEF Shape
    <3>2. at[Parent(q)] = parent => file_name(q) # file_name(p)
      BY <1>3, <2>2, <3>1, NamesTell, NodeOf DEF Shape
    <3>3. m[at[q]].parent = at[Parent(q)] /\ IsDirNode(m, at[Parent(q)])
      BY <1>1, <1>3, <3>1 DEF IsDirNode
    <3>4. CASE at[Parent(q)] = parent
      <4> HIDE DEF parent
      <4> QED BY <1>1, <1>2, <3>1, <3>2, <3>3, <3>4
    <3>5. CASE at[Parent(q)] # parent
      <4>1. m[at[Parent(q)]] = n[at[Parent(q)]]
        BY <1>1, <1>3, <3>1, <3>5
      <4> QED BY <1>2, <3>1, <3>3, <4>1
    <3> QED BY <3>4, <3>5
  <2> QED BY <2>1, <2>2
<1>9. ASSUME NEW q \in DOMAIN to, NEW name \in DOMAIN m[to[q]].children
      PROVE  \E r \in DOMAIN to \ {Root} : Parent(r) = q /\ file_name(r) = name
  <2>1. CASE q = p
    BY <1>1, <1>2, <1>9, <2>1
  <2>2. CASE q # p /\ name \in DOMAIN n[at[q]].children
    <3>1. q \in DOMAIN at
      BY <1>2, <2>2
    <3>2. PICK r \in DOMAIN at \ {Root} : Parent(r) = q /\ file_name(r) = name
      BY <2>2, <3>1 DEF Shape
    <3> QED BY <1>2, <3>2
  <2>3. CASE q # p /\ name \notin DOMAIN n[at[q]].children
    <3>1. q \in DOMAIN at /\ to[q] = at[q] /\ at[q] \in DOMAIN n
      BY <1>2, <1>3, <2>3
    <3>2. at[q] = parent /\ name = file_name(p)
      BY <1>1, <1>9, <2>3, <3>1
    <3>3. q = Parent(p)
      BY <3>1, <3>2 DEF Shape
    <3> QED BY <1>2, <3>2, <3>3
  <2> QED BY <2>1, <2>2, <2>3
<1>10. Shape(m, to)
  BY <1>1, <1>2, <1>4, <1>5, <1>6, <1>7, <1>8, <1>9 DEF Shape
<1>11. Data(m, to) = With(Data(n, at), p, data)
  <2>1. \A q \in DOMAIN at : m[to[q]].data = n[at[q]].data
    BY <1>1, <1>2, <1>3
  <2>2. m[to[p]].data = data
    BY <1>1, <1>2
  <2> QED BY <1>2, <1>3, <2>1, <2>2 DEF Data, With
<1> QED BY <1>10, <1>11 DEF to, m, Holds

\* A file's bytes change.
LEMMA DataShape ==
    ASSUME NEW n, NEW at, Shape(n, at), NEW p \in DOMAIN at, ~IsDirNode(n, at[p]), NEW data, data # Dir
    PROVE  Holds([n EXCEPT ![at[p]].data = data], at, With(Data(n, at), p, data))
<1> DEFINE id == at[p]
           m == [n EXCEPT ![id].data = data]
<1>1. /\ id \in DOMAIN n /\ n[id].data # Dir /\ AreNodes(n)
      /\ \A q \in DOMAIN at : at[q] \in DOMAIN n /\ (at[q] = id => q = p)
  BY NodeOf DEF Shape, IsDirNode
<1> HIDE DEF id
<1>2. /\ DOMAIN m = DOMAIN n /\ m[id].data = data
      /\ \A i \in DOMAIN n : /\ DOMAIN m[i] = NodeFields
                             /\ m[i].parent = n[i].parent /\ m[i].children = n[i].children
                             /\ i # id => m[i] = n[i]
  BY <1>1 DEF AreNodes, NodeFields
<1> HIDE DEF m
<1>3. AreNodes(m)
  BY <1>1, <1>2 DEF AreNodes
<1>4. \A i \in DOMAIN n : IsDirNode(m, i) <=> IsDirNode(n, i)
  BY <1>1, <1>2 DEF IsDirNode
<1>5. \A q \in DOMAIN at \ {Root} : Parent(q) \in DOMAIN at
  BY DEF Shape
<1>6. /\ at = [q \in DOMAIN at |-> at[q]]
      /\ DOMAIN at \subseteq Paths /\ Root \in DOMAIN at
      /\ at[Root] = ROOT_ID /\ m[ROOT_ID].parent = NO_PARENT /\ IsDirNode(m, ROOT_ID)
      /\ DOMAIN m = {at[q] : q \in DOMAIN at}
      /\ \A q, r \in DOMAIN at : at[q] = at[r] => q = r
  BY <1>1, <1>2, <1>4 DEF Shape
<1>7. \A q \in DOMAIN at \ {Root} :
         /\ Parent(q) \in DOMAIN at /\ m[at[q]].parent = at[Parent(q)]
         /\ IsDirNode(m, at[Parent(q)])
         /\ file_name(q) \in DOMAIN m[at[Parent(q)]].children
         /\ m[at[Parent(q)]].children[file_name(q)] = at[q]
  BY <1>1, <1>2, <1>4, <1>5 DEF Shape
<1>8. \A q \in DOMAIN at : \A name \in DOMAIN m[at[q]].children :
         \E r \in DOMAIN at \ {Root} : Parent(r) = q /\ file_name(r) = name
  BY <1>1, <1>2 DEF Shape
<1>9. Shape(m, at)
  BY <1>3, <1>6, <1>7, <1>8 DEF Shape
<1>10. Data(m, at) = With(Data(n, at), p, data)
  <2>1. \A q \in DOMAIN at : m[at[q]].data = IF q = p THEN data ELSE n[at[q]].data
    BY <1>1, <1>2 DEF id
  <2> QED BY <2>1 DEF Data, With
<1> QED BY <1>9, <1>10 DEF m, id, Holds

\* Every link leads from the node of a path to that of a path below it.
LEMMA LinksAre ==
    ASSUME NEW n, NEW at, Shape(n, at), NEW p \in DOMAIN at, NEW name \in DOMAIN n[at[p]].children
    PROVE  \E q \in DOMAIN at \ {Root} :
              Parent(q) = p /\ file_name(q) = name /\ n[at[p]].children[name] = at[q]
  BY DEF Shape

\* The names under which node has children other than id.
Kept(n, node, id) == {name \in DOMAIN n[node].children : n[node].children[name] # id}

\* delete_node_from_parent takes the one link to a node away.
Unlinks(m, n, id) ==
    /\ AreNodes(m) /\ DOMAIN m = DOMAIN n
    /\ \A i \in DOMAIN n :
          /\ m[i].parent = n[i].parent /\ m[i].data = n[i].data
          /\ DOMAIN m[i].children = Kept(n, i, id)
          /\ \A name \in Kept(n, i, id) : m[i].children[name] = n[i].children[name]

LEMMA UnlinkedIs ==
    ASSUME NEW n, AreNodes(n), NEW id \in DOMAIN n, NEW parent \in DOMAIN n, n[id].parent = parent,
           \A i \in DOMAIN n \ {parent} : Kept(n, i, id) = DOMAIN n[i].children
    PROVE  Unlinks(Unlinked(n, id), n, id)
<1> DEFINE m == Unlinked(n, id)
           children == [name \in Kept(n, parent, id) |-> n[parent].children[name]]
<1>1. m = [n EXCEPT ![parent].children = children]
  BY DEF Unlinked, Kept
<1>2. DOMAIN children = Kept(n, parent, id) /\ children = [name \in DOMAIN children |-> children[name]]
      /\ \A name \in Kept(n, parent, id) : children[name] = n[parent].children[name]
  OBVIOUS
<1> HIDE DEF children, m
<1>3. /\ DOMAIN m = DOMAIN n /\ m[parent].children = children
      /\ \A i \in DOMAIN n : /\ DOMAIN m[i] = NodeFields
                             /\ m[i].parent = n[i].parent /\ m[i].data = n[i].data
                             /\ i # parent => m[i] = n[i]
  BY <1>1 DEF AreNodes, NodeFields
<1>4. ASSUME NEW i \in DOMAIN m
      PROVE  /\ i \in Nat /\ i # NO_PARENT /\ DOMAIN m[i] = NodeFields
             /\ m[i].children = [name \in DOMAIN m[i].children |-> m[i].children[name]]
  <2>1. CASE i = parent
    BY <1>2, <1>3, <2>1 DEF AreNodes
  <2>2. CASE i # parent
    BY <1>3, <2>2 DEF AreNodes
  <2> QED BY <2>1, <2>2
<1>5. ASSUME NEW i \in DOMAIN n
      PROVE  /\ DOMAIN m[i].children = Kept(n, i, id)
             /\ \A name \in Kept(n, i, id) : m[i].children[name] = n[i].children[name]
  <2>1. CASE i = parent
    BY <1>2, <1>3, <2>1
  <2>2. CASE i # parent
    BY <1>3, <2>2
  <2> QED BY <2>1, <2>2
<1>6. AreNodes(m)
  BY <1>4 DEF AreNodes
<1> QED BY <1>3, <1>5, <1>6 DEF m, Unlinks

\* The node at p has its link from the node above it, and no other.
LEMMA OneLink ==
    ASSUME NEW n, NEW at, Shape(n, at), NEW p \in DOMAIN at \ {Root}
    PROVE  /\ AreNodes(n) /\ at[p] \in DOMAIN n /\ at[Parent(p)] \in DOMAIN n
           /\ n[at[p]].parent = at[Parent(p)]
           /\ \A i \in DOMAIN n \ {at[Parent(p)]} : Kept(n, i, at[p]) = DOMAIN n[i].children
           /\ Kept(n, at[Parent(p)], at[p]) = DOMAIN n[at[Parent(p)]].children \ {file_name(p)}
<1>1. /\ AreNodes(n) /\ at[p] \in DOMAIN n /\ Parent(p) \in DOMAIN at /\ at[Parent(p)] \in DOMAIN n
      /\ n[at[p]].parent = at[Parent(p)]
      /\ n[at[Parent(p)]].children[file_name(p)] = at[p]
  BY DEF Shape
<1>2. ASSUME NEW q \in DOMAIN at, NEW name \in DOMAIN n[at[q]].children, n[at[q]].children[name] = at[p]
      PROVE  q = Parent(p) /\ name = file_name(p)
  <2>1. PICK r \in DOMAIN at \ {Root} : Parent(r) = q /\ file_name(r) = name /\ n[at[q]].children[name] = at[r]
    BY LinksAre
  <2> QED BY <1>2, <2>1 DEF Shape
<1>3. \A i \in DOMAIN n : \E q \in DOMAIN at : at[q] = i
  BY DEF Shape
<1> QED BY <1>1, <1>2, <1>3 DEF Kept

\* delete_node: what has no members goes.
LEMMA RemoveShape ==
    ASSUME NEW n, NEW at, Shape(n, at), NEW p \in DOMAIN at \ {Root},
           DOMAIN n[at[p]].children = {}
    PROVE  Holds(Dropped(Unlinked(n, at[p]), {at[p]}), Without(at, p), Without(Data(n, at), p))
<1> DEFINE id == at[p]
           u == Unlinked(n, id)
           m == Dropped(u, {id})
           to == Without(at, p)
<1>1. /\ AreNodes(n) /\ id \in DOMAIN n /\ at[Parent(p)] \in DOMAIN n
      /\ n[id].parent = at[Parent(p)]
      /\ \A i \in DOMAIN n \ {at[Parent(p)]} : Kept(n, i, id) = DOMAIN n[i].children
  BY OneLink
<1>2. /\ AreNodes(u) /\ DOMAIN u = DOMAIN n
      /\ \A i \in DOMAIN n :
            /\ u[i].parent = n[i].parent /\ u[i].data = n[i].data
            /\ DOMAIN u[i].children = Kept(n, i, id)
            /\ \A name \in Kept(n, i, id) : u[i].children[name] = n[i].children[name]
  <2> HIDE DEF id
  <2>1. Unlinks(u, n, id)
    BY <1>1, UnlinkedIs
  <2> HIDE DEF u
  <2> QED BY <2>1 DEF Unlinks
<1>3. /\ DOMAIN m = DOMAIN n \ {id} /\ \A i \in DOMAIN m : m[i] = u[i]
  BY <1>2 DEF Dropped
<1>4. /\ to = [q \in DOMAIN to |-> to[q]] /\ DOMAIN to = DOMAIN at \ {p}
      /\ \A q \in DOMAIN to : to[q] = at[q]
  BY DEF Without
<1> HIDE DEF u, to, m
<1>5. \A q \in DOMAIN at : at[q] \in DOMAIN n /\ (at[q] = id => q = p)
  BY NodeOf DEF Shape
<1>6. AreNodes(m)
  BY <1>2, <1>3 DEF AreNodes
<1>7. /\ DOMAIN to \subseteq Paths /\ Root \in DOMAIN to /\ to[Root] = ROOT_ID
      /\ m[ROOT_ID].parent = NO_PARENT /\ IsDirNode(m, ROOT_ID)
  BY <1>2, <1>3, <1>4, <1>5 DEF Shape, IsDirNode
<1>8. DOMAIN m = {to[q] : q \in DOMAIN to}
  <2>1. DOMAIN n = {at[q] : q \in DOMAIN at}
    BY DEF Shape
  <2> QED BY <1>3, <1>4, <1>5, <2>1
<1>9. \A q, r \in DOMAIN to : to[q] = to[r] => q = r
  BY <1>4 DEF Shape
<1>10. \A q \in DOMAIN at \ {Root} : Parent(q) # p
  <2> SUFFICES ASSUME NEW q \in DOMAIN at \ {Root}, Parent(q) = p PROVE FALSE
    OBVIOUS
  <2> QED BY DEF Shape
<1>11. ASSUME NEW q \in DOMAIN to \ {Root}
      PROVE  /\ Parent(q) \in DOMAIN to /\ m[to[q]].parent = to[Parent(q)]
             /\ IsDirNode(m, to[Parent(q)])
             /\ file_name(q) \in DOMAIN m[to[Parent(q)]].children
             /\ m[to[Parent(q)]].children[file_name(q)] = to[q]
  <2>1. /\ q \in DOMAIN at /\ Parent(q) \in DOMAIN at /\ n[at[q]].parent = at[Parent(q)]
        /\ IsDirNode(n, at[Parent(q)])
        /\ file_name(q) \in DOMAIN n[at[Parent(q)]].children
        /\ n[at[Parent(q)]].children[file_name(q)] = at[q]
    BY <1>4 DEF Shape
  <2>2. q # p /\ Parent(q) # p /\ Parent(q) \in DOMAIN to /\ at[q] # id /\ at[Parent(q)] # id
        /\ at[q] \in DOMAIN m /\ at[Parent(q)] \in DOMAIN m
    BY <1>3, <1>4, <1>5, <1>10, <2>1
  <2>3. file_name(q) \in Kept(n, at[Parent(q)], id)
    BY <2>1, <2>2 DEF Kept
  <2>4. m[at[q]] = u[at[q]] /\ m[at[Parent(q)]] = u[at[Parent(q)]]
        /\ at[q] \in DOMAIN n /\ at[Parent(q)] \in DOMAIN n
    BY <1>3, <1>5, <2>1, <2>2
  <2> QED BY <1>2, <1>4, <2>1, <2>2, <2>3, <2>4 DEF IsDirNode
<1>12. ASSUME NEW q \in DOMAIN to, NEW name \in DOMAIN m[to[q]].children
       PROVE  \E r \in DOMAIN to \ {Root} : Parent(r) = q /\ file_name(r) = name
  <2>1. q \in DOMAIN at /\ to[q] = at[q] /\ at[q] \in DOMAIN m /\ at[q] \in DOMAIN n
    BY <1>3, <1>4, <1>5
  <2>2. name \in Kept(n, at[q], id)
    BY <1>2, <1>3, <1>12, <2>1
  <2>3. PICK r \in DOMAIN at \ {Root} : Parent(r) = q /\ file_name(r) = name /\ n[at[q]].children[name] = at[r]
    BY <2>1, <2>2, LinksAre DEF Kept
  <2>4. r # p
    BY <2>2, <2>3 DEF Kept, id
  <2> QED BY <1>4, <2>3, <2>4
<1>13. Shape(m, to)
  BY <1>4, <1>6, <1>7, <1>8, <1>9, <1>11, <1>12 DEF Shape
<1>14. Data(m, to) = Without(Data(n, at), p)
  <2>1. \A q \in DOMAIN to : m[to[q]].data = n[at[q]].data
    BY <1>2, <1>3, <1>4, <1>5
  <2> QED BY <1>4, <2>1 DEF Data, Without
<1> QED BY <1>13, <1>14 DEF to, m, u, Holds

\* A path below from moves with its parent, and keeps its name.
LEMMA RebaseParent ==
    ASSUME NEW from \in Paths, NEW to \in Paths \ {Root}, NEW q \in Paths, Above(from, q),
           Rebase(q, from, to) \in Paths
    PROVE  /\ Rebase(q, from, to) # Root /\ (q = from => Rebase(q, from, to) = to)
           /\ q # from => /\ q # Root /\ Above(from, Parent(q))
                          /\ Parent(Rebase(q, from, to)) = Rebase(Parent(q), from, to)
                          /\ file_name(Rebase(q, from, to)) = file_name(q)
<1> DEFINE r == Rebase(q, from, to)
<1>1. /\ from \in Seq(Names) /\ to \in Seq(Names) /\ q \in Seq(Names)
      /\ Len(from) \in Nat /\ Len(to) \in Nat \ {0} /\ Len(q) \in Nat /\ Len(from) <= Len(q)
  BY PathsAreSequences DEF Above, Root
<1>2. /\ r \in Seq(Names) /\ Len(r) = Len(to) + (Len(q) - Len(from))
      /\ \A i \in 1..Len(to) : r[i] = to[i]
      /\ \A i \in Len(to) + 1..Len(r) : r[i] = q[i - Len(to) + Len(from)]
  BY RebaseEntries
<1> HIDE DEF r
<1>3. r # Root
  BY <1>1, <1>2 DEF Root
<1>4. q = from => r = to
  BY <1>1, <1>2
<1>5. ASSUME q # from
      PROVE  /\ q # Root /\ Above(from, Parent(q))
             /\ Parent(r) = Rebase(Parent(q), from, to) /\ file_name(r) = file_name(q)
  <2> DEFINE s == Rebase(Parent(q), from, to)
  <2>1. q # Root
    BY <1>5, NothingAboveRoot
  <2>2. Parent(q) \in Paths /\ Above(from, Parent(q)) /\ Len(Parent(q)) = Len(q) - 1 /\ q = Append(Parent(q), file_name(q))
    BY <1>5, <2>1, ParentAbove, NameOfPath
  <2>14. /\ s \in Seq(Names) /\ Len(s) = Len(to) + (Len(Parent(q)) - Len(from))
         /\ \A i \in 1..Len(to) : s[i] = to[i]
         /\ \A i \in Len(to) + 1..Len(s) : s[i] = Parent(q)[i - Len(to) + Len(from)]
    BY <2>2, RebaseEntries
  <2> HIDE DEF s
  <2>3. /\ s \in Seq(Names) /\ Len(s) = Len(to) + (Len(q) - 1 - Len(from))
        /\ \A i \in 1..Len(to) : s[i] = to[i]
        /\ \A i \in Len(to) + 1..Len(s) : s[i] = Parent(q)[i - Len(to) + Len(from)]
    BY <2>2, <2>14
  <2>4. r \in Paths \ {Root}
    BY <1>3 DEF r
  <2>5. Parent(r) \in Seq(Names) /\ Len(Parent(r)) = Len(r) - 1 /\ \A i \in 1..Len(r) - 1 : Parent(r)[i] = r[i]
    BY <2>4, NameOfPath, PathsAreSequences
  <2>6. Len(from) <= Len(q) - 1 /\ Parent(q) \in Seq(Names)
    BY <2>2, PathsAreSequences DEF Above
  <2>7. \A i \in 1..Len(q) - 1 : Parent(q)[i] = q[i]
    BY <1>1, <2>2, <2>6
  <2>9. Len(s) = Len(Parent(r))
    BY <1>1, <1>2, <2>3, <2>5
  <2>10. ASSUME NEW i \in 1..Len(s) PROVE s[i] = Parent(r)[i]
    <3>1. i \in Nat /\ i \in 1..Len(r) - 1 /\ Parent(r)[i] = r[i]
      BY <1>1, <1>2, <2>3, <2>5
    <3>2. CASE i <= Len(to)
      BY <1>1, <1>2, <2>3, <3>1, <3>2
    <3>3. CASE i > Len(to)
      <4>1. i \in Len(to) + 1..Len(s) /\ i \in Len(to) + 1..Len(r) /\ i - Len(to) + Len(from) \in 1..Len(q) - 1
        BY <1>1, <1>2, <2>3, <3>1, <3>3
      <4> QED BY <1>2, <2>3, <2>7, <3>1, <4>1
    <3> QED BY <1>1, <3>1, <3>2, <3>3
  <2>11. Parent(r) = s
    BY <2>3, <2>5, <2>9, <2>10, SameEntries
  <2>12. file_name(r) = r[Len(r)] /\ file_name(q) = q[Len(q)]
    BY <1>3, <2>1 DEF file_name
  <2>13. Len(r) \in Len(to) + 1..Len(r) /\ Len(r) - Len(to) + Len(from) = Len(q)
    BY <1>1, <1>2, <2>6
  <2> QED BY <1>2, <2>1, <2>2, <2>11, <2>12, <2>13 DEF s
<1> QED BY <1>3, <1>4, <1>5 DEF r

\* Where a rename takes what is at r.
Dest(r, from, to) == IF Above(from, r) THEN Rebase(r, from, to) ELSE r

\* A rename that the server allows: to is free or a file, in a collection
\* that does not move, and all that moves fits.
Movable(n, at, from, to) ==
    /\ from \in DOMAIN at \ {Root} /\ to \in Paths \ {Root}
    /\ ~Above(from, to)
    /\ Parent(to) \in DOMAIN at /\ IsDirNode(n, at[Parent(to)])
    /\ to \in DOMAIN at => ~IsDirNode(n, at[to])
    /\ \A q \in DOMAIN at : Above(from, q) => Rebase(q, from, to) \in Paths

\* new is f after the rename: what was at r is where r goes.
Carries(new, f, from, to) ==
    /\ new = [q \in DOMAIN new |-> new[q]]
    /\ DOMAIN new = {Dest(r, from, to) : r \in DOMAIN f \ {to}}
    /\ \A r \in DOMAIN f \ {to} : new[Dest(r, from, to)] = f[r]

\* The rename keeps what is below a path below it, under its name.
KeepsOrder(at, from, to) ==
    /\ \A r \in DOMAIN at \ {to} : Dest(r, from, to) \in Paths
    /\ Dest(Root, from, to) = Root /\ Dest(from, from, to) = to
    /\ Dest(Parent(to), from, to) = Parent(to)
    /\ \A r \in DOMAIN at \ {to, from, Root} :
          /\ Dest(r, from, to) # Root
          /\ Parent(r) \in DOMAIN at \ {to}
          /\ Parent(Dest(r, from, to)) = Dest(Parent(r), from, to)
          /\ file_name(Dest(r, from, to)) = file_name(r)

\* The rename takes each path but the one it replaces to a place of its own,
\* below that of the path above.
LEMMA DestIs ==
    ASSUME NEW n, NEW at, Shape(n, at), NEW from, NEW to, Movable(n, at, from, to),
           NEW f, DOMAIN f = DOMAIN at
    PROVE  Carries(Moved(f, from, to), f, from, to) /\ KeepsOrder(at, from, to)
<1> DEFINE new == Moved(f, from, to)
           moving == DOMAIN at \cap Subtree(from)
           D(r) == Dest(r, from, to)
<1>1. /\ from \in Paths \ {Root} /\ to \in Paths \ {Root} /\ from \in DOMAIN at /\ ~Above(from, to)
      /\ DOMAIN at \subseteq Paths /\ Root \in DOMAIN at /\ Root \in Paths /\ from # to
  BY PathsAssumption, AboveReflexive DEF Movable, Shape
<1>2. \A q \in DOMAIN at : Above(to, q) => q = to
  BY <1>1, WayIsThere DEF Movable
<1>3. moving = {r \in DOMAIN at : Above(from, r)} /\ to \notin moving
  BY <1>1 DEF Subtree
<1>4. /\ new = [q \in DOMAIN new |-> new[q]]
      /\ DOMAIN new = (DOMAIN at \ (moving \cup {to})) \cup {Rebase(r, from, to) : r \in moving}
      /\ \A q \in DOMAIN new : new[q] = IF Above(to, q) THEN f[Rebase(q, to, from)] ELSE f[q]
  BY DEF Moved
<1> HIDE DEF new
<1>5. \A r \in moving : D(r) = Rebase(r, from, to) /\ Rebase(r, from, to) \in Paths /\ r \in Paths
  BY <1>1, <1>3 DEF Movable, Dest
<1>6. \A r \in DOMAIN at \ (moving \cup {to}) : D(r) = r
  BY <1>3 DEF Dest
<1> HIDE DEF D
<1>7. DOMAIN new \subseteq Paths
  BY <1>1, <1>4, <1>5
<1>8. DOMAIN new = {D(r) : r \in DOMAIN at \ {to}}
  <2> HIDE DEF moving
  <2> QED BY <1>3, <1>4, <1>5, <1>6
<1>9. ASSUME NEW r \in DOMAIN at \ {to} PROVE new[D(r)] = f[r]
  <2>1. D(r) \in DOMAIN new
    BY <1>8
  <2>2. CASE r \in moving
    <3>1. Above(to, D(r)) /\ Rebase(D(r), to, from) = r
      BY <1>1, <1>3, <1>5, <2>2, RebaseBack
    <3> QED BY <1>4, <2>1, <3>1
  <2>3. CASE r \notin moving
    BY <1>2, <1>4, <1>6, <2>1, <2>3
  <2> QED BY <2>2, <2>3
<1>10. D(Root) = Root
  BY <1>1, NothingAboveRoot DEF D, Dest
<1>11. D(from) = to
  BY <1>1, <1>3, <1>5, AboveReflexive, RebaseParent
<1>12. D(Parent(to)) = Parent(to)
  <2>1. Parent(to) \in Paths /\ Above(Parent(to), to)
    BY <1>1, ParentAbove
  <2>2. ~Above(from, Parent(to))
    BY <1>1, <2>1, AboveTransitive
  <2> QED BY <2>2 DEF D, Dest
<1>13. ASSUME NEW r \in DOMAIN at \ {to, from, Root}
       PROVE  /\ D(r) # Root /\ Parent(r) \in DOMAIN at \ {to}
              /\ Parent(D(r)) = D(Parent(r)) /\ file_name(D(r)) = file_name(r)
  <2>1. Parent(r) \in DOMAIN at \ {to}
    <3>1. Parent(r) \in DOMAIN at /\ IsDirNode(n, at[Parent(r)])
      BY DEF Shape
    <3> QED BY <3>1 DEF Movable
  <2>2. r \in Paths \ {Root} /\ Parent(r) \in Paths /\ Above(Parent(r), r)
    BY <1>1, ParentAbove
  <2>3. CASE Above(from, r)
    <3>1. r \in moving /\ D(r) = Rebase(r, from, to) /\ Rebase(r, from, to) \in Paths
      BY <1>3, <1>5, <2>3
    <3>2. /\ D(r) # Root /\ Above(from, Parent(r)) /\ Parent(D(r)) = Rebase(Parent(r), from, to)
          /\ file_name(D(r)) = file_name(r)
      BY <1>1, <2>2, <2>3, <3>1, RebaseParent
    <3>3. D(Parent(r)) = Rebase(Parent(r), from, to)
      BY <3>2 DEF D, Dest
    <3> QED BY <2>1, <3>2, <3>3
  <2>4. CASE ~Above(from, r)
    <3>1. ~Above(from, Parent(r))
      BY <1>1, <2>2, <2>4, AboveTransitive
    <3> QED BY <2>1, <2>2, <2>4, <3>1 DEF D, Dest
  <2> QED BY <2>3, <2>4
<1>14. Carries(new, f, from, to)
  BY <1>4, <1>8, <1>9 DEF D, Carries
<1>15. KeepsOrder(at, from, to)
  BY <1>7, <1>8, <1>10, <1>11, <1>12, <1>13 DEF D, KeepsOrder
<1> QED BY <1>14, <1>15 DEF new

\* What the name leads to in the new parent of a node.
Replaced(n, parent, name) ==
    IF name \in DOMAIN n[parent].children THEN {n[parent].children[name]} ELSE {}

\* m is n with the node id under name in parent, and nowhere else.
MovesNode(m, n, id, parent, name) ==
    /\ AreNodes(m) /\ DOMAIN m = DOMAIN n \ Replaced(n, parent, name)
    /\ m[id].parent = parent /\ \A i \in DOMAIN m \ {id} : m[i].parent = n[i].parent
    /\ \A i \in DOMAIN m :
          /\ m[i].data = n[i].data
          /\ DOMAIN m[i].children = Kept(n, i, id) \cup (IF i = parent THEN {name} ELSE {})
          /\ \A x \in DOMAIN m[i].children :
                m[i].children[x] = IF i = parent /\ x = name THEN id ELSE n[i].children[x]

LEMMA MovedNodeIs ==
    ASSUME NEW n, AreNodes(n), NEW id \in DOMAIN n, NEW old \in DOMAIN n, n[id].parent = old,
           \A i \in DOMAIN n \ {old} : Kept(n, i, id) = DOMAIN n[i].children,
           NEW parent \in DOMAIN n, NEW name, id # parent,
           id \notin Replaced(n, parent, name), parent \notin Replaced(n, parent, name)
    PROVE  MovesNode(MovedNode(n, id, parent, name), n, id, parent, name)
<1> DEFINE m == MovedNode(n, id, parent, name)
           u == Unlinked(n, id)
           moved == [u EXCEPT ![id].parent = parent]
           d == Dropped(moved, Replaced(n, parent, name))
           children == With(d[parent].children, name, id)
<1>1. m = [d EXCEPT ![parent].children = children]
  BY DEF MovedNode, Replaced
<1>2. /\ AreNodes(u) /\ DOMAIN u = DOMAIN n
      /\ \A i \in DOMAIN n :
            /\ u[i].parent = n[i].parent /\ u[i].data = n[i].data
            /\ DOMAIN u[i].children = Kept(n, i, id)
            /\ \A x \in Kept(n, i, id) : u[i].children[x] = n[i].children[x]
  <2>1. Unlinks(u, n, id)
    BY UnlinkedIs
  <2> HIDE DEF u
  <2> QED BY <2>1 DEF Unlinks
<1> HIDE DEF u, m
<1>3. /\ DOMAIN moved = DOMAIN n /\ moved[id].parent = parent
      /\ \A i \in DOMAIN n : /\ DOMAIN moved[i] = NodeFields
                             /\ moved[i].data = u[i].data /\ moved[i].children = u[i].children
                             /\ i # id => moved[i].parent = u[i].parent
  BY <1>2 DEF AreNodes, NodeFields
<1> HIDE DEF moved
<1>4. DOMAIN d = DOMAIN n \ Replaced(n, parent, name) /\ \A i \in DOMAIN d : d[i] = moved[i]
  BY <1>3 DEF Dropped
<1>5. parent \in DOMAIN d /\ id \in DOMAIN d
  BY <1>4
<1> HIDE DEF d
<1>6. /\ children = [x \in DOMAIN children |-> children[x]]
      /\ DOMAIN children = DOMAIN d[parent].children \cup {name}
      /\ \A x \in DOMAIN children : children[x] = IF x = name THEN id ELSE d[parent].children[x]
  BY DEF With
<1> HIDE DEF children
<1>7. \A i \in DOMAIN d : DOMAIN d[i] = NodeFields
  BY <1>3, <1>4
<1>8. /\ DOMAIN m = DOMAIN d /\ m[parent].children = children
      /\ \A i \in DOMAIN d : /\ DOMAIN m[i] = NodeFields
                             /\ m[i].parent = d[i].parent /\ m[i].data = d[i].data
                             /\ i # parent => m[i] = d[i]
  BY <1>1, <1>5, <1>7 DEF NodeFields
<1>9. ASSUME NEW i \in DOMAIN m
      PROVE  /\ m[i].data = n[i].data
             /\ DOMAIN m[i].children = Kept(n, i, id) \cup (IF i = parent THEN {name} ELSE {})
             /\ \A x \in DOMAIN m[i].children :
                   m[i].children[x] = IF i = parent /\ x = name THEN id ELSE n[i].children[x]
  <2>1. i \in DOMAIN n /\ i \in DOMAIN d /\ d[i].children = u[i].children /\ m[i].data = n[i].data
    BY <1>2, <1>3, <1>4, <1>8
  <2>2. CASE i = parent
    BY <1>2, <1>6, <1>8, <2>1, <2>2
  <2>3. CASE i # parent
    BY <1>2, <1>8, <2>1, <2>3
  <2> QED BY <2>1, <2>2, <2>3
<1>10. ASSUME NEW i \in DOMAIN m
       PROVE  /\ i \in Nat /\ i # NO_PARENT /\ DOMAIN m[i] = NodeFields
              /\ m[i].children = [x \in DOMAIN m[i].children |-> m[i].children[x]]
  <2>1. i \in DOMAIN u /\ i \in DOMAIN d /\ d[i].children = u[i].children
    BY <1>2, <1>3, <1>4, <1>8
  <2>2. CASE i = parent
    BY <1>2, <1>6, <1>8, <2>1, <2>2 DEF AreNodes
  <2>3. CASE i # parent
    BY <1>2, <1>8, <2>1, <2>3 DEF AreNodes
  <2> QED BY <2>2, <2>3
<1>11. AreNodes(m)
  BY <1>10 DEF AreNodes
<1>12. m[id].parent = parent /\ \A i \in DOMAIN m \ {id} : m[i].parent = n[i].parent
  BY <1>2, <1>3, <1>4, <1>5, <1>8
<1>13. DOMAIN m = DOMAIN n \ Replaced(n, parent, name)
  BY <1>4, <1>8
<1> QED BY <1>9, <1>11, <1>12, <1>13 DEF m, MovesNode

\* What a rename replaces is the file at to, if there is one.
LEMMA ReplacedIs ==
    ASSUME NEW n, NEW at, Shape(n, at), NEW to \in Paths \ {Root}, Parent(to) \in DOMAIN at
    PROVE  Replaced(n, at[Parent(to)], file_name(to)) = IF to \in DOMAIN at THEN {at[to]} ELSE {}
<1>1. Link(n, Id(at, Parent(to)), file_name(to)) = Id(at, to)
  BY LinkIs
<1>2. at[Parent(to)] \in DOMAIN n /\ (to \in DOMAIN at => at[to] # NO_PARENT)
  BY NodeOf
<1>3. to \in DOMAIN at => file_name(to) \in DOMAIN n[at[Parent(to)]].children
  BY DEF Shape
<1>4. file_name(to) \in DOMAIN n[at[Parent(to)]].children => to \in DOMAIN at
  <2> SUFFICES ASSUME file_name(to) \in DOMAIN n[at[Parent(to)]].children PROVE to \in DOMAIN at
    OBVIOUS
  <2>1. PICK q \in DOMAIN at \ {Root} : Parent(q) = Parent(to) /\ file_name(q) = file_name(to)
    BY DEF Shape
  <2>2. q \in Paths \ {Root}
    BY DEF Shape
  <2> QED BY <2>1, <2>2, NamesTell
<1> QED BY <1>1, <1>2, <1>3, <1>4 DEF Link, Id, Replaced

\* move_node: each node keeps its id at its new place.
LEMMA MoveShape ==
    ASSUME NEW n, NEW at, Shape(n, at), NEW from, NEW to, Movable(n, at, from, to)
    PROVE  Holds(MovedNode(n, at[from], at[Parent(to)], file_name(to)),
                 Moved(at, from, to), Moved(Data(n, at), from, to))
<1> DEFINE m == MovedNode(n, at[from], at[Parent(to)], file_name(to))
           id == at[from]
           parent == at[Parent(to)]
           name == file_name(to)
           new == Moved(at, from, to)
           D(r) == Dest(r, from, to)
           stay == DOMAIN at \ {to}
           f == Data(n, at)
           g == Moved(f, from, to)
<1>1. /\ from \in DOMAIN at \ {Root} /\ to \in Paths \ {Root} /\ ~Above(from, to)
      /\ Parent(to) \in DOMAIN at /\ IsDirNode(n, parent)
      /\ to \in DOMAIN at => ~IsDirNode(n, at[to])
  BY DEF Movable
<1>2. from # to /\ from # Parent(to)
  BY <1>1, AboveReflexive, ParentAbove
<1>3. /\ new = [q \in DOMAIN new |-> new[q]]
      /\ DOMAIN new \subseteq Paths
      /\ DOMAIN new = {D(r) : r \in stay}
      /\ \A r \in stay : new[D(r)] = at[r]
      /\ D(Root) = Root /\ D(from) = to
      /\ D(Parent(to)) = Parent(to)
      /\ \A r \in stay \ {from, Root} :
            /\ D(r) # Root /\ Parent(r) \in stay
            /\ Parent(D(r)) = D(Parent(r))
            /\ file_name(D(r)) = file_name(r)
  <2>1. Carries(new, at, from, to) /\ KeepsOrder(at, from, to)
    BY DestIs
  <2> HIDE DEF new
  <2> QED BY <2>1 DEF Carries, KeepsOrder
<1>0. /\ g = [q \in DOMAIN g |-> g[q]] /\ DOMAIN g = {D(r) : r \in stay}
      /\ \A r \in stay : g[D(r)] = f[r]
  <2>1. DOMAIN f = DOMAIN at
    BY DEF Data
  <2> HIDE DEF f
  <2>2. Carries(g, f, from, to)
    BY <2>1, DestIs
  <2> HIDE DEF g
  <2> QED BY <2>1, <2>2 DEF Carries
<1> HIDE DEF f, g
<1>4. /\ AreNodes(n) /\ id \in DOMAIN n /\ at[Parent(from)] \in DOMAIN n
      /\ n[id].parent = at[Parent(from)]
      /\ \A i \in DOMAIN n \ {at[Parent(from)]} : Kept(n, i, id) = DOMAIN n[i].children
  BY <1>1, OneLink
<1>5. \A q, r \in DOMAIN at : at[q] = at[r] => q = r
  BY DEF Shape
<1>6. /\ parent \in DOMAIN n /\ id # parent /\ Parent(to) # to
      /\ Replaced(n, parent, name) = IF to \in DOMAIN at THEN {at[to]} ELSE {}
  BY <1>1, <1>2, <1>5, ParentAbove, NodeOf, ReplacedIs
<1>7. id \notin Replaced(n, parent, name) /\ parent \notin Replaced(n, parent, name)
  BY <1>1, <1>2, <1>5, <1>6
<1>8. /\ AreNodes(m) /\ DOMAIN m = DOMAIN n \ Replaced(n, parent, name)
      /\ m[id].parent = parent /\ \A i \in DOMAIN m \ {id} : m[i].parent = n[i].parent
      /\ \A i \in DOMAIN m :
            /\ m[i].data = n[i].data
            /\ DOMAIN m[i].children = Kept(n, i, id) \cup (IF i = parent THEN {name} ELSE {})
            /\ \A x \in DOMAIN m[i].children :
                  m[i].children[x] = IF i = parent /\ x = name THEN id ELSE n[i].children[x]
  <2>1. m = MovedNode(n, id, parent, name)
    OBVIOUS
  <2> HIDE DEF id, parent, name, m
  <2>2. MovesNode(m, n, id, parent, name)
    BY <1>4, <1>6, <1>7, <2>1, MovedNodeIs
  <2> QED BY <2>2 DEF MovesNode
<1> HIDE DEF new, D, stay, m
<1>9. DOMAIN m = {at[r] : r \in stay}
  <2>1. DOMAIN n = {at[q] : q \in DOMAIN at}
    BY DEF Shape
  <2>2. CASE to \in DOMAIN at
    BY <1>5, <1>6, <1>8, <2>1, <2>2 DEF stay
  <2>3. CASE to \notin DOMAIN at
    BY <1>6, <1>8, <2>1, <2>3 DEF stay
  <2> QED BY <2>2, <2>3
<1>10. /\ Root \in stay /\ from \in stay /\ Parent(to) \in stay /\ stay \subseteq DOMAIN at
  BY <1>1, <1>2, <1>6 DEF stay, Shape
<1>11. \A r \in stay : at[r] \in DOMAIN m /\ m[at[r]].data = n[at[r]].data
  BY <1>8, <1>9
<1>12. DOMAIN m = {new[q] : q \in DOMAIN new}
  BY <1>3, <1>9
<1>13. /\ Root \in DOMAIN new /\ new[Root] = ROOT_ID
       /\ m[ROOT_ID].parent = NO_PARENT /\ IsDirNode(m, ROOT_ID)
  <2>1. at[Root] = ROOT_ID /\ n[ROOT_ID].parent = NO_PARENT /\ IsDirNode(n, ROOT_ID)
    BY DEF Shape
  <2>2. ROOT_ID \in DOMAIN m /\ ROOT_ID # id
    BY <1>1, <1>5, <1>9, <1>10, <2>1
  <2> QED BY <1>3, <1>8, <1>10, <2>1, <2>2 DEF IsDirNode
<1>14. \A q, r \in DOMAIN new : new[q] = new[r] => q = r
  <2> SUFFICES ASSUME NEW q \in stay, NEW r \in stay, new[D(q)] = new[D(r)] PROVE D(q) = D(r)
    BY <1>3
  <2>1. at[q] = at[r]
    BY <1>3
  <2> QED BY <1>5, <1>10, <2>1
<1>15. ASSUME NEW q \in DOMAIN new \ {Root}
       PROVE  /\ Parent(q) \in DOMAIN new /\ m[new[q]].parent = new[Parent(q)]
              /\ IsDirNode(m, new[Parent(q)])
              /\ file_name(q) \in DOMAIN m[new[Parent(q)]].children
              /\ m[new[Parent(q)]].children[file_name(q)] = new[q]
  <2>1. PICK r \in stay : q = D(r)
    BY <1>3
  <2>2. CASE r = from
    <3>1. q = to /\ new[q] = id /\ Parent(q) \in DOMAIN new /\ new[Parent(q)] = parent
      BY <1>3, <1>10, <2>1, <2>2
    <3>2. parent \in DOMAIN m /\ IsDirNode(m, parent)
      BY <1>1, <1>10, <1>11 DEF IsDirNode
    <3>3. name \in DOMAIN m[parent].children /\ m[parent].children[name] = id
      BY <1>8, <3>2
    <3> QED BY <1>8, <3>1, <3>2, <3>3
  <2>3. CASE r # from
    <3>1. r # Root /\ r \in DOMAIN at
      BY <1>3, <1>10, <1>15, <2>1
    <3>2. Parent(r) \in stay /\ Parent(q) = D(Parent(r)) /\ file_name(q) = file_name(r)
      BY <1>3, <2>1, <2>3, <3>1
    <3>3. /\ Parent(q) \in DOMAIN new /\ new[q] = at[r] /\ new[Parent(q)] = at[Parent(r)]
      BY <1>3, <2>1, <3>2
    <3>4. /\ n[at[r]].parent = at[Parent(r)] /\ IsDirNode(n, at[Parent(r)])
          /\ file_name(r) \in DOMAIN n[at[Parent(r)]].children
          /\ n[at[Parent(r)]].children[file_name(r)] = at[r]
      BY <3>1 DEF Shape
    <3>5. at[r] # id
      BY <1>1, <1>5, <2>3, <3>1
    <3>6. file_name(r) \in Kept(n, at[Parent(r)], id)
      BY <3>4, <3>5 DEF Kept
    <3>7. ~(at[Parent(r)] = parent /\ file_name(r) = name)
      <4> SUFFICES ASSUME at[Parent(r)] = parent, file_name(r) = name PROVE FALSE
        OBVIOUS
      <4>1. Parent(r) = Parent(to)
        BY <1>1, <1>5, <1>10, <3>2
      <4>2. r \in Paths \ {Root}
        BY <3>1 DEF Shape
      <4>3. r = to
        BY <1>1, <4>1, <4>2, NamesTell
      <4> QED BY <2>1, <4>3 DEF stay
    <3>8. at[r] \in DOMAIN m /\ at[Parent(r)] \in DOMAIN m
          /\ m[at[r]].parent = n[at[r]].parent /\ IsDirNode(m, at[Parent(r)])
      BY <1>8, <1>11, <2>1, <3>2, <3>4, <3>5 DEF IsDirNode
    <3> QED BY <1>8, <3>2, <3>3, <3>4, <3>6, <3>7, <3>8
  <2> QED BY <2>2, <2>3
<1>16. ASSUME NEW q \in DOMAIN new, NEW x \in DOMAIN m[new[q]].children
       PROVE  \E s \in DOMAIN new \ {Root} : Parent(s) = q /\ file_name(s) = x
  <2>1. PICK r \in stay : q = D(r)
    BY <1>3
  <2>2. new[q] = at[r] /\ at[r] \in DOMAIN m /\ r \in DOMAIN at
    BY <1>3, <1>10, <1>11, <2>1
  <2>3. ASSUME r = Parent(to), x = name PROVE \E s \in DOMAIN new \ {Root} : Parent(s) = q /\ file_name(s) = x
    <3>1. to \in DOMAIN new \ {Root} /\ Parent(to) = q
      BY <1>1, <1>3, <1>10, <2>1, <2>3
    <3> QED BY <2>3, <3>1
  <2>4. CASE x \in Kept(n, at[r], id)
    <3>1. PICK c \in DOMAIN at \ {Root} : Parent(c) = r /\ file_name(c) = x /\ n[at[r]].children[x] = at[c]
      BY <2>2, <2>4, LinksAre DEF Kept
    <3>2. c # from
      BY <2>4, <3>1 DEF Kept, id
    <3>3. CASE c = to
      BY <2>3, <3>1, <3>3
    <3>4. CASE c # to
      <4>1. c \in stay \ {from, Root}
        BY <3>1, <3>2, <3>4 DEF stay
      <4>2. D(c) # Root /\ Parent(D(c)) = q /\ file_name(D(c)) = x /\ D(c) \in DOMAIN new
        BY <1>3, <2>1, <3>1, <4>1
      <4> QED BY <4>2
    <3> QED BY <3>3, <3>4
  <2>5. CASE x \notin Kept(n, at[r], id)
    <3>1. at[r] = parent /\ x = name
      BY <1>8, <1>16, <2>2, <2>5
    <3>2. r = Parent(to)
      BY <1>5, <1>10, <2>2, <3>1
    <3> QED BY <2>3, <3>1, <3>2
  <2> QED BY <2>4, <2>5
<1>17. Shape(m, new)
  BY <1>3, <1>8, <1>12, <1>13, <1>14, <1>15, <1>16 DEF Shape
<1>18. Data(m, new) = g
  <2>1. \A q \in DOMAIN at : f[q] = n[at[q]].data
    BY DEF f, Data
  <2>2. \A q \in DOMAIN new : m[new[q]].data = g[q]
    BY <1>0, <1>3, <1>10, <1>11, <2>1
  <2> QED BY <1>0, <1>3, <2>2 DEF Data
<1> QED BY <1>17, <1>18 DEF new, f, g, m, Holds

-----------------------------------------------------------------------------
(* The arena in each state.                                                *)

\* Files are bytes, and no longer than a position can be.
EntryFits(data) == data = Dir \/ (data \in Seq(Nat) /\ Len(data) <= MaxPos)

\* What files[h] may be while the ids below next are given out.
Handle(next) == {Closed} \cup [node_id : ROOT_ID..next - 1, pos : 0..MaxPos, append : BOOLEAN]

\* The inductive invariant: the arena is the tree that lookup() sees, and a
\* handle's node, while it is there, is a file.
Arena ==
    /\ TypeOK
    /\ Shape(nodes, Where(nodes))
    /\ \A id \in DOMAIN nodes : EntryFits(nodes[id].data)
    /\ \A h \in Handles : HasFile(h) => ~IsDirNode(nodes, files[h].node_id)

LEMMA ArenaNow ==
    ASSUME Arena
    PROVE  /\ Shape(nodes, Where(nodes)) /\ Resources = Data(nodes, Where(nodes))
           /\ DOMAIN Resources = DOMAIN Where(nodes) /\ DOMAIN Resources \subseteq Paths
           /\ \A p \in DOMAIN Resources : EntryFits(Resources[p])
           /\ DOMAIN nodes = {Where(nodes)[p] : p \in DOMAIN Where(nodes)}
           /\ DOMAIN nodes \subseteq ROOT_ID..node_id - 1 /\ IsFiniteSet(DOMAIN nodes)
           /\ node_id \in Nat \ {NO_PARENT} /\ node_id \notin DOMAIN nodes
           /\ files \in [Handles -> Handle(node_id)]
           /\ \A h \in Handles : HasFile(h) => ~IsDirNode(nodes, files[h].node_id)
<1>1. /\ Shape(nodes, Where(nodes)) /\ node_id \in Nat /\ DOMAIN nodes \subseteq ROOT_ID..node_id - 1
      /\ files \in [Handles -> Handle(node_id)]
      /\ \A h \in Handles : HasFile(h) => ~IsDirNode(nodes, files[h].node_id)
  BY DEF Arena, TypeOK, Handle
<1>2. Resources = Data(nodes, Where(nodes))
  BY DEF Resources, Data, Where
<1>3. DOMAIN Resources = DOMAIN Where(nodes) /\ DOMAIN Resources \subseteq Paths
  BY <1>1, <1>2, DataIs DEF Shape
<1>4. DOMAIN nodes = {Where(nodes)[p] : p \in DOMAIN Where(nodes)}
  BY <1>1 DEF Shape
<1>5. \A p \in DOMAIN Resources : EntryFits(Resources[p])
  <2>1. \A p \in DOMAIN Where(nodes) : Where(nodes)[p] \in DOMAIN nodes /\ Resources[p] = nodes[Where(nodes)[p]].data
    BY <1>1, <1>2, DataIs, NodeOf
  <2> QED BY <1>3, <2>1 DEF Arena
<1>6. ROOT_ID \in DOMAIN nodes
  BY <1>1 DEF Shape
<1>7. node_id \in Nat \ {NO_PARENT} /\ node_id \notin DOMAIN nodes
  BY <1>1, <1>6 DEF ROOT_ID, NO_PARENT
<1>8. IsFiniteSet(DOMAIN nodes)
  <2>1. IsFiniteSet(ROOT_ID..node_id - 1)
    BY <1>1, FS_Interval DEF ROOT_ID
  <2> QED BY <1>1, <2>1, FS_Subset
<1> QED BY <1>1, <1>2, <1>3, <1>4, <1>5, <1>7, <1>8

LEMMA ArenaNext ==
    ASSUME NEW w, Shape(nodes', w)
    PROVE  Where(nodes)' = w /\ Resources' = Data(nodes', w)
<1>1. Where(nodes') = w
  BY WhereIs
<1>2. Resources' = Data(nodes', Where(nodes'))
  BY DEF Resources, Data, Where
<1> QED BY <1>1, <1>2

\* A step that keeps the shape, the entries and the files keeps the invariant.
LEMMA ArenaKept ==
    ASSUME NEW w, Shape(nodes', w), \A p \in DOMAIN w : EntryFits(Data(nodes', w)[p]),
           node_id' \in Nat, DOMAIN nodes' \subseteq ROOT_ID..node_id' - 1,
           files' \in [Handles -> Handle(node_id')],
           \A h \in Handles : HasFile(h)' => ~IsDirNode(nodes', files'[h].node_id)
    PROVE  Arena'
<1>1. ASSUME NEW id \in DOMAIN nodes'
      PROVE  IsNode(nodes'[id]) /\ EntryFits(nodes'[id].data)
  <2>1. PICK p \in DOMAIN w : id = w[p]
    BY DEF Shape
  <2>2. EntryFits(nodes'[id].data)
    BY <2>1, DataIs
  <2>3. nodes'[id].parent \in Nat
    <3>1. CASE p = Root
      BY <2>1, <3>1 DEF Shape, NO_PARENT
    <3>2. CASE p # Root
      <4>1. Parent(p) \in DOMAIN w /\ nodes'[id].parent = w[Parent(p)]
        BY <2>1, <3>2, NodeOf
      <4> QED BY <4>1, NodeOf
    <3> QED BY <3>1, <3>2
  <2>4. DOMAIN nodes'[id].children \subseteq Names
    <3> SUFFICES ASSUME NEW name \in DOMAIN nodes'[w[p]].children PROVE name \in Names
      BY <2>1
    <3>1. PICK q \in DOMAIN w \ {Root} : file_name(q) = name
      BY LinksAre
    <3>2. q \in Paths \ {Root}
      BY DEF Shape
    <3> QED BY <3>1, <3>2, NameOfPath
  <2> QED BY <2>2, <2>3, <2>4 DEF IsNode, EntryFits
<1>2. Where(nodes)' = w
  BY ArenaNext
<1> QED BY <1>1, <1>2 DEF Arena, TypeOK, Handle

-----------------------------------------------------------------------------
(* What each call makes of the tree.                                       *)

LEMMA OpenMeans ==
    ASSUME NEW n, NEW at, Shape(n, at), NEW p \in Paths, NEW create \in BOOLEAN, NEW create_new \in BOOLEAN,
           DoOpenErrors(n, p, create, create_new) = {}
    PROVE  /\ p \in DOMAIN at => ~IsDirNode(n, at[p])
           /\ p \notin DOMAIN at => p # Root /\ Parent(p) \in DOMAIN at /\ IsDirNode(n, at[Parent(p)])
<1> DEFINE f == Data(n, at)
<1>1. OpenErrors(f, p, create, create_new) = {}
  BY OpenAgrees
<1>2. CASE p \in DOMAIN at
  BY <1>1, <1>2, DataIs DEF OpenErrors
<1>3. CASE p \notin DOMAIN at
  <2>1. ParentErrors(f, p) = {}
    BY <1>1, <1>3, DataIs DEF OpenErrors
  <2>2. IsDir(f, Parent(p)) /\ p # Root
    BY <1>3, <2>1, ParentErrorsMeaning DEF Shape
  <2>3. Parent(p) \in DOMAIN at
    BY <2>2, DataIs DEF IsDir
  <2> QED BY <1>3, <2>2, <2>3, DataIs
<1> QED BY <1>2, <1>3

\* The node of each path once p was opened.
Opened(p) == IF p \in DOMAIN Where(nodes) THEN Where(nodes) ELSE With(Where(nodes), p, node_id)

LEMMA NothingIsNotDir == <<>> # Dir /\ <<>> \in Seq(Nat) /\ Len(<<>>) = 0
<1>1. <<>> \in Seq(Nat) /\ Len(<<>>) = 0
  OBVIOUS
<1> QED BY <1>1, MemFsAssumption

LEMMA OpenShape ==
    ASSUME Arena, NEW p \in Paths, NEW create \in BOOLEAN, NEW create_new \in BOOLEAN,
           DoOpenErrors(nodes, p, create, create_new) = {}, NEW truncate \in BOOLEAN
    PROVE  LET m == DoOpen(nodes, p, truncate)
           IN  /\ Shape(m, Opened(p)) /\ p \in DOMAIN Opened(p)
               /\ Data(m, Opened(p)) = IF p \notin DOMAIN Resources \/ truncate
                                       THEN With(Resources, p, <<>>) ELSE Resources
<1> DEFINE m == DoOpen(nodes, p, truncate)
           at == Where(nodes)
<1>1. /\ Shape(nodes, at) /\ Resources = Data(nodes, at) /\ DOMAIN Resources = DOMAIN at
      /\ node_id \in Nat \ {NO_PARENT} /\ node_id \notin DOMAIN nodes
  BY ArenaNow
<1> HIDE DEF at, m
<1>2. /\ p \in DOMAIN at => ~IsDirNode(nodes, at[p])
      /\ p \notin DOMAIN at => p # Root /\ Parent(p) \in DOMAIN at /\ IsDirNode(nodes, at[Parent(p)])
  BY <1>1, OpenMeans
<1>3. Lookup(nodes, p) # NO_PARENT <=> p \in DOMAIN at
  BY <1>1, DataIs
<1>4. CASE p \notin DOMAIN at
  <2>1. m = WithChild(nodes, at[Parent(p)], file_name(p), node_id, <<>>)
    BY <1>1, <1>2, <1>3, <1>4, DataIs DEF DoOpen, m
  <2>2. Holds(m, With(at, p, node_id), With(Resources, p, <<>>))
    BY <1>1, <1>2, <1>4, <2>1, AddShape
  <2>3. Opened(p) = With(at, p, node_id) /\ p \in DOMAIN Opened(p)
    BY <1>4 DEF Opened, at, With
  <2> QED BY <1>1, <1>4, <2>2, <2>3 DEF Holds, m
<1>5. CASE p \in DOMAIN at /\ truncate
  <2>3. Lookup(nodes, p) = at[p] /\ Lookup(nodes, p) # NO_PARENT
    BY <1>1, <1>3, <1>5, DataIs
  <2>1. m = [nodes EXCEPT ![at[p]].data = <<>>]
    BY <1>5, <2>3 DEF DoOpen, m
  <2>2. Holds(m, at, With(Resources, p, <<>>))
    BY <1>1, <1>2, <1>5, <2>1, DataShape, NothingIsNotDir
  <2>4. Opened(p) = at
    BY <1>5 DEF Opened, at
  <2> QED BY <1>1, <1>5, <2>2, <2>4 DEF Holds, m
<1>6. CASE p \in DOMAIN at /\ ~truncate
  <2>1. m = nodes
    BY <1>3, <1>6 DEF DoOpen, m
  <2>2. Opened(p) = at
    BY <1>6 DEF Opened, at
  <2> QED BY <1>1, <1>6, <2>1, <2>2 DEF m
<1> QED BY <1>4, <1>5, <1>6 DEF m

LEMMA CreateShape ==
    ASSUME Arena, NEW p \in Mkcols \ {Root}, create_dir(p)
    PROVE  /\ p \in Paths /\ CreateDirErrors(Resources, p) = {} /\ p \notin DOMAIN Where(nodes)
           /\ Shape(nodes', With(Where(nodes), p, node_id))
           /\ Data(nodes', With(Where(nodes), p, node_id)) = With(Resources, p, Dir)
<1> DEFINE at == Where(nodes)
<1>1. /\ Shape(nodes, at) /\ Resources = Data(nodes, at) /\ DOMAIN Resources = DOMAIN at
      /\ node_id \in Nat \ {NO_PARENT} /\ node_id \notin DOMAIN nodes
  BY ArenaNow
<1> HIDE DEF at
<1>2. p \in Paths \ {Root} /\ CreateErrors(nodes, p) = {}
  BY MemFsAssumption DEF create_dir
<1>3. CreateDirErrors(Resources, p) = {}
  BY <1>1, <1>2, CreateAgrees
<1>4. p \notin DOMAIN at /\ IsDir(Resources, Parent(p))
  BY <1>1, <1>3, ParentErrorsMeaning DEF CreateDirErrors
<1>5. Parent(p) \in DOMAIN at /\ IsDirNode(nodes, at[Parent(p)]) /\ Lookup(nodes, Parent(p)) = at[Parent(p)]
  <2>1. Parent(p) \in DOMAIN at
    BY <1>1, <1>4 DEF IsDir
  <2> QED BY <1>1, <1>4, <2>1, DataIs
<1>6. nodes' = WithChild(nodes, at[Parent(p)], file_name(p), node_id, Dir)
  BY <1>5 DEF create_dir
<1>7. Holds(nodes', With(at, p, node_id), With(Resources, p, Dir))
  BY <1>1, <1>2, <1>4, <1>5, <1>6, AddShape
<1> QED BY <1>2, <1>3, <1>4, <1>7 DEF at, Holds

LEMMA RemoveStepShape ==
    ASSUME Arena, NEW p \in Paths, remove(p)
    PROVE  /\ RemoveErrors(Resources, p) = {} /\ p \in DOMAIN Where(nodes)
           /\ Shape(nodes', Without(Where(nodes), p))
           /\ Data(nodes', Without(Where(nodes), p)) = Without(Resources, p)
<1> DEFINE at == Where(nodes)
<1>1. Shape(nodes, at) /\ Resources = Data(nodes, at) /\ DOMAIN Resources = DOMAIN at
  BY ArenaNow
<1> HIDE DEF at
<1>2. RemoveErrors(Resources, p) = {}
  BY <1>1, DeleteAgrees DEF remove
<1>3. p \in DOMAIN at \ {Root} /\ Members(Resources, p) = {}
  BY <1>1, <1>2 DEF RemoveErrors
<1>4. DOMAIN nodes[at[p]].children = {}
  <2>1. nodes[at[p]].children = <<>>
    BY <1>1, <1>3, NoChildren
  <2> QED BY <2>1
<1>5. nodes' = Dropped(Unlinked(nodes, at[p]), {at[p]})
  BY <1>1, <1>3, DataIs DEF remove
<1>6. Holds(nodes', Without(at, p), Without(Resources, p))
  BY <1>1, <1>3, <1>4, <1>5, RemoveShape
<1> QED BY <1>2, <1>3, <1>6 DEF at, Holds

LEMMA RenameShape ==
    ASSUME Arena, NEW pair \in Renames, rename(pair[1], pair[2])
    PROVE  LET from == pair[1]
               to   == pair[2]
           IN  /\ from \in Paths /\ to \in Paths /\ RenameErrors(Resources, from, to) = {}
               /\ Movable(nodes, Where(nodes), from, to)
               /\ Shape(nodes', Moved(Where(nodes), from, to))
               /\ Data(nodes', Moved(Where(nodes), from, to)) = Moved(Resources, from, to)
<1> DEFINE at == Where(nodes)
           from == pair[1]
           to == pair[2]
<1>1. /\ Shape(nodes, at) /\ Resources = Data(nodes, at) /\ DOMAIN Resources = DOMAIN at
      /\ IsFiniteSet(DOMAIN nodes)
  BY ArenaNow
<1> HIDE DEF at
<1>2. from \in Paths /\ to \in Paths /\ from # to
  BY MemFsAssumption
<1>3. /\ FitsPaths(from, to) /\ MoveErrors(nodes, from, to) = {}
      /\ nodes' = MovedNode(nodes, Lookup(nodes, from), Lookup(nodes, Parent(to)), file_name(to))
  BY DEF rename
<1> HIDE DEF from, to
<1>4. RenameErrors(Resources, from, to) = {}
  BY <1>1, <1>2, <1>3, MoveAgrees DEF FitsPaths
<1>5. /\ from \in DOMAIN at /\ IsDir(Resources, Parent(to)) /\ ~IsDir(Resources, to) /\ ~Above(from, to)
      /\ \A q \in DOMAIN Resources \cap Subtree(from) : Rebase(q, from, to) \in Paths
  BY <1>1, <1>4, ParentErrorsMeaning DEF RenameErrors
<1>6. from # Root
  BY <1>2, <1>5, RootIsAbove
<1>7. to # Root
  BY <1>1, <1>5, DataIs DEF Shape
<1>8. Parent(to) \in DOMAIN at
  BY <1>1, <1>5 DEF IsDir
<1>9. Movable(nodes, at, from, to)
  <2>1. IsDirNode(nodes, at[Parent(to)]) /\ (to \in DOMAIN at => ~IsDirNode(nodes, at[to]))
    BY <1>1, <1>5, <1>8, DataIs
  <2>2. \A q \in DOMAIN at : q \in Paths
    BY <1>1, NodeOf
  <2> QED BY <1>1, <1>2, <1>5, <1>6, <1>7, <1>8, <2>1, <2>2 DEF Movable, Subtree
<1>10. nodes' = MovedNode(nodes, at[from], at[Parent(to)], file_name(to))
  BY <1>1, <1>3, <1>5, <1>8, DataIs
<1>11. Shape(nodes', Moved(at, from, to)) /\ Data(nodes', Moved(at, from, to)) = Moved(Resources, from, to)
  <2>1. Holds(nodes', Moved(at, from, to), Moved(Resources, from, to))
    BY <1>1, <1>9, <1>10, MoveShape
  <2> QED BY <2>1 DEF Holds
<1> QED BY <1>2, <1>4, <1>9, <1>11 DEF at, from, to

LEMMA CopyShape ==
    ASSUME Arena, NEW from \in Paths, NEW to \in Paths, copy(from, to)
    PROVE  /\ CopyErrors(Resources, from, to) = {} /\ IsFile(Resources, from) /\ ~IsDir(Resources, to)
           /\ Shape(nodes', Opened(to)) /\ to \in DOMAIN Opened(to)
           /\ Data(nodes', Opened(to)) = With(Resources, to, Resources[from])
<1> DEFINE at == Where(nodes)
           m == DoOpen(nodes, to, FALSE)
           w == Opened(to)
<1>1. /\ Shape(nodes, at) /\ Resources = Data(nodes, at) /\ DOMAIN Resources = DOMAIN at
  BY ArenaNow
<1>2. /\ CopyFileErrors(nodes, from, to) = {}
      /\ nodes' = [m EXCEPT ![Lookup(m, to)].data = m[Lookup(m, from)].data]
  BY DEF copy
<1> HIDE DEF at
<1>3. CopyErrors(Resources, from, to) = {}
  BY <1>1, <1>2, CopyAgrees
<1>4. from \in DOMAIN Resources /\ ~IsDir(Resources, from) /\ OpenErrors(Resources, to, TRUE, FALSE) = {}
  BY <1>3 DEF CopyErrors
<1>5. DoOpenErrors(nodes, to, TRUE, FALSE) = {} /\ ~IsDir(Resources, to)
  BY <1>1, <1>4, OpenAgrees DEF OpenErrors, IsDir
<1>6. /\ Shape(m, w) /\ to \in DOMAIN w
      /\ Data(m, w) = IF to \notin DOMAIN Resources THEN With(Resources, to, <<>>) ELSE Resources
  BY <1>5, OpenShape
<1> DEFINE f == Data(m, w)
<1>7. /\ DOMAIN f = DOMAIN Resources \cup {to} /\ f[from] = Resources[from]
      /\ With(f, to, f[from]) = With(Resources, to, Resources[from])
      /\ ~IsDir(f, to)
  <2>1. CASE to \in DOMAIN Resources
    BY <1>4, <1>5, <1>6, <2>1
  <2>2. CASE to \notin DOMAIN Resources
    <3>1. f = With(Resources, to, <<>>)
      BY <1>6, <2>2
    <3> HIDE DEF f
    <3> QED BY <1>4, <2>2, <3>1, NothingIsNotDir DEF With, IsDir
  <2> QED BY <2>1, <2>2
<1>8. from \in DOMAIN w /\ DOMAIN f = DOMAIN w
  BY <1>4, <1>6, <1>7, DataIs
<1> HIDE DEF m, w
<1>9. Lookup(m, to) = w[to] /\ m[Lookup(m, from)].data = f[from] /\ ~IsDirNode(m, w[to])
  BY <1>6, <1>7, <1>8, DataIs
<1> HIDE DEF f
<1>10. f[from] # Dir
  BY <1>4, <1>7 DEF IsDir
<1>11. nodes' = [m EXCEPT ![w[to]].data = f[from]]
  BY <1>2, <1>9
<1>12. Shape(nodes', w) /\ Data(nodes', w) = With(f, to, f[from])
  <2>1. to \in DOMAIN w /\ Shape(m, w) /\ f = Data(m, w)
    BY <1>6 DEF f
  <2>2. Holds(nodes', w, With(f, to, f[from]))
    BY <1>9, <1>10, <1>11, <2>1, DataShape
  <2> QED BY <2>2 DEF Holds
<1> QED BY <1>3, <1>4, <1>5, <1>6, <1>7, <1>12 DEF w, IsFile, IsDir

LEMMA OpenStepShape ==
    ASSUME Arena, NEW h \in Handles, NEW p \in Paths, NEW create \in BOOLEAN, NEW create_new \in BOOLEAN,
           NEW truncate \in BOOLEAN, NEW append \in BOOLEAN,
           open(h, p, create, create_new, truncate, append)
    PROVE  /\ OpenErrors(Resources, p, create, create_new) = {} /\ ~IsDir(Resources, p)
           /\ Shape(nodes', Opened(p)) /\ p \in DOMAIN Opened(p)
           /\ Data(nodes', Opened(p)) = IF p \notin DOMAIN Resources \/ truncate
                                        THEN With(Resources, p, <<>>) ELSE Resources
           /\ files' = [files EXCEPT ![h] = [node_id |-> Opened(p)[p], pos |-> 0, append |-> append]]
<1>1. /\ Shape(nodes, Where(nodes)) /\ Resources = Data(nodes, Where(nodes))
      /\ DoOpenErrors(nodes, p, create, create_new) = {} /\ nodes' = DoOpen(nodes, p, truncate)
      /\ files' = [files EXCEPT ![h] = [node_id |-> Lookup(nodes', p), pos |-> 0, append |-> append]]
  BY ArenaNow DEF open
<1>2. OpenErrors(Resources, p, create, create_new) = {}
  BY <1>1, OpenAgrees
<1>3. ~IsDir(Resources, p)
  BY <1>2 DEF OpenErrors, IsDir
<1>4. /\ Shape(nodes', Opened(p)) /\ p \in DOMAIN Opened(p)
      /\ Data(nodes', Opened(p)) = IF p \notin DOMAIN Resources \/ truncate
                                   THEN With(Resources, p, <<>>) ELSE Resources
  BY <1>1, OpenShape
<1>5. Lookup(nodes', p) = Opened(p)[p]
  BY <1>4, DataIs
<1> QED BY <1>1, <1>2, <1>3, <1>4, <1>5

\* The path of an open handle's file.
LEMMA HandleNow ==
    ASSUME Arena, NEW h \in Handles, HasFile(h)
    PROVE  /\ files[h] \in [node_id : ROOT_ID..node_id - 1, pos : 0..MaxPos, append : BOOLEAN]
           /\ \E p \in DOMAIN Where(nodes) :
                 /\ Where(nodes)[p] = files[h].node_id
                 /\ p \in DOMAIN Resources /\ Resources[p] = nodes[files[h].node_id].data
                 /\ Resources[p] \in Seq(Nat) /\ Len(Resources[p]) \in 0..MaxPos /\ Resources[p] # Dir
<1>1. /\ Shape(nodes, Where(nodes)) /\ Resources = Data(nodes, Where(nodes))
      /\ DOMAIN Resources = DOMAIN Where(nodes)
      /\ \A p \in DOMAIN Resources : EntryFits(Resources[p])
      /\ DOMAIN nodes = {Where(nodes)[p] : p \in DOMAIN Where(nodes)}
      /\ files \in [Handles -> Handle(node_id)]
      /\ ~IsDirNode(nodes, files[h].node_id)
  BY ArenaNow
<1>2. files[h] # Closed /\ files[h].node_id \in DOMAIN nodes
  BY DEF HasFile
<1>3. PICK p \in DOMAIN Where(nodes) : Where(nodes)[p] = files[h].node_id
  BY <1>1, <1>2
<1>4. Resources[p] = nodes[files[h].node_id].data
  BY <1>1, <1>3, DataIs
<1>5. Resources[p] # Dir /\ EntryFits(Resources[p])
  BY <1>1, <1>3, <1>4 DEF IsDirNode
<1>6. Resources[p] \in Seq(Nat) /\ Len(Resources[p]) \in 0..MaxPos
  BY <1>5, MemFsAssumption DEF EntryFits
<1> QED BY <1>1, <1>2, <1>3, <1>4, <1>5, <1>6 DEF Handle

\* What write makes of the bytes is what the file store does.
LEMMA FilledIs ==
    ASSUME NEW data \in Seq(Nat), NEW pos \in Nat, NEW buf \in Seq(Nat)
    PROVE  /\ Filled(data, pos, buf) = FS!Written(data, pos, buf)
           /\ Filled(data, pos, buf) \in Seq(Nat)
           /\ Len(Filled(data, pos, buf)) = IF pos + Len(buf) > Len(data) THEN pos + Len(buf) ELSE Len(data)
<1> DEFINE len == IF pos + Len(buf) > Len(data) THEN pos + Len(buf) ELSE Len(data)
           grown == Grown(data, pos + Len(buf))
           new == [i \in 1..len |-> IF i > pos /\ i <= pos + Len(buf) THEN buf[i - pos]
                                    ELSE IF i <= Len(data) THEN data[i] ELSE 0]
<1>1. len \in Nat
  OBVIOUS
<1>2. new = FS!Written(data, pos, buf)
  BY DEF FS!Written
<1>3. DOMAIN grown = 1..len /\ \A i \in 1..len : grown[i] = IF i <= Len(data) THEN data[i] ELSE 0
  BY DEF Grown
<1>4. Filled(data, pos, buf) = [i \in 1..len |-> IF i \in pos + 1..pos + Len(buf) THEN buf[i - pos] ELSE grown[i]]
  BY <1>3 DEF Filled
<1> HIDE DEF grown
<1>5. Filled(data, pos, buf) = new
  BY <1>1, <1>3, <1>4
<1>6. new \in [1..len -> Nat]
  BY <1>1
<1>7. new \in Seq(Nat) /\ Len(new) = len
  <2> HIDE DEF new, len
  <2> QED BY <1>1, <1>6
<1> QED BY <1>2, <1>5, <1>7

LEMMA WriteShape ==
    ASSUME Arena, NEW h \in Handles, NEW buf \in Buffers, write(h, buf)
    PROVE  \E p \in DOMAIN Where(nodes) : \E pos \in 0..MaxPos :
              /\ HasFile(h) /\ Where(nodes)[p] = files[h].node_id /\ ~IsDir(Resources, p) /\ p \in DOMAIN Resources
              /\ Resources[p] \in Seq(Nat) /\ Len(Resources[p]) <= MaxPos
              /\ pos = IF files[h].append THEN Len(Resources[p]) ELSE files[h].pos
              /\ \/ nodes' = nodes /\ files' = [files EXCEPT ![h].pos = pos]
                 \/ /\ pos + Len(buf) <= MaxLen /\ pos + Len(buf) <= MaxPos
                    /\ files' = [files EXCEPT ![h].pos = pos + Len(buf)]
                    /\ Shape(nodes', Where(nodes))
                    /\ Data(nodes', Where(nodes)) = With(Resources, p, FS!Written(Resources[p], pos, buf))
                    /\ FS!Written(Resources[p], pos, buf) \in Seq(Nat)
                    /\ Len(FS!Written(Resources[p], pos, buf)) <= MaxPos
<1>1. HasFile(h)
  BY DEF write
<1>2. files[h] \in [node_id : ROOT_ID..node_id - 1, pos : 0..MaxPos, append : BOOLEAN]
  BY <1>1, HandleNow
<1>3. PICK p \in DOMAIN Where(nodes) :
        /\ Where(nodes)[p] = files[h].node_id
        /\ p \in DOMAIN Resources /\ Resources[p] = nodes[files[h].node_id].data
        /\ Resources[p] \in Seq(Nat) /\ Len(Resources[p]) \in 0..MaxPos /\ Resources[p] # Dir
  BY <1>1, HandleNow
<1> DEFINE old == Resources[p]
           pos == WritePos(files[h], old)
<1>4. pos \in 0..MaxPos /\ pos = IF files[h].append THEN Len(old) ELSE files[h].pos
  BY <1>2, <1>3 DEF WritePos
<1>5. buf \in Seq(Nat) /\ MaxPos \in Nat /\ MaxLen \in Nat
  BY MemFsAssumption
<1>6. \/ nodes' = nodes /\ files' = [files EXCEPT ![h].pos = pos]
      \/ /\ pos + Len(buf) <= MaxLen /\ pos + Len(buf) <= MaxPos
         /\ files' = [files EXCEPT ![h].pos = pos + Len(buf)]
         /\ nodes' = [nodes EXCEPT ![files[h].node_id].data = Filled(old, pos, buf)]
  <2> HIDE DEF old, pos
  <2>1. old = nodes[files[h].node_id].data /\ pos = WritePos(files[h], nodes[files[h].node_id].data)
    BY <1>3 DEF old, pos
  <2>2. /\ pos \in Nat /\ Len(buf) \in Nat
    BY <1>4, <1>5
  <2> QED BY <1>5, <2>1, <2>2 DEF write
<1>7. Filled(old, pos, buf) = FS!Written(old, pos, buf) /\ Filled(old, pos, buf) \in Seq(Nat)
      /\ Len(Filled(old, pos, buf)) = IF pos + Len(buf) > Len(old) THEN pos + Len(buf) ELSE Len(old)
  <2>1. old \in Seq(Nat) /\ pos \in Nat
    BY <1>3, <1>4, <1>5
  <2> HIDE DEF old, pos
  <2> QED BY <1>5, <2>1, FilledIs
<1>8. /\ Shape(nodes, Where(nodes)) /\ Resources = Data(nodes, Where(nodes)) /\ ~IsDirNode(nodes, Where(nodes)[p])
  BY <1>1, <1>3, ArenaNow
<1>9. ~IsDir(Resources, p) /\ Filled(old, pos, buf) # Dir
  BY <1>3, <1>7, MemFsAssumption DEF IsDir
<1>10. CASE nodes' = nodes /\ files' = [files EXCEPT ![h].pos = pos]
  <2> HIDE DEF pos
  <2>1. Len(old) <= MaxPos
    BY <1>3, <1>5
  <2> QED BY ONLY <1>1, <1>3, <1>4, <1>9, <1>10, <2>1
<1>11. CASE /\ pos + Len(buf) <= MaxLen /\ pos + Len(buf) <= MaxPos
            /\ files' = [files EXCEPT ![h].pos = pos + Len(buf)]
            /\ nodes' = [nodes EXCEPT ![files[h].node_id].data = Filled(old, pos, buf)]
  <2>1. /\ Shape(nodes', Where(nodes))
        /\ Data(nodes', Where(nodes)) = With(Resources, p, FS!Written(old, pos, buf))
    <3> HIDE DEF old, pos
    <3>1. nodes' = [nodes EXCEPT ![Where(nodes)[p]].data = Filled(old, pos, buf)]
      BY <1>3, <1>11
    <3>2. Holds(nodes', Where(nodes), With(Resources, p, Filled(old, pos, buf)))
      BY <1>8, <1>9, <3>1, DataShape
    <3> QED BY <1>7, <3>2 DEF Holds
  <2>2. Len(Filled(old, pos, buf)) <= MaxPos /\ Len(old) <= MaxPos
    BY <1>3, <1>7, <1>11
  <2> QED BY <1>1, <1>3, <1>4, <1>7, <1>9, <1>11, <2>1, <2>2
<1> QED BY <1>6, <1>10, <1>11

\* What seek counts from.
SeekBase(h, from) == CASE from = "start"   -> 0
                       [] from = "current" -> files[h].pos
                       [] from = "end"     -> Len(nodes[files[h].node_id].data)

\* Reading and seeking leave the position in its range.
LEMMA ReadMoves ==
    ASSUME Arena, NEW h \in Handles, NEW count \in 1..MaxLen, read(h, count)
    PROVE  /\ nodes' = nodes /\ files[h] # Closed
           /\ \E pos \in 0..MaxPos : files' = [files EXCEPT ![h].pos = pos]
<1>1. HasFile(h) /\ nodes' = nodes
      /\ files' = [files EXCEPT ![h].pos = @ + Len(ReadBytes(files[h], nodes[files[h].node_id].data, count))]
  BY DEF read
<1>2. files[h] \in [node_id : ROOT_ID..node_id - 1, pos : 0..MaxPos, append : BOOLEAN]
  BY <1>1, HandleNow
<1>3. nodes[files[h].node_id].data \in Seq(Nat) /\ Len(nodes[files[h].node_id].data) \in 0..MaxPos
  BY <1>1, HandleNow
<1> DEFINE data == nodes[files[h].node_id].data
           pos == files[h].pos
           start == IF pos > Len(data) THEN Len(data) ELSE pos
           end == IF pos + count > Len(data) THEN Len(data) ELSE pos + count
<1>4. MaxLen \in Nat /\ MaxPos \in Nat /\ pos \in 0..MaxPos /\ count \in Nat
  BY <1>2, MemFsAssumption
<1> HIDE DEF data, pos
<1>5. start \in 0..Len(data) /\ end \in 0..Len(data) /\ start <= end /\ data \in Seq(Nat) /\ Len(data) \in 0..MaxPos
  BY <1>3, <1>4 DEF data
<1>6. pos + (end - start) \in 0..MaxPos
  BY <1>4, <1>5
<1>7. ReadBytes(files[h], data, count) = SubSeq(data, start + 1, end)
  BY DEF ReadBytes, pos
<1> HIDE DEF start, end
<1>8. Len(SubSeq(data, start + 1, end)) = end - start
  BY <1>5, SubSeqProperties
<1> QED BY <1>1, <1>6, <1>7, <1>8 DEF HasFile, data, pos

LEMMA SeekMoves ==
    ASSUME Arena, NEW h \in Handles, NEW from \in {"start", "current", "end"}, NEW offset,
           seek(h, from, offset)
    PROVE  /\ nodes' = nodes /\ files[h] # Closed
           /\ \E pos \in 0..MaxPos : files' = [files EXCEPT ![h].pos = pos]
<1> DEFINE pos == SeekBase(h, from) + offset
<1>1. /\ files[h] # Closed /\ nodes' = nodes
      /\ pos \in 0..MaxPos /\ files' = [files EXCEPT ![h].pos = pos]
  BY DEF seek, SeekBase
<1> QED BY <1>1

-----------------------------------------------------------------------------
(* The invariant holds.                                                    *)

\* After the step every node is the one just made or was there before, at r, and no file became a collection.
Carried(w) ==
    \A p \in DOMAIN w : w[p] # node_id =>
        \E r \in DOMAIN Where(nodes) : /\ w[p] = Where(nodes)[r]
                                       /\ Data(nodes', w)[p] = Dir => Resources[r] = Dir

LEMMA CarriedNodes ==
    ASSUME Arena, NEW w, Shape(nodes', w), Carried(w)
    PROVE  \A id \in DOMAIN nodes' \ {node_id} :
              id \in DOMAIN nodes /\ (IsDirNode(nodes', id) => IsDirNode(nodes, id))
<1> SUFFICES ASSUME NEW id \in DOMAIN nodes' \ {node_id}
             PROVE  id \in DOMAIN nodes /\ (IsDirNode(nodes', id) => IsDirNode(nodes, id))
  OBVIOUS
<1>1. PICK p \in DOMAIN w : w[p] = id
  BY DEF Shape
<1>2. PICK r \in DOMAIN Where(nodes) : w[p] = Where(nodes)[r] /\ (Data(nodes', w)[p] = Dir => Resources[r] = Dir)
  BY <1>1 DEF Carried
<1>3. id \in DOMAIN nodes /\ Resources[r] = nodes[id].data /\ Data(nodes', w)[p] = nodes'[id].data
  BY <1>1, <1>2, ArenaNow, NodeOf, DataIs
<1> QED BY <1>2, <1>3 DEF IsDirNode

\* What a handle may become in a step: it moves, or is opened on a file that is there.
HandleStep(h) ==
    \/ files'[h] = Closed \/ files'[h] = files[h]
    \/ files[h] # Closed /\ \E pos \in 0..MaxPos : files'[h] = [files[h] EXCEPT !.pos = pos]
    \/ \E id \in DOMAIN nodes' : /\ ~IsDirNode(nodes', id)
                                 /\ files'[h] \in [node_id : {id}, pos : 0..MaxPos, append : BOOLEAN]

LEMMA ArenaStep ==
    ASSUME Arena, NEW w, Shape(nodes', w), Carried(w), \A p \in DOMAIN w : EntryFits(Data(nodes', w)[p]),
           node_id' = IF node_id \in DOMAIN nodes' THEN node_id + 1 ELSE node_id,
           files' = [h \in Handles |-> files'[h]], \A h \in Handles : HandleStep(h)
    PROVE  Arena'
<1>1. \A id \in DOMAIN nodes' \ {node_id} :
         id \in DOMAIN nodes /\ (IsDirNode(nodes', id) => IsDirNode(nodes, id))
  BY CarriedNodes
<1>2. /\ DOMAIN nodes \subseteq ROOT_ID..node_id - 1 /\ node_id \in Nat \ {NO_PARENT}
      /\ files \in [Handles -> Handle(node_id)]
      /\ \A h \in Handles : HasFile(h) => ~IsDirNode(nodes, files[h].node_id)
  BY ArenaNow
<1>3. node_id' \in Nat /\ node_id <= node_id' /\ DOMAIN nodes' \subseteq ROOT_ID..node_id' - 1
  BY <1>1, <1>2 DEF ROOT_ID, NO_PARENT
<1>4. ASSUME NEW h \in Handles
      PROVE  files'[h] \in Handle(node_id') /\ (HasFile(h)' => ~IsDirNode(nodes', files'[h].node_id))
  <2>0. files[h] \in Handle(node_id)
    BY <1>2
  <2>1. CASE files'[h] = Closed
    BY <2>1 DEF Handle, HasFile
  <2>2. ASSUME files[h] # Closed, files'[h] # Closed,
               \E pos \in 0..MaxPos : files'[h] = [files[h] EXCEPT !.pos = pos]
        PROVE  files'[h] \in Handle(node_id') /\ (HasFile(h)' => ~IsDirNode(nodes', files'[h].node_id))
    <3>1. PICK pos \in 0..MaxPos : files'[h] = [files[h] EXCEPT !.pos = pos]
      BY <2>2
    <3>2. files[h] \in [node_id : ROOT_ID..node_id - 1, pos : 0..MaxPos, append : BOOLEAN]
      BY <2>0, <2>2 DEF Handle
    <3>3. files'[h] \in [node_id : ROOT_ID..node_id - 1, pos : 0..MaxPos, append : BOOLEAN]
          /\ files'[h].node_id = files[h].node_id
      BY <3>1, <3>2
    <3>4. files[h].node_id # node_id
      BY <1>2, <3>2
    <3>5. files'[h] \in Handle(node_id')
      BY <1>2, <1>3, <3>3 DEF Handle, ROOT_ID
    <3>6. ASSUME files[h].node_id \in DOMAIN nodes' PROVE ~IsDirNode(nodes', files[h].node_id)
      BY <1>1, <1>2, <2>2, <3>4, <3>6 DEF HasFile
    <3> QED BY <3>3, <3>5, <3>6 DEF HasFile
  <2>3. CASE files'[h] = files[h] /\ files[h] # Closed
    <3>1. files[h] \in [node_id : ROOT_ID..node_id - 1, pos : 0..MaxPos, append : BOOLEAN]
      BY <2>0, <2>3 DEF Handle
    <3>2. files[h].pos \in 0..MaxPos /\ files'[h] = [files[h] EXCEPT !.pos = files[h].pos]
      BY <2>3, <3>1
    <3> QED BY <2>2, <2>3, <3>2
  <2>4. CASE \E id \in DOMAIN nodes' : /\ ~IsDirNode(nodes', id)
                                       /\ files'[h] \in [node_id : {id}, pos : 0..MaxPos, append : BOOLEAN]
    BY <1>3, <2>4 DEF Handle, HasFile
  <2> QED BY <2>1, <2>2, <2>3, <2>4 DEF HandleStep
<1>5. files' \in [Handles -> Handle(node_id')]
  BY <1>4
<1> QED BY <1>3, <1>4, <1>5, ArenaKept

\* A new entry, or new bytes of a file.
LEMMA WithKeeps ==
    ASSUME Arena, NEW p \in Paths, NEW w, w = Opened(p), NEW entry, EntryFits(entry),
           NEW n, Data(n, w) = With(Resources, p, entry),
           ~IsDir(Resources, p), p \in DOMAIN Resources => entry # Dir
    PROVE  /\ \A q \in DOMAIN w : EntryFits(Data(n, w)[q])
           /\ \A q \in DOMAIN w : w[q] # node_id =>
                 \E r \in DOMAIN Where(nodes) : w[q] = Where(nodes)[r] /\ (Data(n, w)[q] = Dir => Resources[r] = Dir)
<1> DEFINE at == Where(nodes)
           f == With(Resources, p, entry)
<1>1. DOMAIN Resources = DOMAIN at /\ \A q \in DOMAIN Resources : EntryFits(Resources[q])
  BY ArenaNow
<1> HIDE DEF at
<1>2. /\ DOMAIN f = DOMAIN at \cup {p} /\ f[p] = entry /\ \A q \in DOMAIN at \ {p} : f[q] = Resources[q]
  BY <1>1 DEF With
<1> HIDE DEF f
<1>3. /\ DOMAIN w = DOMAIN at \cup {p} /\ (p \notin DOMAIN at => w[p] = node_id)
      /\ \A q \in DOMAIN at : w[q] = at[q]
  BY DEF Opened, With, at
<1>4. \A q \in DOMAIN w : EntryFits(f[q])
  BY <1>1, <1>2, <1>3
<1>5. \A q \in DOMAIN w : w[q] # node_id =>
         \E r \in DOMAIN at : w[q] = at[r] /\ (f[q] = Dir => Resources[r] = Dir)
  BY <1>1, <1>2, <1>3
<1> QED BY <1>4, <1>5 DEF f, at

LEMMA SameKeeps ==
    ASSUME Arena, Data(nodes', Where(nodes)) = Resources
    PROVE  Carried(Where(nodes)) /\ \A q \in DOMAIN Where(nodes) : EntryFits(Data(nodes', Where(nodes))[q])
  BY ArenaNow DEF Carried

\* The node that a path is given is not one that a handle has.
LEMMA HandlesMoveOn ==
    ASSUME Arena, NEW h \in Handles, files[h] # Closed, NEW pos \in 0..MaxPos,
           files' = [files EXCEPT ![h].pos = pos]
    PROVE  files' = [i \in Handles |-> files'[i]] /\ \A i \in Handles : HandleStep(i)
<1>1. files \in [Handles -> Handle(node_id)]
  BY ArenaNow
<1>2. files'[h] = [files[h] EXCEPT !.pos = pos] /\ \A i \in Handles \ {h} : files'[i] = files[i]
  BY <1>1
<1>3. files' = [i \in Handles |-> files'[i]]
  BY <1>1
<1> QED BY <1>2, <1>3 DEF HandleStep

LEMMA ArenaInit == Init => Arena /\ DOMAIN Where(nodes) = {Root}
<1> SUFFICES ASSUME Init PROVE Arena /\ DOMAIN Where(nodes) = {Root}
  OBVIOUS
<1> DEFINE at == [p \in {Root} |-> ROOT_ID]
<1>1. /\ nodes = [id \in {ROOT_ID} |-> NewNode(NO_PARENT, Dir)] /\ node_id = ROOT_ID + 1
      /\ files = [h \in Handles |-> Closed]
  BY DEF Init
<1>2. /\ DOMAIN nodes = {ROOT_ID} /\ nodes[ROOT_ID].parent = NO_PARENT /\ nodes[ROOT_ID].data = Dir
      /\ nodes[ROOT_ID].children = <<>> /\ DOMAIN nodes[ROOT_ID] = NodeFields
  BY <1>1 DEF NewNode, NodeFields
<1>3. <<>> = [x \in {} |-> x] /\ DOMAIN <<>> = {}
  OBVIOUS
<1>4. AreNodes(nodes)
  BY <1>2, <1>3 DEF AreNodes, ROOT_ID, NO_PARENT
<1>5. DOMAIN at = {Root} /\ at[Root] = ROOT_ID /\ at = [p \in DOMAIN at |-> at[p]]
  OBVIOUS
<1> HIDE DEF at
<1>6. Root \in Paths
  BY PathsAssumption
<1>7. Shape(nodes, at)
  BY <1>2, <1>3, <1>4, <1>5, <1>6 DEF Shape, IsDirNode
<1>8. Where(nodes) = at
  BY <1>7, WhereIs
<1>9. IsNode(nodes[ROOT_ID]) /\ EntryFits(nodes[ROOT_ID].data)
  BY <1>2, <1>3 DEF IsNode, EntryFits, NO_PARENT
<1>10. node_id \in Nat /\ ROOT_ID \in ROOT_ID..node_id - 1
  BY <1>1 DEF ROOT_ID
<1> QED BY <1>1, <1>2, <1>5, <1>7, <1>8, <1>9, <1>10 DEF Arena, TypeOK, HasFile

LEMMA CreateKeeps ==
    ASSUME Arena, NEW p \in Mkcols \ {Root}, create_dir(p) PROVE Arena'
<1> DEFINE w == With(Where(nodes), p, node_id)
<1>1. /\ p \in Paths /\ CreateDirErrors(Resources, p) = {} /\ p \notin DOMAIN Where(nodes)
      /\ Shape(nodes', w) /\ Data(nodes', w) = With(Resources, p, Dir)
  BY CreateShape
<1>2. w = Opened(p)
  BY <1>1 DEF Opened
<1>3. p \notin DOMAIN Resources /\ files \in [Handles -> Handle(node_id)]
  BY <1>1, ArenaNow
<1>4. Carried(w) /\ \A q \in DOMAIN w : EntryFits(Data(nodes', w)[q])
  <2> HIDE DEF w
  <2> QED BY <1>1, <1>2, <1>3, WithKeeps DEF Carried, EntryFits, IsDir
<1>5. /\ node_id' = IF node_id \in DOMAIN nodes' THEN node_id + 1 ELSE node_id
      /\ files' = files
  BY DEF create_dir, Counted
<1>6. files' = [h \in Handles |-> files'[h]] /\ \A h \in Handles : HandleStep(h)
  BY <1>3, <1>5 DEF HandleStep
<1> HIDE DEF w
<1> QED BY <1>1, <1>4, <1>5, <1>6, ArenaStep

LEMMA RemoveKeeps ==
    ASSUME Arena, NEW p \in Paths, remove(p) PROVE Arena'
<1> DEFINE w == Without(Where(nodes), p)
<1>1. /\ Shape(nodes', w) /\ Data(nodes', w) = Without(Resources, p)
  BY RemoveStepShape
<1>2. /\ DOMAIN Resources = DOMAIN Where(nodes) /\ node_id \notin DOMAIN nodes
      /\ \A q \in DOMAIN Resources : EntryFits(Resources[q])
      /\ files \in [Handles -> Handle(node_id)]
      /\ DOMAIN nodes = {Where(nodes)[q] : q \in DOMAIN Where(nodes)}
  BY ArenaNow
<1>3. /\ DOMAIN w = DOMAIN Where(nodes) \ {p} /\ \A q \in DOMAIN w : w[q] = Where(nodes)[q]
      /\ \A q \in DOMAIN w : Data(nodes', w)[q] = Resources[q]
  BY <1>1, <1>2 DEF Without
<1> HIDE DEF w
<1>4. Carried(w) /\ \A q \in DOMAIN w : EntryFits(Data(nodes', w)[q])
  BY <1>2, <1>3 DEF Carried
<1>5. node_id' = node_id /\ files' = files /\ node_id \notin DOMAIN nodes'
  <2>1. DOMAIN nodes' = {w[q] : q \in DOMAIN w}
    BY <1>1 DEF Shape
  <2> QED BY <1>2, <1>3, <2>1 DEF remove
<1>6. files' = [h \in Handles |-> files'[h]] /\ \A h \in Handles : HandleStep(h)
  BY <1>2, <1>5 DEF HandleStep
<1> QED BY <1>1, <1>4, <1>5, <1>6, ArenaStep

\* Each path after a rename, and the path it was before.
LEMMA MovedFrom ==
    ASSUME Arena, NEW pair \in Renames, rename(pair[1], pair[2])
    PROVE  LET D(r) == Dest(r, pair[1], pair[2])
               w    == Moved(Where(nodes), pair[1], pair[2])
           IN  /\ DOMAIN w = {D(r) : r \in DOMAIN Where(nodes) \ {pair[2]}}
               /\ \A r \in DOMAIN Where(nodes) \ {pair[2]} :
                     w[D(r)] = Where(nodes)[r] /\ Data(nodes', w)[D(r)] = Resources[r]
<1> DEFINE from == pair[1]
           to == pair[2]
<1>1. /\ Movable(nodes, Where(nodes), from, to)
      /\ Data(nodes', Moved(Where(nodes), from, to)) = Moved(Resources, from, to)
  BY RenameShape
<1>2. Shape(nodes, Where(nodes)) /\ DOMAIN Resources = DOMAIN Where(nodes)
  BY ArenaNow
<1>3. Carries(Moved(Where(nodes), from, to), Where(nodes), from, to)
  <2> HIDE DEF from, to
  <2> QED BY <1>1, <1>2, DestIs
<1>4. Carries(Moved(Resources, from, to), Resources, from, to)
  <2> HIDE DEF from, to
  <2> QED BY <1>1, <1>2, DestIs
<1>5. Data(nodes', Moved(Where(nodes), from, to)) = Moved(Resources, from, to)
  BY <1>1
<1> QED BY <1>2, <1>3, <1>4, <1>5 DEF Carries

LEMMA RenameKeeps ==
    ASSUME Arena, NEW pair \in Renames, rename(pair[1], pair[2]) PROVE Arena'
<1> DEFINE w == Moved(Where(nodes), pair[1], pair[2])
           D(r) == Dest(r, pair[1], pair[2])
           stay == DOMAIN Where(nodes) \ {pair[2]}
<1>1. Shape(nodes', w)
  BY RenameShape
<1>2. /\ DOMAIN Resources = DOMAIN Where(nodes) /\ node_id \notin DOMAIN nodes
      /\ \A q \in DOMAIN Resources : EntryFits(Resources[q])
      /\ files \in [Handles -> Handle(node_id)]
      /\ DOMAIN nodes = {Where(nodes)[q] : q \in DOMAIN Where(nodes)}
  BY ArenaNow
<1>3. /\ DOMAIN w = {D(r) : r \in stay}
      /\ \A r \in stay : w[D(r)] = Where(nodes)[r] /\ Data(nodes', w)[D(r)] = Resources[r]
  BY MovedFrom
<1> HIDE DEF w, D
<1>4. Carried(w)
  BY <1>3 DEF Carried
<1>5. \A q \in DOMAIN w : EntryFits(Data(nodes', w)[q])
  BY <1>2, <1>3
<1>6. node_id' = node_id /\ files' = files /\ node_id \notin DOMAIN nodes'
  <2>1. DOMAIN nodes' = {w[q] : q \in DOMAIN w}
    BY <1>1 DEF Shape
  <2> QED BY <1>2, <1>3, <2>1 DEF rename
<1>7. files' = [h \in Handles |-> files'[h]] /\ \A h \in Handles : HandleStep(h)
  BY <1>2, <1>6 DEF HandleStep
<1> QED BY <1>1, <1>4, <1>5, <1>6, <1>7, ArenaStep

LEMMA CopyKeeps ==
    ASSUME Arena, NEW from \in Paths, NEW to \in Paths, copy(from, to) PROVE Arena'
<1> DEFINE w == Opened(to)
<1>1. /\ IsFile(Resources, from) /\ ~IsDir(Resources, to)
      /\ Shape(nodes', w) /\ Data(nodes', w) = With(Resources, to, Resources[from])
  BY CopyShape
<1>2. /\ \A q \in DOMAIN Resources : EntryFits(Resources[q])
      /\ files \in [Handles -> Handle(node_id)]
  BY ArenaNow
<1>3. EntryFits(Resources[from]) /\ Resources[from] # Dir
  BY <1>1, <1>2 DEF IsFile
<1> HIDE DEF w
<1>4. Carried(w) /\ \A q \in DOMAIN w : EntryFits(Data(nodes', w)[q])
  BY <1>1, <1>3, WithKeeps DEF Carried, w
<1>5. /\ node_id' = IF node_id \in DOMAIN nodes' THEN node_id + 1 ELSE node_id
      /\ files' = files
  BY DEF copy, Counted
<1>6. files' = [h \in Handles |-> files'[h]] /\ \A h \in Handles : HandleStep(h)
  BY <1>2, <1>5 DEF HandleStep
<1> QED BY <1>1, <1>4, <1>5, <1>6, ArenaStep

LEMMA OpenKeeps ==
    ASSUME Arena, NEW h \in Handles, NEW p \in Paths, NEW create \in BOOLEAN, NEW create_new \in BOOLEAN,
           NEW truncate \in BOOLEAN, NEW append \in BOOLEAN,
           open(h, p, create, create_new, truncate, append)
    PROVE  Arena'
<1> DEFINE w == Opened(p)
<1>1. /\ ~IsDir(Resources, p)
      /\ Shape(nodes', w) /\ p \in DOMAIN w
      /\ Data(nodes', w) = IF p \notin DOMAIN Resources \/ truncate
                           THEN With(Resources, p, <<>>) ELSE Resources
      /\ files' = [files EXCEPT ![h] = [node_id |-> w[p], pos |-> 0, append |-> append]]
  BY OpenStepShape
<1>2. DOMAIN Resources = DOMAIN Where(nodes) /\ files \in [Handles -> Handle(node_id)]
  BY ArenaNow
<1>3. Carried(w) /\ \A q \in DOMAIN w : EntryFits(Data(nodes', w)[q])
  <2>1. CASE p \notin DOMAIN Resources \/ truncate
    <3>1. Data(nodes', w) = With(Resources, p, <<>>)
      BY <1>1, <2>1
    <3>2. EntryFits(<<>>) /\ <<>> # Dir
      BY NothingIsNotDir, MemFsAssumption DEF EntryFits
    <3> HIDE DEF w
    <3> QED BY <1>1, <3>1, <3>2, WithKeeps DEF Carried, w
  <2>2. CASE ~(p \notin DOMAIN Resources \/ truncate)
    <3>1. w = Where(nodes) /\ Data(nodes', w) = Resources
      BY <1>1, <1>2, <2>2 DEF Opened
    <3> HIDE DEF w
    <3> QED BY <3>1, SameKeeps
  <2> QED BY <2>1, <2>2
<1>4. ~IsDirNode(nodes', w[p]) /\ w[p] \in DOMAIN nodes'
  <2>1. ~IsDir(Data(nodes', w), p)
    <3>1. CASE p \notin DOMAIN Resources \/ truncate
      <4>1. Data(nodes', w) = With(Resources, p, <<>>)
        BY <1>1, <3>1
      <4> QED BY <4>1, NothingIsNotDir DEF With, IsDir
    <3>2. CASE ~(p \notin DOMAIN Resources \/ truncate)
      BY <1>1, <3>2
    <3> QED BY <3>1, <3>2
  <2> HIDE DEF w
  <2> QED BY <1>1, <2>1, DataIs, NodeOf
<1> HIDE DEF w
<1>5. files' = [i \in Handles |-> files'[i]] /\ \A i \in Handles : HandleStep(i)
  <2>1. files'[h] = [node_id |-> w[p], pos |-> 0, append |-> append] /\ \A i \in Handles \ {h} : files'[i] = files[i]
    BY <1>1, <1>2
  <2>2. 0 \in 0..MaxPos
    BY MemFsAssumption
  <2>3. HandleStep(h)
    BY <1>4, <2>1, <2>2 DEF HandleStep
  <2>4. files' = [i \in Handles |-> files'[i]]
    BY <1>1, <1>2
  <2> QED BY <2>1, <2>3, <2>4 DEF HandleStep
<1>6. node_id' = IF node_id \in DOMAIN nodes' THEN node_id + 1 ELSE node_id
  BY DEF open, Counted
<1> QED BY <1>1, <1>3, <1>5, <1>6, ArenaStep

LEMMA ArenaStays ==
    ASSUME Arena, nodes' = nodes, node_id' = node_id, files' = [h \in Handles |-> files'[h]],
           \A h \in Handles : HandleStep(h)
    PROVE  Arena'
<1>1. Shape(nodes', Where(nodes)) /\ Data(nodes', Where(nodes)) = Resources /\ node_id \notin DOMAIN nodes'
  BY ArenaNow
<1> QED BY <1>1, SameKeeps, ArenaStep

LEMMA HandleKeeps ==
    ASSUME Arena, NEW h \in Handles,
           \/ \E buf \in Buffers : write(h, buf)
           \/ \E count \in 1..MaxLen : read(h, count)
           \/ \E from \in {"start", "current", "end"}, offset \in -MaxLen..MaxPos : seek(h, from, offset)
           \/ close(h)
    PROVE  Arena'
<1>1. ASSUME NEW buf \in Buffers, write(h, buf) PROVE Arena'
  <2>1. PICK p \in DOMAIN Where(nodes), pos \in 0..MaxPos :
              /\ HasFile(h) /\ ~IsDir(Resources, p) /\ p \in DOMAIN Resources
              /\ \/ nodes' = nodes /\ files' = [files EXCEPT ![h].pos = pos]
                 \/ /\ pos + Len(buf) <= MaxPos
                    /\ files' = [files EXCEPT ![h].pos = pos + Len(buf)]
                    /\ Shape(nodes', Where(nodes))
                    /\ Data(nodes', Where(nodes)) = With(Resources, p, FS!Written(Resources[p], pos, buf))
                    /\ FS!Written(Resources[p], pos, buf) \in Seq(Nat)
                    /\ Len(FS!Written(Resources[p], pos, buf)) <= MaxPos
    BY <1>1, WriteShape
  <2>2. files[h] # Closed /\ node_id' = node_id
    BY <1>1 DEF write, HasFile
  <2>3. CASE nodes' = nodes /\ files' = [files EXCEPT ![h].pos = pos]
    BY <2>2, <2>3, HandlesMoveOn, ArenaStays
  <2>4. CASE /\ pos + Len(buf) <= MaxPos
             /\ files' = [files EXCEPT ![h].pos = pos + Len(buf)]
             /\ Shape(nodes', Where(nodes))
             /\ Data(nodes', Where(nodes)) = With(Resources, p, FS!Written(Resources[p], pos, buf))
             /\ FS!Written(Resources[p], pos, buf) \in Seq(Nat)
             /\ Len(FS!Written(Resources[p], pos, buf)) <= MaxPos
    <3> DEFINE new == FS!Written(Resources[p], pos, buf)
    <3>1. new # Dir /\ EntryFits(new) /\ buf \in Seq(Nat)
      BY <2>4, MemFsAssumption DEF EntryFits
    <3>2. p \in Paths /\ Where(nodes) = Opened(p) /\ node_id \notin DOMAIN nodes /\ DOMAIN nodes' = DOMAIN nodes
      BY <2>4, ArenaNow, NodeOf DEF Opened, Shape
    <3>3. pos + Len(buf) \in 0..MaxPos
      BY <2>4, <3>1, MemFsAssumption
    <3> HIDE DEF new
    <3>4. Carried(Where(nodes)) /\ \A q \in DOMAIN Where(nodes) : EntryFits(Data(nodes', Where(nodes))[q])
      BY <2>1, <2>4, <3>1, <3>2, WithKeeps DEF Carried, new
    <3>5. files' = [i \in Handles |-> files'[i]] /\ \A i \in Handles : HandleStep(i)
      BY <2>2, <2>4, <3>3, HandlesMoveOn
    <3> QED BY <2>2, <2>4, <3>2, <3>4, <3>5, ArenaStep
  <2> QED BY <2>1, <2>3, <2>4
<1>2. ASSUME NEW count \in 1..MaxLen, read(h, count) PROVE Arena'
  <2>1. node_id' = node_id
    BY <1>2 DEF read
  <2> QED BY <1>2, <2>1, ReadMoves, HandlesMoveOn, ArenaStays
<1>3. ASSUME NEW from \in {"start", "current", "end"}, NEW offset \in -MaxLen..MaxPos, seek(h, from, offset)
      PROVE  Arena'
  <2>1. node_id' = node_id
    BY <1>3 DEF seek
  <2> QED BY <1>3, <2>1, SeekMoves, HandlesMoveOn, ArenaStays
<1>4. ASSUME close(h) PROVE Arena'
  <2>1. nodes' = nodes /\ node_id' = node_id /\ files' = [files EXCEPT ![h] = Closed]
    BY <1>4 DEF close
  <2>2. files \in [Handles -> Handle(node_id)]
    BY ArenaNow
  <2>3. files' = [i \in Handles |-> files'[i]] /\ \A i \in Handles : HandleStep(i)
    BY <2>1, <2>2 DEF HandleStep
  <2> QED BY <2>1, <2>3, ArenaStays
<1> QED BY <1>1, <1>2, <1>3, <1>4

\* The nameless member that MKCOL of the root makes is at no path: what
\* follows is about servers that are spared it.
LEMMA ArenaNextKeeps == ASSUME Root \notin Mkcols PROVE Arena /\ [Next]_vars => Arena'
<1> SUFFICES ASSUME Arena, [Next]_vars PROVE Arena'
  OBVIOUS
<1>1. CASE UNCHANGED vars
  <2>1. Where(nodes)' = Where(nodes) /\ nodes' = nodes /\ node_id' = node_id /\ files' = files
    BY <1>1 DEF vars, Where
  <2> QED BY <2>1 DEF Arena, TypeOK, HasFile
<1>2. CASE Next
  BY <1>2, CreateKeeps, RemoveKeeps, RenameKeeps, CopyKeeps, OpenKeeps, HandleKeeps DEF Next
<1> QED BY <1>1, <1>2

\* Every call of memfs.rs keeps the arena the tree of its paths, and of the
\* type that MemFs states.
THEOREM ArenaHolds == ASSUME Root \notin Mkcols PROVE Spec => []Arena
<1>1. Arena /\ [Next]_vars => Arena'
  BY ArenaNextKeeps
<1> QED BY <1>1, ArenaInit, PTL DEF Spec

-----------------------------------------------------------------------------
(* The arena is a tree, and answers as one.                                *)

LEMMA TreeFromArena == Arena => ArenaIsTree
<1> SUFFICES ASSUME Arena PROVE ArenaIsTree
  OBVIOUS
<1> DEFINE at == Where(nodes)
<1>1. Shape(nodes, at) /\ IsFiniteSet(DOMAIN nodes) /\ TypeOK
  BY ArenaNow DEF Arena
<1> HIDE DEF at
<1>2. \A p, q \in DOMAIN at : at[p] = at[q] => p = q
  BY <1>1 DEF Shape
<1>3. ASSUME NEW id \in DOMAIN nodes \ {ROOT_ID}
      PROVE  /\ nodes[id].parent \in DOMAIN nodes
             /\ ROOT_ID \in Ancestors(nodes, id)
             /\ \E name \in DOMAIN nodes[nodes[id].parent].children :
                   nodes[nodes[id].parent].children[name] = id
  <2>1. PICK p \in DOMAIN at : at[p] = id
    BY <1>1 DEF Shape
  <2>2. p # Root /\ Root \in DOMAIN at /\ at[Root] = ROOT_ID /\ Root \in Paths /\ p \in Paths
    BY <1>1, <2>1 DEF Shape
  <2>3. /\ Parent(p) \in DOMAIN at /\ nodes[id].parent = at[Parent(p)] /\ at[Parent(p)] \in DOMAIN nodes
        /\ file_name(p) \in DOMAIN nodes[at[Parent(p)]].children
        /\ nodes[at[Parent(p)]].children[file_name(p)] = id
    BY <1>1, <2>1, <2>2 DEF Shape
  <2>4. Root \in Trail(p)
    BY <2>2, RootIsAbove DEF Trail
  <2>5. ROOT_ID \in Ancestors(nodes, id)
    BY <1>1, <2>1, <2>2, <2>4, AncestorsAre
  <2> QED BY <2>3, <2>5
<1>4. ASSUME NEW id \in DOMAIN nodes, NEW name \in DOMAIN nodes[id].children
      PROVE  LET child == nodes[id].children[name]
             IN  /\ child \in DOMAIN nodes
                 /\ nodes[child].parent = id
                 /\ IsDirNode(nodes, id)
                 /\ \A other \in DOMAIN nodes[id].children \ {name} :
                       nodes[id].children[other] # child
  <2>1. PICK p \in DOMAIN at : at[p] = id
    BY <1>1 DEF Shape
  <2>2. PICK q \in DOMAIN at \ {Root} :
           Parent(q) = p /\ file_name(q) = name /\ nodes[id].children[name] = at[q]
    BY <1>1, <2>1, LinksAre
  <2>3. at[q] \in DOMAIN nodes /\ nodes[at[q]].parent = id /\ IsDirNode(nodes, id)
    BY <1>1, <2>1, <2>2, NodeOf
  <2>4. ASSUME NEW other \in DOMAIN nodes[id].children \ {name} PROVE nodes[id].children[other] # at[q]
    <3>1. PICK s \in DOMAIN at \ {Root} :
             Parent(s) = p /\ file_name(s) = other /\ nodes[id].children[other] = at[s]
      BY <1>1, <2>1, LinksAre
    <3> QED BY <1>2, <2>2, <3>1
  <2> QED BY <2>2, <2>3, <2>4
<1> QED BY <1>1, <1>3, <1>4 DEF ArenaIsTree

\* The arena of MemFs is always one tree, whose nodes have one link each:
\* delete_node and move_node leave nothing behind that no path leads to.
THEOREM AlwaysTree == ASSUME Root \notin Mkcols PROVE Spec => []ArenaIsTree
<1>1. Spec => []Arena
  BY ArenaHolds
<1> QED BY <1>1, TreeFromArena, PTL

LEMMA AnswersFromArena == ASSUME Root \notin Mkcols PROVE Arena => AnswersAgree
<1> SUFFICES ASSUME Arena PROVE AnswersAgree
  OBVIOUS
<1>1. /\ Shape(nodes, Where(nodes)) /\ Resources = Data(nodes, Where(nodes))
      /\ DOMAIN Resources = DOMAIN Where(nodes) /\ IsFiniteSet(DOMAIN nodes)
  BY ArenaNow
<1>2. ASSUME NEW p \in Mkcols PROVE CreateErrors(nodes, p) = CreateDirErrors(Resources, p)
  BY <1>1, MemFsAssumption, CreateAgrees
<1>3. ASSUME NEW p \in Paths PROVE DeleteErrors(nodes, p) = RemoveErrors(Resources, p)
  BY <1>1, DeleteAgrees
<1>4. ASSUME NEW p \in Paths, NEW create \in BOOLEAN, NEW create_new \in BOOLEAN
      PROVE  DoOpenErrors(nodes, p, create, create_new) = OpenErrors(Resources, p, create, create_new)
  BY <1>1, OpenAgrees
<1>5. ASSUME NEW p \in Paths, NEW q \in Paths PROVE CopyFileErrors(nodes, p, q) = CopyErrors(Resources, p, q)
  BY <1>1, CopyAgrees
<1>6. ASSUME NEW pair \in Renames, FitsPaths(pair[1], pair[2])
      PROVE  MoveErrors(nodes, pair[1], pair[2]) = RenameErrors(Resources, pair[1], pair[2])
  <2>1. pair[1] \in Paths /\ pair[2] \in Paths /\ pair[1] # pair[2]
    BY MemFsAssumption
  <2> QED BY <1>1, <1>6, <2>1, MoveAgrees DEF FitsPaths
<1>7. ASSUME NEW p \in Paths, IsDir(Resources, p)
      PROVE  DOMAIN nodes[Lookup(nodes, p)].children = {file_name(q) : q \in Members(Resources, p)}
  <2>1. p \in DOMAIN Where(nodes)
    BY <1>1, <1>7 DEF IsDir
  <2>2. Lookup(nodes, p) = Where(nodes)[p]
    BY <1>1, <2>1, DataIs
  <2> QED BY <1>1, <2>1, <2>2, ListingAgrees
<1> QED BY <1>2, <1>3, <1>4, <1>5, <1>6, <1>7 DEF AnswersAgree

\* Every call of memfs.rs fails exactly when, and as, the contract of the file
\* system says for the resources that paths lead to.
THEOREM AlwaysAgrees == ASSUME Root \notin Mkcols PROVE Spec => []AnswersAgree
<1>1. Spec => []Arena
  BY ArenaHolds
<1>2. Arena => AnswersAgree
  BY AnswersFromArena
<1> QED BY <1>1, <1>2, PTL

-----------------------------------------------------------------------------
(* The arena implements the file store.                                    *)

Record(p, f) == [at |-> p, pos |-> f.pos, append |-> f.append]

\* The place of the file f, when w tells the node of each path.
PathOf(w, id) == IF \E p \in DOMAIN w : w[p] = id THEN CHOOSE p \in DOMAIN w : w[p] = id ELSE Gone

PlaceIn(w, f) == IF f = Closed THEN Closed ELSE Record(PathOf(w, f.node_id), f)

LEMMA PlaceInIs ==
    ASSUME NEW w, \A p, q \in DOMAIN w : w[p] = w[q] => p = q, NEW f, f # Closed
    PROVE  /\ \A p \in DOMAIN w : w[p] = f.node_id => PlaceIn(w, f) = Record(p, f)
           /\ (\A p \in DOMAIN w : w[p] # f.node_id) => PlaceIn(w, f) = Record(Gone, f)
<1>1. ASSUME NEW p \in DOMAIN w, w[p] = f.node_id PROVE PlaceIn(w, f) = Record(p, f)
  <2>1. (CHOOSE q \in DOMAIN w : w[q] = f.node_id) = p
    BY <1>1
  <2> QED BY <1>1, <2>1 DEF PlaceIn, PathOf
<1> QED BY <1>1 DEF PlaceIn, PathOf

\* Place, of a node that lookup finds, is PlaceIn.
PlaceOf(n, f) ==
    IF f = Closed THEN Closed
    ELSE Record(IF f.node_id \in DOMAIN n THEN CHOOSE p \in Paths : Lookup(n, p) = f.node_id
                ELSE Gone, f)

LEMMA PlaceOfIs ==
    ASSUME NEW n, NEW w, Shape(n, w), NEW f
    PROVE  PlaceOf(n, f) = PlaceIn(w, f)
<1>1. CASE f = Closed
  BY <1>1 DEF PlaceOf, PlaceIn, PathOf
<1>2. CASE f # Closed /\ f.node_id \notin DOMAIN n
  <2>1. \A p \in DOMAIN w : w[p] # f.node_id
    BY <1>2, NodeOf
  <2> QED BY <1>2, <2>1 DEF PlaceOf, PlaceIn, PathOf
<1>3. CASE f # Closed /\ f.node_id \in DOMAIN n
  <2>1. PICK p \in DOMAIN w : w[p] = f.node_id
    BY <1>3 DEF Shape
  <2>2. p \in Paths /\ Lookup(n, p) = f.node_id /\ f.node_id # NO_PARENT
    BY <2>1, DataIs, NodeOf
  <2>3. ASSUME NEW q \in Paths, Lookup(n, q) = f.node_id PROVE q = p
    <3>1. q \in DOMAIN w /\ w[q] = f.node_id
      BY <2>2, <2>3, DataIs
    <3> QED BY <2>1, <3>1 DEF Shape
  <2>4. (CHOOSE q \in Paths : Lookup(n, q) = f.node_id) = p
    BY <2>2, <2>3
  <2>5. PlaceIn(w, f) = Record(p, f)
    BY <1>3, <2>1, PlaceInIs DEF Shape
  <2> QED BY <1>3, <2>4, <2>5 DEF PlaceOf
<1> QED BY <1>1, <1>2, <1>3

LEMMA PlaceNow ==
    ASSUME Arena, NEW h \in Handles
    PROVE  Place(h) = PlaceIn(Where(nodes), files[h])
<1>1. Place(h) = PlaceOf(nodes, files[h])
  BY DEF Place, PlaceOf, Record, HasFile
<1> QED BY <1>1, ArenaNow, PlaceOfIs

LEMMA PlaceNext ==
    ASSUME NEW w, Shape(nodes', w), NEW h \in Handles
    PROVE  Place(h)' = PlaceIn(w, files'[h])
<1>1. Place(h)' = PlaceOf(nodes', files'[h])
  BY DEF Place, PlaceOf, Record, HasFile
<1> QED BY <1>1, PlaceOfIs

\* Each handle is closed, at its file's path, or gone.
LEMMA HandleCases ==
    ASSUME Arena, NEW h \in Handles
    PROVE  \/ files[h] = Closed /\ Place(h) = Closed
           \/ /\ files[h] # Closed /\ Place(h) # Closed
              /\ files[h] \in [node_id : Nat, pos : 0..MaxPos, append : BOOLEAN] /\ files[h].node_id # node_id
              /\ \/ \E p \in DOMAIN Where(nodes) :
                       /\ Where(nodes)[p] = files[h].node_id /\ HasFile(h)
                       /\ Place(h) = Record(p, files[h]) /\ p # Gone
                 \/ /\ \A p \in DOMAIN Where(nodes) : Where(nodes)[p] # files[h].node_id
                    /\ ~HasFile(h) /\ Place(h) = Record(Gone, files[h])
<1> DEFINE at == Where(nodes)
           f == files[h]
<1>1. /\ Place(h) = PlaceIn(at, f) /\ Shape(nodes, at) /\ DOMAIN nodes = {at[p] : p \in DOMAIN at}
      /\ f \in Handle(node_id)
  BY PlaceNow, ArenaNow
<1> HIDE DEF at
<1>2. CASE f = Closed
  BY <1>1, <1>2 DEF PlaceIn, PathOf
<1>3. CASE f # Closed
  <2>1. f \in [node_id : ROOT_ID..node_id - 1, pos : 0..MaxPos, append : BOOLEAN] /\ node_id \in Nat
    BY <1>1, <1>3, ArenaNow DEF Handle
  <2>2. f \in [node_id : Nat, pos : 0..MaxPos, append : BOOLEAN] /\ f.node_id # node_id /\ MaxPos \in Nat
    BY <2>1, MemFsAssumption DEF ROOT_ID
  <2>3. \A p \in Paths \cup {Gone} : Record(p, f) # Closed
    <3> SUFFICES ASSUME NEW p \in Paths \cup {Gone} PROVE Record(p, f) # Closed
      OBVIOUS
    <3>1. Record(p, f) \in [at : Paths \cup {Gone}, pos : Nat, append : BOOLEAN]
      BY <2>2 DEF Record
    <3> QED BY <3>1, MemFsAssumption
  <2>4. DOMAIN at \subseteq Paths /\ Gone \notin Paths /\ \A p, q \in DOMAIN at : at[p] = at[q] => p = q
    BY <1>1, MemFsAssumption DEF Shape
  <2>5. ASSUME NEW p \in DOMAIN at, at[p] = f.node_id
        PROVE  HasFile(h) /\ Place(h) = Record(p, f) /\ p # Gone /\ Place(h) # Closed
    BY <1>1, <1>3, <2>3, <2>4, <2>5, PlaceInIs DEF HasFile
  <2>6. ASSUME \A p \in DOMAIN at : at[p] # f.node_id
        PROVE  ~HasFile(h) /\ Place(h) = Record(Gone, f) /\ Place(h) # Closed
    BY <1>1, <1>3, <2>3, <2>4, <2>6, PlaceInIs DEF HasFile
  <2>7. CASE \E p \in DOMAIN at : at[p] = f.node_id
    BY <1>3, <2>2, <2>5, <2>7 DEF at
  <2>8. CASE \A p \in DOMAIN at : at[p] # f.node_id
    BY <1>3, <2>2, <2>6, <2>8 DEF at
  <2> QED BY <2>7, <2>8
<1> QED BY <1>2, <1>3

\* FileStore reads paths and trees as MemFs does.
LEMMA SamePaths ==
    ASSUME NEW p, NEW q, NEW r
    PROVE  /\ FS!Root = Root /\ FS!Parent(p) = Parent(p) /\ FS!Above(p, q) = Above(p, q)
           /\ FS!Rebase(p, q, r) = Rebase(p, q, r) /\ FS!Trail(p) = Trail(p) /\ FS!Subtree(p) = Subtree(p)
  BY DEF FS!Root, Root, FS!Parent, Parent, FS!Above, Above, FS!Rebase, Rebase, FS!Trail, Trail,
         FS!Subtree, Subtree

LEMMA SameTrees ==
    ASSUME NEW f, NEW p, NEW q, NEW entry
    PROVE  /\ FS!With(f, p, entry) = With(f, p, entry) /\ FS!Without(f, p) = Without(f, p)
           /\ FS!Moved(f, p, q) = Moved(f, p, q) /\ FS!Members(f, p) = Members(f, p)
           /\ FS!IsDir(f, p) = IsDir(f, p) /\ FS!IsFile(f, p) = IsFile(f, p)
  BY SamePaths DEF FS!With, With, FS!Without, Without, FS!Moved, Moved, FS!Members, Members,
                   FS!IsDir, IsDir, FS!IsFile, IsFile

LEMMA SameErrors ==
    ASSUME NEW f, NEW p, NEW q, NEW create, NEW create_new
    PROVE  /\ FS!CreateDirErrors(f, p) = CreateDirErrors(f, p) /\ FS!RemoveErrors(f, p) = RemoveErrors(f, p)
           /\ FS!OpenErrors(f, p, create, create_new) = OpenErrors(f, p, create, create_new)
           /\ FS!CopyErrors(f, p, q) = CopyErrors(f, p, q) /\ FS!RenameErrors(f, p, q) = RenameErrors(f, p, q)
<1>1. ASSUME NEW x PROVE FS!Missing(f, x) = Missing(f, x)
  <2>1. FS!Trail(x) = Trail(x) /\ \A y : FS!IsFile(f, y) <=> IsFile(f, y)
    BY SamePaths, SameTrees
  <2> QED BY <2>1 DEF FS!Missing, Missing
<1>2. \A x : FS!ParentErrors(f, x) = ParentErrors(f, x)
  BY <1>1, SamePaths, SameTrees DEF FS!ParentErrors, ParentErrors
<1>3. FS!CreateDirErrors(f, p) = CreateDirErrors(f, p)
  BY <1>2 DEF FS!CreateDirErrors, CreateDirErrors
<1>4. FS!RemoveErrors(f, p) = RemoveErrors(f, p)
  BY <1>1, SamePaths, SameTrees DEF FS!RemoveErrors, RemoveErrors
<1>5. \A x, c, n : FS!OpenErrors(f, x, c, n) = OpenErrors(f, x, c, n)
  BY <1>1, <1>2, SameTrees DEF FS!OpenErrors, OpenErrors
<1>6. FS!CopyErrors(f, p, q) = CopyErrors(f, p, q)
  BY <1>1, <1>5, SameTrees DEF FS!CopyErrors, CopyErrors
<1>7. FS!RenameErrors(f, p, q) = RenameErrors(f, p, q)
  BY <1>1, <1>2, SamePaths, SameTrees DEF FS!RenameErrors, RenameErrors
<1> QED BY <1>3, <1>4, <1>5, <1>6, <1>7

\* The handles as the file store has them.
fds == [h \in Handles |-> Place(h)]

\* Where other paths are given a node, or bytes, the handles stay.
LEMMA PlaceExtended ==
    ASSUME Arena, NEW p, Shape(nodes', Opened(p)), NEW h \in Handles, files'[h] = files[h]
    PROVE  Place(h)' = Place(h)
<1> DEFINE at == Where(nodes)
           w == Opened(p)
<1>1. Shape(nodes, at) /\ Place(h)' = PlaceIn(w, files[h])
  BY PlaceNext, ArenaNow
<1>2. /\ \A q \in DOMAIN at : q \in DOMAIN w /\ w[q] = at[q]
      /\ \A q \in DOMAIN w : q \in DOMAIN at \/ w[q] = node_id
  BY DEF Opened, With
<1>3. \A q, r \in DOMAIN w : w[q] = w[r] => q = r
  BY DEF Shape
<1> HIDE DEF at, w
<1>4. CASE files[h] = Closed
  BY <1>1, <1>4, HandleCases DEF PlaceIn, PathOf
<1>5. CASE \E q \in DOMAIN at : files[h] # Closed /\ at[q] = files[h].node_id /\ Place(h) = Record(q, files[h])
  BY <1>1, <1>2, <1>3, <1>5, PlaceInIs
<1>6. CASE /\ \A q \in DOMAIN at : at[q] # files[h].node_id
           /\ files[h] # Closed /\ files[h].node_id # node_id /\ Place(h) = Record(Gone, files[h])
  BY <1>1, <1>2, <1>3, <1>6, PlaceInIs
<1> QED BY <1>4, <1>5, <1>6, HandleCases DEF at

LEMMA CreateMaps ==
    ASSUME Arena, NEW p \in Mkcols \ {Root}, create_dir(p) PROVE FS!CreateDir(p)
<1>1. /\ CreateDirErrors(Resources, p) = {} /\ p \notin DOMAIN Where(nodes)
      /\ Shape(nodes', With(Where(nodes), p, node_id))
      /\ Data(nodes', With(Where(nodes), p, node_id)) = With(Resources, p, Dir)
  BY CreateShape
<1>2. Opened(p) = With(Where(nodes), p, node_id)
  BY <1>1 DEF Opened
<1>3. Resources' = With(Resources, p, Dir)
  BY <1>1, ArenaNext
<1>4. \A h \in Handles : Place(h)' = Place(h)
  BY <1>1, <1>2, PlaceExtended DEF create_dir
<1> QED BY <1>1, <1>3, <1>4, SameTrees, SameErrors DEF FS!CreateDir

LEMMA CopyMaps ==
    ASSUME Arena, NEW from \in Paths, NEW to \in Paths, copy(from, to) PROVE FS!Copy(from, to)
<1>1. /\ CopyErrors(Resources, from, to) = {}
      /\ Shape(nodes', Opened(to))
      /\ Data(nodes', Opened(to)) = With(Resources, to, Resources[from])
  BY CopyShape
<1>2. Resources' = With(Resources, to, Resources[from])
  BY <1>1, ArenaNext
<1>3. \A h \in Handles : Place(h)' = Place(h)
  BY <1>1, PlaceExtended DEF copy
<1> QED BY <1>1, <1>2, <1>3, SameTrees, SameErrors DEF FS!Copy

LEMMA OpenMaps ==
    ASSUME Arena, NEW h \in Handles, NEW p \in Paths, NEW create \in BOOLEAN, NEW create_new \in BOOLEAN,
           NEW truncate \in BOOLEAN, NEW append \in BOOLEAN,
           open(h, p, create, create_new, truncate, append)
    PROVE  FS!OpenFile(h, p, create, create_new, truncate, append)
<1>1. /\ OpenErrors(Resources, p, create, create_new) = {}
      /\ Shape(nodes', Opened(p)) /\ p \in DOMAIN Opened(p)
      /\ Data(nodes', Opened(p)) = IF p \notin DOMAIN Resources \/ truncate
                                   THEN With(Resources, p, <<>>) ELSE Resources
      /\ files' = [files EXCEPT ![h] = [node_id |-> Opened(p)[p], pos |-> 0, append |-> append]]
  BY OpenStepShape
<1>2. files \in [Handles -> Handle(node_id)] /\ files[h] = Closed
  BY ArenaNow DEF open
<1>3. Resources' = IF p \notin DOMAIN Resources \/ truncate THEN With(Resources, p, <<>>) ELSE Resources
  BY <1>1, ArenaNext
<1>4. \A i \in Handles \ {h} : Place(i)' = Place(i)
  BY <1>1, <1>2, PlaceExtended
<1>5. Place(h)' = [at |-> p, pos |-> 0, append |-> append]
  <2> DEFINE f == [node_id |-> Opened(p)[p], pos |-> 0, append |-> append]
  <2>1. files'[h] = f /\ Place(h)' = PlaceIn(Opened(p), f)
    BY <1>1, <1>2, PlaceNext
  <2>2. f # Closed
    <3>1. Opened(p)[p] \in Nat
      BY <1>1, NodeOf
    <3>2. f \in [node_id : Nat, pos : Nat, append : BOOLEAN]
      BY <3>1
    <3> QED BY <3>2, MemFsAssumption
  <2>3. f.node_id = Opened(p)[p] /\ f.pos = 0 /\ f.append = append
    OBVIOUS
  <2> HIDE DEF f
  <2>4. \A q, r \in DOMAIN Opened(p) : Opened(p)[q] = Opened(p)[r] => q = r
    BY <1>1 DEF Shape
  <2>5. PlaceIn(Opened(p), f) = Record(p, f)
    BY <1>1, <2>2, <2>3, <2>4, PlaceInIs
  <2> QED BY <2>1, <2>3, <2>5 DEF Record
<1>6. Place(h) = Closed
  BY <1>2, HandleCases
<1>7. fds' = [fds EXCEPT ![h] = [at |-> p, pos |-> 0, append |-> append]]
  BY <1>4, <1>5 DEF fds
<1>8. fds[h] = Closed
  BY <1>6 DEF fds
<1> QED BY <1>1, <1>3, <1>7, <1>8, SameTrees, SameErrors DEF FS!OpenFile, FS!IsOpen, fds

LEMMA RecordMoves ==
    ASSUME NEW p, NEW q, NEW f
    PROVE  Record(p, f).at = p /\ [Record(p, f) EXCEPT !.at = q] = Record(q, f)
  BY DEF Record

LEMMA RemoveMaps ==
    ASSUME Arena, NEW p \in Paths, remove(p) PROVE FS!Remove(p)
<1> DEFINE at == Where(nodes)
           w == Without(at, p)
<1>1. /\ RemoveErrors(Resources, p) = {} /\ p \in DOMAIN at
      /\ Shape(nodes', w) /\ Data(nodes', w) = Without(Resources, p)
  BY RemoveStepShape
<1>2. Resources' = Without(Resources, p) /\ files' = files /\ Shape(nodes, at) /\ p # Gone
  BY <1>1, ArenaNext, ArenaNow, MemFsAssumption DEF remove
<1>3. DOMAIN w = DOMAIN at \ {p} /\ \A q \in DOMAIN w : w[q] = at[q]
  BY DEF Without
<1>4. /\ \A q, r \in DOMAIN at : at[q] = at[r] => q = r
      /\ \A q, r \in DOMAIN w : w[q] = w[r] => q = r
  BY <1>1, <1>2 DEF Shape
<1> HIDE DEF at, w
<1>5. ASSUME NEW h \in Handles
      PROVE  Place(h)' = IF Place(h) # Closed /\ Place(h).at = p THEN [Place(h) EXCEPT !.at = Gone] ELSE Place(h)
  <2>1. Place(h)' = PlaceIn(w, files[h])
    BY <1>1, <1>2, PlaceNext
  <2>2. CASE files[h] = Closed /\ Place(h) = Closed
    BY <2>1, <2>2 DEF PlaceIn, PathOf
  <2>3. ASSUME NEW q \in DOMAIN at, files[h] # Closed, Place(h) # Closed,
               at[q] = files[h].node_id, Place(h) = Record(q, files[h])
        PROVE  Place(h)' = IF Place(h) # Closed /\ Place(h).at = p THEN [Place(h) EXCEPT !.at = Gone] ELSE Place(h)
    <3>1. CASE q = p
      <4>1. \A r \in DOMAIN w : w[r] # files[h].node_id
        BY <1>3, <1>4, <2>3, <3>1
      <4>2. Place(h)' = Record(Gone, files[h])
        BY <1>4, <2>1, <2>3, <4>1, PlaceInIs
      <4> QED BY <2>3, <3>1, <4>2, RecordMoves
    <3>2. CASE q # p
      <4>1. q \in DOMAIN w /\ w[q] = files[h].node_id
        BY <1>3, <2>3, <3>2
      <4>2. Place(h)' = Record(q, files[h])
        BY <1>4, <2>1, <2>3, <4>1, PlaceInIs
      <4> QED BY <2>3, <3>2, <4>2, RecordMoves
    <3> QED BY <3>1, <3>2
  <2>4. ASSUME \A q \in DOMAIN at : at[q] # files[h].node_id, files[h] # Closed, Place(h) # Closed,
               Place(h) = Record(Gone, files[h])
        PROVE  Place(h)' = IF Place(h) # Closed /\ Place(h).at = p THEN [Place(h) EXCEPT !.at = Gone] ELSE Place(h)
    <3>1. Place(h)' = Record(Gone, files[h])
      BY <1>3, <1>4, <2>1, <2>4, PlaceInIs
    <3> QED BY <1>2, <2>4, <3>1, RecordMoves
  <2> QED BY <2>2, <2>3, <2>4, HandleCases DEF at
<1>6. fds' = [h \in Handles |-> IF fds[h] # Closed /\ fds[h].at = p THEN [fds[h] EXCEPT !.at = Gone] ELSE fds[h]]
  BY <1>5 DEF fds
<1> QED BY <1>1, <1>2, <1>6, SameTrees, SameErrors DEF FS!Remove, FS!IsOpen, fds

LEMMA RenameMaps ==
    ASSUME Arena, NEW pair \in Renames, rename(pair[1], pair[2])
    PROVE  pair[1] \in Paths /\ pair[2] \in Paths /\ FS!Rename(pair[1], pair[2])
<1> DEFINE at == Where(nodes)
           from == pair[1]
           to == pair[2]
           w == Moved(at, from, to)
           D(r) == Dest(r, from, to)
           After(place) == IF place = Closed \/ place.at = Gone THEN place
                          ELSE IF place.at = to THEN [place EXCEPT !.at = Gone]
                          ELSE IF Above(from, place.at) THEN [place EXCEPT !.at = Rebase(@, from, to)]
                          ELSE place
<1>1. /\ from \in Paths /\ to \in Paths /\ RenameErrors(Resources, from, to) = {}
      /\ Shape(nodes', w) /\ Data(nodes', w) = Moved(Resources, from, to)
  BY RenameShape
<1>2. Resources' = Moved(Resources, from, to) /\ files' = files /\ Shape(nodes, at)
  BY <1>1, ArenaNext, ArenaNow DEF rename
<1>3. /\ DOMAIN w = {D(r) : r \in DOMAIN at \ {to}}
      /\ \A r \in DOMAIN at \ {to} : w[D(r)] = at[r]
  BY MovedFrom
<1>4. /\ \A q, r \in DOMAIN at : at[q] = at[r] => q = r
      /\ \A q, r \in DOMAIN w : w[q] = w[r] => q = r
  BY <1>1, <1>2 DEF Shape
<1>5. \A r : D(r) = IF Above(from, r) THEN Rebase(r, from, to) ELSE r
  BY DEF Dest
<1> HIDE DEF at, w, from, to, D
<1>6. ASSUME NEW h \in Handles PROVE Place(h)' = After(Place(h))
  <2>1. Place(h)' = PlaceIn(w, files[h])
    BY <1>1, <1>2, PlaceNext
  <2>2. CASE files[h] = Closed /\ Place(h) = Closed
    BY <2>1, <2>2 DEF PlaceIn, PathOf
  <2>3. ASSUME NEW q \in DOMAIN at, files[h] # Closed, Place(h) # Closed,
               at[q] = files[h].node_id, Place(h) = Record(q, files[h]), q # Gone
        PROVE  Place(h)' = After(Place(h))
    <3>1. CASE q = to
      <4>1. \A r \in DOMAIN w : w[r] # files[h].node_id
        BY <1>3, <1>4, <2>3, <3>1
      <4>2. Place(h)' = Record(Gone, files[h])
        BY <1>4, <2>1, <2>3, <4>1, PlaceInIs
      <4> QED BY <2>3, <3>1, <4>2, RecordMoves
    <3>2. CASE q # to
      <4>1. D(q) \in DOMAIN w /\ w[D(q)] = files[h].node_id
        BY <1>3, <2>3, <3>2
      <4>2. Place(h)' = Record(D(q), files[h])
        BY <1>4, <2>1, <2>3, <4>1, PlaceInIs
      <4>3. Place(h).at = q
        BY <2>3, RecordMoves
      <4>4. CASE Above(from, q)
        <5>1. [Place(h) EXCEPT !.at = Rebase(@, from, to)] = Record(Rebase(q, from, to), files[h])
          BY <2>3 DEF Record
        <5>2. After(Place(h)) = [Place(h) EXCEPT !.at = Rebase(@, from, to)]
          BY <2>3, <3>2, <4>3, <4>4
        <5> QED BY <1>5, <4>2, <4>4, <5>1, <5>2
      <4>5. CASE ~Above(from, q)
        BY <1>5, <2>3, <3>2, <4>2, <4>3, <4>5
      <4> QED BY <4>4, <4>5
    <3> QED BY <3>1, <3>2
  <2>4. ASSUME \A q \in DOMAIN at : at[q] # files[h].node_id, files[h] # Closed, Place(h) # Closed,
               Place(h) = Record(Gone, files[h])
        PROVE  Place(h)' = After(Place(h))
    <3>1. \A q \in DOMAIN w : w[q] # files[h].node_id
      BY <1>3, <2>4
    <3>2. Place(h)' = Record(Gone, files[h])
      BY <1>4, <2>1, <2>4, <3>1, PlaceInIs
    <3> QED BY <2>4, <3>2, RecordMoves
  <2> HIDE DEF After
  <2> QED BY <2>2, <2>3, <2>4, HandleCases DEF at
<1>7. fds' = [h \in Handles |-> After(fds[h])]
  <2> HIDE DEF After
  <2> QED BY <1>6 DEF fds
<1>8. FS!Followed(from, to) = [h \in Handles |-> After(fds[h])]
  <2>1. ASSUME NEW h \in Handles
        PROVE  After(fds[h]) = IF ~(fds[h] # Closed) \/ fds[h].at = Gone THEN fds[h]
                              ELSE IF fds[h].at = to THEN [fds[h] EXCEPT !.at = Gone]
                              ELSE IF Above(from, fds[h].at) THEN [fds[h] EXCEPT !.at = Rebase(@, from, to)]
                              ELSE fds[h]
    OBVIOUS
  <2> HIDE DEF After
  <2> QED BY <2>1, SamePaths DEF FS!Followed, FS!IsOpen, fds
<1>9. FS!Rename(from, to)
  <2> HIDE DEF After
  <2> QED BY <1>1, <1>2, <1>7, <1>8, SameTrees, SameErrors DEF FS!Rename, fds
<1> QED BY <1>1, <1>9 DEF from, to

\* The arena stays, or the bytes of one file change, and a handle moves.
LEMMA HandleMaps ==
    ASSUME Arena, NEW h \in Handles, files[h] # Closed, NEW pos \in 0..MaxPos,
           files' = [files EXCEPT ![h].pos = pos], Shape(nodes', Where(nodes))
    PROVE  fds' = [fds EXCEPT ![h].pos = pos] /\ fds[h] # Closed
<1> DEFINE at == Where(nodes)
           g == [files[h] EXCEPT !.pos = pos]
<1>1. files \in [Handles -> Handle(node_id)]
  BY ArenaNow
<1>2. files[h] \in [node_id : ROOT_ID..node_id - 1, pos : 0..MaxPos, append : BOOLEAN]
  BY <1>1 DEF Handle
<1>3. files'[h] = g /\ \A i \in Handles \ {h} : files'[i] = files[i]
  BY <1>1
<1>4. \A i \in Handles : Place(i)' = PlaceIn(at, files'[i]) /\ Place(i) = PlaceIn(at, files[i])
  BY PlaceNext, PlaceNow
<1>5. g.node_id = files[h].node_id /\ g.append = files[h].append /\ g.pos = pos
  BY <1>2
<1>6. g # Closed
  <2>1. g \in [node_id : Nat, pos : Nat, append : BOOLEAN]
    BY <1>2, MemFsAssumption DEF ROOT_ID
  <2> QED BY <2>1, MemFsAssumption
<1> HIDE DEF g, at
<1>7. Place(h)' = [Place(h) EXCEPT !.pos = pos]
  BY <1>3, <1>4, <1>5, <1>6 DEF PlaceIn, Record
<1>8. \A i \in Handles \ {h} : Place(i)' = Place(i)
  BY <1>3, <1>4
<1>9. Place(h) # Closed
  BY HandleCases
<1> QED BY <1>7, <1>8, <1>9 DEF fds

LEMMA WriteMaps ==
    ASSUME Arena, NEW h \in Handles, NEW buf \in Buffers, write(h, buf)
    PROVE  FS!Write(h, buf) \/ \E pos \in 0..MaxPos : FS!Reposition(h, pos)
<1>1. PICK p \in DOMAIN Where(nodes), pos \in 0..MaxPos :
              /\ HasFile(h) /\ Where(nodes)[p] = files[h].node_id /\ p \in DOMAIN Resources
              /\ pos = IF files[h].append THEN Len(Resources[p]) ELSE files[h].pos
              /\ \/ nodes' = nodes /\ files' = [files EXCEPT ![h].pos = pos]
                 \/ /\ pos + Len(buf) <= MaxLen /\ pos + Len(buf) <= MaxPos
                    /\ files' = [files EXCEPT ![h].pos = pos + Len(buf)]
                    /\ Shape(nodes', Where(nodes))
                    /\ Data(nodes', Where(nodes)) = With(Resources, p, FS!Written(Resources[p], pos, buf))
  BY WriteShape
<1>2. files[h] # Closed /\ Shape(nodes, Where(nodes)) /\ Resources = Data(nodes, Where(nodes))
  BY <1>1, ArenaNow DEF HasFile
<1>3. CASE nodes' = nodes /\ files' = [files EXCEPT ![h].pos = pos]
  <2>1. Shape(nodes', Where(nodes)) /\ Resources' = Resources
    BY <1>2, <1>3, ArenaNext
  <2>2. fds' = [fds EXCEPT ![h].pos = pos] /\ fds[h] # Closed
    BY <1>2, <1>3, <2>1, HandleMaps
  <2> QED BY <2>1, <2>2 DEF FS!Reposition, FS!IsOpen, fds
<1>4. CASE /\ pos + Len(buf) <= MaxLen /\ pos + Len(buf) <= MaxPos
           /\ files' = [files EXCEPT ![h].pos = pos + Len(buf)]
           /\ Shape(nodes', Where(nodes))
           /\ Data(nodes', Where(nodes)) = With(Resources, p, FS!Written(Resources[p], pos, buf))
  <2>1. pos + Len(buf) \in 0..MaxPos
    BY <1>4, MemFsAssumption
  <2>2. fds' = [fds EXCEPT ![h].pos = pos + Len(buf)] /\ fds[h] # Closed
    BY <1>2, <1>4, <2>1, HandleMaps
  <2>3. fds[h] = Record(p, files[h]) /\ p # Gone
    <3>1. Place(h) = PlaceIn(Where(nodes), files[h])
      BY PlaceNow
    <3>2. PlaceIn(Where(nodes), files[h]) = Record(p, files[h])
      BY <1>1, <1>2, PlaceInIs DEF Shape
    <3>3. p \in Paths
      BY <1>2, NodeOf
    <3> QED BY <3>1, <3>2, <3>3, MemFsAssumption DEF fds
  <2>4. fds[h].at = p /\ fds[h].append = files[h].append /\ fds[h].pos = files[h].pos
    BY <2>3 DEF Record
  <2>5. Resources' = With(Resources, p, FS!Written(Resources[p], pos, buf))
    BY <1>4, ArenaNext
  <2>6. Resources' = [Resources EXCEPT ![p] = FS!Written(Resources[p], pos, buf)]
    <3>1. Resources = [q \in DOMAIN Resources |-> Resources[q]]
      BY <1>2 DEF Data
    <3> QED BY <1>1, <2>5, <3>1 DEF With
  <2>7. pos = IF fds[h].append THEN Len(Resources[fds[h].at]) ELSE fds[h].pos
    BY <1>1, <2>4
  <2>8. /\ Resources' = [Resources EXCEPT ![fds[h].at] = FS!Written(@, pos, buf)]
        /\ fds[h].at # Gone /\ pos + Len(buf) <= MaxLen
    BY <1>4, <2>3, <2>4, <2>6
  <2> QED BY <2>2, <2>7, <2>8 DEF FS!Write, FS!IsOpen, fds
<1> QED BY <1>1, <1>3, <1>4

LEMMA RepositionMaps ==
    ASSUME Arena, NEW h \in Handles, nodes' = nodes, files[h] # Closed,
           \E pos \in 0..MaxPos : files' = [files EXCEPT ![h].pos = pos]
    PROVE  \E pos \in 0..MaxPos : FS!Reposition(h, pos)
<1>1. PICK pos \in 0..MaxPos : files' = [files EXCEPT ![h].pos = pos]
  OBVIOUS
<1>2. Shape(nodes', Where(nodes)) /\ Resources' = Resources
  BY ArenaNow, ArenaNext
<1>3. fds' = [fds EXCEPT ![h].pos = pos] /\ fds[h] # Closed
  BY <1>1, <1>2, HandleMaps
<1>4. FS!Reposition(h, pos)
  BY <1>2, <1>3 DEF FS!Reposition, FS!IsOpen, fds
<1> QED BY <1>4

LEMMA CloseMaps ==
    ASSUME Arena, NEW h \in Handles, close(h) PROVE FS!Close(h)
<1>1. nodes' = nodes /\ files[h] # Closed /\ files' = [files EXCEPT ![h] = Closed]
  BY DEF close
<1>2. Shape(nodes', Where(nodes)) /\ Resources' = Resources /\ files \in [Handles -> Handle(node_id)]
  BY <1>1, ArenaNow, ArenaNext
<1>3. \A i \in Handles : Place(i)' = PlaceIn(Where(nodes), files'[i]) /\ Place(i) = PlaceIn(Where(nodes), files[i])
  BY <1>2, PlaceNext, PlaceNow
<1>4. files'[h] = Closed /\ \A i \in Handles \ {h} : files'[i] = files[i]
  BY <1>1, <1>2
<1>5. Place(h)' = Closed /\ \A i \in Handles \ {h} : Place(i)' = Place(i)
  BY <1>3, <1>4 DEF PlaceIn, PathOf
<1>6. fds' = [fds EXCEPT ![h] = Closed] /\ fds[h] # Closed
  BY <1>1, <1>5, HandleCases DEF fds
<1> QED BY <1>2, <1>6 DEF FS!Close, FS!IsOpen, fds

LEMMA StoreInit == Init => FS!Init
<1> SUFFICES ASSUME Init PROVE FS!Init
  OBVIOUS
<1>1. Arena /\ DOMAIN Where(nodes) = {Root} /\ files = [h \in Handles |-> Closed]
  BY ArenaInit DEF Init
<1>2. /\ Shape(nodes, Where(nodes)) /\ Resources = Data(nodes, Where(nodes))
  BY <1>1, ArenaNow
<1>3. Resources[Root] = Dir /\ DOMAIN Resources = {Root}
  BY <1>1, <1>2, DataIs DEF Shape, IsDirNode
<1>4. Resources = [p \in {Root} |-> Dir]
  <2>1. Resources = [q \in DOMAIN Resources |-> Resources[q]]
    BY <1>2 DEF Data
  <2> QED BY <1>3, <2>1
<1>5. \A h \in Handles : Place(h) = Closed
  BY <1>1 DEF Place
<1> QED BY <1>4, <1>5, SamePaths DEF FS!Init

LEMMA StoreNext ==
    ASSUME Root \notin Mkcols PROVE Arena /\ [Next]_vars => [FS!Next]_(FS!vars)
<1> SUFFICES ASSUME Arena, [Next]_vars PROVE [FS!Next]_(FS!vars)
  OBVIOUS
<1>1. CASE UNCHANGED vars
  <2>1. nodes' = nodes /\ files' = files
    BY <1>1 DEF vars
  <2>2. Shape(nodes', Where(nodes)) /\ Resources' = Resources
    BY <2>1, ArenaNow, ArenaNext
  <2>3. \A h \in Handles : Place(h)' = Place(h)
    BY <2>1, <2>2, PlaceNext, PlaceNow
  <2> QED BY <2>2, <2>3 DEF FS!vars
<1>2. ASSUME NEW p \in Mkcols, create_dir(p) PROVE FS!Next
  BY <1>2, CreateMaps, MemFsAssumption DEF FS!Next
<1>3. ASSUME NEW p \in Paths, remove(p) PROVE FS!Next
  BY <1>3, RemoveMaps DEF FS!Next
<1>4. ASSUME NEW pair \in Renames, rename(pair[1], pair[2]) PROVE FS!Next
  BY <1>4, RenameMaps DEF FS!Next
<1>5. ASSUME NEW from \in Paths, NEW to \in Paths, copy(from, to) PROVE FS!Next
  BY <1>5, CopyMaps DEF FS!Next
<1>6. ASSUME NEW h \in Handles, NEW p \in Paths, NEW create \in BOOLEAN, NEW create_new \in BOOLEAN,
             NEW truncate \in BOOLEAN, NEW append \in BOOLEAN,
             open(h, p, create, create_new, truncate, append)
      PROVE  FS!Next
  BY <1>6, OpenMaps DEF FS!Next
<1>7. ASSUME NEW h \in Handles, NEW buf \in Buffers, write(h, buf) PROVE FS!Next
  BY <1>7, WriteMaps DEF FS!Next
<1>8. ASSUME NEW h \in Handles, NEW count \in 1..MaxLen, read(h, count) PROVE FS!Next
  <2>1. \E pos \in 0..MaxPos : FS!Reposition(h, pos)
    BY <1>8, ReadMoves, RepositionMaps
  <2> QED BY <2>1 DEF FS!Next
<1>9. ASSUME NEW h \in Handles, NEW from \in {"start", "current", "end"}, NEW offset \in -MaxLen..MaxPos,
             seek(h, from, offset)
      PROVE  FS!Next
  <2>1. \E pos \in 0..MaxPos : FS!Reposition(h, pos)
    BY <1>9, SeekMoves, RepositionMaps
  <2> QED BY <2>1 DEF FS!Next
<1>10. ASSUME NEW h \in Handles, close(h) PROVE FS!Next
  BY <1>10, CloseMaps DEF FS!Next
<1> QED BY <1>1, <1>2, <1>3, <1>4, <1>5, <1>6, <1>7, <1>8, <1>9, <1>10 DEF Next

\* Every behaviour of memfs.rs on its arena is one of the file store: a handle
\* keeps its own file through renames and copies, and reaches no other one
\* when it is removed or replaced.
THEOREM Implements == ASSUME Root \notin Mkcols PROVE Spec => ImplementsFileStore
<1>1. ImplementsFileStore <=> FS!Init /\ [][FS!Next]_(FS!vars)
  BY DEF ImplementsFileStore, FS!Spec
<1>2. Spec => []Arena
  BY ArenaHolds
<1>3. Arena /\ [Next]_vars => [FS!Next]_(FS!vars)
  BY StoreNext
<1> QED BY <1>1, <1>2, <1>3, StoreInit, PTL DEF Spec

=============================================================================
