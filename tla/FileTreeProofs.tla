--------------------------- MODULE FileTreeProofs ---------------------------
(* What the lock checks and the calls on files need to know about paths,    *)
(* and that every call that succeeds leaves a tree: all entries but the     *)
(* last of each path that exists are collections that exist.                *)
EXTENDS FileTree, SequenceTheorems, TLAPS

\* What the lemmas need of paths but for the closure under prefixes.
LEMMA PathsAreSequences == Paths \subseteq Seq(Names)
  BY PathsAssumption

\* A path is above itself, as the walk to it ends at it.
LEMMA AboveReflexive == \A p \in Paths : Above(p, p)
  BY PathsAreSequences DEF Above

\* Every walk starts at the root.
LEMMA RootIsAbove == \A p \in Paths : Above(Root, p)
  BY PathsAssumption DEF Above, Root

\* An ancestor of an ancestor is an ancestor.
LEMMA AboveTransitive ==
    \A p, q, r \in Paths : Above(p, q) /\ Above(q, r) => Above(p, r)
  BY PathsAreSequences DEF Above

\* Two paths above each other are the same.
LEMMA AboveAntisymmetric ==
    \A p, q \in Paths : Above(p, q) /\ Above(q, p) => p = q
  BY PathsAreSequences DEF Above

\* The ancestors of a resource form a chain: what reaches a resource through
\* one walk can be compared with what reaches it through another.
LEMMA AboveIsChain ==
    \A p, q, r \in Paths : Above(p, r) /\ Above(q, r) => Above(p, q) \/ Above(q, p)
  BY PathsAreSequences DEF Above

\* Only the root is above the root.
LEMMA NothingAboveRoot == \A p \in Paths : Above(p, Root) => p = Root
  BY RootIsAbove, AboveAntisymmetric, PathsAssumption

\* The parent of a resource is the last of its proper ancestors.
LEMMA ParentAbove ==
    ASSUME NEW p \in Paths \ {Root}
    PROVE  /\ Parent(p) \in Paths /\ Above(Parent(p), p) /\ Parent(p) # p
           /\ \A q \in Paths : Above(q, p) /\ q # p => Above(q, Parent(p))
<1>1. p \in Seq(Names) /\ Len(p) \in Nat /\ Len(p) # 0
  BY PathsAssumption DEF Root
<1>2. /\ Parent(p) \in Seq(Names) /\ Len(Parent(p)) = Len(p) - 1
      /\ \A i \in 1..Len(p) - 1 : Parent(p)[i] = p[i]
  <2> DEFINE k == Len(p) - 1
             s == SubSeq(p, 1, k)
  <2>1. k \in Nat /\ k < Len(p) /\ Parent(p) = s
    BY <1>1 DEF Parent
  <2>2. s \in Seq(Names) /\ Len(s) = k
    <3> HIDE DEF k
    <3> QED BY <1>1, <2>1
  <2>3. \A i \in 1..k : s[i] = p[i]
    <3> HIDE DEF k
    <3> QED BY <1>1, <2>1
  <2> QED BY <2>1, <2>2, <2>3
<1>3. Parent(p) \in Paths
  BY <1>1, PathsAssumption DEF Parent
<1>4. ASSUME NEW q \in Paths, Above(q, p), q # p PROVE Above(q, Parent(p))
  <2>1. q \in Seq(Names) /\ Len(q) \in Nat /\ Len(q) <= Len(p)
    BY <1>4, PathsAssumption DEF Above
  <2>2. Len(q) # Len(p)
    BY <1>1, <1>4, <2>1 DEF Above
  <2> QED BY <1>1, <1>2, <1>4, <2>1, <2>2 DEF Above
<1> QED BY <1>1, <1>2, <1>3, <1>4 DEF Above

\* Below a resource that has something under it there is a child on the way.
LEMMA ChildOnTheWay ==
    ASSUME NEW p \in Paths, NEW q \in Paths, Above(p, q), p # q
    PROVE  \E r \in Paths \ {Root} : Parent(r) = p /\ Above(r, q)
<1> DEFINE r == SubSeq(q, 1, Len(p) + 1)
<1>1. /\ p \in Seq(Names) /\ q \in Seq(Names) /\ Len(p) \in Nat /\ Len(q) \in Nat
      /\ Len(p) <= Len(q)
  BY PathsAreSequences DEF Above
<1>2. Len(p) < Len(q)
  BY <1>1 DEF Above
<1>3. r \in Paths
  BY <1>1, <1>2, PathsAssumption
<1>4. /\ r \in Seq(Names) /\ Len(r) = Len(p) + 1
      /\ \A i \in 1..Len(p) + 1 : r[i] = q[i]
  BY <1>1, <1>2
<1> HIDE DEF r
<1>5. Parent(r) \in Seq(Names) /\ Len(Parent(r)) = Len(p)
  BY <1>1, <1>4 DEF Parent
<1>6. \A i \in 1..Len(p) : Parent(r)[i] = p[i]
  BY <1>1, <1>4 DEF Parent, Above
<1>7. Parent(r) = p
  BY <1>1, <1>5, <1>6
<1>8. r # Root
  BY <1>1, <1>4 DEF Root
<1>9. Above(r, q)
  BY <1>1, <1>2, <1>4 DEF Above
<1> QED BY <1>3, <1>7, <1>8, <1>9

-----------------------------------------------------------------------------
(* The calls and the tree.                                                 *)

\* What a tree says of the way to an entry.
LEMMA OnTheWay ==
    ASSUME NEW f, IsTree(f), NEW p \in DOMAIN f, NEW q \in Paths, Above(q, p), q # p
    PROVE  IsDir(f, q)
  BY DEF IsTree, Trail

\* Nothing is below a path that is not a collection.
LEMMA NothingBelow ==
    ASSUME NEW f, IsTree(f), NEW p \in Paths, ~IsDir(f, p),
           NEW q \in DOMAIN f, Above(p, q)
    PROVE  q = p
  BY OnTheWay

\* What is on the way to a new entry whose parent is a collection.
LEMMA OnTheWayToNew ==
    ASSUME NEW f, IsTree(f), NEW p \in Paths \ {Root}, IsDir(f, Parent(p)),
           NEW q \in Paths, Above(q, p), q # p
    PROVE  IsDir(f, q)
<1>1. Parent(p) \in Paths /\ Parent(p) \in DOMAIN f /\ Above(q, Parent(p))
  BY ParentAbove DEF IsDir
<1> QED BY <1>1, OnTheWay

LEMMA ParentErrorsMeaning ==
    ASSUME NEW f, NEW p, ParentErrors(f, p) = {}
    PROVE  IsDir(f, Parent(p))
  BY DEF ParentErrors, IsDir, IsFile

\* An entry is made, or one that is not a collection is replaced.
LEMMA WithIsTree ==
    ASSUME NEW f, IsTree(f), NEW p \in Paths, NEW entry \in Contents \cup {Dir},
           ~IsDir(f, p), p \notin DOMAIN f => IsDir(f, Parent(p))
    PROVE  IsTree(With(f, p, entry))
<1> DEFINE g == With(f, p, entry)
<1>1. /\ g = [q \in DOMAIN g |-> g[q]]
      /\ DOMAIN g = DOMAIN f \cup {p} /\ g[p] = entry
      /\ \A q \in DOMAIN f : q # p => g[q] = f[q]
  BY DEF With
<1> HIDE DEF g
<1>2. DOMAIN g \subseteq Paths /\ g \in [DOMAIN g -> Contents \cup {Dir}]
  BY <1>1 DEF IsTree
<1>3. p # Root
  BY DEF IsTree
<1>4. ASSUME NEW q \in DOMAIN g, NEW r \in Paths, Above(r, q), r # q
      PROVE  IsDir(f, r)
  <2>1. CASE q \in DOMAIN f
    BY <1>4, <2>1, OnTheWay
  <2>2. CASE q \notin DOMAIN f
    BY <1>1, <1>3, <1>4, <2>2, OnTheWayToNew
  <2> QED BY <2>1, <2>2
<1>5. \A r : IsDir(f, r) => IsDir(g, r)
  BY <1>1 DEF IsDir
<1>6. IsDir(g, Root)
  BY <1>5 DEF IsTree
<1> QED BY <1>2, <1>4, <1>5, <1>6 DEF IsTree, Trail, g

LEMMA WithFileIsTree ==
    ASSUME NEW f, IsTree(f), NEW p, NEW create, NEW create_new,
           OpenErrors(f, p, create, create_new) = {}, NEW entry \in Contents
    PROVE  p \in Paths /\ IsTree(With(f, p, entry))
<1>1. p \in Paths /\ ~IsDir(f, p) /\ (p \notin DOMAIN f => IsDir(f, Parent(p)))
  BY ParentErrorsMeaning DEF OpenErrors, IsDir, IsTree
<1> QED BY <1>1, WithIsTree

LEMMA WithDirIsTree ==
    ASSUME NEW f, IsTree(f), NEW p, CreateDirErrors(f, p) = {}
    PROVE  p \in Paths /\ IsTree(With(f, p, Dir))
<1>1. p \in Paths /\ ~IsDir(f, p) /\ IsDir(f, Parent(p))
  BY ParentErrorsMeaning DEF CreateDirErrors, IsDir
<1> QED BY <1>1, WithIsTree

\* An entry without members goes.
LEMMA WithoutIsTree ==
    ASSUME NEW f, IsTree(f), NEW p, RemoveErrors(f, p) = {}
    PROVE  IsTree(Without(f, p))
<1> DEFINE g == Without(f, p)
<1>1. p \in DOMAIN f /\ p \in Paths /\ p # Root /\ Members(f, p) = {}
  BY DEF RemoveErrors, IsTree, Missing
<1>2. /\ g = [q \in DOMAIN g |-> g[q]]
      /\ DOMAIN g = DOMAIN f \ {p} /\ \A q \in DOMAIN g : g[q] = f[q]
  BY DEF Without
<1> HIDE DEF g
<1>3. g \in [DOMAIN g -> Contents \cup {Dir}] /\ DOMAIN g \subseteq Paths
  BY <1>2 DEF IsTree
<1>4. IsDir(g, Root)
  BY <1>1, <1>2 DEF IsTree, IsDir
<1>5. ASSUME NEW q \in DOMAIN g, NEW r \in Paths, Above(r, q), r # q
      PROVE  IsDir(g, r)
  <2>1. q \in DOMAIN f /\ q \in Paths /\ IsDir(f, r)
    BY <1>2, <1>5, OnTheWay DEF IsTree
  <2>2. CASE r = p
    <3>1. PICK s \in Paths \ {Root} : Parent(s) = p /\ Above(s, q)
      BY <1>1, <1>5, <2>1, <2>2, ChildOnTheWay
    <3>2. s \in DOMAIN f
      BY <2>1, <3>1, OnTheWay DEF IsDir
    <3> QED BY <1>1, <3>1, <3>2 DEF Members
  <2>3. CASE r # p
    BY <1>2, <2>1, <2>3 DEF IsDir
  <2> QED BY <2>2, <2>3
<1> QED BY <1>3, <1>4, <1>5 DEF IsTree, Trail, g

-----------------------------------------------------------------------------
(* A rename takes everything below the source to the destination.          *)

\* The entries of a path that has moved.
LEMMA RebaseEntries ==
    ASSUME NEW from \in Paths, NEW to \in Paths, NEW q \in Paths, Above(from, q)
    PROVE  LET r == Rebase(q, from, to)
           IN  /\ r \in Seq(Names) /\ Len(r) = Len(to) + (Len(q) - Len(from))
               /\ \A i \in 1..Len(to) : r[i] = to[i]
               /\ \A i \in Len(to) + 1..Len(r) : r[i] = q[i - Len(to) + Len(from)]
<1> DEFINE tail == SubSeq(q, Len(from) + 1, Len(q))
           r    == Rebase(q, from, to)
<1>1. /\ from \in Seq(Names) /\ to \in Seq(Names) /\ q \in Seq(Names)
      /\ Len(from) \in Nat /\ Len(to) \in Nat /\ Len(q) \in Nat /\ Len(from) <= Len(q)
  BY PathsAreSequences DEF Above
<1>2. /\ tail \in Seq(Names) /\ Len(tail) = Len(q) - Len(from)
      /\ \A i \in 1..Len(tail) : tail[i] = q[i + Len(from)]
  BY <1>1
<1>3. r = to \o tail
  BY DEF Rebase
<1> HIDE DEF tail, r
<1>4. /\ r \in Seq(Names) /\ Len(r) = Len(to) + Len(tail)
      /\ \A i \in 1..Len(to) : r[i] = to[i]
      /\ \A i \in Len(to) + 1..Len(r) : r[i] = tail[i - Len(to)]
  <2>1. /\ to \o tail \in Seq(Names) /\ Len(to \o tail) = Len(to) + Len(tail)
        /\ \A i \in 1..Len(to) + Len(tail) :
              (to \o tail)[i] = IF i <= Len(to) THEN to[i] ELSE tail[i - Len(to)]
    <3>1. to \in Seq(Names) /\ tail \in Seq(Names)
      BY <1>1, <1>2
    <3> QED BY <3>1, ConcatProperties, Zenon
  <2> QED BY <1>1, <1>2, <1>3, <2>1
<1>5. ASSUME NEW i \in Len(to) + 1..Len(r)
      PROVE  r[i] = q[i - Len(to) + Len(from)]
  <2>1. i - Len(to) \in 1..Len(tail)
    BY <1>1, <1>2, <1>4
  <2> QED BY <1>2, <1>4, <2>1
<1> QED BY <1>1, <1>2, <1>4, <1>5 DEF r

\* It is below the destination, and comes back.
LEMMA RebaseBack ==
    ASSUME NEW from \in Paths, NEW to \in Paths, NEW q \in Paths, Above(from, q),
           Rebase(q, from, to) \in Paths
    PROVE  Above(to, Rebase(q, from, to)) /\ Rebase(Rebase(q, from, to), to, from) = q
<1> DEFINE r == Rebase(q, from, to)
           s == Rebase(r, to, from)
<1>1. /\ from \in Seq(Names) /\ to \in Seq(Names) /\ q \in Seq(Names)
      /\ Len(from) \in Nat /\ Len(to) \in Nat /\ Len(q) \in Nat /\ Len(from) <= Len(q)
      /\ \A i \in 1..Len(from) : from[i] = q[i]
  BY PathsAreSequences DEF Above
<1>2. /\ r \in Seq(Names) /\ Len(r) = Len(to) + (Len(q) - Len(from))
      /\ \A i \in 1..Len(to) : r[i] = to[i]
      /\ \A i \in Len(to) + 1..Len(r) : r[i] = q[i - Len(to) + Len(from)]
  BY RebaseEntries
<1> HIDE DEF r
<1>3. Above(to, r)
  BY <1>1, <1>2 DEF Above
<1>4. /\ s \in Seq(Names) /\ Len(s) = Len(from) + (Len(r) - Len(to))
      /\ \A i \in 1..Len(from) : s[i] = from[i]
      /\ \A i \in Len(from) + 1..Len(s) : s[i] = r[i - Len(from) + Len(to)]
  BY <1>3, RebaseEntries DEF r
<1> HIDE DEF s
<1>5. Len(s) = Len(q)
  BY <1>1, <1>2, <1>4
<1>6. ASSUME NEW i \in 1..Len(q) PROVE s[i] = q[i]
  <2>1. CASE i <= Len(from)
    BY <1>1, <1>4, <2>1
  <2>2. CASE i > Len(from)
    <3>1. /\ i \in Len(from) + 1..Len(s)
          /\ i - Len(from) + Len(to) \in Len(to) + 1..Len(r)
          /\ (i - Len(from) + Len(to)) - Len(to) + Len(from) = i
      BY <1>1, <1>2, <1>5, <2>2
    <3> QED BY <1>2, <1>4, <3>1
  <2> QED BY <1>1, <2>1, <2>2
<1>7. s = q
  BY <1>1, <1>4, <1>5, <1>6, SeqEqual
<1> QED BY <1>3, <1>7 DEF r, s

\* What is on the way to it below the destination has been on the way below
\* the source.
LEMMA RebaseOnTheWay ==
    ASSUME NEW from \in Paths, NEW to \in Paths, NEW q \in Paths, Above(from, q),
           Rebase(q, from, to) \in Paths,
           NEW s \in Paths, Above(to, s), Above(s, Rebase(q, from, to))
    PROVE  LET p == Rebase(s, to, from)
           IN  p \in Paths /\ Above(from, p) /\ Above(p, q) /\ Rebase(p, from, to) = s
<1> DEFINE r == Rebase(q, from, to)
           p == Rebase(s, to, from)
<1>1. /\ from \in Seq(Names) /\ to \in Seq(Names) /\ q \in Seq(Names) /\ s \in Seq(Names)
      /\ Len(from) \in Nat /\ Len(to) \in Nat /\ Len(q) \in Nat /\ Len(s) \in Nat
      /\ Len(from) <= Len(q) /\ \A i \in 1..Len(from) : from[i] = q[i]
      /\ Len(to) <= Len(s)
  BY PathsAreSequences DEF Above
<1>2. /\ Len(r) = Len(to) + (Len(q) - Len(from))
      /\ \A i \in Len(to) + 1..Len(r) : r[i] = q[i - Len(to) + Len(from)]
  BY RebaseEntries
<1>3. Len(s) <= Len(r) /\ \A i \in 1..Len(s) : s[i] = r[i]
  BY DEF Above
<1>4. /\ p \in Seq(Names) /\ Len(p) = Len(from) + (Len(s) - Len(to))
      /\ \A i \in 1..Len(from) : p[i] = from[i]
      /\ \A i \in Len(from) + 1..Len(p) : p[i] = s[i - Len(from) + Len(to)]
  BY RebaseEntries
<1> HIDE DEF r, p
<1>5. Len(p) \in 0..Len(q)
  BY <1>1, <1>2, <1>3, <1>4
<1>6. ASSUME NEW i \in 1..Len(p) PROVE p[i] = q[i]
  <2>1. CASE i <= Len(from)
    BY <1>1, <1>4, <2>1
  <2>2. CASE i > Len(from)
    <3>1. /\ i \in Len(from) + 1..Len(p)
          /\ i - Len(from) + Len(to) \in 1..Len(s)
          /\ i - Len(from) + Len(to) \in Len(to) + 1..Len(r)
          /\ (i - Len(from) + Len(to)) - Len(to) + Len(from) = i
      BY <1>1, <1>2, <1>3, <1>4, <2>2
    <3> QED BY <1>2, <1>3, <1>4, <3>1
  <2> QED BY <1>1, <1>4, <2>1, <2>2
<1>7. p = SubSeq(q, 1, Len(p))
  BY <1>1, <1>4, <1>5, <1>6
<1>8. p \in Paths
  BY <1>5, <1>7, PathsAssumption
<1>9. Above(from, p) /\ Above(p, q)
  BY <1>1, <1>4, <1>5, <1>6 DEF Above
<1>10. Rebase(p, from, to) = s
  BY <1>8, RebaseBack DEF p
<1> QED BY <1>8, <1>9, <1>10 DEF p

\* A rename that succeeds leaves a tree: what was on the way to the entries
\* that did not move is still there, and what was on the way to the others
\* below the source has come with them.
LEMMA MovedIsTree ==
    ASSUME NEW f, IsTree(f), NEW from \in Paths, NEW to \in Paths,
           RenameErrors(f, from, to) = {}
    PROVE  IsTree(Moved(f, from, to))
<1> DEFINE moving == DOMAIN f \cap Subtree(from)
           Place(r) == Rebase(r, from, to)
           g == Moved(f, from, to)
<1>1. /\ from \in DOMAIN f /\ IsDir(f, Parent(to)) /\ ~IsDir(f, to) /\ ~Above(from, to)
      /\ \A r \in moving : Place(r) \in Paths
  BY ParentErrorsMeaning DEF RenameErrors
<1>2. from # Root /\ to # Root /\ IsDir(f, Root) /\ DOMAIN f \subseteq Paths
  BY <1>1, RootIsAbove DEF IsTree
<1>3. /\ g = [q \in DOMAIN g |-> g[q]]
      /\ DOMAIN g = (DOMAIN f \ (moving \cup {to})) \cup {Place(r) : r \in moving}
      /\ \A q \in DOMAIN g : g[q] = IF Above(to, q) THEN f[Rebase(q, to, from)] ELSE f[q]
  BY DEF Moved
<1>4. ASSUME NEW r \in moving
      PROVE  r \in Paths /\ Above(from, r) /\ Above(to, Place(r)) /\ Rebase(Place(r), to, from) = r
  BY <1>1, <1>2, <1>4, RebaseBack DEF Subtree
<1> HIDE DEF g
<1>5. ASSUME NEW r \in moving PROVE Place(r) \in DOMAIN g /\ g[Place(r)] = f[r]
  BY <1>3, <1>4
\* What stays where it was.
<1>6. ASSUME NEW q \in DOMAIN f, q \notin moving, q # to
      PROVE  q \in DOMAIN g /\ g[q] = f[q]
  <2>1. ~Above(to, q)
    BY <1>1, <1>6, NothingBelow
  <2> QED BY <1>3, <1>6, <2>1
\* Every place of the new tree holds what its origin held.
<1>7. ASSUME NEW q \in DOMAIN g
      PROVE  \/ q \in DOMAIN f /\ q \notin moving /\ q # to
             \/ \E r \in moving : q = Place(r)
  BY <1>3
<1>8. DOMAIN g \subseteq Paths
  BY <1>1, <1>2, <1>7
<1>9. g \in [DOMAIN g -> Contents \cup {Dir}]
  <2>1. ASSUME NEW q \in DOMAIN g PROVE g[q] \in Contents \cup {Dir}
    <3>1. \E r \in DOMAIN f : g[q] = f[r]
      BY <1>5, <1>6, <1>7
    <3> QED BY <3>1 DEF IsTree
  <2> QED BY <1>3, <2>1
\* A collection that is neither below the source nor the destination stays.
<1>10. ASSUME NEW s \in Paths, IsDir(f, s), ~Above(from, s) PROVE IsDir(g, s)
  <2>1. s \in DOMAIN f /\ s \notin moving /\ s # to
    BY <1>1, <1>10 DEF IsDir, Subtree
  <2> QED BY <1>6, <1>10, <2>1 DEF IsDir
<1>11. IsDir(g, Root)
  <2>1. ~Above(from, Root)
    BY <1>2, NothingAboveRoot
  <2> QED BY <1>2, <1>10, <2>1, PathsAssumption
<1>12. ASSUME NEW q \in DOMAIN g, NEW s \in Paths, Above(s, q), s # q
       PROVE  IsDir(g, s)
  <2>1. CASE q \in DOMAIN f /\ q \notin moving
    <3>1. IsDir(f, s) /\ q \in Paths
      BY <1>2, <1>12, <2>1, OnTheWay
    <3>2. ~Above(from, s)
      BY <1>2, <1>12, <2>1, <3>1, AboveTransitive DEF Subtree
    <3> QED BY <1>10, <3>1, <3>2
  <2>2. ASSUME NEW r \in moving, q = Place(r) PROVE IsDir(g, s)
    <3>1. r \in Paths /\ Above(from, r) /\ Above(to, q) /\ q \in Paths /\ r \in DOMAIN f
      BY <1>4, <1>8, <2>2
    <3>2. CASE Above(to, s)
      <4> DEFINE p == Rebase(s, to, from)
      <4>1. p \in Paths /\ Above(from, p) /\ Above(p, r) /\ Place(p) = s
        BY <1>12, <2>2, <3>1, <3>2, RebaseOnTheWay
      <4>2. p # r
        BY <1>12, <2>2, <4>1
      <4>3. IsDir(f, p)
        BY <3>1, <4>1, <4>2, OnTheWay
      <4>4. p \in moving
        BY <4>1, <4>3 DEF IsDir, Subtree
      <4> QED BY <1>5, <4>1, <4>3, <4>4 DEF IsDir
    <3>3. CASE ~Above(to, s)
      <4>1. Above(s, to) /\ s # to
        BY <1>12, <3>1, <3>3, AboveIsChain, AboveReflexive
      <4>2. IsDir(f, s)
        BY <1>1, <1>2, <4>1, OnTheWayToNew
      <4>3. ~Above(from, s)
        BY <1>1, <4>1, AboveTransitive
      <4> QED BY <1>10, <4>2, <4>3
    <3> QED BY <3>2, <3>3
  <2> QED BY <1>7, <2>1, <2>2
<1> QED BY <1>8, <1>9, <1>11, <1>12 DEF IsTree, Trail, g
=============================================================================
