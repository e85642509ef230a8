---------------------------- MODULE MemLsProofs ----------------------------
(***************************************************************************)
(* Proofs about MemLs, for every set of paths, principals, tokens and      *)
(* timeouts.                                                               *)
(***************************************************************************)
EXTENDS MemLs, FileTreeProofs

-----------------------------------------------------------------------------
(* The tree operations keep the tree a tree, and what they do to the locks. *)

\* Where a lock is stored.
LEMMA LockAtItsPath ==
    ASSUME NEW n, IsLockTree(n), NEW l \in AllLocks(n)
    PROVE  /\ l \in DavLock /\ l.path \in Paths
           /\ l.path \in DOMAIN n /\ l \in n[l.path]
           /\ Trail(l.path) \subseteq DOMAIN n
  BY DEF AllLocks, IsLockTree, DavLock

\* prune_expired_locks keeps the tree and the locks that have not expired.
LEMMA PrunedTree ==
    ASSUME NEW n, IsLockTree(n), NEW t
    PROVE  /\ IsLockTree(Pruned(n, t))
           /\ DOMAIN Pruned(n, t) \subseteq DOMAIN n
           /\ AllLocks(Pruned(n, t)) = {l \in AllLocks(n) : ~Expired(l, t)}
<1> DEFINE Live(p) == {l \in n[p] : ~Expired(l, t)}
           D == {Root} \cup {q \in DOMAIN n : \E r \in NodesBelow(n, q) : Live(r) # {}}
           m == Pruned(n, t)
<1>1. m = [p \in D |-> Live(p)]
  BY DEF Pruned
<1> HIDE DEF m
<1>2. D \subseteq DOMAIN n /\ DOMAIN m = D
  BY <1>1 DEF IsLockTree
<1>3. m \in [DOMAIN m -> SUBSET DavLock]
  BY <1>1, <1>2 DEF IsLockTree
<1>4. ASSUME NEW p \in D PROVE Trail(p) \subseteq D
  <2> SUFFICES ASSUME NEW q \in Trail(p) PROVE q \in D
    OBVIOUS
  <2>1. p \in Paths /\ q \in Paths /\ q \in DOMAIN n /\ Above(q, p)
    BY <1>2 DEF IsLockTree, Trail
  <2>2. CASE p = Root
    BY <2>1, <2>2, NothingAboveRoot
  <2>3. CASE p # Root
    <3>1. PICK r \in NodesBelow(n, p) : Live(r) # {}
      BY <2>3
    <3>2. r \in DOMAIN n /\ r \in Paths /\ Above(p, r)
      BY <3>1, <1>2 DEF NodesBelow, Subtree
    <3>3. Above(q, r)
      BY <3>2, <2>1, AboveTransitive
    <3>4. r \in NodesBelow(n, q)
      BY <3>2, <3>3, <2>1 DEF NodesBelow, Subtree
    <3> QED BY <3>1, <3>4, <2>1
  <2> QED BY <2>2, <2>3
<1>5. IsLockTree(m)
  <2>1. Root \in D
    OBVIOUS
  <2>2. \A p \in D : \A l \in m[p] : l.path = p
    BY <1>1, <1>2 DEF IsLockTree
  <2> QED BY <1>2, <1>3, <1>4, <2>1, <2>2 DEF IsLockTree
<1>6. ASSUME NEW l \in AllLocks(n), ~Expired(l, t) PROVE l \in AllLocks(m)
  <2>1. l.path \in DOMAIN n /\ l \in n[l.path] /\ l.path \in Paths
    BY LockAtItsPath
  <2>2. l.path \in NodesBelow(n, l.path)
    BY <2>1, AboveReflexive DEF NodesBelow, Subtree
  <2>3. l \in Live(l.path)
    BY <2>1, <1>6
  <2>4. l.path \in D
    BY <2>1, <2>2, <2>3
  <2> QED BY <2>3, <2>4, <1>1 DEF AllLocks
<1>7. ASSUME NEW l \in AllLocks(m) PROVE l \in AllLocks(n) /\ ~Expired(l, t)
  BY <1>7, <1>1, <1>2 DEF AllLocks
<1> QED BY <1>2, <1>5, <1>6, <1>7 DEF m

\* get_or_create_path_node and push add that one lock.
LEMMA WithLockTree ==
    ASSUME NEW n, IsLockTree(n), NEW p \in Paths, NEW l \in DavLock, l.path = p
    PROVE  /\ IsLockTree(WithLock(n, p, l))
           /\ AllLocks(WithLock(n, p, l)) = AllLocks(n) \cup {l}
<1> DEFINE m == WithLock(n, p, l)
           D == DOMAIN n \cup Trail(p)
           At(q) == (IF q \in DOMAIN n THEN n[q] ELSE {}) \cup (IF q = p THEN {l} ELSE {})
<1>1. m = [q \in D |-> At(q)]
  BY DEF WithLock
<1> HIDE DEF m
<1>2. DOMAIN m = D /\ p \in D /\ D \subseteq Paths /\ Root \in D
  BY <1>1, AboveReflexive DEF IsLockTree, Trail
<1>3. m \in [DOMAIN m -> SUBSET DavLock]
  BY <1>1 DEF IsLockTree
<1>4. ASSUME NEW q \in D PROVE Trail(q) \subseteq D
  <2>1. CASE q \in DOMAIN n
    BY <2>1 DEF IsLockTree
  <2>2. CASE q \in Trail(p)
    BY <2>2, AboveTransitive DEF Trail
  <2> QED BY <2>1, <2>2
<1>5. \A q \in D : \A k \in m[q] : k.path = q
  BY <1>1 DEF IsLockTree
<1>6. IsLockTree(m)
  BY <1>2, <1>3, <1>4, <1>5 DEF IsLockTree
<1>7. AllLocks(m) = AllLocks(n) \cup {l}
  <2>1. AllLocks(m) \subseteq AllLocks(n) \cup {l}
    BY <1>1 DEF AllLocks
  <2>2. l \in AllLocks(m)
    BY <1>1, <1>2 DEF AllLocks
  <2>3. ASSUME NEW k \in AllLocks(n) PROVE k \in AllLocks(m)
    <3>1. k.path \in DOMAIN n /\ k \in n[k.path]
      BY LockAtItsPath
    <3> QED BY <3>1, <1>1 DEF AllLocks
  <2> QED BY <2>1, <2>2, <2>3
<1> QED BY <1>6, <1>7 DEF m

\* Removing a lock removes nothing else, whether or not its node goes.
LEMMA WithoutTokenTree ==
    ASSUME NEW n, IsLockTree(n), NEW q \in DOMAIN n, NEW token
    PROVE  /\ IsLockTree(WithoutToken(n, q, token))
           /\ AllLocks(WithoutToken(n, q, token))
                = {l \in AllLocks(n) : ~(l.path = q /\ l.token = token)}
<1> DEFINE m == WithoutToken(n, q, token)
           left == {l \in n[q] : l.token # token}
<1>a. n = [p \in DOMAIN n |-> n[p]]
  BY DEF IsLockTree
<1>1. CASE left = {} /\ q # Root /\ ~HasChild(n, q)
  <2>1. m = [r \in DOMAIN n \ {q} |-> n[r]]
    BY <1>1 DEF WithoutToken
  <2> HIDE DEF m
  <2>2. DOMAIN m = DOMAIN n \ {q} /\ \A r \in DOMAIN n \ {q} : m[r] = n[r]
    BY <2>1
  <2>3. m \in [DOMAIN m -> SUBSET DavLock]
    BY <2>1 DEF IsLockTree
  <2>4. ASSUME NEW r \in DOMAIN m PROVE Trail(r) \subseteq DOMAIN m
    BY <1>1, <2>2 DEF IsLockTree, HasChild, Trail
  <2>5. IsLockTree(m)
    BY <1>1, <2>2, <2>3, <2>4 DEF IsLockTree
  <2>6. AllLocks(m) = {l \in AllLocks(n) : ~(l.path = q /\ l.token = token)}
    <3>1. ASSUME NEW l \in AllLocks(m)
          PROVE  l \in AllLocks(n) /\ l.path # q
      BY <2>2 DEF AllLocks, IsLockTree
    <3>2. ASSUME NEW l \in AllLocks(n), ~(l.path = q /\ l.token = token)
          PROVE  l \in AllLocks(m)
      <4>1. l.path \in DOMAIN n /\ l \in n[l.path]
        BY LockAtItsPath
      <4>2. l.path # q
        BY <3>2, <4>1, <1>1
      <4> QED BY <4>1, <4>2, <2>2 DEF AllLocks
    <3> QED BY <3>1, <3>2
  <2> QED BY <2>5, <2>6 DEF m
<1>2. CASE ~(left = {} /\ q # Root /\ ~HasChild(n, q))
  <2>1. m = [n EXCEPT ![q] = left]
    BY <1>2 DEF WithoutToken
  <2> HIDE DEF m
  <2>2. DOMAIN m = DOMAIN n /\ m[q] = left /\ \A r \in DOMAIN n \ {q} : m[r] = n[r]
    BY <2>1, <1>a
  <2>3. m \in [DOMAIN m -> SUBSET DavLock]
    BY <2>1, <1>a DEF IsLockTree
  <2>5. IsLockTree(m)
    BY <2>2, <2>3 DEF IsLockTree
  <2>6. AllLocks(m) = {l \in AllLocks(n) : ~(l.path = q /\ l.token = token)}
    <3>1. ASSUME NEW l \in AllLocks(m)
          PROVE  l \in AllLocks(n) /\ ~(l.path = q /\ l.token = token)
      <4>1. PICK r \in DOMAIN m : l \in m[r]
        BY DEF AllLocks
      <4>2. l.path = r
        BY <4>1, <2>5 DEF IsLockTree
      <4> QED BY <4>1, <4>2, <2>2 DEF AllLocks
    <3>2. ASSUME NEW l \in AllLocks(n), ~(l.path = q /\ l.token = token)
          PROVE  l \in AllLocks(m)
      <4>1. l.path \in DOMAIN n /\ l \in n[l.path]
        BY LockAtItsPath
      <4> QED BY <3>2, <4>1, <2>2 DEF AllLocks
    <3> QED BY <3>1, <3>2
  <2> QED BY <2>5, <2>6 DEF m
<1> QED BY <1>1, <1>2

\* delete() removes the locks at p and below it, except those on the root.
LEMMA WithoutSubtreeTree ==
    ASSUME NEW n, IsLockTree(n), NEW p \in Paths
    PROVE  /\ IsLockTree(WithoutSubtree(n, p))
           /\ AllLocks(WithoutSubtree(n, p))
                = {l \in AllLocks(n) : l.path = Root \/ ~Above(p, l.path)}
<1> DEFINE m == WithoutSubtree(n, p)
           D == {Root} \cup (DOMAIN n \ NodesBelow(n, p))
<1>1. m = [q \in D |-> n[q]]
  BY DEF WithoutSubtree
<1> HIDE DEF m
<1>2. DOMAIN m = D /\ D \subseteq DOMAIN n /\ \A q \in D : m[q] = n[q]
  BY <1>1 DEF IsLockTree
<1>3. m \in [DOMAIN m -> SUBSET DavLock]
  BY <1>1, <1>2 DEF IsLockTree
<1>4. ASSUME NEW q \in DOMAIN n PROVE q \in NodesBelow(n, p) <=> Above(p, q)
  BY DEF NodesBelow, Subtree, IsLockTree, Trail
<1>5. ASSUME NEW q \in D PROVE Trail(q) \subseteq D
  <2> SUFFICES ASSUME NEW r \in Trail(q) PROVE r \in D
    OBVIOUS
  <2>1. q \in Paths /\ r \in Paths /\ r \in DOMAIN n /\ Above(r, q)
    BY <1>2 DEF IsLockTree, Trail
  <2>2. CASE q = Root
    BY <2>1, <2>2, NothingAboveRoot
  <2>3. CASE q # Root
    BY <2>1, <2>3, <1>2, <1>4, AboveTransitive
  <2> QED BY <2>2, <2>3
<1>6. IsLockTree(m)
  BY <1>2, <1>3, <1>5 DEF IsLockTree
<1>7. ASSUME NEW l \in AllLocks(m)
      PROVE  l \in AllLocks(n) /\ (l.path = Root \/ ~Above(p, l.path))
  <2>1. l.path \in D /\ l \in n[l.path]
    BY <1>2, <1>6, LockAtItsPath
  <2> QED BY <2>1, <1>2, <1>4 DEF AllLocks
<1>8. ASSUME NEW l \in AllLocks(n), l.path = Root \/ ~Above(p, l.path)
      PROVE  l \in AllLocks(m)
  <2>1. l.path \in DOMAIN n /\ l \in n[l.path]
    BY LockAtItsPath
  <2> QED BY <2>1, <1>8, <1>2, <1>4 DEF AllLocks
<1> QED BY <1>6, <1>7, <1>8 DEF m

-----------------------------------------------------------------------------
(* The invariant.                                                          *)

\* lock()'s two walks see every lock the new one would be incompatible with.
LEMMA LockConflictsSound ==
    ASSUME NEW n, IsLockTree(n), NEW p \in Paths,
           NEW shared \in BOOLEAN, NEW deep \in BOOLEAN,
           LockConflicts(n, p, shared, deep) = {},
           NEW new, new.path = p, new.shared = shared, new.deep = deep,
           NEW m \in AllLocks(n)
    PROVE  ~Incompatible(new, m) /\ ~Incompatible(m, new)
<1> SUFFICES ASSUME ~(shared /\ m.shared),
                    NEW r \in Paths, Covers(new, r), Covers(m, r)
             PROVE  FALSE
  BY DEF Incompatible
<1>1. /\ m.path \in Paths /\ m.path \in DOMAIN n /\ m \in n[m.path]
      /\ Trail(m.path) \subseteq DOMAIN n /\ m.shared \in BOOLEAN
  BY LockAtItsPath DEF DavLock
<1>2. Above(p, r) /\ Above(m.path, r)
  BY <1>1, AboveReflexive DEF Covers
<1>3. CASE Above(m.path, p)
  <2>1. m.path = p \/ m.deep
    BY <1>1, <1>2, <1>3, AboveAntisymmetric DEF Covers
  <2>2. m.path \in Walk(n, p)
    BY <1>1, <1>3 DEF Walk, Trail
  <2>3. m \in LocksOn(n, p)
    BY <1>1, <2>1, <2>2 DEF LocksOn
  <2>4. \A pr : m \in ConflictsToPath(n, p, pr, TRUE, {}, shared)
    BY <2>3 DEF ConflictsToPath, Holds
  <2> QED BY <2>4 DEF LockConflicts
<1>4. CASE Above(p, m.path) /\ m.path # p
  <2>1. deep
    BY <1>1, <1>2, <1>4, AboveAntisymmetric DEF Covers
  <2>2. m.path \in NodesBelow(n, p)
    BY <1>1, <1>4 DEF NodesBelow, Subtree, Trail
  <2>3. \A pr : m \in ConflictsFromPath(n, p, pr, TRUE, {}, shared)
    BY <1>1, <2>2 DEF ConflictsFromPath, Holds
  <2> QED BY <2>1, <2>3 DEF LockConflicts
<1> QED BY <1>1, <1>2, <1>3, <1>4, AboveIsChain

\* Dropping locks keeps a coherent set coherent.
LEMMA FewerLocksCoherent ==
    ASSUME NEW n, NEW m, Coherent(n), AllLocks(m) \subseteq AllLocks(n)
    PROVE  Coherent(m)
  BY DEF Coherent

\* The token finds its lock at one node only.
LEMMA HolderNodesTree ==
    ASSUME NEW n, IsLockTree(n), NEW p, NEW token, NEW q \in HolderNodes(n, p, token)
    PROVE  q \in DOMAIN n /\ q \in Paths /\ Above(q, p)
           /\ \E l \in AllLocks(n) : l.path = q /\ l.token = token
<1>1. q \in Walk(n, p) /\ \E l \in n[q] : l.token = token
  BY DEF HolderNodes
<1>2. q \in Paths /\ Above(q, p) /\ q \in DOMAIN n
  BY <1>1, AboveReflexive DEF Walk, Trail
<1> QED BY <1>1, <1>2 DEF AllLocks, IsLockTree

\* lock() preserves the invariant.
LEMMA LockStep ==
    ASSUME IInv, NEW p \in Paths, NEW principal \in Principals,
           NEW timeout \in Timeouts \cup {Never}, NEW shared \in BOOLEAN,
           NEW deep \in BOOLEAN, Lock(p, principal, timeout, shared, deep)
    PROVE  IInv'
<1> DEFINE kept == Pruned(nodes, now)
           New(token) == NewLock(token, p, principal, DeadlineAt(now, timeout), shared, deep)
<1>1. /\ IsLockTree(kept) /\ AllLocks(kept) \subseteq AllLocks(nodes)
  BY PrunedTree DEF IInv, TypeOK
<1>2. Coherent(kept) /\ \A l \in AllLocks(kept) : l.token \in issued
  BY <1>1, FewerLocksCoherent DEF IInv
<1> HIDE DEF kept
<1>3. now' = now
  BY DEF Lock
<1>4. CASE LockConflicts(kept, p, shared, deep) # {}
  <2>1. nodes' = kept /\ issued' = issued
    BY <1>4 DEF Lock, kept
  <2> QED BY <1>1, <1>2, <1>3, <2>1 DEF IInv, TypeOK
<1>5. CASE LockConflicts(kept, p, shared, deep) = {}
  <2>1. PICK token \in Tokens \ issued :
           nodes' = WithLock(kept, p, New(token)) /\ issued' = issued \cup {token}
    BY <1>5 DEF Lock, kept
  <2>2. /\ New(token) \in DavLock
        /\ New(token).path = p /\ New(token).token = token
        /\ New(token).shared = shared /\ New(token).deep = deep
    BY <2>1, LocksAssumption DEF NewLock, DavLock, DeadlineAt, Deadlines, IInv, TypeOK
  <2> HIDE DEF New
  <2>3. IsLockTree(nodes') /\ AllLocks(nodes') = AllLocks(kept) \cup {New(token)}
    BY <1>1, <2>1, <2>2, WithLockTree
  <2>4. \A m \in AllLocks(kept) : ~Incompatible(New(token), m) /\ ~Incompatible(m, New(token))
    BY <1>1, <1>5, <2>2, LockConflictsSound
  <2>5. Coherent(nodes')
    <3> SUFFICES ASSUME NEW l \in AllLocks(nodes'), NEW m \in AllLocks(nodes'), l # m
                 PROVE  l.token # m.token /\ ~Incompatible(l, m)
      BY DEF Coherent
    <3> QED BY <1>2, <2>1, <2>2, <2>3, <2>4 DEF Coherent
  <2>6. \A l \in AllLocks(nodes') : l.token \in issued'
    BY <1>2, <2>1, <2>2, <2>3
  <2> QED BY <1>3, <2>1, <2>3, <2>5, <2>6 DEF IInv, TypeOK
<1> QED BY <1>4, <1>5

\* unlock() preserves the invariant.
LEMMA UnlockStep ==
    ASSUME IInv, NEW p \in Paths, NEW token \in Tokens, Unlock(p, token)
    PROVE  IInv'
<1> DEFINE kept == Pruned(nodes, now)
<1>1. /\ IsLockTree(kept) /\ AllLocks(kept) \subseteq AllLocks(nodes)
  BY PrunedTree DEF IInv, TypeOK
<1>2. issued' = issued /\ now' = now
  BY DEF Unlock
<1>3. nodes' = kept \/ \E q \in HolderNodes(kept, p, token) : nodes' = WithoutToken(kept, q, token)
  BY DEF Unlock
<1> HIDE DEF kept
<1>4. IsLockTree(nodes') /\ AllLocks(nodes') \subseteq AllLocks(kept)
  BY <1>1, <1>3, HolderNodesTree, WithoutTokenTree
<1> QED BY <1>1, <1>2, <1>4, FewerLocksCoherent DEF IInv, TypeOK

\* Incompatibility does not depend on deadlines.
LEMMA RenewedCompatible ==
    ASSUME NEW l \in DavLock, NEW m \in DavLock, NEW k \in DavLock, NEW j \in DavLock,
           k.path = l.path, k.shared = l.shared, k.deep = l.deep,
           j.path = m.path, j.shared = m.shared, j.deep = m.deep,
           ~Incompatible(l, m)
    PROVE  ~Incompatible(k, j)
  BY DEF Incompatible, Covers

\* What refresh() does to the locks: one of them gets another deadline.
LEMMA RenewedTree ==
    ASSUME NEW n, IsLockTree(n), Coherent(n), NEW q \in DOMAIN n, NEW token,
           NEW deadline \in Deadlines, NEW h \in AllLocks(n), h.path = q, h.token = token
    PROVE  LET m == Renewed(n, q, token, deadline)
           IN  /\ IsLockTree(m) /\ Coherent(m)
               /\ AllLocks(m) = (AllLocks(n) \ {h}) \cup {[h EXCEPT !.timeout_at = deadline]}
<1> DEFINE m == Renewed(n, q, token, deadline)
           Renew(l) == IF l.token = token THEN [l EXCEPT !.timeout_at = deadline] ELSE l
           g == [h EXCEPT !.timeout_at = deadline]
<1>0. n \in [DOMAIN n -> SUBSET DavLock]
  BY DEF IsLockTree
<1>1. DOMAIN m = DOMAIN n /\ m[q] = {Renew(l) : l \in n[q]} /\ \A r \in DOMAIN n \ {q} : m[r] = n[r]
  BY <1>0 DEF Renewed
<1>a. m = [r \in DOMAIN n |-> m[r]]
  BY <1>0 DEF Renewed
<1> HIDE DEF m
<1>2. h \in DavLock /\ h \in n[q]
  BY LockAtItsPath
<1>3. /\ g \in DavLock /\ g.path = q /\ g.token = token
      /\ g.shared = h.shared /\ g.deep = h.deep
  BY <1>2 DEF DavLock
<1>4. \A l \in n[q] : l \in AllLocks(n) /\ l \in DavLock /\ l.path = q
  BY <1>0 DEF AllLocks, IsLockTree
<1>5. \A l \in n[q] : l.token = token => l = h
  BY <1>4 DEF Coherent
<1> HIDE DEF g
<1>6. m[q] = (n[q] \ {h}) \cup {g}
  <2>1. \A l \in n[q] : Renew(l) = IF l = h THEN g ELSE l
    BY <1>5 DEF g
  <2> HIDE DEF Renew
  <2> QED BY <1>1, <1>2, <2>1
<1>7. m \in [DOMAIN m -> SUBSET DavLock]
  <2>1. \A r \in DOMAIN n : m[r] \in SUBSET DavLock
    BY <1>0, <1>1, <1>3, <1>6
  <2> QED BY <1>a, <1>1, <2>1
<1>8. IsLockTree(m)
  BY <1>1, <1>3, <1>4, <1>6, <1>7 DEF IsLockTree
<1>9. AllLocks(m) = (AllLocks(n) \ {h}) \cup {g}
  <2>1. ASSUME NEW k \in AllLocks(m) PROVE k \in (AllLocks(n) \ {h}) \cup {g}
    <3>1. PICK r \in DOMAIN n : k \in m[r]
      BY <1>1 DEF AllLocks
    <3>2. CASE r = q
      BY <3>1, <3>2, <1>4, <1>6
    <3>3. CASE r # q
      BY <3>1, <3>3, <1>1 DEF AllLocks, IsLockTree
    <3> QED BY <3>2, <3>3
  <2>2. ASSUME NEW k \in AllLocks(n), k # h PROVE k \in AllLocks(m)
    <3>1. k.path \in DOMAIN n /\ k \in n[k.path]
      BY LockAtItsPath
    <3> QED BY <2>2, <3>1, <1>1, <1>6 DEF AllLocks
  <2>3. g \in AllLocks(m)
    BY <1>1, <1>6 DEF AllLocks
  <2> QED BY <2>1, <2>2, <2>3
<1>10. Coherent(m)
  <2> SUFFICES ASSUME NEW k \in AllLocks(m), NEW j \in AllLocks(m), k # j
               PROVE  k.token # j.token /\ ~Incompatible(k, j)
    BY DEF Coherent
  <2>1. \A l \in AllLocks(n) : l \in DavLock
    BY LockAtItsPath
  <2>2. CASE k # g /\ j # g
    BY <2>2, <1>9 DEF Coherent
  <2>3. CASE k = g
    <3>1. j \in AllLocks(n) /\ j # h
      BY <2>3, <1>9
    <3>2. h.token # j.token /\ ~Incompatible(h, j)
      BY <3>1 DEF Coherent
    <3> QED BY <2>1, <2>3, <3>1, <3>2, <1>2, <1>3, RenewedCompatible
  <2>4. CASE j = g
    <3>1. k \in AllLocks(n) /\ k # h
      BY <2>4, <1>9
    <3>2. k.token # h.token /\ ~Incompatible(k, h)
      BY <3>1 DEF Coherent
    <3> QED BY <2>1, <2>4, <3>1, <3>2, <1>2, <1>3, RenewedCompatible
  <2> QED BY <2>2, <2>3, <2>4
<1> QED BY <1>8, <1>9, <1>10 DEF g, m

\* A deadline is a time or Never.
LEMMA DeadlineType ==
    ASSUME NEW t \in Nat, NEW timeout \in Timeouts \cup {Never}
    PROVE  DeadlineAt(t, timeout) \in Deadlines
  BY LocksAssumption DEF DeadlineAt, Deadlines

\* refresh() preserves the invariant.
LEMMA RefreshStep ==
    ASSUME IInv, NEW p \in Paths, NEW token \in Tokens,
           NEW timeout \in Timeouts \cup {Never}, Refresh(p, token, timeout)
    PROVE  IInv'
<1> DEFINE kept == Pruned(nodes, now)
           d == DeadlineAt(now, timeout)
<1>1. /\ IsLockTree(kept) /\ AllLocks(kept) \subseteq AllLocks(nodes)
  BY PrunedTree DEF IInv, TypeOK
<1>2. Coherent(kept) /\ \A l \in AllLocks(kept) : l.token \in issued
  BY <1>1, FewerLocksCoherent DEF IInv
<1>3. issued' = issued /\ now' = now
  BY DEF Refresh
<1>4. d \in Deadlines
  BY DeadlineType DEF IInv, TypeOK
<1>5. \/ nodes' = kept
      \/ \E q \in HolderNodes(kept, p, token) :
           nodes' = Renewed(kept, q, token, d)
  BY DEF Refresh
<1> HIDE DEF kept, d
<1>6. CASE nodes' = kept
  BY <1>1, <1>2, <1>3, <1>6 DEF IInv, TypeOK
<1>7. CASE nodes' # kept
  <2>1. PICK q \in HolderNodes(kept, p, token) :
           nodes' = Renewed(kept, q, token, d)
    BY <1>5, <1>7
  <2>2. q \in DOMAIN kept /\ \E l \in AllLocks(kept) : l.path = q /\ l.token = token
    BY <1>1, HolderNodesTree
  <2>3. PICK h \in AllLocks(kept) : h.path = q /\ h.token = token
    BY <2>2
  <2>4. /\ IsLockTree(nodes') /\ Coherent(nodes')
        /\ AllLocks(nodes') = (AllLocks(kept) \ {h}) \cup {[h EXCEPT !.timeout_at = d]}
    BY <1>1, <1>2, <1>4, <2>1, <2>2, <2>3, RenewedTree
  <2>5. [h EXCEPT !.timeout_at = d].token = token
    BY <1>1, <2>3, LockAtItsPath DEF DavLock
  <2>6. \A l \in AllLocks(nodes') : l.token \in issued
    BY <1>2, <2>3, <2>4, <2>5
  <2> QED BY <1>3, <2>4, <2>6 DEF IInv, TypeOK
<1> QED BY <1>6, <1>7

\* The initial tree is the root without locks.
LEMMA InitInvariant == Init => IInv
<1> SUFFICES ASSUME Init PROVE IInv
  OBVIOUS
<1>1. DOMAIN nodes = {Root} /\ nodes[Root] = {} /\ nodes \in [DOMAIN nodes -> SUBSET DavLock]
  BY DEF Init
<1>2. AllLocks(nodes) = {}
  BY <1>1 DEF AllLocks
<1>3. Trail(Root) = {Root}
  BY NothingAboveRoot, AboveReflexive, PathsAssumption DEF Trail
<1>4. TypeOK
  BY <1>1, <1>3, PathsAssumption DEF TypeOK, IsLockTree, Init
<1> QED BY <1>2, <1>4 DEF IInv, Coherent

\* Every method, and the passage of time, preserves the invariant.
LEMMA NextInvariant == IInv /\ [Next]_vars => IInv'
<1> SUFFICES ASSUME IInv, [Next]_vars PROVE IInv'
  OBVIOUS
<1>1. CASE \E p \in Paths, principal \in Principals, timeout \in Timeouts \cup {Never},
              shared, deep \in BOOLEAN : Lock(p, principal, timeout, shared, deep)
  BY <1>1, LockStep
<1>2. CASE \E p \in Paths, token \in Tokens : Unlock(p, token)
  BY <1>2, UnlockStep
<1>3. CASE \E p \in Paths, token \in Tokens, timeout \in Timeouts \cup {Never} :
              Refresh(p, token, timeout)
  BY <1>3, RefreshStep
<1>4. CASE Query
  <2>1. IsLockTree(nodes') /\ AllLocks(nodes') \subseteq AllLocks(nodes)
    BY <1>4, PrunedTree DEF Query, IInv, TypeOK
  <2> QED BY <1>4, <2>1, FewerLocksCoherent DEF Query, IInv, TypeOK
<1>5. CASE \E p \in Deleted : Delete(p)
  <2>1. IsLockTree(nodes') /\ AllLocks(nodes') \subseteq AllLocks(nodes)
    BY <1>5, MemLsAssumption, WithoutSubtreeTree DEF Delete, IInv, TypeOK
  <2> QED BY <1>5, <2>1, FewerLocksCoherent DEF Delete, IInv, TypeOK
<1>6. CASE Tick
  BY <1>6 DEF Tick, IInv, TypeOK, Coherent
<1>7. CASE UNCHANGED vars
  BY <1>7 DEF vars, IInv, TypeOK, Coherent
<1> QED BY <1>1, <1>2, <1>3, <1>4, <1>5, <1>6, <1>7 DEF Next

\* The invariant holds in every reachable state of the lock system.
THEOREM Invariant == Spec => []IInv
  BY InitInvariant, NextInvariant, PTL DEF Spec

\* The tree stays a tree with every lock at the node of its path.
THEOREM TypeCorrect == Spec => []TypeOK
<1>1. IInv => TypeOK
  BY DEF IInv
<1> QED BY Invariant, <1>1, PTL

\* No two locks in force exclude each other.
THEOREM MutualExclusion == Spec => []NoIncompatibleLocks
<1>1. IInv => NoIncompatibleLocks
  BY DEF IInv, NoIncompatibleLocks, InForce, Coherent
<1> QED BY Invariant, <1>1, PTL

-----------------------------------------------------------------------------
(* The lock tree implements the lock table.                                *)

\* The instance of LockTable speaks of locks as MemLs does.
LEMMA SameVocabulary ==
    /\ LT!Root = Root
    /\ \A p, q : LT!Above(p, q) <=> Above(p, q)
    /\ \A l, t : LT!Expired(l, t) <=> Expired(l, t)
    /\ \A l, m : LT!Incompatible(l, m) <=> Incompatible(l, m)
    /\ \A t, timeout : LT!DeadlineAt(t, timeout) = DeadlineAt(t, timeout)
    /\ \A token, path, principal, at, shared, deep :
           LT!NewLock(token, path, principal, at, shared, deep)
             = NewLock(token, path, principal, at, shared, deep)
<1>1. LT!Root = Root /\ \A p, q : LT!Above(p, q) <=> Above(p, q)
  BY DEF LT!Root, Root, LT!Above, Above
<1>2. \A l, r : LT!Covers(l, r) <=> Covers(l, r)
  BY <1>1 DEF LT!Covers, Covers
<1>3. \A l, m : LT!Incompatible(l, m) <=> Incompatible(l, m)
  BY <1>2 DEF LT!Incompatible, Incompatible
<1> QED BY <1>1, <1>3 DEF LT!Expired, Expired, LT!DeadlineAt, DeadlineAt, LT!NewLock, NewLock

\* The locks in force after pruning are those before it.
LEMMA PrunedInForce ==
    ASSUME IInv
    PROVE  /\ IsLockTree(Pruned(nodes, now)) /\ Coherent(Pruned(nodes, now))
           /\ AllLocks(Pruned(nodes, now)) = InForce
           /\ \A l \in AllLocks(Pruned(nodes, now)) : l.token \in issued
  BY PrunedTree DEF IInv, TypeOK, InForce, Coherent

\* lock() is a grant or changes no lock in force.
LEMMA LockRefines ==
    ASSUME IInv, NEW p \in Paths, NEW principal \in Principals,
           NEW timeout \in Timeouts \cup {Never}, NEW shared \in BOOLEAN,
           NEW deep \in BOOLEAN, Lock(p, principal, timeout, shared, deep)
    PROVE  LT!Next \/ UNCHANGED LT!vars
<1> DEFINE kept == Pruned(nodes, now)
           New(token) == NewLock(token, p, principal, DeadlineAt(now, timeout), shared, deep)
<1>1. IsLockTree(kept) /\ AllLocks(kept) = InForce
  BY PrunedInForce
<1>2. now' = now
  BY DEF Lock
<1>3. CASE LockConflicts(kept, p, shared, deep) # {}
  <2>1. nodes' = kept /\ issued' = issued
    BY <1>3 DEF Lock
  <2>2. InForce' = InForce
    BY <1>1, <1>2, <2>1 DEF InForce
  <2> QED BY <1>2, <2>1, <2>2 DEF LT!vars
<1>4. CASE LockConflicts(kept, p, shared, deep) = {}
  <2>1. PICK token \in Tokens \ issued :
           nodes' = WithLock(kept, p, New(token)) /\ issued' = issued \cup {token}
    BY <1>4 DEF Lock
  <2>2. /\ New(token) \in DavLock
        /\ New(token).path = p /\ New(token).token = token
        /\ New(token).shared = shared /\ New(token).deep = deep
    BY <2>1, DeadlineType DEF NewLock, DavLock, IInv, TypeOK
  <2> HIDE DEF New, kept
  <2>3. AllLocks(nodes') = InForce \cup {New(token)}
    BY <1>1, <2>1, <2>2, WithLockTree
  <2>4. \A m \in InForce : ~Incompatible(New(token), m)
    BY <1>1, <1>4, <2>2, LockConflictsSound
  <2>5. InForce' = InForce \cup {l \in {New(token)} : ~Expired(l, now)}
    BY <1>2, <2>3 DEF InForce
  <2>6. LT!Grant(New(token))
    BY <1>2, <2>1, <2>2, <2>4, <2>5, SameVocabulary DEF LT!Grant, LT!InForce
  <2> QED BY <2>1, <2>6, SameVocabulary DEF LT!Next, New
<1> QED BY <1>3, <1>4

\* unlock() ends the lock with its token, or nothing.
LEMMA UnlockRefines ==
    ASSUME IInv, NEW p \in Paths, NEW token \in Tokens, Unlock(p, token)
    PROVE  LT!Next \/ UNCHANGED LT!vars
<1> DEFINE kept == Pruned(nodes, now)
<1>1. IsLockTree(kept) /\ Coherent(kept) /\ AllLocks(kept) = InForce
  BY PrunedInForce
<1>2. now' = now /\ issued' = issued
  BY DEF Unlock
<1>3. nodes' = kept \/ \E q \in HolderNodes(kept, p, token) : nodes' = WithoutToken(kept, q, token)
  BY DEF Unlock
<1> HIDE DEF kept
<1>4. CASE nodes' = kept
  <2>1. InForce' = InForce
    BY <1>1, <1>2, <1>4 DEF InForce
  <2> QED BY <1>2, <2>1 DEF LT!vars
<1>5. CASE nodes' # kept
  <2>1. PICK q \in HolderNodes(kept, p, token) : nodes' = WithoutToken(kept, q, token)
    BY <1>3, <1>5
  <2>2. PICK h \in InForce : h.path = q /\ h.token = token
    BY <1>1, HolderNodesTree
  <2>3. AllLocks(nodes') = {l \in InForce : ~(l.path = q /\ l.token = token)}
    BY <1>1, <2>1, HolderNodesTree, WithoutTokenTree
  <2>4. AllLocks(nodes') = InForce \ {h}
    BY <1>1, <2>2, <2>3 DEF Coherent
  <2>5. InForce' = InForce \ {h}
    BY <1>2, <2>4 DEF InForce
  <2>6. LT!Release(h)
    BY <1>2, <2>5 DEF LT!Release
  <2> QED BY <2>2, <2>6 DEF LT!Next
<1> QED BY <1>4, <1>5

\* refresh() moves the deadline of the lock with its token, or nothing.
LEMMA RefreshRefines ==
    ASSUME IInv, NEW p \in Paths, NEW token \in Tokens,
           NEW timeout \in Timeouts \cup {Never}, Refresh(p, token, timeout)
    PROVE  LT!Next \/ UNCHANGED LT!vars
<1> DEFINE kept == Pruned(nodes, now)
           d == DeadlineAt(now, timeout)
<1>1. IsLockTree(kept) /\ Coherent(kept) /\ AllLocks(kept) = InForce
  BY PrunedInForce
<1>2. now' = now /\ issued' = issued
  BY DEF Refresh
<1>3. d \in Deadlines
  BY DeadlineType DEF IInv, TypeOK
<1>4. nodes' = kept \/ \E q \in HolderNodes(kept, p, token) : nodes' = Renewed(kept, q, token, d)
  BY DEF Refresh
<1> HIDE DEF kept, d
<1>5. CASE nodes' = kept
  <2>1. InForce' = InForce
    BY <1>1, <1>2, <1>5 DEF InForce
  <2> QED BY <1>2, <2>1 DEF LT!vars
<1>6. CASE nodes' # kept
  <2>1. PICK q \in HolderNodes(kept, p, token) : nodes' = Renewed(kept, q, token, d)
    BY <1>4, <1>6
  <2>2. PICK h \in InForce : h.path = q /\ h.token = token
    BY <1>1, HolderNodesTree
  <2>3. q \in DOMAIN kept
    BY <1>1, HolderNodesTree
  <2>4. AllLocks(nodes') = (InForce \ {h}) \cup {[h EXCEPT !.timeout_at = d]}
    BY <1>1, <1>3, <2>1, <2>2, <2>3, RenewedTree
  <2>5. InForce' = (InForce \ {h}) \cup {l \in {[h EXCEPT !.timeout_at = d]} : ~Expired(l, now)}
    BY <1>2, <2>4 DEF InForce
  <2>6. LT!Refresh(h, timeout)
    BY <1>2, <2>5, SameVocabulary DEF LT!Refresh, LT!InForce, d
  <2> QED BY <2>2, <2>6 DEF LT!Next
<1> QED BY <1>5, <1>6

\* delete() of the root, which keeps the locks on the root itself.
DeletesRoot == Root \in Deleted /\ Delete(Root)

\* Every other step of the lock tree is a step of the lock table or invisible.
LEMMA NextRefines == IInv /\ [Next]_vars /\ ~DeletesRoot => [LT!Next]_(LT!vars)
<1> SUFFICES ASSUME IInv, [Next]_vars, ~DeletesRoot PROVE LT!Next \/ UNCHANGED LT!vars
  OBVIOUS
<1>1. CASE \E p \in Paths, principal \in Principals, timeout \in Timeouts \cup {Never},
              shared, deep \in BOOLEAN : Lock(p, principal, timeout, shared, deep)
  BY <1>1, LockRefines
<1>2. CASE \E p \in Paths, token \in Tokens : Unlock(p, token)
  BY <1>2, UnlockRefines
<1>3. CASE \E p \in Paths, token \in Tokens, timeout \in Timeouts \cup {Never} :
              Refresh(p, token, timeout)
  BY <1>3, RefreshRefines
<1>4. CASE Query
  <2>1. AllLocks(nodes') = InForce /\ now' = now /\ issued' = issued
    BY <1>4, PrunedInForce DEF Query
  <2>2. InForce' = InForce
    BY <2>1 DEF InForce
  <2> QED BY <2>1, <2>2 DEF LT!vars
<1>5. CASE \E p \in Deleted : Delete(p)
  <2>1. PICK p \in Deleted : Delete(p)
    BY <1>5
  <2>2. p \in Paths /\ p # Root
    BY <1>5, <2>1, MemLsAssumption DEF DeletesRoot
  <2>3. AllLocks(nodes') = {l \in AllLocks(nodes) : l.path = Root \/ ~Above(p, l.path)}
    BY <2>1, <2>2, WithoutSubtreeTree DEF Delete, IInv, TypeOK
  <2>4. InForce' = {l \in InForce : ~Above(p, l.path)}
    BY <2>1, <2>2, <2>3, NothingAboveRoot DEF InForce, Delete
  <2>5. LT!Revoke(p)
    BY <2>1, <2>2, <2>4, SameVocabulary DEF LT!Revoke, Delete
  <2> QED BY <2>2, <2>5 DEF LT!Next
<1>6. CASE Tick
  <2>1. InForce' = {l \in InForce : ~Expired(l, now + 1)}
    BY <1>6, LockAtItsPath DEF Tick, InForce, Expired, IInv, TypeOK, DavLock, Deadlines
  <2>2. LT!Elapse
    BY <1>6, <2>1, SameVocabulary DEF Tick, LT!Elapse, LT!InForce
  <2> QED BY <2>2 DEF LT!Next
<1>7. CASE UNCHANGED vars
  BY <1>7 DEF vars, LT!vars, InForce
<1> QED BY <1>1, <1>2, <1>3, <1>4, <1>5, <1>6, <1>7 DEF Next

\* MemLs keeps the promise of the DavLockSystem trait, as long as delete() is
\* not called with the root, whose own locks it would keep.
THEOREM Refinement == ASSUME Root \notin Deleted PROVE Spec => ImplementsLockTable
<1>1. Init => LT!Init
  BY DEF Init, LT!Init, InForce, AllLocks
<1>2. IInv /\ [Next]_vars => [LT!Next]_(LT!vars)
  BY NextRefines DEF DeletesRoot
<1> QED BY <1>1, <1>2, Invariant, PTL DEF Spec, ImplementsLockTable, LT!Spec

-----------------------------------------------------------------------------
(* What the walks over the tree see.                                       *)

\* The walk from the root meets the locks that cover p and no others.
LEMMA LocksOnCovers ==
    ASSUME NEW n, IsLockTree(n), NEW p \in Paths
    PROVE  LocksOn(n, p) = {l \in AllLocks(n) : Covers(l, p)}
<1>1. ASSUME NEW l \in LocksOn(n, p) PROVE l \in AllLocks(n) /\ Covers(l, p)
  <2>1. PICK q \in Walk(n, p) : l \in n[q] /\ (q = p \/ l.deep)
    BY DEF LocksOn
  <2>2. q \in Paths /\ Above(q, p) /\ q \in DOMAIN n
    BY AboveReflexive DEF Walk, Trail
  <2> QED BY <2>1, <2>2 DEF AllLocks, IsLockTree, Covers
<1>2. ASSUME NEW l \in AllLocks(n), Covers(l, p) PROVE l \in LocksOn(n, p)
  <2>1. /\ l.path \in Paths /\ l \in n[l.path] /\ Trail(l.path) \subseteq DOMAIN n
    BY LockAtItsPath
  <2>2. l.path \in Walk(n, p)
    BY <1>2, <2>1, AboveReflexive DEF Covers, Walk, Trail
  <2> QED BY <1>2, <2>1, <2>2 DEF LocksOn, Covers
<1> QED BY <1>1, <1>2

\* The nodes below p hold the locks at p and below it and no others.
LEMMA LocksBelow ==
    ASSUME NEW n, IsLockTree(n), NEW p \in Paths
    PROVE  UNION {n[q] : q \in NodesBelow(n, p)} = {l \in AllLocks(n) : Above(p, l.path)}
<1>1. ASSUME NEW q \in NodesBelow(n, p), NEW l \in n[q]
      PROVE  l \in AllLocks(n) /\ Above(p, l.path)
  BY DEF NodesBelow, Subtree, AllLocks, IsLockTree
<1>2. ASSUME NEW l \in AllLocks(n), Above(p, l.path)
      PROVE  l.path \in NodesBelow(n, p) /\ l \in n[l.path]
  BY <1>2, LockAtItsPath DEF NodesBelow, Subtree, Trail
<1> QED BY <1>1, <1>2

\* discover() reports exactly the locks in force that cover the path.
THEOREM DiscoverExact == Spec => []DiscoverIsExact
<1>1. IInv => DiscoverIsExact
  BY PrunedInForce, LocksOnCovers DEF DiscoverIsExact
<1> QED BY Invariant, <1>1, PTL

\* check() lets a request through exactly when its tokens suffice.
THEOREM CheckExact == Spec => []CheckIsExact
<1>1. ASSUME IInv, NEW p \in Paths, NEW pr \in Principals, NEW deep \in BOOLEAN,
             NEW tokens \in SUBSET issued
      PROVE  (CheckConflicts(Pruned(nodes, now), p, pr, FALSE, deep, tokens) = {})
                <=> MayChange(p, pr, deep, tokens)
  <2> DEFINE kept == Pruned(nodes, now)
             mine(l) == l.token \in tokens /\ l.principal = pr
             covering == {l \in InForce : Covers(l, p)}
             below == {l \in InForce : Above(p, l.path)}
             up == ConflictsToPath(kept, p, pr, FALSE, tokens, FALSE)
             down == ConflictsFromPath(kept, p, pr, FALSE, tokens, FALSE)
  <2>1. /\ LocksOn(kept, p) = covering
        /\ UNION {kept[q] : q \in NodesBelow(kept, p)} = below
    BY <1>1, PrunedInForce, LocksOnCovers, LocksBelow
  <2>2. \A l : Holds(l, pr, FALSE, tokens) <=> mine(l)
    BY DEF Holds
  <2>3. up = {l \in covering \ {k \in covering : mine(k)} :
                 ~l.shared \/ {k \in covering : mine(k)} = {}}
    BY <2>1, <2>2 DEF ConflictsToPath
  <2>4. down = {l \in below : ~mine(l)}
    BY <2>1, <2>2 DEF ConflictsFromPath
  <2>5. MayChange(p, pr, deep, tokens) <=>
          /\ \A l \in covering : ~l.shared => mine(l)
          /\ covering # {} => \E l \in covering : mine(l)
          /\ deep => \A l \in below : mine(l)
    BY DEF MayChange
  <2>6. CheckConflicts(kept, p, pr, FALSE, deep, tokens) = {}
          <=> up = {} /\ (deep => down = {})
    BY DEF CheckConflicts
  <2> HIDE DEF mine, covering, below, up, down, kept
  <2>7. up = {} <=> /\ \A l \in covering : ~l.shared => mine(l)
                    /\ covering # {} => \E l \in covering : mine(l)
    BY <2>3
  <2>8. down = {} <=> \A l \in below : mine(l)
    BY <2>4
  <2> QED BY <2>5, <2>6, <2>7, <2>8 DEF kept
<1>2. IInv => CheckIsExact
  BY <1>1 DEF CheckIsExact
<1> QED BY Invariant, <1>2, PTL

\* lock() refuses exactly what is incompatible with a lock in force.
THEOREM RefusalExact == Spec => []RefusesExactlyConflicts
<1>1. ASSUME IInv, NEW p \in Paths, NEW pr \in Principals,
             NEW shared \in BOOLEAN, NEW deep \in BOOLEAN
      PROVE  LET new == NewLock("new", p, pr, Never, shared, deep)
             IN  (LockConflicts(Pruned(nodes, now), p, shared, deep) # {})
                   <=> \E l \in InForce : Incompatible(l, new)
  <2> DEFINE kept == Pruned(nodes, now)
             new == NewLock("new", p, pr, Never, shared, deep)
  <2>1. new.path = p /\ new.shared = shared /\ new.deep = deep
    BY DEF NewLock
  <2>2. IsLockTree(kept) /\ AllLocks(kept) = InForce
    BY <1>1, PrunedInForce
  <2> HIDE DEF new, kept
  <2>3. ASSUME LockConflicts(kept, p, shared, deep) = {}
        PROVE  \A l \in InForce : ~Incompatible(l, new)
    BY <2>1, <2>2, <2>3, LockConflictsSound
  <2>4. ASSUME NEW l \in LockConflicts(kept, p, shared, deep)
        PROVE  l \in InForce /\ Incompatible(l, new)
    <3>1. CASE l \in LocksOn(kept, p) /\ (~l.shared \/ ~shared)
      <4>1. l \in InForce /\ Covers(l, p)
        BY <3>1, <2>2, LocksOnCovers
      <4>2. Covers(new, p)
        BY <2>1 DEF Covers
      <4> QED BY <3>1, <4>1, <4>2, <2>1 DEF Incompatible
    <3>2. CASE /\ deep /\ (~l.shared \/ ~shared)
               /\ l \in UNION {kept[q] : q \in NodesBelow(kept, p)}
      <4>1. l \in InForce /\ Above(p, l.path) /\ l.path \in Paths
        BY <3>2, <2>2, LocksBelow, LockAtItsPath
      <4>2. Covers(l, l.path) /\ Covers(new, l.path)
        BY <3>2, <4>1, <2>1 DEF Covers
      <4> QED BY <3>2, <4>1, <4>2, <2>1 DEF Incompatible
    <3> QED BY <2>4, <3>1, <3>2
            DEF LockConflicts, ConflictsToPath, ConflictsFromPath, Holds
  <2> QED BY <2>3, <2>4 DEF new, kept
<1>2. IInv => RefusesExactlyConflicts
  BY <1>1 DEF RefusesExactlyConflicts
<1> QED BY Invariant, <1>2, PTL

\* A lock in force is found by its token under its own path, and only there.
THEOREM HolderFinds == Spec => []HolderFindsLock
<1>1. ASSUME IInv, NEW l \in InForce
      PROVE  HolderNodes(Pruned(nodes, now), l.path, l.token) = {l.path}
  <2> DEFINE kept == Pruned(nodes, now)
  <2>1. IsLockTree(kept) /\ Coherent(kept) /\ AllLocks(kept) = InForce
    BY <1>1, PrunedInForce
  <2> HIDE DEF kept
  <2>2. /\ l.path \in Paths /\ l \in kept[l.path] /\ Trail(l.path) \subseteq DOMAIN kept
    BY <1>1, <2>1, LockAtItsPath
  <2>3. l.path \in HolderNodes(kept, l.path, l.token)
    BY <2>2, AboveReflexive DEF HolderNodes, Walk, Trail
  <2>4. \A q \in HolderNodes(kept, l.path, l.token) : q = l.path
    BY <1>1, <2>1, HolderNodesTree DEF Coherent
  <2> QED BY <2>3, <2>4 DEF kept
<1>2. IInv => HolderFindsLock
  BY <1>1 DEF HolderFindsLock
<1> QED BY Invariant, <1>2, PTL

-----------------------------------------------------------------------------
(* Ended locks.                                                            *)

\* No step of the lock table revives a lock or reuses its token.
LEMMA TableStepEnds ==
    ASSUME IInv, IInv', [LT!Next]_(LT!vars)
    PROVE  (issued \ TokensInForce) \cap TokensInForce' = {}
<1> SUFFICES ASSUME NEW k \in InForce', k.token \in issued
             PROVE  \E l \in InForce : l.token = k.token
  BY DEF TokensInForce
<1>1. CASE \E p \in Paths, principal \in Principals, shared, deep \in BOOLEAN,
             timeout \in Timeouts \cup {Never}, token \in Tokens :
             LT!Grant(LT!NewLock(token, p, principal, LT!DeadlineAt(now, timeout), shared, deep))
  BY <1>1 DEF LT!Grant, LT!InForce
<1>2. CASE \E l \in InForce : LT!Release(l)
  BY <1>2 DEF LT!Release
<1>3. CASE \E l \in InForce, timeout \in Timeouts \cup {Never} : LT!Refresh(l, timeout)
  <2>1. PICK l \in InForce, timeout \in Timeouts \cup {Never} : LT!Refresh(l, timeout)
    BY <1>3
  <2>2. l \in DavLock
    BY LockAtItsPath DEF InForce, IInv, TypeOK
  <2>3. \A d : [l EXCEPT !.timeout_at = d].token = l.token
    BY <2>2 DEF DavLock
  <2> QED BY <2>1, <2>3 DEF LT!Refresh, LT!InForce
<1>4. CASE \E p \in Paths : LT!Revoke(p)
  BY <1>4 DEF LT!Revoke
<1>5. CASE LT!Elapse
  BY <1>5 DEF LT!Elapse, LT!InForce
<1>6. CASE UNCHANGED LT!vars
  BY <1>6 DEF LT!vars
<1> QED BY <1>1, <1>2, <1>3, <1>4, <1>5, <1>6 DEF LT!Next

\* Nor does any step of the lock tree.
LEMMA StepRevivesNothing ==
    ASSUME IInv, IInv', [Next]_vars
    PROVE  (issued \ TokensInForce) \cap TokensInForce' = {}
<1>1. CASE DeletesRoot
  <2>1. AllLocks(nodes') \subseteq AllLocks(nodes) /\ now' = now
    BY <1>1, WithoutSubtreeTree, PathsAssumption DEF DeletesRoot, Delete, IInv, TypeOK
  <2> QED BY <2>1 DEF TokensInForce, InForce
<1>2. CASE ~DeletesRoot
  BY <1>2, NextRefines, TableStepEnds
<1> QED BY <1>1, <1>2

\* A lock that has ended stays ended.
THEOREM NoRevival == Spec => EndedStaysEnded
<1>1. IInv /\ IInv' /\ [Next]_vars
        => [(issued \ TokensInForce) \cap TokensInForce' = {}]_vars
  BY StepRevivesNothing
<1> QED BY Invariant, <1>1, PTL DEF Spec, EndedStaysEnded

-----------------------------------------------------------------------------
(* What a caller that keeps what it was told may rely on later.            *)

\* The same lock, perhaps with another deadline.
SameLock(l, k) == /\ l.token = k.token /\ l.path = k.path /\ l.principal = k.principal
                  /\ l.shared = k.shared /\ l.deep = k.deep

\* A stored lock is new, with a token never seen before, or one that was
\* stored already: nothing but a deadline ever changes.
LEMMA LocksKeep ==
    IInv /\ [Next]_vars
      => \A k \in AllLocks(nodes') :
            k.token \in issued => \E l \in AllLocks(nodes) : SameLock(l, k)
<1> SUFFICES ASSUME IInv, [Next]_vars, NEW k \in AllLocks(nodes'), k.token \in issued
             PROVE  \E l \in AllLocks(nodes) : SameLock(l, k)
  OBVIOUS
<1> DEFINE kept == Pruned(nodes, now)
<1>1. IsLockTree(nodes) /\ IsLockTree(kept) /\ AllLocks(kept) \subseteq AllLocks(nodes)
      /\ Coherent(kept) /\ now \in Nat
  BY PrunedTree, FewerLocksCoherent DEF IInv, TypeOK
<1>2. ASSUME AllLocks(nodes') \subseteq AllLocks(nodes)
      PROVE  \E l \in AllLocks(nodes) : SameLock(l, k)
  BY <1>2 DEF SameLock
<1>3. ASSUME NEW p \in Paths, NEW principal \in Principals, NEW timeout \in Timeouts \cup {Never},
             NEW shared \in BOOLEAN, NEW deep \in BOOLEAN, Lock(p, principal, timeout, shared, deep)
      PROVE  \E l \in AllLocks(nodes) : SameLock(l, k)
  <2> DEFINE New(token) == NewLock(token, p, principal, DeadlineAt(now, timeout), shared, deep)
  <2>1. CASE nodes' = kept
    BY <1>1, <1>2, <2>1
  <2>2. ASSUME NEW token \in Tokens \ issued, nodes' = WithLock(kept, p, New(token))
        PROVE  \E l \in AllLocks(nodes) : SameLock(l, k)
    <3>1. New(token) \in DavLock /\ New(token).path = p /\ New(token).token = token
      BY <1>1, LocksAssumption DEF NewLock, DavLock, DeadlineAt, Deadlines
    <3> HIDE DEF New, kept
    <3>2. AllLocks(nodes') = AllLocks(kept) \cup {New(token)}
      BY <1>1, <2>2, <3>1, WithLockTree
    <3>3. k \in AllLocks(kept)
      BY <3>1, <3>2
    <3> QED BY <1>1, <3>3 DEF SameLock
  <2> QED BY <1>3, <2>1, <2>2 DEF Lock
<1>4. ASSUME NEW p \in Paths, NEW token \in Tokens, Unlock(p, token)
      PROVE  AllLocks(nodes') \subseteq AllLocks(nodes)
  <2>1. nodes' = kept \/ \E q \in HolderNodes(kept, p, token) : nodes' = WithoutToken(kept, q, token)
    BY <1>4 DEF Unlock
  <2> HIDE DEF kept
  <2> QED BY <1>1, <2>1, HolderNodesTree, WithoutTokenTree
<1>5. ASSUME NEW p \in Paths, NEW token \in Tokens, NEW timeout \in Timeouts \cup {Never},
             Refresh(p, token, timeout)
      PROVE  \E l \in AllLocks(nodes) : SameLock(l, k)
  <2> DEFINE d == DeadlineAt(now, timeout)
  <2>1. d \in Deadlines
    BY <1>1, DeadlineType
  <2>2. nodes' = kept \/ \E q \in HolderNodes(kept, p, token) : nodes' = Renewed(kept, q, token, d)
    BY <1>5 DEF Refresh
  <2> HIDE DEF kept, d
  <2>3. CASE nodes' = kept
    BY <1>1, <1>2, <2>3
  <2>4. ASSUME NEW q \in HolderNodes(kept, p, token), nodes' = Renewed(kept, q, token, d)
        PROVE  \E l \in AllLocks(nodes) : SameLock(l, k)
    <3>1. q \in DOMAIN kept /\ \E l \in AllLocks(kept) : l.path = q /\ l.token = token
      BY <1>1, HolderNodesTree
    <3>2. PICK h \in AllLocks(kept) : h.path = q /\ h.token = token
      BY <3>1
    <3>3. AllLocks(nodes') = (AllLocks(kept) \ {h}) \cup {[h EXCEPT !.timeout_at = d]}
      BY <1>1, <2>1, <2>4, <3>1, <3>2, RenewedTree
    <3>4. SameLock(h, [h EXCEPT !.timeout_at = d])
      BY <1>1, <3>2, LockAtItsPath DEF DavLock, SameLock
    <3> QED BY <1>1, <3>3, <3>4 DEF SameLock
  <2> QED BY <2>2, <2>3, <2>4
<1>6. ASSUME Query PROVE AllLocks(nodes') \subseteq AllLocks(nodes)
  BY <1>1, <1>6 DEF Query
<1>7. ASSUME NEW p \in Deleted, Delete(p) PROVE AllLocks(nodes') \subseteq AllLocks(nodes)
  BY <1>1, <1>7, MemLsAssumption, WithoutSubtreeTree DEF Delete
<1>8. CASE Tick
  BY <1>2, <1>8 DEF Tick
<1>9. CASE UNCHANGED vars
  BY <1>2, <1>9 DEF vars
<1> QED BY <1>2, <1>3, <1>4, <1>5, <1>6, <1>7, <1>8, <1>9 DEF Next

\* Tokens are only ever added to those handed out.
LEMMA IssuedGrows == [Next]_vars => issued \subseteq issued'
  BY DEF Next, vars, Lock, Unlock, Refresh, Query, Delete, Tick

\* check() has seen to every exclusive lock that covers p or, with deep,
\* something below it.
LEMMA CheckGuards ==
    IInv => \A p, r \in Paths, pr \in Principals, deep \in BOOLEAN, tokens \in SUBSET Tokens :
              CheckConflicts(Pruned(nodes, now), p, pr, FALSE, deep, tokens) = {}
                /\ (r = p \/ (deep /\ Above(p, r)))
                => \A l \in AllLocks(Pruned(nodes, now)) :
                      ~l.shared /\ Covers(l, r) => l.token \in tokens /\ l.principal = pr
<1> SUFFICES ASSUME IInv, NEW p \in Paths, NEW r \in Paths, NEW pr \in Principals,
                    NEW deep \in BOOLEAN, NEW tokens \in SUBSET Tokens,
                    CheckConflicts(Pruned(nodes, now), p, pr, FALSE, deep, tokens) = {},
                    r = p \/ (deep /\ Above(p, r)),
                    NEW l \in AllLocks(Pruned(nodes, now)), ~l.shared, Covers(l, r)
             PROVE  l.token \in tokens /\ l.principal = pr
  OBVIOUS
<1> DEFINE kept == Pruned(nodes, now)
<1>1. IsLockTree(kept) /\ l \in AllLocks(kept)
  BY PrunedInForce
<1>2. /\ ConflictsToPath(kept, p, pr, FALSE, tokens, FALSE) = {}
      /\ deep => ConflictsFromPath(kept, p, pr, FALSE, tokens, FALSE) = {}
  BY DEF CheckConflicts
<1> HIDE DEF kept
<1>3. l.path \in Paths
  BY <1>1, LockAtItsPath
<1>4. CASE Covers(l, p)
  <2>1. l \in LocksOn(kept, p)
    BY <1>1, <1>4, LocksOnCovers
  <2> QED BY <1>2, <2>1 DEF ConflictsToPath, Holds
<1>5. CASE ~Covers(l, p)
  <2>1. deep /\ Above(p, l.path)
    BY <1>3, <1>5, AboveIsChain, AboveReflexive DEF Covers
  <2>2. l \in UNION {kept[q] : q \in NodesBelow(kept, p)}
    BY <1>1, <2>1, LocksBelow
  <2> QED BY <1>2, <2>1, <2>2 DEF ConflictsFromPath, Holds
<1> QED BY <1>4, <1>5

\* When lock() has granted a lock, no other exclusive lock covers its path.
LEMMA GrantGuards ==
    \A p \in Paths, principal \in Principals, timeout \in Timeouts \cup {Never},
       shared, deep \in BOOLEAN :
       IInv /\ Lock(p, principal, timeout, shared, deep) /\ issued' # issued
         => \A l \in AllLocks(nodes') : l.token \in issued => l.shared \/ ~Covers(l, p)
<1> SUFFICES ASSUME NEW p \in Paths, NEW principal \in Principals,
                    NEW timeout \in Timeouts \cup {Never}, NEW shared \in BOOLEAN,
                    NEW deep \in BOOLEAN, IInv, Lock(p, principal, timeout, shared, deep),
                    issued' # issued, NEW l \in AllLocks(nodes'), l.token \in issued
             PROVE  l.shared \/ ~Covers(l, p)
  OBVIOUS
<1> DEFINE kept == Pruned(nodes, now)
           New(token) == NewLock(token, p, principal, DeadlineAt(now, timeout), shared, deep)
<1>1. IsLockTree(kept) /\ now \in Nat
  BY PrunedInForce DEF IInv, TypeOK
<1>2. /\ LockConflicts(kept, p, shared, deep) = {}
      /\ \E token \in Tokens \ issued : nodes' = WithLock(kept, p, New(token))
  BY DEF Lock
<1>3. PICK token \in Tokens \ issued : nodes' = WithLock(kept, p, New(token))
  BY <1>2
<1>4. /\ New(token) \in DavLock /\ New(token).path = p /\ New(token).token = token
      /\ New(token).shared = shared /\ New(token).deep = deep
  BY <1>1, LocksAssumption DEF NewLock, DavLock, DeadlineAt, Deadlines
<1> HIDE DEF kept, New
<1>5. l \in AllLocks(kept)
  <2>1. AllLocks(nodes') = AllLocks(kept) \cup {New(token)}
    BY <1>1, <1>3, <1>4, WithLockTree
  <2> QED BY <1>4, <2>1
<1>6. ~Incompatible(New(token), l)
  BY <1>1, <1>2, <1>4, <1>5, LockConflictsSound
<1>7. Covers(New(token), p)
  BY <1>4 DEF Covers
<1>8. l.shared \in BOOLEAN
  BY <1>1, <1>5, LockAtItsPath DEF DavLock
<1> QED BY <1>6, <1>7, <1>8 DEF Incompatible

\* Pruning adds no lock.
LEMMA PrunedFewer ==
    IInv => AllLocks(Pruned(nodes, now)) \subseteq AllLocks(nodes)
  BY PrunedTree DEF IInv, TypeOK

\* With deep, check() has seen to every lock at p or below it, shared or not.
LEMMA CheckGuardsBelow ==
    IInv => \A p \in Paths, pr \in Principals, tokens \in SUBSET Tokens :
              CheckConflicts(Pruned(nodes, now), p, pr, FALSE, TRUE, tokens) = {}
                => \A l \in AllLocks(Pruned(nodes, now)) :
                      Above(p, l.path) => l.token \in tokens /\ l.principal = pr
<1> SUFFICES ASSUME IInv, NEW p \in Paths, NEW pr \in Principals, NEW tokens \in SUBSET Tokens,
                    CheckConflicts(Pruned(nodes, now), p, pr, FALSE, TRUE, tokens) = {},
                    NEW l \in AllLocks(Pruned(nodes, now)), Above(p, l.path)
             PROVE  l.token \in tokens /\ l.principal = pr
  OBVIOUS
<1> DEFINE kept == Pruned(nodes, now)
<1>1. ConflictsFromPath(kept, p, pr, FALSE, tokens, FALSE) = {}
  BY DEF CheckConflicts
<1>2. l \in UNION {kept[q] : q \in NodesBelow(kept, p)}
  BY PrunedInForce, LocksBelow
<1> HIDE DEF kept
<1> QED BY <1>1, <1>2 DEF ConflictsFromPath, Holds

\* The lock that lock() grants is the only one with a new token, and it is at
\* the path that was asked for.
LEMMA GrantPath ==
    \A p \in Paths, principal \in Principals, timeout \in Timeouts \cup {Never},
       shared, deep \in BOOLEAN :
       IInv /\ Lock(p, principal, timeout, shared, deep)
         => \A l \in AllLocks(nodes') : l.token \in issued \/ l.path = p
<1> SUFFICES ASSUME NEW p \in Paths, NEW principal \in Principals,
                    NEW timeout \in Timeouts \cup {Never}, NEW shared \in BOOLEAN,
                    NEW deep \in BOOLEAN, IInv, Lock(p, principal, timeout, shared, deep),
                    NEW l \in AllLocks(nodes'), l.token \notin issued
             PROVE  l.path = p
  OBVIOUS
<1> DEFINE kept == Pruned(nodes, now)
           New(token) == NewLock(token, p, principal, DeadlineAt(now, timeout), shared, deep)
<1>1. IsLockTree(kept) /\ now \in Nat /\ \A k \in AllLocks(kept) : k.token \in issued
  BY PrunedInForce DEF IInv, TypeOK
<1>2. nodes' = kept \/ \E token \in Tokens \ issued : nodes' = WithLock(kept, p, New(token))
  BY DEF Lock
<1>3. \A token \in Tokens : New(token) \in DavLock /\ New(token).path = p
  BY <1>1, LocksAssumption DEF NewLock, DavLock, DeadlineAt, Deadlines
<1> HIDE DEF kept, New
<1>4. PICK token \in Tokens \ issued : nodes' = WithLock(kept, p, New(token))
  BY <1>1, <1>2
<1>5. AllLocks(nodes') = AllLocks(kept) \cup {New(token)}
  BY <1>1, <1>3, <1>4, WithLockTree
<1> QED BY <1>1, <1>3, <1>5

\* unlock() with the token of locks at p leaves no lock with that token.
LEMMA UnlockEnds ==
    IInv => \A p \in Paths, token \in Tokens :
              Unlock(p, token) /\ (\A l \in AllLocks(nodes) : l.token = token => l.path = p)
                => \A l \in AllLocks(nodes') : l.token # token
<1> SUFFICES ASSUME IInv, NEW p \in Paths, NEW token \in Tokens, Unlock(p, token),
                    \A k \in AllLocks(nodes) : k.token = token => k.path = p,
                    NEW l \in AllLocks(nodes'), l.token = token
             PROVE  FALSE
  OBVIOUS
<1> DEFINE kept == Pruned(nodes, now)
<1>1. IsLockTree(kept) /\ AllLocks(kept) \subseteq AllLocks(nodes)
  BY PrunedTree DEF IInv, TypeOK
<1>2. \/ HolderNodes(kept, p, token) = {} /\ nodes' = kept
      \/ \E q \in HolderNodes(kept, p, token) : nodes' = WithoutToken(kept, q, token)
  BY DEF Unlock
<1> HIDE DEF kept
<1>3. CASE HolderNodes(kept, p, token) = {} /\ nodes' = kept
  <2>1. l.path = p /\ l \in kept[p] /\ p \in DOMAIN kept /\ Trail(p) \subseteq DOMAIN kept
    BY <1>1, <1>3, LockAtItsPath
  <2>2. p \in HolderNodes(kept, p, token)
    BY <2>1, AboveReflexive DEF HolderNodes, Walk, Trail
  <2> QED BY <1>3, <2>2
<1>4. ASSUME NEW q \in HolderNodes(kept, p, token), nodes' = WithoutToken(kept, q, token)
      PROVE  FALSE
  <2>1. q \in DOMAIN kept /\ \E h \in AllLocks(kept) : h.path = q /\ h.token = token
    BY <1>1, HolderNodesTree
  <2>2. q = p
    BY <1>1, <2>1
  <2>3. l \in AllLocks(kept) /\ ~(l.path = q /\ l.token = token)
    BY <1>1, <1>4, <2>1, WithoutTokenTree
  <2> QED BY <1>1, <2>2, <2>3
<1> QED BY <1>2, <1>3, <1>4

\* Which locks in force a method leaves stored as they are.
LEMMA LocksStay ==
    IInv => \A l \in InForce :
        /\ Query => l \in AllLocks(nodes')
        /\ \A p, principal, timeout, shared, deep :
              p \in Paths /\ principal \in Principals /\ timeout \in Timeouts \cup {Never}
                /\ shared \in BOOLEAN /\ deep \in BOOLEAN
                /\ Lock(p, principal, timeout, shared, deep) => l \in AllLocks(nodes')
        /\ \A p, token : Unlock(p, token) /\ l.token # token => l \in AllLocks(nodes')
        /\ \A p, token : \A timeout \in Timeouts \cup {Never} :
              Refresh(p, token, timeout) /\ l.token # token => l \in AllLocks(nodes')
        /\ \A p \in Paths : Delete(p) /\ ~Above(p, l.path) => l \in AllLocks(nodes')
<1> SUFFICES ASSUME IInv, NEW l \in InForce
             PROVE  /\ Query => l \in AllLocks(nodes')
                    /\ \A p, principal, timeout, shared, deep :
                          p \in Paths /\ principal \in Principals /\ timeout \in Timeouts \cup {Never}
                            /\ shared \in BOOLEAN /\ deep \in BOOLEAN
                            /\ Lock(p, principal, timeout, shared, deep) => l \in AllLocks(nodes')
                    /\ \A p, token : Unlock(p, token) /\ l.token # token => l \in AllLocks(nodes')
                    /\ \A p, token : \A timeout \in Timeouts \cup {Never} :
                          Refresh(p, token, timeout) /\ l.token # token => l \in AllLocks(nodes')
                    /\ \A p \in Paths : Delete(p) /\ ~Above(p, l.path) => l \in AllLocks(nodes')
  OBVIOUS
<1> DEFINE kept == Pruned(nodes, now)
<1>1. /\ IsLockTree(kept) /\ Coherent(kept) /\ l \in AllLocks(kept) /\ now \in Nat
      /\ IsLockTree(nodes) /\ l \in AllLocks(nodes)
  BY PrunedInForce DEF IInv, TypeOK, InForce
<1>2. Query => nodes' = kept
  BY DEF Query
<1>3. ASSUME NEW p \in Paths, NEW principal \in Principals, NEW timeout \in Timeouts \cup {Never},
             NEW shared \in BOOLEAN, NEW deep \in BOOLEAN, Lock(p, principal, timeout, shared, deep)
      PROVE  l \in AllLocks(nodes')
  <2> DEFINE New(token) == NewLock(token, p, principal, DeadlineAt(now, timeout), shared, deep)
  <2>1. nodes' = kept \/ \E token \in Tokens : nodes' = WithLock(kept, p, New(token))
    BY <1>3 DEF Lock
  <2>2. \A token \in Tokens : New(token) \in DavLock /\ New(token).path = p
    BY <1>1, LocksAssumption DEF NewLock, DavLock, DeadlineAt, Deadlines
  <2> HIDE DEF kept, New
  <2> QED BY <1>1, <2>1, <2>2, WithLockTree
<1>4. ASSUME NEW p, NEW token, Unlock(p, token), l.token # token PROVE l \in AllLocks(nodes')
  <2>1. nodes' = kept \/ \E q \in HolderNodes(kept, p, token) : nodes' = WithoutToken(kept, q, token)
    BY <1>4 DEF Unlock
  <2> HIDE DEF kept
  <2> QED BY <1>1, <1>4, <2>1, HolderNodesTree, WithoutTokenTree
<1>5. ASSUME NEW p, NEW token, NEW timeout \in Timeouts \cup {Never}, Refresh(p, token, timeout),
             l.token # token
      PROVE  l \in AllLocks(nodes')
  <2> DEFINE d == DeadlineAt(now, timeout)
  <2>1. d \in Deadlines
    BY <1>1, DeadlineType
  <2>2. nodes' = kept \/ \E q \in HolderNodes(kept, p, token) : nodes' = Renewed(kept, q, token, d)
    BY <1>5 DEF Refresh
  <2> HIDE DEF kept, d
  <2>3. ASSUME NEW q \in HolderNodes(kept, p, token), nodes' = Renewed(kept, q, token, d)
        PROVE  l \in AllLocks(nodes')
    <3>1. q \in DOMAIN kept /\ \E h \in AllLocks(kept) : h.path = q /\ h.token = token
      BY <1>1, HolderNodesTree
    <3>2. PICK h \in AllLocks(kept) : h.path = q /\ h.token = token
      BY <3>1
    <3>3. AllLocks(nodes') = (AllLocks(kept) \ {h}) \cup {[h EXCEPT !.timeout_at = d]}
      BY <1>1, <2>1, <2>3, <3>1, <3>2, RenewedTree
    <3> QED BY <1>1, <1>5, <3>2, <3>3
  <2> QED BY <1>1, <2>2, <2>3
<1>6. ASSUME NEW p \in Paths, Delete(p), ~Above(p, l.path) PROVE l \in AllLocks(nodes')
  BY <1>1, <1>6, WithoutSubtreeTree DEF Delete
<1> HIDE DEF kept
<1> QED BY <1>1, <1>2, <1>3, <1>4, <1>5, <1>6

\* A lock in force is a new one, or one that was in force before: there is no
\* other way to a resource for a token that was handed out.
LEMMA InForceKeeps ==
    IInv /\ IInv' /\ [Next]_vars
      => \A k \in InForce' : k.token \in issued =>
            \E l \in InForce : l.token = k.token /\ l.path = k.path
<1> SUFFICES ASSUME IInv, IInv', [Next]_vars, NEW k \in InForce', k.token \in issued
             PROVE  \E l \in InForce : l.token = k.token /\ l.path = k.path
  OBVIOUS
<1>1. PICK l \in InForce : l.token = k.token
  BY StepRevivesNothing DEF TokensInForce
<1>2. PICK m \in AllLocks(nodes) : SameLock(m, k)
  BY LocksKeep DEF InForce
<1>3. l = m
  BY <1>1, <1>2 DEF SameLock, IInv, Coherent, InForce
<1> QED BY <1>1, <1>2, <1>3 DEF SameLock

\* delete() leaves no lock at or below its path.
LEMMA DeleteEnds ==
    IInv => \A p \in Paths \ {Root} : Delete(p) => \A l \in AllLocks(nodes') : ~Above(p, l.path)
<1> SUFFICES ASSUME IInv, NEW p \in Paths \ {Root}, Delete(p), NEW l \in AllLocks(nodes')
             PROVE  ~Above(p, l.path)
  OBVIOUS
<1>1. l.path = Root \/ ~Above(p, l.path)
  BY WithoutSubtreeTree DEF Delete, IInv, TypeOK
<1> QED BY <1>1, NothingAboveRoot
=============================================================================
