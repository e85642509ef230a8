-------------------------------- MODULE MemLs --------------------------------
(***************************************************************************)
(* The in-memory lock system (memls.rs): a tree of nodes, one per path     *)
(* segment that some lock lies under, each with the locks on that path.    *)
(* Every method of DavLockSystem runs under one mutex, so each is one      *)
(* atomic action; they interleave freely and time passes between them.     *)
(* A node is named by its path (MemLs never moves a node, so the arena ids *)
(* of tree.rs carry no more information), and the locks of a node form a   *)
(* set: their order only selects which conflicting lock an error reports.  *)
(***************************************************************************)
EXTENDS Locks

CONSTANTS MaxTime,      \* the clock stops here
          Deleted       \* the paths delete() is called with

ASSUME MemLsAssumption == Deleted \subseteq Paths

VARIABLES nodes,        \* node path -> its locks; the root always has a node
          issued,       \* tokens handed out so far (a v4 UUID never repeats)
          now           \* SystemTime::now(), in ticks; it does not run backwards

vars == <<nodes, issued, now>>

AllLocks(n) == UNION {n[p] : p \in DOMAIN n}

Init ==
    /\ nodes = [p \in {Root} |-> {}]
    /\ issued = {}
    /\ now = 0

-----------------------------------------------------------------------------
(* Walking the tree.                                                       *)

\* Nodes met walking from the root to p: the walk ends at the first
\* segment without a node.
Walk(n, p) == {q \in Trail(p) : Trail(q) \subseteq DOMAIN n}

\* Nodes at p and below it; none when p itself has no node (lookup_node).
NodesBelow(n, p) == IF p \in DOMAIN n THEN DOMAIN n \cap Subtree(p) ELSE {}

HasChild(n, p) == \E q \in DOMAIN n : q # p /\ Above(p, q)

\* Mistake: a Depth: 0 ancestor counts as covering p.
LocksOnAnyDepth(n, p) == UNION {n[q] : q \in Walk(n, p)}

\* Locks on p and the Depth: infinity locks on its ancestors (list_locks).
LocksOn(n, p) == UNION {{l \in n[q] : q = p \/ l.deep} : q \in Walk(n, p)}

\* Mistake: an empty node is dropped although it has children.
PrunedTooFar(n, t) ==
    LET Live(p) == {l \in n[p] : ~Expired(l, t)}
    IN  [p \in {Root} \cup {q \in DOMAIN n : Live(q) # {}} |-> Live(p)]

\* prune_expired_at: bottom-up, drop expired locks, then every node other
\* than the root that is left without locks and without children.
Pruned(n, t) ==
    LET Live(p) == {l \in n[p] : ~Expired(l, t)}
    IN  [p \in {Root} \cup {q \in DOMAIN n :
                               \E r \in NodesBelow(n, q) : Live(r) # {}} |-> Live(p)]

\* Mistake: only the last node of the path is created.
WithLockNoParents(n, p, l) ==
    [q \in DOMAIN n \cup {p} |->
        (IF q \in DOMAIN n THEN n[q] ELSE {}) \cup (IF q = p THEN {l} ELSE {})]

\* get_or_create_path_node(p).push(l)
WithLock(n, p, l) ==
    [q \in DOMAIN n \cup Trail(p) |->
        (IF q \in DOMAIN n THEN n[q] ELSE {}) \cup (IF q = p THEN {l} ELSE {})]

\* lookup_lock: the nodes on the way to p that hold the lock with this token.
HolderNodes(n, p, token) == {q \in Walk(n, p) : \E l \in n[q] : l.token = token}

\* Mistake: the emptied node goes even when it has children.
WithoutTokenNoChildCheck(n, q, token) ==
    LET left == {l \in n[q] : l.token # token}
    IN  IF left = {} /\ q # Root
        THEN [r \in DOMAIN n \ {q} |-> n[r]]
        ELSE [n EXCEPT ![q] = left]

\* Remove the lock from node q, and the node if that empties it and
\* delete_node accepts (not the root, no children).
WithoutToken(n, q, token) ==
    LET left == {l \in n[q] : l.token # token}
    IN  IF left = {} /\ q # Root /\ ~HasChild(n, q)
        THEN [r \in DOMAIN n \ {q} |-> n[r]]
        ELSE [n EXCEPT ![q] = left]

\* Give the lock with this token, found at node q, another deadline.
Renewed(n, q, token, deadline) ==
    [n EXCEPT ![q] = {IF l.token = token THEN [l EXCEPT !.timeout_at = deadline] ELSE l : l \in n[q]}]

\* delete_subtree of p's node; on the root it keeps the node and its locks.
WithoutSubtree(n, p) ==
    [q \in {Root} \cup (DOMAIN n \ NodesBelow(n, p)) |-> n[q]]

-----------------------------------------------------------------------------
(* Conflict checks.                                                        *)

Holds(l, principal, ignore, tokens) ==
    l.token \in tokens /\ (ignore \/ principal = l.principal)

\* Mistake: a held lock does not excuse other shared locks.
ConflictsToPathStrict(n, p, principal, ignore, tokens, sharedOk) ==
    {l \in LocksOn(n, p) : ~Holds(l, principal, ignore, tokens) /\ (~l.shared \/ ~sharedOk)}

\* check_locks_to_path: the locks its error may name; {} is Ok.  An
\* exclusive lock that is not held is fatal; shared ones only when the
\* caller holds no lock at all on the way.
ConflictsToPath(n, p, principal, ignore, tokens, sharedOk) ==
    LET held   == {l \in LocksOn(n, p) : Holds(l, principal, ignore, tokens)}
        others == LocksOn(n, p) \ held
    IN  {l \in others : ~l.shared \/ (~sharedOk /\ held = {})}

\* check_locks_from_path: every lock at or below p must be held, or shared
\* when shared locks are acceptable.
ConflictsFromPath(n, p, principal, ignore, tokens, sharedOk) ==
    {l \in UNION {n[q] : q \in NodesBelow(n, p)} :
        (~l.shared \/ ~sharedOk) /\ ~Holds(l, principal, ignore, tokens)}

\* Mistake: a deep request does not look below its path.
LockConflictsUpOnly(n, p, shared, deep) ==
    ConflictsToPath(n, p, CHOOSE pr \in Principals : TRUE, TRUE, {}, shared)

LockConflicts(n, p, shared, deep) ==
    LET any == CHOOSE pr \in Principals : TRUE     \* not looked at: ignore_principal
    IN  ConflictsToPath(n, p, any, TRUE, {}, shared)
        \cup IF deep THEN ConflictsFromPath(n, p, any, TRUE, {}, shared) ELSE {}

CheckConflicts(n, p, principal, ignore, deep, tokens) ==
    ConflictsToPath(n, p, principal, ignore, tokens, FALSE)
    \cup IF deep THEN ConflictsFromPath(n, p, principal, ignore, tokens, FALSE) ELSE {}

-----------------------------------------------------------------------------
(* The methods.                                                            *)

Lock(p, principal, timeout, shared, deep) ==
    LET kept == Pruned(nodes, now)
    IN  /\ IF LockConflicts(kept, p, shared, deep) # {}
           THEN nodes' = kept /\ UNCHANGED issued
           ELSE \E token \in Tokens \ issued :
                  /\ nodes' = WithLock(kept, p,
                        NewLock(token, p, principal, DeadlineAt(now, timeout), shared, deep))
                  /\ issued' = issued \cup {token}
        /\ UNCHANGED now

Unlock(p, token) ==
    LET kept == Pruned(nodes, now)
    IN  /\ \/ /\ HolderNodes(kept, p, token) = {}
              /\ nodes' = kept
           \/ \E q \in HolderNodes(kept, p, token) :
                  nodes' = WithoutToken(kept, q, token)
        /\ UNCHANGED <<issued, now>>

\* Mistake: expired locks are not dropped first.
RefreshUnpruned(p, token, timeout) ==
    /\ \/ HolderNodes(nodes, p, token) = {} /\ UNCHANGED nodes
       \/ \E q \in HolderNodes(nodes, p, token) :
            nodes' = Renewed(nodes, q, token, DeadlineAt(now, timeout))
    /\ UNCHANGED <<issued, now>>

Refresh(p, token, timeout) ==
    LET kept == Pruned(nodes, now)
    IN  /\ \/ /\ HolderNodes(kept, p, token) = {}
              /\ nodes' = kept
           \/ \E q \in HolderNodes(kept, p, token) :
                  nodes' = Renewed(kept, q, token, DeadlineAt(now, timeout))
        /\ UNCHANGED <<issued, now>>

\* check() and discover() answer a question; what they change is the pruning.
Query ==
    /\ nodes' = Pruned(nodes, now)
    /\ UNCHANGED <<issued, now>>

\* delete() is the one method that does not prune.
Delete(p) ==
    /\ nodes' = WithoutSubtree(nodes, p)
    /\ UNCHANGED <<issued, now>>

Tick ==
    /\ now < MaxTime
    /\ now' = now + 1
    /\ UNCHANGED <<nodes, issued>>

Next ==
    \/ \E p \in Paths, principal \in Principals, timeout \in Timeouts \cup {Never},
          shared, deep \in BOOLEAN : Lock(p, principal, timeout, shared, deep)
    \/ \E p \in Paths, token \in Tokens : Unlock(p, token)
    \/ \E p \in Paths, token \in Tokens, timeout \in Timeouts \cup {Never} :
          Refresh(p, token, timeout)
    \/ Query
    \/ \E p \in Deleted : Delete(p)
    \/ Tick

Spec == Init /\ [][Next]_vars
-----------------------------------------------------------------------------
(* Properties.                                                             *)

InForce == {l \in AllLocks(nodes) : ~Expired(l, now)}

\* A tree: it has the root, the ancestors of every node, and each lock at
\* the node of its path.
IsLockTree(n) ==
    /\ n \in [DOMAIN n -> SUBSET DavLock]
    /\ Root \in DOMAIN n /\ DOMAIN n \subseteq Paths
    /\ \A p \in DOMAIN n : Trail(p) \subseteq DOMAIN n
    /\ \A p \in DOMAIN n : \A l \in n[p] : l.path = p

TypeOK ==
    /\ now \in Nat
    /\ issued \subseteq Tokens
    /\ IsLockTree(nodes)

\* No two locks in force exclude each other, whatever the order of grants,
\* refreshes, expiries and deletions that led here (lock() walks up for
\* Depth: infinity ancestors, and down only for a deep request).
NoIncompatibleLocks ==
    \A l, m \in InForce : l # m => l.token # m.token /\ ~Incompatible(l, m)

\* lock() refuses exactly the requests that are incompatible with a lock in
\* force: an expired lock, a Depth: 0 ancestor or a lock on a sibling never
\* stands in the way.
RefusesExactlyConflicts ==
    \A p \in Paths, pr \in Principals, shared, deep \in BOOLEAN :
        LET new == NewLock("new", p, pr, Never, shared, deep)
        IN  (LockConflicts(Pruned(nodes, now), p, shared, deep) # {})
              <=> \E l \in InForce : Incompatible(l, new)

\* The strengthening under which NoIncompatibleLocks is inductive: it speaks
\* of every stored lock, expired ones included, since delete() does not prune
\* and the clock moves without any method being called.
Coherent(n) ==
    \A l, m \in AllLocks(n) : l # m => l.token # m.token /\ ~Incompatible(l, m)

IInv ==
    /\ TypeOK
    /\ Coherent(nodes)
    /\ \A l \in AllLocks(nodes) : l.token \in issued

\* What a change to p needs when the locks in force are known: the token of
\* an exclusive lock that covers p, of some shared lock when any covers it,
\* and with deep of every lock below p.
MayChange(p, principal, deep, tokens) ==
    LET mine(l)  == l.token \in tokens /\ l.principal = principal
        covering == {l \in InForce : Covers(l, p)}
    IN  /\ \A l \in covering : ~l.shared => mine(l)
        /\ covering # {} => \E l \in covering : mine(l)
        /\ deep => \A l \in InForce : Above(p, l.path) => mine(l)

\* check() lets a request through exactly when MayChange holds, although it
\* only sees the nodes on its walk and those below its last one.
CheckIsExact ==
    \A p \in Paths, pr \in Principals, deep \in BOOLEAN, tokens \in SUBSET issued :
        (CheckConflicts(Pruned(nodes, now), p, pr, FALSE, deep, tokens) = {})
            <=> MayChange(p, pr, deep, tokens)

\* "Find and return all locks that cover a given path" (ls.rs, discover).
DiscoverIsExact ==
    \A p \in Paths : LocksOn(Pruned(nodes, now), p) = {l \in InForce : Covers(l, p)}

\* A lock in force can always be found again under its own path by its
\* token, and nowhere else, so its holder can refresh and unlock it.
HolderFindsLock ==
    \A l \in InForce : HolderNodes(Pruned(nodes, now), l.path, l.token) = {l.path}

TokensInForce == {l.token : l \in InForce}

\* A lock that has ended stays ended: a late refresh or unlock with its
\* token revives nothing, and the token is never handed out again.
EndedStaysEnded ==
    [][(issued \ TokensInForce) \cap TokensInForce' = {}]_vars

\* "Delete all locks at this path and below" (ls.rs, delete): whenever it is
\* called, no lock at or below its path stays in force.  That of the root does:
\* delete_subtree keeps the root's node and the data in it.
DeleteEndsAllBelow ==
    \A p \in Deleted : \A l \in AllLocks(WithoutSubtree(nodes, p)) :
        Above(p, l.path) => Expired(l, now)

LT == INSTANCE LockTable WITH held <- InForce

\* The tree implements the lock table: every method changes the locks in
\* force as the trait promises, or not at all; pruning is invisible.  (With
\* the root in Deleted it does not, see DeleteEndsAllBelow.)
ImplementsLockTable == LT!Spec
=============================================================================
