------------------------------ MODULE LockTable ------------------------------
(***************************************************************************)
(* The promise of the DavLockSystem trait (ls.rs), without any data        *)
(* structure: the set of locks in force at each instant.  A lock is in     *)
(* force from the moment it is granted until it is unlocked, times out, or *)
(* the resource it is on is deleted; nothing else creates or ends one.     *)
(***************************************************************************)
EXTENDS Locks

CONSTANT MaxTime        \* the clock stops here

VARIABLES held,         \* the locks in force
          issued,       \* tokens ever handed out
          now           \* the wall clock, in ticks

vars == <<held, issued, now>>

InForce(S, t) == {l \in S : ~Expired(l, t)}

Init == held = {} /\ issued = {} /\ now = 0

\* lock(): the new lock conflicts with no lock in force.
Grant(l) ==
    /\ l.token \notin issued
    /\ \A m \in held : ~Incompatible(l, m)
    /\ held' = held \cup InForce({l}, now)
    /\ issued' = issued \cup {l.token}
    /\ UNCHANGED now

\* unlock(): only the lock with that token ends.
Release(l) ==
    /\ held' = held \ {l}
    /\ UNCHANGED <<issued, now>>

\* refresh(): only the deadline of that lock changes.
Refresh(l, timeout) ==
    /\ held' = (held \ {l})
                \cup InForce({[l EXCEPT !.timeout_at = DeadlineAt(now, timeout)]}, now)
    /\ UNCHANGED <<issued, now>>

\* delete(): ends "all locks at this path and below".
Revoke(p) ==
    /\ held' = {l \in held : ~Above(p, l.path)}
    /\ UNCHANGED <<issued, now>>

\* Time passes; a lock whose deadline is reached is no longer in force.
Elapse ==
    /\ now < MaxTime
    /\ now' = now + 1
    /\ held' = InForce(held, now + 1)
    /\ UNCHANGED issued

Next ==
    \/ \E p \in Paths, principal \in Principals, shared, deep \in BOOLEAN,
          timeout \in Timeouts \cup {Never}, token \in Tokens :
          Grant(NewLock(token, p, principal, DeadlineAt(now, timeout), shared, deep))
    \/ \E l \in held : Release(l)
    \/ \E l \in held, timeout \in Timeouts \cup {Never} : Refresh(l, timeout)
    \/ \E p \in Paths : Revoke(p)
    \/ Elapse

Spec == Init /\ [][Next]_vars
=============================================================================
