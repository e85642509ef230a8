-------------------------------- MODULE Locks --------------------------------
(***************************************************************************)
(* The DavLock record (ls.rs) and what it means for a lock to cover a      *)
(* resource and for two locks to be incompatible.  The owner element and   *)
(* the relative timeout are reported back to clients and never tested by   *)
(* the lock system, so they are not modelled.                              *)
(***************************************************************************)
EXTENDS DavPaths

CONSTANTS Tokens,       \* lock tokens (fresh v4 UUIDs in the code)
          Principals,   \* authenticated users; an anonymous client is one of them
          Timeouts,     \* the finite timeouts a lock may be asked for, in ticks
          Never         \* "no timeout" / "no deadline": Option::None

ASSUME LocksAssumption ==
    /\ Timeouts \subseteq Nat
    /\ Never \notin Nat

Deadlines == Nat \cup {Never}

DavLock == [token : Tokens, path : Paths, principal : Principals,
            shared : BOOLEAN, deep : BOOLEAN, timeout_at : Deadlines]

NewLock(token, path, principal, timeout_at, shared, deep) ==
    [token |-> token, path |-> path, principal |-> principal,
     shared |-> shared, deep |-> deep, timeout_at |-> timeout_at]

\* timeout.map(|d| SystemTime::now() + d)
DeadlineAt(t, timeout) == IF timeout = Never THEN Never ELSE t + timeout

Expired(l, t) == l.timeout_at # Never /\ l.timeout_at <= t

\* A lock covers its own path, and with Depth: infinity everything below it.
Covers(l, r) == l.path = r \/ (l.deep /\ Above(l.path, r))

\* Two locks that may not be held together.
Incompatible(l, m) ==
    /\ ~(l.shared /\ m.shared)
    /\ \E r \in Paths : Covers(l, r) /\ Covers(m, r)
=============================================================================
