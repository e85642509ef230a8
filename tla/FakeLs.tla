------------------------------- MODULE FakeLs -------------------------------
(* The lock system that excludes nobody, fakels.rs: one table of locks by  *)
(* token, kept so that lockdiscovery can show them. A token is [id, deep,  *)
(* shared]: its last two parts, "/I/S", say what the lock was.             *)
EXTENDS Naturals, Sequences, SequencesExt

CONSTANT None

Limit == 120

tm_limit(timeout) == IF timeout = None \/ timeout > Limit THEN Limit ELSE timeout

\* A plausible mistake: a Depth: 0 lock shows below its resource.
CoversBelow(lock, path) == IsPrefix(lock.path, path)
lock_covers_path(lock, path) == lock.path = path \/ (lock.deep /\ IsPrefix(lock.path, path))

\* Each call takes the table and the number of tokens made, and gives both
\* and its answer.
Lock(s, path, timeout, shared, deep, now) ==
    LET lock == [token |-> [id |-> s.made + 1, deep |-> deep, shared |-> shared], path |-> path,
                 deep |-> deep, shared |-> shared, timeout |-> tm_limit(timeout), until |-> now + tm_limit(timeout)]
    IN  [made |-> s.made + 1, locks |-> s.locks \cup {lock}, answer |-> {lock}]

Unlock(s, token) == [s EXCEPT !.locks = {l \in @ : l.token # token}, !.answer = {}]

\* A plausible mistake: a lock made up from a token is kept.
RefreshKept(s, path, token, timeout, now) ==
    LET lock == [token |-> token, path |-> path, deep |-> token.deep, shared |-> token.shared,
                 timeout |-> tm_limit(timeout), until |-> now + tm_limit(timeout)]
    IN  [s EXCEPT !.locks = {l \in @ : l.token # token} \cup {lock}, !.answer = {lock}]

\* An unknown token is answered with what it says of itself, and not stored.
Refresh(s, path, token, timeout, now) ==
    LET new(l) == [l EXCEPT !.timeout = tm_limit(timeout), !.until = now + tm_limit(timeout)]
        known == {l \in s.locks : l.token = token}
    IN  IF known # {}
        THEN [s EXCEPT !.locks = (@ \ known) \cup {new(l) : l \in known}, !.answer = {new(l) : l \in known}]
        ELSE [s EXCEPT !.answer = {new([token |-> token, path |-> path, deep |-> token.deep,
                                        shared |-> token.shared, timeout |-> 0, until |-> 0])}]

Discover(s, path) == {l \in s.locks : lock_covers_path(l, path)}

Delete(s, path) == [s EXCEPT !.locks = {l \in @ : ~IsPrefix(path, l.path)}, !.answer = {}]

Fresh == [made |-> 0, locks |-> {}, answer |-> {}]

Apply(s, op) ==
    CASE op.call = "lock" -> Lock(s, op.path, op.timeout, op.shared, op.deep, op.now)
      [] op.call = "unlock" -> Unlock(s, op.token)
      [] op.call = "refresh" -> Refresh(s, op.path, op.token, op.timeout, op.now)
      [] op.call = "delete" -> Delete(s, op.path)

-----------------------------------------------------------------------------

\* Locks exclude nobody but are remembered: after any calls, exactly the locks
\* that were given out and neither unlocked nor deleted since are discovered,
\* on their resource and, when deep, below it; a refresh answers with the
\* depth and scope the lock was given with, and invents none; none is granted
\* for more than two minutes from when it was last asked for.
FakeLsLaw(ops, paths) ==
    LET state[n \in 0..Len(ops)] == IF n = 0 THEN Fresh ELSE Apply(state[n - 1], ops[n])
        end == state[Len(ops)]
        Given == {n \in DOMAIN ops : ops[n].call = "lock"}
        token(n) == (CHOOSE l \in state[n].answer : TRUE).token
        Ended(n) == \E m \in n + 1..Len(ops) :
                        \/ ops[m].call = "unlock" /\ ops[m].token = token(n)
                        \/ ops[m].call = "delete" /\ IsPrefix(ops[m].path, ops[n].path)
        Covering(n, path) == \/ ops[n].path = path
                             \/ ops[n].deep /\ IsPrefix(ops[n].path, path)
        Asked(n) == {m \in n..Len(ops) : m = n \/ (ops[m].call = "refresh" /\ ops[m].token = token(n))}
        last(n) == ops[CHOOSE m \in Asked(n) : \A k \in Asked(n) : k <= m]
    IN  /\ \A path \in paths :
              {l.token : l \in Discover(end, path)} = {token(n) : n \in {k \in Given : Covering(k, path) /\ ~Ended(k)}}
        /\ \A n \in Given : \A l \in end.locks : l.token = token(n) =>
              /\ l.path = ops[n].path /\ l.deep = ops[n].deep /\ l.shared = ops[n].shared
              /\ l.until <= last(n).now + Limit
              /\ last(n).timeout # None /\ last(n).timeout <= Limit => l.until = last(n).now + last(n).timeout
        /\ \A n \in Given : \A m \in n + 1..Len(ops) :
              ops[m].call = "refresh" /\ ops[m].token = token(n) =>
                 \A l \in state[m].answer : l.deep = ops[n].deep /\ l.shared = ops[n].shared
        /\ \A k, n \in Given : k # n => token(k) # token(n)
=============================================================================
