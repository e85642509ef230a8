----------------------------- MODULE MCDavServer -----------------------------
(* Small servers for TLC: the resources, and what each client may send.    *)
EXTENDS DavServer

CONSTANTS c1, c2, t1

A  == <<"a">>
AA == <<"a", "a">>
B  == <<"b">>
BA == <<"b", "a">>

MCNames == {"a", "b"}
MCPaths == {Root, A, AA, B, BA}

\* A request without headers, by alice.
Plain(method, p) ==
    [method |-> method, path |-> p, dest |-> p, deep |-> TRUE, overwrite |-> TRUE,
     fresh |-> FALSE, body |-> FALSE, shared |-> FALSE, timeout |-> Never,
     principal |-> "alice", tokens |-> {}, tag |-> p]

By(principal, reqs) == {[q EXCEPT !.principal = principal] : q \in reqs}
EitherDepth(reqs) == reqs \cup {[q EXCEPT !.deep = FALSE] : q \in reqs}
EitherOverwrite(reqs) == reqs \cup {[q EXCEPT !.overwrite = FALSE] : q \in reqs}
MaybeFresh(reqs) == reqs \cup {[q EXCEPT !.fresh = TRUE] : q \in reqs}
MaybeBody(reqs) == reqs \cup {[q EXCEPT !.body = TRUE] : q \in reqs}
MaybeShared(reqs) == reqs \cup {[q EXCEPT !.shared = TRUE] : q \in reqs}

MCAnyFault == Calls
\* A DELETE that fails half-way leaves locks, see NoStrayLocks.
MCOtherFaults == Calls \ {"remove"}

Requests(method, P) == {Plain(method, p) : p \in P}
Between(method, P) == {[Plain(method, p) EXCEPT !.dest = q] : p, q \in P}
\* With an If header whose list is about the path, or the destination.
MaybeToken(t, reqs) ==
    reqs \cup {[q EXCEPT !.tokens = {t}] : q \in reqs}
         \cup {[q EXCEPT !.tokens = {t}, !.tag = q.dest] : q \in reqs}

-----------------------------------------------------------------------------
(* One client that may send anything, one request after another.           *)

Files == {A, AA, B, BA}

Everything ==
    EitherDepth(MaybeToken(t1, Requests("DELETE", Files)))
    \cup EitherOverwrite(Between("MOVE", {Root, A, AA, B}))
    \cup EitherDepth(EitherOverwrite(Between("COPY", {Root, A, AA, B})))
    \cup MaybeToken(t1, Between("MOVE", {A, B}))
    \cup MaybeToken(t1, Between("COPY", {A, B}))
    \cup {[Plain(m, A) EXCEPT !.dest = B, !.fresh = TRUE] : m \in {"MOVE", "COPY"}}
    \cup MaybeToken(t1, MaybeFresh(Requests("PUT", {A, AA, B})))
    \cup MaybeBody(Requests("MKCOL", {A, AA, B}))
    \cup EitherDepth(MaybeShared(MaybeFresh(Requests("LOCK", {Root, A, AA, B}))))
    \cup MaybeToken(t1, Requests("REFRESH", {A, AA}))
    \cup {[q EXCEPT !.tokens = {t1}] : q \in Requests("UNLOCK", {Root, A, AA})}

MCAlone == [c \in {c1} |-> Everything]

-----------------------------------------------------------------------------
(* alice works on the tree while bob works on it too, takes locks, returns  *)
(* them and lets them time out.                                            *)

Timed(reqs) == {[q EXCEPT !.timeout = 1] : q \in reqs}
WithToken(reqs) == {[q EXCEPT !.tokens = {t1}] : q \in reqs}

Alices ==
    Requests("DELETE", {A, AA}) \cup MaybeFresh(Requests("PUT", {AA}))
    \cup Requests("MKCOL", {A})
    \cup {[Plain(m, A) EXCEPT !.dest = B] : m \in {"MOVE", "COPY"}}
    \cup {[Plain("MOVE", AA) EXCEPT !.dest = A]}
    \cup Requests("LOCK", {AA})

Bobs == By("bob",
    EitherDepth(Requests("LOCK", {A})) \cup Requests("LOCK", {AA, B})
    \cup WithToken(Requests("UNLOCK", {A}) \cup Timed(Requests("REFRESH", {A})))
    \cup WithToken({[Plain("MOVE", A) EXCEPT !.dest = B]})
    \cup Requests("PUT", {AA}) \cup Requests("MKCOL", {A}))

MCClients == [c \in {c1, c2} |-> IF c = c1 THEN Alices ELSE Bobs]

-----------------------------------------------------------------------------
(* Two clients whose walks meet, one of which locks.                       *)

MCEnds == [c \in {c1, c2} |->
    IF c = c1 THEN {[Plain(m, A) EXCEPT !.dest = B] : m \in {"MOVE", "COPY"}} \cup Requests("DELETE", {A})
    ELSE Requests("PUT", {AA}) \cup Requests("MKCOL", {A, B})
            \cup Requests("LOCK", {A}) \cup WithToken(Requests("UNLOCK", {A}))]
=============================================================================
