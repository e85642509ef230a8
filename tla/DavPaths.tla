------------------------------ MODULE DavPaths ------------------------------
(***************************************************************************)
(* Paths as the server's components see them once DavPath has normalised   *)
(* them: a path is the sequence of its non-empty segments, the root is the *)
(* empty sequence, and the trailing slash that marks a collection in a URL *)
(* is not part of the value (DavPath's PartialEq ignores it).              *)
(***************************************************************************)
EXTENDS Naturals, Sequences

CONSTANTS Names,        \* path segments
          Paths         \* the paths a client may name: a prefix-closed set

Root == <<>>

\* p is q or one of its ancestors.
Above(p, q) == /\ Len(p) <= Len(q)
               /\ \A i \in 1..Len(p) : p[i] = q[i]

Parent(p) == SubSeq(p, 1, Len(p) - 1)

\* The nodes a walk from the root to p visits, p included.
Trail(p) == {q \in Paths : Above(q, p)}

\* The paths in the subtree that starts at p, p included.
Subtree(p) == {q \in Paths : Above(p, q)}

ASSUME PathsAssumption ==
    /\ Paths \subseteq Seq(Names)
    /\ Root \in Paths
    /\ \A p \in Paths : \A n \in 0..Len(p) : SubSeq(p, 1, n) \in Paths
=============================================================================
