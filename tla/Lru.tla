--------------------------------- MODULE Lru ---------------------------------
(* The bounded cache of the lru crate, as localfs_macos.rs and               *)
(* localfs_windows.rs use it: a sequence of entries, the one that was not    *)
(* used for longest first.                                                   *)
EXTENDS Naturals, Sequences, SequencesExt

Has(c, k)     == \E i \in DOMAIN c : c[i].key = k
IndexOf(c, k) == CHOOSE i \in DOMAIN c : c[i].key = k
Peek(c, k)    == c[IndexOf(c, k)].val
Pop(c, k)     == IF Has(c, k) THEN RemoveAt(c, IndexOf(c, k)) ELSE c

\* put: the entry comes last, and the first goes when there are too many.
PutEntry(c, k, v, cap) ==
    LET d == Append(Pop(c, k), [key |-> k, val |-> v])
    IN  IF Len(d) > cap THEN Tail(d) ELSE d

\* get: the entry is used.
Use(c, k) == Append(Pop(c, k), [key |-> k, val |-> Peek(c, k)])
=============================================================================
