------------------------------ MODULE NameCache ------------------------------
(***************************************************************************)
(* Case-insensitive lookups (localfs_windows.rs): a path is turned into    *)
(* the spelling the disk has for it, and spellings that were found are     *)
(* kept in a cache by their lower-case form.  One lookup is one step here: *)
(* its calls on cache and disk are not interleaved with other requests.    *)
(***************************************************************************)
EXTENDS Disk, Lru

CONSTANTS Lower(_),     \* to_lowercase
          NameEntries   \* CACHE_ENTRIES

LowerPath(p) == [i \in DOMAIN p |-> Lower(p[i])]

Found(path, cache) == [path |-> path, cache |-> cache]

Insert(c, p) == PutEntry(c, LowerPath(p), p, NameEntries)

\* Mistake: an entry is returned though its path may be gone.
GetUnchecked(c, d, p) ==
    LET k == LowerPath(p)
    IN  IF Has(c, k) THEN [hit |-> TRUE, path |-> Peek(c, k), cache |-> Use(c, k)]
        ELSE [hit |-> FALSE, path |-> p, cache |-> c]

\* get: an entry whose path is gone is removed instead.
Get(c, d, p) ==
    LET k == LowerPath(p)
    IN  IF ~Has(c, k) THEN [hit |-> FALSE, path |-> p, cache |-> c]
        ELSE IF Exists(d, Peek(c, k))
        THEN [hit |-> TRUE, path |-> Peek(c, k), cache |-> Use(c, k)]
        ELSE [hit |-> FALSE, path |-> p, cache |-> Pop(c, k)]

\* lookup: seg in dir as it is spelled, else in any other case.  stop says that it was not found.
\* Of two spellings the one that the directory lists first is taken; which that is, is left open.
Lookup(d, dir, seg, no_init_check) ==
    LET asked    == Append(dir, seg)
        at       == Canonical(d, asked)
        listed   == Canonical(d, dir)
        variants == IF listed.err # "" THEN {}
                    ELSE {n \in NamesIn(d, listed.path) : Lower(n) = Lower(seg)}
    IN  IF ~no_init_check /\ at.err = "" THEN [path |-> asked, stop |-> FALSE]
        ELSE IF (~no_init_check /\ at.err # "ENOENT") \/ variants = {}
        THEN [path |-> asked, stop |-> TRUE]
        ELSE [path |-> Append(dir, CHOOSE n \in variants : TRUE), stop |-> FALSE]

\* From the base down, segment by segment.  Where one is not found the rest is taken as it is.
FromBase(c, d, base, segs) ==
    LET step[i \in 0..Len(segs)] ==
            IF i = 0 THEN [path |-> base, stop |-> FALSE, cache |-> c]
            ELSE LET r == step[i - 1]
                     n == Lookup(d, r.path, segs[i], FALSE)
                 IN  IF r.stop THEN [r EXCEPT !.path = Append(@, segs[i])]
                     ELSE [path |-> n.path, stop |-> n.stop,
                           cache |-> IF i = Len(segs) THEN Insert(r.cache, r.path) ELSE r.cache]
        r == step[Len(segs)]
    IN  Found(r.path, IF r.stop THEN r.cache ELSE Insert(r.cache, r.path))

\* Below a parent that is known to exist
InParent(c, d, parent, seg) ==
    LET n == Lookup(d, parent, seg, TRUE)
    IN  Found(n.path, IF n.stop THEN c ELSE Insert(c, n.path))

\* resolve(base, path)
Resolve(c, d, base, segs) ==
    LET full   == base \o segs
        got    == Get(c, d, full)
        parent == Front(full)
        up     == Get(got.cache, d, parent)
    IN  CASE got.hit                    -> Found(got.path, got.cache)
          [] ~got.hit /\ (Exists(d, full) \/ segs = <<>>) -> Found(full, got.cache)
          [] ~got.hit /\ ~Exists(d, full) /\ Len(segs) = 1 ->
                InParent(got.cache, d, parent, Last(segs))
          [] ~got.hit /\ ~Exists(d, full) /\ Len(segs) > 1 ->
                IF up.hit THEN InParent(up.cache, d, up.path, Last(segs))
                ELSE IF Exists(d, parent)
                THEN InParent(Insert(up.cache, parent), d, parent, Last(segs))
                ELSE FromBase(up.cache, d, base, segs)
=============================================================================
