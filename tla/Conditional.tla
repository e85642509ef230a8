----------------------------- MODULE Conditional -----------------------------
(* The conditions a request may depend on: conditional.rs, with the parts  *)
(* of davheaders.rs that compare entity tags and take an If header apart.  *)
EXTENDS Naturals, Sequences, SequencesExt, FiniteSets

CONSTANTS
    None,           \* no such header, metadata, tag or time
    Second,         \* how many ticks of the clock a second has
    Reserved,       \* the state tokens of the DAV: namespace
    Uris            \* the words that are a URL and hold a colon

-----------------------------------------------------------------------------
(* Entity tags and dates. A tag is [tag, weak].                            *)

\* A plausible mistake: tags are compared as if all were strong.
strong_eqOpaque(a, b) == a.tag = b.tag
strong_eq(a, b) == ~a.weak /\ ~b.weak /\ a.tag = b.tag
weak_eq(a, b) == a.tag = b.tag

\* ETag::from_meta(): tags made of metadata are strong.
TagOf(meta) == IF meta = None \/ meta.etag = None THEN None ELSE [tag |-> meta.etag, weak |-> FALSE]
Modified(meta) == IF meta = None THEN None ELSE meta.mtime

round_time(t) == t \div Second

ifrange_match(hdr, tag, date) ==
    IF hdr.kind = "date" THEN date # None /\ round_time(date) = round_time(hdr.date)
    ELSE tag # None /\ strong_eq(hdr.tag, tag)

\* A list of tags is [star, tags]; what cannot be parsed is not in it.
ListMatch(list, meta, Eq(_, _)) ==
    IF list.star THEN meta # None
    ELSE TagOf(meta) # None /\ \E t \in list.tags : Eq(t, TagOf(meta))

Reads == {"GET", "HEAD"}

\* http_if_match(): 200 stands for "go on".
http_if_match(req, meta) ==
    LET time == Modified(meta)
        Stale == IF req.ifmatch # None THEN ~ListMatch(req.ifmatch, meta, strong_eq)
                 ELSE /\ req.unmodified # None
                      /\ time = None \/ round_time(time) > round_time(req.unmodified)
        Known == IF req.ifnone # None THEN ListMatch(req.ifnone, meta, weak_eq)
                 ELSE /\ req.modified # None /\ req.method \in Reads /\ time # None
                      /\ round_time(time) <= round_time(req.modified)
    IN  CASE Stale -> 412
          [] ~Stale /\ Known -> IF req.method \in Reads THEN 304 ELSE 412
          [] OTHER -> 200

-----------------------------------------------------------------------------
(* The If header. A list is [tag, conds]: None, or the resource it is      *)
(* about as [local, path]; a condition is [not, kind, item]. A world is    *)
(* what the file system and the lock system say, and the request's path.   *)

\* A plausible mistake: every lock covers what is below it.
CoversBelow(lock, path) == IsPrefix(lock.path, path)

\* lock_covers_path()
Covers(lock, path) == lock.path = path \/ (lock.deep /\ IsPrefix(lock.path, path))

\* discover(): which of the locks above the path it yields is up to the lock system.
Discovered(w, path) == {l \in w.locks : IsPrefix(l.path, path)}

\* The resource a list is about; one that is not here makes every condition false.
Target(list, w) == IF list.tag = None \/ ~list.tag.local THEN w.path ELSE list.tag.path
Valid(list) == list.tag = None \/ list.tag.local

CondOk(c, list, w) ==
    LET p == Target(list, w)
        meta == w.meta[p]
    IN  /\ Valid(list)
        /\ IF c.kind = "token"
           THEN c.item \notin Reserved /\ \E l \in Discovered(w, p) : l.token = c.item /\ Covers(l, p)
           ELSE TagOf(meta) # None /\ strong_eq(c.item, TagOf(meta))

\* A plausible mistake: "Not" is lost where the resource is not here.
ListOkValidOnly(list, w) ==
    \A i \in DOMAIN list.conds : Valid(list) /\ CondOk(list.conds[i], list, w) # list.conds[i].not

ListOk(list, w) ==
    /\ list.conds # <<>>
    /\ \A i \in DOMAIN list.conds : CondOk(list.conds[i], list, w) # list.conds[i].not

TokensOf(list) == {list.conds[i].item : i \in {j \in DOMAIN list.conds : list.conds[j].kind = "token"}}

\* A plausible mistake: no tokens are taken from the lists after a true one.
TokensHeardFirst(lists, w) ==
    UNION {TokensOf(lists[i]) : i \in {k \in DOMAIN lists : \A j \in 1..(k - 1) : ~ListOk(lists[j], w)}}
TokensHeard(lists, w) == UNION {TokensOf(lists[i]) : i \in DOMAIN lists}

\* dav_if_match(): whether a list is true, and every state token of the header.
dav_if_match(lists, w) ==
    IF lists = None THEN [ok |-> TRUE, tokens |-> {}]
    ELSE [ok |-> \E i \in DOMAIN lists : ListOk(lists[i], w),
          tokens |-> TokensHeard(lists, w)]

if_match(req, w) ==
    IF ~dav_if_match(req.lists, w).ok THEN 412 ELSE http_if_match(req, w.meta[w.path])

if_match_get_tokens(req, w) ==
    LET http == http_if_match(req, w.meta[w.path])
        dav == dav_if_match(req.lists, w)
    IN  IF http # 200 THEN [status |-> http, tokens |-> {}]
        ELSE IF dav.ok THEN [status |-> 200, tokens |-> dav.tokens]
        ELSE [status |-> 412, tokens |-> {}]

-----------------------------------------------------------------------------
(* The parser of the If header: a machine over the words get_token() cuts, *)
(* [kind, item]. Its state is where it is, the lists so far and the one    *)
(* being read.                                                             *)

NoList == [tag |-> None, conds |-> <<>>]
NewParse == [state |-> "Start", lists |-> <<>>, list |-> NoList]

\* A plausible mistake: what one list was about is kept for the next one.
EndListKeepsTag(s) == [s EXCEPT !.state = "Start", !.lists = Append(@, s.list), !.list.conds = <<>>]
EndList(s) == [s EXCEPT !.state = "Start", !.lists = Append(@, s.list), !.list = NoList]

ParseStep(s, w) ==
    LET refused == [s EXCEPT !.state = "Bad"]
        Add(kind) == [s EXCEPT !.state = "List",
                        !.list.conds = Append(@, [not |-> s.state = "Not", kind |-> kind, item |-> w.item])]
    IN  CASE s.state \in {"Start", "RTag"} /\ w.kind = "open" -> [s EXCEPT !.state = "List"]
          [] s.state = "Start" /\ w.kind = "pointy" ->
                IF w.item \in Uris THEN [s EXCEPT !.state = "RTag", !.list.tag = w.item] ELSE refused
          [] s.state = "List" /\ w.kind = "not" -> [s EXCEPT !.state = "Not"]
          [] s.state \in {"List", "Not"} /\ w.kind \in {"pointy", "word"} ->
                IF w.item \in Uris THEN Add("token") ELSE refused
          [] s.state \in {"List", "Not"} /\ w.kind = "etag" -> Add("etag")
          [] s.state \in {"List", "Not"} /\ w.kind = "close" /\ s.list.conds # <<>> -> EndList(s)
          [] OTHER -> refused

\* If::decode(): the lists, or None for a header that is refused.
ParseIf(words) ==
    LET end == FoldLeft(ParseStep, NewParse, words)
    IN  IF end.state = "Start" /\ end.lists # <<>> THEN end.lists ELSE None

-----------------------------------------------------------------------------

\* What a client that has seen a resource may rely on when it sends back
\* what it has seen, whatever the resource is by then.
HttpLaw(method, seen, now, weak) ==
    LET tag == [tag |-> seen.etag, weak |-> weak]
        tags == [star |-> FALSE, tags |-> {tag}]
        star == [star |-> TRUE, tags |-> {}]
        plain == [method |-> method, ifmatch |-> None, ifnone |-> None, modified |-> None, unmodified |-> None]
        same == now # None /\ now.etag = seen.etag
        sameSecond == now # None /\ now.mtime # None /\ round_time(now.mtime) = round_time(seen.mtime)
        later == now # None /\ now.mtime # None /\ round_time(now.mtime) > round_time(seen.mtime)
        answer(headers) == http_if_match(headers @@ plain, now)
        refused == IF method \in Reads THEN 304 ELSE 412
    IN  \* no update is lost: what was seen must still be what is there
        /\ answer([ifmatch |-> tags]) = IF same /\ ~weak THEN 200 ELSE 412
        /\ answer([ifmatch |-> tags, unmodified |-> seen.mtime]) = answer([ifmatch |-> tags])
        /\ later => answer([unmodified |-> seen.mtime]) = 412
        /\ sameSecond => answer([unmodified |-> seen.mtime]) = 200
        /\ now = None => answer([unmodified |-> seen.mtime]) = 412
        \* nothing is created over what is there
        /\ answer([ifnone |-> star]) = IF now = None THEN 200 ELSE refused
        \* a copy is only called current if it is
        /\ answer([ifnone |-> tags, modified |-> seen.mtime]) = IF same THEN refused ELSE 200
        /\ answer([modified |-> seen.mtime]) = 304 => method \in Reads /\ now # None /\ ~later
        /\ answer([ifmatch |-> tags, ifnone |-> tags]) \in {412, refused}
        \* parts are only put together with what they are parts of
        /\ ifrange_match([kind |-> "etag", tag |-> tag], TagOf(now), Modified(now)) = (same /\ ~weak)
        /\ ifrange_match([kind |-> "date", date |-> seen.mtime], TagOf(now), Modified(now)) = sameSecond

\* An If header is a disjunction of conjunctions whatever their order, a
\* condition and its negation are never both true, what is not here is never
\* held, only a lock that covers the resource makes its token true, and a
\* client is taken to know every token of the header.
IfLaw(lists, w) ==
    LET result == dav_if_match(lists, w)
        one(l) == dav_if_match(<<l>>, w)
        negated(l, i) == [l EXCEPT !.conds[i].not = ~@]
        without(l, i) == [l EXCEPT !.conds = RemoveAt(@, i)]
        path(l) == IF l.tag = None THEN w.path ELSE l.tag.path
    IN  /\ result = dav_if_match(Reverse(lists), w)
        /\ result.ok = (\E i \in DOMAIN lists : one(lists[i]).ok)
        /\ result.tokens = UNION {one(lists[i]).tokens : i \in DOMAIN lists}
        /\ \A n \in DOMAIN lists :
              LET l == lists[n] IN
              /\ one(l) = one([l EXCEPT !.conds = Reverse(@)])
              /\ \A i \in DOMAIN l.conds :
                    /\ Len(l.conds) = 1 => one(l).ok # one(negated(l, i)).ok
                    /\ Len(l.conds) > 1 => /\ one(l).ok => one(without(l, i)).ok
                                           /\ one(l).ok => ~one(negated(l, i)).ok
                    /\ one(l).ok /\ l.conds[i].kind = "token" /\ ~l.conds[i].not =>
                          \E k \in w.locks : /\ k.token = l.conds[i].item
                                             /\ \/ k.path = path(l)
                                                \/ k.deep /\ IsPrefix(k.path, path(l))
                    /\ l.tag # None /\ ~l.tag.local /\ one(l).ok => l.conds[i].not
        /\ if_match_get_tokens([lists |-> lists, method |-> "PUT", ifmatch |-> None, ifnone |-> None,
                                modified |-> None, unmodified |-> None], w).status
             = IF result.ok THEN 200 ELSE 412

\* The words of lists that were read.
Render1(l) ==
    (IF l.tag = None THEN <<>> ELSE <<[kind |-> "pointy", item |-> l.tag]>>)
    \o <<[kind |-> "open", item |-> None]>>
    \o FlattenSeq([i \in DOMAIN l.conds |->
          (IF l.conds[i].not THEN <<[kind |-> "not", item |-> None]>> ELSE <<>>)
          \o <<[kind |-> IF l.conds[i].kind = "etag" THEN "etag" ELSE "pointy", item |-> l.conds[i].item]>>])
    \o <<[kind |-> "close", item |-> None]>>

\* An If header that is accepted says what was read from it, no more and no
\* less, but for a "Not" before the end of a list, which is passed over.
ParseLaw(words) ==
    LET lists == ParseIf(words)
        pointed == [i \in DOMAIN words |-> IF words[i].kind = "word" THEN [words[i] EXCEPT !.kind = "pointy"] ELSE words[i]]
        kept == {i \in DOMAIN words : ~(/\ i < Len(words) /\ words[i].kind = "not" /\ words[i + 1].kind = "close")}
        heard == [n \in 1..Cardinality(kept) |-> pointed[CHOOSE i \in kept : Cardinality({j \in kept : j <= i}) = n]]
    IN  lists # None => /\ FlattenSeq([n \in DOMAIN lists |-> Render1(lists[n])]) = heard
                        /\ \A n \in DOMAIN lists : lists[n].conds # <<>>
=============================================================================
