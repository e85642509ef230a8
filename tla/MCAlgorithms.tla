---------------------------- MODULE MCAlgorithms ----------------------------
(* The rules the server applies to one request at a time, on every input   *)
(* of some small sets: a behaviour chooses a law and one input for it.     *)
EXTENDS Naturals, Sequences, SequencesExt, FiniteSets

CONSTANTS None, Bad

PropNames == [ns : {"x"}, name : {"a", "b"}] \cup [ns : {"DAV:"}, name : {"displayname", "getcontentlanguage", "getetag"}]
    \cup [ns : {"ms"}, name : {"Win32CreationTime", "Win32LastModifiedTime"}]
    \cup [ns : {"caldav"}, name : {"calendar", "calendar-description"}]

C == INSTANCE Conditional WITH Second <- 2, Reserved <- {"DAV:no-lock"}, Uris <- {"u:1"}

D == INSTANCE Dispatch
H == INSTANCE Headers
K == INSTANCE FakeLs
Cal == INSTANCE Calendar WITH Day <- 4, MaxOccurrences <- 3
Card == INSTANCE AddressBook
R == INSTANCE Reports WITH DotNames <- {".b", ".dav-calendar"}, Markers <- {".dav-calendar"}, Links <- {<<"cal", "l">>}
PP == INSTANCE Props WITH PropNames <- PropNames, Dates <- {"noon"}, Languages <- {"en"}, NoText <- ""

VARIABLE input

-----------------------------------------------------------------------------
(* Conditions.                                                             *)

Meta(etag, mtime) == [etag |-> etag, mtime |-> mtime]
HttpInputs ==
    {[method |-> m, seen |-> Meta("a", t), now |-> n, weak |-> w] :
        m \in {"GET", "PUT"}, t \in 0..3, w \in BOOLEAN,
        n \in {None} \cup {Meta(e, s) : e \in {"a", "b", None}, s \in 0..5 \cup {None}}}

Conds == {[not |-> n, kind |-> "token", item |-> t] : n \in BOOLEAN, t \in {"t1", "t2", "DAV:no-lock"}}
    \cup {[not |-> n, kind |-> "etag", item |-> [tag |-> "a", weak |-> w]] : n, w \in BOOLEAN}
Tags == {None, [local |-> TRUE, path |-> <<"d">>], [local |-> TRUE, path |-> <<"d", "f">>],
         [local |-> FALSE, path |-> <<>>]}
ListsOf(n) == {[tag |-> t, conds |-> s] : t \in Tags, s \in [1..n -> Conds]}
IfHeaders == {<<l>> : l \in ListsOf(1) \cup ListsOf(2)} \cup {<<k, l>> : k, l \in ListsOf(1)}
Held(t, p, deep) == [token |-> t, path |-> p, deep |-> deep]
Worlds == {[path |-> p, locks |-> k,
            meta |-> [q \in {<<"d">>, <<"d", "f">>} |-> IF q = <<"d">> THEN None ELSE Meta("a", 1)]] :
    p \in {<<"d">>, <<"d", "f">>},
    k \in {{}, {Held("t1", <<>>, TRUE)}, {Held("t1", <<"d">>, FALSE), Held("t2", <<"d", "f">>, FALSE)},
           {Held("t1", <<"d">>, TRUE), Held("t2", <<"d">>, FALSE)}}}

Word(kind, item) == [kind |-> kind, item |-> item]
FewWords == {Word("open", None), Word("close", None), Word("not", None), Word("pointy", "u:1"), Word("etag", "e")}
AllWords == FewWords \cup {Word("word", "u:1"), Word("pointy", "bad")}
TaggedTwice == {<<Word("pointy", "u:1"), Word("open", None), a, Word("close", None),
                  Word("open", None), b, Word("close", None)>> : a, b \in AllWords}
IfTexts == UNION {[1..n -> AllWords] : n \in 0..4} \cup UNION {[1..n -> FewWords] : n \in 5..6} \cup TaggedTwice

ConditionsAreRight ==
    /\ input.law = "http" => C!HttpLaw(input.of.method, input.of.seen, input.of.now, input.of.weak)
    /\ input.law = "if" => C!IfLaw(input.of.lists, input.of.world)
    /\ input.law = "parse" => C!ParseLaw(input.of)

-----------------------------------------------------------------------------
(* Methods, and the lock system that excludes nobody.                      *)

Config(fs, ls, allow, autoindex) == [fs |-> fs, ls |-> ls, allow |-> allow, autoindex |-> autoindex]
Allows == {None, D!HTTP_RO, D!WEBDAV_RO, D!Methods \ {"LOCK"}, D!Methods}
Configs == {Config(f, l, a, x) : f \in {None, "fs"}, l \in BOOLEAN, a \in Allows, x \in {None, TRUE, FALSE}}
Given == {Config(f, None, a, None) : f \in {None, "fs"}, a \in Allows}
Requests == {[method |-> m, path |-> p, body |-> b, microsoft |-> TRUE] : m \in D!Methods \cup {"TRACE"},
    p \in {"valid", "InvalidPath", "IllegalPath", "ForbiddenPath"}, b \in {"none", "some", "large", "broken"}}
Resources == {"none", "hidden", "file", "dir", "root"}
Words == {"get", "PUT", "DELETE", "http-ro", "http-rw", "webdav-ro", "webdav-rw"}

Servers == {[scheme |-> s, host |-> h, port |-> p] : s \in {"http", "https"}, h \in {"a", "b"}, p \in {80, 443, 8080}}

LockToken(n, op) == [id |-> n, deep |-> op.deep, shared |-> op.shared]
LockOps == {[call |-> "lock", path |-> p, timeout |-> t, shared |-> s, deep |-> d, now |-> 0, token |-> None] :
    p \in {<<>>, <<"d">>, <<"d", "f">>}, t \in {None, 60, 500}, s, d \in BOOLEAN}
OtherOps == {[call |-> c, path |-> p, timeout |-> 90, shared |-> FALSE, deep |-> FALSE, now |-> 70,
              token |-> [id |-> n, deep |-> d, shared |-> FALSE]] :
    c \in {"unlock", "refresh", "delete"}, p \in {<<>>, <<"d">>}, n \in 0..2, d \in BOOLEAN}
LockRuns == {<<k, o>> : k \in LockOps, o \in OtherOps} \cup {<<o, k, q>> : o, q \in OtherOps, k \in LockOps}
    \cup {<<k, l, o>> : k \in {l \in LockOps : l.timeout = 60 /\ ~l.shared}, l \in LockOps, o \in OtherOps}

\* What a client is told it may do is what it may do.
MethodsAreConsistent ==
    /\ input.law = "gate" => D!GateLaw(input.of.handler, input.of.given, input.of.req, input.of.resource)
    /\ input.law = "allow" => D!AdvertisedLaw(input.of.cfg, input.of.resource)
    /\ input.law = "words" => D!WordsLaw(input.of)
    /\ input.law = "server" => H!DestinationLaw(input.of.mine, input.of.theirs)
    /\ input.law = "fakels" => K!FakeLsLaw(input.of, {<<>>, <<"d">>, <<"d", "f">>})

-----------------------------------------------------------------------------
(* Queries of calendars and address books.                                 *)

Small == [letter |-> "a", upper |-> FALSE]
Capital == [letter |-> "a", upper |-> TRUE]
Other == [letter |-> "b", upper |-> FALSE]
Texts == UNION {[1..n -> {Small, Capital, Other}] : n \in 0..2}
TextMatches == {[text |-> t, collation |-> c, type |-> m, negate |-> n] : t \in Texts,
    c \in {None, "i;ascii-casemap", "i;octet"}, m \in {None, "equals", "starts-with", "ends-with"}, n \in BOOLEAN}
ValueSets == {{}, {<<Small>>}, {<<Small, Other>>, <<Capital>>}, {<<Other, Small, Other>>}}
FewTexts == {[text |-> <<x>>, collation |-> None, type |-> None, negate |-> n] : x \in {Small, Other}, n \in BOOLEAN}

Utc(t) == [kind |-> "utc", wall |-> t, offset |-> None]
Date(t) == [kind |-> "date", wall |-> t, offset |-> None]
Times == {Utc(t) : t \in 4..6} \cup {Date(4), [kind |-> "zoned", wall |-> 6, offset |-> 2],
          [kind |-> "zoned", wall |-> 5, offset |-> None], [kind |-> "floating", wall |-> 5, offset |-> None]}
Blank == [kind |-> "VEVENT", start |-> None, end |-> None, due |-> None, duration |-> None, props |-> {},
          comps |-> {}, uid |-> None, recid |-> None, rec |-> None, transp |-> None, status |-> None, periods |-> {}]
Events == {[Blank EXCEPT !.start = s, !.end = e] : s \in Times, e \in {None, Utc(7), Date(8)}}
    \cup {[Blank EXCEPT !.start = s, !.duration = d] : s \in Times, d \in 0..3}
Bounds == {None, Bad} \cup 3..9
Ranges == {[start |-> a, end |-> b] : a, b \in Bounds}
ReadableRanges == {r \in Ranges : r.start \notin {None, Bad} /\ r.end \notin {None, Bad} => r.start < r.end}

Params == {{}, {[name |-> "p", value |-> <<Small>>]}, {[name |-> "p", value |-> <<Other>>]}}
ParamFilters == {{}} \cup {{[name |-> "p", undefined |-> u, text |-> t]} : u \in BOOLEAN,
    t \in {None} \cup FewTexts}
Properties == {[name |-> "n", value |-> v, params |-> p, time |-> t] :
    v \in {<<Small>>, <<Other>>}, p \in Params, t \in {None, Utc(5), Date(4)}}
PropertySets == {{}} \cup {{p, q} : p, q \in Properties}
PropFilters == {[name |-> "n", undefined |-> u, range |-> r, text |-> t, params |-> f] : u \in BOOLEAN,
    r \in {None, [start |-> 5, end |-> 6], [start |-> 6, end |-> None], [start |-> Bad, end |-> 6]},
    t \in {None} \cup FewTexts, f \in ParamFilters}

Alarm == [Blank EXCEPT !.kind = "VALARM"]
Named == [name |-> "n", value |-> <<Small>>, params |-> {}, time |-> None]
Components == {[Blank EXCEPT !.kind = k, !.start = Utc(s), !.props = p, !.comps = c] :
    k \in {"VEVENT", "VTODO"}, s \in {4, 6}, p \in {{}, {Named}}, c \in {{}, {Alarm}}}
Calendars == {[props |-> {}, comps |-> {c, d}] : c, d \in Components} \cup {[props |-> {}, comps |-> {}]}
CompFilters == {[name |-> k, undefined |-> u, range |-> r, props |-> p, comps |-> c] :
    k \in {"VEVENT", "VTODO"}, u \in BOOLEAN, r \in {None, [start |-> 5, end |-> 7]},
    p \in {{}} \cup {{[name |-> "n", undefined |-> x, range |-> None, text |-> None, params |-> {}]} : x \in BOOLEAN},
    c \in {{}} \cup {{[name |-> "VALARM", undefined |-> x, range |-> None, props |-> {}, comps |-> {}]} : x \in BOOLEAN}}

Durations == UNION {[1..n -> {[n |-> 0, unit |-> "P"], [n |-> 0, unit |-> "T"]}
    \cup {[n |-> 2, unit |-> u] : u \in {"W", "D", "H", "S"}}] : n \in 0..5}

\* Busy events of one object: once, for a day, again and again, moved.
Busy(s, d, t) == [Blank EXCEPT !.start = Utc(s), !.duration = d, !.status = t, !.uid = "u"]
BusyEvents == {Busy(s, d, t) : s \in {3, 5, 8}, d \in {0, 1, 3}, t \in {None, "TENTATIVE", "CANCELLED"}}
    \cup {[Busy(s, d, None) EXCEPT !.rec = r] : s \in {3, 5}, d \in {1, 2}, r \in {Bad, {}, {3, 5, 7}, {1, 3, 5, 7, 9}}}
    \cup {[Busy(s, 1, t) EXCEPT !.recid = Utc(5)] : s \in {4, 8}, t \in {None, "CANCELLED"}}
    \cup {[Busy(4, 4, None) EXCEPT !.transp = "TRANSPARENT"]}
    \cup {[Blank EXCEPT !.kind = "VFREEBUSY", !.periods = {[fbtype |-> t, start |-> s, end |-> e, duration |-> d]}] :
              t \in {None, "FREE", "BUSY-UNAVAILABLE"}, s \in {4, 7}, e \in {None, 6}, d \in {None, 2}}
BusyObjects == {{[props |-> {}, comps |-> {c, d}]} : c, d \in BusyEvents}
    \cup {{[props |-> {}, comps |-> {c}], [props |-> {}, comps |-> {d}], Bad} : c, d \in BusyEvents}
BusyRanges == {<<4, 8>>, <<5, 6>>, <<6, 5>>, <<None, 6>>}

CardEntries == {[name |-> n, values |-> v, params |-> p] : n \in {"n", "m"},
    v \in {{}, {<<Small>>}, {<<Other>>}}, p \in Params}
Cards == {{}} \cup {{e, f} : e, f \in CardEntries}
CardFilters == {[name |-> "n", undefined |-> u, texts |-> t, params |-> p, test |-> x] : u \in BOOLEAN,
    t \in {{}} \cup {{a, b} : a, b \in FewTexts}, p \in ParamFilters, x \in {"anyof", "allof"}}
FewFilters == {f \in CardFilters : f.params = {} /\ Cardinality(f.texts) <= 1}
FilterElements == UNION {[1..n -> {[test |-> t, filters |-> {[f EXCEPT !.test = x]}] :
    t, x \in {None, "anyof", "allof", "both"}, f \in FewFilters}] : n \in 0..1}

-----------------------------------------------------------------------------
(* Reports.                                                                *)

Node(dir, kind, data) == [dir |-> dir, kind |-> kind, data |-> data]
CalFile == Node(FALSE, "none", "calendar")
CalPaths == <<<<"cal", ".b">>, <<"cal", "l">>, <<"cal", "a">>, <<"cal", ".dav-calendar">>, <<"cal", "s">>, <<"cal", "j">>>>
Nodes(inside) == (<<>> :> Node(TRUE, "none", "none")) @@ (<<"cal">> :> Node(TRUE, "calendar", "none"))
    @@ (<<"dir">> :> Node(TRUE, "none", "none")) @@ (<<"dir", "o">> :> CalFile) @@ inside
    @@ (<<"cal", "j">> :> Node(FALSE, "none", "huge")) @@ (<<"cal", ".dav-calendar">> :> CalFile)
    @@ (<<"cal", "s">> :> Node(TRUE, "addressbook", "none")) @@ (<<"cal", "s", "x">> :> CalFile)
Worlds2 == {Nodes((<<"cal", "a">> :> a) @@ (<<"cal", ".b">> :> b) @@ (<<"cal", "l">> :> CalFile)) :
    a \in {CalFile, None}, b \in {CalFile, Node(FALSE, "none", "junk")}}
Asked(report, path, depth, limit, want, hrefs) ==
    [report |-> report, path |-> path, depth |-> depth, limit |-> limit, want |-> want, hrefs |-> hrefs, order |-> CalPaths]
Places == {<<>>, <<"cal">>, <<"dir">>, <<"dir", "o">>, <<"cal", "a">>, <<"cal", "s">>, <<"cal", ".b">>, <<"no">>}
Hrefs == {<<"cal", "a">>, <<"cal", "l">>, <<"cal", ".b">>, <<"cal", "s", "x">>, <<"dir", "o">>, <<"cal", ".dav-calendar">>, None}
ReportRequests ==
    {Asked("query", p, d, n, w, <<>>) : p \in Places, d \in {"0", "1", "bad"}, n \in {None, 0, 1, 2},
        w \in {{<<"cal", "a">>}, {<<"cal", "a">>, <<"cal", ".b">>, <<"cal", "l">>, <<"cal", ".dav-calendar">>}}}
    \cup {Asked("multiget", p, "1", None, {}, h) : p \in Places, h \in [1..2 -> Hrefs]}
    \cup {Asked(r, p, "1", None, {}, <<>>) : r \in {"free-busy", "unknown"}, p \in Places}
Fails == SUBSET {"create", "mark", "props", "unmark", "undo"}
MakeRequests == {[path |-> p, method |-> m, want |-> w, props |-> x, fails |-> f] :
    p \in {<<"new">>, <<"cal">>, <<"cal", "new">>, <<"cal", "s", "new">>, <<"no", "new">>, <<"dir", "o", "new">>},
    m \in {"MKCOL", "MKCALENDAR", "MKADDRESSBOOK"}, w \in {"none", "calendar", "addressbook"}, x \in BOOLEAN, f \in Fails}

\* What a report says is so.
ReportsAreExact ==
    /\ input.law = "text" => Cal!TextLaw(input.of.match, input.of.values)
    /\ input.law = "overlap" => Cal!OverlapLaw(input.of.event, input.of.range)
    /\ input.law = "duration" => Cal!DurationLaw(input.of)
    /\ input.law = "prop" => Cal!PropLaw(input.of.props, input.of.filter)
    /\ input.law = "query" => Cal!QueryLaw(input.of.calendar, input.of.filter)
    /\ input.law = "freebusy" => Cal!FreeBusyLaw(input.of.objects, input.of.range[1], input.of.range[2])
    /\ input.law = "card" => Card!FilterLaw(input.of.card, input.of.filter)
    /\ input.law = "cards" => Card!QueryLaw(input.of.card, input.of.filter, input.of.other)
    /\ input.law = "elements" => Card!ParseLaw(input.of)
    /\ input.law = "report" => R!ReportLaw(input.of.world, input.of.hide, "calendar", input.of.req)
    /\ input.law = "make" => R!MakeLaw(input.of.world, input.of.req.path, input.of.req.method, input.of.req.want,
                                      input.of.req.props, input.of.req.fails)

-----------------------------------------------------------------------------
(* Properties.                                                             *)

StoredAs(props) == [k \in {p.ns \o p.name : p \in props} |-> LET p == CHOOSE p \in props : p.ns \o p.name = k
                                                          IN  [prop |-> p, value |-> "text"]]
Storages == {{p \in PropNames : p.ns \in n} : n \in {{}, {"x"}, {"x", "caldav"}}}
    \cup {{PP!P("x", "a"), PP!P("DAV:", "displayname"), PP!P("caldav", "calendar-description")}}
PropResources == {[dir |-> d, kind |-> k, dead |-> StoredAs(p), candead |-> c, mtime |-> "then", cantouch |-> t,
                   hastimes |-> t, quota |-> IF d THEN "both" ELSE "used", principal |-> d] :
    d \in BOOLEAN, k \in {"none", "calendar"}, p \in Storages, c, t \in BOOLEAN}
RealResources == {r \in PropResources : (r.kind = "none" \/ r.dir) /\ (r.candead \/ r.dead = StoredAs({}))}
Set(p, v) == [op |-> "set", prop |-> p, value |-> v]
OneUpdate == {Set(p, v) : p \in PropNames, v \in {"text", "noon", "en", ""}}
    \cup {[op |-> "remove", prop |-> p, value |-> ""] : p \in PropNames}
FewUpdates == {u \in OneUpdate : u.op = "remove" \/ u.value = "noon"}
Updates == {<<u>> : u \in OneUpdate} \cup {<<u, v>> : u, v \in FewUpdates}
Requested == {s \in SUBSET (PropNames \cup {PP!P("DAV:", "resourcetype"), PP!P("DAV:", "quota-used-bytes")}) : Cardinality(s) <= 2}

\* What a client stores it finds again, all of it or nothing.
PropertiesAreKept ==
    /\ input.law = "proppatch" => /\ PP!AllOrNothing(input.of.resource, input.of.updates)
                                  /\ PP!ReadsBack(input.of.resource, input.of.updates)
    /\ input.law = "mkcol" => PP!SetsAll(input.of.resource, input.of.updates)
    /\ input.law = "propfind" => PP!ShowsEachOnce(input.of.resource, input.of.props, input.of.microsoft)

-----------------------------------------------------------------------------

Init ==
    \/ \E x \in HttpInputs : input = [law |-> "http", of |-> x]
    \/ \E h \in IfHeaders, w \in Worlds : input = [law |-> "if", of |-> [lists |-> h, world |-> w]]
    \/ \E t \in IfTexts : input = [law |-> "parse", of |-> t]
    \/ \E a \in {c \in Configs : c.autoindex = None}, b \in Given, r \in Requests, k \in {"none", "dir"} :
          input = [law |-> "gate", of |-> [handler |-> a, given |-> b, req |-> r, resource |-> k]]
    \/ \E c \in Configs, k \in Resources \cup {"star"} : input = [law |-> "allow", of |-> [cfg |-> c, resource |-> k]]
    \/ \E w \in SUBSET Words : input = [law |-> "words", of |-> w]
    \/ \E a, b \in Servers : input = [law |-> "server", of |-> [mine |-> a, theirs |-> b]]
    \/ \E ops \in LockRuns : input = [law |-> "fakels", of |-> ops]
    \/ \E m \in TextMatches, v \in ValueSets : input = [law |-> "text", of |-> [match |-> m, values |-> v]]
    \/ \E e \in Events, r \in ReadableRanges : input = [law |-> "overlap", of |-> [event |-> e, range |-> r]]
    \/ \E d \in Durations : input = [law |-> "duration", of |-> d]
    \/ \E p \in PropertySets, f \in PropFilters : input = [law |-> "prop", of |-> [props |-> p, filter |-> f]]
    \/ \E c \in Calendars, f \in CompFilters : input = [law |-> "query", of |-> [calendar |-> c, filter |-> f]]
    \/ \E o \in BusyObjects, r \in BusyRanges : input = [law |-> "freebusy", of |-> [objects |-> o, range |-> r]]
    \/ \E c \in Cards, f \in CardFilters : input = [law |-> "card", of |-> [card |-> c, filter |-> f]]
    \/ \E c \in Cards, f, g \in FewFilters : input = [law |-> "cards", of |-> [card |-> c, filter |-> f, other |-> g]]
    \/ \E e \in FilterElements : input = [law |-> "elements", of |-> e]
    \/ \E w \in Worlds2, h \in R!HideOptions, r \in ReportRequests :
          input = [law |-> "report", of |-> [world |-> w, hide |-> h, req |-> r]]
    \/ \E w \in Worlds2, r \in MakeRequests : input = [law |-> "make", of |-> [world |-> w, req |-> r]]
    \/ \E r \in RealResources, u \in Updates : input = [law |-> "proppatch", of |-> [resource |-> r, updates |-> u]]
    \/ \E r \in RealResources, u \in Updates : /\ \A i \in DOMAIN u : u[i].op = "set"
                                             /\ input = [law |-> "mkcol", of |-> [resource |-> r, updates |-> u]]
    \/ \E r \in RealResources, p \in Requested, m \in BOOLEAN :
          input = [law |-> "propfind", of |-> [resource |-> r, props |-> p, microsoft |-> m]]

Next == UNCHANGED input

Spec == Init /\ [][Next]_input
=============================================================================
