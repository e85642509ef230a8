-------------------------------- MODULE Props --------------------------------
(* handle_props.rs: what PROPPATCH and an extended MKCOL do to the         *)
(* properties of a resource and what PROPFIND shows of them, on a file     *)
(* system that keeps dead properties the way memfs.rs does. A property is  *)
(* [ns, name], a value is what its element holds.                          *)
EXTENDS Naturals, Sequences, SequencesExt, FiniteSetsExt

CONSTANTS
    PropNames,  \* the properties clients name: [ns, name]
    Dates,      \* the values that are HTTP dates
    Languages,  \* the values valid_content_language() accepts
    NoText      \* the value of an element without text, or with children

(* A resource r: dir, is it a directory; kind, the collection its metadata  *)
(* says it is; dead, its dead properties by key; mtime; principal, does the *)
(* server know it as the principal; candead (have_props), cantouch          *)
(* (set_modified), hastimes and quota ("none", "used", "both"), what the    *)
(* file system supports.                                                    *)
P(ns, name) == [ns |-> ns, name |-> name]
DavNs == "DAV:"
ApacheNs == "apache"
MsNs == "ms"
CalNs == "caldav"
CardNs == "carddav"

\* propkey(): the namespace and the name, one after the other.
Key(p) == p.ns \o p.name

is_protected_type_marker(p) == p \in {P(CalNs, "calendar"), P(CardNs, "addressbook")}

\* CollectionKind: what the metadata says, or else the marker of a directory.
CollectionKind(r) ==
    IF r.kind # "none" \/ ~r.dir THEN r.kind
    ELSE IF Key(P(CalNs, "calendar")) \in DOMAIN r.dead THEN "calendar"
    ELSE IF Key(P(CardNs, "addressbook")) \in DOMAIN r.dead THEN "addressbook" ELSE "none"

-----------------------------------------------------------------------------
(* PROPPATCH. 100 stands for CONTINUE: the property is a dead one.          *)

DeadDav == {P(DavNs, "displayname"), P(DavNs, "getcontentlanguage")}
\* Live properties whose value is looked at before it is refused.
Checked == {P(DavNs, "getlastmodified"), P(ApacheNs, "executable")}
\* "Always report back that we successfully changed these, even if we didn't".
Pretended == {P(MsNs, "Win32CreationTime"), P(MsNs, "Win32FileAttributes"), P(MsNs, "Win32LastAccessTime")}
LastModified == P(MsNs, "Win32LastModifiedTime")

liveprop_set(p, value, canDead) ==
    CASE is_protected_type_marker(p) -> 403
      [] p \in DeadDav \cup Checked \cup Pretended /\ value = NoText -> 409
      [] p = P(DavNs, "getcontentlanguage") /\ value \notin Languages \cup {NoText} -> 409
      [] p \in DeadDav /\ (p.name = "displayname" \/ value \in Languages) /\ value # NoText ->
           IF canDead THEN 100 ELSE 403
      [] p \in Pretended /\ value # NoText -> 200
      [] p \in Checked /\ value # NoText -> 403
      [] OTHER -> IF p.ns \in {DavNs, ApacheNs, MsNs} THEN 403 ELSE 100

liveprop_remove(p, canDead) ==
    CASE is_protected_type_marker(p) -> 403
      [] p \in DeadDav -> IF canDead THEN 100 ELSE 403
      [] OTHER -> IF p.ns \in {DavNs, ApacheNs, MsNs} THEN 403 ELSE 100

\* apply_win32_last_modified(): a file system that fails to set it is not reported.
LastModifiedStatus(value) == IF value \in Dates THEN 200 ELSE 409

UpdateStatus(u, canDead) ==
    IF u.op = "remove" THEN liveprop_remove(u.prop, canDead)
    ELSE IF u.prop = LastModified THEN LastModifiedStatus(u.value)
    ELSE liveprop_set(u.prop, u.value, canDead)

\* patch_props(), one change after the other.
Patch1(dead, u) ==
    LET others == DOMAIN dead \ {Key(u.prop)}
    IN  IF u.op = "remove" THEN [k \in others |-> dead[k]]
        ELSE [k \in others \cup {Key(u.prop)} |->
                IF k = Key(u.prop) THEN [prop |-> u.prop, value |-> u.value] ELSE dead[k]]
patch_props(dead, patch) == FoldLeft(Patch1, dead, patch)

\* mark_with_prop(): how a file system that has dead properties, and no other
\* place for it, keeps that a directory is a collection of a kind.
mark_with_prop(r, ns, name) ==
    IF r.candead THEN [r EXCEPT !.dead = patch_props(@, <<[op |-> "set", prop |-> P(ns, name), value |-> NoText]>>)]
    ELSE r

\* A modification time is set at once, whatever becomes of the rest.
Touched(r, updates) ==
    LET set == SelectSeq(updates, LAMBDA u :
                  u.op = "set" /\ u.prop = LastModified /\ u.value \in Dates)
    IN  IF set = <<>> \/ ~r.cantouch THEN r.mtime ELSE Last(set).value

\* A plausible mistake: what succeeded is kept when something failed.
ProppatchKept(r, updates) ==
    LET status(u) == UpdateStatus(u, r.candead)
        patch == SelectSeq(updates, LAMBDA u : status(u) = 100)
    IN  [resource |-> [r EXCEPT !.dead = patch_props(@, patch), !.mtime = Touched(r, updates)], status |-> 207,
         answers |-> [i \in DOMAIN updates |->
            <<IF status(updates[i]) = 100 THEN 200 ELSE status(updates[i]), updates[i].prop>>]]

\* handle_proppatch(): the resource after it, the status and the answer for
\* each update. A file system without dead properties makes it fail (501) when
\* all that was asked is in order and some of it would be one.
Proppatch(r, updates) ==
    LET status(u) == UpdateStatus(u, r.candead)
        done == [r EXCEPT !.mtime = Touched(r, updates)]
        failed == \E i \in DOMAIN updates : status(updates[i]) \notin {100, 200}
        patch == SelectSeq(updates, LAMBDA u : status(u) = 100)
        told(u) == IF failed /\ status(u) \in {100, 200} THEN 424
                   ELSE IF status(u) = 100 THEN 200 ELSE status(u)
        answers == [i \in DOMAIN updates |-> <<told(updates[i]), updates[i].prop>>]
    IN  IF failed \/ patch = <<>> THEN [resource |-> done, status |-> 207, answers |-> answers]
        ELSE IF ~r.candead THEN [resource |-> done, status |-> 501, answers |-> <<>>]
        ELSE [resource |-> [done EXCEPT !.dead = patch_props(@, patch)], status |-> 207, answers |-> answers]

\* apply_set_props(), of an extended MKCOL: the status, 200 when all were set.
ApplySetProps(r, sets) ==
    LET props == SelectSeq(sets, LAMBDA u :
                    u.prop.name # "resourcetype" /\ ~is_protected_type_marker(u.prop))
        status(u) == liveprop_set(u.prop, u.value, r.candead)
        bad == SelectSeq(props, LAMBDA u :
                    ~(status(u) = 200 \/ (status(u) = 100 /\ r.candead)))
    IN  IF bad # <<>>
        THEN [resource |-> r, status |-> IF status(bad[1]) = 100 THEN 403 ELSE status(bad[1])]
        ELSE [resource |-> [r EXCEPT !.dead =
                 patch_props(@, SelectSeq(props, LAMBDA u : status(u) = 100))], status |-> 200]

-----------------------------------------------------------------------------
(* PROPFIND.                                                               *)

Live(value) == [status |-> 200, value |-> value]
NotThere == [status |-> 404, value |-> NoText]

\* get_props() of one property by name: the stored element.
Stored(r, p) == IF Key(p) \in DOMAIN r.dead THEN Live(r.dead[Key(p)].value) ELSE NotThere

AlwaysThere == {P(DavNs, n) : n \in {"supported-report-set", "getcontenttype", "resourcetype",
    "current-user-principal", "supportedlock", "lockdiscovery"}} \cup {P(MsNs, "Win32FileAttributes")}
\* Properties made of what the metadata knows, and the field of r that says so.
FromMeta(r) ==
    (IF r.hastimes THEN {P(DavNs, "creationdate"), P(DavNs, "getetag"), P(DavNs, "getlastmodified"), LastModified,
        P(MsNs, "Win32CreationTime"), P(MsNs, "Win32LastAccessTime"), P(ApacheNs, "executable")} ELSE {})
    \cup (IF r.dir THEN {} ELSE {P(DavNs, "getcontentlength")})
    \cup (IF r.quota = "none" THEN {} ELSE {P(DavNs, "quota-used-bytes")})
    \cup (IF r.quota = "both" THEN {P(DavNs, "quota-available-bytes")} ELSE {})
    \cup (IF r.principal THEN {P(CalNs, "calendar-home-set"), P(CardNs, "addressbook-home-set")} ELSE {})
OfKind(kind) ==
    CASE kind = "calendar" -> {P(CalNs, n) : n \in {"supported-calendar-component-set", "supported-calendar-data",
            "calendar-timezone", "max-resource-size", "min-date-time", "max-date-time"}}
      [] kind = "addressbook" -> {P(CardNs, n) : n \in {"supported-address-data", "max-resource-size"}}
      [] OTHER -> {}
Described(kind) ==
    CASE kind = "calendar" -> {P(CalNs, "calendar-description")}
      [] kind = "addressbook" -> {P(CardNs, "addressbook-description")}
      [] OTHER -> {}

\* A plausible mistake: the stored properties are asked for in every case.
build_propStored(r, p, name) == IF r.candead THEN Stored(r, p) ELSE NotThere

\* build_prop(): a live property, or for a PROPFIND that names properties one
\* of those that may be stored.
build_prop(r, p, name) ==
    CASE p = LastModified /\ r.hastimes -> Live(r.mtime)
      [] p # LastModified /\ p \in AlwaysThere \cup FromMeta(r) \cup OfKind(CollectionKind(r)) -> Live("live")
      [] p \in Described(CollectionKind(r)) -> Stored(r, p)
      [] OTHER ->
           IF /\ p \in DeadDav \/ p.ns \notin {DavNs, ApacheNs, MsNs, CalNs, CardNs}
              /\ ~is_protected_type_marker(p) /\ name = "prop" /\ r.candead
           THEN Stored(r, p) ELSE NotThere

\* The names of the lists ALLPROP and PROPNAME that have a namespace: the "C:"
\* and "CARD:" entries get none from init_staticprop(), and so match nothing.
Common == {P(DavNs, n) : n \in {"creationdate", "displayname", "getcontentlanguage", "getcontentlength",
    "getcontenttype", "getetag", "getlastmodified", "lockdiscovery", "resourcetype", "supportedlock"}}
AllProp(microsoft) ==
    Common \cup (IF microsoft THEN Pretended \cup {LastModified} ELSE {})
PropNameList == Common \cup {P(DavNs, "quota-available-bytes"), P(DavNs, "quota-used-bytes"),
    P(ApacheNs, "executable"), P(MsNs, "Win32LastAccessTime")}

\* write_props(): what the response for a resource holds, each entry with
\* where it comes from: an element of the request's list or the stored ones.
write_props(r, name, named, microsoft) ==
    LET props == CASE name = "prop" -> named
                   [] name = "allprop" -> named \cup AllProp(microsoft)
                   [] name = "propname" -> PropNameList
        content(v) == IF name = "propname" THEN NoText ELSE v
        built == {[prop |-> p, status |-> build_prop(r, p, name).status,
                   value |-> content(build_prop(r, p, name).value), from |-> "list"] : p \in props}
        dead == IF name = "prop" \/ ~r.candead THEN {} ELSE {r.dead[k] : k \in DOMAIN r.dead}
    IN  {b \in built : name = "prop" \/ b.status = 200}
        \cup {[prop |-> d.prop, status |-> 200, value |-> content(d.value), from |-> "stored"] :
                d \in {d \in dead : ~is_protected_type_marker(d.prop)}}

-----------------------------------------------------------------------------

\* A PROPPATCH answers for every update, and does all of them or none: when
\* one is refused no stored property changes, and none is said to be done. Nor
\* can a client make a collection one of another kind. (The modification time
\* is changed at once, whatever becomes of the rest.)
AllOrNothing(r, updates) ==
    LET result == Proppatch(r, updates)
        statuses == {result.answers[i][1] : i \in DOMAIN result.answers}
    IN  /\ result.status # 207 \/ statuses # {200} =>
              result.resource.dead = r.dead /\ \A s \in statuses : s >= 400
        /\ result.status = 207 => /\ DOMAIN result.answers = DOMAIN updates
                                  /\ \A i \in DOMAIN updates : result.answers[i][2] = updates[i].prop
        /\ CollectionKind(result.resource) = CollectionKind(r)

Shown(r, name, p) == {[status |-> x.status, value |-> x.value] :
    x \in {x \in write_props(r, name, IF name = "prop" THEN {p} ELSE {}, FALSE) : x.prop = p}}
LastOf(updates, p) == Last(SelectSeq(updates, LAMBDA u : u.prop = p))

\* What a PROPPATCH is said to have set is what a PROPFIND by name, and one of
\* all properties, show then; what it removed is gone, and what it does not
\* name is as it was. Properties of CalDAV and CardDAV are left out, and those
\* Windows sets: the README says what becomes of them.
ReadsBack(r, updates) ==
    LET result == Proppatch(r, updates)
        after == result.resource
        named == {updates[i].prop : i \in DOMAIN updates}
    IN  /\ \A i \in DOMAIN result.answers :
            LET p == updates[i].prop
                u == LastOf(updates, p)
                now == IF u.op = "set" THEN {Live(u.value)} ELSE {}
            IN  result.answers[i][1] = 200 /\ p.ns \notin {CalNs, CardNs, MsNs} =>
                  /\ Shown(after, "prop", p) = IF u.op = "set" THEN now ELSE {NotThere}
                  /\ Shown(after, "allprop", p) = now
        /\ \A p \in PropNames \ (named \cup {LastModified}), name \in {"prop", "allprop", "propname"} :
              Shown(after, name, p) = Shown(r, name, p)

\* What an extended MKCOL reports, the collection that it made has: all of the
\* properties it was given, as they read back, or it is refused and undone.
SetsAll(r, sets) ==
    LET result == ApplySetProps(r, sets)
        kept == {i \in DOMAIN sets : sets[i].prop.ns \notin {MsNs, CalNs, CardNs} /\ sets[i].prop.name # "resourcetype"}
    IN  /\ result.status = 200 => \A i \in kept :
              Shown(result.resource, "prop", sets[i].prop) = {Live(LastOf(sets, sets[i].prop).value)}
        /\ result.status # 200 => result.resource = r
        /\ result.status = 200 \/ ~r.candead \/ \E i \in DOMAIN sets :
              UpdateStatus(sets[i], TRUE) \notin {100, 200} \/ sets[i].prop = LastModified
        /\ CollectionKind(result.resource) = CollectionKind(r)

\* A response has each property once: a PROPFIND by name answers for every
\* name it was asked; allprop, with what it is asked to include, shows all
\* that is stored; propname the names of what allprop shows and no values; and
\* none shows a type marker, which counts all the same.
ShowsEachOnce(r, named, microsoft) ==
    LET byName == write_props(r, "prop", named, microsoft)
        all == write_props(r, "allprop", {p \in named : p.ns \notin {CalNs, CardNs}}, microsoft)
        names == write_props(r, "propname", {}, microsoft)
        once(response) == \A x, y \in response : x.prop = y.prop => x = y
        marked == mark_with_prop(r, CardNs, "addressbook")
    IN  /\ once(byName) /\ once(all) /\ once(names)
        /\ {x.prop : x \in byName} = named
        /\ r.candead => \A k \in DOMAIN r.dead : is_protected_type_marker(r.dead[k].prop)
              \/ \E x \in all : x.prop = r.dead[k].prop /\ x.value = r.dead[k].value
        /\ {x.prop : x \in all} \subseteq {x.prop : x \in names} \cup named \cup Pretended \cup {LastModified}
        /\ \A x \in all \cup names : ~is_protected_type_marker(x.prop)
        /\ \A x \in byName : is_protected_type_marker(x.prop) => x.status = 404
        /\ \A x \in names : x.value = NoText
        /\ r.dir /\ r.candead /\ CollectionKind(r) = "none" =>
              /\ CollectionKind(marked) = "addressbook"
              /\ write_props(marked, "allprop", {}, microsoft) = write_props(r, "allprop", {}, microsoft)
=============================================================================
