------------------------------- MODULE Reports -------------------------------
(* handle_caldav.rs and handle_carddav.rs: the reports on calendars and    *)
(* address books, and the requests that make them. A world gives for each  *)
(* path what is there: None, or [dir, kind, data] - of a directory the     *)
(* kind of collection, of a file what its bytes are: the kind of object    *)
(* they begin and end like, "junk", or "huge" beyond the size limit. What  *)
(* a query asks of an object is decided elsewhere: it matches the paths in *)
(* want.                                                                   *)
EXTENDS Visibility, SequencesExt, FiniteSets, FiniteSetsExt

CONSTANT None

Is(world, path) == path \in DOMAIN world /\ world[path] # None
KindOf(world, path) == IF Is(world, path) /\ world[path].dir THEN world[path].kind ELSE "none"

\* read_object_resource(): the object, if there is one to read at the path.
Readable(world, kind, path) == Is(world, path) /\ ~world[path].dir /\ world[path].data = kind

\* A plausible mistake: any file is a target, wherever it is.
TargetAnyFile(world, kind, req) ==
    Is(world, req.path) /\ (world[req.path].dir => KindOf(world, req.path) = kind)

\* What a report may be addressed to: a collection of the kind, or, but for
\* free-busy, a file in one.
Target(world, kind, req) ==
    IF world[req.path].dir THEN KindOf(world, req.path) = kind
    ELSE req.report # "free-busy" /\ req.path # <<>> /\ KindOf(world, Front(req.path)) = kind

Children(world, path) == {p \in DOMAIN world : Is(world, p) /\ p # <<>> /\ Front(p) = path}

\* The members a query looks at, in the order the directory is read.
Members(world, hide, req) ==
    IF ~world[req.path].dir THEN <<req.path>>
    ELSE IF req.depth = "0" THEN <<>>
    ELSE SelectSeq(req.order, LAMBDA p : p \in Children(world, req.path) /\ ~HiddenEntry(hide, "report", p))

\* A plausible mistake: the members are counted, not the results.
LimitedMembers(members, found, limit) ==
    SelectSeq(SubSeq(members, 1, IF limit = None \/ limit > Len(members) THEN Len(members) ELSE limit), LAMBDA p : p \in found)

\* Only address book queries have a limit; it stops the search.
Limited(members, found, limit) ==
    LET results == SelectSeq(members, LAMBDA p : p \in found)
    IN  IF limit = None \/ limit >= Len(results) THEN results ELSE SubSeq(results, 1, limit)

Query(world, hide, kind, req) ==
    LET found == {p \in req.want : Readable(world, kind, p)}
    IN  [n \in DOMAIN Limited(Members(world, hide, req), found, req.limit) |->
            [path |-> Limited(Members(world, hide, req), found, req.limit)[n], status |-> 200]]

\* is_in_collection()
InCollection(path, collection) == IsStrictPrefix(collection, path)

\* The hrefs that can be fetched: what they name is here, in sight and an object.
Fetched(world, hide, kind, req, href) ==
    /\ href # None      \* it can be read as a path of this server
    /\ InCollection(href, req.path) \/ href = req.path
    /\ ~HiddenPath(hide, href)
    /\ Readable(world, kind, href)

\* First what was found, then what was not.
Multiget(world, hide, kind, req) ==
    LET has(href) == Fetched(world, hide, kind, req, href)
        told(status) == [n \in DOMAIN req.hrefs |-> [path |-> req.hrefs[n], status |-> status]]
    IN  SelectSeq(told(200), LAMBDA a : has(a.path)) \o SelectSeq(told(404), LAMBDA a : ~has(a.path))

\* handle_freebusy_query(): the objects whose busy time is merged.
FreeBusyOf(world, hide, req) ==
    LET members == Members(world, hide, [req EXCEPT !.depth = "1"])
    IN  SelectSeq([n \in DOMAIN members |-> [path |-> members[n], status |-> 200]],
                  LAMBDA a : Readable(world, "calendar", a.path))

\* handle_report() and handle_carddav_report(): the status, and the answers.
Report(world, hide, kind, req) ==
    LET refused(status) == [status |-> status, answers |-> <<>>]
    IN  IF HiddenPath(hide, req.path) THEN refused(404)
        ELSE IF req.report = "unknown" THEN refused(400)
        ELSE IF ~Is(world, req.path) THEN refused(404)
        ELSE IF ~Target(world, kind, req) THEN refused(403)
        ELSE IF req.report = "query" /\ req.depth = "bad" THEN refused(400)
        ELSE [status |-> IF req.report = "free-busy" THEN 200 ELSE 207,
              answers |-> CASE req.report = "query" -> Query(world, hide, kind, req)
                            [] req.report = "multiget" -> Multiget(world, hide, kind, req)
                            [] req.report = "free-busy" -> FreeBusyOf(world, hide, req)]

-----------------------------------------------------------------------------
(* MKCALENDAR, MKADDRESSBOOK and a MKCOL that asks for a type. fails are   *)
(* the calls of the file system that fail: "create", "mark", "props" and,  *)
(* of the undoing, "unmark" and "undo".                                    *)

Put(world, path, node) == [p \in DOMAIN world \cup {path} |-> IF p = path THEN node ELSE world[p]]
Collection(kind) == [dir |-> TRUE, kind |-> kind, data |-> "none"]

\* A plausible mistake: only the marker is undone.
UndoneMarkerOnly(world, path, fails) == Put(world, path, Collection("none"))

\* rollback_created_collection(): the marker, then the directory if it is empty. It
\* is for a file system whose markers are files, as LocalFs has them.
Undone(world, path, fails) ==
    LET kind == IF "unmark" \in fails THEN world[path].kind ELSE "none"
    IN  IF "undo" \in fails \/ kind # "none" \/ Children(world, path) # {}
        THEN Put(world, path, Collection(kind)) ELSE Put(world, path, None)

\* The method, the type it asks for and whether it has properties to set; a
\* directory that is made is empty, and plain until it is marked.
MakeCollection(world, path, method, want, props, fails) ==
    LET result(status, w) == [status |-> status, world |-> w]
        kind == CASE method = "MKCALENDAR" -> "calendar" [] method = "MKADDRESSBOOK" -> "addressbook" [] OTHER -> want
        parent == KindOf(world, Front(path))
        made(k) == Put(world, path, Collection(k))
    IN  IF kind # "none" /\ parent = kind THEN result(403, world)
        ELSE IF Is(world, path) THEN result(405, world)
        ELSE IF ~Is(world, Front(path)) THEN result(409, world)
        ELSE IF ~world[Front(path)].dir THEN result(403, world)
        ELSE IF "create" \in fails THEN result(500, world)
        ELSE IF kind # "none" /\ "mark" \in fails THEN result(500, Undone(made("none"), path, fails))
        ELSE IF props /\ "props" \in fails THEN result(403, Undone(made(kind), path, fails))
        ELSE result(201, made(kind))

-----------------------------------------------------------------------------

\* A report shows objects of its kind, of the collection it is addressed to
\* and in sight, each once; a query leaves out none that it should find but
\* those beyond its limit, and a multiget answers each of its hrefs once: what
\* a query shows is what a multiget then fetches, unless names with a dot are
\* only hidden from direct requests.
ReportLaw(world, hide, kind, req) ==
    LET report == Report(world, hide, kind, req)
        shown == SelectSeq(report.answers, LAMBDA a : a.status = 200)
        paths == {shown[n].path : n \in DOMAIN shown}
        again == [req EXCEPT !.report = "multiget", !.hrefs = [n \in DOMAIN shown |-> shown[n].path]]
        count(s, x) == Cardinality({n \in DOMAIN s : s[n] = x})
        asked == [n \in DOMAIN report.answers |-> report.answers[n].path]
    IN  /\ report.status >= 400 => report.answers = <<>>
        /\ \A p \in paths : /\ Readable(world, kind, p) /\ (p = req.path \/ IsPrefix(req.path, p))
                            /\ ~is_collection_marker(Last(p))
                            /\ hide.dots = "Always" => Last(p) \notin DotNames
                            /\ hide.links => p \notin Links
                            /\ ~world[req.path].dir => KindOf(world, Front(p)) = kind
        /\ report.status < 400 /\ req.report \in {"query", "free-busy"} =>
              LET all == {p \in DOMAIN world : /\ Readable(world, kind, p)
                                               /\ p = req.path \/ Front(p) = req.path
                                               /\ req.report = "query" => p \in req.want /\ (req.depth # "0" \/ p = req.path)
                                               /\ p = req.path \/ ~HiddenEntry(hide, "report", p)}
              IN  /\ Cardinality(paths) = Len(report.answers) /\ paths \subseteq all
                  /\ Cardinality(paths) = IF req.report = "free-busy" \/ req.limit = None THEN Cardinality(all)
                                          ELSE Min({req.limit, Cardinality(all)})
                  /\ hide.dots # "ForDirectPaths" =>
                        \A n \in DOMAIN Report(world, hide, kind, again).answers :
                            Report(world, hide, kind, again).answers[n].status = 200
        /\ report.status = 207 /\ req.report = "multiget" =>
              /\ Len(asked) = Len(req.hrefs)
              /\ \A n \in DOMAIN req.hrefs : count(asked, req.hrefs[n]) = count(req.hrefs, req.hrefs[n])

\* A collection that could not be made as asked is not there, unless undoing
\* it fails as well, and none is made inside one of its own kind, or changes
\* what was there (RFC 4791 5.3.1.2, RFC 6352 5.2).
MakeLaw(world, path, method, want, props, fails) ==
    LET made == MakeCollection(world, path, method, want, props, fails)
        new == made.world[path]
    IN  /\ made.status = 201 => ~Is(world, path) /\ new.dir
        /\ made.status = 201 /\ new.kind # "none" => KindOf(made.world, Front(path)) # new.kind
        /\ made.status # 201 /\ fails \cap {"unmark", "undo"} = {} => (Is(made.world, path) = Is(world, path))
        /\ \A p \in DOMAIN world \ {path} : made.world[p] = world[p]
        /\ Is(world, path) => made.world = world
=============================================================================
