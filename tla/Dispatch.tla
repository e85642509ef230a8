------------------------------ MODULE Dispatch ------------------------------
(* davhandler.rs between a request and its handler: what the configuration *)
(* lets through, which bodies are read, and how errors are answered; with  *)
(* the methods handle_options.rs advertises and the refusals for the kind  *)
(* of resource the other handlers begin with. A configuration that leaves  *)
(* an option out has None there.                                           *)
EXTENDS Naturals, Sequences, FiniteSets

CONSTANT None

-----------------------------------------------------------------------------
(* Methods and configurations.                                             *)

Methods == {"HEAD", "GET", "PUT", "PATCH", "OPTIONS", "PROPFIND", "PROPPATCH", "MKCOL", "COPY", "MOVE",
            "DELETE", "LOCK", "UNLOCK", "REPORT", "MKCALENDAR", "MKADDRESSBOOK"}
HTTP_RO == {"GET", "HEAD", "OPTIONS"}
HTTP_RW == HTTP_RO \cup {"PUT"}
WEBDAV_RO == HTTP_RO \cup {"PROPFIND"}

\* DavMethodSet::from_vec(): the words for methods and for sets of them, or
\* None when one is neither.
from_vec(words) ==
    LET set(w) == CASE w = "http-ro" -> HTTP_RO [] w = "http-rw" -> HTTP_RW [] w = "webdav-ro" -> WEBDAV_RO
                    [] w = "webdav-rw" -> Methods [] OTHER -> {w}
        all == UNION {set(w) : w \in words}
    IN  IF all \subseteq Methods THEN all ELSE None

\* A plausible mistake: a request can not take away what the handler allows.
mergeAllow(old, new) == [k \in DOMAIN old |-> IF old[k] = None THEN new[k] ELSE old[k]]

\* DavConfig::merge(): what handle_with() is given comes before what the
\* handler was built with, option by option.
merge(old, new) == [k \in DOMAIN old |-> IF new[k] = None THEN old[k] ELSE new[k]]

\* DavInner::new(): no file system is a void one.
Void(cfg) == cfg.fs = None

\* What is allowed in the end.
Allows(cfg, method) == cfg.allow = None \/ method \in cfg.allow

-----------------------------------------------------------------------------
(* Errors: [kind, status, fs].                                             *)

FsErrorStatus == [NotImplemented |-> 501, GeneralFailure |-> 500, Exists |-> 405, NotFound |-> 404,
    Forbidden |-> 403, InsufficientStorage |-> 507, LoopDetected |-> 508, PathTooLong |-> 414,
    TooLarge |-> 413, IsRemote |-> 502]

\* ioerror_to_status() of the kind fserror_to_ioerror() gives.
IoErrorStatus == [e \in DOMAIN FsErrorStatus |->
    CASE e = "NotFound" -> 404 [] e = "Forbidden" -> 403 [] e = "Exists" -> 409 [] OTHER -> 502]

ErrorStatus == [XmlReadError |-> 400, XmlParseError |-> 400, InvalidPath |-> 400, IllegalPath |-> 502,
    ForbiddenPath |-> 403, UnknownDavMethod |-> 501, ChanError |-> 500, Utf8Error |-> 415,
    XmlReaderError |-> 400, XmlWriterError |-> 500]

statuscode(err) ==
    CASE err.kind \in {"Status", "StatusClose"} -> err.of
      [] err.kind = "FsError" -> FsErrorStatus[err.of]
      [] err.kind = "IoError" -> IoErrorStatus[err.of]
      [] OTHER -> ErrorStatus[err.kind]

must_close(err) ==
    ~(err.kind = "Status" \/ (err.kind = "FsError" /\ err.of \in {"NotFound", "Forbidden", "Exists"}))

Error(kind, of) == [kind |-> kind, of |-> of]

\* handle(): the answer to an error; Windows is told not to keep a 404.
Answer(err, microsoft) ==
    [status |-> statuscode(err), close |-> must_close(err), nostore |-> microsoft /\ statuscode(err) = 404,
     handler |-> None]

-----------------------------------------------------------------------------
(* From the request to its handler. A request is [method, path, body]: its *)
(* path is "valid" or the error it is refused with, its body is "none",    *)
(* "some", "large" (more than 65536 bytes), or "broken" before the end.    *)

Streamed == {"PUT", "PATCH"}
TakesBody == Streamed \cup {"PROPFIND", "PROPPATCH", "LOCK", "REPORT", "MKCOL", "MKCALENDAR", "MKADDRESSBOOK"}

\* read_request()
BodyError(body) ==
    CASE body = "large" -> Error("Status", 413)
      [] body = "broken" -> Error("IoError", "GeneralFailure")
      [] OTHER -> None

\* A plausible mistake: what is not allowed is only refused where there is a file system.
RefusalOnlyVoid(cfg, req) ==
    IF req.method \notin Methods THEN Error("UnknownDavMethod", None)
    ELSE IF Void(cfg) /\ req.method # "OPTIONS" THEN Error("StatusClose", 405)
    ELSE IF req.path # "valid" THEN Error(req.path, None)
    ELSE None

\* handle2() up to the handlers: the error a request ends with, or None.
Refusal(cfg, req) ==
    IF req.method \notin Methods THEN Error("UnknownDavMethod", None)
    ELSE IF Void(cfg) /\ req.method # "OPTIONS" THEN Error("StatusClose", 405)
    ELSE IF ~Allows(cfg, req.method) THEN Error("StatusClose", 405)
    ELSE IF req.path # "valid" THEN Error(req.path, None)
    ELSE IF req.method \in Streamed THEN None
    ELSE IF BodyError(req.body) # None THEN BodyError(req.body)
    ELSE IF req.body # "none" /\ req.method \notin TakesBody THEN Error("Status", 415)
    ELSE None

\* The refusals of the handlers that come from the kind of resource alone, or
\* from a server without a lock system. A resource is "none", "hidden",
\* "file", "dir" or "root".
IndexAllowed(cfg) ==
    IF cfg.autoindex # None THEN cfg.autoindex ELSE cfg.allow # None /\ "PROPFIND" \in cfg.allow
KindRefusal(cfg, method, resource) ==
    IF method \in {"LOCK", "UNLOCK"} /\ ~cfg.ls THEN Error("Status", 405)
    ELSE IF method # "OPTIONS" /\ resource = "hidden" THEN Error("Status", 404)
    ELSE IF method \in {"MKCOL", "MKCALENDAR", "MKADDRESSBOOK"} /\ resource \in {"file", "dir", "root"} THEN Error("Status", 405)
    ELSE IF method \in Streamed /\ resource \in {"dir", "root"} THEN Error("StatusClose", 405)
    ELSE IF method \in {"GET", "HEAD"} /\ resource \in {"dir", "root"} /\ ~IndexAllowed(cfg) THEN Error("StatusClose", 405)
    ELSE IF method \in {"GET", "HEAD", "PROPFIND", "PROPPATCH", "COPY", "MOVE", "DELETE", "REPORT"} /\ resource = "none"
    THEN Error("FsError", "NotFound")
    ELSE None

Handled(cfg, req, resource) ==
    LET refusal == Refusal(cfg, req)
        kind == KindRefusal(cfg, req.method, resource)
    IN  IF refusal # None THEN Answer(refusal, req.microsoft)
        ELSE IF kind # None THEN [Answer(kind, req.microsoft) EXCEPT !.handler = req.method]
        ELSE [status |-> 200, close |-> FALSE, nostore |-> FALSE, handler |-> req.method]

-----------------------------------------------------------------------------
(* handle_options(): the methods of the Allow header.                      *)

\* A void file system allows OPTIONS alone.
Effective(cfg) == IF Void(cfg) THEN [cfg EXCEPT !.allow = {"OPTIONS"}] ELSE cfg

\* A plausible mistake: what is there is offered what creates it.
OfferedAll(resource) == Methods \ {"PROPPATCH"}

\* What is offered for a resource; "star" is the server as a whole, and what
\* is hidden looks as if it were not there.
Offered(resource) ==
    CASE resource \in {"none", "hidden"} -> {"OPTIONS", "MKCOL", "PUT", "LOCK", "MKCALENDAR", "MKADDRESSBOOK"}
      [] OTHER ->
           {"OPTIONS", "PROPFIND", "COPY", "LOCK", "UNLOCK", "REPORT"}
           \cup (IF resource = "root" THEN {} ELSE {"MOVE", "DELETE"})
           \cup (IF resource \in {"file", "star"} THEN {"HEAD", "GET", "PATCH", "PUT"} ELSE {})
           \cup (IF resource = "star" THEN {"MKCALENDAR", "MKADDRESSBOOK"} ELSE {})

Allow(cfg, resource) ==
    {m \in Offered(resource) : Allows(Effective(cfg), m) /\ (m \in {"LOCK", "UNLOCK"} => cfg.ls)}

-----------------------------------------------------------------------------

\* The methods a server was not given never reach a handler, whoever set them
\* last, and neither does anything but OPTIONS without a file system, or a
\* body where none is expected; what is refused like that ends the connection
\* when its method or path was at fault, so that the unread body is not taken
\* for the next request.
GateLaw(handler, given, req, resource) ==
    LET cfg == merge(handler, given)
        answer == Handled(cfg, req, resource)
        last == IF given.allow # None THEN given.allow ELSE handler.allow
    IN  /\ answer.handler # None =>
              /\ req.method \in Methods /\ req.path = "valid"
              /\ last # None => req.method \in last
              /\ handler.fs = None /\ given.fs = None => req.method = "OPTIONS"
              /\ req.body # "none" => req.method \notin {"GET", "HEAD", "DELETE", "COPY", "MOVE", "UNLOCK", "OPTIONS"}
              /\ req.method \notin Streamed => req.body \in {"none", "some"}
        /\ answer.handler = None => answer.status >= 400
        /\ answer.handler = None /\ answer.status \notin {413, 415} => answer.close
        /\ answer.nostore => answer.status = 404

\* A method that OPTIONS advertises for a resource is one the server takes
\* there: a request of it is not refused as a method that is not allowed or
\* not implemented.
AdvertisedLaw(cfg, resource) ==
    LET plain(m) == [method |-> m, path |-> "valid", body |-> "none", microsoft |-> FALSE]
        places(r) == IF r = "star" THEN {"none", "file", "dir"} ELSE {r}
    IN  Handled(cfg, plain("OPTIONS"), resource).status = 200 =>
            \A m \in Allow(cfg, resource) :
                \E place \in places(resource) : Handled(cfg, plain(m), place).status \notin {405, 501}

\* The words a set of methods is given by stand for all they name.
WordsLaw(words) ==
    LET set == from_vec(words)
    IN  /\ (set = None) = (\E w \in words : from_vec({w}) = None)
        /\ set # None => /\ set = UNION {from_vec({w}) : w \in words}
                         /\ "webdav-rw" \notin words /\ "http-rw" \notin words
                              => set \cap {"PUT", "PATCH", "DELETE", "MKCOL"} \subseteq words
=============================================================================
