------------------------------ MODULE DavServer ------------------------------
(***************************************************************************)
(* The methods that change resources or locks (handle_delete, _copymove,   *)
(* _put, _mkcol, _lock) at work on one file system and one lock system.    *)
(* Every request is a future of its own: it is suspended at each call of   *)
(* the file system or the lock system, and between two of its calls any    *)
(* other request may run.  Each call is one action, with everything the    *)
(* handler does up to its next call; what a call returned and the handler  *)
(* keeps is in the request's task.  Connections are served for ever: a     *)
(* task that is done takes the next request.                               *)
(*                                                                         *)
(* The body of a PUT changes bytes and not the tree, so a file is told     *)
(* apart by the connection that last opened it for writing.  Symlinks,     *)
(* typed collections and properties are not kept; the calls made for them  *)
(* appear where they can fail.                                             *)
(***************************************************************************)
EXTENDS FileTree, Locks, FiniteSets

CONSTANTS Conns,        \* connections, one request at a time on each
          Workload,     \* conn -> the requests its client may send
          Concurrent,   \* FALSE: a request arrives only when none is running
          Faults,       \* the calls that may fail for reasons of their own
          Drops,        \* TRUE: a client may go away, dropping the future
          NoToken,
          MaxTime

VARIABLES fs,           \* the tree of resources
          nodes, issued, now,   \* the lock system, see MemLs
          task          \* conn -> the state of its request

vars == <<fs, nodes, issued, now, task>>
lockVars == <<nodes, issued, now>>

LS == INSTANCE MemLs WITH Deleted <- Paths

Methods == {"DELETE", "COPY", "MOVE", "PUT", "MKCOL", "LOCK", "REFRESH", "UNLOCK"}

\* tag, tokens: the If header, as one list of state tokens (none when tokens
\* is empty); fresh: If-None-Match: *; deep: Depth: infinity; body: an
\* extended MKCOL.  UNLOCK's Lock-Token is in tokens too.
Request == [method : Methods, path : Paths, dest : Paths, deep : BOOLEAN,
            overwrite : BOOLEAN, fresh : BOOLEAN, body : BOOLEAN,
            shared : BOOLEAN, timeout : Timeouts \cup {Never},
            principal : Principals, tokens : SUBSET Tokens, tag : Paths]

\* The calls on the file system that change it.
Calls == {"remove", "copy", "create_dir", "rename", "open", "mark"}

ASSUME ServerAssumption ==
    /\ Contents = Conns
    /\ Workload \in [Conns -> SUBSET Request]
    /\ NoToken \notin Tokens
    /\ Concurrent \in BOOLEAN /\ Faults \subseteq Calls /\ Drops \in BOOLEAN

Frame == [path : Seq(Names), dest : Seq(Names), isDir : BOOLEAN, failed : BOOLEAN,
          phase : {"visit", "file", "mkdir", "props", "list", "loop"},
          todo : SUBSET [path : Paths, isDir : BOOLEAN]]

Pcs == {"idle", "meta", "parent", "dest", "if", "checkSource", "check", "validate",
        "clear", "clearLocks", "copy", "move", "moveLocks", "delete", "deleteLocks",
        "put", "create", "mark", "rollback", "lock", "open", "undo", "refresh",
        "release", "done"}

\* isDir, exists, destFile: what metadata said; work: the calls of
\* delete_items or do_copy that are under way, outermost first; token: the
\* lock a LOCK was granted; seen: ghost, the tokens that had been handed out
\* when the locks were first checked.
Task == [pc : Pcs, req : {NoToken} \cup UNION {Workload[c] : c \in Conns},
         isDir : BOOLEAN, exists : BOOLEAN, destFile : BOOLEAN, work : Seq(Frame),
         token : Tokens \cup {NoToken}, seen : SUBSET Tokens,
         status : {"none", "ok", "failed", "dropped"}]

NoTask == [pc |-> "idle", req |-> NoToken, isDir |-> FALSE, exists |-> FALSE,
           destFile |-> FALSE, work |-> <<>>, token |-> NoToken, seen |-> {},
           status |-> "none"]

Init ==
    /\ LS!Init
    /\ fs = [p \in {Root} |-> Dir]
    /\ task = [c \in Conns |-> NoTask]

Idle(c) == task[c].pc \in {"idle", "done"}

\* The task moves on, or answers the client.
At(t, pc) == [t EXCEPT !.pc = pc]
Answered(t, status) ==
    [NoTask EXCEPT !.pc = "done", !.req = t.req, !.token = t.token, !.status = status]
Go(c, t) == task' = [task EXCEPT ![c] = t]

\* The results a call may have, given the errors it meets: TRUE is failure.
MayFail(call, errors) ==
    IF errors # {} THEN {TRUE} ELSE IF call \in Faults THEN BOOLEAN ELSE {FALSE}

-----------------------------------------------------------------------------
(* What the handlers read before they act.                                 *)

\* Tokens is finite where TLC runs: a LOCK comes only when one is left for it.
TokenLeft ==
    Cardinality({c \in Conns : ~Idle(c) /\ task[c].req.method = "LOCK" /\ task[c].token = NoToken})
        < Cardinality(Tokens \ issued)

\* A request arrives; its client knows only tokens that were handed out.
Arrive(c) ==
    /\ Idle(c)
    /\ Concurrent \/ \A d \in Conns : Idle(d)
    /\ \E req \in Workload[c] :
         /\ req.tokens \subseteq issued
         /\ req.method = "LOCK" => TokenLeft
         /\ Go(c, [NoTask EXCEPT !.pc = "meta", !.req = req])
    /\ UNCHANGED <<fs, lockVars>>

\* metadata of the request path
Metadata(c) ==
    LET t     == task[c]
        p     == t.req.path
        known == [t EXCEPT !.isDir = IsDir(fs, p), !.exists = p \in DOMAIN fs]
    IN  /\ t.pc = "meta"
        /\ CASE t.req.method \in {"DELETE", "COPY", "MOVE"} ->
                  IF p \notin DOMAIN fs THEN Go(c, Answered(t, "failed"))
                  ELSE Go(c, At(known, IF t.req.method = "DELETE" THEN "if" ELSE "parent"))
             [] t.req.method = "PUT" ->
                  IF IsDir(fs, p) THEN Go(c, Answered(t, "failed")) ELSE Go(c, At(known, "if"))
             [] t.req.method = "UNLOCK" -> Go(c, At(known, "release"))
             [] OTHER -> Go(c, At(known, "if"))
        /\ UNCHANGED <<fs, lockVars>>

\* COPY and MOVE: has_parent(dest)
DestParent(c) ==
    LET t == task[c]
    IN  /\ t.pc = "parent"
        /\ Go(c, IF IsDir(fs, Parent(t.req.dest)) THEN At(t, "dest") ELSE Answered(t, "failed"))
        /\ UNCHANGED <<fs, lockVars>>

\* Mistake: a destination above the source is let through.
NestedBelowOnly(req) == Above(req.path, req.dest)

\* One of the two is the other, or inside it.
Nested(req) == Above(req.path, req.dest) \/ Above(req.dest, req.path)

\* COPY and MOVE: metadata of the destination, Overwrite: F, nesting
DestMetadata(c) ==
    LET t      == task[c]
        exists == t.req.dest \in DOMAIN fs
    IN  /\ t.pc = "dest"
        /\ IF (exists /\ ~t.req.overwrite) \/ Nested(t.req)
           THEN Go(c, Answered(t, "failed"))
           ELSE Go(c, [At(t, "if") EXCEPT !.exists = exists,
                                          !.destFile = IsFile(fs, t.req.dest)])
        /\ UNCHANGED <<fs, lockVars>>

\* http_if_match against what metadata said of the request path - for COPY
\* and MOVE of the source, which exists - then dav_if_match: every token of
\* the If header must be on a lock that covers its resource.
IfHeader(c) ==
    LET t     == task[c]
        found == {l.token : l \in LS!LocksOn(LS!Pruned(nodes, now), t.req.tag)}
        fails == \/ t.req.fresh /\ (t.exists \/ t.req.method \in {"COPY", "MOVE"})
                 \/ ~(t.req.tokens \subseteq found)
                 \/ t.req.method = "REFRESH" /\ Cardinality(t.req.tokens) # 1
    IN  /\ t.pc = "if"
        /\ Go(c, IF fails THEN Answered(t, "failed")
                 ELSE At(t, CASE t.req.method = "LOCK" -> "lock"
                              [] t.req.method = "MOVE" -> "checkSource"
                              [] OTHER -> "check"))
        /\ IF t.req.tokens = {} THEN UNCHANGED lockVars ELSE LS!Query
        /\ UNCHANGED fs

\* The answer of check(), which also drops expired locks.
Refused(req, p, deep) ==
    LS!CheckConflicts(LS!Pruned(nodes, now), p, req.principal, FALSE, deep, req.tokens) # {}

\* MOVE: the locks on and under the source
CheckSource(c) ==
    LET t == task[c]
    IN  /\ t.pc = "checkSource"
        /\ Go(c, IF Refused(t.req, t.req.path, TRUE) THEN Answered(t, "failed")
                 ELSE [At(t, "check") EXCEPT !.seen = issued])
        /\ LS!Query
        /\ UNCHANGED fs

\* Mistake: the destination of a MOVE is not looked at.
TargetIsPath(req) == req.path

\* What check() is asked about: COPY and MOVE change the destination.
Target(req) == IF req.method \in {"COPY", "MOVE"} THEN req.dest ELSE req.path

\* Mistake: members of a collection are not looked at.
ShallowCheck(req) == FALSE

\* DELETE, COPY and MOVE check everything below the target as well.
DeepCheck(req) == req.method \in {"DELETE", "COPY", "MOVE"}

Frame0(p, d, isDir) ==
    [path |-> p, dest |-> d, isDir |-> isDir, failed |-> FALSE, phase |-> "visit", todo |-> {}]

Check(c) ==
    LET t      == task[c]
        passed == [t EXCEPT !.seen = IF t.req.method = "MOVE" THEN @ ELSE issued]
    IN  /\ t.pc = "check"
        /\ IF Refused(t.req, Target(t.req), DeepCheck(t.req)) THEN Go(c, Answered(t, "failed"))
           ELSE Go(c, CASE t.req.method = "DELETE" ->
                             [At(passed, "delete") EXCEPT
                                !.work = <<Frame0(t.req.path, t.req.path, t.isDir)>>]
                        [] t.req.method \in {"COPY", "MOVE"} -> At(passed, "validate")
                        [] t.req.method = "PUT"     -> At(passed, "put")
                        [] t.req.method = "MKCOL"   -> At(passed, "create")
                        [] t.req.method = "REFRESH" -> At(passed, "refresh"))
        /\ LS!Query
        /\ UNCHANGED fs

\* COPY and MOVE once the destination is out of the way
Transfer(t) ==
    IF t.req.method = "MOVE" THEN [At(t, "move") EXCEPT !.work = <<>>]
    ELSE [At(t, "copy") EXCEPT !.work = <<Frame0(t.req.path, t.req.dest, t.isDir)>>]

\* A Depth: 0 COPY keeps a collection that is there and its members.
Overwrites(t) == t.exists /\ (t.req.deep \/ t.destFile)

\* validate_copy_destination and the look at the collection types: they fail
\* when the parent or the destination has gone meanwhile.
Validate(c) ==
    LET t    == task[c]
        gone == \/ Parent(t.req.dest) \notin DOMAIN fs
                \/ /\ t.req.method = "COPY" /\ ~t.req.deep /\ t.isDir
                   /\ t.exists /\ ~t.destFile
                   /\ t.req.dest \notin DOMAIN fs
    IN  /\ t.pc = "validate"
        /\ Go(c, IF gone THEN Answered(t, "failed")
                 ELSE IF Overwrites(t)
                      THEN [At(t, "clear") EXCEPT
                              !.work = <<Frame0(t.req.dest, t.req.dest, ~t.destFile)>>]
                      ELSE Transfer(t))
        /\ UNCHANGED <<fs, lockVars>>

-----------------------------------------------------------------------------
(* delete_items and do_copy: a depth-first walk, one frame per call.       *)

Top(t) == t.work[Len(t.work)]

WithTop(t, frame) == [t EXCEPT !.work[Len(t.work)] = frame]

\* Mistake: the caller of a call that failed does not notice.
ReturnedUnnoticed(t, failed) ==
    IF Len(t.work) > 1 THEN [t EXCEPT !.work = SubSeq(@, 1, Len(@) - 1)]
    ELSE IF failed THEN Answered(t, "failed")
    ELSE CASE t.pc = "delete" -> [At(t, "deleteLocks") EXCEPT !.work = <<>>]
           [] t.pc = "clear"  -> [At(t, "clearLocks") EXCEPT !.work = <<>>]
           [] t.pc = "copy"   -> Answered(t, "ok")

\* The topmost call returns: its caller notes a failure and goes on with its
\* next entry; the outermost one returns to the handler.
Returned(t, failed) ==
    IF Len(t.work) > 1
    THEN LET rest == SubSeq(t.work, 1, Len(t.work) - 1)
         IN  [t EXCEPT !.work = [rest EXCEPT ![Len(rest)].failed = @ \/ failed]]
    ELSE IF failed THEN Answered(t, "failed")
    ELSE CASE t.pc = "delete" -> [At(t, "deleteLocks") EXCEPT !.work = <<>>]
           [] t.pc = "clear"  -> [At(t, "clearLocks") EXCEPT !.work = <<>>]
           [] t.pc = "copy"   -> Answered(t, "ok")

Deleting(t) == t.pc \in {"delete", "clear"}

\* read_dir takes one snapshot of the members and their kinds.
Listing(p) == {[path |-> q, isDir |-> IsDir(fs, q)] : q \in Members(fs, p)}

ReadDir(c, t, frame) ==
    IF IsDir(fs, frame.path)
    THEN Go(c, WithTop(t, [frame EXCEPT !.phase = "loop", !.todo = Listing(frame.path)]))
    ELSE Go(c, Returned(t, TRUE))

\* remove_file or remove_dir, on what the caller believes the entry to be
Remove(c, t, p) ==
    \E failed \in MayFail("remove", RemoveErrors(fs, p)) :
        /\ fs' = IF failed THEN fs ELSE Without(fs, p)
        /\ Go(c, Returned(t, failed))

DeleteVisit(c) ==
    LET t     == task[c]
        frame == Top(t)
    IN  /\ Deleting(t)
        /\ frame.phase = "visit"
        /\ IF frame.isDir /\ (t.pc = "clear" \/ t.req.deep)
           THEN ReadDir(c, t, frame) /\ UNCHANGED fs
           ELSE Remove(c, t, frame.path)
        /\ UNCHANGED lockVars

\* Mistake: the entry stays on the list until its call has succeeded.
NextEntryRetried(c) ==
    LET t     == task[c]
        frame == Top(t)
        Name(q) == SubSeq(q, Len(q), Len(q))
    IN  /\ Deleting(t) \/ t.pc = "copy"
        /\ frame.phase = "loop"
        /\ \E e \in frame.todo :
             Go(c, [t EXCEPT !.work = Append(@, Frame0(e.path, frame.dest \o Name(e.path), e.isDir))])
        /\ UNCHANGED <<fs, lockVars>>

\* The next entry of a directory, in any order (the order of a HashMap).
NextEntry(c) ==
    LET t     == task[c]
        frame == Top(t)
        Name(q) == SubSeq(q, Len(q), Len(q))
    IN  /\ Deleting(t) \/ t.pc = "copy"
        /\ frame.phase = "loop"
        /\ \E e \in frame.todo :
             Go(c, [WithTop(t, [frame EXCEPT !.todo = @ \ {e}]) EXCEPT
                      !.work = Append(@, Frame0(e.path, frame.dest \o Name(e.path), e.isDir))])
        /\ UNCHANGED <<fs, lockVars>>

\* All entries are done: a failure keeps the directory.
DeleteLeave(c) ==
    LET t     == task[c]
        frame == Top(t)
    IN  /\ Deleting(t)
        /\ frame.phase = "loop" /\ frame.todo = {}
        /\ IF frame.failed THEN Go(c, Returned(t, TRUE)) /\ UNCHANGED fs
           ELSE Remove(c, t, frame.path)
        /\ UNCHANGED lockVars

CopyVisit(c) ==
    LET t     == task[c]
        frame == Top(t)
    IN  /\ t.pc = "copy"
        /\ frame.phase = "visit"
        /\ Go(c, IF frame.path = t.req.dest THEN Returned(t, FALSE)
                 ELSE IF frame.path \notin DOMAIN fs THEN Returned(t, TRUE)
                 ELSE WithTop(t, [frame EXCEPT !.phase =
                                    IF IsDir(fs, frame.path) THEN "mkdir" ELSE "file"]))
        /\ UNCHANGED <<fs, lockVars>>

CopyFile(c) ==
    LET t     == task[c]
        frame == Top(t)
    IN  /\ t.pc = "copy"
        /\ frame.phase = "file"
        /\ \E failed \in MayFail("copy", CopyErrors(fs, frame.path, frame.dest)) :
             /\ fs' = IF failed THEN fs ELSE With(fs, frame.dest, fs[frame.path])
             /\ Go(c, Returned(t, failed))
        /\ UNCHANGED lockVars

\* create_dir of the copy; at Depth: 0 it may be there already.
CopyDir(c) ==
    LET t      == task[c]
        frame  == Top(t)
        errors == CreateDirErrors(fs, frame.dest)
        next   == WithTop(t, [frame EXCEPT !.phase = "props"])
    IN  /\ t.pc = "copy"
        /\ frame.phase = "mkdir"
        /\ IF ~t.req.deep /\ errors = {"Exists"} THEN Go(c, next) /\ UNCHANGED fs
           ELSE \E failed \in MayFail("create_dir", errors) :
                  /\ fs' = IF failed THEN fs ELSE With(fs, frame.dest, Dir)
                  /\ Go(c, IF failed THEN Returned(t, TRUE) ELSE next)
        /\ UNCHANGED lockVars

\* copy_collection_properties looks both directories up again.
CopyProps(c) ==
    LET t     == task[c]
        frame == Top(t)
        gone  == frame.path \notin DOMAIN fs \/ frame.dest \notin DOMAIN fs
    IN  /\ t.pc = "copy"
        /\ frame.phase = "props"
        /\ Go(c, IF gone THEN Returned(t, TRUE)
                 ELSE IF ~t.req.deep THEN Returned(t, FALSE)
                 ELSE WithTop(t, [frame EXCEPT !.phase = "list"]))
        /\ UNCHANGED <<fs, lockVars>>

CopyList(c) ==
    LET t == task[c]
    IN  /\ t.pc = "copy"
        /\ Top(t).phase = "list"
        /\ ReadDir(c, t, Top(t))
        /\ UNCHANGED <<fs, lockVars>>

CopyLeave(c) ==
    LET t     == task[c]
        frame == Top(t)
    IN  /\ t.pc = "copy"
        /\ frame.phase = "loop" /\ frame.todo = {}
        /\ Go(c, Returned(t, frame.failed))
        /\ UNCHANGED <<fs, lockVars>>

-----------------------------------------------------------------------------
(* The acts of the handlers.                                               *)

\* Mistake: the locks of a moved resource stay where it was.
DropLocksOfDeleted(c) ==
    LET t    == task[c]
        then == CASE t.pc = "deleteLocks" -> Answered(t, "ok")
                  [] t.pc = "moveLocks"   -> Answered(t, "ok")
                  [] t.pc = "clearLocks"  -> Transfer(t)
    IN  /\ t.pc \in {"deleteLocks", "moveLocks", "clearLocks"}
        /\ Go(c, then)
        /\ IF t.pc = "moveLocks" THEN UNCHANGED lockVars ELSE LS!Delete(Target(t.req))
        /\ UNCHANGED fs

\* locksystem.delete: after DELETE, after the destination was cleared, and
\* after MOVE for the source.
DropLocks(c) ==
    LET t    == task[c]
        then == CASE t.pc = "deleteLocks" -> Answered(t, "ok")
                  [] t.pc = "moveLocks"   -> Answered(t, "ok")
                  [] t.pc = "clearLocks"  -> Transfer(t)
    IN  /\ t.pc \in {"deleteLocks", "moveLocks", "clearLocks"}
        /\ Go(c, then)
        /\ LS!Delete(IF t.pc = "clearLocks" THEN t.req.dest ELSE t.req.path)
        /\ UNCHANGED fs

\* do_move: one rename
Move(c) ==
    LET t == task[c]
    IN  /\ t.pc = "move"
        /\ \E failed \in MayFail("rename", RenameErrors(fs, t.req.path, t.req.dest)) :
             /\ fs' = IF failed THEN fs ELSE Moved(fs, t.req.path, t.req.dest)
             /\ Go(c, IF failed THEN Answered(t, "failed") ELSE At(t, "moveLocks"))
        /\ UNCHANGED lockVars

\* Mistake: If-None-Match: * is only compared with what metadata said.
PutUnguarded(c) ==
    LET t == task[c]
    IN  /\ t.pc = "put"
        /\ \E failed \in MayFail("open", OpenErrors(fs, t.req.path, TRUE, FALSE)) :
             /\ fs' = IF failed THEN fs ELSE With(fs, t.req.path, c)
             /\ Go(c, Answered(t, IF failed THEN "failed" ELSE "ok"))
        /\ UNCHANGED lockVars

\* PUT: open with create and truncate, and create_new for If-None-Match: *
Put(c) ==
    LET t == task[c]
    IN  /\ t.pc = "put"
        /\ \E failed \in MayFail("open", OpenErrors(fs, t.req.path, TRUE, t.req.fresh)) :
             /\ fs' = IF failed THEN fs ELSE With(fs, t.req.path, c)
             /\ Go(c, Answered(t, IF failed THEN "failed" ELSE "ok"))
        /\ UNCHANGED lockVars

MakeCollection(c) ==
    LET t == task[c]
    IN  /\ t.pc = "create"
        /\ \E failed \in MayFail("create_dir", CreateDirErrors(fs, t.req.path)) :
             /\ fs' = IF failed THEN fs ELSE With(fs, t.req.path, Dir)
             /\ Go(c, IF failed THEN Answered(t, "failed")
                      ELSE IF t.req.body THEN At(t, "mark") ELSE Answered(t, "ok"))
        /\ UNCHANGED lockVars

\* mark_calendar, mark_addressbook, apply_set_props
Mark(c) ==
    LET t == task[c]
    IN  /\ t.pc = "mark"
        /\ \E failed \in MayFail("mark", IF IsDir(fs, t.req.path) THEN {} ELSE {"NotFound"}) :
             Go(c, IF failed THEN At(t, "rollback") ELSE Answered(t, "ok"))
        /\ UNCHANGED <<fs, lockVars>>

\* rollback_created_collection: best effort.  The marker files it removes
\* first are no names of Names; what becomes of them is in Reports (Undone).
Rollback(c) ==
    LET t == task[c]
    IN  /\ t.pc = "rollback"
        /\ \E failed \in MayFail("remove", RemoveErrors(fs, t.req.path)) :
             fs' = IF failed THEN fs ELSE Without(fs, t.req.path)
        /\ Go(c, Answered(t, "failed"))
        /\ UNCHANGED lockVars

\* LOCK: the lock is taken first, then a missing resource is created.
TakeLock(c) ==
    LET t       == task[c]
        granted == CHOOSE token \in issued' \ issued : TRUE
        locked  == [t EXCEPT !.token = granted, !.seen = issued]
    IN  /\ t.pc = "lock"
        /\ LS!Lock(t.req.path, t.req.principal, t.req.timeout, t.req.shared, t.req.deep)
        /\ Go(c, IF issued' = issued THEN Answered(t, "failed")
                 ELSE IF t.exists THEN Answered(locked, "ok") ELSE At(locked, "open"))
        /\ UNCHANGED fs

\* Mistake: the lock is kept when there is nothing to lock.
OpenKeepsLock(c) ==
    LET t == task[c]
    IN  /\ t.pc = "open"
        /\ \E failed \in MayFail("open", OpenErrors(fs, t.req.path, TRUE, t.req.fresh)) :
             /\ fs' = IF failed \/ t.req.path \in DOMAIN fs THEN fs ELSE With(fs, t.req.path, c)
             /\ Go(c, Answered(t, IF failed THEN "failed" ELSE "ok"))
        /\ UNCHANGED lockVars

\* The file a LOCK creates is empty; one that has appeared meanwhile is only
\* opened (there is no truncate).
Open(c) ==
    LET t == task[c]
    IN  /\ t.pc = "open"
        /\ \E failed \in MayFail("open", OpenErrors(fs, t.req.path, TRUE, t.req.fresh)) :
             /\ fs' = IF failed \/ t.req.path \in DOMAIN fs THEN fs ELSE With(fs, t.req.path, c)
             /\ Go(c, IF failed THEN At(t, "undo") ELSE Answered(t, "ok"))
        /\ UNCHANGED lockVars

UndoLock(c) ==
    LET t == task[c]
    IN  /\ t.pc = "undo"
        /\ LS!Unlock(t.req.path, t.token)
        /\ Go(c, Answered(t, "failed"))
        /\ UNCHANGED fs

\* The lock system's answer to a token: does it find the lock?
Known(t, token) == LS!HolderNodes(LS!Pruned(nodes, now), t.req.path, token) # {}

Refresh(c) ==
    LET t == task[c]
    IN  /\ t.pc = "refresh"
        /\ \E token \in t.req.tokens :
             /\ LS!Refresh(t.req.path, token, t.req.timeout)
             /\ Go(c, Answered(t, IF Known(t, token) THEN "ok" ELSE "failed"))
        /\ UNCHANGED fs

Release(c) ==
    LET t == task[c]
    IN  /\ t.pc = "release"
        /\ \E token \in t.req.tokens :
             /\ LS!Unlock(t.req.path, token)
             /\ Go(c, Answered(t, IF Known(t, token) THEN "ok" ELSE "failed"))
        /\ UNCHANGED fs

-----------------------------------------------------------------------------

Step(c) ==
    \/ Metadata(c) \/ DestParent(c) \/ DestMetadata(c) \/ IfHeader(c)
    \/ CheckSource(c) \/ Check(c) \/ Validate(c)
    \/ DeleteVisit(c) \/ NextEntry(c) \/ DeleteLeave(c)
    \/ CopyVisit(c) \/ CopyFile(c) \/ CopyDir(c) \/ CopyProps(c) \/ CopyList(c) \/ CopyLeave(c)
    \/ DropLocks(c) \/ Move(c) \/ Put(c)
    \/ MakeCollection(c) \/ Mark(c) \/ Rollback(c)
    \/ TakeLock(c) \/ Open(c) \/ UndoLock(c) \/ Refresh(c) \/ Release(c)

\* The connection is lost: the future of its request is dropped.
Drop(c) ==
    /\ Drops
    /\ ~Idle(c)
    /\ Go(c, Answered(task[c], "dropped"))
    /\ UNCHANGED <<fs, lockVars>>

Tick == LS!Tick /\ UNCHANGED <<fs, task>>

Next ==
    \/ \E c \in Conns : Arrive(c) \/ Step(c) \/ Drop(c)
    \/ Tick

\* The executor polls a future that can go on.  Clients and the clock owe
\* nothing.
Spec == Init /\ [][Next]_vars /\ \A c \in Conns : WF_vars(Step(c))
-----------------------------------------------------------------------------
(* Properties.                                                             *)

TypeOK ==
    /\ LS!TypeOK
    /\ IsTree(fs)
    /\ task \in [Conns -> Task]

\* The request that takes the step, and what it may call its own.
Acts(c) == ~Idle(c) /\ task'[c] # task[c]
Presents(c, l) == l.token \in task[c].req.tokens \cup {task[c].token}
Mine(c, l) == Presents(c, l) /\ l.principal = task[c].req.principal

Changed(p) ==
    \/ (p \in DOMAIN fs) # (p \in DOMAIN fs')
    \/ p \in DOMAIN fs /\ fs[p] # fs'[p]

\* An exclusive lock protects what it covers: a step changes, creates or
\* removes a resource under someone else's lock only when that lock was
\* handed out after the request had checked.  The checks look at the request
\* path or the destination once; the steps go on to everything below it.
LocksRespected ==
    [][\A c \in Conns : Acts(c) =>
          \A l \in LS!InForce, p \in Paths :
             ~l.shared /\ Covers(l, p) /\ ~Mine(c, l) /\ Changed(p)
                => l.token \notin task[c].seen]_vars

\* A lock ends before its deadline in three ways only: with its token, which
\* is all that UNLOCK looks at; given back by the LOCK that took it and then
\* failed; or with the resources at and below a path that was deleted, cleared
\* or moved away.  In the last way a request never ends a lock that was there
\* when it checked, shared or not, unless the lock is its own.
LocksEndOnlyByRight ==
    [][\A l \in LS!InForce :
          l.token \notin {m.token : m \in LS!InForce'} /\ ~Expired(l, now')
             => \E c \in Conns :
                  LET t == task[c]
                  IN  /\ Acts(c)
                      /\ \/ t.pc \in {"release", "refresh"} /\ l.token \in t.req.tokens
                         \/ t.pc = "undo" /\ l.token = t.token
                         \/ /\ \/ t.pc \in {"deleteLocks", "moveLocks"} /\ Above(t.req.path, l.path)
                               \/ t.pc = "clearLocks" /\ Above(t.req.dest, l.path)
                            /\ Mine(c, l) \/ l.token \notin t.seen]_vars

\* A LOCK that was answered with an error leaves no lock behind.
FailedLockLeavesNothing ==
    \A c \in Conns :
        task[c].status = "failed" /\ task[c].req.method = "LOCK"
            => \A l \in LS!InForce : l.token # task[c].token

\* With nothing under way, every lock in force is on a resource that exists.
NoStrayLocks ==
    (\A c \in Conns : Idle(c)) => \A l \in LS!InForce : l.path \in DOMAIN fs

\* COPY and MOVE lose nothing of the source, whatever fails or goes on at the
\* same time: what was at or under it stays there or is at its new place.
SourceSurvives ==
    [][\A c \in Conns : Acts(c) /\ task[c].pc \in {"clear", "copy", "move"} =>
          \A p \in DOMAIN fs \cap Subtree(task[c].req.path) :
             LET q == IF p \in DOMAIN fs' THEN p
                      ELSE Rebase(p, task[c].req.path, task[c].req.dest)
             IN  q \in DOMAIN fs' /\ fs'[q] = fs[p]]_vars

\* A COPY that reports success has made the whole copy, and nothing of what
\* was at the destination before is left in it (for requests one at a time).
CopyIsComplete ==
    [][\A c \in Conns :
          LET req == task[c].req
          IN  Acts(c) /\ task[c].pc = "copy" /\ task'[c].status = "ok" /\ req.deep =>
                LET source == DOMAIN fs' \cap Subtree(req.path)
                IN  /\ DOMAIN fs' \cap Subtree(req.dest)
                         = {Rebase(p, req.path, req.dest) : p \in source}
                    /\ \A p \in source : fs'[Rebase(p, req.path, req.dest)] = fs'[p]]_vars

\* If-None-Match: * never lets a request change what exists, even when it
\* appeared after metadata was read.
FreshChangesNothingOld ==
    [][\A c \in Conns : Acts(c) /\ task[c].pc \in {"put", "create", "open"} /\ task[c].req.fresh =>
          \A p \in DOMAIN fs : p \in DOMAIN fs' /\ fs'[p] = fs[p]]_vars

\* Every request is answered, however the others interleave with its walks.
EveryRequestEnds == \A c \in Conns : task[c].pc = "meta" ~> Idle(c)
=============================================================================
