-------------------------------- MODULE Put ---------------------------------
(***************************************************************************)
(* PUT and PATCH on one resource (handle_put.rs), from the metadata they   *)
(* read to their answer, with the bytes: whole bodies and ranges, bodies   *)
(* that are longer, shorter or break off, and for members of a calendar or *)
(* address book the limit, the validation, and what is put back when a     *)
(* write has failed.  Requests run at the same time and other handlers may *)
(* remove the resource; every call on the file system is one action.       *)
(*                                                                         *)
(* A handle is the id of the file it opened with a position, as in MemFs:  *)
(* an id that is not the file's any more reaches nothing.  Locks are left  *)
(* to DavServer, entity tags to the headers.                               *)
(***************************************************************************)
EXTENDS FileBytes, FiniteSets

CONSTANTS Conns,
          Workload,     \* conn -> the requests its client may send
          Faulty,       \* bound: the conns in whose requests a call may fail by itself
          Valid,        \* bytes that are a calendar object or a vCard
          MaxResource,  \* max_resource_size
          MaxPos,       \* u64::MAX, and usize::MAX
          Stored,       \* bound: the bytes the resource may have at first
          NoCount,      \* no Content-Length
          NoBytes,      \* nothing was kept
          NoFile

VARIABLES typed,        \* the parent is a calendar or an address book
          file,         \* NoFile, or the id and the bytes of the resource
          task          \* conn -> the state of its request

vars == <<typed, file, task>>

Bytes == Seq(Nat)

\* update: X-Update-Range of a PATCH, none for a PUT; content: Content-Range,
\* star when it names no range; count: Content-Length; broken: the body ends
\* in an error; fresh: If-None-Match: *; existing: If-Match: *.
Ranges == [kind : {"none", "star", "bytes", "fromTo", "from", "last", "append"}, b : Nat, e : Nat]
IsRequest(r) ==
    /\ r.update \in Ranges /\ r.update.kind \notin {"star", "bytes"}
    /\ r.content \in Ranges /\ r.content.kind \in {"none", "star", "bytes"}
    /\ r.count \in Nat \cup {NoCount}
    /\ r.frames \in Seq(Bytes)
    /\ r.broken \in BOOLEAN /\ r.fresh \in BOOLEAN /\ r.existing \in BOOLEAN

ASSUME PutAssumption ==
    /\ MaxResource \in Nat /\ MaxPos \in Nat /\ Stored \subseteq Bytes
    /\ Valid \subseteq Bytes /\ Faulty \subseteq Conns
    /\ NoCount \notin Nat /\ NoBytes \notin Bytes
    /\ NoFile \notin [id : Nat, bytes : Bytes] /\ IsFiniteSet(Conns)
    /\ \A c \in Conns : \A r \in Workload[c] : IsRequest(r)

\* number of frames -> the bytes they carry
Received(req) == LET upto[i \in 0..Len(req.frames)] ==
                       IF i = 0 THEN <<>> ELSE upto[i - 1] \o req.frames[i]
                 IN  upto
Body(req) == Received(req)[Len(req.frames)]

Pcs == {"idle", "stage", "readOpen", "readLen", "read", "open", "seek", "write", "flush",
        "undoOpen", "undoWrite", "remove", "done"}

\* exists, len: metadata; start, count, ranged, append: the plan made from
\* the headers; fid, pos: the handle; old, got, want: the bytes kept for an
\* undo, and those of a read under way; wrote: the write is over; sent: frames
\* written.  Ghosts: before, the bytes when the request came; alone, nobody
\* else has changed the file since; failing, a call has failed by itself;
\* created, this request has made the file.  A lost request is
\* one whose undoing has failed too.
NoTask == [pc |-> "idle", req |-> NoFile, exists |-> FALSE, len |-> 0,
           start |-> 0, count |-> NoCount, ranged |-> FALSE, append |-> FALSE,
           fid |-> 0, pos |-> 0, old |-> NoBytes, got |-> <<>>, want |-> 0,
           wrote |-> FALSE, sent |-> 0, before |-> NoBytes, alone |-> TRUE,
           failing |-> FALSE, created |-> FALSE, status |-> "none"]

Idle(c) == task[c].pc \in {"idle", "done"}

Init ==
    /\ typed \in BOOLEAN
    /\ file \in {NoFile} \cup [id : {1}, bytes : IF typed THEN Stored \cap Valid ELSE Stored]
    /\ task = [c \in Conns |-> NoTask]

At(t, pc) == [t EXCEPT !.pc = pc]
Answered(status) == [NoTask EXCEPT !.pc = "done", !.status = status]

Content(f) == IF f = NoFile THEN NoBytes ELSE f.bytes

Disturbed(t) == [t EXCEPT !.alone = FALSE, !.before = NoBytes]

\* The task moves on and the file becomes f, which ends the peace of others.
Go(c, t, f) ==
    /\ file' = f
    /\ task' = [d \in Conns |->
                  IF d = c THEN t
                  ELSE IF Idle(d) \/ f = file THEN task[d]
                  ELSE Disturbed(task[d])]
    /\ UNCHANGED typed

\* The handle still reaches the file.
Reaches(t) == file # NoFile /\ file.id = t.fid

\* An id no handle has: node ids are never used twice.
FreshId == CHOOSE id \in 1..Cardinality(Conns) + 1 :
               \A c \in Conns : Idle(c) \/ task[c].fid # id

-----------------------------------------------------------------------------
(* The plan: what the headers ask for, and what is refused at once.        *)

\* e - b + 1, or MaxPos + 1 where checked arithmetic gives None
Width(range) == IF range.e < range.b THEN MaxPos + 1 ELSE range.e - range.b + 1

\* Content-Range has the last word on start and count.
Plan(req, exists, len) ==
    LET u     == req.update
        bytes == req.content.kind = "bytes"
    IN  [ranged |-> u.kind # "none" \/ bytes,
         append |-> u.kind = "append",
         start  |-> CASE bytes -> req.content.b
                      [] u.kind \in {"fromTo", "from"} /\ ~bytes -> u.b
                      [] u.kind = "last" /\ ~bytes -> len - u.b
                      [] OTHER -> 0,
         count  |-> IF bytes /\ req.count = NoCount THEN Width(req.content) ELSE req.count]

HeadersRefused(req, exists, len) ==
    LET u == req.update
    IN  \/ u.kind # "none" /\ req.count = NoCount
        \/ u.kind = "fromTo" /\ Width(u) # req.count
        \/ u.kind = "last" /\ (~exists \/ u.b > len)
        \/ /\ req.content.kind = "bytes"
           /\ Width(req.content) > MaxPos \/ req.count \notin {NoCount, Width(req.content)}
        \/ req.fresh /\ exists
        \/ req.existing /\ ~exists

\* A range may not end beyond what can be addressed, nor start past the end.
PlanRefused(plan, exists, len) ==
    /\ plan.ranged /\ ~plan.append
    /\ plan.start + plan.count > MaxPos \/ (exists /\ plan.start > len)

\* Mistake: an append is measured as if it began at the start of the range.
ResultingSizeOfRange(t, written) ==
    LET end == t.start + written IN IF t.ranged /\ t.len > end THEN t.len ELSE end

\* resulting_resource_size
ResultingSize(t, written) ==
    LET end == t.start + written
    IN  IF ~t.ranged THEN written
        ELSE IF t.append THEN t.len + written
        ELSE IF t.len > end THEN t.len ELSE end

TooLarge(t, written) == typed /\ ResultingSize(t, written) > MaxResource

\* What the handler turns to once the headers are dealt with: a whole object
\* is staged, and what a range goes into is read first.
Prepared(t) ==
    IF typed /\ ~t.ranged THEN At(t, "stage")
    ELSE IF typed /\ t.exists THEN At(t, "readOpen")
    ELSE At(t, "open")

-----------------------------------------------------------------------------
(* The handler.                                                            *)

\* A request comes, and is refused at once or prepared.
Metadata(c) ==
    LET exists == file # NoFile
        len    == IF exists THEN Len(file.bytes) ELSE 0
    IN  /\ task[c].pc = "idle"
        /\ \E req \in Workload[c] :
             LET plan == Plan(req, exists, len)
                 t    == [NoTask EXCEPT !.req = req, !.exists = exists, !.len = len,
                             !.ranged = plan.ranged, !.append = plan.append, !.start = plan.start,
                             !.count = plan.count, !.before = Content(file)]
             IN  Go(c, IF \/ HeadersRefused(req, exists, len)
                          \/ PlanRefused(plan, exists, len)
                          \/ plan.count # NoCount /\ TooLarge(t, plan.count)
                       THEN Answered("failed") ELSE Prepared(t), file)

\* A whole object is read from the body and validated before the file is
\* touched.
BodyRefused(t) ==
    LET body == Body(t.req)
    IN  \/ t.req.broken
        \/ Len(body) > MaxResource
        \/ t.count \notin {NoCount, Len(body)}
        \/ body \notin Valid

\* Mistake: the body is validated after it was written, as for a range.
StageUnchecked(c) ==
    LET t == task[c]
    IN  /\ t.pc = "stage"
        /\ Go(c, At(t, IF t.exists THEN "readOpen" ELSE "open"), file)

Stage(c) ==
    LET t == task[c]
    IN  /\ t.pc = "stage"
        /\ Go(c, IF BodyRefused(t) THEN Answered("failed")
                 ELSE At(t, IF t.exists THEN "readOpen" ELSE "open"), file)

Closed(t) == [t EXCEPT !.fid = 0, !.pos = 0, !.got = <<>>, !.want = 0]

\* A write has failed, or made what is not valid: put back what was there, or
\* remove what is new.  Only for members of calendars and address books.
Undone(t) ==
    IF ~typed THEN Answered("failed")
    ELSE At(Closed(t), IF t.old # NoBytes THEN "undoOpen" ELSE "remove")

\* One call may fail by itself in a request.
MayFail(c) == IF c \notin Faulty \/ task[c].failing THEN {FALSE} ELSE BOOLEAN
Failing(t, failed) == IF failed THEN [t EXCEPT !.failing = TRUE] ELSE t

\* read_resource_bytes, before the write for the old bytes and after it for
\* the validation: open, metadata, reads.  When it fails the first one ends
\* the request, the second one counts as invalid.
ReadFailed(t) == IF t.wrote THEN Undone(t) ELSE Answered("failed")
\* Mistake: after the write it is enough that the bytes can be read.
ReadDoneUnchecked(t, bytes) ==
    IF t.wrote THEN Answered("ok") ELSE [At(Closed(t), "open") EXCEPT !.old = bytes]

ReadDone(t, bytes) ==
    IF ~t.wrote THEN [At(Closed(t), "open") EXCEPT !.old = bytes]
    ELSE IF bytes \in Valid THEN Answered("ok") ELSE Undone(t)

ReadOpen(c) ==
    LET t == task[c]
    IN  /\ t.pc = "readOpen"
        /\ \E failed \in MayFail(c) :
             Go(c, IF failed \/ file = NoFile THEN ReadFailed(Failing(t, failed))
                   ELSE [At(t, "readLen") EXCEPT !.fid = file.id, !.pos = 0, !.got = <<>>], file)

\* No more than metadata said is kept, and no more than the limit validated.
ReadLen(c) ==
    LET t   == task[c]
        cap == IF t.wrote THEN MaxResource ELSE t.len
        len == Len(file.bytes)
    IN  /\ t.pc = "readLen"
        /\ Go(c, IF ~Reaches(t) THEN ReadFailed(t)
                 ELSE [At(t, "read") EXCEPT !.want = IF len > cap THEN cap ELSE len], file)

\* read_file_to_end: until there is enough, or no more
Read(c) ==
    LET t     == task[c]
        chunk == BytesAt(file.bytes, t.pos, t.want - Len(t.got))
        next  == [t EXCEPT !.got = @ \o chunk, !.pos = @ + Len(chunk)]
    IN  /\ t.pc = "read"
        /\ Go(c, IF Len(t.got) = t.want THEN ReadDone(t, t.got)
                 ELSE IF ~Reaches(t) THEN ReadFailed(t)
                 ELSE IF chunk = <<>> THEN ReadDone(t, t.got) ELSE next, file)

Open(c) ==
    LET t == task[c]
    IN  /\ t.pc = "open"
        /\ \E failed \in MayFail(c) :
             IF failed \/ (file # NoFile /\ t.req.fresh) \/ (file = NoFile /\ t.req.existing)
             THEN Go(c, Answered("failed"), file)
             ELSE LET new    == file = NoFile
                      opened == [id    |-> IF new THEN FreshId ELSE file.id,
                                 bytes |-> IF new \/ ~t.ranged THEN <<>> ELSE file.bytes]
                  IN  Go(c, [At(t, IF t.ranged THEN "seek" ELSE "write") EXCEPT
                                !.fid = opened.id, !.pos = 0, !.created = new], opened)

\* The handle is moved to the start of the range.  A failure is answered at
\* once and undoes nothing, though the open may have made the file.
Seek(c) ==
    LET t == task[c]
    IN  /\ t.pc = "seek"
        /\ \E failed \in MayFail(c) :
             Go(c, IF failed THEN Answered("failed")
                   ELSE [At(t, "write") EXCEPT !.pos = t.start], file)

\* The body goes on after frame number sent.
Total(t) == Len(Received(t.req)[t.sent])

\* One write: a staged object whole, otherwise the next frame, which may be
\* refused before it is written.
Write(c) ==
    LET t      == task[c]
        staged == typed /\ ~t.ranged
        buf    == IF staged THEN Body(t.req) ELSE t.req.frames[t.sent + 1]
        next   == [t EXCEPT !.sent = IF staged THEN Len(t.req.frames) ELSE @ + 1]
        pos    == IF t.append THEN Len(file.bytes) ELSE t.pos
    IN  /\ t.pc = "write"
        /\ t.sent < Len(t.req.frames)
        /\ \E failed \in MayFail(c) :
             IF ~staged /\ TooLarge(t, Total(next)) THEN Go(c, Undone(t), file)
             ELSE IF ~staged /\ t.count # NoCount /\ Total(next) > t.count
             THEN Go(c, At(next, "flush"), file)
             ELSE IF failed \/ ~Reaches(t) THEN Go(c, Undone(Failing(t, failed)), file)
             ELSE Go(c, [next EXCEPT !.pos = pos + Len(buf)],
                     [file EXCEPT !.bytes = Written(@, pos, buf)])

\* The body is over.
EndOfBody(c) ==
    LET t == task[c]
    IN  /\ t.pc = "write"
        /\ t.sent = Len(t.req.frames)
        /\ Go(c, IF t.req.broken THEN Undone(t) ELSE At(t, "flush"), file)

\* Mistake: a body that breaks off early is taken for all of it.
FlushShort(c) ==
    LET t    == task[c]
        next == [t EXCEPT !.wrote = TRUE]
    IN  /\ t.pc = "flush"
        /\ \E failed \in MayFail(c) :
             Go(c, IF failed \/ (t.count # NoCount /\ Total(t) > t.count)
                   THEN Undone(Failing(t, failed))
                   ELSE IF typed /\ t.ranged THEN At(Closed(next), "readOpen")
                   ELSE Answered("ok"), file)

\* flush, then the length is compared with what was announced; a range in a
\* member of a calendar is validated from the file.
Flush(c) ==
    LET t    == task[c]
        next == [t EXCEPT !.wrote = TRUE]
    IN  /\ t.pc = "flush"
        /\ \E failed \in MayFail(c) :
             Go(c, IF failed \/ t.count \notin {NoCount, Total(t)}
                   THEN Undone(Failing(t, failed))
                   ELSE IF typed /\ t.ranged THEN At(Closed(next), "readOpen")
                   ELSE Answered("ok"), file)

\* restore_resource_bytes; its failures are only logged.
UndoOpen(c) ==
    LET t == task[c]
    IN  /\ t.pc = "undoOpen"
        /\ \E failed \in MayFail(c) :
             IF failed THEN Go(c, Answered("lost"), file)
             ELSE LET opened == [id    |-> IF file = NoFile THEN FreshId ELSE file.id,
                                 bytes |-> <<>>]
                  IN  Go(c, [At(t, "undoWrite") EXCEPT !.fid = opened.id], opened)

UndoWrite(c) ==
    LET t == task[c]
    IN  /\ t.pc = "undoWrite"
        /\ \E failed \in MayFail(c) :
             Go(c, Answered(IF failed THEN "lost" ELSE "failed"),
                IF failed \/ ~Reaches(t) THEN file
                ELSE [file EXCEPT !.bytes = Written(@, 0, t.old)])

\* Mistake: nothing is removed.
RemoveNothing(c) ==
    LET t == task[c]
    IN  /\ t.pc = "remove"
        /\ Go(c, Answered("failed"), file)

\* remove_file of the path, whatever is there by now
Remove(c) ==
    LET t == task[c]
    IN  /\ t.pc = "remove"
        /\ \E failed \in MayFail(c) :
             Go(c, Answered(IF failed THEN "lost" ELSE "failed"),
                IF failed THEN file ELSE NoFile)

Step(c) ==
    \/ Metadata(c) \/ Stage(c) \/ ReadOpen(c) \/ ReadLen(c) \/ Read(c)
    \/ Open(c) \/ Seek(c) \/ Write(c) \/ EndOfBody(c) \/ Flush(c)
    \/ UndoOpen(c) \/ UndoWrite(c) \/ Remove(c)

\* The connection is lost: the future is dropped, and nothing is undone.
Drop(c) ==
    /\ ~Idle(c)
    /\ Go(c, Answered("dropped"), file)

\* Another handler removes the resource, or moves it away.
Vanish ==
    /\ file # NoFile
    /\ file' = NoFile
    /\ task' = [c \in Conns |-> IF Idle(c) THEN task[c] ELSE Disturbed(task[c])]
    /\ UNCHANGED typed

Next ==
    \/ \E c \in Conns : Step(c) \/ Drop(c)
    \/ Vanish

Spec == Init /\ [][Next]_vars
-----------------------------------------------------------------------------
(* Properties.                                                             *)

\* The bytes a range is put into.
Before(t) == IF t.before = NoBytes THEN <<>> ELSE t.before

\* What the file must be after the request, from what it was before it.
Expected(req, old) ==
    LET body == Body(req)
    IN  CASE req.content.kind = "bytes" /\ req.update.kind # "append" ->
                Written(old, req.content.b, body)
          [] req.update.kind = "append" -> old \o body
          [] req.content.kind # "bytes" /\ req.update.kind = "last" ->
                Written(old, Len(old) - req.update.b, body)
          [] req.content.kind # "bytes" /\ req.update.kind \in {"fromTo", "from"} ->
                Written(old, req.update.b, body)
          [] OTHER -> body

\* The request whose step this is, and its answer.
Acts(c) == task'[c] \notin {task[c], Disturbed(task[c])}
Answers(c, status) == Acts(c) /\ ~Idle(c) /\ task'[c].status = status

\* A request that is answered with success has stored exactly what it asked
\* for, all of it, when nobody else has touched the file; a range without
\* bytes stores none, not even a gap in front of it.
SuccessIsExact ==
    [][\A c \in Conns :
          LET t == task[c]
          IN  Answers(c, "ok") /\ t.alone =>
                /\ ~t.req.broken
                /\ t.req.count \in {NoCount, Len(Body(t.req))}
                /\ \/ Content(file') = Expected(t.req, Before(t))
                   \/ t.ranged /\ Body(t.req) = <<>> /\ Content(file') = Before(t)]_vars

\* "A failed write into a calendar/addressbook collection must not leave a
\* half-written object behind" (handle_put.rs): a refused request leaves the
\* old bytes, or none where none were, unless its undoing failed as well.
\* One refusal is not undone by the code and is excepted: when the seek to the
\* start of a range fails in a file that the request has just made, the file
\* stays behind, empty.
RefusedLeavesOld ==
    [][\A c \in Conns :
          LET t == task[c]
          IN  typed /\ Answers(c, "failed") /\ t.alone =>
                \/ Content(file') = t.before
                \/ t.pc = "seek" /\ t.created /\ Content(file') = <<>>]_vars

\* What a request that succeeds undisturbed has stored in a calendar or an
\* address book is valid, and none of its writes goes past the limit.  Neither
\* does a write at a position, whatever others do meanwhile: it leaves an
\* object within the limit or makes it no longer.  An append is measured by
\* the length it has read before it opened the file, so two of them at once
\* may pass the limit together.
StoredIsValid ==
    [][\A c \in Conns :
          typed /\ Acts(c) =>
             /\ task[c].alone /\ task'[c].status = "ok" /\ ~Idle(c) => Content(file') \in Valid
             /\ task[c].pc = "write" /\ file' # file =>
                  \/ Len(file'.bytes) <= MaxResource
                  \/ /\ ~task[c].alone
                     /\ task[c].append \/ Len(file'.bytes) <= Len(file.bytes)]_vars

\* "rejected uploads leave the old bytes and validators intact"
\* (handle_put.rs): no step of a whole upload that is not valid touches the
\* file, however other requests interleave.
RejectedUploadsTouchNothing ==
    [][\A c \in Conns :
          LET req == task[c].req
          IN  /\ typed /\ Acts(c) /\ ~Idle(c)
              /\ req.update.kind = "none" /\ req.content.kind # "bytes"
              /\ req.broken \/ Body(req) \notin Valid
              => file' = file]_vars

\* "restore the previous PATCH target, or remove a newly created resource"
\* (handle_put.rs): what is removed is what the request has created.
CleanupRemovesOwn ==
    [][\A c \in Conns :
          Acts(c) /\ task[c].pc = "remove" /\ file # NoFile /\ file' = NoFile =>
             task[c].created]_vars
=============================================================================
