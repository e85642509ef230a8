------------------------------- MODULE LocalFs -------------------------------
(***************************************************************************)
(* LocalFs (localfs.rs): the file system trait on a disk.  A call turns    *)
(* its path into one of the disk, with the caches' help where they are on, *)
(* and then does its work in a blocking task; between the two, and between *)
(* the parts of a rename that has to clear its destination, other calls    *)
(* take their steps.  Inside one blocking closure nothing else happens.    *)
(* Contents are values; modes, times and sizes are left out, but for the   *)
(* modification times of directories.                                      *)
(***************************************************************************)
EXTENDS DirCache, NameCache

CONSTANTS Clients,
          Base,         \* basedir, as a path of the disk
          Setups        \* what is served, and how: [inner, disk, calls, bound, lists];
                        \* bound is how many calls a client makes

VARIABLES setup,        \* what the clients ask for, from Setups
          names,        \* CACHE of localfs_windows.rs
          task          \* client -> its call

vars == <<dirvars, setup, names, task>>

OfTwoPaths == {"rename", "copy"}

ASSUME LocalFsAssumption ==
    /\ NameEntries \in Nat \ {0}
    /\ Base \in Seq(ToSet(Base))
    /\ \A s \in Setups :
         /\ IsDisk(s.disk)
         /\ s.inner.is_file => ~s.inner.case_insensitive
         /\ \A call \in s.calls :
              /\ call.path \in Seq(ToSet(call.path))
              /\ call.op \in OfTwoPaths => call.to \in Seq(ToSet(call.to))

Resting(n) == [pc |-> "none", made |-> n]

Init ==
    /\ setup \in Setups
    /\ inner = setup.inner
    /\ disk = setup.disk
    /\ DirInit
    /\ names = <<>>
    /\ task = [c \in Clients |-> Resting(0)]

Busy(c) == task[c].pc \notin {"none", "answered"}

-----------------------------------------------------------------------------
(* Paths                                                                   *)

canonical_basedir == Base       \* set when the file system is made

\* confine_follow: links are followed, and where they lead must be in the share.
confine_follow(d, p) ==
    With(Canonical(d, p), LAMBDA r :
        IF r.err = "" /\ ~Within(canonical_basedir, r.path) THEN Failed("Forbidden") ELSE r)

\* Mistake: the parent is not looked at.
confine_leaf_parent_free(d, p) ==
    IF p = Base THEN confine_follow(d, Base)
    ELSE LET parent == Canonical(d, Front(p))
         IN  IF parent.err # "" THEN parent ELSE Ok(Append(parent.path, Last(p)))

\* confine_leaf: the last name is not followed, but its parent must be in the share.
confine_leaf(d, p) ==
    IF p = Base THEN confine_follow(d, Base)
    ELSE With(confine_follow(d, Front(p)), LAMBDA parent :
             IF parent.err # "" THEN parent ELSE Ok(Append(parent.path, Last(p))))

\* fspath: the path on the disk, and the cache of names after it
fspath(c, d, segs) ==
    IF inner.is_file THEN Found(Base, c)
    ELSE IF inner.case_insensitive THEN Resolve(c, d, Base, segs)
    ELSE Found(Base \o segs, c)

Virtuals == {<<".metadata_never_index">>, <<".ql_disablethumbnails">>}

is_virtual(segs) == inner.macos /\ segs \in Virtuals

is_forbidden(segs) ==
    /\ inner.macos
    /\ segs \in Virtuals \/ (segs # <<>> /\ Last(segs) = ".localized")

-----------------------------------------------------------------------------
(* The blocking closures: an error, or "" and the next disk.               *)

OnLeaf(d, p, Do(_)) ==
    With(confine_leaf(d, p), LAMBDA leaf :
        IF leaf.err # "" THEN Refused(d, leaf.err) ELSE Do(leaf.path))

\* reject_symlink, and then r
NotLink(d, p, r) ==
    With(Reached(d, p), LAMBDA at :
        IF at.err = "" /\ Kind(d, at.path) = "link" THEN Refused(d, "Forbidden") ELSE r)

DoRead(d, p) == Refused(d, confine_follow(d, p).err)

DoSymlinkMetadata(d, p) == OnLeaf(d, p, LAMBDA leaf : OsStat(d, leaf))

DoWrite(d, p, call) ==
    OnLeaf(d, p, LAMBDA leaf :
        NotLink(d, leaf, OsWrite(d, leaf, call.create, call.create_new, call.val)))

DoCreateDir(d, p) == OnLeaf(d, p, LAMBDA leaf : NotLink(d, leaf, OsCreateDir(d, leaf)))

\* mark_sidecar: an empty file in the collection
DoMark(d, p, name) ==
    OnLeaf(d, p, LAMBDA leaf :
        LET sidecar == Append(leaf, name)
        IN  NotLink(d, sidecar, OsWrite(d, sidecar, TRUE, FALSE, "empty")))

DoRemoveDir(d, p) == OnLeaf(d, p, LAMBDA leaf : OsRemoveDir(d, leaf))

DoRemoveFile(d, p) == OnLeaf(d, p, LAMBDA leaf : OsRemoveFile(d, leaf))

DoCopy(d, p, to, whole) ==
    LET from == confine_follow(d, p)
    IN  IF from.err # "" THEN Refused(d, from.err)
        ELSE OnLeaf(d, to, LAMBDA leaf : NotLink(d, leaf, OsCopy(d, from.path, leaf, whole)))

DoSetModified(d, p) == OnLeaf(d, p, LAMBDA leaf : NotLink(d, leaf, OsStat(d, leaf)))

\* Mistake: the destination goes whatever kept the rename from being done.
DoRenameAnyError(d, p, to) ==
    OnLeaf(d, p, LAMBDA from : OnLeaf(d, to, LAMBDA dest :
        LET r == OsRename(d, from, dest)
        IN  IF r.err # "" THEN [r EXCEPT !.err = "ENOTDIR"] ELSE r))

\* rename, up to the decision what an error means.  A real directory in the place of a file
\* leaves ENOTDIR: the file is to be removed.
DoRename(d, p, to) ==
    OnLeaf(d, p, LAMBDA from : OnLeaf(d, to, LAMBDA dest : OsRename(d, from, dest)))

-----------------------------------------------------------------------------
(* The calls.  A task keeps, as history, the disk it found, whether others *)
(* left that alone since, and whether its path led somewhere all the time. *)

\* The disk becomes new by a step of c.
Step(c, new, next) ==
    /\ Change(new)
    /\ task' = [x \in Clients |->
                  IF x = c THEN next
                  ELSE IF Busy(x)
                  THEN [task[x] EXCEPT !.quiet = @ /\ new = disk,
                                       !.there = @ /\ Exists(new, task[x].at)]
                  ELSE task[x]]
    /\ UNCHANGED <<inner, setup, du_cache, dir_id, finished, names>>

\* Only the task of c changes.
Goes(c, next) ==
    /\ task' = [task EXCEPT ![c] = next]
    /\ UNCHANGED <<inner, setup, disk, mtime, listing, dir_id, finished>>

Told(c, err) == [pc |-> "answered", answer |-> err, made |-> task[c].made]

Finishes(c, r) == Step(c, r.disk, Told(c, FsErrorOf(r.err)))

Metadata == {"metadata", "symlink_metadata"}
CheckedByName == {"open", "write", "create_dir", "remove_file", "rename", "copy", "set_modified"}

FindsVirtual(call) == call.op \in Metadata /\ is_virtual(call.path)

IsBarred(call) ==
    /\ call.op \in CheckedByName
    /\ is_forbidden(call.path) \/ (call.op \in OfTwoPaths /\ is_forbidden(call.to))

\* Answered from the name alone
CallByName(c, call) ==
    /\ ~Busy(c) /\ task[c].made < setup.bound
    /\ \/ FindsVirtual(call) /\ Goes(c, [Told(c, "") EXCEPT !.made = @ + 1])
       \/ IsBarred(call) /\ Goes(c, [Told(c, "Forbidden") EXCEPT !.made = @ + 1])
    /\ UNCHANGED <<names, du_cache>>

\* Where the call goes on: is_notfound may have to be asked.
Asks(call, path) ==
    IF ~inner.macos \/ call.op \notin Metadata THEN "run"
    ELSE IF Last(path) = ".localized" THEN "never"
    ELSE IF Last(path) \in DotNames THEN "peek" ELSE "run"

\* fspath, for the path or both paths
Call(c, call) ==
    /\ ~Busy(c) /\ task[c].made < setup.bound
    /\ ~FindsVirtual(call) /\ ~IsBarred(call)
    /\ \E from \in {fspath(names, disk, call.path)} :
       \E to \in {IF call.op \in OfTwoPaths THEN fspath(from.cache, disk, call.to) ELSE from} :
          /\ Goes(c, [pc |-> Asks(call, from.path), made |-> task[c].made + 1, call |-> call,
                      at |-> from.path, to |-> to.path, entry |-> <<>>,
                      before |-> disk, quiet |-> TRUE, there |-> Exists(disk, from.path)])
          /\ names' = to.cache
    /\ UNCHANGED du_cache

NeverThere(c) ==
    /\ task[c].pc = "never"
    /\ Goes(c, Told(c, "NotFound"))
    /\ UNCHANGED <<names, du_cache>>

\* negative, first part: the parent must be in the cache.
NegativePeek(c) ==
    LET mark == Mark(Front(task[c].at))
    IN  /\ task[c].pc = "peek"
        /\ IF Has(du_cache, mark)
           THEN Goes(c, [task[c] EXCEPT !.pc = "stat", !.entry = Peek(du_cache, mark)])
           ELSE Goes(c, [task[c] EXCEPT !.pc = "run"])
        /\ UNCHANGED <<names, du_cache>>

\* ... then, without the lock, the parent's time must be the one of the entry (a directory that
\* is not in Dirs, found by the entry of a "._" file, may have any time), and be readable ...
NegativeStat(c) ==
    LET dir  == Front(task[c].at)
        same == IF dir \in Dirs THEN {FALSE, mtime[dir] = task[c].entry.mtime}
                ELSE BOOLEAN
    IN  /\ task[c].pc = "stat"
        /\ \E valid \in same :
              Goes(c, [task[c] EXCEPT !.pc = IF Kind(disk, dir) = "dir" /\ valid
                                             THEN "look" ELSE "stale"])
        /\ UNCHANGED <<names, du_cache>>

\* The entry is dropped; if it was one of a "._" file, that file is no longer in the cache.
NegativeStale(c) ==
    LET mark == Mark(Front(task[c].at))
    IN  /\ task[c].pc = "stale"
        /\ du_cache' = Pop(du_cache, mark)
        /\ finished' = TakenForDir(finished, mark)
        /\ task' = [task EXCEPT ![c].pc = "run"]
        /\ UNCHANGED <<inner, setup, disk, mtime, listing, dir_id, names>>

\* ... and with the lock taken again the file is looked for.
NegativeLook(c) ==
    /\ task[c].pc = "look"
    /\ IF Denies(du_cache, task[c].at, task[c].entry.id)
       THEN Goes(c, Told(c, "NotFound"))
       ELSE Goes(c, [task[c] EXCEPT !.pc = "run"])
    /\ UNCHANGED <<names, du_cache>>

Runs(c, op) == task[c].pc = "run" /\ task[c].call.op = op

GetMetadata(c) == Runs(c, "metadata") /\ Finishes(c, DoRead(disk, task[c].at))
SymlinkMetadata(c) ==
    Runs(c, "symlink_metadata") /\ Finishes(c, DoSymlinkMetadata(disk, task[c].at))
Open(c)        == Runs(c, "open") /\ Finishes(c, DoRead(disk, task[c].at))
Write(c)       == Runs(c, "write") /\ Finishes(c, DoWrite(disk, task[c].at, task[c].call))
CreateDir(c)   == Runs(c, "create_dir") /\ Finishes(c, DoCreateDir(disk, task[c].at))
MarkSidecar(c) == Runs(c, "mark") /\ Finishes(c, DoMark(disk, task[c].at, ".dav-calendar"))
RemoveDir(c)   == Runs(c, "remove_dir") /\ Finishes(c, DoRemoveDir(disk, task[c].at))
RemoveFile(c)  == Runs(c, "remove_file") /\ Finishes(c, DoRemoveFile(disk, task[c].at))
Copy(c)        == Runs(c, "copy") /\ Finishes(c, DoCopy(disk, task[c].at, task[c].to, TRUE))

\* The time of a directory may become any, an earlier one too.
SetModified(c) ==
    LET r   == DoSetModified(disk, task[c].at)
        dir == confine_leaf(disk, task[c].at).path
    IN  /\ Runs(c, "set_modified")
        /\ task' = [task EXCEPT ![c] = Told(c, FsErrorOf(r.err))]
        /\ IF r.err = "" /\ dir \in Dirs
           THEN \E t \in 0..MaxMtime : mtime' = [mtime EXCEPT ![dir] = t]
           ELSE UNCHANGED mtime
        /\ UNCHANGED <<inner, setup, disk, listing, dir_id, finished, names, du_cache>>

RenameFirst(c) ==
    LET from == confine_leaf(disk, task[c].at)
        dest == confine_leaf(disk, task[c].to)
        r    == DoRename(disk, task[c].at, task[c].to)
    IN  /\ Runs(c, "rename")
        /\ IF /\ from.err = "" /\ dest.err = ""
              /\ r.err = "ENOTDIR" /\ Kind(disk, from.path) = "dir"
           THEN Step(c, disk, [task[c] EXCEPT !.pc = "clear", !.at = from.path, !.to = dest.path])
           ELSE Finishes(c, r)

\* A directory is to be where a file is: the file goes first.  If it is gone already, fine.
RenameClear(c) ==
    LET r == OsRemoveFile(disk, task[c].to)
    IN  /\ task[c].pc = "clear"
        /\ IF r.err \in {"", "ENOENT"}
           THEN Step(c, r.disk, [task[c] EXCEPT !.pc = "again"])
           ELSE Finishes(c, r)

RenameAgain(c) ==
    task[c].pc = "again" /\ Finishes(c, OsRename(disk, task[c].at, task[c].to))

\* A system call fails for a reason of its own: no permission, no room, an error of the device.
FailsByItself(c) ==
    /\ task[c].pc \in {"run", "clear", "again"}
    /\ Finishes(c, Refused(disk, "ENOSPC"))

\* So does a copy that has begun to write: what it wrote is left.
CopyBreaksOff(c) ==
    LET r == DoCopy(disk, task[c].at, task[c].to, FALSE)
    IN  Runs(c, "copy") /\ r.err = "" /\ Finishes(c, Refused(r.disk, "ENOSPC"))

\* The thread that drops names of a quarter of an hour ago
PurgeNames ==
    /\ \E n \in DOMAIN names : names' = SubSeq(names, n + 1, Len(names))
    /\ UNCHANGED <<dirvars, setup, task>>

Listing == ListNext /\ UNCHANGED <<setup, names, task>>

Advance(c) ==
    \/ NeverThere(c) \/ NegativePeek(c) \/ NegativeStat(c) \/ NegativeStale(c) \/ NegativeLook(c)
    \/ GetMetadata(c) \/ SymlinkMetadata(c) \/ Open(c) \/ Write(c) \/ CreateDir(c)
    \/ MarkSidecar(c) \/ RemoveDir(c) \/ RemoveFile(c) \/ Copy(c) \/ SetModified(c)
    \/ RenameFirst(c) \/ RenameClear(c) \/ RenameAgain(c)
    \/ FailsByItself(c) \/ CopyBreaksOff(c)

Next ==
    \/ \E c \in Clients, call \in setup.calls : CallByName(c, call) \/ Call(c, call)
    \/ \E c \in Clients : Advance(c)
    \/ PurgeNames
    \/ setup.lists /\ Listing

Spec == Init /\ [][Next]_vars

-----------------------------------------------------------------------------
Outside(d) == [p \in {q \in DOMAIN d : ~Within(Base, q)} |-> d[p]]

(* What lies outside the share is never changed, whatever links there are in it (localfs.rs:252). *)
OutsideUntouched == [][Outside(disk') = Outside(disk)]_vars

Fails(c) == Busy(c) /\ task'[c].pc = "answered" /\ task'[c].answer # ""

SameBut(d, e, p) == Drop(d, p) = Drop(e, p)

\* What the system's own failures may leave: a rename that removed its destination and then cannot
\* be done has lost it, and a copy that breaks off has written over it.
LeavesDestination(c) ==
    \/ /\ task[c].pc = "again" /\ FailsByItself(c)
       /\ SameBut(task[c].before, disk', task[c].to)
    \/ /\ CopyBreaksOff(c)
       /\ SameBut(task[c].before, disk', confine_leaf(disk, task[c].to).path)

(* A call that fails though nobody else changed the disk since it began has changed nothing,
   whatever the tree is like: a rename that had to remove its destination (localfs.rs:712) is then
   completed.  When the system fails by itself the destination is all that may be lost: by the
   second rename, or by a copy.                                            *)
FailureAloneChangesOnlyDestination ==
    [][\A c \in Clients : Fails(c) /\ task[c].quiet =>
          disk' = task[c].before \/ LeavesDestination(c)]_vars

NoTwins == \A p, q \in DOMAIN disk : LowerPath(p) = LowerPath(q) => p = q

(* Where no two names differ in case only, a path leads to something exactly if some spelling of
   it exists, however stale the cache of names is (localfs_windows.rs:33).  The lookup takes the
   base as it is spelled, which must be there. *)
FindsAnySpelling ==
    inner.case_insensitive /\ NoTwins /\ Base \in DOMAIN disk =>
        \A call \in setup.calls :
            LET asked == LowerPath(Base \o call.path)
                found == fspath(names, disk, call.path).path
            IN  /\ LowerPath(found) = asked
                /\ (\E p \in DOMAIN disk : LowerPath(p) = asked) <=> found \in DOMAIN disk

(* "If we are sure the path does _not_ exist, return true" (localfs_macos.rs:82): a lookup is not
   answered NotFound by the cache of directories when the path existed all the time. *)
SureDoesNotExist ==
    [][\A c \in Clients : task[c].pc = "look" /\ Fails(c) => ~task[c].there]_vars
=============================================================================
