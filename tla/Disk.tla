-------------------------------- MODULE Disk --------------------------------
(***************************************************************************)
(* The disk under LocalFs: what the operating system does to a tree of     *)
(* directories, files and symbolic links when localfs.rs calls std::fs     *)
(* (POSIX), and what fs.rs makes of its errors.  A path is the sequence of  *)
(* its names from the root of the disk; a disk maps the paths that exist   *)
(* to what is there.                                                       *)
(***************************************************************************)
EXTENDS Naturals, Sequences, SequencesExt, FiniteSets

DirEntry     == [kind |-> "dir"]
FileEntry(v) == [kind |-> "file", val |-> v]
LinkTo(p)    == [kind |-> "link", to |-> p]

Kind(d, p) == IF p \in DOMAIN d THEN d[p].kind ELSE "none"

\* A tree of directories, with files and links in them
IsDisk(d) ==
    \A p \in DOMAIN d :
        /\ p \in Seq(ToSet(p))
        /\ \A n \in 0..Len(p) - 1 : Kind(d, SubSeq(p, 1, n)) = "dir"
        /\ d[p].kind \in {"dir", "file", "link"}
        /\ d[p].kind = "link" => d[p].to \in Seq(ToSet(d[p].to))

Within(base, p) == IsPrefix(base, p)
Inside(d, p)    == {q \in DOMAIN d : q # p /\ Within(p, q)}
NamesIn(d, p)   == {Last(q) : q \in {r \in DOMAIN d : r # <<>> /\ Front(r) = p}}

Ok(p)     == [err |-> "", path |-> p]
Failed(e) == [err |-> e, path |-> <<>>]

\* Do(v), with v computed once
With(v, Do(_)) == [x \in {v} |-> Do(x)][v]

MaxHops == 3    \* links followed before ELOOP; 40 on Linux

\* A walk along p goes from directory to directory, up to the first entry that is none.
Reaches(d, p, n) ==
    /\ n = Len(p) \/ Kind(d, SubSeq(p, 1, n)) # "dir"
    /\ \A m \in 0..(n - 1) : Kind(d, SubSeq(p, 1, m)) = "dir"
Stop(d, p) == CHOOSE n \in 0..Len(p) : Reaches(d, p, n)

\* A link there leads the walk elsewhere, with the rest of p still to go.
Followed(d, p) ==
    With(SubSeq(p, 1, Stop(d, p)), LAMBDA at :
        IF Kind(d, at) # "link" THEN p ELSE d[at].to \o SubSeq(p, Len(at) + 1, Len(p)))

\* The walk along p, which follows no more links, has come to the entry at.
Arrived(d, p, at) ==
    CASE Kind(d, at) = "none"            -> Failed("ENOENT")
      [] Kind(d, at) = "link"            -> Failed("ELOOP")
      [] Kind(d, at) = "file" /\ at # p -> Failed("ENOTDIR")
      [] OTHER                           -> Ok(p)

\* canonicalize(p): every link on the way and at the end is followed.
Canonical(d, p) ==
    LET path[h \in 0..MaxHops] == IF h = 0 THEN p ELSE Followed(d, path[h - 1])
    IN  With(path[MaxHops], LAMBDA end :
            With(SubSeq(end, 1, Stop(d, end)), LAMBDA at : Arrived(d, end, at)))
Exists(d, p)    == Canonical(d, p).err = ""

-----------------------------------------------------------------------------
(* The calls that change the disk: an error that the tree is the reason    *)
(* of, or "" and the next disk.  Any of them may fail for the system's own  *)
(* reasons too (EACCES, ENOSPC, EIO): LocalFs has that as a step, with     *)
(* ENOSPC for all of them.                                                 *)

Done(d)       == [err |-> "", disk |-> d]
Refused(d, e) == [err |-> e, disk |-> d]

Put(d, p, entry) == [q \in DOMAIN d \cup {p} |-> IF q = p THEN entry ELSE d[q]]
Drop(d, p)       == [q \in DOMAIN d \ {p} |-> d[q]]

\* A call on p follows the links on the way to p, to a directory, but not p itself.
Reached(d, p) ==
    IF p = <<>> THEN Ok(p)
    ELSE With(Canonical(d, Front(p)), LAMBDA dir :
             CASE dir.err # ""                                -> dir
               [] dir.err = "" /\ Kind(d, dir.path) # "dir" -> Failed("ENOTDIR")
               [] OTHER                                       -> Ok(Append(dir.path, Last(p))))

Via(d, p, Do(_)) ==
    With(Reached(d, p), LAMBDA at : IF at.err # "" THEN Refused(d, at.err) ELSE Do(at.path))

\* rename(2), once it is allowed.
Renamed(d, from, to) ==
    LET moving == {q \in DOMAIN d : Within(from, q)}
        Back(q) == from \o SubSeq(q, Len(to) + 1, Len(q))
        new    == {to \o SubSeq(q, Len(from) + 1, Len(q)) : q \in moving}
    IN  [q \in (DOMAIN d \ (moving \cup {to})) \cup new |->
            IF q \in new THEN d[Back(q)] ELSE d[q]]

RenameAt(d, from, to) ==
    IF Kind(d, from) = "none" THEN Refused(d, "ENOENT")
    ELSE IF from = to THEN Done(d)
    ELSE IF Within(from, to) THEN Refused(d, "EINVAL")
    ELSE IF Within(to, from) THEN Refused(d, "ENOTEMPTY")
    ELSE IF Kind(d, from) = "dir" /\ Kind(d, to) \in {"file", "link"} THEN Refused(d, "ENOTDIR")
    ELSE IF Kind(d, from) # "dir" /\ Kind(d, to) = "dir" THEN Refused(d, "EISDIR")
    ELSE IF Inside(d, to) # {} THEN Refused(d, "ENOTEMPTY")
    ELSE Done(Renamed(d, from, to))

OsRename(d, from, to) ==
    Via(d, from, LAMBDA f : Via(d, to, LAMBDA t : RenameAt(d, f, t)))

\* lstat(2)
OsStat(d, p) ==
    Via(d, p, LAMBDA at : IF Kind(d, at) = "none" THEN Refused(d, "ENOENT") ELSE Done(d))

OsRemoveFile(d, p) ==
    Via(d, p, LAMBDA at :
        CASE Kind(d, at) = "none" -> Refused(d, "ENOENT")
          [] Kind(d, at) = "dir"  -> Refused(d, "EISDIR")
          [] OTHER                -> Done(Drop(d, at)))

OsRemoveDir(d, p) ==
    Via(d, p, LAMBDA at :
        CASE Kind(d, at) = "none"             -> Refused(d, "ENOENT")
          [] Kind(d, at) \in {"file", "link"} -> Refused(d, "ENOTDIR")
          [] Inside(d, at) # {}               -> Refused(d, "ENOTEMPTY")
          [] OTHER                            -> Done(Drop(d, at)))

OsCreateDir(d, p) ==
    Via(d, p, LAMBDA at :
        IF Kind(d, at) # "none" THEN Refused(d, "EEXIST") ELSE Done(Put(d, at, DirEntry)))

\* open(2) with O_NOFOLLOW, for writing v over all that was there
OsWrite(d, p, create, create_new, v) ==
    Via(d, p, LAMBDA at :
        IF Kind(d, at) # "none" /\ create_new THEN Refused(d, "EEXIST")
        ELSE IF Kind(d, at) = "link" THEN Refused(d, "ELOOP")
        ELSE IF Kind(d, at) = "dir" THEN Refused(d, "EISDIR")
        ELSE IF Kind(d, at) = "none" /\ ~create /\ ~create_new THEN Refused(d, "ENOENT")
        ELSE Done(Put(d, at, FileEntry(v))))

\* reflink_or_copy: of a file; a file at the destination is overwritten, with the whole of it or,
\* if the copy breaks off, with a part.
OsCopy(d, from, to, whole) ==
    IF Kind(d, from) # "file" THEN Refused(d, "EINVAL")
    ELSE OsWrite(d, to, TRUE, FALSE, IF whole THEN d[from].val ELSE "part")

-----------------------------------------------------------------------------
\* From<io::Error> for FsError
FsErrorOf(e) ==
    CASE e = "ENOENT"                           -> "NotFound"
      [] e \in {"EEXIST", "ENOTEMPTY"}          -> "Exists"
      [] e \in {"ENOTDIR", "EISDIR", "EACCES"}  -> "Forbidden"
      [] e = "ELOOP"                            -> "LoopDetected"
      [] e = "EINVAL"                           -> "GeneralFailure"
      [] e = "ENOSPC"                           -> "InsufficientStorage"
      [] OTHER                                  -> e
=============================================================================
