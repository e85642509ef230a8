------------------------------ MODULE FileTree ------------------------------
(***************************************************************************)
(* What a file system does to the tree of resources it serves (fs.rs), as  *)
(* MemFs does it (memfs.rs): each call takes the tree lock once, so it is  *)
(* one operator from a tree to an error or a next tree.  A tree is a       *)
(* function from the paths that exist to what is there: Dir, or the        *)
(* contents of a file.  Times, properties and sizes are not kept.          *)
(***************************************************************************)
EXTENDS DavPaths

CONSTANTS Contents,     \* what a file may hold
          Dir           \* marks a collection

ASSUME FileTreeAssumption == Dir \notin Contents

FsErrors == {"NotFound", "Exists", "Forbidden", "NoSpace"}

IsDir(f, p)  == p \in DOMAIN f /\ f[p] = Dir
IsFile(f, p) == p \in DOMAIN f /\ f[p] # Dir
Members(f, p) == {q \in DOMAIN f : q # Root /\ Parent(q) = p}

IsTree(f) ==
    /\ f \in [DOMAIN f -> Contents \cup {Dir}]
    /\ DOMAIN f \subseteq Paths
    /\ IsDir(f, Root)
    /\ \A p \in DOMAIN f : \A q \in Trail(p) \ {p} : IsDir(f, q)

\* lookup of a path that does not exist: a walk that meets a file cannot go on.
Missing(f, p) ==
    IF \E q \in Trail(p) : q # p /\ IsFile(f, q) THEN "Forbidden" ELSE "NotFound"

\* lookup_parent(p), for a p other than the root: the errors of finding the directory p is to be in.
ParentErrors(f, p) ==
    IF Parent(p) \notin DOMAIN f THEN {Missing(f, Parent(p))}
    ELSE IF IsFile(f, Parent(p)) THEN {"Forbidden"} ELSE {}

-----------------------------------------------------------------------------
(* The trees the calls make.                                               *)

With(f, p, entry) == [q \in DOMAIN f \cup {p} |-> IF q = p THEN entry ELSE f[q]]

Without(f, p) == [q \in DOMAIN f \ {p} |-> f[q]]

\* The place of q, at or below from, once from has become to.
Rebase(q, from, to) == to \o SubSeq(q, Len(from) + 1, Len(q))

\* The entry at from, with all below it, becomes the one at to.
Moved(f, from, to) ==
    LET moving == DOMAIN f \cap Subtree(from)
    IN  [q \in (DOMAIN f \ (moving \cup {to})) \cup {Rebase(r, from, to) : r \in moving} |->
            IF Above(to, q) THEN f[Rebase(q, to, from)] ELSE f[q]]

-----------------------------------------------------------------------------
(* The errors of each call; {} is success, and an error leaves the tree as *)
(* it was.  Paths is finite where TLC runs, so a path that would be longer *)
(* is refused with NoSpace.                                                *)

CreateDirErrors(f, p) ==
    IF ParentErrors(f, p) # {} THEN ParentErrors(f, p)
    ELSE IF p \in DOMAIN f THEN {"Exists"}
    ELSE IF p \notin Paths THEN {"NoSpace"} ELSE {}

\* Mistake: a collection goes although it has members.
RemoveErrorsMembersIgnored(f, p) ==
    IF p \notin DOMAIN f THEN {Missing(f, p)}
    ELSE IF p = Root THEN {"Forbidden"} ELSE {}

\* remove_file and remove_dir alike: MemFs looks at neither the kind of the
\* entry nor, for the root, anything else (Tree::delete_node).
RemoveErrors(f, p) ==
    IF p \notin DOMAIN f THEN {Missing(f, p)}
    ELSE IF p = Root \/ Members(f, p) # {} THEN {"Forbidden"} ELSE {}

\* do_open with write access
OpenErrors(f, p, create, create_new) ==
    IF p \in DOMAIN f
    THEN IF create_new THEN {"Exists"} ELSE IF IsDir(f, p) THEN {"Forbidden"} ELSE {}
    ELSE IF Missing(f, p) = "Forbidden" THEN {"Forbidden"}
    ELSE IF ~create THEN {"NotFound"}
    ELSE IF ParentErrors(f, p) # {} THEN ParentErrors(f, p)
    ELSE IF p \notin Paths THEN {"NoSpace"} ELSE {}

\* copy: of one file
CopyErrors(f, from, to) ==
    IF from \notin DOMAIN f THEN {Missing(f, from)}
    ELSE IF IsDir(f, from) THEN {"Forbidden"}
    ELSE OpenErrors(f, to, TRUE, FALSE)

\* rename of a path to another one; a file at the destination is replaced.
RenameErrors(f, from, to) ==
    IF from \notin DOMAIN f THEN {Missing(f, from)}
    ELSE IF ParentErrors(f, to) # {} THEN ParentErrors(f, to)
    ELSE IF IsDir(f, to) THEN {"Exists"}
    ELSE IF Above(from, to) THEN {"Forbidden"}
    ELSE IF \E q \in DOMAIN f \cap Subtree(from) : Rebase(q, from, to) \notin Paths
         THEN {"NoSpace"} ELSE {}
=============================================================================
