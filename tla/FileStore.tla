------------------------------ MODULE FileStore ------------------------------
(***************************************************************************)
(* What a file system with open handles promises the handlers, without     *)
(* nodes: the tree of resources by path, and for each handle the path its  *)
(* file has now.  A handle follows its file: renaming takes it along, and  *)
(* when the file is removed or replaced by a rename the handle is Gone and *)
(* reaches nothing any more.  A file is a sequence of bytes.               *)
(***************************************************************************)
EXTENDS FileTree, FileBytes

CONSTANTS Handles,      \* names for open files
          Closed,       \* a handle that is not open
          Gone,         \* where a handle's file is once it was removed
          Buffers,      \* what may be written at once
          MaxLen,       \* memory: no file can grow beyond this many bytes
          MaxPos        \* usize::MAX

VARIABLES tree,         \* path -> Dir or the bytes of the file
          fd            \* handle -> Closed, or where its file is and its position

vars == <<tree, fd>>

IsOpen(h) == fd[h] # Closed

\* The handles once what is at from, with all below it, has become to.
Followed(from, to) ==
    [h \in Handles |->
        IF ~IsOpen(h) \/ fd[h].at = Gone THEN fd[h]
        ELSE IF fd[h].at = to THEN [fd[h] EXCEPT !.at = Gone]
        ELSE IF Above(from, fd[h].at) THEN [fd[h] EXCEPT !.at = Rebase(@, from, to)]
        ELSE fd[h]]

-----------------------------------------------------------------------------
Init ==
    /\ tree = [p \in {Root} |-> Dir]
    /\ fd = [h \in Handles |-> Closed]

CreateDir(p) ==
    /\ CreateDirErrors(tree, p) = {}
    /\ tree' = With(tree, p, Dir)
    /\ UNCHANGED fd

Remove(p) ==
    /\ RemoveErrors(tree, p) = {}
    /\ tree' = Without(tree, p)
    /\ fd' = [h \in Handles |-> IF IsOpen(h) /\ fd[h].at = p
                                THEN [fd[h] EXCEPT !.at = Gone] ELSE fd[h]]

Rename(from, to) ==
    /\ RenameErrors(tree, from, to) = {}
    /\ tree' = Moved(tree, from, to)
    /\ fd' = Followed(from, to)

\* The copy takes the bytes; who has the destination open keeps it.
Copy(from, to) ==
    /\ CopyErrors(tree, from, to) = {}
    /\ tree' = With(tree, to, tree[from])
    /\ UNCHANGED fd

OpenFile(h, p, create, create_new, truncate, append) ==
    /\ ~IsOpen(h)
    /\ OpenErrors(tree, p, create, create_new) = {}
    /\ tree' = IF p \notin DOMAIN tree \/ truncate THEN With(tree, p, <<>>) ELSE tree
    /\ fd' = [fd EXCEPT ![h] = [at |-> p, pos |-> 0, append |-> append]]

Write(h, buf) ==
    LET f   == fd[h]
        pos == IF f.append THEN Len(tree[f.at]) ELSE f.pos
    IN  /\ IsOpen(h) /\ f.at # Gone
        /\ pos + Len(buf) <= MaxLen
        /\ tree' = [tree EXCEPT ![f.at] = Written(@, pos, buf)]
        /\ fd' = [fd EXCEPT ![h].pos = pos + Len(buf)]

\* Reading and seeking only move the position.
Reposition(h, pos) ==
    /\ IsOpen(h)
    /\ fd' = [fd EXCEPT ![h].pos = pos]
    /\ UNCHANGED tree

Close(h) ==
    /\ IsOpen(h)
    /\ fd' = [fd EXCEPT ![h] = Closed]
    /\ UNCHANGED tree

Next ==
    \/ \E p \in Paths : CreateDir(p) \/ Remove(p)
    \/ \E from, to \in Paths : Rename(from, to) \/ Copy(from, to)
    \/ \E h \in Handles :
         \/ \E p \in Paths, create, create_new, truncate, append \in BOOLEAN :
               OpenFile(h, p, create, create_new, truncate, append)
         \/ \E buf \in Buffers : Write(h, buf)
         \/ \E pos \in 0..MaxPos : Reposition(h, pos)
         \/ Close(h)

Spec == Init /\ [][Next]_vars
=============================================================================
