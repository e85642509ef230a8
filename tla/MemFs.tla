-------------------------------- MODULE MemFs --------------------------------
(***************************************************************************)
(* The in-memory file system (memfs.rs) on the arena of tree.rs: nodes     *)
(* have ids that are never used again, a node knows its parent and its     *)
(* children by name, and an open handle holds the id of its file's node    *)
(* with a position.  Every call takes the mutex once, so each is atomic.   *)
(* Calls that fail leave the arena as it was and show only in the answers  *)
(* (AnswersAgree).  Times, properties and collection types are not kept.   *)
(***************************************************************************)
EXTENDS FileTree, Integers, FiniteSets, TLC

CONSTANTS Handles, Closed, Gone, Buffers, MaxLen, MaxPos,    \* see FileStore
          Renames,      \* the pairs of paths rename is called with: never one path twice
          Mkcols,       \* the paths create_dir is called with
          MaxNodes      \* nodes made in one run; the code's ids are 64 bits

ASSUME MemFsAssumption ==
    /\ MaxLen \in Nat /\ MaxPos \in Nat /\ MaxNodes \in Nat
    /\ Buffers \subseteq Seq(Nat)
    /\ Gone \notin Paths
    /\ Closed \notin [node_id : Nat, pos : Nat, append : BOOLEAN]
    /\ Closed \notin [at : Paths \cup {Gone}, pos : Nat, append : BOOLEAN]
    /\ Dir \notin Seq(Nat)
    /\ Renames \subseteq {pair \in Paths \X Paths : pair[1] # pair[2]}
    /\ Mkcols \subseteq Paths

VARIABLES nodes,        \* id -> node
          node_id,      \* the next id
          files         \* handle -> Closed, or the MemFsFile

vars == <<nodes, node_id, files>>

ROOT_ID == 1
NO_PARENT == 0
NoName == "no name"     \* the empty file_name of the root

NewNode(parent, data) == [parent |-> parent, data |-> data, children |-> <<>>]

Init ==
    /\ nodes = [id \in {ROOT_ID} |-> NewNode(NO_PARENT, Dir)]
    /\ node_id = ROOT_ID + 1
    /\ files = [h \in Handles |-> Closed]

-----------------------------------------------------------------------------
(* The tree: tree.rs.                                                      *)

IsDirNode(n, id) == n[id].data = Dir

file_name(p) == IF p = Root THEN NoName ELSE p[Len(p)]

\* lookup(p): the id of the node at p; NO_PARENT stands for an error.
Lookup(n, p) ==
    LET Child(id, seg) == IF id \notin DOMAIN n \/ seg \notin DOMAIN n[id].children
                          THEN NO_PARENT ELSE n[id].children[seg]
        at[i \in 0..Len(p)] == IF i = 0 THEN ROOT_ID ELSE Child(at[i - 1], p[i])
    IN  at[Len(p)]

\* A walk ends in Forbidden when it has to go on from a file.
LookupErrors(n, p) ==
    IF Lookup(n, p) # NO_PARENT THEN {}
    ELSE IF \E i \in 1..Len(p) - 1 :
              LET id == Lookup(n, SubSeq(p, 1, i)) IN id # NO_PARENT /\ ~IsDirNode(n, id)
         THEN {"Forbidden"} ELSE {"NotFound"}

LookupParentErrors(n, p) ==
    IF LookupErrors(n, Parent(p)) # {} THEN LookupErrors(n, Parent(p))
    ELSE IF IsDirNode(n, Lookup(n, Parent(p))) THEN {} ELSE {"Forbidden"}

\* add_child, for a name that is not taken
WithChild(n, parent, name, id, data) ==
    With([n EXCEPT ![parent].children = With(@, name, id)], id, NewNode(parent, data))

\* Mistake: the parent keeps the link.
UnlinkedNever(n, id) == n

\* delete_node_from_parent
Unlinked(n, id) ==
    LET kept == {name \in DOMAIN n[n[id].parent].children :
                   n[n[id].parent].children[name] # id}
    IN  [n EXCEPT ![n[id].parent].children = [name \in kept |-> @[name]]]

Dropped(n, ids) == [id \in DOMAIN n \ ids |-> n[id]]

\* The node itself and all above it.
Ancestors(n, id) ==
    LET up[i \in 0..Cardinality(DOMAIN n)] ==
          IF i = 0 THEN id
          ELSE IF up[i - 1] = NO_PARENT THEN NO_PARENT ELSE n[up[i - 1]].parent
    IN  {up[i] : i \in 0..Cardinality(DOMAIN n)} \ {NO_PARENT}

\* Mistake: a node that is replaced stays in the arena.
MovedNodeKept(n, id, parent, name) ==
    LET moved == [Unlinked(n, id) EXCEPT ![id].parent = parent]
    IN  [moved EXCEPT ![parent].children = With(@, name, id)]

\* move_node with overwrite: what the new name led to, looked up first, is
\* dropped after the node was unlinked and before it is linked again.
MovedNode(n, id, parent, name) ==
    LET replaced == IF name \in DOMAIN n[parent].children
                    THEN {n[parent].children[name]} ELSE {}
        moved    == [Unlinked(n, id) EXCEPT ![id].parent = parent]
    IN  [Dropped(moved, replaced) EXCEPT ![parent].children = With(@, name, id)]

-----------------------------------------------------------------------------
(* The calls on paths: memfs.rs.  Each is its errors, {} being success,    *)
(* and the arena it makes.                                                 *)

CreateErrors(n, p) ==
    IF LookupParentErrors(n, p) # {} THEN LookupParentErrors(n, p)
    ELSE IF file_name(p) \in DOMAIN n[Lookup(n, Parent(p))].children THEN {"Exists"} ELSE {}

DeleteErrors(n, p) ==
    IF LookupParentErrors(n, p) # {} THEN LookupParentErrors(n, p)
    ELSE IF LookupErrors(n, p) # {} THEN LookupErrors(n, p)
    ELSE IF Lookup(n, p) = ROOT_ID \/ n[Lookup(n, p)].children # <<>> THEN {"Forbidden"} ELSE {}

\* Mistake: a collection may be moved into itself.
MoveErrorsNoWalk(n, from, to) ==
    LET id == Lookup(n, from)
    IN  IF LookupErrors(n, from) # {} THEN LookupErrors(n, from)
        ELSE IF LookupParentErrors(n, from) # {} THEN LookupParentErrors(n, from)
        ELSE IF LookupParentErrors(n, to) # {} THEN LookupParentErrors(n, to)
        ELSE IF LookupErrors(n, to) = {} /\ IsDirNode(n, Lookup(n, to)) THEN {"Exists"}
        ELSE IF id = ROOT_ID THEN {"Forbidden"} ELSE {}

MoveErrors(n, from, to) ==
    LET id     == Lookup(n, from)
        parent == Lookup(n, Parent(to))
    IN  IF LookupErrors(n, from) # {} THEN LookupErrors(n, from)
        ELSE IF LookupParentErrors(n, from) # {} THEN LookupParentErrors(n, from)
        ELSE IF LookupParentErrors(n, to) # {} THEN LookupParentErrors(n, to)
        ELSE IF LookupErrors(n, to) = {} /\ IsDirNode(n, Lookup(n, to)) THEN {"Exists"}
        ELSE IF id = ROOT_ID \/ id \in Ancestors(n, parent) THEN {"Forbidden"} ELSE {}

DoOpenErrors(n, p, create, create_new) ==
    LET errors == LookupErrors(n, p)
    IN  IF errors = {}
        THEN IF create_new THEN {"Exists"}
             ELSE IF IsDirNode(n, Lookup(n, p)) THEN {"Forbidden"} ELSE {}
        ELSE IF errors # {"NotFound"} \/ ~create THEN errors
        ELSE LookupParentErrors(n, p)

\* do_open: a missing file is made with the next id.
DoOpen(n, p, truncate) ==
    IF Lookup(n, p) = NO_PARENT
    THEN WithChild(n, Lookup(n, Parent(p)), file_name(p), node_id, <<>>)
    ELSE IF truncate THEN [n EXCEPT ![Lookup(n, p)].data = <<>>] ELSE n

CopyFileErrors(n, from, to) ==
    IF LookupErrors(n, from) # {} THEN LookupErrors(n, from)
    ELSE IF IsDirNode(n, Lookup(n, from)) THEN {"Forbidden"}
    ELSE DoOpenErrors(n, to, TRUE, FALSE)

\* The id is used up when a node was made; MaxNodes bounds the model.
Counted ==
    /\ node_id' = IF node_id \in DOMAIN nodes' THEN node_id + 1 ELSE node_id
    /\ node_id' <= MaxNodes + 1

create_dir(p) ==
    /\ CreateErrors(nodes, p) = {}
    /\ nodes' = WithChild(nodes, Lookup(nodes, Parent(p)), file_name(p), node_id, Dir)
    /\ Counted
    /\ UNCHANGED files

\* remove_file and remove_dir are the same code.
remove(p) ==
    /\ DeleteErrors(nodes, p) = {}
    /\ nodes' = Dropped(Unlinked(nodes, Lookup(nodes, p)), {Lookup(nodes, p)})
    /\ UNCHANGED <<node_id, files>>

\* Paths is finite where TLC runs: nothing is moved further down than that.
FitsPaths(from, to) ==
    \A q \in Paths \cap Subtree(from) :
        LookupErrors(nodes, q) = {} => Rebase(q, from, to) \in Paths

rename(from, to) ==
    /\ FitsPaths(from, to)
    /\ MoveErrors(nodes, from, to) = {}
    /\ nodes' = MovedNode(nodes, Lookup(nodes, from), Lookup(nodes, Parent(to)), file_name(to))
    /\ UNCHANGED <<node_id, files>>

\* Mistake: the copy replaces the node that was at the destination.
copyFresh(from, to) ==
    /\ CopyFileErrors(nodes, from, to) = {}
    /\ LET dest == Lookup(nodes, to)
           rest == IF dest = NO_PARENT THEN nodes ELSE Dropped(Unlinked(nodes, dest), {dest})
       IN  nodes' = WithChild(rest, Lookup(nodes, Parent(to)), file_name(to), node_id,
                              nodes[Lookup(nodes, from)].data)
    /\ Counted
    /\ UNCHANGED files

copy(from, to) ==
    /\ CopyFileErrors(nodes, from, to) = {}
    /\ LET opened == DoOpen(nodes, to, FALSE)
       IN  nodes' = [opened EXCEPT ![Lookup(opened, to)].data =
                        opened[Lookup(opened, from)].data]
    /\ Counted
    /\ UNCHANGED files

open(h, p, create, create_new, truncate, append) ==
    /\ files[h] = Closed
    /\ DoOpenErrors(nodes, p, create, create_new) = {}
    /\ nodes' = DoOpen(nodes, p, truncate)
    /\ Counted
    /\ files' = [files EXCEPT ![h] =
                    [node_id |-> Lookup(nodes', p), pos |-> 0, append |-> append]]

-----------------------------------------------------------------------------
(* The calls on a handle.  Every one fails once the node is gone.          *)

HasFile(h) == files[h] # Closed /\ files[h].node_id \in DOMAIN nodes

\* grow_to fills with zeros up to end, then the bytes go in at pos.
Grown(data, end) ==
    [i \in 1..(IF end > Len(data) THEN end ELSE Len(data)) |->
        IF i <= Len(data) THEN data[i] ELSE 0]

Filled(data, pos, buf) ==
    LET grown == Grown(data, pos + Len(buf))
    IN  [i \in DOMAIN grown |-> IF i \in pos + 1..pos + Len(buf) THEN buf[i - pos] ELSE grown[i]]

\* In append mode every write starts at the end the file has now.
WritePos(file, data) == IF file.append THEN Len(data) ELSE file.pos

\* write_bytes and write_buf: checked_add and the allocation may fail; the
\* position of an appending handle has moved by then.
write(h, buf) ==
    LET f   == files[h]
        old == nodes[f.node_id].data
        pos == WritePos(f, old)
        end == pos + Len(buf)
    IN  /\ HasFile(h)
        /\ IF end > MaxPos \/ end > MaxLen
           THEN /\ files' = [files EXCEPT ![h].pos = pos]
                /\ UNCHANGED nodes
           ELSE /\ files' = [files EXCEPT ![h].pos = end]
                /\ nodes' = [nodes EXCEPT ![f.node_id].data = Filled(old, pos, buf)]
        /\ UNCHANGED node_id

\* The bytes a read of count returns: none past the end.
ReadBytes(file, data, count) ==
    LET len == Len(data)
        start == IF file.pos > len THEN len ELSE file.pos
        end == IF file.pos + count > len THEN len ELSE file.pos + count
    IN  SubSeq(data, start + 1, end)

read(h, count) ==
    /\ HasFile(h)
    /\ files' = [files EXCEPT ![h].pos =
                    @ + Len(ReadBytes(files[h], nodes[files[h].node_id].data, count))]
    /\ UNCHANGED <<nodes, node_id>>

\* Mistake: the offset is added without looking.
seekUnchecked(h, from, offset) ==
    LET base == CASE from = "start"   -> 0
                  [] from = "current" -> files[h].pos
                  [] from = "end"     -> Len(nodes[files[h].node_id].data)
    IN  /\ files[h] # Closed
        /\ from = "end" => HasFile(h)
        /\ files' = [files EXCEPT ![h].pos = base + offset]
        /\ UNCHANGED <<nodes, node_id>>

\* seek: Start needs no node; Current and End fail outside 0..usize::MAX.
seek(h, from, offset) ==
    LET base == CASE from = "start"   -> 0
                  [] from = "current" -> files[h].pos
                  [] from = "end"     -> Len(nodes[files[h].node_id].data)
    IN  /\ files[h] # Closed
        /\ from = "end" => HasFile(h)
        /\ base + offset \in 0..MaxPos
        /\ files' = [files EXCEPT ![h].pos = base + offset]
        /\ UNCHANGED <<nodes, node_id>>

close(h) ==
    /\ files[h] # Closed
    /\ files' = [files EXCEPT ![h] = Closed]
    /\ UNCHANGED <<nodes, node_id>>

Next ==
    \/ \E p \in Mkcols : create_dir(p)
    \/ \E p \in Paths : remove(p)
    \/ \E pair \in Renames : rename(pair[1], pair[2])
    \/ \E from, to \in Paths : copy(from, to)
    \/ \E h \in Handles :
         \/ \E p \in Paths, create, create_new, truncate, append \in BOOLEAN :
               open(h, p, create, create_new, truncate, append)
         \/ \E buf \in Buffers : write(h, buf)
         \/ \E count \in 1..MaxLen : read(h, count)
         \/ \E from \in {"start", "current", "end"}, offset \in -MaxLen..MaxPos :
               seek(h, from, offset)
         \/ close(h)

Spec == Init /\ [][Next]_vars
-----------------------------------------------------------------------------
(* Properties.                                                             *)

IsNode(node) ==
    /\ node.parent \in Nat
    /\ node.data \in Seq(Nat) \cup {Dir}
    /\ DOMAIN node.children \subseteq Names \cup {NoName}

TypeOK ==
    /\ node_id \in Nat
    /\ DOMAIN nodes \subseteq ROOT_ID..node_id - 1
    /\ \A id \in DOMAIN nodes : IsNode(nodes[id])
    /\ files \in [Handles -> {Closed} \cup [node_id : ROOT_ID..node_id - 1, pos : 0..MaxPos,
                                            append : BOOLEAN]]

\* The arena, well-typed, is a tree: every node but the root has exactly one link, from
\* its parent, and every link leads to a node; all nodes are below the root.
ArenaIsTree ==
    /\ TypeOK
    /\ \A id \in DOMAIN nodes \ {ROOT_ID} :
         /\ nodes[id].parent \in DOMAIN nodes
         /\ ROOT_ID \in Ancestors(nodes, id)
         /\ \E name \in DOMAIN nodes[nodes[id].parent].children :
               nodes[nodes[id].parent].children[name] = id
    /\ \A id \in DOMAIN nodes : \A name \in DOMAIN nodes[id].children :
         LET child == nodes[id].children[name]
         IN  /\ child \in DOMAIN nodes
             /\ nodes[child].parent = id
             /\ IsDirNode(nodes, id)
             /\ \A other \in DOMAIN nodes[id].children \ {name} :
                   nodes[id].children[other] # child

\* The tree by path, as requests see it.
Resources ==
    [p \in {q \in Paths : Lookup(nodes, q) \in DOMAIN nodes} |-> nodes[Lookup(nodes, p)].data]

\* Each call answers as the file system's contract does on that tree, and a
\* listing names exactly the members: each can be reached by its name.
AnswersAgree ==
    /\ \A p \in Mkcols : CreateErrors(nodes, p) = CreateDirErrors(Resources, p)
    /\ \A p \in Paths : DeleteErrors(nodes, p) = RemoveErrors(Resources, p)
    /\ \A p \in Paths, create, create_new \in BOOLEAN :
         DoOpenErrors(nodes, p, create, create_new) = OpenErrors(Resources, p, create, create_new)
    /\ \A p, q \in Paths : CopyFileErrors(nodes, p, q) = CopyErrors(Resources, p, q)
    /\ \A pair \in Renames : FitsPaths(pair[1], pair[2]) =>
         MoveErrors(nodes, pair[1], pair[2]) = RenameErrors(Resources, pair[1], pair[2])
    /\ \A p \in Paths : IsDir(Resources, p) =>
         DOMAIN nodes[Lookup(nodes, p)].children = {file_name(q) : q \in Members(Resources, p)}

\* Where the file of a handle is now.
Place(h) ==
    IF files[h] = Closed THEN Closed
    ELSE [at |-> IF HasFile(h) THEN CHOOSE p \in Paths : Lookup(nodes, p) = files[h].node_id
                 ELSE Gone,
          pos |-> files[h].pos, append |-> files[h].append]

FS == INSTANCE FileStore WITH tree <- Resources, fd <- [h \in Handles |-> Place(h)]

\* The arena implements the file store: every handle follows its own file
\* through renames and copies, and reaches no other once it is removed.
ImplementsFileStore == FS!Spec
=============================================================================
