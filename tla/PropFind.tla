------------------------------ MODULE PropFind -------------------------------
(* handle_props.rs: PROPFIND walks the tree and writes a response for each *)
(* resource as it goes, in the body's stream. Others change the tree       *)
(* between two steps of the walk; what is gone by then is skipped.         *)
EXTENDS AsyncStream, Visibility, FiniteSets

CONSTANTS
    Nodes,          \* the paths there may be; those in Collections are directories
    Collections,
    FindRequests,   \* the requests sent: [path, depth, body, hide, infinity]
    MaxMoves        \* bound: changes of the tree by others

VARIABLES
    find,           \* the handler: its frames are the directories being read; missed
                    \* are the entries that were there and could not be read
    tree            \* what exists, and what always and ever did during the request

Infinity == 9
Above(path) == SubSeq(path, 1, Len(path) - 1)

\* close() writes the end of the document.
CloseTag == <<"</D:multistatus>">>

\* The resources are a tree: whatever is above one is a collection.
ASSUME FindAssumption ==
    /\ Nodes \subseteq Seq(STRING) /\ <<>> \in Nodes /\ CloseTag \notin Nodes
    /\ \A path \in Nodes : \A n \in 0..Len(path) - 1 : SubSeq(path, 1, n) \in Nodes \cap Collections
    /\ \A req \in FindRequests : req.depth \in {0, 1, Infinity} /\ req.hide \in HideOptions

Exists(path) == path \in tree.now
IsDir(path) == path \in Collections

FindInit(pc) ==
    \E req \in FindRequests :
        /\ find = [pc |-> pc, req |-> req, status |-> 0, frames |-> <<>>, next |-> <<>>,
                   missed |-> {}]
        /\ tree = [now |-> Nodes, always |-> Nodes, moves |-> 0]

FindsWith(status) == find' = [find EXCEPT !.pc = "done", !.status = status]

\* Until there is a response: the depth, the resource, and then the request's body.
Accept ==
    LET req == find.req
        refused == req.depth = Infinity /\ ~req.infinity
        found == ~HiddenPath(req.hide, req.path) /\ Exists(req.path)
    IN  /\ find.pc = "start"
        /\ \/ refused /\ FindsWith(403)
           \/ ~refused /\ ~found /\ FindsWith(404)
           \/ ~refused /\ found /\ req.body = "not a propfind" /\ FindsWith(400)
           \/ ~refused /\ found /\ req.body # "not a propfind"
              /\ find' = [find EXCEPT !.pc = "write", !.status = 207, !.next = req.path]
        /\ UNCHANGED <<stream, tree>>

PollFind == find.status = 207 /\ Poll(Body) /\ UNCHANGED <<find, tree>>

At(pc) == find.pc = pc /\ Runs(Body)

\* Writing waits for the properties and the locks of the resource.
FindAwaits == At("write") /\ Await(Body) /\ UNCHANGED <<find, tree>>

\* A plausible mistake: Depth: 1 is not told from Depth: infinity.
DescendsAlways(path) == IsDir(path) /\ find.req.depth # 0

\* Whether the walk goes into what was just written.
Descends(path) ==
    /\ IsDir(path)
    /\ find.req.depth = Infinity \/ (find.req.depth = 1 /\ path = find.req.path)

\* write_props() and flush().
WriteProps ==
    /\ At("write")
    /\ Send(Body, find.next)
    /\ find' = [find EXCEPT !.pc = IF Descends(find.next) THEN "read" ELSE "list"]
    /\ UNCHANGED tree

\* What the collection just written holds, nothing when it is gone by now
Members == {path \in tree.now \ {<<>>} : Exists(find.next) /\ Above(path) = find.next}

\* read_dir(): a collection that cannot be read, be it there or not, is taken
\* for an empty one.
ReadDirectory ==
    /\ At("read")
    /\ \/ find' = [find EXCEPT !.pc = "list", !.frames = Append(@, Members)]
       \/ find' = [find EXCEPT !.pc = "list", !.frames = Append(@, {}), !.missed = @ \cup Members]
    /\ UNCHANGED <<stream, tree>>

InFrame == Last(find.frames)
WithoutEntry(path) == [find.frames EXCEPT ![Len(find.frames)] = @ \ {path}]

\* An entry that is hidden, or that cannot be read: it is gone, or the listing
\* or its metadata fails on it.
SkipEntry ==
    /\ At("list") /\ find.frames # <<>>
    /\ \E path \in InFrame :
         LET fails == ~HiddenEntry(find.req.hide, "propfind", path) /\ Exists(path)
         IN  find' = [find EXCEPT !.frames = WithoutEntry(path), !.missed = IF fails THEN @ \cup {path} ELSE @]
    /\ UNCHANGED <<stream, tree>>

NextEntry ==
    /\ At("list") /\ find.frames # <<>>
    /\ \E path \in InFrame :
         /\ ~HiddenEntry(find.req.hide, "propfind", path) /\ Exists(path)
         /\ find' = [find EXCEPT !.pc = "write", !.next = path, !.frames = WithoutEntry(path)]
    /\ UNCHANGED <<stream, tree>>

EndDirectory ==
    /\ At("list") /\ find.frames # <<>> /\ InFrame = {}
    /\ find' = [find EXCEPT !.frames = Front(@)]
    /\ UNCHANGED <<stream, tree>>

\* close()
EndFind ==
    /\ \/ At("list") /\ find.frames = <<>> /\ Send(Body, CloseTag) /\ find' = [find EXCEPT !.pc = "close"]
       \/ At("close") /\ Return(Body, "ok") /\ UNCHANGED find
    /\ UNCHANGED tree

-----------------------------------------------------------------------------

OthersMove ==
    /\ find.status = 207 /\ ~Returned(stream[Body]) /\ tree.moves < MaxMoves
    /\ \E path \in Nodes \ {<<>>} :
         LET gone == {q \in tree.now : Len(q) >= Len(path) /\ SubSeq(q, 1, Len(path)) = path}
             now == IF Exists(path) THEN tree.now \ gone ELSE tree.now \cup {path}
         IN  /\ Exists(Above(path))
             /\ tree' = [now |-> now, always |-> tree.always \cap now, moves |-> tree.moves + 1]
    /\ UNCHANGED <<stream, find>>

FindNext ==
    \/ Accept \/ PollFind \/ FindAwaits \/ WriteProps \/ ReadDirectory
    \/ SkipEntry \/ NextEntry \/ EndDirectory \/ EndFind \/ OthersMove

-----------------------------------------------------------------------------

\* What a request is about: what is within its depth and shown to clients. A
\* listing does not show what lies below something it hides.
InScope(req) ==
    LET base == req.path
    IN  {path \in Nodes :
            /\ Len(path) >= Len(base) /\ SubSeq(path, 1, Len(base)) = base
            /\ req.depth = Infinity \/ Len(path) <= Len(base) + req.depth
            /\ \A n \in Len(base) + 1..Len(path) :
                  ~HiddenEntry(req.hide, "propfind", SubSeq(path, 1, n))}

\* The answer names each resource once, a collection before its members, and
\* only what is in scope. Whatever was there all the time the answer was
\* written is named, whatever happened to the rest of the tree: but an entry
\* that could not be read is left out with all that is below it, and the answer
\* does not say so.
ListsWhatIsThere ==
    LET got == stream[Body].got
        named == {i \in DOMAIN got : got[i] # CloseTag}
        hide == [find.req.hide EXCEPT !.dots = IF @ = "Always" THEN @ ELSE "Never"]
    IN  find.pc # "idle" =>
        /\ \A i, j \in named : i # j => got[i] # got[j]
        /\ \A i \in named :
              /\ got[i] \in InScope(find.req) /\ ~HiddenPath(hide, got[i])
              /\ got[i] # find.req.path => \E j \in 1..i - 1 : got[j] = Above(got[i])
        /\ stream[Body].answer = "none" =>
              \A path \in InScope(find.req) \cap tree.always :
                  \/ path \in {got[i] : i \in named}
                  \/ \E n \in Len(find.req.path) + 1..Len(path) : SubSeq(path, 1, n) \in find.missed
=============================================================================
