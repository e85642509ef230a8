# A TLA+ model of dav-server

This directory specifies the WebDAV server library in `src/`: what its parts
promise, what they do step by step, and where requests that run at the same time
can meet. TLC checks each model on small instances; the theorems in the
`*Proofs` modules are checked by TLAPS and hold for every value of the constants.

## The system

A `DavHandler` serves many requests at once. Each request runs one `handle_*`
method of `DavInner`, an async function that can be suspended at every `.await`
on the file system. What requests share is the file system and the lock system,
both trait objects; nothing else orders one request after another.

| Part | Source | State | Operations | What makes it correct |
|---|---|---|---|---|
| lock system trait | `ls.rs` | - | lock, unlock, refresh, check, discover, delete | the contract: incompatible locks are never held together |
| `MemLs` | `memls.rs` on `tree.rs` | a tree of nodes with locks, under one mutex | the trait, each call atomic, each but `delete` first drops expired locks | the contract; checks see exactly the locks that cover a path; tokens never revive |
| `FakeLs` | `fakels.rs` | token -> lock | the trait, but grants everything | excludes nobody, and still remembers what it gave out |
| node tree | `tree.rs` | `nodes: id -> {data, parent, children}`, `node_id` | add_child, delete_node, delete_subtree, move_node | ids fresh, every node linked once from its parent, no orphan, no dangling child |
| `MemFs` | `memfs.rs` on `tree.rs` | the tree and open handles (node id, position, append) | open, read, write, seek, create_dir, remove, rename, copy, props | a tree of files and directories; handles survive or fail, never reach another file |
| request handlers | `handle_*.rs` | local variables across awaits: metadata, tokens, "is new" | PUT, PATCH, DELETE, COPY, MOVE, MKCOL, LOCK, UNLOCK | locks respected, refused requests change nothing, cleanup undoes only the request's own work |
| conditional headers | `conditional.rs` | - | If, If-Match, If-None-Match, dates | RFC 7232 / 4918 evaluation |
| multistatus | `multierror.rs`, `async_stream.rs` | a one-slot cell between producer and body stream | send, poll | no item lost, doubled or reordered; single result collapses to a status |
| GET | `handle_gethead.rs` | file length read once, position | ranges, directory listing | body as announced, hidden entries stay hidden |
| properties | `handle_props.rs` | patch list, walk of the tree | PROPFIND, PROPPATCH | all or nothing; what is stored is found again; every resource listed once |
| CalDAV / CardDAV | `caldav.rs`, `carddav.rs`, `handle_caldav.rs`, `handle_carddav.rs`, `dav_filters.rs` | - | object validation, filters, free/busy, reports, MKCALENDAR | a report shows exactly what matches, in sight and in its collection |
| `LocalFs` | `localfs*.rs` | directory cache (macOS), name cache (Windows), batches of a directory read | the file system trait on a real one | nothing outside the served directory is touched, a cache never hides a file, a listing is complete |
| paths, headers, XML | `davpath.rs`, `davheaders.rs`, `xmltree_ext.rs`, `util.rs` | - | parsing and formatting | round trips, prefix handling |
| dispatch | `davhandler.rs`, `errors.rs`, `handle_options.rs`, `voidfs.rs` | configuration | merging, refusals, OPTIONS | what is advertised is accepted, what is not allowed never reaches a handler |
| adapters | `actix.rs`, `warp.rs`, `body.rs`, `lib.rs` | - | conversions of types | - |

What is hard here: the lock check of a handler and the change it guards are
separate awaits; a LOCK on an unmapped URL takes the lock before it creates the
file; failed requests clean up after themselves while other requests run;
recursive DELETE, COPY and MOVE touch many resources one at a time and their
bodies are produced lazily; locks expire by the clock between any two calls.

LocalFs adds threads: blocking calls run outside the executor, a directory is read
in batches while its stream is polled, and two caches that all requests share
answer for the disk. Responses are streams: a GET, a PROPFIND and a multistatus
are produced while the connection takes them and while other requests change
what they are about.

Two more things shape the models. Everything the in-memory parts do under their
mutex is one atomic step: `MemLs` takes its lock once per method (`memls.rs:56`
and on) and `MemFs` once per call (`memfs.rs:117`), so interleavings happen at
the `.await`s of the handlers and nowhere else (on LocalFs between blocking
calls, too). And no code
recovers from a restart, which loses the locks and, with MemFs, the resources;
what can be lost is the connection of a request, whose future is then dropped
at any of its awaits.

## The modules

The modules come in five groups. Each group has one instance for TLC (`MC…`).

### Locks, tree and handlers

| Module | Models | State and actions |
|---|---|---|
| `DavPaths` | paths as sequences of segments, parents and ancestry (`davpath.rs`, `path_to_segs`) | - |
| `Locks` | the `DavLock` record, what a lock covers, which locks are incompatible (`ls.rs`) | - |
| `LockTable` | what the trait `DavLockSystem` promises, when `delete` is not called with the root | `held`, the locks in force; Grant, Release, Refresh, Revoke, Elapse |
| `MemLs` | `memls.rs` on `tree.rs` | `nodes`: path of a node -> its locks; `issued`: tokens handed out; `now`; the constant `Deleted` has the paths `delete` is called with. One action per trait method; `check` and `discover` are `Query`, since both only prune |
| `FileTree` | the calls of `fs.rs` that change resources, as `memfs.rs` and `tree.rs` carry them out | operators: the errors of each call, and the tree it makes |
| `DavServer` | `handle_delete.rs`, `handle_copymove.rs`, `handle_put.rs`, `handle_mkcol.rs`, `handle_lock.rs`, the If header's part in them, dispatch of `davhandler.rs` | `fs`, the tree; `nodes`, `issued`, `now` of `MemLs`; `task`: connection -> the request's program counter, what it has read, and the stack of its recursive walk |
| `FileStore` | what a file system with open handles promises (`fs.rs`, traits `DavFileSystem` and `DavFile`) | `tree`: path -> Dir or bytes; `fd`: handle -> where its file is now, position, append |
| `MemFs` | `memfs.rs` on the arena of `tree.rs` | `nodes`: id -> parent, children by name, data; `node_id`; `files`: handle -> node id, position, append. One action per method of `DavFileSystem` and `DavFile` that changes any of them |
| `FileBytes` | bytes written over and read from bytes (`memfs.rs`) | operators |
| `Put` | `handle_put.rs` on one resource, with its bytes: from the metadata to the answer | `typed`, whether the parent is a calendar or address book; `file`, its id and bytes; `task`: connection -> the request, its plan, its handle, what it keeps for an undo. One action per call on the file system |
| `MCMemLs`, `MCMemFs`, `MCDavServer`, `MCPut` | - | the paths, and what each client may send |
| `FileTreeProofs`, `MemFsProofs`, `MemLsProofs`, `DavServerProofs`, `AloneProofs`, `AnswersProofs`, `PutProofs`, `LocalFsProofs` | - | theorems, see below |

`DavServer` instantiates `MemLs` on its own variables and EXTENDS `FileTree`, so
a step of a handler is one call on the file system or the lock system together
with the handler's code up to its next call. The walk of `delete_items` and
`do_copy` is a stack of frames, one per active call, each with the entries of
its directory that are left; the walk therefore acts on what it saw when it
read the directory, as the code does, and not on what is there now.

What is abstracted in `DavServer`: bytes (a file is told apart by the
connection that last opened it for writing), times, properties, the text of
requests and responses, symlinks, and the refusals about calendars inside
calendars. Calls on properties and markers appear where they can fail. Every
call that changes the tree may also fail for no reason the model shows when
`Faults` names it. `dav_alone` spares removals: a DELETE that fails half-way does
not end the locks of what it has removed (`TODO.md:27-30`), so `NoStrayLocks`
holds only without such failures. The If header is one list of state tokens about
one resource.

`MemFs` is written with ids where `FileTree` has paths, and the two are compared:
`AnswersAgree` checks that each call on the arena has the errors `FileTree`
gives for the tree by path, and `ImplementsFileStore` that the steps are those
of `FileStore`, which uses `FileTree`'s operators. `DavServer` stands on those
same operators. Times, properties and collection types are not kept; a handle
that is dropped is `close`.

`Put` looks at the same handler as `DavServer`'s actions of that method, from
the other side: one resource, no locks, but every byte. Calendar objects are
sequences in the constant `Valid`; a request is a body in frames with what its
headers say about it, true or not. The ghosts `before` and `alone` say what the
file was when the handler looked at it and whether anybody else has changed it
since: what success, refusal and validity promise is stated for requests that
were alone. The cleanup, and the limit on a write at a position, are stated for
those that were not, too; two appends at once may pass the limit together.

### LocalFs

| Module | Models | State and actions |
|---|---|---|
| `Disk` | the operating system's tree of directories, files and symbolic links, and what std::fs makes of it (external) | `disk`: path -> what is there; canonicalize as a walk that follows links |
| `Lru` | the bounded cache of the lru crate (external) | operators |
| `DirCache` | `LocalFsReadDir` and the cache of "._" files of macOS | `listing`: stream -> its iterator, batch, buffer, future; `du_cache`, `dir_id`, `mtime`; polls, the blocking batch, `finish`, `purge` |
| `NameCache` | the lookup of a name in any case (Windows) | `names`, its cache |
| `LocalFs` | `localfs.rs`: resolving and confining a path, then the call itself | `task`: client -> its call, resolved, between two blocking closures or answered; one action per call, rename with its second try |

A blocking closure is one step, since another request sees nothing of its
middle but through the disk's own calls; resolving the path (with the links on
it) is one step before it. So a link that appears between resolving and the
call is not in the model, and the instance's clients, like the trait, cannot
make links: those are the operator's. A system call may also fail by itself
(`FailsByItself`), at any try of a rename, and a copy may break off behind its
first bytes (`CopyBreaksOff`). A lookup of `NameCache` is one step; the
negative cache's is two, as its mutex is taken twice.

### Streams

| Module | Models | State and actions |
|---|---|---|
| `AsyncStream` | `async_stream.rs`: a future and a stream that share one slot | `stream`: each with its future, slot and last answer; Poll, Send, Await, Return, Wake |
| `MultiError` | `multierror.rs`: a handler's statuses become an answer | `multi`; the stream of statuses is polled by `multi_error` first and by the body then |
| `Visibility` | which names, markers and links a client may see (`handle_gethead.rs`) | operators |
| `PropFind` | the walk of PROPFIND (`handle_props.rs`) | `find`: the frames of the walk; `tree`, which others change |
| `GetHead` | `handle_gethead.rs` | `get`: the ranges and where the body stands; `file`: its length, which others change |
| `Answers` | the three kinds of streamed answer, one in each behaviour: what each step of `GetHead`, `MultiError` and `PropFind` does to the streams | those of the four modules |
| `MCAnswers`, `AnswersProofs` | - | files, paths and statuses for TLC; theorems |

A poll runs on one thread, but polls nest, so it is a sequence of steps. A byte
of a file is the offset it was read from, which tells whether it is where it
belongs.

### Rules without state

These modules are operators, each followed by the *laws* the instance checks on
all inputs of a small set. A law is not the definition again: it is what a
caller or an RFC relies on, stated by other means (sets of instants, every
order, two requests one after the other).

| Module | Models | Laws |
|---|---|---|
| `Conditional` | `conditional.rs`; entity tags and the If parser of `davheaders.rs` | a client that sends back what it has seen is stopped when that has changed; If is a disjunction of conjunctions in any order; what is parsed is what was written |
| `Dispatch` | `davhandler.rs`, `errors.rs`, `handle_options.rs`, `voidfs.rs` | what is not allowed reaches no handler, whoever configured it; what OPTIONS advertises is not refused |
| `Headers` | the server named by Destination | the same server is recognised however it is written, another one never |
| `FakeLs` | `fakels.rs` | after any calls, exactly the locks given out and not taken back are discovered |
| `TextMatch`, `Calendar` | `dav_filters.rs`, `caldav.rs` | a filter and its negation part the objects; overlap is a shared instant; busy time is right at each instant |
| `AddressBook` | `carddav.rs`, the queries of `handle_carddav.rs` | De Morgan between anyof and allof; both implementations of a filter agree; one entry meets all |
| `Reports` | `handle_caldav.rs`, `handle_carddav.rs`, `handle_mkcol.rs` | shown are objects of the collection, in sight, each once; what a query shows a multiget fetches; a failed MKCALENDAR leaves nothing |
| `Props` | `handle_props.rs` on dead properties as `memfs.rs` keeps them | PROPPATCH all or nothing; read back by name and by allprop; each property once |
| `MCAlgorithms` | - | chooses a law and an input |

## The runs

| Run | Instance | Shows |
|---|---|---|
| `memls` | the root, a collection, its member and a sibling; two tokens, two principals, a timeout of one tick; `delete` of all but the root | the lock tree stays a tree; no two incompatible locks; `lock`, `check`, `discover` and the search for a holder are exact; `MemLs` implements `LockTable`; what has ended stays ended |
| `memfs` | the root, two resources in it, each with a member; two handles; files of up to two bytes | the arena stays a tree whose listings are exact, answers agree with the tree by path; the arena implements `FileStore`: a handle follows its own file, and reaches no other once that is gone |
| `dav_alone` | one client that may send every method, with or without If header, Overwrite, Depth, If-None-Match, one request after another without end; calls other than removals may fail | no lock is left where nothing is; a COPY that reports success is complete |
| `dav_clients` | alice and bob on the same resources; alice: DELETE, PUT, MKCOL, MOVE, COPY, LOCK; bob: LOCK of either depth, refresh to a timeout of one tick, UNLOCK, MOVE with his token, MKCOL, PUT; failing calls | locks are respected through the whole of a walk, at source, destination and members; locks end only in the ways they may; a refused LOCK leaves nothing; COPY and MOVE lose nothing of the source; If-None-Match: * changes nothing old |
| `dav_ends` | COPY, MOVE and DELETE against PUT, MKCOL, LOCK and UNLOCK in the same place, failing calls, lost connections, fair scheduling | every request is answered |
| `put` | one client that sends one of thirty-five uploads and ranges, right and wrong, another that uploads or appends, on a resource that is absent, valid or not; calls that fail, lost connections, removal by others | success stores exactly what was asked; a refusal leaves the old bytes, but for a failing seek in a new file; what an undisturbed success stores in a calendar is valid; no write at a position passes the limit, and no append of a request that nobody disturbs; an invalid upload never touches the file |
| `localfs` | two clients on four disks: with links that lead out, in and nowhere; with names looked up in any case; for macOS, with two listings; with a single file served | nothing outside the served directory changes; a call that fails, while nobody else is at work, has changed nothing, or, when the system fails its rename's second try or its copy, the destination only; a lookup finds any spelling; a listing gives everything that stayed, once; a directory in the cache of "._" files knows what its listing saw |
| `answers` | a GET or HEAD with single and double ranges over files of 0 to 5 bytes that others cut and extend; a PROPFIND of every depth while others remove and create; a multistatus of up to three statuses | every item sent comes out once and in order; the body is as announced, byte by byte; a part that is begun is whole, whatever ranges a failing seek leaves out; listings show what is there, can be read and is not hidden; a member's failure is told; every answer ends |
| `algorithms` | 22 sets of inputs, one per law | the laws above |

Three runs show where the program and its documentation disagree: `negative_cache`
(`localfs_macos.rs:82`: a lookup is answered "not found" for a file that is
there all the time, because the two halves of the lookup are under the mutex
one after the other), `put_cleanup` (`handle_put.rs:438`: the cleanup of a
failed creation removes what another request has created) and `memls_root`
(`ls.rs:85`: `delete` of the root is to end the locks "at this path and below"
and keeps those on the root). The findings in
`PROJECT.json` quote the lines.

### Bounds

* Paths: the root, two resources in it and a member in one or both. This has
  every relation two paths can have (equal, parent, ancestor, sibling,
  unrelated) and a walk of two levels, which is where failures propagate through
  a caller and where a member can be locked on its own. A name beyond `Paths`
  is refused like a full disk.
* Tokens: two in `MemLs`, enough for every pair of locks; one at a time where
  handlers interleave, since each property speaks of one lock and one request.
  A LOCK arrives only when a token is left for it: the code's tokens are UUIDs
  and never run out.
* Clients: two. Each property relates one request to what happens between its
  steps; the second client is that environment, and goes on without end.
* `MaxNodes`: three nodes made in one run, the root among them: two resources
  in every relation, one replaced by the other, or lost and made again under
  another id; the code counts ids in 64 bits. `rename` moves nothing below what
  `Paths` has.
* `MaxLen`, `MaxPos`: files of two bytes: writes inside, at the end, across the
  end and after a gap, which is zero-filled. `MaxPos` stands for `usize::MAX`,
  and growing beyond `MaxLen` for a failed allocation.
* `Put`: one request per client, the second as the first one's environment; the
  properties relate one request to what happens between its steps. Up to two
  bytes are stored at first (`Stored`), `MaxResource` is two and `MaxPos` three,
  so bodies of three bytes pass the limit and ranges pass the end of what can be
  addressed. One call per request may fail by itself, in the requests of
  `Faulty`: with more, the undoing itself would fail, which the code only logs.
* `MaxTime`: one or two ticks after which the clock stops; timeouts of one tick
  expire before, between and after any other step.
* `LocalFs`: a client makes one call (macOS) or two, so that a call meets
  another one in any of its steps and what an earlier one left in a cache.
  Batches of two entries (256 in the code) make listings of several batches,
  caches of two (4 in `negative_cache`) overflow, `MaxMtime` allows two changes
  of a directory. Links are followed three times, more than any disk here needs.
* Streams: read buffers and zero buffers of two bytes against files of up to
  five make a range of several chunks; `MaxU64` is a number beyond every length.
  Two changes of the file or the tree happen at any step.
* `MCAlgorithms`: two letters in two cases, two values of a property, two
  components of a calendar, times 3 to 9 with days of four ticks and three
  occurrences expanded: the smallest sets in which each guard of the code
  decides both ways. The texts of If headers have up to six words, or seven when
  tagged.

### Fairness

`DavServer` assumes weak fairness of each connection's step: the executor polls
a future that can go on, which is what tokio and hyper do with a spawned
connection. Clients, the clock and lost connections are not fair, and no
property needs them to be. `Answers` assumes it of the steps of an answer: a
task that was woken is polled, what the file system was asked comes back, and
the connection takes what it is given; it assumes nothing of those who change
the file or the tree. The other specifications have no liveness property.

`CHECK_DEADLOCK FALSE` is in the runs where clients may stop sending, tokens
are used up, the clock has stopped, `MaxNodes` are made, every client of `put`
or `localfs` has its answer, or a response has ended: the real server waits
there, too.

## The proofs

`FileTreeProofs` has the order `Above` on paths: reflexive, transitive,
antisymmetric, with the ancestors of a path forming a chain. It then
shows that a call of `FileTree` without errors makes a tree of a tree: a new
file or directory, a removal, and a move of a whole subtree, for which it proves
that rebasing a path from the source to the destination can be undone and keeps
what is on the way to it.

`MemLsProofs` proves, for all paths, tokens, principals, timeouts and clocks,
that `MemLs` keeps its type, never holds incompatible locks, answers `lock`,
`check`, `discover` and lookups exactly, implements `LockTable`, and revives no
lock. The assumptions are those on the constants: `Paths` is a prefix-closed set of
sequences that has the root, timeouts are naturals, `Never` is none, `Deleted`
is among `Paths`. The refinement has the hypothesis `Root \notin Deleted`:
`delete` of the root keeps the root's own locks, and with it the contract is
broken, as `memls_root` shows.

`NoIncompatibleLocks` speaks of locks in force and is not inductive: `delete`
does not prune, and time passes without pruning. The invariant is

    IInv == TypeOK /\ Coherent(nodes) /\ (every stored token has been issued)

where `Coherent` says of every stored lock, expired or not, that no other one
has its token or is incompatible with it. It is inductive because each method
that adds or renews a lock prunes first and refuses on what is left. The lemmas
are about trees `n` in general: pruning, adding, removing and cutting a subtree
each give a lock tree with fewer or one more lock. With `IInv` the exactness
theorems are about one state: a walk to a path meets every lock that covers it
(`LocksOnCovers`), because every node's ancestors are nodes. The refinement maps
each method to one step of `LockTable`, or none, with the locks in force as the
image of the tree (`PrunedInForce`: pruning does not change them).

The rest is about `DavServer`, for any number of connections, any workload
(`ServerAssumption` only types it), any paths and any faults.

* `DavServerProofs`. `TasksSound` says which handler can be at which step, that
  its request is well-formed, and that a LOCK that goes on has been granted a
  token. It is inductive by itself, and makes every step of the server a step of
  `MemLs` or none (the lemma `ServerUsesLockSystem`, which carries the theorems about
  locks over to the server). Mutual
  exclusion of locks then holds in the server (`ServerLocksExclude`), through an
  instance of `MemLsProofs`.
* What a request may change. `WalksOK` says that each frame of a walk is at or under the
  target of its request (the source and the destination in step for a copy), its
  list included, and that source and destination of COPY and MOVE are apart. The
  invariant is

      ServerInv == TasksSound /\ WalksOK /\ IsTree(fs) /\ LS!IInv

  and gives `TypeOK`. `StepChanges` says what a step may do to the tree: make or
  replace one resource, remove one without members, or move one subtree, each in
  its target. `FreshChangesNothingOld` and `SourceSurvives` follow from it.
* What locks protect. The locks are checked once and a walk goes on long after, so
  `LocksRespected` needs an invariant about what a request may *still* change:

      Guarded == for each task: seen has only tokens that were issued, and every
                 exclusive lock stored that is in seen and covers a path
                 in its scope is its own

  `InScope` is that scope, from the program counter. It is inductive
  because a step narrows the scope of its request or leaves it (`StepFollows`),
  except the checks and the grant of a lock, which establish it with the
  exactness of `check` and `lock` (`CheckSourceFit`, `CheckFit`, `TakeLockFit`);
  and because other requests change no lock but its deadline (`LocksKeep`). A
  MOVE keeps what the first check said of its source while the second one looks
  at its destination, which is why `seen` is of the time of the first.

  How locks end needs three more conjuncts of `Guarded`. `MayEnd` says of which
  paths a request may still have the locks deleted: up to `delete` of the lock
  system, which comes after the resource is gone and therefore after `InScope`
  has narrowed. `Spared` says that each lock stored there, shared or not, that
  was there at the checks is the request's own, by token and principal, and
  `LocksEndOnlyByRight` follows for the locks that end with their resources; one
  that ends by UNLOCK has been named by its token, which is all the code asks
  for, and one that a LOCK gives back is the one it was granted. It uses the
  lemmas of `MemLsProofs` on `unlock` and `delete`
  (`UnlockEnds`, `LocksStay`). `Accounted` follows a LOCK with the lock it was
  granted: the token was issued and stands at the path of the request
  (`GrantPath`), nobody else holds it, and a request that has failed has given
  it back. That is `FailedLockLeavesNothing`, whatever ran at the same time.

* `AloneProofs` is about a server with one request at a time (`~Concurrent`, any
  number of connections), where a handler acts on what it was told.
  `NoLockIsStray` has the invariant

      LocksSettled == OneRunning
                      /\ for each task: what it was told of its paths is so
                      /\ each lock in force is on a resource, or its task will see to it

  A lock has an excuse (`Excuses`) while the walk of a DELETE is between the
  removal of its resource and `delete` of the lock system, while a MOVE or COPY has
  still to clear the locks, or while a LOCK has yet to create its resource
  or give the lock back. Its hypothesis `Steady` is what the run `MCDavAlone`
  has: removals do not fail of themselves, nobody drops a connection, and no DELETE
  takes the root with its members. Each of them is needed, see the last section.

  `CopiesAreComplete` needs none of these: any call may fail. Its invariant
  `CopiesGoWell` says of the stack of `do_copy` that every member of the source
  is `Copied`, or `Waits` in a list of a frame, or some frame has noted a failure
  (`Covered`), and that the destination holds copies only (`OnlyCopies`), since it
  has been cleared or was not there. When the last frame returns without a failure
  nothing waits, so that the copy is the whole source (`Place` is one to one).

`MemFsProofs` is about the arena, for any names, paths, buffers and handles.

* `Shape(n, at)` says that the arena `n` is exactly the tree of the paths of
  `at`, which gives the id of each path: every id has one path, its parent is the
  id of the path above, a directory, and its children are those of the paths
  below it, by name. `Where(nodes)` is what `lookup` finds, so the invariant

      Arena == TypeOK /\ Shape(nodes, Where(nodes))
                      /\ (each entry is a directory or bytes that fit)
                      /\ (the node of an open handle, while it is there, is a file)

  says that `lookup`, parent links and child links tell the same story.
  `ArenaIsTree` alone is too weak for the calls' answers: it allows nodes under
  names, and at depths, that no path leads to.
* `lookup` and the walk to the root of `move_node` are recursive functions of
  the length of a path (`LookupIs`, `AncestorsClimb`). What they compute takes
  induction over the naturals, which `Induction` proves from the well-foundedness
  of strict inclusion on finite sets.
* Each call gets a lemma for what it answers (`CreateAgrees` to `MoveAgrees`,
  together `AlwaysAgrees`) and one for the shape it leaves (`AddShape`,
  `DataShape`, `RemoveShape`, `MoveShape`): the arena after the call is that of
  the tree `FileTree` makes. For a rename, `Dest` is the place a path goes to,
  and `DestIs` shows that no two go to one place and that order and names stay.
* With both, `Implements` shows each step to be one of `FileStore`: a handle's
  place is the path of its id (`PlaceIn`), which a rename carries along and no
  other call moves, and an id whose node is gone is never given out again.

The assumptions: a closed handle is not an open one and a directory not bytes
(the constants that stand for them differ), and `rename` is called with two
different paths, to which `handle_copymove.rs:321` sees. The theorems about the
arena have one hypothesis more, `Root \notin Mkcols`: MKCOL of the root, which the
handler lets through, makes a member without a name, and no path leads to that.

`AnswersProofs` is about the streams, for any files, paths, requests and statuses.

* `AllFlow`: between two steps every slot is empty, and what was sent is what
  came out. A poll ends with the item of the send it ran into, and a future that
  has sent is not run again before the stream is polled again. `Delivery` is a
  part of it, for any number of streams that poll one another.
* `Telling`: a status taken from the handler is written or kept for the body, in
  order (`Consumed`, `Written`), and the end of the handler's stream is told
  apart from its failure. `TellsWhatHappened` needs it since each response is
  made a step after its status was taken, and the first two before the body is.
* `Walking`: the frames of a PROPFIND's walk hold members of directories that
  were written, in no two frames and not written themselves (`Ordered`,
  `Framing`), and what was there all the time is written, in a frame, under
  something that is or is being read, or at or below something that could not be read
  (`Complete`; `missed` is the record of that). At the end no frame is left,
  which gives `ListsWhatIsThere` for any tree and any changes meanwhile.
* `Getting` is about the body of a GET (`BodiesAreTrue`). What is said byte by byte
  is for a body that skipped no range (`SkipHolds`); that none is longer than
  announced, and that only a body of several ranges may skip one, holds of all
  (`NoLonger`, `LengthKept`). While a file is sent
  (`Sending`), what went out is what was promised without the `Rest`: the
  unsent part of this range and the ranges after it. `Follows` says so byte by
  byte, with zeros where the file was cut. For a byte to be from its own offset the
  position in the file must be the one that is sent; zeros do not move it, and
  `InPlace` has what is true then: the file ends there, or has grown again since.
  What was promised is stated from the request's bounds, and the handler's
  ranges are shown to be those for all lengths and bounds, also at the largest
  `u64`. While an index is sent (`Listing`), what went out is a prefix of its page; the
  rows are sorted by counting those that come before each (`Sorted`), which is a
  listing without repetition because `Before` is a total order. Bodies and
  ranges are joined by a fold, about which `FlattenAppend` says what is needed; it
  rests on `Induction`, as in `MemFsProofs`.

`GetAssumption` types the requests and has files shorter than the largest `u64`, and
the entries of an index finite in number, with different names.

`PutProofs` is about PUT and PATCH, for any clients and requests, lengths of
bodies, limits, failing calls, and connections dropped at any await.

* `IInv` has a part for each time. `Settled`, whatever others do: the plan is that
  of headers which were not refused, and a whole object of a calendar is past
  "stage" only if it is valid. `Quiet`, while no other request has touched the
  file: the handler knows what is in it. Until `open` it is what it was before, and that
  is kept for the undo; after each frame it is `Partial(t)`, the old bytes with
  those received so far written over them; what was read back is a prefix of it;
  and `flush` is reached only with the whole body or with too much.
* `Partial` needs bytes written twice to be bytes written once (`WritesJoin`,
  `WriteAppends`), and pieces that were read to join (`ReadsJoin`). What was
  received is a recursive function of the frames (`ReceivedIs`, by `Induction`),
  and the size that the limits are held against is that of the file to come
  (`SizeIsRight`). A new file gets an id that no file or handle has (`FreshIdIs`),
  because there are finitely many of them.
* `Placed` says where the handle stands from `open` to the first write, with the
  seek to the range's start in between, and whether the request made the file.
  A failing seek is answered at once: the old bytes are there, or nothing and then
  an empty file, the one case that `RefusedLeavesOld` leaves out.
* `UploadsAreExact`, `RefusalsUndo` and `StoredObjectsAreValid` follow from what
  each kind of step does to the invariant. Of a write at a position the limit is
  proved whatever others do; of an append only when it was alone, since the length
  it is measured by is read before the file is opened. `RejectsTouchNothing`
  follows from `Settled` alone, and so however requests interleave.

The assumption `PutAssumption` types the requests, has finitely many clients at a
time, and keeps the constants for "no file", "no bytes" and "no count" apart from
files, bytes and counts.

`LocalFsProofs` is about LocalFs, for any disk, setups, number of clients and
streams, size of batches and capacity of the caches.

* `ListingOk(r, macos)` is about one stream. Between the iterator, the batch that
  is read, the buffer and what was yielded no name is twice (`NothingTwice`) and
  nothing stands behind an error (`ErrorEnds`); an iterator at its end has given
  all that stayed, and a stream at its end has no batch left (`EndIsComplete`);
  the builder has the "._" names of what went through it (`Gathered`).
  `ListingsAreComplete` follows.
* `KnowsDirs` is about the cache: the entry of a directory stands before those of
  its files, all of one id. It is stronger than `CachedDirKnowsItsFiles`, and
  inductive where that one is not: whatever takes entries from the front - a full
  cache, a purge of the old ones - takes the directory first. A `put` of a later
  listing moves entries to the end; it is safe because ids are fresh (`StampsOk`)
  and because the directory's own entry is replaced before any of its files
  (`StoredSoFar`, by induction on the entries put). A directory's mark is its own
  path (`Mark`), since a `PathBuf` does not see a trailing ".", so for a "._" name
  it may be the key of a file in the parent's listing: where one takes the other's
  place, `TakenForDir` takes that file out of what `finished` remembers.

* `CallInv` is about the calls. The disk is a tree with links, which every system
  call keeps (`PutKeepsDisk`, `DropKeepsDisk`, `RenamedKeepsDisk`), and a call
  that nobody disturbed finds it as it left it. Only a rename takes several
  steps, and what it knows is the point: before it removes its destination both
  leaves are confined and the second try will succeed on what is left
  (`ClearedIs`), so that the tree gives no reason to fail. Where the system has one
  of its own, the destination is what is missing (`FailsByItselfAlone`), and a copy
  that breaks off has changed its destination only (`DoCopyWhere`). Together that is
  `FailingSparesTheRest`. It needs to be said of the disk that the paths are
  real ones (`CanonicalIs`, `ReachedIs`): what the first try was told of source and
  destination is still so without the destination.
* `Spelled(names)` says that the cache of names has paths under their own lower-case
  forms, no key twice; nothing is said of what the disk has, since entries
  go stale. That suffices: an entry is used only when its path exists, and where
  no two names differ in case only that is the path asked for (`GetFinds`,
  `LookupFinds`). The walk from the base follows the spelling of the disk, by induction on
  the segments (`FromBaseFinds`), and `ResolveFinds` joins the ways to an answer.

The assumptions: the directories, the base and the paths asked for are sequences,
the disks of the setups are trees (`IsDisk`), a share of a single file is not
case-insensitive (`LocalFs::new_file`), and the caches have room for one entry.

Only model-checked: the confinement of LocalFs (`OutsideUntouched`), that the parts
of a multipart body are whole (`PartsAreWhole`), and the rules of `algorithms`.
The second try of a rename uses paths that an earlier
step resolved, and a mark expects the collection to be the directory made just
before it; so `OutsideUntouched` is about the disks and calls of the instance,
whose links stay where they are. `CleanupRemovesOwn`, `SureDoesNotExist` and
`DeleteEndsAllBelow` do not hold, as their runs show. Liveness
(`EveryRequestEnds`, `AnswerEnds`) is out of the prover's reach.
So are RECURSIVE operators, and the library's induction theorems, which take an
operator as a parameter; induction over the naturals can be had without them
(`Induction`), but what the folds of `Calendar` and of the other rules compute
for every input is left to the laws of `algorithms`.

## What the models leave open

Things a reader of the code may want to know, found while modelling and not
stated as properties because the code does not promise otherwise, or a comment
accepts them.

Locks and resources

* `discover` yields no Depth: 0 lock of an ancestor (`memls.rs:420`), although a
  comment in `conditional.rs:112` speaks of all locks on the way.
* A LOCK granted after a request's check is not seen by that request
  (`handle_delete.rs:154`); `TODO.md:50-54` names it. `LocksRespected` speaks of
  locks granted before, and such a lock may be ended by the `delete` of the lock
  system that follows, its holder unasked; `LocksEndOnlyByRight` allows it.
* UNLOCK asks for the token and not for the principal (`memls.rs:103`).
* `delete` of the lock system on the root keeps the root's own locks
  (`memls_root`).
* A DELETE of the root removes all members and then fails at the root itself, so
  that it never comes to `delete` of the lock system (`handle_delete.rs:177`): the
  members' locks stay until they expire, as with any DELETE that fails half-way or
  whose connection is lost. `NoLockIsStray` excludes these by its hypothesis.
* `rename` of a file to its own path would lose it (`tree.rs:244`); the handlers
  refuse such a move (`Renames`).
* MKCOL of the root, which exists, is passed on (`handle_mkcol.rs:123`), and
  `MemFs` makes a collection with the empty name in it (`memfs.rs:193`) where the
  contract has "exists": the answer is 201 the first time and 405 after that.
  `AnswersAgree` fails then; the instance leaves the call out (`Mkcols`).
* Overwrite: F is compared with the destination's metadata once
  (`handle_copymove.rs:311`).
* Two PUTs at once may mix their bytes; each write lands whole. Two appends at once
  may pass the size limit together (`handle_put.rs:285`).
* A PUT or PATCH of a range whose seek fails is refused at once, with no undoing: a
  file that its open has just made stays, empty (`handle_put.rs:370`).
* A MKCALENDAR or MKADDRESSBOOK that is undone removes its marker files and then
  the directory (`handle_mkcol.rs:24`); that it does so by name, `Reports` has with
  the calls' failures, while the tree of `DavServer` has no marker files.
* A PATCH without bytes (Content-Length: 0) of a range that starts after 0, on a
  resource that is not there, succeeds and makes an empty one: no write follows
  the seek (`handle_put.rs:390`). With a byte in the range there is a gap of zeros
  in front of it. `SuccessIsExact` has a case for it.
* A connection that is lost drops its request at an await: a half-written object
  stays (`handle_put.rs:390`), and a lock taken for a new resource
  (`handle_lock.rs:168`) until it expires.
* MKCALENDAR marks the collection after it has made it; a PUT in between is not
  validated.

LocalFs

* `rename` of a directory onto a file removes the file and tries again; when the
  system refuses the second try for a reason of its own (a permission, an I/O error)
  the file is lost (`localfs.rs:712`). A copy that breaks off leaves what it wrote.
* The cache of "._" files has one key for a directory with such a name and for its
  entry in the parent's listing (`localfs_macos.rs:95`, `200`): after both were
  listed, an existing "._x" may be answered "not found".
* `rename` of a directory onto an empty one succeeds on Unix although
  `fs.rs:371` says it is an error.
* Links are resolved before the call; a link that comes to be there in between, made
  by the operator or moved by a rename, is not looked at again. No request of the
  server makes one.

Streams

* A file that is cut and grows again while it is sent puts bytes out of place,
  since zeros sent for the missing part do not move the position
  (`handle_gethead.rs:349`, `378`). The length is right even then.
* A suffix range longer than the file is passed over (200 with the whole file),
  one unsatisfiable range makes the whole request 416, and a read buffer size
  of 0 would send zeros.
* A range of several whose seek fails is left out of the body, with its header, and
  the answer ends well (`handle_gethead.rs:352`); when the first seek fails the answer
  is 416.
* A collection or an entry that exists but cannot be read is left out of a PROPFIND's
  207 without a word (`handle_props.rs:409`, `421`, `437`).
* With links shown, a cycle of links is bounded by the operating system only.
* PROPFIND reads the element `includes`; RFC 4918 calls it `include`.

Properties

* Win32LastModifiedTime is applied at once, even when the PROPPATCH then fails,
  and refused in an extended MKCOL. The other Win32 times and attributes are
  answered 200 and not stored.
* A property of the CalDAV or CardDAV namespace is stored but not always what a
  PROPFIND by name shows: calendar-timezone shows a constant. An allprop that
  includes calendar-description shows it twice.
* The entries "C:" and "CARD:" of the lists in `handle_props.rs:48-227` get no
  namespace and match nothing.
* On a file system without dead properties a PROPPATCH of one is 501 as a whole,
  unless a live property is refused first.
* An allprop shows Microsoft clients names that propname does not.
* The key of a dead property is its namespace and name put together
  (`memfs.rs:402`), so that two properties could share one.

Conditions, dispatch and headers

* In `</r> (A) (B)` the parser forgets the tag for `(B)`; RFC 4918 10.4 applies it
  to both. A "Not" before the end of a list is passed over.
* A change within the same second passes If-Unmodified-Since, and one within the
  clock's resolution that keeps the length keeps the entity tag (`fs.rs:1070`).
* PROPPATCH is never in Allow though it is accepted; answers 413 and 415 do not
  close the connection.
* A request with a Host header without port and a URL without scheme accepts any
  port in Destination, since its own is not known.
* `FakeLs` never drops an expired lock; a refresh of an unknown token answers
  from the token and stores nothing.

Calendars and address books

* A VTODO without start or with only a due date, and a period that starts at the
  end of another, follow the code, not the table of RFC 4791 9.9; the law is
  about VEVENT. An event whose end is before its start is not among the inputs.
* calendar-query does not expand recurrences, busy periods are not cut to the
  range, an event with more occurrences than the bound is expanded in part.
* Text matches of a filter without param-filter may be met by different entries
  of a vCard; the way a single filter is evaluated differs where an entry has no
  text.
* A query shows names with a dot that are hidden from direct requests only, which
  a multiget refuses.

## Not modelled

* Formatting: the text of values, HTML of a listing, XML of requests and
  answers, MIME types, prefixes, URL decoding, namespaces' prefixes, the
  splitting of header text into words.
* What libraries do: iCalendar and vCard text, time zones, recurrence rules, the
  HTTP server. They enter as inputs: sets of times, entries, words.
* LocalFs: the methods of open files, access times, sidecar files of
  properties, quota. Most are one system call each.
* What happens when a connection drops a stream before its end: nobody sees
  what it would have held.
* The framework adapters `actix.rs`, `warp.rs`, `body.rs`, `lib.rs`.
* Restarts. Locks and MemFs are in memory and go with the process; on LocalFs the
  resources stay and the locks go, and no code runs to recover anything.
