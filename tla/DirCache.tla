------------------------------ MODULE DirCache ------------------------------
(***************************************************************************)
(* Listing a directory of LocalFs (LocalFsReadDir of localfs.rs), and the  *)
(* cache of the "._" files that listings saw, from which a lookup of such  *)
(* a file may be answered without the disk (localfs_macos.rs).  Batches    *)
(* are read by a blocking task while the stream is polled; the cache is    *)
(* under one mutex that is taken anew for each step that uses it.          *)
(***************************************************************************)
EXTENDS Disk, Lru

CONSTANTS Listings,     \* streams that read_dir may return
          Dirs,         \* the directories that are listed
          DotNames,     \* the names that start with "._"
          BatchSize,    \* entries read at a time: 256
          DirEntries,   \* DU_CACHE_ENTRIES
          MaxMtime      \* bound: changes of one directory

ASSUME DirCacheAssumption ==
    /\ BatchSize \in Nat \ {0} /\ DirEntries \in Nat \ {0} /\ MaxMtime \in Nat
    /\ \A d \in Dirs : d \in Seq(ToSet(d))

VARIABLES inner,        \* LocalFsInner: how this file system was set up
          disk,
          mtime,        \* modification times of Dirs
          du_cache,     \* DU_CACHE: path -> [id, mtime], in the order of use
          dir_id,       \* DIR_ID
          listing,      \* Listings -> LocalFsReadDir
          finished      \* history: id -> the "._" files of the listing with that id, but for
                        \* those whose entry in the cache was since taken for a directory's own

dirvars == <<inner, disk, mtime, du_cache, dir_id, listing, finished>>

\* What a stream yields: the name of an entry, or that it could not be read.
Item(n) == [ok |-> n]
ErrItem == [err |-> "could not be read"]
NamesOf(items) == {x.ok : x \in ToSet(items) \ {ErrItem}}

\* fut is "none", "running" while the batch is read, or "ready".  The names stable and seen are the
\* disk's side: what the directory had all the time, and what its iterator gave out.
Idle == [pc |-> "idle", dir |-> <<>>, iter |-> "none", fut |-> "none", batch |-> <<>>,
         buffer |-> <<>>, built |-> <<>>, stamp |-> <<>>,
         stable |-> {}, ever |-> {}, seen |-> {}, yielded |-> <<>>]

DirInit ==
    /\ mtime = [d \in Dirs |-> 0]
    /\ du_cache = <<>>
    /\ dir_id = 1
    /\ listing = [l \in Listings |-> Idle]
    /\ finished = <<>>

-----------------------------------------------------------------------------
(* The disk changes: directories get a new time.                           *)

Touched(new) ==
    [d \in Dirs |-> IF inner.macos /\ NamesIn(new, d) # NamesIn(disk, d)
                    THEN mtime[d] + 1 ELSE mtime[d]]

Change(new) ==
    /\ disk' = new
    /\ mtime' = Touched(new)
    /\ \A d \in Dirs : Touched(new)[d] <= MaxMtime
    /\ listing' = [l \in Listings |->
                     IF listing[l].pc # "open" THEN listing[l]
                     ELSE [listing[l] EXCEPT !.stable = @ \cap NamesIn(new, listing[l].dir),
                                             !.ever = @ \cup NamesIn(new, listing[l].dir)]]

-----------------------------------------------------------------------------
(* DUCacheBuilder and DUCache                                              *)

\* The directory's own key.  As a PathBuf, d with "." pushed onto it equals and hashes like d: a
\* directory of a "._" name has one key as a directory and as an entry of its parent.
Mark(d) == d

\* History: the entry at p, if it was one of a file, is gone or is a directory's now.
TakenForDir(fin, p) ==
    [id \in DOMAIN fin |->
        [fin[id] EXCEPT !.names = {n \in @ : Append(fin[id].dir, n) # p}]]

\* add: the names of a batch that matter
AddNames(built, items) ==
    LET added[i \in 0..Len(items)] ==
            IF i = 0 THEN built
            ELSE IF items[i] # ErrItem /\ items[i].ok \in DotNames
            THEN Append(added[i - 1], items[i].ok) ELSE added[i - 1]
    IN  added[Len(items)]

StoreAll(c, keys, stamp) ==
    LET put[i \in 0..Len(keys)] ==
            IF i = 0 THEN c ELSE PutEntry(put[i - 1], keys[i], stamp, DirEntries)
    IN  put[Len(keys)]

FilesOf(d, built) == [i \in DOMAIN built |-> Append(d, built[i])]

\* Mistake: the files first, the directory's own entry last.
FilesFirst(c, d, built, stamp) == StoreAll(c, FilesOf(d, built) \o <<Mark(d)>>, stamp)

\* finish, under the lock: the directory's own entry, then its files
Stored(c, d, built, stamp) == StoreAll(c, <<Mark(d)>> \o FilesOf(d, built), stamp)

\* negative, the last part: does a file that is missing from the cache not exist?
Denies(c, p, id) == ~Has(c, p) \/ Peek(c, p).id # id

-----------------------------------------------------------------------------
(* The stream                                                              *)

\* read_dir has followed the path to the directory d.
ReadDir(l, d) ==
    /\ listing[l].pc = "idle"
    /\ d \in Dirs /\ Kind(disk, d) = "dir"
    /\ listing' = [listing EXCEPT ![l] = [Idle EXCEPT
            !.pc = "open", !.dir = d, !.iter = "some",
            !.stable = NamesIn(disk, d), !.ever = NamesIn(disk, d)]]
    /\ UNCHANGED <<inner, disk, mtime, du_cache, dir_id, finished>>

\* poll_next with nothing in the buffer makes a future, and the iterator moves into it.
PollStart(l) ==
    /\ listing[l].pc = "open" /\ listing[l].buffer = <<>> /\ listing[l].fut = "none"
    /\ listing[l].iter # "none"
    /\ listing' = [listing EXCEPT ![l].fut = "running"]
    /\ UNCHANGED <<inner, disk, mtime, du_cache, dir_id, finished>>

\* What the iterator gives next: names not given before, that the directory has or had since.
\* It ends once it gave every name that was there all the time, and stays at its end.
Batches(r) ==
    LET new == r.ever \ r.seen
        some == {s \in UNION {[1..n -> new] : n \in 0..BatchSize} :
                    \A i, j \in DOMAIN s : i # j => s[i] # s[j]}
        items(s) == [i \in DOMAIN s |-> Item(s[i])]
        full == {[items |-> items(s), iter |-> "some"] : s \in {t \in some : Len(t) = BatchSize}}
        last == {[items |-> items(s), iter |-> "eos"] : s \in
                    {t \in some : Len(t) < BatchSize /\ r.stable \subseteq r.seen \cup ToSet(t)}}
        bad  == {[items |-> Append(items(s), ErrItem), iter |-> "some"] : s \in
                    {t \in some : Len(t) < BatchSize}}
    IN  IF r.iter = "eos" THEN {[items |-> <<>>, iter |-> "eos"]} ELSE full \cup last \cup bad

\* read_batch: at most BatchSize entries; it stops behind an error.
ReadBatch(l) ==
    /\ listing[l].fut = "running"
    /\ \E b \in Batches(listing[l]) :
         listing' = [listing EXCEPT ![l].fut = "ready", ![l].batch = b.items, ![l].iter = b.iter,
                                    ![l].seen = @ \cup NamesOf(b.items)]
    /\ UNCHANGED <<inner, disk, mtime, du_cache, dir_id, finished>>

\* Mistake: the cache is finished behind an error too.
PoppedErrorFinishes(r) ==
    CASE r.buffer # <<>> /\ Head(r.buffer) # ErrItem ->
            [r EXCEPT !.buffer = Tail(@), !.yielded = Append(@, Head(r.buffer))]
      [] r.buffer # <<>> /\ Head(r.buffer) = ErrItem ->
            [r EXCEPT !.buffer = Tail(@), !.yielded = Append(@, ErrItem), !.iter = "none",
                      !.pc = IF inner.macos THEN "finish" ELSE "ended"]
      [] r.buffer = <<>> ->
            [r EXCEPT !.iter = "none", !.pc = IF inner.macos THEN "finish" ELSE "ended"]

\* Mistake: the iterator is not fused behind an error.
PoppedNotFused(r) ==
    CASE r.buffer # <<>> ->
            [r EXCEPT !.buffer = Tail(@), !.yielded = Append(@, Head(r.buffer))]
      [] r.buffer = <<>> ->
            [r EXCEPT !.iter = "none", !.pc = IF inner.macos THEN "finish" ELSE "ended"]

\* The item poll_next takes off the buffer.  An error fuses the iterator, and the cache is not
\* finished; at the end it is.
Popped(r) ==
    CASE r.buffer # <<>> /\ Head(r.buffer) # ErrItem ->
            [r EXCEPT !.buffer = Tail(@), !.yielded = Append(@, Head(r.buffer))]
      [] r.buffer # <<>> /\ Head(r.buffer) = ErrItem ->
            [r EXCEPT !.buffer = Tail(@), !.yielded = Append(@, ErrItem), !.iter = "none"]
      [] r.buffer = <<>> ->
            [r EXCEPT !.iter = "none", !.pc = IF inner.macos THEN "finish" ELSE "ended"]

PollBuffered(l) ==
    /\ listing[l].pc = "open" /\ listing[l].buffer # <<>>
    /\ listing' = [listing EXCEPT ![l] = Popped(@)]
    /\ UNCHANGED <<inner, disk, mtime, du_cache, dir_id, finished>>

\* The future is ready: its names go to the cache builder and its entries to the buffer.
PollReady(l) ==
    /\ listing[l].fut = "ready"
    /\ LET r == listing[l]
           taken == [r EXCEPT !.fut = "none", !.buffer = r.batch, !.batch = <<>>,
                              !.built = IF inner.macos THEN AddNames(@, r.batch) ELSE @]
       IN  listing' = [listing EXCEPT ![l] = Popped(taken)]
    /\ UNCHANGED <<inner, disk, mtime, du_cache, dir_id, finished>>

\* Polled behind an error: the stream is over.
PollFused(l) ==
    /\ listing[l].pc = "open" /\ listing[l].buffer = <<>> /\ listing[l].fut = "none"
    /\ listing[l].iter = "none"
    /\ listing' = [listing EXCEPT ![l].pc = "ended"]
    /\ UNCHANGED <<inner, disk, mtime, du_cache, dir_id, finished>>

\* finish, before it takes the lock: the time the directory has now, and a new id
FinishStamp(l) ==
    /\ listing[l].pc = "finish" /\ listing[l].stamp = <<>>
    /\ \/ /\ Kind(disk, listing[l].dir) = "dir"
          /\ listing' = [listing EXCEPT ![l].stamp = <<dir_id, mtime[listing[l].dir]>>]
          /\ dir_id' = dir_id + 1
       \/ /\ listing' = [listing EXCEPT ![l].pc = "ended"]    \* gone, or not to be read
          /\ UNCHANGED dir_id
    /\ UNCHANGED <<inner, disk, mtime, du_cache, finished>>

FinishStore(l) ==
    /\ listing[l].pc = "finish" /\ listing[l].stamp # <<>>
    /\ LET r == listing[l]
           stamp == [id |-> r.stamp[1], mtime |-> r.stamp[2]]
           others == TakenForDir(finished, Mark(r.dir))
       IN  /\ du_cache' = Stored(du_cache, r.dir, r.built, stamp)
           /\ finished' = [id \in DOMAIN finished \cup {stamp.id} |->
                  IF id = stamp.id
                  THEN [dir |-> r.dir, names |-> ToSet(r.built) \cup (r.stable \cap DotNames)]
                  ELSE others[id]]
    /\ listing' = [listing EXCEPT ![l].pc = "ended"]
    /\ UNCHANGED <<inner, disk, mtime, dir_id>>

\* The thread that drops entries of more than a minute ago; they are at the front, and those of
\* one listing are of one time.
PurgeDirs ==
    /\ \E n \in {m \in DOMAIN du_cache :
                    m = Len(du_cache) \/ du_cache[m].val.id # du_cache[m + 1].val.id} :
         du_cache' = SubSeq(du_cache, n + 1, Len(du_cache))
    /\ UNCHANGED <<inner, disk, mtime, dir_id, listing, finished>>

Poll(l) ==
    \/ PollStart(l) \/ PollBuffered(l) \/ PollReady(l) \/ PollFused(l)
    \/ FinishStamp(l) \/ FinishStore(l)

ListNext ==
    \/ \E l \in Listings : (\E d \in Dirs : ReadDir(l, d)) \/ Poll(l) \/ ReadBatch(l)
    \/ PurgeDirs

-----------------------------------------------------------------------------
(* A directory in the cache has all its files there: whichever entries were dropped for space, or
   for their age, a file that was there all the while it was listed is not denied
   (localfs_macos.rs:212, the order of the entries; :66, the purge; localfs.rs:930, a listing that
   met an error is not kept).  Two things are exempt, for the one key that a directory of a "._"
   name has in the cache (localfs_macos.rs:95, 199): a directory whose entry its parent's listing
   has replaced, and a file whose entry was replaced by its own listing, or dropped by a lookup of
   something below it.                                                     *)
CachedDirKnowsItsFiles ==
    \A d \in Dirs : Has(du_cache, Mark(d)) =>
        LET id == Peek(du_cache, Mark(d)).id
        IN  finished[id].dir = d =>
                \A n \in finished[id].names : ~Denies(du_cache, Append(d, n), id)

(* A listing yields only names that the directory had at some time since, and none twice; nothing
   comes behind an error; and one that ends without an error has yielded every name that the
   directory had all the while (localfs.rs:892).                           *)
ListingIsComplete ==
    \A l \in Listings :
        LET y == listing[l].yielded
        IN  /\ \A i, j \in DOMAIN y : i # j => y[i] # y[j]
            /\ NamesOf(y) \subseteq listing[l].ever
            /\ \A i \in DOMAIN y : y[i] = ErrItem => i = Len(y)
            /\ listing[l].pc \in {"finish", "ended"} /\ ErrItem \notin ToSet(y)
                  => listing[l].stable \subseteq NamesOf(y)
=============================================================================
