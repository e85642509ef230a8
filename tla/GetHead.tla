------------------------------- MODULE GetHead -------------------------------
(* handle_gethead.rs: GET and HEAD of a file or a directory. The response  *)
(* is decided from the length the file has when it is opened; the body is  *)
(* a stream that reads the file while others write to it. A byte is the    *)
(* offset it was read from.                                                *)
EXTENDS AsyncStream, Visibility, Integers, FiniteSets

CONSTANTS
    GetRequests,    \* the requests sent, see MCAnswers
    IndexEntries,   \* what the directory holds: [name, dir, path], paths from there
    Lengths,        \* the lengths a file may have
    MaxU64,         \* the largest number in a range
    ReadBufSize,    \* bytes read at once
    ZeroBuf,        \* the buffer of zeroes, 4096 bytes in the code
    MaxChanges      \* bound: changes of the file by others

VARIABLES
    get,            \* the handler
    file            \* the file on disk, and what became of it since it was opened

Unset == -1         \* an absent bound
Zero == -2          \* a byte that was not read

RangeSpecs == [first : Nat \cup {Unset}, last : Nat \cup {Unset}]

ASSUME GetAssumption ==
    /\ {ReadBufSize, ZeroBuf} \subseteq Nat \ {0}
    /\ MaxU64 \in Nat /\ \A n \in Lengths : n \in Nat /\ n < MaxU64
    /\ \A req \in GetRequests :
         /\ req.range \in Seq(RangeSpecs)
         /\ req.condition \in {200, 304, 412} /\ req.hide \in HideOptions
    /\ IsFiniteSet(IndexEntries)
    /\ \A e \in IndexEntries : e.name \in Nat /\ e.dir \in BOOLEAN /\ e.path = <<e.path[1]>>
    /\ \A e, o \in IndexEntries : e.name = o.name => e = o

min(a, b) == IF a < b THEN a ELSE b

GetInit(pc) ==
    \E req \in GetRequests, len \in Lengths :
        /\ get = [pc |-> pc, req |-> req, len |-> Unset, ranges |-> <<>>, status |-> 200,
                  announced |-> Unset, multi |-> FALSE, curpos |-> 0, pos |-> 0,
                  left |-> Unset, skipped |-> FALSE, seen |-> {}, rows |-> {}]
        /\ file = [len |-> len, low |-> len, regrown |-> FALSE, changes |-> 0]

-----------------------------------------------------------------------------
(* The ranges.                                                             *)

\* Range::satisfiable_ranges() of the headers crate: a suffix counts from the
\* end, and is left out when the file is shorter.
Bounds(spec, len) ==
    IF spec.first = Unset /\ spec.last # Unset THEN [first |-> len - spec.last, last |-> Unset] ELSE spec
Fits(spec, len) ==
    IF spec.first = Unset /\ spec.last > len THEN <<>> ELSE <<Bounds(spec, len)>>
SatisfiableRanges(specs, len) == FlattenSeq([i \in DOMAIN specs |-> Fits(specs[i], len)])

Valid(r, len) ==
    /\ r.first # Unset
    /\ r.last # Unset => r.last >= r.first
    /\ r.first < len
End(r) == IF r.last = Unset THEN MaxU64 ELSE r.last

\* A plausible mistake: the end is not clamped to the file.
CountUnclamped(r, len) == (End(r) - r.first + 1) % (MaxU64 + 1)

Count(r, len) == (min(End(r), len - 1) - r.first + 1) % (MaxU64 + 1)

Ranges(rs, len) == [i \in DOMAIN rs |-> [start |-> rs[i].first, count |-> Count(rs[i], len)]]

\* The answer to a request for the file.
Decided(req, len) ==
    LET wanted == IF req.ifrange /\ req.condition = 200 THEN SatisfiableRanges(req.range, len) ELSE <<>>
        bad == \E i \in DOMAIN wanted : ~Valid(wanted[i], len)
        ranges == IF bad \/ wanted = <<>> THEN <<[start |-> 0, count |-> len]>> ELSE Ranges(wanted, len)
        status == CASE bad -> 416
                    [] wanted # <<>> /\ ~bad -> 206
                    [] OTHER -> req.condition
        bodiless == status \in {416, 412, 304}
    IN  [ranges |-> ranges, status |-> status, bodiless |-> bodiless,
         announced |-> IF Len(ranges) > 1 THEN Unset
                       ELSE IF req.head \/ ~bodiless \/ status = 304 THEN ranges[1].count ELSE 0]

-----------------------------------------------------------------------------
(* The handler until it has a response.                                    *)

Ends(status, announced) ==
    /\ get' = [get EXCEPT !.pc = "done", !.status = status, !.announced = announced]
    /\ UNCHANGED <<stream, file>>

\* visible_metadata(), and what the request path turns out to be.
Look ==
    /\ get.pc = "look"
    /\ CASE get.req.kind = "probe" -> Ends(200, 0)
         [] get.req.kind = "hidden" -> Ends(404, Unset)
         [] get.req.kind = "dir without slash" -> Ends(302, 0)
         [] get.req.kind = "dir" /\ ~get.req.autoindex -> Ends(405, Unset)
         [] get.req.kind = "dir" /\ get.req.autoindex ->
              /\ get' = [get EXCEPT !.pc = IF get.req.head THEN "done" ELSE "index"]
              /\ UNCHANGED <<stream, file>>
         [] OTHER ->    \* a file, or a directory with an index file
              /\ get' = [get EXCEPT !.pc = "open"]
              /\ UNCHANGED <<stream, file>>

\* fs.open() and file.metadata(): by now it may be gone or no file, and the
\* file system may know another place for it. A file that cannot be positioned at
\* the first range is answered as if that range were beyond its end.
Open ==
    /\ get.pc = "open"
    /\ \/ \E status \in {404, 405, 302} : Ends(status, Unset)
       \/ /\ Decided(get.req, file.len).status = 206
          /\ Ends(416, IF get.req.head THEN file.len ELSE 0)
       \/ LET decided == Decided(get.req, file.len)
          IN  /\ get' = [get EXCEPT
                   !.pc = IF get.req.head \/ decided.bodiless THEN "done" ELSE "body",
                   !.len = file.len, !.ranges = decided.ranges, !.status = decided.status,
                   !.announced = decided.announced, !.multi = Len(decided.ranges) > 1,
                   !.curpos = decided.ranges[1].start, !.pos = decided.ranges[1].start]
              /\ file' = [file EXCEPT !.low = file.len]
              /\ UNCHANGED stream

-----------------------------------------------------------------------------
(* The body of a file.                                                     *)

PollGet == get.pc \in {"body", "index"} /\ Poll(Body) /\ UNCHANGED <<get, file>>

InBody == get.pc = "body" /\ Runs(Body)
Part == Head(get.ranges)

\* A plausible mistake: curpos is thought to be right always.
SeekedNever(g) == g

\* The next range: seek, unless the handler believes to be there.
Seeked(g) ==
    IF g.curpos = Head(g.ranges).start THEN g
    ELSE [g EXCEPT !.curpos = Head(g.ranges).start, !.pos = Head(g.ranges).start]

PartHeader == IF get.multi THEN Send(Body, [kind |-> "part", bytes |-> <<Part.start, Part.count>>]) ELSE UNCHANGED stream

StartRange ==
    /\ InBody /\ get.left = Unset /\ get.ranges # <<>>
    /\ get' = [Seeked(get) EXCEPT !.left = Part.count]
    /\ PartHeader
    /\ UNCHANGED file

\* A plausible mistake: the part is announced before the seek that fails.
SkipAnnounced == get' = [get EXCEPT !.ranges = Tail(@), !.skipped = TRUE] /\ PartHeader

\* The seek fails: the range is left out, with its header.
Skipped == get' = [get EXCEPT !.ranges = Tail(@), !.skipped = TRUE] /\ UNCHANGED stream

SkipRange ==
    /\ InBody /\ get.left = Unset /\ get.ranges # <<>>
    /\ get.curpos # Part.start
    /\ Skipped
    /\ UNCHANGED file

\* read_bytes() of what is left, at the position the file is at.
Bytes == [i \in 1..min(min(get.left, ReadBufSize), file.len - get.pos) |-> get.pos + i - 1]
\* A plausible mistake: the whole buffer of zeroes is sent.
ZeroesWhole == [i \in 1..ZeroBuf |-> Zero]

Zeroes == [i \in 1..min(get.left, ZeroBuf) |-> Zero]

Chunk == IF get.pos < file.len THEN Bytes ELSE Zeroes

ReadChunk ==
    /\ InBody /\ get.left > 0
    /\ \/ LET buf == Chunk
          IN  /\ get' = [get EXCEPT !.left = @ - min(@, Len(buf)), !.curpos = @ + Len(buf),
                                    !.pos = IF @ < file.len THEN @ + Len(buf) ELSE @]
              /\ Send(Body, [kind |-> "data", bytes |-> buf])
       \/ get' = get /\ Await(Body)
       \/ get' = get /\ Return(Body, "failed")
    /\ UNCHANGED file

EndRange ==
    /\ InBody /\ get.left = 0
    /\ get' = [get EXCEPT !.left = Unset, !.ranges = Tail(@)]
    /\ UNCHANGED <<stream, file>>

LastPart == [kind |-> "end", bytes |-> <<>>]
HasLastPart == \E i \in DOMAIN stream[Body].sent : stream[Body].sent[i].kind = "end"

EndBody ==
    /\ InBody /\ get.left = Unset /\ get.ranges = <<>>
    /\ IF get.multi /\ ~HasLastPart THEN Send(Body, LastPart) ELSE Return(Body, "ok")
    /\ UNCHANGED <<get, file>>

-----------------------------------------------------------------------------
(* The body of a directory, when autoindex is on.                          *)

InIndex == get.pc = "index" /\ Runs(Body)

\* The next entry: skipped when it is hidden, or when it is gone by now.
IndexEntry ==
    /\ InIndex
    /\ \E e \in IndexEntries \ get.seen :
         \/ get' = [get EXCEPT !.seen = @ \cup {e}, !.rows = IF HiddenEntry(get.req.hide, "autoindex", e.path) THEN @ ELSE @ \cup {e}]
         \/ get' = [get EXCEPT !.seen = @ \cup {e}]
    /\ UNCHANGED <<stream, file>>

\* A plausible mistake: files and directories are mixed.
BeforeByName(a, b) == a.name < b.name

Before(a, b) == IF a.dir = b.dir THEN a.name < b.name ELSE a.dir

\* The elements of S, each where as many come before it
Sorted(S, Less(_, _)) ==
    [i \in 1..Cardinality(S) |-> CHOOSE e \in S : Cardinality({o \in S : Less(o, e)}) = i - 1]

Page(entries) ==
    LET rows == Sorted(entries, Before)
    IN  <<[kind |-> "page", bytes |-> <<>>]>>
            \o [i \in DOMAIN rows |-> [kind |-> "row", bytes |-> <<rows[i].name>>]] \o <<LastPart>>

IndexPage ==
    /\ InIndex /\ get.seen = IndexEntries
    /\ IF HasLastPart THEN Return(Body, "ok") ELSE Send(Body, Page(get.rows)[Len(stream[Body].sent) + 1])
    /\ UNCHANGED <<get, file>>

-----------------------------------------------------------------------------

\* Others change the file while it is sent.
OthersWrite ==
    /\ get.pc \in {"open", "body"} /\ file.changes < MaxChanges
    /\ \E n \in Lengths \ {file.len} :
         file' = [len |-> n, low |-> min(n, file.low), changes |-> file.changes + 1,
                  regrown |-> file.regrown \/ (n > file.len /\ file.low < get.len)]
    /\ UNCHANGED <<stream, get>>

GetNext ==
    \/ Look \/ Open \/ PollGet \/ StartRange \/ SkipRange \/ ReadChunk \/ EndRange \/ EndBody
    \/ IndexEntry \/ IndexPage \/ OthersWrite

-----------------------------------------------------------------------------

\* What a client asks for: the offsets of a range of a file of that length.
\* A suffix longer than the file may be ignored.
Served(spec, len) == spec.first # Unset \/ spec.last <= len
Wanted(spec, len) ==
    {p \in 0..len - 1 :
        IF spec.first = Unset THEN p >= len - spec.last
        ELSE p >= spec.first /\ (spec.last # Unset => p <= spec.last)}
Slice(spec, len) == Sorted(Wanted(spec, len), <)

\* The offsets the body of this response is about, range by range.
Promised ==
    LET range == get.req.range
    IN  IF get.status = 206
        THEN [i \in DOMAIN range |-> IF Served(range[i], get.len) THEN Slice(range[i], get.len) ELSE <<>>]
        ELSE <<Slice([first |-> 0, last |-> Unset], get.len)>>

\* The bytes that came out so far, without what stands between them.
BytesOf(item, kind) == IF item.kind = kind THEN item.bytes ELSE <<>>
Only(items, kind) == FlattenSeq([i \in DOMAIN items |-> BytesOf(items[i], kind)])
Out(kind) == Only(stream[Body].got, kind)

\* A file: the announced length is the length of what was asked for, and what is sent
\* is what was asked for, in order: a byte comes from its own offset, or is a
\* zero because the file was cut there. Only a file that was cut and then grew
\* again while it is sent puts bytes out of place; the length is right even
\* then. No part is empty. A range the file cannot be positioned at is left
\* out of a body of several, which has no announced length; a body whose length
\* is announced is never short of it.
FileIsAsPromised ==
    LET promised == FlattenSeq(Promised)
        sent == Out("data")
    IN  get.status \in {200, 206} /\ get.len # Unset =>
            /\ get.announced # Unset => get.announced = Len(promised)
            /\ get.status = 206 =>
                 \A spec \in ToSet(get.req.range) : Served(spec, get.len) => Wanted(spec, get.len) # {}
            /\ Len(sent) <= Len(promised)
            /\ get.announced # Unset => ~get.skipped
            /\ stream[Body].answer = "none" /\ ~get.skipped => Len(sent) = Len(promised)
            /\ ~file.regrown /\ ~get.skipped => \A i \in DOMAIN sent :
                   sent[i] = promised[i] \/ (sent[i] = Zero /\ promised[i] >= file.low)

\* In a body of several ranges the header of a part is followed by all its bytes
\* before the next header or the end, whatever was left out before it and
\* whatever others do to the file.
PartsAreWhole ==
    LET got == stream[Body].got
        heads == {i \in DOMAIN got : got[i].kind = "part"}
        stops == {i \in DOMAIN got : got[i].kind # "data"}
        of(i, j) == Only(SubSeq(got, i + 1, j - 1), "data")
    IN  get.len # Unset /\ get.multi => \A i \in heads, j \in stops :
            i < j /\ (\A k \in i + 1..j - 1 : k \notin stops) =>
                /\ Len(of(i, j)) = got[i].bytes[2]
                /\ ~file.regrown => \A n \in DOMAIN of(i, j) : of(i, j)[n] \in {got[i].bytes[1] + n - 1, Zero}

\* An index shows directories first, each entry once and no hidden one.
IndexIsInOrder ==
    LET entry(name) == CHOOSE e \in IndexEntries : e.name = name
        rows == [i \in DOMAIN Out("row") |-> entry(Out("row")[i])]
    IN  get.pc = "index" => \A i, j \in DOMAIN rows : i < j =>
            /\ rows[i] # rows[j]
            /\ ~HiddenPath([get.req.hide EXCEPT !.dots =
                    IF HidesDots(get.req.hide, "autoindex") THEN "Always" ELSE "Never"], rows[i].path)
            /\ rows[j].dir => rows[i].dir

\* What comes out of the body is what the request was told it would be.
BodyIsAsPromised == FileIsAsPromised /\ IndexIsInOrder
=============================================================================
