------------------------------ MODULE PutProofs ------------------------------
(***************************************************************************)
(* An upload is exact or undone: what a PUT or PATCH promises about the    *)
(* bytes, for every set of clients, requests, bodies and limits, with      *)
(* calls that fail and other requests in between.                          *)
(***************************************************************************)
EXTENDS Put, FiniteSetTheorems, SequenceTheorems, TLAPS

-----------------------------------------------------------------------------
(* The invariant: how far a request is, and what the file is by then while *)
(* nobody else has changed it.                                             *)

Requests == UNION {Workload[c] : c \in Conns}

File == [id : Nat, bytes : Bytes]

Task == [pc : Pcs, req : Requests \cup {NoFile}, exists : BOOLEAN, len : Nat,
         start : Nat, count : Nat \cup {NoCount}, ranged : BOOLEAN, append : BOOLEAN,
         fid : Nat, pos : Nat, old : Bytes \cup {NoBytes}, got : Bytes, want : Nat,
         wrote : BOOLEAN, sent : Nat, before : Bytes \cup {NoBytes}, alone : BOOLEAN,
         failing : BOOLEAN, created : BOOLEAN,
         status : {"none", "ok", "failed", "lost", "dropped"}]

Running(t) == t.pc \notin {"idle", "done"}
Reading(t) == t.pc \in {"readOpen", "readLen", "read"}

\* The file is as the request has found it.
Preparing(t) == t.pc \in {"stage", "open"} \/ (Reading(t) /\ ~t.wrote)

\* What the bytes of the body are written into, and where they begin.
Base(t) == IF t.ranged THEN Before(t) ELSE <<>>
Begin(t) == IF t.append THEN Len(Before(t)) ELSE t.start

\* The file after the frames that have been sent.
Partial(t) == IF t.sent = 0 THEN Base(t)
              ELSE Written(Base(t), Begin(t), Received(t.req)[t.sent])

Least(m, n) == IF m < n THEN m ELSE n

\* Headers that passed, and what was made of them.
Planned(t, ty) ==
    LET plan == Plan(t.req, t.exists, t.len)
    IN  /\ t.req \in Requests
        /\ ~t.exists => t.len = 0
        /\ ~HeadersRefused(t.req, t.exists, t.len)
        /\ ~PlanRefused(plan, t.exists, t.len)
        /\ t.ranged = plan.ranged
        /\ t.append = plan.append
        /\ t.start = plan.start
        /\ t.count = plan.count
        /\ ty /\ t.count # NoCount => ResultingSize(t, t.count) <= MaxResource

\* The handle reaches the file.
Holds(t, f) == f \in File /\ f.id = t.fid

\* All of the body is in the file.
Entire(t, f) ==
    /\ f \in File
    /\ t.sent = Len(t.req.frames)
    /\ ~t.req.broken
    /\ f.bytes = Partial(t)

\* What a request knows of the file when it is alone.
Quiet(t, f, ty) ==
    /\ t.exists <=> t.before # NoBytes
    /\ t.len = Len(Before(t))
    /\ Preparing(t) => Content(f) = t.before /\ ~t.wrote
    /\ Reading(t) /\ ~t.wrote => t.exists
    /\ t.pc = "stage" => t.old = NoBytes
    /\ t.pc # "stage" /\ (Reading(t) => t.wrote) /\ ty => t.old = t.before
    /\ t.pc \in {"readLen", "read", "seek", "write", "undoWrite"} => Holds(t, f)
    /\ t.pc \in {"readLen", "read"} => t.got = SubSeq(f.bytes, 1, Len(t.got)) /\ t.pos = Len(t.got)
    /\ t.pc = "readLen" => t.got = <<>>
    /\ t.pc = "read" => /\ t.want = Least(Len(f.bytes), IF t.wrote THEN MaxResource ELSE t.len)
                        /\ Len(t.got) <= t.want
    /\ t.pc = "seek" => f.bytes = Base(t) /\ (t.created <=> t.before = NoBytes)
    /\ t.pc = "write" => f.bytes = Partial(t)
    /\ t.pc = "flush" => f \in File /\ (Entire(t, f) \/ (t.count # NoCount /\ Total(t) > t.count))
    /\ Reading(t) /\ t.wrote => Entire(t, f) /\ t.count = Total(t)
    /\ t.pc = "undoWrite" => f.bytes = <<>>
    /\ t.pc = "remove" => t.old = NoBytes

\* What holds of it whatever others do.
Settled(t, ty) ==
    /\ Planned(t, ty)
    /\ t.status = "none"
    /\ t.sent <= Len(t.req.frames)
    /\ t.wrote => ty /\ t.ranged
    /\ ty /\ ~t.ranged /\ t.pc # "stage" => ~BodyRefused(t)

\* Where the handle is, which others cannot move.
Placed(t, ty) ==
    /\ Preparing(t) \/ t.pc = "seek" => t.sent = 0
    /\ t.pc = "seek" => t.ranged
    /\ t.pc = "write" => /\ ~t.append => t.pos = t.start + Total(t)
                         /\ ty /\ ~t.ranged => t.sent \in {0, Len(t.req.frames)}

Working(t, f, ty) ==
    /\ Settled(t, ty)
    /\ Placed(t, ty)
    /\ t.pc \in {"undoOpen", "undoWrite"} => t.old # NoBytes
    /\ t.alone => Quiet(t, f, ty)

TaskOK(t, f, ty) == t \in Task /\ (Running(t) => Working(t, f, ty))

IInv ==
    /\ typed \in BOOLEAN
    /\ file \in File \cup {NoFile}
    /\ task = [c \in Conns |-> task[c]]
    /\ \A c \in Conns : TaskOK(task[c], file, typed)
-----------------------------------------------------------------------------
(* Induction over the naturals, for the frames of a body: the initial      *)
(* intervals are well founded under strict inclusion.                      *)

LEMMA Induction ==
    ASSUME NEW T, 0 \in T, \A n \in T \cap Nat : n + 1 \in T
    PROVE  Nat \subseteq T
<1> SUFFICES ASSUME NEW k \in Nat, k \notin T PROVE FALSE
  OBVIOUS
<1> DEFINE UpTo(n) == 0..n
           W == {UpTo(n) : n \in {m \in Nat : m \notin T}}
<1>1. W \subseteq FiniteSubsetsOf(Nat)
  <2> SUFFICES ASSUME NEW n \in Nat PROVE IsFiniteSet(0..n) /\ 0..n \subseteq Nat
    BY DEF FiniteSubsetsOf
  <2> QED BY FS_Interval
<1>2. W # {}
  OBVIOUS
<1>3. PICK w \in W : \A y \in W : <<y, w>> \notin StrictSubsetOrdering(Nat)
  <2> HIDE DEF W
  <2> QED BY ONLY <1>1, <1>2, FS_StrictSubsetOrderingWellFounded, WFMin
<1>4. PICK m \in Nat : m \notin T /\ w = 0..m
  OBVIOUS
<1>5. m # 0 /\ m - 1 \in Nat /\ (m - 1) + 1 = m
  BY <1>4
<1>6. UpTo(m - 1) \in W
  BY <1>4, <1>5
<1>7. UpTo(m - 1) \subseteq w /\ m \in w /\ m \notin UpTo(m - 1) /\ w \subseteq Nat
  BY <1>4, <1>5
<1>8. <<UpTo(m - 1), w>> \in StrictSubsetOrdering(Nat)
  <2> HIDE DEF UpTo, W
  <2> QED BY <1>7 DEF StrictSubsetOrdering
<1> QED BY <1>3, <1>6, <1>8

-----------------------------------------------------------------------------
(* Writes.                                                                 *)

Most(m, n) == IF m < n THEN n ELSE m

LEMMA WrittenIs ==
    ASSUME NEW d \in Bytes, NEW a \in Nat, NEW b \in Bytes
    PROVE  /\ Written(d, a, b) \in Bytes
           /\ Len(Written(d, a, b)) = Most(Len(d), a + Len(b))
           /\ \A i \in 1..Most(Len(d), a + Len(b)) :
                 Written(d, a, b)[i] = IF i > a /\ i <= a + Len(b) THEN b[i - a]
                                       ELSE IF i <= Len(d) THEN d[i] ELSE 0
<1> DEFINE L == Most(Len(d), a + Len(b))
           E(i) == IF i > a /\ i <= a + Len(b) THEN b[i - a]
                   ELSE IF i <= Len(d) THEN d[i] ELSE 0
<1>1. L \in Nat /\ Len(d) \in Nat /\ Len(b) \in Nat
  BY DEF Bytes, Most
<1>2. ASSUME NEW i \in 1..L PROVE E(i) \in Nat
  BY <1>1 DEF Bytes, Most
<1>3. Written(d, a, b) = [i \in 1..L |-> E(i)]
  BY <1>1 DEF Written, Most
<1> HIDE DEF L, E
<1>4. [i \in 1..L |-> E(i)] \in Seq(Nat) /\ Len([i \in 1..L |-> E(i)]) = L
  BY <1>1, <1>2
<1> QED BY <1>3, <1>4 DEF L, E, Bytes

\* A write makes a file no longer than where it ends.
LEMMA WrittenReaches ==
    ASSUME NEW d \in Bytes, NEW a \in Nat, NEW b \in Bytes, NEW m \in Nat, a + Len(b) <= m
    PROVE  Len(Written(d, a, b)) <= m \/ Len(Written(d, a, b)) <= Len(d)
<1>1. Len(Written(d, a, b)) = Most(Len(d), a + Len(b))
  BY WrittenIs
<1>2. Len(d) \in Nat /\ Len(b) \in Nat
  BY DEF Bytes
<1> QED BY <1>1, <1>2 DEF Most

\* Two sequences with the same length and elements are the same.
LEMMA SameBytes ==
    ASSUME NEW x \in Bytes, NEW y \in Bytes, Len(x) = Len(y),
           \A i \in 1..Len(x) : x[i] = y[i]
    PROVE  x = y
BY SeqEqual DEF Bytes

LEMMA JoinIs ==
    ASSUME NEW x \in Bytes, NEW y \in Bytes
    PROVE  /\ x \o y \in Bytes
           /\ Len(x \o y) = Len(x) + Len(y)
           /\ Len(x) \in Nat /\ Len(y) \in Nat
           /\ \A i \in 1..Len(x) + Len(y) :
                 (x \o y)[i] = IF i <= Len(x) THEN x[i] ELSE y[i - Len(x)]
BY ConcatProperties DEF Bytes

\* At the end of what is there, a write appends.
LEMMA WriteAppends ==
    ASSUME NEW d \in Bytes, NEW b \in Bytes
    PROVE  Written(d, Len(d), b) = d \o b
<1>1. Len(d) \in Nat /\ Len(b) \in Nat
  BY DEF Bytes
<1>2. Most(Len(d), Len(d) + Len(b)) = Len(d) + Len(b)
  BY <1>1 DEF Most
<1>3. Written(d, Len(d), b) \in Bytes /\ Len(Written(d, Len(d), b)) = Len(d) + Len(b)
  BY <1>1, <1>2, WrittenIs
<1>4. d \o b \in Bytes /\ Len(d \o b) = Len(d) + Len(b)
  BY JoinIs
<1>5. ASSUME NEW i \in 1..Len(d) + Len(b) PROVE Written(d, Len(d), b)[i] = (d \o b)[i]
  <2>1. i \in 1..Most(Len(d), Len(d) + Len(b))
    BY <1>2
  <2>2. Written(d, Len(d), b)[i] = IF i > Len(d) /\ i <= Len(d) + Len(b) THEN b[i - Len(d)]
                                   ELSE IF i <= Len(d) THEN d[i] ELSE 0
    <3> DEFINE a == Len(d)
    <3>1. a \in Nat /\ i \in 1..Most(Len(d), a + Len(b))
      BY <1>1, <2>1
    <3> HIDE DEF a
    <3>2. Written(d, a, b)[i] = IF i > a /\ i <= a + Len(b) THEN b[i - a]
                                ELSE IF i <= Len(d) THEN d[i] ELSE 0
      BY <3>1, WrittenIs
    <3> QED BY <3>2 DEF a
  <2>3. (d \o b)[i] = IF i <= Len(d) THEN d[i] ELSE b[i - Len(d)]
    BY JoinIs
  <2> QED BY <1>1, <2>2, <2>3
<1> QED BY <1>3, <1>4, <1>5, SameBytes

LEMMA WriteAll ==
    ASSUME NEW b \in Bytes
    PROVE  Written(<<>>, 0, b) = b
<1>1. <<>> \in Bytes /\ Len(<<>>) = 0
  BY DEF Bytes
<1>2. <<>> \o b = b
  BY ConcatEmptySeq DEF Bytes
<1> QED BY <1>1, <1>2, WriteAppends

\* Nothing written where something is changes nothing.
LEMMA WriteNothing ==
    ASSUME NEW d \in Bytes, NEW a \in Nat, a <= Len(d)
    PROVE  Written(d, a, <<>>) = d
<1>1. <<>> \in Bytes /\ Len(<<>>) = 0 /\ Len(d) \in Nat
  BY DEF Bytes
<1>2. Most(Len(d), a + Len(<<>>)) = Len(d)
  BY <1>1 DEF Most
<1>3. Written(d, a, <<>>) \in Bytes /\ Len(Written(d, a, <<>>)) = Len(d)
  BY <1>1, <1>2, WrittenIs
<1>4. ASSUME NEW i \in 1..Len(d) PROVE Written(d, a, <<>>)[i] = d[i]
  <2>1. i \in 1..Most(Len(d), a + Len(<<>>))
    BY <1>2
  <2>2. Written(d, a, <<>>)[i] = IF i > a /\ i <= a + Len(<<>>) THEN <<>>[i - a]
                                 ELSE IF i <= Len(d) THEN d[i] ELSE 0
    BY <1>1, <2>1, WrittenIs
  <2> QED BY <1>1, <2>2
<1> QED BY <1>3, <1>4, SameBytes

\* A write that goes on where another one has ended is one write of both.
LEMMA WritesJoin ==
    ASSUME NEW d \in Bytes, NEW a \in Nat, NEW p \in Bytes, NEW b \in Bytes
    PROVE  Written(Written(d, a, p), a + Len(p), b) = Written(d, a, p \o b)
<1> DEFINE w == Written(d, a, p)
           D == Len(d)
           P == Len(p)
           B == Len(b)
           L == Most(D, a + (P + B))
<1>1. D \in Nat /\ P \in Nat /\ B \in Nat /\ a + P \in Nat
  BY DEF Bytes
<1>2. w \in Bytes /\ Len(w) = Most(D, a + P)
  BY WrittenIs
<1>3. p \o b \in Bytes /\ Len(p \o b) = P + B
  BY JoinIs
<1>4. Written(w, a + P, b) \in Bytes /\ Len(Written(w, a + P, b)) = L
  BY <1>1, <1>2, WrittenIs DEF Most
<1>5. Written(d, a, p \o b) \in Bytes /\ Len(Written(d, a, p \o b)) = L
  <2>1. Len(p \o b) \in Nat /\ Most(D, a + Len(p \o b)) = L
    BY <1>1, <1>3
  <2> QED BY <1>1, <1>3, <2>1, WrittenIs
<1>6. ASSUME NEW i \in 1..L PROVE Written(w, a + P, b)[i] = Written(d, a, p \o b)[i]
  <2>1. i \in Nat /\ i \in 1..Most(Len(w), (a + P) + B) /\ i \in 1..Most(D, a + Len(p \o b))
    BY <1>1, <1>2, <1>3 DEF Most
  <2>2. Written(w, a + P, b)[i] = IF i > a + P /\ i <= (a + P) + B THEN b[i - (a + P)]
                                  ELSE IF i <= Len(w) THEN w[i] ELSE 0
    BY <1>1, <1>2, <2>1, WrittenIs
  <2>3. Written(d, a, p \o b)[i] = IF i > a /\ i <= a + (P + B) THEN (p \o b)[i - a]
                                   ELSE IF i <= D THEN d[i] ELSE 0
    BY <1>1, <1>3, <2>1, WrittenIs
  <2>4. i > a /\ i <= a + (P + B) =>
           (p \o b)[i - a] = IF i - a <= P THEN p[i - a] ELSE b[(i - a) - P]
    <3> SUFFICES ASSUME i > a, i <= a + (P + B)
                 PROVE  (p \o b)[i - a] = IF i - a <= P THEN p[i - a] ELSE b[(i - a) - P]
      OBVIOUS
    <3>1. i - a \in 1..P + B
      BY <1>1, <2>1
    <3> QED BY <3>1, JoinIs
  <2>5. i <= Len(w) => w[i] = IF i > a /\ i <= a + P THEN p[i - a]
                              ELSE IF i <= D THEN d[i] ELSE 0
    <3>1. i <= Len(w) => i \in 1..Most(D, a + P)
      BY <1>2, <2>1
    <3> QED BY <1>1, <3>1, WrittenIs
  <2>6. i - (a + P) = (i - a) - P
    BY <1>1, <2>1
  <2> HIDE DEF w, D, P, B, L
  <2>7. CASE i <= a
    BY <1>1, <1>2, <2>1, <2>2, <2>3, <2>5, <2>7 DEF Most
  <2>8. CASE i > a /\ i <= a + P
    <3>1. i <= Len(w) /\ ~(i > a + P) /\ i <= a + (P + B) /\ i - a <= P
      BY <1>1, <1>2, <2>1, <2>8 DEF Most
    <3>2. Written(w, a + P, b)[i] = p[i - a]
      BY <2>2, <2>5, <2>8, <3>1
    <3>3. Written(d, a, p \o b)[i] = p[i - a]
      BY <2>3, <2>4, <2>8, <3>1
    <3> QED BY <3>2, <3>3
  <2>9. CASE i > a + P /\ i <= a + (P + B)
    <3>1. i > a /\ i <= (a + P) + B /\ ~(i - a <= P)
      BY <1>1, <2>1, <2>9
    <3>2. Written(w, a + P, b)[i] = b[i - (a + P)]
      BY <2>2, <2>9, <3>1
    <3>3. Written(d, a, p \o b)[i] = b[(i - a) - P]
      BY <2>3, <2>4, <2>9, <3>1
    <3> QED BY <2>6, <3>2, <3>3
  <2>10. CASE i > a + (P + B)
    BY <1>1, <1>2, <2>1, <2>2, <2>3, <2>5, <2>10 DEF Most
  <2> QED BY <1>1, <2>1, <2>7, <2>8, <2>9, <2>10
<1> HIDE DEF w, D, P, B, L
<1>7. Written(w, a + P, b) = Written(d, a, p \o b)
  BY <1>4, <1>5, <1>6, SameBytes
<1> QED BY <1>7 DEF w, P

\* What is read from a position goes on from what was read up to it.
LEMMA ReadsJoin ==
    ASSUME NEW d \in Bytes, NEW k \in Nat, k <= Len(d), NEW n \in Int
    PROVE  LET chunk == BytesAt(d, k, n)
           IN  /\ chunk \in Bytes
               /\ k + Len(chunk) <= Len(d)
               /\ n >= 0 => Len(chunk) <= n
               /\ SubSeq(d, 1, k) \o chunk = SubSeq(d, 1, k + Len(chunk))
               /\ chunk = <<>> /\ n > 0 => k = Len(d)
<1> DEFINE e == IF k + n > Len(d) THEN Len(d) ELSE k + n
           chunk == SubSeq(d, k + 1, e)
           front == SubSeq(d, 1, k)
<1>1. /\ Len(d) \in Nat /\ e \in Int /\ e <= Len(d) /\ d \in Seq(Nat)
      /\ k + 1 \in Int /\ k \in Int
      /\ \A i \in 1..Len(d) : d[i] \in Nat
  BY DEF Bytes
<1>2. \A i \in k + 1..e : d[i] \in Nat
  BY <1>1
<1>3. /\ chunk \in Seq(Nat)
      /\ Len(chunk) = IF k + 1 <= e THEN e - (k + 1) + 1 ELSE 0
      /\ \A i \in 1..e - (k + 1) + 1 : chunk[i] = d[k + 1 + i - 1]
  <2> HIDE DEF e
  <2> QED BY <1>1, <1>2, SubSeqProperties
<1>4. /\ front \in Seq(Nat) /\ Len(front) = k
      /\ \A i \in 1..k : front[i] = d[i]
  <2>1. \A i \in 1..k : d[i] \in Nat
    BY <1>1
  <2>2. /\ front \in Seq(Nat)
        /\ Len(front) = IF 1 <= k THEN k - 1 + 1 ELSE 0
        /\ \A i \in 1..k - 1 + 1 : front[i] = d[1 + i - 1]
    BY <1>1, <2>1, SubSeqProperties
  <2> HIDE DEF front
  <2> QED BY <1>1, <2>2
<1>5. BytesAt(d, k, n) = chunk
  BY DEF BytesAt
<1> HIDE DEF chunk, front
<1>6. CASE e <= k
  <2>1. Len(chunk) = 0
    BY <1>1, <1>3, <1>6
  <2>2. chunk = <<>>
    BY <1>3, <2>1, EmptySeq
  <2>3. front \o <<>> = front
    BY <1>4, ConcatEmptySeq
  <2>4. chunk = <<>> /\ n > 0 => k = Len(d)
    BY <1>1, <1>6
  <2>5. k + Len(chunk) = k
    BY <2>1
  <2> QED BY <1>1, <1>3, <1>5, <2>1, <2>2, <2>3, <2>4, <2>5 DEF Bytes, front
<1>7. CASE k < e
  <2>1. Len(chunk) = e - k /\ e \in Nat /\ 1 <= e
    BY <1>1, <1>3, <1>7
  <2>2. /\ SubSeq(d, 1, e) \in Seq(Nat) /\ Len(SubSeq(d, 1, e)) = e
        /\ \A i \in 1..e : SubSeq(d, 1, e)[i] = d[i]
    <3>1. \A i \in 1..e : d[i] \in Nat
      BY <1>1
    <3> HIDE DEF e
    <3>2. /\ SubSeq(d, 1, e) \in Seq(Nat)
          /\ Len(SubSeq(d, 1, e)) = IF 1 <= e THEN e - 1 + 1 ELSE 0
          /\ \A i \in 1..e - 1 + 1 : SubSeq(d, 1, e)[i] = d[1 + i - 1]
      BY <2>1, <3>1, SubSeqProperties
    <3> QED BY <2>1, <3>2
  <2>3. /\ front \o chunk \in Seq(Nat) /\ Len(front \o chunk) = k + (e - k)
        /\ \A i \in 1..k + (e - k) :
              (front \o chunk)[i] = IF i <= k THEN front[i] ELSE chunk[i - k]
    BY <1>3, <1>4, <2>1, ConcatProperties
  <2> HIDE DEF e
  <2>4. k + (e - k) = e
    BY <1>1
  <2>5. ASSUME NEW i \in 1..e PROVE (front \o chunk)[i] = SubSeq(d, 1, e)[i]
    <3>1. CASE i <= k
      BY <1>4, <2>2, <2>3, <2>4, <3>1
    <3>2. CASE ~(i <= k)
      <4>1. i - k \in 1..e - (k + 1) + 1 /\ k + 1 + (i - k) - 1 = i
        BY <1>1, <1>7, <2>1, <3>2
      <4>2. chunk[i - k] = d[i]
        BY <1>3, <4>1
      <4> QED BY <2>2, <2>3, <2>4, <3>2, <4>2
    <3> QED BY <3>1, <3>2
  <2>6. front \o chunk = SubSeq(d, 1, e)
    BY <2>2, <2>3, <2>4, <2>5, SeqEqual
  <2>7. k + Len(chunk) = e /\ Len(chunk) # 0 /\ (n >= 0 => Len(chunk) <= n)
    BY <1>1, <1>7, <2>1 DEF e
  <2>8. chunk # <<>>
    BY <2>7
  <2> QED BY <1>1, <1>3, <1>5, <2>6, <2>7, <2>8 DEF Bytes, front
<1> QED BY <1>1, <1>6, <1>7

LEMMA ReadAll ==
    ASSUME NEW d \in Bytes
    PROVE  SubSeq(d, 1, Len(d)) = d /\ SubSeq(d, 1, 0) = <<>>
BY SubSeqProperties, SeqEqual DEF Bytes

-----------------------------------------------------------------------------
(* Bodies.                                                                 *)

\* h has the bytes of the first frames, up to frame n.
Gathers(req, h, n) ==
    h = [i \in 0..n |-> IF i = 0 THEN <<>> ELSE h[i - 1] \o req.frames[i]]

LEMMA GathersOne ==
    ASSUME NEW req, NEW h, NEW n \in Nat, Gathers(req, h, n)
    PROVE  \E g : Gathers(req, g, n + 1)
<1> DEFINE g == [i \in 0..n + 1 |-> IF i = 0 THEN <<>>
                                   ELSE IF i = n + 1 THEN h[n] \o req.frames[i] ELSE h[i]]
<1>1. ASSUME NEW i \in 0..n PROVE g[i] = h[i]
  <2>1. i \in 0..n + 1 /\ i # n + 1 /\ (i = 0 => h[i] = <<>>)
    BY DEF Gathers
  <2> QED BY <2>1
<1>2. ASSUME NEW i \in 0..n + 1, i # 0 PROVE g[i] = g[i - 1] \o req.frames[i]
  <2>1. i - 1 \in 0..n /\ g[i - 1] = h[i - 1]
    BY <1>1, <1>2
  <2>2. CASE i = n + 1
    BY <1>2, <2>1, <2>2
  <2>3. CASE i # n + 1
    <3>1. i \in 0..n
      BY <2>3
    <3>2. h[i] = h[i - 1] \o req.frames[i]
      BY <1>2, <3>1 DEF Gathers
    <3> QED BY <1>1, <2>1, <3>1, <3>2
  <2> QED BY <2>2, <2>3
<1>3. g[0] = <<>>
  OBVIOUS
<1>4. g = [i \in 0..n + 1 |-> g[i]]
  OBVIOUS
<1> HIDE DEF g
<1>5. g = [i \in 0..n + 1 |-> IF i = 0 THEN <<>> ELSE g[i - 1] \o req.frames[i]]
  BY <1>2, <1>3, <1>4
<1> QED BY <1>5 DEF Gathers

LEMMA GathersAll ==
    ASSUME NEW req, NEW n \in Nat
    PROVE  \E h : Gathers(req, h, n)
<1> DEFINE T == {m \in Nat : \E h : Gathers(req, h, m)}
<1>1. 0 \in T
  <2> DEFINE h == [i \in 0..0 |-> <<>>]
  <2>1. Gathers(req, h, 0)
    BY DEF Gathers
  <2> QED BY <2>1
<1>2. ASSUME NEW m \in T \cap Nat PROVE m + 1 \in T
  BY GathersOne
<1> HIDE DEF T
<1>3. Nat \subseteq T
  BY <1>1, <1>2, Induction
<1> QED BY <1>3 DEF T

\* What has been received grows frame by frame.
LEMMA ReceivedIs ==
    ASSUME NEW req, req.frames \in Seq(Bytes)
    PROVE  /\ Received(req)[0] = <<>>
           /\ \A i \in 1..Len(req.frames) : Received(req)[i] = Received(req)[i - 1] \o req.frames[i]
           /\ \A i \in 0..Len(req.frames) : Received(req)[i] \in Bytes
<1> DEFINE n == Len(req.frames)
           h == CHOOSE h : Gathers(req, h, n)
<1>1. n \in Nat /\ \A i \in 1..n : req.frames[i] \in Bytes
  OBVIOUS
<1>2. Gathers(req, h, n)
  <2> HIDE DEF n
  <2> QED BY <1>1, GathersAll
<1>3. Received(req) = h
  BY DEF Received, Gathers
<1> HIDE DEF h, n
<1>4. h[0] = <<>> /\ \A i \in 1..n : h[i] = h[i - 1] \o req.frames[i]
  BY <1>1, <1>2 DEF Gathers
<1> DEFINE T == {i \in Nat : i <= n => h[i] \in Bytes}
<1>5. 0 \in T
  <2>1. h[0] \in Bytes
    BY <1>4 DEF Bytes
  <2> QED BY <2>1
<1>6. ASSUME NEW i \in T \cap Nat PROVE i + 1 \in T
  <2> SUFFICES ASSUME i + 1 <= n PROVE h[i + 1] \in Bytes
    OBVIOUS
  <2>1. i + 1 \in 1..n /\ (i + 1) - 1 = i /\ i <= n
    BY <1>1
  <2>2. h[i] \in Bytes
    BY <2>1
  <2>3. h[i + 1] = h[(i + 1) - 1] \o req.frames[i + 1]
    BY <1>4, <2>1
  <2> QED BY <1>1, <2>1, <2>2, <2>3, JoinIs
<1> HIDE DEF T
<1>7. Nat \subseteq T
  BY <1>5, <1>6, Induction
<1>8. \A i \in 0..n : h[i] \in Bytes
  BY <1>1, <1>7 DEF T
<1> QED BY <1>3, <1>4, <1>8 DEF n

-----------------------------------------------------------------------------
(* Requests, plans and ids.                                                *)

LEMMA RequestsAre ==
    ASSUME NEW req \in Requests
    PROVE  /\ IsRequest(req)
           /\ req.frames \in Seq(Bytes)
           /\ Body(req) \in Bytes
<1>1. IsRequest(req)
  BY PutAssumption DEF Requests
<1>2. req.frames \in Seq(Bytes)
  BY <1>1 DEF IsRequest
<1>3. Len(req.frames) \in 0..Len(req.frames)
  BY <1>2
<1> QED BY <1>1, <1>2, <1>3, ReceivedIs DEF Body

\* What the headers make of a request that they do not refuse.
LEMMA PlanIs ==
    ASSUME NEW req \in Requests, NEW exists \in BOOLEAN, NEW len \in Nat,
           ~HeadersRefused(req, exists, len)
    PROVE  LET plan == Plan(req, exists, len)
           IN  /\ plan.ranged \in BOOLEAN /\ plan.append \in BOOLEAN
               /\ plan.start \in Nat
               /\ plan.count \in Nat \cup {NoCount}
               /\ plan.ranged => plan.count # NoCount
               /\ ~plan.ranged => plan.start = 0 /\ ~plan.append
<1>1. /\ req.update \in Ranges /\ req.update.kind \notin {"star", "bytes"}
      /\ req.content \in Ranges /\ req.content.kind \in {"none", "star", "bytes"}
      /\ req.count \in Nat \cup {NoCount}
  BY RequestsAre DEF IsRequest
<1>2. /\ req.update.kind \in {"none", "fromTo", "from", "last", "append"}
      /\ req.update.b \in Nat /\ req.update.e \in Nat
      /\ req.content.b \in Nat /\ req.content.e \in Nat
  BY <1>1 DEF Ranges
<1>3. Width(req.content) \in Nat
  BY <1>2, PutAssumption DEF Width
<1>4. req.update.kind = "last" => len - req.update.b \in Nat
  BY <1>2 DEF HeadersRefused
<1>5. req.update.kind # "none" => req.count # NoCount
  BY DEF HeadersRefused
<1> DEFINE plan == Plan(req, exists, len)
<1>6. plan.ranged \in BOOLEAN /\ plan.append \in BOOLEAN
  BY DEF Plan
<1>7. plan.start \in Nat
  BY <1>1, <1>2, <1>4 DEF Plan
<1>8. plan.count \in Nat \cup {NoCount}
  BY <1>1, <1>3 DEF Plan
<1>9. plan.ranged => plan.count # NoCount
  BY <1>1, <1>3, <1>5, PutAssumption DEF Plan
<1>10. ~plan.ranged => plan.start = 0 /\ ~plan.append
  BY <1>2 DEF Plan
<1> QED BY <1>6, <1>7, <1>8, <1>9, <1>10

LEMMA SizeIs ==
    ASSUME NEW t \in Task, NEW n \in Nat
    PROVE  ResultingSize(t, n) \in Nat
BY DEF ResultingSize, Task

\* There is always an id that no handle has.
LEMMA FreshIdIs == FreshId \in Nat
<1> DEFINE n == Cardinality(Conns)
           ids == {task[c].fid : c \in Conns}
<1>1. n \in Nat
  BY PutAssumption, FS_CardinalityType
<1>2. IsFiniteSet(ids) /\ Cardinality(ids) <= n
  <2> DEFINE f == [c \in Conns |-> task[c].fid]
  <2>1. f \in Surjection(Conns, ids)
    BY DEF Surjection
  <2> HIDE DEF f, ids
  <2> QED BY <2>1, PutAssumption, FS_Surjection
<1>3. Cardinality(1..n + 1) = n + 1
  BY <1>1, FS_Interval
<1>4. \E id \in 1..n + 1 : id \notin ids
  <2> SUFFICES ASSUME 1..n + 1 \subseteq ids PROVE FALSE
    OBVIOUS
  <2> HIDE DEF ids, n
  <2>1. Cardinality(1..n + 1) <= Cardinality(ids)
    BY <1>2, FS_Subset
  <2>2. Cardinality(ids) \in Nat
    BY <1>2, FS_CardinalityType
  <2> QED BY <1>1, <1>2, <1>3, <2>1, <2>2
<1>5. \E id \in 1..n + 1 : \A c \in Conns : Idle(c) \/ task[c].fid # id
  BY <1>4
<1> HIDE DEF n
<1>6. FreshId \in 1..n + 1
  BY <1>5 DEF FreshId, n
<1> QED BY <1>1, <1>6

-----------------------------------------------------------------------------
(* What a step promises, and what becomes of the other requests.           *)

\* The file holds what the request asked for, and all of it.
Exact(t, f) ==
    /\ ~t.req.broken
    /\ t.req.count \in {NoCount, Len(Body(t.req))}
    /\ \/ Content(f) = Expected(t.req, Before(t))
       \/ t.ranged /\ Body(t.req) = <<>> /\ Content(f) = Before(t)

\* The file f that was written is not too long, or no longer than it was.
Fits(t, f, f2) ==
    \/ Len(f2.bytes) <= MaxResource
    \/ ~t.alone /\ (t.append \/ Len(f2.bytes) <= Len(f.bytes))

Promises(t, t2, f, f2, ty) ==
    Running(t) =>
       /\ t.alone /\ t2.status = "ok" => Exact(t, f2)
       /\ t.alone /\ t2.status = "ok" /\ ty => Content(f2) \in Valid
       /\ t.alone /\ t2.status = "failed" /\ ty =>
             \/ Content(f2) = t.before
             \/ t.pc = "seek" /\ t.created /\ Content(f2) = <<>>
       /\ t.pc = "write" /\ f2 # f /\ ty => Fits(t, f, f2)
       /\ ty /\ ~t.ranged /\ (t.req.broken \/ Body(t.req) \notin Valid) => f2 = f

\* The step of c is one that goes well.
Moves(c) ==
    \E t, f : /\ Go(c, t, f)
              /\ f \in File \cup {NoFile}
              /\ TaskOK(t, f, typed)
              /\ Promises(task[c], t, file, f, typed)

LEMMA DisturbedIs ==
    ASSUME NEW t \in Task, NEW f, NEW g, NEW ty \in BOOLEAN, TaskOK(t, f, ty)
    PROVE  TaskOK(Disturbed(t), g, ty)
<1> DEFINE u == Disturbed(t)
<1>1. u \in Task /\ ~u.alone
  BY DEF Disturbed, Task
<1>2. /\ u.pc = t.pc /\ u.req = t.req /\ u.exists = t.exists /\ u.len = t.len
      /\ u.start = t.start /\ u.count = t.count /\ u.ranged = t.ranged /\ u.append = t.append
      /\ u.status = t.status /\ u.sent = t.sent /\ u.wrote = t.wrote /\ u.old = t.old
      /\ u.pos = t.pos
  BY DEF Disturbed, Task
<1> HIDE DEF u
<1>3. ASSUME Settled(t, ty) PROVE Settled(u, ty)
  <2>1. Planned(u, ty)
    BY <1>2, <1>3 DEF Settled, Planned, ResultingSize
  <2>2. BodyRefused(u) <=> BodyRefused(t)
    BY <1>2 DEF BodyRefused
  <2> QED BY <1>2, <1>3, <2>1, <2>2 DEF Settled
<1>4. Running(u) <=> Running(t)
  BY <1>2 DEF Running
<1>5. Placed(t, ty) => Placed(u, ty)
  BY <1>2 DEF Placed, Preparing, Reading, Total
<1> QED BY <1>1, <1>2, <1>3, <1>4, <1>5 DEF TaskOK, Working, u

\* A step that goes well keeps the invariant.
LEMMA MovesKeeps ==
    ASSUME IInv, NEW c \in Conns, Moves(c)
    PROVE  IInv'
<1>1. PICK t, f : Go(c, t, f) /\ f \in File \cup {NoFile} /\ TaskOK(t, f, typed)
  BY DEF Moves
<1>2. typed' = typed /\ file' = f
  BY <1>1 DEF Go
<1>3. ASSUME NEW d \in Conns PROVE TaskOK(task'[d], f, typed)
  <2>1. TaskOK(task[d], file, typed) /\ task[d] \in Task /\ typed \in BOOLEAN
    BY DEF IInv, TaskOK
  <2>2. CASE d = c
    BY <1>1, <2>2 DEF Go
  <2>3. CASE d # c /\ Idle(d)
    <3>1. task'[d] = task[d]
      BY <1>1, <2>3 DEF Go
    <3> QED BY <2>1, <2>3, <3>1 DEF TaskOK, Running, Idle
  <2>4. CASE d # c /\ ~Idle(d) /\ f = file
    BY <1>1, <2>1, <2>4 DEF Go
  <2>5. CASE d # c /\ ~Idle(d) /\ f # file
    <3>1. task'[d] = Disturbed(task[d])
      BY <1>1, <2>5 DEF Go
    <3> QED BY <2>1, <3>1, DisturbedIs
  <2> QED BY <2>2, <2>3, <2>4, <2>5
<1>4. task' = [d \in Conns |-> task'[d]]
  BY <1>1 DEF Go
<1> QED BY <1>1, <1>2, <1>3, <1>4 DEF IInv

LEMMA NoTaskIs == NoTask \in Task
BY DEF NoTask, Task, Pcs, Bytes

LEMMA AnsweredIs ==
    ASSUME NEW status \in {"ok", "failed", "lost", "dropped"}
    PROVE  /\ Answered(status) \in Task
           /\ ~Running(Answered(status))
           /\ Answered(status).status = status
<1>1. Answered(status) \in Task
  BY NoTaskIs DEF Answered, Task, Pcs
<1>2. Answered(status).pc = "done" /\ Answered(status).status = status
  BY DEF Answered, NoTask
<1> QED BY <1>1, <1>2 DEF Running

\* t and u are the same request with the same plan.
Kin(t, u) ==
    /\ u.req = t.req /\ u.exists = t.exists /\ u.len = t.len /\ u.start = t.start
    /\ u.count = t.count /\ u.ranged = t.ranged /\ u.append = t.append
    /\ u.before = t.before /\ u.alone = t.alone /\ u.status = t.status

LEMMA KinSettled ==
    ASSUME NEW t, NEW u, NEW ty \in BOOLEAN, Settled(t, ty), Kin(t, u),
           u.sent <= Len(t.req.frames),
           u.wrote => ty /\ t.ranged,
           ty /\ ~t.ranged /\ u.pc # "stage" => ~BodyRefused(t)
    PROVE  Settled(u, ty)
<1>1. Planned(u, ty)
  BY DEF Kin, Settled, Planned, ResultingSize
<1>2. BodyRefused(u) <=> BodyRefused(t)
  BY DEF Kin, BodyRefused
<1> QED BY <1>1, <1>2 DEF Kin, Settled

-----------------------------------------------------------------------------
(* How a step may end.                                                     *)

\* With the file as it was, and the request goes on.
LEMMA GoesOn ==
    ASSUME IInv, NEW c \in Conns, NEW u \in Task, Working(u, file, typed),
           Go(c, u, file)
    PROVE  Moves(c)
<1>1. u.status = "none"
  BY DEF Working, Settled
<1>2. Promises(task[c], u, file, file, typed)
  BY <1>1 DEF Promises
<1>3. TaskOK(u, file, typed) /\ file \in File \cup {NoFile}
  BY DEF IInv, TaskOK
<1> QED BY <1>2, <1>3 DEF Moves

\* With the file as it was, and an answer that is no success.
LEMMA Quits ==
    ASSUME IInv, NEW c \in Conns, NEW status \in {"failed", "lost", "dropped"},
           Go(c, Answered(status), file),
           Running(task[c]) /\ task[c].alone /\ status = "failed" /\ typed
              => \/ Content(file) = task[c].before
                 \/ task[c].pc = "seek" /\ task[c].created /\ Content(file) = <<>>
    PROVE  Moves(c)
<1>1. /\ Answered(status) \in Task
      /\ ~Running(Answered(status))
      /\ Answered(status).status = status
  BY AnsweredIs
<1>2. Promises(task[c], Answered(status), file, file, typed)
  BY <1>1 DEF Promises
<1>3. TaskOK(Answered(status), file, typed) /\ file \in File \cup {NoFile}
  BY <1>1 DEF IInv, TaskOK
<1> QED BY <1>2, <1>3 DEF Moves

\* A request that still knows what was there.
Restorable(t, ty) ==
    /\ Settled(t, ty)
    /\ t.pc # "stage"
    /\ t.alone => /\ t.exists <=> t.before # NoBytes
                  /\ t.len = Len(Before(t))
                  /\ ty => t.old = t.before

LEMMA AtIs ==
    ASSUME NEW t \in Task, NEW pc \in Pcs
    PROVE  /\ At(t, pc) \in Task /\ Kin(t, At(t, pc))
           /\ At(t, pc).pc = pc
           /\ At(t, pc).sent = t.sent /\ At(t, pc).wrote = t.wrote
           /\ At(t, pc).fid = t.fid /\ At(t, pc).pos = t.pos
           /\ At(t, pc).old = t.old /\ At(t, pc).got = t.got /\ At(t, pc).want = t.want
BY DEF At, Task, Kin

LEMMA ClosedIs ==
    ASSUME NEW t \in Task
    PROVE  /\ Closed(t) \in Task /\ Kin(t, Closed(t))
           /\ Closed(t).pc = t.pc
           /\ Closed(t).sent = t.sent /\ Closed(t).wrote = t.wrote /\ Closed(t).old = t.old
<1>1. <<>> \in Bytes /\ 0 \in Nat
  BY DEF Bytes
<1>2. Closed(t) \in Task
  BY <1>1 DEF Closed, Task
<1> QED BY <1>2 DEF Closed, Task, Kin

\* With the file as it was, which will be undone.
LEMMA Undoes ==
    ASSUME IInv, NEW c \in Conns, NEW t \in Task, Restorable(t, typed),
           Go(c, Undone(t), file)
    PROVE  Moves(c)
<1>1. CASE ~typed
  <2>1. Go(c, Answered("failed"), file)
    BY <1>1 DEF Undone
  <2> QED BY <1>1, <2>1, Quits
<1>2. CASE typed
  <2> DEFINE u == Undone(t)
             pc == IF t.old # NoBytes THEN "undoOpen" ELSE "remove"
  <2>1. u = At(Closed(t), pc)
    BY <1>2 DEF Undone
  <2>2. pc \in {"undoOpen", "remove"} /\ pc \in Pcs
    BY DEF Pcs
  <2> HIDE DEF pc
  <2>3. u \in Task
    BY <2>1, <2>2, ClosedIs, AtIs
  <2>4. Kin(t, u) /\ u.pc = pc /\ u.sent = t.sent /\ u.wrote = t.wrote /\ u.old = t.old
    <3>1. Kin(t, Closed(t)) /\ Kin(Closed(t), u)
      BY <2>1, <2>2, ClosedIs, AtIs
    <3> QED BY <2>1, <2>2, <3>1, ClosedIs, AtIs DEF Kin
  <2> HIDE DEF u
  <2>5. Settled(u, typed)
    <3>1. typed \in BOOLEAN
      BY DEF IInv
    <3> QED BY <2>4, <3>1, KinSettled DEF Restorable, Settled
  <2>6. ASSUME u.alone PROVE Quiet(u, file, typed)
    <3>1. /\ ~Preparing(u) /\ ~Reading(u)
          /\ u.pc \notin {"stage", "readLen", "read", "seek", "write", "flush", "undoWrite"}
      BY <2>2, <2>4 DEF Preparing, Reading
    <3>2. u.pc = "remove" => u.old = NoBytes
      BY <2>4 DEF pc
    <3>3. Before(u) = Before(t)
      BY <2>4 DEF Kin, Before
    <3> QED BY <2>4, <2>6, <3>1, <3>2, <3>3 DEF Quiet, Restorable, Kin
  <2>7. Go(c, u, file)
    BY DEF u
  <2>8. u.pc \in {"undoOpen", "undoWrite"} => u.old # NoBytes
    BY <2>4 DEF pc
  <2>9. Placed(u, typed)
    BY <2>2, <2>4 DEF Placed, Preparing, Reading
  <2> QED BY <2>3, <2>5, <2>6, <2>7, <2>8, <2>9, GoesOn DEF Working
<1> QED BY <1>1, <1>2

LEMMA FailingIs ==
    ASSUME NEW t \in Task, NEW failed \in BOOLEAN, NEW ty \in BOOLEAN
    PROVE  /\ Failing(t, failed) \in Task
           /\ Restorable(t, ty) => Restorable(Failing(t, failed), ty)
           /\ Failing(t, failed).wrote = t.wrote
<1> DEFINE u == Failing(t, failed)
<1>1. u = t \/ u = [t EXCEPT !.failing = TRUE]
  BY DEF Failing
<1> HIDE DEF u
<1>4. u \in Task
  <2>1. [t EXCEPT !.failing = TRUE] \in Task
    BY DEF Task
  <2> QED BY <1>1, <2>1
<1>2. Kin(t, u) /\ u.pc = t.pc /\ u.sent = t.sent /\ u.wrote = t.wrote /\ u.old = t.old
  BY <1>1 DEF Task, Kin
<1>3. ASSUME Restorable(t, ty) PROVE Restorable(u, ty)
  <2>1. Settled(u, ty)
    BY <1>2, <1>3, KinSettled DEF Restorable, Settled
  <2>2. Before(u) = Before(t)
    BY <1>2 DEF Kin, Before
  <2> QED BY <1>2, <1>3, <2>1, <2>2 DEF Restorable, Kin
<1> QED BY <1>4, <1>2, <1>3 DEF u

LEMMA MayFailIs ==
    ASSUME NEW c, NEW failed \in MayFail(c)
    PROVE  failed \in BOOLEAN
BY DEF MayFail

-----------------------------------------------------------------------------
(* The steps, one by one.                                                  *)

LEMMA AtWork ==
    ASSUME IInv, NEW c \in Conns, Running(task[c])
    PROVE  /\ task[c] \in Task
           /\ Settled(task[c], typed)
           /\ Placed(task[c], typed)
           /\ task[c].pc \in {"undoOpen", "undoWrite"} => task[c].old # NoBytes
           /\ task[c].alone => Quiet(task[c], file, typed)
           /\ typed \in BOOLEAN
           /\ file \in File \cup {NoFile}
           /\ NoFile \notin File
           /\ task[c].req \in Requests
           /\ task[c].req.frames \in Seq(Bytes)
<1>1. NoFile \notin File
  BY PutAssumption DEF File
<1>2. TaskOK(task[c], file, typed)
  BY DEF IInv
<1>3. task[c].req \in Requests
  BY <1>2 DEF TaskOK, Working, Settled, Planned
<1> QED BY <1>1, <1>2, <1>3, RequestsAre DEF IInv, TaskOK, Working

LEMMA StageMoves ==
    ASSUME IInv, NEW c \in Conns, Stage(c)
    PROVE  Moves(c)
<1> DEFINE t == task[c]
           pc == IF t.exists THEN "readOpen" ELSE "open"
           u == At(t, pc)
<1>1. t.pc = "stage"
  BY DEF Stage
<1>2. Running(t) /\ ~Reading(t) /\ Preparing(t)
  BY <1>1 DEF Running, Reading, Preparing
<1>3. /\ t \in Task /\ Settled(t, typed) /\ Placed(t, typed) /\ typed \in BOOLEAN
      /\ t.alone => Quiet(t, file, typed)
  BY <1>2, AtWork
<1>4. CASE BodyRefused(t)
  <2>1. Go(c, Answered("failed"), file)
    BY <1>4 DEF Stage
  <2> QED BY <1>2, <1>3, <2>1, Quits DEF Quiet
<1>5. CASE ~BodyRefused(t)
  <2>1. Go(c, u, file)
    BY <1>5 DEF Stage
  <2>2. pc \in Pcs /\ pc \in {"readOpen", "open"}
    BY DEF Pcs
  <2>3. u \in Task /\ Kin(t, u) /\ u.pc = pc /\ u.sent = t.sent /\ u.wrote = t.wrote /\ u.old = t.old
    <3> HIDE DEF t, pc
    <3> QED BY <1>3, <2>2, AtIs
  <2> HIDE DEF u
  <2>4. Settled(u, typed)
    <3> HIDE DEF t
    <3> QED BY <1>3, <1>5, <2>3, KinSettled DEF Settled
  <2>5. ASSUME u.alone PROVE Quiet(u, file, typed)
    <3>1. Quiet(t, file, typed)
      BY <1>3, <2>3, <2>5 DEF Kin
    <3>2. Content(file) = t.before /\ ~t.wrote /\ t.old = NoBytes
          /\ (t.exists <=> t.before # NoBytes) /\ t.len = Len(Before(t))
      BY <1>1, <1>2, <3>1 DEF Quiet
    <3>3. Before(u) = Before(t)
      BY <2>3 DEF Kin, Before
    <3>4. (u.pc = "readOpen" /\ t.exists) \/ (u.pc = "open" /\ ~t.exists)
      <4>1. t.exists \in BOOLEAN
        BY <1>3 DEF Task
      <4> HIDE DEF t
      <4> QED BY <2>3, <4>1
    <3> HIDE DEF t, pc
    <3> QED BY <2>3, <3>2, <3>3, <3>4 DEF Quiet, Kin, Reading, Preparing
  <2>6. Placed(u, typed)
    <3>1. t.sent = 0
      BY <1>2, <1>3 DEF Placed
    <3> HIDE DEF t
    <3> QED BY <2>2, <2>3, <3>1 DEF Placed
  <2> QED BY <2>1, <2>3, <2>4, <2>5, <2>6, GoesOn DEF Working
<1> QED BY <1>4, <1>5

LEMMA MetadataMoves ==
    ASSUME IInv, NEW c \in Conns, Metadata(c)
    PROVE  Moves(c)
<1> DEFINE exists == file # NoFile
           len == IF exists THEN Len(file.bytes) ELSE 0
<1>1. PICK req \in Workload[c] :
         LET plan == Plan(req, exists, len)
             t    == [NoTask EXCEPT !.req = req, !.exists = exists, !.len = len,
                         !.ranged = plan.ranged, !.append = plan.append, !.start = plan.start,
                         !.count = plan.count, !.before = Content(file)]
         IN  Go(c, IF \/ HeadersRefused(req, exists, len)
                      \/ PlanRefused(plan, exists, len)
                      \/ plan.count # NoCount /\ TooLarge(t, plan.count)
                   THEN Answered("failed") ELSE Prepared(t), file)
  BY DEF Metadata
<1> DEFINE plan == Plan(req, exists, len)
           t == [NoTask EXCEPT !.req = req, !.exists = exists, !.len = len,
                    !.ranged = plan.ranged, !.append = plan.append, !.start = plan.start,
                    !.count = plan.count, !.before = Content(file)]
           refused == \/ HeadersRefused(req, exists, len)
                      \/ PlanRefused(plan, exists, len)
                      \/ plan.count # NoCount /\ TooLarge(t, plan.count)
<1>2. ~Running(task[c])
  BY DEF Metadata, Running
<1>3. CASE refused
  <2>1. Go(c, Answered("failed"), file)
    BY <1>1, <1>3
  <2> QED BY <1>2, <2>1, Quits
<1>4. CASE ~refused
  <2>1. Go(c, Prepared(t), file)
    BY <1>1, <1>4
  <2>2. /\ req \in Requests /\ typed \in BOOLEAN /\ file \in File \cup {NoFile}
        /\ exists \in BOOLEAN
    BY DEF Requests, IInv
  <2>3. len \in Nat /\ (~exists => len = 0) /\ Content(file) \in Bytes \cup {NoBytes}
        /\ (exists <=> Content(file) # NoBytes) /\ (exists => len = Len(Content(file)))
    BY <2>2, PutAssumption DEF File, Content, Bytes
  <2> HIDE DEF exists, len
  <2>4. /\ plan.ranged \in BOOLEAN /\ plan.append \in BOOLEAN
        /\ plan.start \in Nat /\ plan.count \in Nat \cup {NoCount}
    BY <1>4, <2>2, <2>3, PlanIs
  <2>5. ~HeadersRefused(req, exists, len) /\ ~PlanRefused(plan, exists, len)
        /\ (plan.count # NoCount => ~TooLarge(t, plan.count))
    BY <1>4
  <2> HIDE DEF plan
  <2>6. t \in Task
    BY <2>2, <2>3, <2>4, NoTaskIs DEF Task
  <2>7. /\ t.req = req /\ t.exists = exists /\ t.len = len /\ t.ranged = plan.ranged
        /\ t.append = plan.append /\ t.start = plan.start /\ t.count = plan.count
        /\ t.before = Content(file) /\ t.alone = TRUE /\ t.status = "none" /\ t.sent = 0
        /\ t.wrote = FALSE /\ t.old = NoBytes
    BY DEF NoTask
  <2> HIDE DEF t
  <2>8. Planned(t, typed)
    <3>1. Plan(t.req, t.exists, t.len) = plan
      BY <2>7 DEF plan
    <3>2. typed /\ t.count # NoCount => ResultingSize(t, t.count) <= MaxResource
      <4>1. t.count \in Nat => ResultingSize(t, t.count) \in Nat
        BY <2>6, SizeIs
      <4> QED BY <2>4, <2>5, <2>7, <4>1, PutAssumption DEF TooLarge
    <3>3. ~HeadersRefused(t.req, t.exists, t.len)
      BY <2>5, <2>7
    <3>4. ~PlanRefused(plan, t.exists, t.len)
      BY <2>5, <2>7
    <3> QED BY <2>2, <2>3, <2>7, <3>1, <3>2, <3>3, <3>4 DEF Planned
  <2> DEFINE u == Prepared(t)
             pc == IF typed /\ ~t.ranged THEN "stage"
                   ELSE IF typed /\ t.exists THEN "readOpen" ELSE "open"
  <2>9. u = At(t, pc)
    BY DEF Prepared
  <2>10. pc \in Pcs /\ pc \in {"stage", "readOpen", "open"}
    BY DEF Pcs
  <2>11. u \in Task /\ Kin(t, u) /\ u.pc = pc /\ u.sent = t.sent /\ u.wrote = t.wrote /\ u.old = t.old
    <3> HIDE DEF pc
    <3> QED BY <2>6, <2>9, <2>10, AtIs
  <2> HIDE DEF u
  <2>12. Settled(u, typed)
    <3>1. Planned(u, typed)
      BY <2>8, <2>11 DEF Kin, Planned, ResultingSize
    <3>2. typed /\ ~u.ranged => u.pc = "stage"
      BY <2>11 DEF Kin
    <3>3. u.sent <= Len(u.req.frames)
      BY <2>2, <2>7, <2>11, RequestsAre DEF Kin
    <3> QED BY <2>7, <2>11, <3>1, <3>2, <3>3 DEF Settled, Kin
  <2>13. Quiet(u, file, typed)
    <3>1. Before(u) = Before(t) /\ t.len = Len(Before(t))
      BY <2>3, <2>7, <2>11 DEF Kin, Before
    <3>2. u.pc = "readOpen" => u.exists
      BY <2>11 DEF Kin
    <3>3. u.pc = "open" => ~typed \/ ~u.exists
      BY <2>11 DEF Kin
    <3> HIDE DEF pc
    <3> QED BY <2>3, <2>7, <2>10, <2>11, <3>1, <3>2, <3>3 DEF Quiet, Kin, Reading, Preparing
  <2>14. Placed(u, typed)
    <3> HIDE DEF pc
    <3> QED BY <2>7, <2>10, <2>11 DEF Placed
  <2> QED BY <2>1, <2>11, <2>12, <2>13, <2>14, GoesOn DEF Working, u
<1> QED BY <1>3, <1>4

\* Before the write the file is as it was, after it there is what it was.
LEMMA ReadFails ==
    ASSUME IInv, NEW c \in Conns, Reading(task[c]), NEW failed \in BOOLEAN,
           Go(c, ReadFailed(Failing(task[c], failed)), file)
    PROVE  Moves(c)
<1> DEFINE t == task[c]
           v == Failing(t, failed)
<1>1. Running(t) /\ t.pc # "stage"
  BY DEF Running, Reading
<1>2. /\ t \in Task /\ Settled(t, typed) /\ typed \in BOOLEAN
      /\ t.alone => Quiet(t, file, typed)
  BY <1>1, AtWork
<1>3. v \in Task /\ v.wrote = t.wrote /\ (Restorable(t, typed) => Restorable(v, typed))
  BY <1>2, FailingIs
<1>4. CASE t.wrote
  <2>1. Restorable(t, typed)
    BY <1>1, <1>2, <1>4 DEF Restorable, Quiet
  <2>2. Go(c, Undone(v), file)
    BY <1>3, <1>4 DEF ReadFailed
  <2> HIDE DEF v
  <2> QED BY <1>3, <2>1, <2>2, Undoes
<1>5. CASE ~t.wrote
  <2>1. Go(c, Answered("failed"), file)
    BY <1>3, <1>5 DEF ReadFailed
  <2>2. t.alone => Content(file) = t.before
    BY <1>2, <1>5 DEF Quiet, Preparing
  <2> QED BY <2>1, <2>2, Quits
<1> QED BY <1>4, <1>5

\* The reading goes on.
LEMMA ReadsOn ==
    ASSUME IInv, NEW c \in Conns, Reading(task[c]), NEW u \in Task, Kin(task[c], u),
           Reading(u), u.sent = task[c].sent, u.wrote = task[c].wrote, u.old = task[c].old,
           u.pc \in {"readLen", "read"},
           u.alone => /\ Holds(u, file)
                      /\ u.got = SubSeq(file.bytes, 1, Len(u.got)) /\ u.pos = Len(u.got)
                      /\ u.pc = "readLen" => u.got = <<>>
                      /\ u.pc = "read" =>
                            /\ u.want = Least(Len(file.bytes), IF u.wrote THEN MaxResource ELSE u.len)
                            /\ Len(u.got) <= u.want,
           Go(c, u, file)
    PROVE  Moves(c)
<1> DEFINE t == task[c]
<1>1. Running(t) /\ t.pc # "stage"
  BY DEF Running, Reading
<1>2. /\ t \in Task /\ Settled(t, typed) /\ Placed(t, typed) /\ typed \in BOOLEAN
      /\ t.alone => Quiet(t, file, typed)
  BY <1>1, AtWork
<1>3. Settled(u, typed)
  BY <1>1, <1>2, KinSettled DEF Settled
<1>4. ASSUME u.alone PROVE Quiet(u, file, typed)
  <2>1. Quiet(t, file, typed)
    BY <1>2, <1>4 DEF Kin
  <2>2. Before(u) = Before(t) /\ Partial(u) = Partial(t) /\ Total(u) = Total(t)
    BY DEF Kin, Before, Partial, Base, Begin, Total
  <2>3. Preparing(u) <=> Preparing(t)
    BY DEF Preparing, Reading
  <2>4. Entire(u, file) <=> Entire(t, file)
    BY <2>2 DEF Entire, Kin
  <2>5. /\ u.exists <=> u.before # NoBytes
        /\ u.len = Len(Before(u))
        /\ Preparing(u) => Content(file) = u.before /\ ~u.wrote
        /\ Reading(u) /\ ~u.wrote => u.exists
        /\ (Reading(u) => u.wrote) /\ typed => u.old = u.before
        /\ Reading(u) /\ u.wrote => Entire(u, file) /\ u.count = Total(u)
    BY <1>1, <2>1, <2>2, <2>3, <2>4 DEF Quiet, Kin
  <2>6. u.pc \notin {"stage", "write", "flush", "undoOpen", "undoWrite", "remove"}
    OBVIOUS
  <2> QED BY <1>4, <2>5, <2>6 DEF Quiet
<1>5. Placed(u, typed)
  BY <1>2 DEF Placed, Preparing, Reading
<1> QED BY <1>3, <1>4, <1>5, GoesOn DEF Working

LEMMA ReadOpenMoves ==
    ASSUME IInv, NEW c \in Conns, ReadOpen(c)
    PROVE  Moves(c)
<1> DEFINE t == task[c]
           u == [At(t, "readLen") EXCEPT !.fid = file.id, !.pos = 0, !.got = <<>>]
<1>1. t.pc = "readOpen" /\ Reading(t) /\ Running(t)
  BY DEF ReadOpen, Reading, Running
<1>2. /\ t \in Task /\ Settled(t, typed) /\ typed \in BOOLEAN
      /\ t.alone => Quiet(t, file, typed)
      /\ file \in File \cup {NoFile} /\ NoFile \notin File
  BY <1>1, AtWork
<1>3. PICK failed \in MayFail(c) :
         Go(c, IF failed \/ file = NoFile THEN ReadFailed(Failing(t, failed)) ELSE u, file)
  BY DEF ReadOpen
<1>4. failed \in BOOLEAN
  BY MayFailIs
<1>5. CASE failed \/ file = NoFile
  BY <1>1, <1>3, <1>4, <1>5, ReadFails
<1>6. CASE ~failed /\ file # NoFile
  <2>1. Go(c, u, file)
    BY <1>3, <1>6
  <2>2. file \in File /\ file.id \in Nat /\ file.bytes \in Bytes
    BY <1>2, <1>6 DEF File
  <2>3. <<>> \in Bytes /\ 0 \in Nat /\ Len(<<>>) = 0 /\ SubSeq(file.bytes, 1, 0) = <<>>
    BY <2>2, ReadAll DEF Bytes
  <2>4. /\ At(t, "readLen") \in Task /\ Kin(t, At(t, "readLen"))
        /\ At(t, "readLen").pc = "readLen"
        /\ At(t, "readLen").sent = t.sent /\ At(t, "readLen").wrote = t.wrote
        /\ At(t, "readLen").old = t.old
    BY <1>2, AtIs DEF Pcs
  <2> DEFINE r == At(t, "readLen")
  <2> HIDE DEF r
  <2>5. u = [r EXCEPT !.fid = file.id, !.pos = 0, !.got = <<>>]
    BY DEF r
  <2>6. r \in Task /\ Kin(t, r) /\ r.pc = "readLen" /\ r.sent = t.sent /\ r.wrote = t.wrote
        /\ r.old = t.old
    BY <2>4 DEF r
  <2> HIDE DEF u
  <2>7. /\ u \in Task /\ u.pc = "readLen" /\ u.sent = t.sent /\ u.wrote = t.wrote /\ u.old = t.old
        /\ u.fid = file.id /\ u.pos = 0 /\ u.got = <<>>
    BY <2>2, <2>3, <2>5, <2>6 DEF Task
  <2>8. Kin(t, u)
    BY <2>5, <2>6 DEF Task, Kin
  <2>9. Reading(u) /\ Holds(u, file)
    BY <2>2, <2>7 DEF Reading, Holds
  <2>10. u.got = SubSeq(file.bytes, 1, Len(u.got)) /\ u.pos = Len(u.got)
    BY <2>3, <2>7
  <2> HIDE DEF t
  <2> QED BY <1>1, <2>1, <2>7, <2>8, <2>9, <2>10, ReadsOn DEF t
<1> QED BY <1>4, <1>5, <1>6

LEMMA ReachesIs ==
    ASSUME NEW t, file \in File \cup {NoFile}, NoFile \notin File
    PROVE  Reaches(t) <=> Holds(t, file)
BY DEF Reaches, Holds

LEMMA NotFailing == ASSUME NEW t PROVE Failing(t, FALSE) = t
BY DEF Failing

LEMMA ReadLenMoves ==
    ASSUME IInv, NEW c \in Conns, ReadLen(c)
    PROVE  Moves(c)
<1> DEFINE t == task[c]
           cap == IF t.wrote THEN MaxResource ELSE t.len
           len == Len(file.bytes)
           want == IF len > cap THEN cap ELSE len
           u == [At(t, "read") EXCEPT !.want = want]
<1>1. t.pc = "readLen" /\ Reading(t) /\ Running(t)
  BY DEF ReadLen, Reading, Running
<1>2. /\ t \in Task /\ Settled(t, typed) /\ typed \in BOOLEAN
      /\ t.alone => Quiet(t, file, typed)
      /\ file \in File \cup {NoFile} /\ NoFile \notin File
  BY <1>1, AtWork
<1>3. Go(c, IF ~Reaches(t) THEN ReadFailed(t) ELSE u, file)
  BY DEF ReadLen
<1>4. CASE ~Reaches(t)
  <2>1. Go(c, ReadFailed(Failing(t, FALSE)), file)
    BY <1>3, <1>4, NotFailing
  <2> QED BY <1>1, <2>1, ReadFails
<1>5. CASE Reaches(t)
  <2>1. Go(c, u, file)
    BY <1>3, <1>5
  <2>2. file \in File /\ file.id = t.fid /\ file.bytes \in Bytes /\ len \in Nat
    BY <1>2, <1>5, ReachesIs DEF File, Holds, Bytes
  <2>3. cap \in Nat
    BY <1>2, PutAssumption DEF Task
  <2>4. want \in Nat /\ want = Least(len, cap)
    BY <2>2, <2>3 DEF Least
  <2> HIDE DEF want, len
  <2> DEFINE r == At(t, "read")
  <2>5. /\ r \in Task /\ Kin(t, r) /\ r.pc = "read"
        /\ r.sent = t.sent /\ r.wrote = t.wrote /\ r.old = t.old
        /\ r.fid = t.fid /\ r.pos = t.pos /\ r.got = t.got
    BY <1>2, AtIs DEF Pcs
  <2> HIDE DEF r
  <2>6. u = [r EXCEPT !.want = want]
    BY DEF r
  <2> HIDE DEF u
  <2>7. /\ u \in Task /\ u.pc = "read" /\ u.sent = t.sent /\ u.wrote = t.wrote /\ u.old = t.old
        /\ u.fid = t.fid /\ u.pos = t.pos /\ u.got = t.got /\ u.want = want
    BY <2>4, <2>5, <2>6 DEF Task
  <2>8. Kin(t, u)
    BY <2>5, <2>6 DEF Task, Kin
  <2>9. Reading(u) /\ Holds(u, file)
    BY <2>2, <2>7 DEF Reading, Holds
  <2>10. u.want = Least(Len(file.bytes), IF u.wrote THEN MaxResource ELSE u.len)
    BY <2>4, <2>7, <2>8 DEF Kin, len
  <2>11. ASSUME u.alone
         PROVE  /\ u.got = SubSeq(file.bytes, 1, Len(u.got)) /\ u.pos = Len(u.got)
                /\ Len(u.got) <= u.want
    <3>1. Quiet(t, file, typed)
      BY <1>2, <2>8, <2>11 DEF Kin
    <3>2. t.got = SubSeq(file.bytes, 1, Len(t.got)) /\ t.pos = Len(t.got) /\ t.got = <<>>
      BY <1>1, <3>1 DEF Quiet
    <3>3. Len(t.got) = 0
      BY <3>2
    <3> HIDE DEF t
    <3> QED BY <2>4, <2>7, <3>2, <3>3
  <2> HIDE DEF t
  <2> QED BY <1>1, <2>1, <2>7, <2>8, <2>9, <2>10, <2>11, ReadsOn DEF t
<1> QED BY <1>4, <1>5

-----------------------------------------------------------------------------
(* The file while the body is written.                                     *)

\* What a request knows of the file that it came upon.
Sized(t) == (t.exists <=> t.before # NoBytes) /\ t.len = Len(Before(t))

LEMMA SettledIs ==
    ASSUME NEW t \in Task, NEW ty \in BOOLEAN, Settled(t, ty)
    PROVE  /\ t.req \in Requests /\ t.req.frames \in Seq(Bytes)
           /\ t.sent \in 0..Len(t.req.frames)
           /\ t.ranged => t.count # NoCount
           /\ ~t.ranged => t.start = 0 /\ ~t.append
<1>1. /\ t.req \in Requests /\ t.sent <= Len(t.req.frames)
      /\ ~HeadersRefused(t.req, t.exists, t.len)
      /\ t.ranged = Plan(t.req, t.exists, t.len).ranged
      /\ t.append = Plan(t.req, t.exists, t.len).append
      /\ t.start = Plan(t.req, t.exists, t.len).start
      /\ t.count = Plan(t.req, t.exists, t.len).count
  BY DEF Settled, Planned
<1>2. t.req.frames \in Seq(Bytes)
  BY <1>1, RequestsAre
<1>3. t.sent \in Nat /\ t.exists \in BOOLEAN /\ t.len \in Nat
  BY DEF Task
<1>4. t.sent \in 0..Len(t.req.frames)
  BY <1>1, <1>2, <1>3
<1> QED BY <1>1, <1>2, <1>3, <1>4, PlanIs

LEMMA PartialIs ==
    ASSUME NEW t \in Task, NEW ty \in BOOLEAN, Settled(t, ty)
    PROVE  /\ Before(t) \in Bytes /\ Len(Before(t)) \in Nat
           /\ Base(t) \in Bytes /\ Begin(t) \in Nat
           /\ Received(t.req)[t.sent] \in Bytes
           /\ Total(t) \in Nat
           /\ Partial(t) \in Bytes
<1>1. Before(t) \in Bytes /\ Len(Before(t)) \in Nat
  BY DEF Before, Task, Bytes
<1>2. Base(t) \in Bytes /\ Begin(t) \in Nat
  BY <1>1 DEF Base, Begin, Task, Bytes
<1>3. Received(t.req)[t.sent] \in Bytes
  BY SettledIs, ReceivedIs
<1>4. Total(t) \in Nat
  BY <1>3 DEF Total, Bytes
<1>5. Partial(t) \in Bytes
  BY <1>2, <1>3, WrittenIs DEF Partial
<1> QED BY <1>1, <1>2, <1>3, <1>4, <1>5

\* One more frame.
LEMMA PartialGrows ==
    ASSUME NEW t \in Task, NEW u \in Task, NEW ty \in BOOLEAN, Settled(t, ty), Kin(t, u),
           t.sent < Len(t.req.frames), u.sent = t.sent + 1
    PROVE  /\ t.req.frames[t.sent + 1] \in Bytes
           /\ Total(u) = Total(t) + Len(t.req.frames[t.sent + 1])
           /\ Partial(u) = Written(Partial(t), Begin(t) + Total(t), t.req.frames[t.sent + 1])
<1> DEFINE s == t.sent
           R == Received(t.req)
           frame == t.req.frames[s + 1]
<1>1. /\ t.req.frames \in Seq(Bytes) /\ s \in 0..Len(t.req.frames)
      /\ s + 1 \in 1..Len(t.req.frames) /\ (s + 1) - 1 = s /\ s + 1 # 0
  BY SettledIs
<1>2. frame \in Bytes
  BY <1>1
<1>3. R[s] \in Bytes /\ R[0] = <<>> /\ R[s + 1] = R[(s + 1) - 1] \o frame
  BY <1>1, ReceivedIs
<1>4. R[s + 1] = R[s] \o frame
  BY <1>1, <1>3
<1>5. Total(t) = Len(R[s]) /\ Total(u) = Len(R[s + 1])
  BY DEF Total, Kin
<1>6. Total(u) = Total(t) + Len(frame)
  BY <1>2, <1>3, <1>4, <1>5, JoinIs
<1>7. Base(t) \in Bytes /\ Begin(t) \in Nat /\ Base(u) = Base(t) /\ Begin(u) = Begin(t)
  BY PartialIs DEF Kin, Base, Begin, Before
<1>8. Partial(u) = Written(Base(t), Begin(t), R[s + 1])
  BY <1>1, <1>7 DEF Partial, Kin
<1>9. Partial(u) = Written(Partial(t), Begin(t) + Total(t), frame)
  <2> HIDE DEF frame, R
  <2>1. CASE s = 0
    <3>1. Partial(t) = Base(t)
      BY <2>1 DEF Partial
    <3>2. Len(R[s]) = 0 /\ R[s] = <<>>
      BY <1>3, <2>1
    <3>3. R[s + 1] = frame
      BY <1>2, <1>4, <3>2, ConcatEmptySeq DEF Bytes
    <3>4. Begin(t) + Total(t) = Begin(t)
      BY <1>5, <1>7, <3>2
    <3> QED BY <1>8, <3>1, <3>3, <3>4
  <2>2. CASE s # 0
    <3>1. Partial(t) = Written(Base(t), Begin(t), R[s])
      BY <2>2 DEF Partial, R
    <3>2. Written(Written(Base(t), Begin(t), R[s]), Begin(t) + Len(R[s]), frame)
             = Written(Base(t), Begin(t), R[s] \o frame)
      BY <1>2, <1>3, <1>7, WritesJoin
    <3> QED BY <1>4, <1>5, <1>8, <3>1, <3>2
  <2> QED BY <2>1, <2>2
<1> QED BY <1>2, <1>6, <1>9

\* resulting_resource_size is right: no part of the body makes more of it.
LEMMA SizeIsRight ==
    ASSUME NEW t \in Task, NEW ty \in BOOLEAN, Settled(t, ty), Sized(t), t.ranged,
           NEW n \in Nat, Total(t) <= n
    PROVE  Len(Partial(t)) <= ResultingSize(t, n)
<1>1. /\ Base(t) \in Bytes /\ Begin(t) \in Nat /\ Total(t) \in Nat
      /\ Received(t.req)[t.sent] \in Bytes
      /\ t.len \in Nat /\ t.start \in Nat /\ t.append \in BOOLEAN
  BY PartialIs DEF Task
<1>2. Len(Base(t)) = t.len
  BY DEF Base, Sized
<1>3. t.append => Begin(t) = t.len
  BY DEF Begin, Sized
<1>4. ~t.append => Begin(t) = t.start
  BY DEF Begin
<1>5. CASE t.sent = 0
  <2>1. Len(Partial(t)) = t.len
    BY <1>2, <1>5 DEF Partial
  <2> QED BY <1>1, <2>1 DEF ResultingSize
<1>6. CASE t.sent # 0
  <2>1. Len(Partial(t)) = Most(t.len, Begin(t) + Total(t))
    <3> DEFINE r == Received(t.req)[t.sent]
    <3>1. Partial(t) = Written(Base(t), Begin(t), r) /\ Total(t) = Len(r)
      BY <1>6 DEF Partial, Total
    <3> HIDE DEF r
    <3>2. r \in Bytes
      BY <1>1 DEF r
    <3>3. Len(Written(Base(t), Begin(t), r)) = Most(Len(Base(t)), Begin(t) + Len(r))
      BY <1>1, <3>2, WrittenIs
    <3> QED BY <1>2, <3>1, <3>3
  <2> QED BY <1>1, <1>3, <1>4, <2>1 DEF ResultingSize, Most
<1> QED BY <1>5, <1>6

\* An object that is written whole is its body.
LEMMA WholeBody ==
    ASSUME NEW t \in Task, NEW ty \in BOOLEAN, Settled(t, ty), ~t.ranged, NEW f, Entire(t, f)
    PROVE  Partial(t) = Body(t.req)
<1>1. t.req \in Requests /\ t.req.frames \in Seq(Bytes)
  BY SettledIs
<1>2. Body(t.req) = Received(t.req)[t.sent] /\ Body(t.req) \in Bytes
  BY <1>1, RequestsAre DEF Body, Entire
<1>3. Base(t) = <<>> /\ Begin(t) = 0
  BY SettledIs DEF Base, Begin
<1>4. t.sent # 0 => Partial(t) = Body(t.req)
  BY <1>2, <1>3, WriteAll DEF Partial
<1>5. t.sent = 0 => Partial(t) = Body(t.req)
  BY <1>1, <1>2, <1>3, ReceivedIs DEF Partial
<1> QED BY <1>4, <1>5

\* A request whose body is all written, and as long as announced, is done.
LEMMA EntireIsExact ==
    ASSUME NEW t \in Task, NEW ty \in BOOLEAN, Settled(t, ty), Sized(t), NEW f, Entire(t, f),
           NoFile \notin File, t.count \in {NoCount, Total(t)}
    PROVE  Exact(t, f)
<1> DEFINE req == t.req
           old == Before(t)
           body == Body(req)
           plan == Plan(req, t.exists, t.len)
<1>1. /\ req \in Requests /\ t.ranged \in BOOLEAN /\ body \in Bytes
      /\ old \in Bytes /\ Len(old) \in Nat
      /\ req.frames \in Seq(Bytes)
  BY SettledIs, RequestsAre, PartialIs DEF Task
<1>2. /\ req.update \in Ranges /\ req.update.kind \notin {"star", "bytes"}
      /\ req.content \in Ranges /\ req.content.kind \in {"none", "star", "bytes"}
  BY <1>1, RequestsAre DEF IsRequest
<1>3. req.update.kind \in {"none", "fromTo", "from", "last", "append"}
  BY <1>2 DEF Ranges
<1>4. body = Received(req)[t.sent] /\ Total(t) = Len(body)
  BY DEF Body, Entire, Total
<1>5. ~req.broken /\ Content(f) = Partial(t)
  BY DEF Entire, Content
<1>6. /\ t.ranged = (req.update.kind # "none" \/ req.content.kind = "bytes")
      /\ t.append = (req.update.kind = "append")
      /\ t.start = plan.start
      /\ t.count = IF req.content.kind = "bytes" /\ req.count = NoCount THEN Width(req.content) ELSE req.count
  BY DEF Settled, Planned, Plan
<1>7. req.count \in {NoCount, Len(body)}
  BY <1>4, <1>6
<1>8. CASE ~t.ranged
  <2>1. req.update.kind = "none" /\ req.content.kind # "bytes"
    BY <1>6, <1>8
  <2>2. Expected(req, old) = body
    BY <2>1 DEF Expected
  <2>3. Partial(t) = body
    BY <1>8, WholeBody
  <2> QED BY <1>5, <1>7, <2>2, <2>3 DEF Exact
<1>9. CASE t.ranged /\ t.sent = 0
  <2>1. body = <<>>
    BY <1>1, <1>4, <1>9, ReceivedIs
  <2>2. Partial(t) = old
    BY <1>9 DEF Partial, Base
  <2> QED BY <1>5, <1>7, <1>9, <2>1, <2>2 DEF Exact
<1>10. CASE t.ranged /\ t.sent # 0
  <2>1. Partial(t) = Written(old, Begin(t), body)
    BY <1>4, <1>10 DEF Partial, Base
  <2>2. CASE req.update.kind = "append"
    <3>1. Begin(t) = Len(old)
      BY <1>6, <2>2 DEF Begin
    <3>2. Partial(t) = old \o body
      BY <1>1, <2>1, <3>1, WriteAppends
    <3>3. Expected(req, old) = old \o body
      BY <2>2 DEF Expected
    <3> QED BY <1>5, <1>7, <3>2, <3>3 DEF Exact
  <2>3. CASE req.update.kind # "append"
    <3>1. Begin(t) = plan.start
      BY <1>6, <2>3 DEF Begin
    <3>2. CASE req.content.kind = "bytes"
      <4>1. plan.start = req.content.b
        BY <3>2 DEF Plan
      <4>2. Expected(req, old) = Written(old, req.content.b, body)
        BY <2>3, <3>2 DEF Expected
      <4> QED BY <1>5, <1>7, <2>1, <3>1, <4>1, <4>2 DEF Exact
    <3>3. CASE req.content.kind # "bytes" /\ req.update.kind = "last"
      <4>1. plan.start = Len(old) - req.update.b
        BY <3>3 DEF Plan, Sized
      <4>2. Expected(req, old) = Written(old, Len(old) - req.update.b, body)
        BY <3>3 DEF Expected
      <4> QED BY <1>5, <1>7, <2>1, <3>1, <4>1, <4>2 DEF Exact
    <3>4. CASE req.content.kind # "bytes" /\ req.update.kind \in {"fromTo", "from"}
      <4>1. plan.start = req.update.b
        BY <3>4 DEF Plan
      <4>2. Expected(req, old) = Written(old, req.update.b, body)
        BY <3>4 DEF Expected
      <4> QED BY <1>5, <1>7, <2>1, <3>1, <4>1, <4>2 DEF Exact
    <3> QED BY <1>3, <1>6, <1>10, <2>3, <3>2, <3>3, <3>4
  <2> QED BY <2>2, <2>3
<1> QED BY <1>1, <1>8, <1>9, <1>10

-----------------------------------------------------------------------------
(* The steps that depend on the bytes.                                     *)

LEMMA ChunkIs ==
    ASSUME NEW d \in Bytes, NEW k \in Nat, NEW n \in Int
    PROVE  BytesAt(d, k, n) \in Bytes
<1> DEFINE e == IF k + n > Len(d) THEN Len(d) ELSE k + n
<1>1. /\ Len(d) \in Nat /\ e \in Int /\ e <= Len(d) /\ k + 1 \in Int
      /\ \A i \in 1..Len(d) : d[i] \in Nat
  BY DEF Bytes
<1>2. \A i \in k + 1..e : d[i] \in Nat
  BY <1>1
<1>3. BytesAt(d, k, n) = SubSeq(d, k + 1, e)
  BY DEF BytesAt
<1> HIDE DEF e
<1> QED BY <1>1, <1>2, <1>3, SubSeqProperties DEF Bytes

LEMMA ReadsDone ==
    ASSUME IInv, NEW c \in Conns, task[c].pc = "read", NEW bytes \in Bytes,
           Go(c, ReadDone(task[c], bytes), file),
           task[c].alone => bytes = SubSeq(file.bytes, 1, task[c].want)
    PROVE  Moves(c)
<1> DEFINE t == task[c]
<1>1. Running(t) /\ Reading(t)
  BY DEF Running, Reading
<1>2. /\ t \in Task /\ Settled(t, typed) /\ Placed(t, typed) /\ typed \in BOOLEAN
      /\ t.alone => Quiet(t, file, typed)
      /\ file \in File \cup {NoFile} /\ NoFile \notin File
  BY <1>1, AtWork
<1>3. ASSUME t.alone
      PROVE  /\ file \in File /\ file.bytes \in Bytes /\ Content(file) = file.bytes
             /\ Sized(t)
             /\ t.want = Least(Len(file.bytes), IF t.wrote THEN MaxResource ELSE t.len)
  BY <1>2, <1>3 DEF Quiet, Holds, File, Content, Sized
<1>4. ASSUME t.alone, Len(file.bytes) <= (IF t.wrote THEN MaxResource ELSE t.len)
      PROVE  bytes = Content(file)
  <2>1. Len(file.bytes) \in Nat
    BY <1>3, <1>4 DEF Bytes
  <2>2. (IF t.wrote THEN MaxResource ELSE t.len) \in Nat
    BY <1>2, PutAssumption DEF Task
  <2>3. t.want = Len(file.bytes)
    BY <1>3, <1>4, <2>1, <2>2 DEF Least
  <2> QED BY <1>3, <1>4, <2>3, ReadAll
<1>5. CASE ~t.wrote
  <2> DEFINE r == At(Closed(t), "open")
             u == [r EXCEPT !.old = bytes]
  <2>1. Go(c, u, file)
    BY <1>5 DEF ReadDone
  <2>2. r \in Task /\ Kin(t, r) /\ r.pc = "open" /\ r.sent = t.sent /\ r.wrote = t.wrote
    <3>1. /\ Closed(t) \in Task /\ Kin(t, Closed(t))
          /\ Closed(t).sent = t.sent /\ Closed(t).wrote = t.wrote
      BY <1>2, ClosedIs
    <3>2. "open" \in Pcs
      BY DEF Pcs
    <3> HIDE DEF t
    <3> QED BY <3>1, <3>2, AtIs DEF Kin
  <2> HIDE DEF r
  <2>3. /\ u \in Task /\ u.pc = "open" /\ u.sent = t.sent /\ u.wrote = t.wrote /\ u.old = bytes
    BY <2>2 DEF Task
  <2>4. Kin(t, u)
    BY <2>2 DEF Task, Kin
  <2> HIDE DEF u
  <2>5. Settled(u, typed)
    BY <1>1, <1>2, <2>3, <2>4, KinSettled DEF Settled, Reading
  <2>6. ASSUME u.alone PROVE Quiet(u, file, typed)
    <3>1. t.alone /\ Quiet(t, file, typed) /\ Sized(t)
      BY <1>2, <1>3, <2>4, <2>6 DEF Kin
    <3>2. Content(file) = t.before /\ t.exists
      BY <1>1, <1>5, <3>1 DEF Quiet, Preparing
    <3>3. Len(file.bytes) <= t.len
      <4>1. t.len = Len(file.bytes)
        BY <1>3, <3>1, <3>2 DEF Sized, Before
      <4>2. Len(file.bytes) \in Nat
        BY <1>3, <3>1 DEF Bytes
      <4> QED BY <4>1, <4>2
    <3>4. bytes = t.before
      BY <1>4, <1>5, <3>1, <3>2, <3>3
    <3>5. Before(u) = Before(t)
      BY <2>4 DEF Kin, Before
    <3> HIDE DEF t
    <3> QED BY <1>5, <2>3, <2>4, <3>1, <3>2, <3>4, <3>5 DEF Quiet, Sized, Kin, Reading, Preparing
  <2>7. Placed(u, typed)
    <3>1. t.sent = 0
      BY <1>1, <1>2, <1>5 DEF Placed, Preparing
    <3> QED BY <2>3, <3>1 DEF Placed
  <2> QED BY <2>1, <2>3, <2>5, <2>6, <2>7, GoesOn DEF Working, u
<1>6. CASE t.wrote /\ bytes \in Valid
  <2>1. Go(c, Answered("ok"), file)
    BY <1>6 DEF ReadDone
  <2>2. typed /\ t.ranged
    BY <1>2, <1>6 DEF Settled
  <2>3. ASSUME t.alone PROVE Exact(t, file) /\ Content(file) \in Valid
    <3>1. Entire(t, file) /\ t.count = Total(t) /\ Sized(t)
      BY <1>1, <1>2, <1>3, <1>6, <2>3 DEF Quiet
    <3>2. Exact(t, file)
      BY <1>2, <3>1, EntireIsExact
    <3>3. Total(t) \in Nat
      BY <1>2, PartialIs
    <3>4. Len(Partial(t)) <= ResultingSize(t, t.count)
      <4>1. t.count \in Nat /\ Total(t) <= t.count
        BY <3>1, <3>3
      <4> QED BY <1>2, <2>2, <3>1, <4>1, SizeIsRight
    <3>5. ResultingSize(t, t.count) <= MaxResource
      <4>1. t.count # NoCount
        BY <3>1, <3>3, PutAssumption
      <4> QED BY <1>2, <2>2, <4>1 DEF Settled, Planned
    <3>6. ResultingSize(t, t.count) \in Nat /\ Len(Partial(t)) \in Nat
      BY <1>2, <3>1, <3>3, SizeIs, PartialIs DEF Bytes
    <3>7. Len(file.bytes) <= MaxResource
      BY <3>1, <3>4, <3>5, <3>6, PutAssumption DEF Entire
    <3>8. bytes = Content(file)
      BY <1>4, <1>6, <2>3, <3>7
    <3> QED BY <1>6, <3>2, <3>8
  <2>4. /\ Answered("ok") \in Task /\ ~Running(Answered("ok")) /\ Answered("ok").status = "ok"
    BY AnsweredIs
  <2>5. Promises(t, Answered("ok"), file, file, typed)
    BY <2>3, <2>4 DEF Promises
  <2> QED BY <1>2, <2>1, <2>4, <2>5 DEF Moves, TaskOK
<1>7. CASE t.wrote /\ bytes \notin Valid
  <2>1. Go(c, Undone(t), file)
    BY <1>7 DEF ReadDone
  <2>2. Restorable(t, typed)
    BY <1>1, <1>2, <1>7 DEF Restorable, Quiet, Reading
  <2> QED BY <1>2, <2>1, <2>2, Undoes
<1> QED BY <1>5, <1>6, <1>7

LEMMA ReadMoves ==
    ASSUME IInv, NEW c \in Conns, Read(c)
    PROVE  Moves(c)
<1> DEFINE t == task[c]
           n == t.want - Len(t.got)
           chunk == BytesAt(file.bytes, t.pos, n)
           u == [t EXCEPT !.got = t.got \o chunk, !.pos = t.pos + Len(chunk)]
<1>1. t.pc = "read" /\ Running(t) /\ Reading(t)
  BY DEF Read, Running, Reading
<1>2. /\ t \in Task /\ Settled(t, typed) /\ typed \in BOOLEAN
      /\ t.alone => Quiet(t, file, typed)
      /\ file \in File \cup {NoFile} /\ NoFile \notin File
  BY <1>1, AtWork
<1>3. Go(c, IF Len(t.got) = t.want THEN ReadDone(t, t.got)
            ELSE IF ~Reaches(t) THEN ReadFailed(t)
            ELSE IF chunk = <<>> THEN ReadDone(t, t.got) ELSE u, file)
  BY <1>2 DEF Read, Task
<1>4. t.got \in Bytes /\ Len(t.got) \in Nat /\ t.pos \in Nat /\ t.want \in Nat /\ n \in Int
  BY <1>2 DEF Task, Bytes
<1>5. ASSUME t.alone
      PROVE  /\ file \in File /\ file.bytes \in Bytes /\ Len(file.bytes) \in Nat
             /\ t.got = SubSeq(file.bytes, 1, Len(t.got)) /\ t.pos = Len(t.got)
             /\ t.want = Least(Len(file.bytes), IF t.wrote THEN MaxResource ELSE t.len)
             /\ Len(t.got) <= t.want /\ t.want <= Len(file.bytes)
  <2>1. Quiet(t, file, typed)
    BY <1>2, <1>5
  <2>2. /\ file \in File /\ t.got = SubSeq(file.bytes, 1, Len(t.got)) /\ t.pos = Len(t.got)
        /\ t.want = Least(Len(file.bytes), IF t.wrote THEN MaxResource ELSE t.len)
        /\ Len(t.got) <= t.want
    BY <1>1, <2>1 DEF Quiet, Holds
  <2>3. file.bytes \in Bytes /\ Len(file.bytes) \in Nat
    BY <2>2 DEF File, Bytes
  <2>4. (IF t.wrote THEN MaxResource ELSE t.len) \in Nat
    BY <1>2, PutAssumption DEF Task
  <2>5. t.want <= Len(file.bytes)
    BY <2>2, <2>3, <2>4 DEF Least
  <2> QED BY <2>2, <2>3, <2>5
<1>6. CASE Len(t.got) = t.want
  <2>1. Go(c, ReadDone(t, t.got), file)
    BY <1>3, <1>6
  <2>2. t.alone => t.got = SubSeq(file.bytes, 1, t.want)
    BY <1>5, <1>6
  <2> QED BY <1>1, <1>4, <2>1, <2>2, ReadsDone
<1>7. CASE Len(t.got) # t.want /\ ~Reaches(t)
  <2>1. Go(c, ReadFailed(Failing(t, FALSE)), file)
    BY <1>3, <1>7, NotFailing
  <2> QED BY <1>1, <2>1, ReadFails
<1>8. CASE Len(t.got) # t.want /\ Reaches(t)
  <2>1. file \in File /\ file.id = t.fid /\ file.bytes \in Bytes
    BY <1>2, <1>8, ReachesIs DEF File, Holds
  <2>2. ASSUME t.alone
        PROVE  /\ n > 0
               /\ t.pos + Len(chunk) <= Len(file.bytes)
               /\ Len(chunk) <= n
               /\ t.got \o chunk = SubSeq(file.bytes, 1, t.pos + Len(chunk))
               /\ chunk # <<>>
    <3>1. n > 0 /\ t.pos <= Len(file.bytes) /\ t.pos # Len(file.bytes)
      BY <1>4, <1>5, <1>8, <2>2
    <3>2. /\ t.pos + Len(chunk) <= Len(file.bytes)
          /\ n >= 0 => Len(chunk) <= n
          /\ SubSeq(file.bytes, 1, t.pos) \o chunk = SubSeq(file.bytes, 1, t.pos + Len(chunk))
          /\ chunk = <<>> /\ n > 0 => t.pos = Len(file.bytes)
      <4> HIDE DEF n
      <4> QED BY <1>4, <2>1, <3>1, ReadsJoin
    <3>3. n >= 0
      BY <1>4, <3>1
    <3>4. SubSeq(file.bytes, 1, t.pos) = t.got
      BY <1>5, <2>2
    <3> HIDE DEF chunk, n, t
    <3> QED BY <3>1, <3>2, <3>3, <3>4
  <2>3. CASE chunk = <<>>
    <3>1. Go(c, ReadDone(t, t.got), file)
      BY <1>3, <1>8, <2>3
    <3> QED BY <1>1, <1>4, <2>2, <2>3, <3>1, ReadsDone
  <2>4. CASE chunk # <<>>
    <3>1. Go(c, u, file)
      BY <1>3, <1>8, <2>4
    <3>2. chunk \in Bytes
      <4> HIDE DEF n
      <4> QED BY <1>4, <2>1, ChunkIs
    <3> HIDE DEF chunk
    <3>3. t.got \o chunk \in Bytes /\ Len(chunk) \in Nat /\ Len(t.got \o chunk) = Len(t.got) + Len(chunk)
      BY <1>4, <3>2, JoinIs
    <3> DEFINE got == t.got \o chunk
               pos == t.pos + Len(chunk)
    <3>4. got \in Bytes /\ pos \in Nat
      BY <1>4, <3>3
    <3> HIDE DEF got, pos
    <3>5. u = [t EXCEPT !.got = got, !.pos = pos]
      BY DEF got, pos
    <3> HIDE DEF u
    <3>6. /\ u \in Task /\ u.pc = "read" /\ u.sent = t.sent /\ u.wrote = t.wrote /\ u.old = t.old
          /\ u.fid = t.fid /\ u.pos = pos /\ u.got = got /\ u.want = t.want
      BY <1>1, <1>2, <3>4, <3>5 DEF Task
    <3>7. Kin(t, u)
      BY <1>2, <3>5 DEF Task, Kin
    <3>8. Reading(u) /\ Holds(u, file)
      BY <2>1, <3>6 DEF Reading, Holds
    <3>9. ASSUME u.alone
          PROVE  /\ u.got = SubSeq(file.bytes, 1, Len(u.got)) /\ u.pos = Len(u.got)
                 /\ Len(u.got) <= u.want
                 /\ u.want = Least(Len(file.bytes), IF u.wrote THEN MaxResource ELSE u.len)
      <4>1. t.alone
        BY <3>7, <3>9 DEF Kin
      <4>2. Len(got) = pos
        BY <1>4, <1>5, <3>3, <4>1 DEF got, pos
      <4>3. got = SubSeq(file.bytes, 1, pos)
        BY <2>2, <4>1 DEF got, pos
      <4>4. pos <= t.want
        BY <1>4, <1>5, <2>2, <3>3, <4>1 DEF pos
      <4> QED BY <1>5, <3>6, <3>7, <4>1, <4>2, <4>3, <4>4 DEF Kin
    <3> HIDE DEF t
    <3> QED BY <1>1, <3>1, <3>6, <3>7, <3>8, <3>9, ReadsOn DEF t
  <2> QED BY <2>3, <2>4
<1> QED BY <1>6, <1>7, <1>8

-----------------------------------------------------------------------------
(* The steps that change the file.                                         *)

\* A whole object that gets beyond its validation is valid.
LEMMA Accepted ==
    ASSUME NEW t, Settled(t, TRUE), ~t.ranged, t.pc # "stage"
    PROVE  /\ ~t.req.broken /\ Body(t.req) \in Valid
           /\ Len(Body(t.req)) <= MaxResource
<1>1. t.req \in Requests /\ ~BodyRefused(t)
  BY DEF Settled, Planned
<1>2. Len(Body(t.req)) \in Nat
  BY <1>1, RequestsAre DEF Bytes
<1> QED BY <1>1, <1>2, PutAssumption DEF BodyRefused

\* The file becomes f, and the request goes on.
LEMMA Changes ==
    ASSUME IInv, NEW c \in Conns, NEW u \in Task, NEW f \in File, Working(u, f, typed),
           Running(task[c]), task[c].pc # "stage", Go(c, u, f),
           task[c].pc = "write" /\ f # file /\ typed => Fits(task[c], file, f)
    PROVE  Moves(c)
<1>1. u.status = "none"
  BY DEF Working, Settled
<1>2. typed \in BOOLEAN /\ Settled(task[c], typed)
  BY AtWork
<1>3. typed /\ ~task[c].ranged => ~task[c].req.broken /\ Body(task[c].req) \in Valid
  BY <1>2, Accepted
<1>4. Promises(task[c], u, file, f, typed)
  BY <1>1, <1>3 DEF Promises
<1> QED BY <1>4 DEF Moves, TaskOK

LEMMA NothingYet ==
    ASSUME NEW t \in Task, NEW ty \in BOOLEAN, Settled(t, ty), t.sent = 0
    PROVE  Total(t) = 0
<1>1. Received(t.req)[0] = <<>>
  BY SettledIs, ReceivedIs
<1> QED BY <1>1 DEF Total

LEMMA OpenMoves ==
    ASSUME IInv, NEW c \in Conns, Open(c)
    PROVE  Moves(c)
<1> DEFINE t == task[c]
           new == file = NoFile
           id == IF new THEN FreshId ELSE file.id
           bytes == IF new \/ ~t.ranged THEN <<>> ELSE file.bytes
           opened == [id |-> id, bytes |-> bytes]
           pc == IF t.ranged THEN "seek" ELSE "write"
           r == At(t, pc)
           u == [r EXCEPT !.fid = id, !.pos = 0, !.created = new]
<1>1. t.pc = "open" /\ Running(t) /\ Preparing(t) /\ ~Reading(t)
  BY DEF Open, Running, Preparing, Reading
<1>2. /\ t \in Task /\ Settled(t, typed) /\ Placed(t, typed) /\ typed \in BOOLEAN
      /\ t.alone => Quiet(t, file, typed)
      /\ file \in File \cup {NoFile} /\ NoFile \notin File
      /\ t.req.frames \in Seq(Bytes)
  BY <1>1, AtWork
<1>3. \/ Go(c, Answered("failed"), file)
      \/ Go(c, u, opened)
  BY DEF Open
<1>4. CASE Go(c, Answered("failed"), file)
  <2>1. t.alone => Content(file) = t.before
    BY <1>1, <1>2 DEF Quiet
  <2> QED BY <1>4, <2>1, Quits
<1>5. CASE Go(c, u, opened)
  <2>1. id \in Nat /\ bytes \in Bytes /\ new \in BOOLEAN
    BY <1>2, FreshIdIs DEF File, Bytes
  <2>2. ASSUME t.alone PROVE bytes = Base(t)
    <3>1. Content(file) = t.before
      BY <1>1, <1>2, <2>2 DEF Quiet
    <3>2. CASE file = NoFile
      <4>1. Before(t) = <<>>
        BY <3>1, <3>2 DEF Content, Before
      <4> QED BY <3>2, <4>1 DEF Base
    <3>3. CASE file # NoFile
      <4>1. file.bytes \in Bytes
        BY <1>2, <3>3 DEF File
      <4>2. Before(t) = file.bytes
        BY <3>1, <3>3, <4>1, PutAssumption DEF Content, Before
      <4> QED BY <3>3, <4>2 DEF Base
    <3> QED BY <3>2, <3>3
  <2>11. t.alone => (new <=> t.before = NoBytes)
    <3> SUFFICES ASSUME t.alone PROVE new <=> t.before = NoBytes
      OBVIOUS
    <3>1. Content(file) = t.before
      BY <1>1, <1>2 DEF Quiet
    <3>2. file # NoFile => file.bytes \in Bytes
      BY <1>2 DEF File
    <3> QED BY <3>1, <3>2, PutAssumption DEF Content
  <2>12. t.sent = 0
    BY <1>1, <1>2 DEF Placed
  <2>13. pc \in Pcs /\ pc \in {"seek", "write"} /\ (pc = "seek" <=> t.ranged)
    BY DEF Pcs
  <2> HIDE DEF id, bytes, new, pc
  <2>3. opened \in File /\ opened.id = id /\ opened.bytes = bytes
    BY <2>1 DEF File
  <2> HIDE DEF opened
  <2>4. r \in Task /\ Kin(t, r) /\ r.pc = pc /\ r.sent = t.sent /\ r.wrote = t.wrote /\ r.old = t.old
    BY <1>2, <2>13, AtIs
  <2> HIDE DEF r
  <2>6. /\ u \in Task /\ u.pc = pc /\ u.sent = t.sent /\ u.wrote = t.wrote /\ u.old = t.old
        /\ u.fid = id /\ u.pos = 0 /\ u.created = new
    BY <2>1, <2>4 DEF Task
  <2>7. Kin(t, u)
    BY <2>4 DEF Task, Kin
  <2> HIDE DEF u
  <2>8. Settled(u, typed)
    BY <1>1, <1>2, <2>6, <2>7, <2>13, KinSettled DEF Settled
  <2>9. ASSUME u.alone PROVE Quiet(u, opened, typed)
    <3>1. t.alone /\ Quiet(t, file, typed)
      BY <1>2, <2>7, <2>9 DEF Kin
    <3>2. /\ t.exists <=> t.before # NoBytes
          /\ t.len = Len(Before(t))
          /\ typed => t.old = t.before
      BY <1>1, <3>1 DEF Quiet
    <3>3. Partial(u) = bytes /\ Base(u) = bytes
      BY <2>2, <2>6, <2>7, <2>12, <3>1, <3>2 DEF Partial, Base, Before, Kin
    <3>4. u.created <=> u.before = NoBytes
      BY <2>6, <2>7, <2>11, <3>1 DEF Kin
    <3>5. Before(u) = Before(t) /\ u.start = t.start
      BY <2>7 DEF Kin, Before
    <3>6. ~Preparing(u) /\ ~Reading(u) /\ Holds(u, opened)
      BY <2>3, <2>6, <2>13 DEF Preparing, Reading, Holds
    <3> HIDE DEF t
    <3> QED BY <2>3, <2>6, <2>7, <2>13, <3>2, <3>3, <3>4, <3>5, <3>6 DEF Quiet, Kin
  <2>14. Placed(u, typed)
    <3>1. u.sent = 0 /\ u.ranged = t.ranged
      BY <2>6, <2>7, <2>12 DEF Kin
    <3>2. u.pc = "write" => u.start = 0 /\ Total(u) = 0
      BY <1>2, <2>6, <2>7, <2>8, <2>13, <3>1, SettledIs, NothingYet DEF Kin
    <3> HIDE DEF t
    <3> QED BY <2>6, <2>13, <3>1, <3>2 DEF Placed
  <2>10. Working(u, opened, typed)
    BY <2>6, <2>8, <2>9, <2>13, <2>14 DEF Working
  <2> QED BY <1>1, <1>5, <2>3, <2>6, <2>10, Changes DEF u, opened
<1> QED BY <1>3, <1>4, <1>5

LEMMA SeekMoves ==
    ASSUME IInv, NEW c \in Conns, Seek(c)
    PROVE  Moves(c)
<1> DEFINE t == task[c]
           r == At(t, "write")
           u == [r EXCEPT !.pos = t.start]
<1>1. t.pc = "seek" /\ Running(t) /\ ~Reading(t) /\ ~Preparing(t)
  BY DEF Seek, Running, Reading, Preparing
<1>2. /\ t \in Task /\ Settled(t, typed) /\ Placed(t, typed) /\ typed \in BOOLEAN
      /\ t.alone => Quiet(t, file, typed)
      /\ file \in File \cup {NoFile} /\ NoFile \notin File
  BY <1>1, AtWork
<1>3. t.sent = 0 /\ t.ranged /\ t.start \in Nat
  BY <1>1, <1>2 DEF Placed, Task
<1>4. \/ Go(c, Answered("failed"), file)
      \/ Go(c, u, file)
  BY DEF Seek
<1>5. CASE Go(c, Answered("failed"), file)
  <2>1. ASSUME t.alone PROVE Content(file) = t.before \/ (t.created /\ Content(file) = <<>>)
    <3>1. Quiet(t, file, typed)
      BY <1>2, <2>1
    <3>2. file \in File /\ file.bytes = Before(t) /\ (t.created <=> t.before = NoBytes)
      BY <1>1, <1>3, <3>1 DEF Quiet, Holds, Base
    <3>3. Content(file) = Before(t)
      BY <1>2, <3>2 DEF Content
    <3> QED BY <3>2, <3>3 DEF Before
  <2> QED BY <1>1, <1>5, <2>1, Quits
<1>6. CASE Go(c, u, file)
  <2>1. r \in Task /\ Kin(t, r) /\ r.pc = "write" /\ r.sent = t.sent /\ r.wrote = t.wrote
        /\ r.old = t.old /\ r.fid = t.fid
    BY <1>2, AtIs DEF Pcs
  <2> HIDE DEF r
  <2>2. /\ u \in Task /\ u.pc = "write" /\ u.sent = t.sent /\ u.wrote = t.wrote /\ u.old = t.old
        /\ u.fid = t.fid /\ u.pos = t.start
    BY <1>3, <2>1 DEF Task
  <2>3. Kin(t, u)
    BY <2>1 DEF Task, Kin
  <2> HIDE DEF u
  <2>4. Settled(u, typed)
    BY <1>1, <1>2, <2>2, <2>3, KinSettled DEF Settled
  <2>5. Placed(u, typed)
    <3>1. Total(u) = 0 /\ u.start \in Nat
      BY <1>2, <1>3, <2>2, <2>4, NothingYet DEF Task
    <3>2. u.pos = u.start + Total(u)
      BY <2>2, <2>3, <3>1 DEF Kin
    <3> QED BY <1>3, <2>2, <3>2 DEF Placed, Preparing, Reading
  <2>6. ASSUME u.alone PROVE Quiet(u, file, typed)
    <3>1. t.alone /\ Quiet(t, file, typed)
      BY <1>2, <2>3, <2>6 DEF Kin
    <3>2. /\ t.exists <=> t.before # NoBytes
          /\ t.len = Len(Before(t))
          /\ typed => t.old = t.before
          /\ Holds(t, file) /\ file.bytes = Base(t)
      BY <1>1, <3>1 DEF Quiet
    <3>3. Before(u) = Before(t) /\ Partial(u) = Base(t)
      BY <1>3, <2>2, <2>3 DEF Kin, Before, Partial, Base
    <3>4. ~Preparing(u) /\ ~Reading(u) /\ Holds(u, file)
      BY <2>2, <3>2 DEF Preparing, Reading, Holds
    <3> HIDE DEF t
    <3> QED BY <2>2, <2>3, <3>2, <3>3, <3>4 DEF Quiet, Kin
  <2>7. Working(u, file, typed)
    BY <2>2, <2>4, <2>5, <2>6 DEF Working
  <2> QED BY <1>6, <2>2, <2>7, GoesOn DEF u
<1> QED BY <1>4, <1>5, <1>6

LEMMA UndoOpenMoves ==
    ASSUME IInv, NEW c \in Conns, UndoOpen(c)
    PROVE  Moves(c)
<1> DEFINE t == task[c]
           id == IF file = NoFile THEN FreshId ELSE file.id
           opened == [id |-> id, bytes |-> <<>>]
           r == At(t, "undoWrite")
           u == [r EXCEPT !.fid = id]
<1>1. t.pc = "undoOpen" /\ Running(t) /\ ~Reading(t)
  BY DEF UndoOpen, Running, Reading
<1>2. /\ t \in Task /\ Settled(t, typed) /\ typed \in BOOLEAN
      /\ t.pc \in {"undoOpen", "undoWrite"} => t.old # NoBytes
      /\ t.alone => Quiet(t, file, typed)
      /\ file \in File \cup {NoFile} /\ NoFile \notin File
  BY <1>1, AtWork
<1>3. \/ Go(c, Answered("lost"), file)
      \/ Go(c, u, opened)
  BY DEF UndoOpen
<1>4. CASE Go(c, Answered("lost"), file)
  BY <1>4, Quits
<1>5. CASE Go(c, u, opened)
  <2>1. id \in Nat /\ <<>> \in Bytes
    BY <1>2, FreshIdIs DEF File, Bytes
  <2> HIDE DEF id
  <2>2. opened \in File /\ opened.id = id /\ opened.bytes = <<>>
    BY <2>1 DEF File
  <2> HIDE DEF opened
  <2>3. r \in Task /\ Kin(t, r) /\ r.pc = "undoWrite" /\ r.sent = t.sent /\ r.wrote = t.wrote /\ r.old = t.old
    BY <1>2, AtIs DEF Pcs
  <2> HIDE DEF r
  <2>4. /\ u \in Task /\ u.pc = "undoWrite" /\ u.sent = t.sent /\ u.wrote = t.wrote /\ u.old = t.old
        /\ u.fid = id
    BY <2>1, <2>3 DEF Task
  <2>5. Kin(t, u)
    BY <2>3 DEF Task, Kin
  <2> HIDE DEF u
  <2>6. Settled(u, typed)
    BY <1>1, <1>2, <2>4, <2>5, KinSettled DEF Settled
  <2>7. ASSUME u.alone PROVE Quiet(u, opened, typed)
    <3>1. t.alone /\ Quiet(t, file, typed)
      BY <1>2, <2>5, <2>7 DEF Kin
    <3>2. /\ t.exists <=> t.before # NoBytes
          /\ t.len = Len(Before(t))
          /\ typed => t.old = t.before
      BY <1>1, <3>1 DEF Quiet
    <3>3. Before(u) = Before(t)
      BY <2>5 DEF Kin, Before
    <3>4. ~Preparing(u) /\ ~Reading(u) /\ Holds(u, opened)
      BY <2>2, <2>4 DEF Preparing, Reading, Holds
    <3> HIDE DEF t
    <3> QED BY <2>2, <2>4, <2>5, <3>2, <3>3, <3>4 DEF Quiet, Kin
  <2>8. Working(u, opened, typed)
    <3>1. Placed(u, typed)
      BY <2>4 DEF Placed, Preparing, Reading
    <3> QED BY <1>1, <1>2, <2>4, <2>6, <2>7, <3>1 DEF Working
  <2> QED BY <1>1, <1>5, <2>2, <2>4, <2>8, Changes DEF u, opened
<1> QED BY <1>3, <1>4, <1>5

\* Where a frame goes that is appended, when nobody else has written.
LEMMA AppendsAtEnd ==
    ASSUME NEW t \in Task, NEW ty \in BOOLEAN, Settled(t, ty), t.append
    PROVE  Len(Partial(t)) = Begin(t) + Total(t)
<1> DEFINE R == Received(t.req)[t.sent]
<1>1. /\ Base(t) \in Bytes /\ Before(t) \in Bytes /\ Len(Before(t)) \in Nat
      /\ R \in Bytes /\ t.ranged \in BOOLEAN
  BY PartialIs DEF Task
<1>2. t.ranged
  BY SettledIs
<1>3. Base(t) = Before(t) /\ Begin(t) = Len(Before(t)) /\ Total(t) = Len(R)
  BY <1>2 DEF Base, Begin, Total
<1>4. CASE t.sent = 0
  <2>1. Total(t) = 0
    BY <1>4, NothingYet
  <2>2. Partial(t) = Before(t)
    BY <1>3, <1>4 DEF Partial
  <2> QED BY <1>1, <1>3, <2>1, <2>2
<1>5. CASE t.sent # 0
  <2>1. Partial(t) = Written(Before(t), Len(Before(t)), R)
    BY <1>3, <1>5 DEF Partial
  <2>2. Partial(t) = Before(t) \o R
    BY <1>1, <2>1, WriteAppends
  <2> HIDE DEF R
  <2>3. Len(Before(t) \o R) = Len(Before(t)) + Len(R)
    BY <1>1, JoinIs
  <2> QED BY <1>3, <2>2, <2>3
<1> QED BY <1>4, <1>5

\* A request that is writing still knows what was there.
LEMMA WritingRestorable ==
    ASSUME IInv, NEW c \in Conns, task[c].pc \in {"write", "flush"}
    PROVE  Restorable(task[c], typed)
<1>1. Running(task[c]) /\ ~Reading(task[c]) /\ task[c].pc # "stage"
  BY DEF Running, Reading
<1> QED BY <1>1, AtWork DEF Restorable, Quiet

\* A write that goes through leaves the frames so far in the file.
LEMMA FrameMoves ==
    ASSUME IInv, NEW c \in Conns, NEW u \in Task, NEW buf \in Bytes, NEW pos \in Nat,
           task[c].pc = "write", task[c].sent < Len(task[c].req.frames),
           Holds(task[c], file),
           LET t == task[c]
               staged == typed /\ ~t.ranged
           IN  /\ Kin(t, u) /\ u.pc = "write" /\ u.wrote = t.wrote /\ u.old = t.old /\ u.fid = t.fid
               /\ buf = IF staged THEN Body(t.req) ELSE t.req.frames[t.sent + 1]
               /\ u.sent = IF staged THEN Len(t.req.frames) ELSE t.sent + 1
               /\ pos = IF t.append THEN Len(file.bytes) ELSE t.pos
               /\ u.pos = pos + Len(buf)
               /\ ~staged => ~TooLarge(t, Total(u)),
           Go(c, u, [file EXCEPT !.bytes = Written(file.bytes, pos, buf)])
    PROVE  Moves(c)
<1> DEFINE t == task[c]
           staged == typed /\ ~t.ranged
           f == [file EXCEPT !.bytes = Written(file.bytes, pos, buf)]
<1>1. Running(t) /\ ~Reading(t) /\ ~Preparing(t) /\ ~Reading(u) /\ ~Preparing(u) /\ t.pc # "stage"
  BY DEF Running, Reading, Preparing
<1>2. /\ t \in Task /\ Settled(t, typed) /\ Placed(t, typed) /\ typed \in BOOLEAN
      /\ t.alone => Quiet(t, file, typed)
      /\ t.req \in Requests /\ t.req.frames \in Seq(Bytes)
      /\ t.ranged \in BOOLEAN
  BY <1>1, AtWork DEF Task
<1>3. /\ file \in File /\ file.id = t.fid /\ file.bytes \in Bytes
      /\ Written(file.bytes, pos, buf) \in Bytes
  BY WrittenIs DEF Holds, File
<1>4. f \in File /\ f.id = t.fid /\ f.bytes = Written(file.bytes, pos, buf)
  BY <1>3 DEF File
<1> HIDE DEF f
<1>5. /\ Kin(t, u) /\ u.pc = "write" /\ u.wrote = t.wrote /\ u.old = t.old /\ u.fid = t.fid
      /\ u.sent = IF staged THEN Len(t.req.frames) ELSE t.sent + 1
  OBVIOUS
<1>6. Settled(u, typed)
  <2>1. u.sent <= Len(t.req.frames)
    <3>1. t.sent \in 0..Len(t.req.frames) /\ Len(t.req.frames) \in Nat
      BY <1>2, SettledIs
    <3> QED BY <1>5, <3>1
  <2> QED BY <1>1, <1>2, <1>5, <2>1, KinSettled DEF Settled
\* Where the frame goes, and how far it reaches.
<1>10. Placed(u, typed) /\ (~t.append => u.pos = u.start + Total(u))
  <2>1. /\ ~t.append => t.pos = t.start + Total(t)
        /\ staged => t.sent \in {0, Len(t.req.frames)}
    BY <1>2 DEF Placed
  <2>2. CASE staged
    <3>1. t.sent = 0 /\ u.sent = Len(t.req.frames) /\ buf = Body(t.req)
      <4>1. t.sent # Len(t.req.frames)
        BY <1>2, SettledIs
      <4> QED BY <2>1, <2>2, <4>1
    <3>2. t.start = 0 /\ ~t.append
      BY <1>2, <2>2, SettledIs
    <3>3. Total(t) = 0
      BY <1>2, <3>1, NothingYet
    <3>4. pos = 0
      BY <2>1, <3>2, <3>3
    <3>5. Received(u.req)[u.sent] = Body(t.req)
      BY <1>5, <3>1 DEF Kin, Body
    <3>6. Len(Body(t.req)) \in Nat
      BY <3>1 DEF Bytes
    <3>7. u.pos = u.start + Total(u)
      BY <1>5, <3>1, <3>2, <3>4, <3>5, <3>6 DEF Kin, Total
    <3>8. u.sent = Len(u.req.frames)
      BY <1>5, <3>1 DEF Kin
    <3> QED BY <1>1, <1>5, <3>7, <3>8 DEF Placed
  <2>3. CASE ~staged
    <3>1. u.sent = t.sent + 1 /\ buf = t.req.frames[t.sent + 1]
      BY <2>3
    <3>2. Total(u) = Total(t) + Len(buf)
      BY <1>2, <1>5, <3>1, PartialGrows
    <3>3. Total(t) \in Nat /\ Len(buf) \in Nat /\ t.start \in Nat
      <4>1. Total(t) \in Nat
        BY <1>2, PartialIs
      <4>2. t.start \in Nat
        BY <1>2 DEF Task
      <4>3. Len(buf) \in Nat
        BY DEF Bytes
      <4> QED BY <4>1, <4>2, <4>3
    <3>4. ~t.append => u.pos = u.start + Total(u)
      <4>1. u.start = t.start /\ (~t.append => pos = t.start + Total(t)) /\ u.pos = pos + Len(buf)
        BY <1>5, <2>1 DEF Kin
      <4> HIDE DEF t
      <4> QED BY <3>2, <3>3, <4>1
    <3>5. u.append = t.append /\ ~(typed /\ ~u.ranged)
      BY <1>5, <2>3 DEF Kin
    <3> QED BY <1>1, <1>5, <3>4, <3>5 DEF Placed
  <2> QED BY <2>2, <2>3
<1>11. ASSUME typed, ~t.append
       PROVE  Len(f.bytes) <= MaxResource \/ Len(f.bytes) <= Len(file.bytes)
  <2>1. u.pos = u.start + Total(u) /\ u.pos = pos + Len(buf) /\ u.start = t.start
    BY <1>5, <1>10, <1>11 DEF Kin
  <2>2. Total(u) \in Nat /\ Len(buf) \in Nat /\ Len(file.bytes) \in Nat /\ t.start \in Nat
    <3>1. Total(u) \in Nat
      BY <1>2, <1>6, PartialIs
    <3>2. t.start \in Nat
      BY <1>2 DEF Task
    <3>3. Len(buf) \in Nat /\ Len(file.bytes) \in Nat
      BY <1>3 DEF Bytes
    <3> QED BY <3>1, <3>2, <3>3
  <2>3. u.pos <= MaxResource
    <3>1. CASE staged
      <4>1. Len(Body(t.req)) <= MaxResource
        BY <1>1, <1>2, <3>1, Accepted
      <4>2. t.sent = 0 /\ buf = Body(t.req) /\ t.start = 0
        <5>1. t.sent # Len(t.req.frames)
          BY <1>2, SettledIs
        <5> QED BY <1>2, <3>1, <5>1, SettledIs DEF Placed
      <4>3. Total(t) = 0
        BY <1>2, <4>2, NothingYet
      <4>4. pos = 0
        BY <1>2, <1>11, <4>2, <4>3 DEF Placed
      <4> HIDE DEF t
      <4> QED BY <2>1, <2>2, <4>1, <4>2, <4>4
    <3>2. CASE ~staged
      <4>1. t.ranged /\ ~TooLarge(t, Total(u)) /\ t.len \in Nat
        BY <1>2, <1>11, <3>2 DEF Task
      <4>2. ResultingSize(t, Total(u)) \in Nat
        BY <1>2, <2>2, SizeIs
      <4>3. ResultingSize(t, Total(u)) <= MaxResource
        BY <1>11, <4>1, <4>2, PutAssumption DEF TooLarge
      <4> DEFINE end == t.start + Total(u)
      <4>4. ResultingSize(t, Total(u)) = IF t.len > end THEN t.len ELSE end
        BY <1>11, <4>1 DEF ResultingSize
      <4>5. end \in Nat /\ u.pos = end
        BY <2>1, <2>2
      <4> HIDE DEF end, t
      <4> QED BY <4>1, <4>2, <4>3, <4>4, <4>5, PutAssumption
    <3> QED BY <3>1, <3>2
  <2>4. pos + Len(buf) <= MaxResource
    BY <2>1, <2>3
  <2> HIDE DEF t, f
  <2>5. MaxResource \in Nat
    BY PutAssumption
  <2>6. LET w == Written(file.bytes, pos, buf)
        IN  Len(w) <= MaxResource \/ Len(w) <= Len(file.bytes)
    <3>1. file.bytes \in Bytes /\ pos \in Nat /\ buf \in Bytes
      BY <1>3
    <3> QED BY ONLY <2>4, <2>5, <3>1, WrittenReaches
  <2> QED BY <1>4, <2>6
<1>7. ASSUME t.alone
      PROVE  /\ f.bytes = Partial(u)
             /\ typed => Len(f.bytes) <= MaxResource
  <2>1. /\ file.bytes = Partial(t) /\ (~t.append => t.pos = t.start + Total(t))
        /\ staged => t.sent \in {0, Len(t.req.frames)}
        /\ Sized(t)
    BY <1>2, <1>7 DEF Quiet, Sized, Placed
  <2>2. CASE staged
    <3>1. t.sent = 0 /\ u.sent = Len(t.req.frames) /\ buf = Body(t.req)
      <4>1. t.sent # Len(t.req.frames)
        BY <1>2, SettledIs
      <4> QED BY <2>1, <2>2, <4>1
    <3>2. t.start = 0 /\ ~t.append
      BY <1>2, <2>2, SettledIs
    <3>3. Total(t) = 0
      BY <1>2, <3>1, NothingYet
    <3>4. pos = 0
      BY <2>1, <3>2, <3>3
    <3>5. file.bytes = <<>>
      BY <2>1, <2>2, <3>1 DEF Partial, Base
    <3>6. f.bytes = Body(t.req)
      BY <1>4, <3>1, <3>4, <3>5, WriteAll
    <3>7. u.sent # 0 /\ Base(u) = <<>> /\ Begin(u) = 0 /\ Received(u.req)[u.sent] = Body(t.req)
      BY <1>2, <1>5, <2>2, <3>1, <3>2, SettledIs DEF Base, Begin, Kin, Body
    <3>8. Partial(u) = Body(t.req)
      BY <3>1, <3>7, WriteAll DEF Partial
    <3>9. Len(Body(t.req)) <= MaxResource
      BY <1>1, <1>2, <2>2, Accepted
    <3> QED BY <3>6, <3>8, <3>9
  <2>3. CASE ~staged
    <3>1. u.sent = t.sent + 1 /\ buf = t.req.frames[t.sent + 1]
      BY <2>3
    <3>2. /\ Total(u) = Total(t) + Len(buf)
          /\ Partial(u) = Written(Partial(t), Begin(t) + Total(t), buf)
      BY <1>2, <1>5, <3>1, PartialGrows
    <3>3. pos = Begin(t) + Total(t)
      <4>1. CASE t.append
        BY <1>2, <2>1, <4>1, AppendsAtEnd
      <4>2. CASE ~t.append
        BY <2>1, <4>2 DEF Begin
      <4> QED BY <4>1, <4>2
    <3>4. f.bytes = Partial(u)
      BY <1>4, <2>1, <3>2, <3>3
    <3>6. typed => Len(f.bytes) <= MaxResource
      <4> SUFFICES ASSUME typed PROVE Len(f.bytes) <= MaxResource
        OBVIOUS
      <4>1. t.ranged /\ ~TooLarge(t, Total(u))
        BY <2>3
      <4>2. Total(u) \in Nat /\ Partial(u) \in Bytes
        BY <1>2, <1>6, PartialIs
      <4>3. ResultingSize(t, Total(u)) \in Nat /\ ResultingSize(u, Total(u)) = ResultingSize(t, Total(u))
        BY <1>2, <1>5, <4>2, SizeIs DEF ResultingSize, Kin
      <4>4. ResultingSize(t, Total(u)) <= MaxResource
        BY <4>1, <4>3, PutAssumption DEF TooLarge
      <4>5. u.ranged /\ Sized(u)
        BY <1>5, <2>1, <4>1 DEF Kin, Sized, Before
      <4>6. Total(u) <= Total(u)
        BY <4>2
      <4>7. Len(Partial(u)) <= ResultingSize(u, Total(u))
        BY <1>2, <1>6, <4>2, <4>5, <4>6, SizeIsRight
      <4>8. Len(Partial(u)) \in Nat
        BY <4>2 DEF Bytes
      <4> QED BY <3>4, <4>3, <4>4, <4>7, <4>8, PutAssumption
    <3> QED BY <3>4, <3>6
  <2> QED BY <2>2, <2>3
<1>8. ASSUME u.alone PROVE Quiet(u, f, typed)
  <2>1. t.alone /\ Quiet(t, file, typed)
    BY <1>2, <1>5, <1>8 DEF Kin
  <2>2. /\ t.exists <=> t.before # NoBytes
        /\ t.len = Len(Before(t))
        /\ typed => t.old = t.before
    BY <1>1, <2>1 DEF Quiet
  <2>3. Before(u) = Before(t) /\ Holds(u, f)
    BY <1>4, <1>5 DEF Kin, Before, Holds
  <2>4. f.bytes = Partial(u)
    BY <1>7, <2>1
  <2> HIDE DEF t
  <2> QED BY <1>1, <1>5, <2>2, <2>3, <2>4 DEF Quiet, Kin
<1>9. Working(u, f, typed)
  BY <1>5, <1>6, <1>8, <1>10 DEF Working
<1>12. typed => Fits(t, file, f)
  <2>1. t.alone \in BOOLEAN /\ t.append \in BOOLEAN
    BY <1>2 DEF Task
  <2> HIDE DEF t, f
  <2> QED BY <1>7, <1>11, <2>1 DEF Fits
<1> QED BY <1>1, <1>4, <1>9, <1>12, Changes DEF f

LEMMA WriteMoves ==
    ASSUME IInv, NEW c \in Conns, Write(c)
    PROVE  Moves(c)
<1> DEFINE t == task[c]
           staged == typed /\ ~t.ranged
           buf == IF staged THEN Body(t.req) ELSE t.req.frames[t.sent + 1]
           sent == IF staged THEN Len(t.req.frames) ELSE t.sent + 1
           next == [t EXCEPT !.sent = sent]
           pos == IF t.append THEN Len(file.bytes) ELSE t.pos
           over == ~staged /\ t.count # NoCount /\ Total(next) > t.count
           large == ~staged /\ TooLarge(t, Total(next))
           f == [file EXCEPT !.bytes = Written(file.bytes, pos, buf)]
           u == [next EXCEPT !.pos = pos + Len(buf)]
<1>1. t.pc = "write" /\ Running(t) /\ ~Reading(t) /\ t.sent < Len(t.req.frames)
  BY DEF Write, Running, Reading
<1>2. /\ t \in Task /\ Settled(t, typed) /\ typed \in BOOLEAN
      /\ t.alone => Quiet(t, file, typed)
      /\ file \in File \cup {NoFile} /\ NoFile \notin File
      /\ t.req \in Requests /\ t.req.frames \in Seq(Bytes)
  BY <1>1, AtWork
<1>3. /\ t.sent \in 0..Len(t.req.frames) /\ Len(t.req.frames) \in Nat
      /\ sent \in Nat /\ sent <= Len(t.req.frames) /\ buf \in Bytes
  BY <1>1, <1>2, SettledIs, RequestsAre
<1>4. \E failed \in MayFail(c) :
         IF large THEN Go(c, Undone(t), file)
         ELSE IF over THEN Go(c, At(next, "flush"), file)
         ELSE IF failed \/ ~Reaches(t) THEN Go(c, Undone(Failing(t, failed)), file)
         ELSE Go(c, u, f)
  <2>1. [t EXCEPT !.sent = IF staged THEN Len(t.req.frames) ELSE @ + 1] = next
    BY <1>2 DEF Task
  <2>2. file \in File => [file EXCEPT !.bytes = Written(@, pos, buf)] = f
    BY DEF File
  <2>3. Reaches(t) => file \in File
    BY <1>2 DEF Reaches
  <2> QED BY <2>1, <2>2, <2>3 DEF Write
<1>5. PICK failed \in MayFail(c) :
         IF large THEN Go(c, Undone(t), file)
         ELSE IF over THEN Go(c, At(next, "flush"), file)
         ELSE IF failed \/ ~Reaches(t) THEN Go(c, Undone(Failing(t, failed)), file)
         ELSE Go(c, u, f)
  BY <1>4
<1>6. Restorable(t, typed)
  BY <1>1, WritingRestorable
<1> HIDE DEF sent
<1>7. /\ next \in Task /\ next.pc = "write" /\ next.sent = sent /\ next.wrote = t.wrote
      /\ next.old = t.old /\ next.fid = t.fid
  BY <1>1, <1>2, <1>3 DEF Task
<1>8. Kin(t, next)
  BY <1>2 DEF Task, Kin
<1> HIDE DEF next
<1>9. CASE large
  <2>1. Go(c, Undone(t), file)
    BY <1>5, <1>9
  <2> QED BY <1>2, <1>6, <2>1, Undoes
<1>10. CASE ~large /\ over
  <2> DEFINE v == At(next, "flush")
  <2>1. Go(c, v, file)
    BY <1>5, <1>10
  <2>2. v \in Task /\ Kin(next, v) /\ v.pc = "flush" /\ v.sent = sent /\ v.wrote = t.wrote /\ v.old = t.old
    BY <1>7, AtIs DEF Pcs
  <2> HIDE DEF v
  <2>3. Kin(t, v)
    BY <1>8, <2>2 DEF Kin
  <2>4. Settled(v, typed)
    BY <1>1, <1>2, <1>3, <2>2, <2>3, KinSettled DEF Settled
  <2>5. v.count # NoCount /\ Total(v) > v.count
    <3>1. Total(v) = Total(next) /\ v.count = t.count
      BY <1>7, <2>2, <2>3 DEF Total, Kin
    <3> QED BY <1>10, <3>1
  <2>6. ASSUME v.alone PROVE Quiet(v, file, typed)
    <3>1. t.alone /\ Quiet(t, file, typed)
      BY <1>2, <2>3, <2>6 DEF Kin
    <3>2. /\ t.exists <=> t.before # NoBytes
          /\ t.len = Len(Before(t))
          /\ typed => t.old = t.before
          /\ file \in File
      BY <1>1, <3>1 DEF Quiet, Holds
    <3>3. Before(v) = Before(t)
      BY <2>3 DEF Kin, Before
    <3>4. ~Preparing(v) /\ ~Reading(v)
      BY <2>2 DEF Preparing, Reading
    <3> HIDE DEF t
    <3> QED BY <2>2, <2>3, <2>5, <3>2, <3>3, <3>4 DEF Quiet, Kin
  <2>7. Working(v, file, typed)
    <3>1. Placed(v, typed)
      BY <2>2 DEF Placed, Preparing, Reading
    <3> QED BY <2>2, <2>4, <2>6, <3>1 DEF Working
  <2> QED BY <2>1, <2>2, <2>7, GoesOn
<1>11. CASE ~large /\ ~over /\ (failed \/ ~Reaches(t))
  <2>1. Go(c, Undone(Failing(t, failed)), file)
    BY <1>5, <1>11
  <2>2. failed \in BOOLEAN
    BY MayFailIs
  <2>3. Failing(t, failed) \in Task /\ Restorable(Failing(t, failed), typed)
    BY <1>2, <1>6, <2>2, FailingIs
  <2> QED BY <2>1, <2>3, Undoes
<1>12. CASE ~large /\ ~over /\ ~failed /\ Reaches(t)
  <2>1. Go(c, u, f)
    BY <1>5, <1>12
  <2>2. Holds(t, file)
    BY <1>2, <1>12, ReachesIs
  <2>3. pos \in Nat
    <3>1. t.pos \in Nat /\ Len(file.bytes) \in Nat
      BY <1>2, <2>2 DEF Task, Holds, File, Bytes
    <3> QED BY <3>1
  <2>4. pos + Len(buf) \in Nat
    <3> HIDE DEF buf, pos
    <3>1. Len(buf) \in Nat
      BY <1>3 DEF Bytes
    <3> QED BY <2>3, <3>1
  <2> DEFINE end == pos + Len(buf)
  <2>5. u = [next EXCEPT !.pos = end] /\ end \in Nat
    BY <2>4
  <2> HIDE DEF end, u
  <2>6. /\ u \in Task /\ u.pc = "write" /\ u.sent = sent /\ u.wrote = t.wrote /\ u.old = t.old
        /\ u.fid = t.fid /\ u.pos = end
    BY <1>7, <2>5 DEF Task
  <2>7. Kin(next, u)
    BY <1>7, <2>5 DEF Task, Kin
  <2>8. Kin(t, u)
    BY <1>8, <2>7 DEF Kin
  <2>9. ~staged => ~TooLarge(t, Total(u))
    <3>1. Total(u) = Total(next)
      BY <1>7, <2>6, <2>7 DEF Total, Kin
    <3> QED BY <1>12, <3>1
  <2> QED BY <1>1, <1>3, <2>1, <2>2, <2>3, <2>6, <2>8, <2>9, FrameMoves DEF end, sent
<1> QED BY <1>9, <1>10, <1>11, <1>12

LEMMA EndOfBodyMoves ==
    ASSUME IInv, NEW c \in Conns, EndOfBody(c)
    PROVE  Moves(c)
<1> DEFINE t == task[c]
           u == At(t, "flush")
<1>1. t.pc = "write" /\ Running(t) /\ ~Reading(t) /\ t.sent = Len(t.req.frames)
  BY DEF EndOfBody, Running, Reading
<1>2. /\ t \in Task /\ Settled(t, typed) /\ typed \in BOOLEAN
      /\ t.alone => Quiet(t, file, typed)
  BY <1>1, AtWork
<1>3. CASE t.req.broken
  <2>1. Go(c, Undone(t), file)
    BY <1>3 DEF EndOfBody
  <2>2. Restorable(t, typed)
    BY <1>1, WritingRestorable
  <2> QED BY <1>2, <2>1, <2>2, Undoes
<1>4. CASE ~t.req.broken
  <2>1. Go(c, u, file)
    BY <1>4 DEF EndOfBody
  <2>2. u \in Task /\ Kin(t, u) /\ u.pc = "flush" /\ u.sent = t.sent /\ u.wrote = t.wrote /\ u.old = t.old
    BY <1>2, AtIs DEF Pcs
  <2> HIDE DEF u
  <2>3. Settled(u, typed)
    BY <1>1, <1>2, <2>2, KinSettled DEF Settled
  <2>4. ASSUME u.alone PROVE Quiet(u, file, typed)
    <3>1. t.alone /\ Quiet(t, file, typed)
      BY <1>2, <2>2, <2>4 DEF Kin
    <3>2. /\ t.exists <=> t.before # NoBytes
          /\ t.len = Len(Before(t))
          /\ typed => t.old = t.before
          /\ file \in File
          /\ file.bytes = Partial(t)
      BY <1>1, <3>1 DEF Quiet, Holds
    <3>3. Before(u) = Before(t) /\ Partial(u) = Partial(t)
      BY <2>2 DEF Kin, Before, Partial, Base, Begin
    <3>4. Entire(u, file)
      BY <1>1, <1>4, <2>2, <3>2, <3>3 DEF Entire, Kin
    <3>5. ~Preparing(u) /\ ~Reading(u)
      BY <2>2 DEF Preparing, Reading
    <3> HIDE DEF t
    <3> QED BY <2>2, <3>2, <3>3, <3>4, <3>5 DEF Quiet, Kin
  <2>5. Working(u, file, typed)
    <3>1. Placed(u, typed)
      BY <2>2 DEF Placed, Preparing, Reading
    <3> QED BY <2>2, <2>3, <2>4, <3>1 DEF Working
  <2> QED BY <2>1, <2>2, <2>5, GoesOn DEF u
<1> QED BY <1>3, <1>4

LEMMA FlushMoves ==
    ASSUME IInv, NEW c \in Conns, Flush(c)
    PROVE  Moves(c)
<1> DEFINE t == task[c]
           next == [t EXCEPT !.wrote = TRUE]
           u == At(Closed(next), "readOpen")
<1>1. t.pc = "flush" /\ Running(t) /\ ~Reading(t) /\ t.pc # "stage"
  BY DEF Flush, Running, Reading
<1>2. /\ t \in Task /\ Settled(t, typed) /\ typed \in BOOLEAN
      /\ t.alone => Quiet(t, file, typed)
      /\ file \in File \cup {NoFile} /\ NoFile \notin File
  BY <1>1, AtWork
<1>3. PICK failed \in MayFail(c) :
         Go(c, IF failed \/ t.count \notin {NoCount, Total(t)} THEN Undone(Failing(t, failed))
               ELSE IF typed /\ t.ranged THEN u ELSE Answered("ok"), file)
  BY DEF Flush
<1>4. ASSUME t.alone, t.count \in {NoCount, Total(t)}
      PROVE  /\ Entire(t, file) /\ Sized(t)
             /\ typed => t.old = t.before
  <2>1. Quiet(t, file, typed)
    BY <1>2, <1>4
  <2>2. Total(t) \in Nat /\ ~(Total(t) > Total(t))
    <3>1. Total(t) \in Nat
      BY <1>2, PartialIs
    <3> QED BY <3>1
  <2> QED BY <1>1, <1>4, <2>1, <2>2 DEF Quiet, Sized
<1>5. CASE failed \/ t.count \notin {NoCount, Total(t)}
  <2>1. Go(c, Undone(Failing(t, failed)), file)
    BY <1>3, <1>5
  <2>2. failed \in BOOLEAN
    BY MayFailIs
  <2>3. Restorable(t, typed)
    BY <1>1, WritingRestorable
  <2>4. Failing(t, failed) \in Task /\ Restorable(Failing(t, failed), typed)
    BY <1>2, <2>2, <2>3, FailingIs
  <2> QED BY <2>1, <2>4, Undoes
<1>6. CASE ~failed /\ t.count \in {NoCount, Total(t)} /\ typed /\ t.ranged
  <2>1. Go(c, u, file)
    BY <1>3, <1>6
  <2>2. next \in Task /\ next.wrote = TRUE /\ next.sent = t.sent /\ next.old = t.old
    BY <1>2 DEF Task
  <2>3. Kin(t, next)
    BY <1>2 DEF Task, Kin
  <2> HIDE DEF next
  <2>4. /\ Closed(next) \in Task /\ Kin(next, Closed(next))
        /\ Closed(next).sent = t.sent /\ Closed(next).wrote = TRUE /\ Closed(next).old = t.old
    BY <2>2, ClosedIs
  <2>5. u \in Task /\ Kin(Closed(next), u) /\ u.pc = "readOpen" /\ u.sent = t.sent
        /\ u.wrote = TRUE /\ u.old = t.old
    BY <2>4, AtIs DEF Pcs
  <2>6. Kin(t, u)
    BY <2>3, <2>4, <2>5 DEF Kin
  <2> HIDE DEF u
  <2>7. Settled(u, typed)
    BY <1>1, <1>2, <1>6, <2>5, <2>6, KinSettled DEF Settled
  <2>8. ASSUME u.alone PROVE Quiet(u, file, typed)
    <3>1. t.alone
      BY <2>6, <2>8 DEF Kin
    <3>2. Entire(t, file) /\ Sized(t) /\ t.old = t.before
      BY <1>4, <1>6, <3>1
    <3>3. t.count = Total(t)
      BY <1>2, <1>6, SettledIs
    <3>4. Before(u) = Before(t) /\ Partial(u) = Partial(t) /\ Total(u) = Total(t)
      BY <2>5, <2>6 DEF Kin, Before, Partial, Base, Begin, Total
    <3>5. Entire(u, file) /\ u.count = Total(u)
      BY <2>5, <2>6, <3>2, <3>3, <3>4 DEF Entire, Kin
    <3>6. ~Preparing(u)
      BY <2>5 DEF Preparing, Reading
    <3> HIDE DEF t
    <3> QED BY <2>5, <2>6, <3>2, <3>4, <3>5, <3>6 DEF Quiet, Sized, Kin
  <2>9. Working(u, file, typed)
    <3>1. Placed(u, typed)
      BY <2>5 DEF Placed, Preparing, Reading
    <3> QED BY <2>5, <2>7, <2>8, <3>1 DEF Working
  <2> QED BY <2>1, <2>5, <2>9, GoesOn
<1>7. CASE ~failed /\ t.count \in {NoCount, Total(t)} /\ ~(typed /\ t.ranged)
  <2>1. Go(c, Answered("ok"), file)
    BY <1>3, <1>7
  <2>2. t.alone => Exact(t, file)
    BY <1>2, <1>4, <1>7, EntireIsExact
  <2>3. ASSUME t.alone, typed PROVE Content(file) \in Valid
    <3>1. ~t.ranged
      BY <1>7, <2>3
    <3>2. Entire(t, file)
      BY <1>4, <1>7, <2>3
    <3>3. Settled(t, TRUE)
      BY <1>2, <2>3
    <3>4. Content(file) = Body(t.req)
      BY <1>2, <3>1, <3>2, WholeBody DEF Entire, Content
    <3> QED BY <1>1, <3>1, <3>3, <3>4, Accepted
  <2>4. /\ Answered("ok") \in Task /\ ~Running(Answered("ok")) /\ Answered("ok").status = "ok"
    BY AnsweredIs
  <2>5. Promises(t, Answered("ok"), file, file, typed)
    BY <2>2, <2>3, <2>4 DEF Promises
  <2> QED BY <1>2, <2>1, <2>4, <2>5 DEF Moves, TaskOK
<1> QED BY <1>5, <1>6, <1>7

LEMMA UndoWriteMoves ==
    ASSUME IInv, NEW c \in Conns, UndoWrite(c)
    PROVE  Moves(c)
<1> DEFINE t == task[c]
           f == [file EXCEPT !.bytes = Written(file.bytes, 0, t.old)]
<1>1. t.pc = "undoWrite" /\ Running(t) /\ ~Reading(t)
  BY DEF UndoWrite, Running, Reading
<1>2. /\ t \in Task /\ Settled(t, typed) /\ typed \in BOOLEAN
      /\ t.pc \in {"undoOpen", "undoWrite"} => t.old # NoBytes
      /\ t.alone => Quiet(t, file, typed)
      /\ file \in File \cup {NoFile} /\ NoFile \notin File
  BY <1>1, AtWork
<1>3. t.old \in Bytes
  BY <1>1, <1>2 DEF Task
<1>4. ASSUME t.alone PROVE Reaches(t) /\ file.bytes = <<>> /\ (typed => t.old = t.before)
  <2>1. Quiet(t, file, typed)
    BY <1>2, <1>4
  <2>2. Holds(t, file) /\ file.bytes = <<>> /\ (typed => t.old = t.before)
    BY <1>1, <2>1 DEF Quiet
  <2> QED BY <1>2, <2>2, ReachesIs
<1>5. PICK failed \in MayFail(c) :
         Go(c, Answered(IF failed THEN "lost" ELSE "failed"), IF failed \/ ~Reaches(t) THEN file ELSE f)
  <2>1. Reaches(t) => [file EXCEPT !.bytes = Written(@, 0, t.old)] = f
    BY <1>2 DEF Reaches, File
  <2> QED BY <2>1 DEF UndoWrite
<1>6. CASE failed
  <2>1. Go(c, Answered("lost"), file)
    BY <1>5, <1>6
  <2> QED BY <2>1, Quits
<1>7. CASE ~failed /\ ~Reaches(t)
  <2>1. Go(c, Answered("failed"), file)
    BY <1>5, <1>7
  <2> QED BY <1>4, <1>7, <2>1, Quits
<1>8. CASE ~failed /\ Reaches(t)
  <2>1. Go(c, Answered("failed"), f)
    BY <1>5, <1>8
  <2>2. Holds(t, file) /\ file \in File /\ file.bytes \in Bytes
    BY <1>2, <1>8, ReachesIs DEF Holds, File
  <2>3. f \in File /\ f.bytes = Written(file.bytes, 0, t.old)
    <3>1. Written(file.bytes, 0, t.old) \in Bytes
      BY <1>3, <2>2, WrittenIs
    <3> QED BY <2>2, <3>1 DEF File
  <2> HIDE DEF f
  <2>4. ASSUME t.alone, typed PROVE Content(f) = t.before
    <3>1. f.bytes = t.old
      BY <1>3, <1>4, <2>3, <2>4, WriteAll
    <3> QED BY <1>2, <1>4, <2>3, <2>4, <3>1 DEF Content
  <2>5. /\ Answered("failed") \in Task /\ ~Running(Answered("failed"))
        /\ Answered("failed").status = "failed"
    BY AnsweredIs
  <2>6. typed /\ ~t.ranged => ~t.req.broken /\ Body(t.req) \in Valid
    BY <1>1, <1>2, Accepted
  <2>7. Promises(t, Answered("failed"), file, f, typed)
    BY <1>1, <2>4, <2>5, <2>6 DEF Promises
  <2> QED BY <2>1, <2>3, <2>5, <2>7 DEF Moves, TaskOK
<1> QED BY <1>6, <1>7, <1>8

LEMMA RemoveMoves ==
    ASSUME IInv, NEW c \in Conns, Remove(c)
    PROVE  Moves(c)
<1> DEFINE t == task[c]
<1>1. t.pc = "remove" /\ Running(t) /\ ~Reading(t)
  BY DEF Remove, Running, Reading
<1>2. /\ t \in Task /\ Settled(t, typed) /\ typed \in BOOLEAN
      /\ t.alone => Quiet(t, file, typed)
  BY <1>1, AtWork
<1>3. PICK failed \in MayFail(c) :
         Go(c, Answered(IF failed THEN "lost" ELSE "failed"), IF failed THEN file ELSE NoFile)
  BY DEF Remove
<1>4. CASE failed
  <2>1. Go(c, Answered("lost"), file)
    BY <1>3, <1>4
  <2> QED BY <2>1, Quits
<1>5. CASE ~failed
  <2>1. Go(c, Answered("failed"), NoFile)
    BY <1>3, <1>5
  <2>2. ASSUME t.alone, typed PROVE Content(NoFile) = t.before
    BY <1>1, <1>2, <2>2 DEF Quiet, Content
  <2>3. /\ Answered("failed") \in Task /\ ~Running(Answered("failed"))
        /\ Answered("failed").status = "failed"
    BY AnsweredIs
  <2>4. typed /\ ~t.ranged => ~t.req.broken /\ Body(t.req) \in Valid
    BY <1>1, <1>2, Accepted
  <2>5. Promises(t, Answered("failed"), file, NoFile, typed)
    BY <1>1, <2>2, <2>3, <2>4 DEF Promises
  <2> QED BY <2>1, <2>3, <2>5 DEF Moves, TaskOK
<1> QED BY <1>4, <1>5

-----------------------------------------------------------------------------
(* All of them.                                                            *)

LEMMA StepMoves ==
    ASSUME IInv, NEW c \in Conns, Step(c) \/ Drop(c)
    PROVE  Moves(c)
<1>1. CASE Metadata(c)
  BY <1>1, MetadataMoves
<1>2. CASE Stage(c)
  BY <1>2, StageMoves
<1>3. CASE ReadOpen(c)
  BY <1>3, ReadOpenMoves
<1>4. CASE ReadLen(c)
  BY <1>4, ReadLenMoves
<1>5. CASE Read(c)
  BY <1>5, ReadMoves
<1>6. CASE Open(c)
  BY <1>6, OpenMoves
<1>7. CASE Write(c)
  BY <1>7, WriteMoves
<1>8. CASE EndOfBody(c)
  BY <1>8, EndOfBodyMoves
<1>9. CASE Flush(c)
  BY <1>9, FlushMoves
<1>10. CASE UndoOpen(c)
  BY <1>10, UndoOpenMoves
<1>11. CASE UndoWrite(c)
  BY <1>11, UndoWriteMoves
<1>12. CASE Remove(c)
  BY <1>12, RemoveMoves
<1>13. CASE Drop(c)
  <2>1. Go(c, Answered("dropped"), file)
    BY <1>13 DEF Drop
  <2> QED BY <2>1, Quits
<1>14. CASE Seek(c)
  BY <1>14, SeekMoves
<1> QED BY <1>14, <1>1, <1>2, <1>3, <1>4, <1>5, <1>6, <1>7, <1>8, <1>9, <1>10, <1>11, <1>12, <1>13 DEF Step

LEMMA VanishKeeps ==
    ASSUME IInv, Vanish
    PROVE  IInv'
<1>1. typed' = typed /\ file' = NoFile
      /\ task' = [c \in Conns |-> IF Idle(c) THEN task[c] ELSE Disturbed(task[c])]
  BY DEF Vanish
<1>2. ASSUME NEW c \in Conns PROVE TaskOK(task'[c], NoFile, typed)
  <2>1. TaskOK(task[c], file, typed) /\ task[c] \in Task /\ typed \in BOOLEAN
    BY DEF IInv, TaskOK
  <2>2. CASE Idle(c)
    BY <1>1, <2>1, <2>2 DEF TaskOK, Running, Idle
  <2>3. CASE ~Idle(c)
    <3>1. task'[c] = Disturbed(task[c])
      BY <1>1, <2>3
    <3> QED BY <2>1, <3>1, DisturbedIs
  <2> QED BY <2>2, <2>3
<1>3. task' = [c \in Conns |-> task'[c]]
  BY <1>1
<1> QED BY <1>1, <1>2, <1>3 DEF IInv

LEMMA InitIs == Init => IInv
<1> SUFFICES ASSUME Init PROVE IInv
  OBVIOUS
<1>1. typed \in BOOLEAN /\ task = [c \in Conns |-> NoTask]
  BY DEF Init
<1>2. file \in File \cup {NoFile}
  BY PutAssumption DEF Init, File
<1>3. \A c \in Conns : TaskOK(task[c], file, typed)
  <2>1. ~Running(NoTask)
    BY DEF Running, NoTask
  <2> QED BY <1>1, <2>1, NoTaskIs DEF TaskOK
<1>4. task = [c \in Conns |-> task[c]]
  BY <1>1
<1> QED BY <1>1, <1>2, <1>3, <1>4 DEF IInv

LEMMA NextKeeps == IInv /\ [Next]_vars => IInv'
<1> SUFFICES ASSUME IInv, [Next]_vars PROVE IInv'
  OBVIOUS
<1>1. CASE \E c \in Conns : Step(c) \/ Drop(c)
  BY <1>1, StepMoves, MovesKeeps
<1>2. CASE Vanish
  BY <1>2, VanishKeeps
<1>3. CASE UNCHANGED vars
  BY <1>3 DEF vars, IInv
<1> QED BY <1>1, <1>2, <1>3 DEF Next

\* Whoever acts keeps the promises of its step.
LEMMA ActsKeepPromises ==
    ASSUME IInv, [Next]_vars, NEW c \in Conns, Acts(c)
    PROVE  Promises(task[c], task'[c], file, file', typed)
<1>1. ~UNCHANGED vars
  BY DEF Acts, vars
<1>2. ~Vanish
  BY DEF Acts, Vanish
<1>3. PICK d \in Conns : Step(d) \/ Drop(d)
  BY <1>1, <1>2 DEF Next
<1>4. Moves(d)
  BY <1>3, StepMoves
<1>5. PICK t, f : Go(d, t, f) /\ Promises(task[d], t, file, f, typed)
  BY <1>4 DEF Moves
<1>6. d = c
  BY <1>5 DEF Acts, Go
<1>7. task'[c] = t /\ file' = f
  BY <1>5, <1>6 DEF Go
<1> QED BY <1>5, <1>6, <1>7

-----------------------------------------------------------------------------
(* The theorems.                                                           *)

\* Every request keeps its plan, its counts and, when it is alone, all that it
\* knows of the file, whatever calls fail or other requests do in between.
THEOREM PutInvariant == Spec => []IInv
<1> QED BY InitIs, NextKeeps, PTL DEF Spec

\* Success is exact: a request that is answered with success has stored the
\* bytes it asked for, all of them and no others (handle_put, the write loop
\* and the comparison of lengths after flush).
THEOREM UploadsAreExact == Spec => SuccessIsExact
<1>1. IInv /\ [Next]_vars =>
         [\A c \in Conns :
            LET t == task[c]
            IN  Answers(c, "ok") /\ t.alone =>
                  /\ ~t.req.broken
                  /\ t.req.count \in {NoCount, Len(Body(t.req))}
                  /\ \/ Content(file') = Expected(t.req, Before(t))
                     \/ t.ranged /\ Body(t.req) = <<>> /\ Content(file') = Before(t)]_vars
  <2> SUFFICES ASSUME IInv, [Next]_vars, NEW c \in Conns, Answers(c, "ok"), task[c].alone
               PROVE  Exact(task[c], file')
    BY DEF Exact
  <2>1. Promises(task[c], task'[c], file, file', typed)
    BY ActsKeepPromises DEF Answers
  <2> QED BY <2>1 DEF Promises, Answers, Running, Idle
<1> QED BY <1>1, PutInvariant, PTL DEF Spec, SuccessIsExact

\* A refused request leaves a calendar or an address book as it was, except
\* when a call of its undoing has failed as well (restore_or_remove_typed), or
\* when the seek into a file it has just made failed: then the empty file stays.
THEOREM RefusalsUndo == Spec => RefusedLeavesOld
<1>1. IInv /\ [Next]_vars =>
         [\A c \in Conns :
            LET t == task[c]
            IN  typed /\ Answers(c, "failed") /\ t.alone =>
                  \/ Content(file') = t.before
                  \/ t.pc = "seek" /\ t.created /\ Content(file') = <<>>]_vars
  <2> SUFFICES ASSUME IInv, [Next]_vars, NEW c \in Conns, typed, Answers(c, "failed"), task[c].alone
               PROVE  \/ Content(file') = task[c].before
                      \/ task[c].pc = "seek" /\ task[c].created /\ Content(file') = <<>>
    OBVIOUS
  <2>1. Promises(task[c], task'[c], file, file', typed)
    BY ActsKeepPromises DEF Answers
  <2> QED BY <2>1 DEF Promises, Answers, Running, Idle
<1> QED BY <1>1, PutInvariant, PTL DEF Spec, RefusedLeavesOld

\* What an undisturbed success has stored in a calendar or an address book is
\* valid, and no write but an append among others makes it too long, also one
\* of a range in the middle of a body.
THEOREM StoredObjectsAreValid == Spec => StoredIsValid
<1>1. IInv /\ [Next]_vars =>
         [\A c \in Conns :
            typed /\ Acts(c) =>
               /\ task[c].alone /\ task'[c].status = "ok" /\ ~Idle(c) => Content(file') \in Valid
               /\ task[c].pc = "write" /\ file' # file =>
                    \/ Len(file'.bytes) <= MaxResource
                    \/ /\ ~task[c].alone
                       /\ task[c].append \/ Len(file'.bytes) <= Len(file.bytes)]_vars
  <2> SUFFICES ASSUME IInv, [Next]_vars, NEW c \in Conns, typed, Acts(c)
               PROVE  /\ task[c].alone /\ task'[c].status = "ok" /\ ~Idle(c) => Content(file') \in Valid
                      /\ task[c].pc = "write" /\ file' # file => Fits(task[c], file, file')
    BY DEF Fits
  <2>1. Promises(task[c], task'[c], file, file', typed)
    BY ActsKeepPromises
  <2> QED BY <2>1 DEF Promises, Running, Idle
<1> QED BY <1>1, PutInvariant, PTL DEF Spec, StoredIsValid

\* A whole object that is not valid, or whose body breaks off, never gets to
\* the file (handle_put reads and validates it before it opens the file).
THEOREM RejectsTouchNothing == Spec => RejectedUploadsTouchNothing
<1>1. IInv /\ [Next]_vars =>
         [\A c \in Conns :
            LET req == task[c].req
            IN  /\ typed /\ Acts(c) /\ ~Idle(c)
                /\ req.update.kind = "none" /\ req.content.kind # "bytes"
                /\ req.broken \/ Body(req) \notin Valid
                => file' = file]_vars
  <2> SUFFICES ASSUME IInv, [Next]_vars, NEW c \in Conns, typed, Acts(c), ~Idle(c),
                      task[c].req.update.kind = "none", task[c].req.content.kind # "bytes",
                      task[c].req.broken \/ Body(task[c].req) \notin Valid
               PROVE  file' = file
    OBVIOUS
  <2>1. Promises(task[c], task'[c], file, file', typed)
    BY ActsKeepPromises
  <2>2. Running(task[c])
    BY DEF Idle, Running
  <2>3. ~task[c].ranged
    BY <2>2, AtWork DEF Settled, Planned, Plan
  <2> QED BY <2>1, <2>2, <2>3 DEF Promises
<1> QED BY <1>1, PutInvariant, PTL DEF Spec, RejectedUploadsTouchNothing
=============================================================================
