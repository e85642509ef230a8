------------------------------ MODULE AloneProofs ------------------------------
(***************************************************************************)
(* A server that takes one request at a time, and what holds only then: a  *)
(* handler acts on what it was told, a walk finds the tree as it left it,  *)
(* so with calls that succeed unless they must fail nothing is left locked *)
(* that is not there, and a COPY that is answered with success is whole    *)
(* whatever failed on the way.                                             *)
(***************************************************************************)
EXTENDS DavServerProofs

OneRunning == \A c, d \in Conns : Running(task[c]) /\ Running(task[d]) => c = d

-----------------------------------------------------------------------------
(* The stack of calls of a walk, whatever the calls do.                    *)

\* The topmost call goes on as x.
Resumed(w, v, x) ==
    /\ v \in Seq(Frame) /\ Len(v) = Len(w)
    /\ \A i \in 1..Len(w) : v[i] = IF i = Len(w) THEN x ELSE w[i]

\* The topmost call goes on as x, and calls y.
Called(w, v, x, y) ==
    /\ v \in Seq(Frame) /\ Len(v) = Len(w) + 1
    /\ \A i \in 1..Len(v) : v[i] = IF i = Len(v) THEN y ELSE IF i = Len(w) THEN x ELSE w[i]

\* The topmost call is over; its caller notes whether it failed.
Left(w, v, failed) ==
    /\ v \in Seq(Frame) /\ Len(w) = Len(v) + 1 /\ Len(v) \in 1..Len(v)
    /\ \A i \in 1..Len(v) :
         /\ v[i].path = w[i].path /\ v[i].dest = w[i].dest /\ v[i].isDir = w[i].isDir
         /\ v[i].phase = w[i].phase /\ v[i].todo = w[i].todo
         /\ v[i].failed = (w[i].failed \/ (failed /\ i = Len(v)))

\* What a step of a walk leaves of the task.
SameButWork(t, u) ==
    /\ u \in Task /\ u.pc = t.pc /\ u.req = t.req /\ u.token = t.token
    /\ u.exists = t.exists /\ u.isDir = t.isDir /\ u.destFile = t.destFile

LEMMA WorkFields ==
    ASSUME NEW t \in Task, NEW work \in Seq(Frame)
    PROVE  SameButWork(t, [t EXCEPT !.work = work]) /\ [t EXCEPT !.work = work].work = work
  BY DEF Task, SameButWork

LEMMA SameButWorkTwice ==
    ASSUME NEW t, NEW u, NEW v, SameButWork(t, u), SameButWork(u, v)
    PROVE  SameButWork(t, v)
  BY DEF SameButWork

LEMMA WithTopResumes ==
    ASSUME NEW t, WalkOK(t), Walking(t), NEW frame \in Frame
    PROVE  /\ SameButWork(t, WithTop(t, frame))
           /\ Resumed(t.work, WithTop(t, frame).work, frame)
<1> DEFINE work == [t.work EXCEPT ![Len(t.work)] = frame]
<1>1. /\ Len(t.work) \in 1..Len(t.work) /\ t.work \in Seq(Frame) /\ Len(t.work) \in Nat
      /\ t \in Task
  BY TopInWalk DEF WalkOK
<1>2. /\ work \in Seq(Frame) /\ Len(work) = Len(t.work)
      /\ \A i \in 1..Len(t.work) : work[i] = IF i = Len(t.work) THEN frame ELSE t.work[i]
  BY <1>1
<1>3. WithTop(t, frame) = [t EXCEPT !.work = work]
  BY DEF WithTop
<1> HIDE DEF work
<1> QED BY <1>1, <1>2, <1>3, WorkFields DEF Resumed

LEMMA PushCalls ==
    ASSUME NEW t, WalkOK(t), Walking(t), NEW frame \in Frame, NEW call \in Frame
    PROVE  LET u == [WithTop(t, frame) EXCEPT !.work = Append(@, call)]
           IN  SameButWork(t, u) /\ Called(t.work, u.work, frame, call)
<1> DEFINE u == WithTop(t, frame)
           w == u.work
           work == Append(w, call)
<1>1. SameButWork(t, u) /\ Resumed(t.work, w, frame)
  BY WithTopResumes
<1>2. /\ Len(t.work) \in Nat /\ w \in Seq(Frame) /\ Len(w) = Len(t.work) /\ u \in Task
      /\ \A i \in 1..Len(t.work) : w[i] = IF i = Len(t.work) THEN frame ELSE t.work[i]
  BY <1>1, TopInWalk DEF Resumed, SameButWork
<1> HIDE DEF u, w
<1>3. /\ work \in Seq(Frame) /\ Len(work) = Len(t.work) + 1
      /\ \A i \in 1..Len(work) : work[i] = IF i = Len(work) THEN call ELSE w[i]
  BY <1>2
<1> HIDE DEF work
<1>4. \A i \in 1..Len(work) :
        work[i] = IF i = Len(work) THEN call ELSE IF i = Len(t.work) THEN frame ELSE t.work[i]
  <2>1. \A i \in 1..Len(work) : i # Len(work) => i \in 1..Len(t.work)
    BY <1>2, <1>3
  <2> QED BY <1>2, <1>3, <2>1
<1>5. Called(t.work, work, frame, call)
  BY <1>3, <1>4 DEF Called
<1>6. SameButWork(u, [u EXCEPT !.work = work]) /\ [u EXCEPT !.work = work].work = work
  BY <1>2, <1>3, WorkFields
<1>7. SameButWork(t, [u EXCEPT !.work = work])
  BY <1>1, <1>6, SameButWorkTwice
<1> QED BY <1>5, <1>6, <1>7 DEF u, w, work

\* A call returns to its caller, or the walk is over.
LEMMA ReturnLeaves ==
    ASSUME NEW t, WalkOK(t), Walking(t), NEW failed \in BOOLEAN
    PROVE  \/ /\ Len(t.work) > 1 /\ SameButWork(t, Returned(t, failed))
              /\ Left(t.work, Returned(t, failed).work, failed)
           \/ Len(t.work) = 1 /\ failed /\ Returned(t, failed) = Answered(t, "failed")
           \/ /\ Len(t.work) = 1 /\ ~failed
              /\ Returned(t, failed).req = t.req
              /\ \/ t.pc = "delete" /\ Returned(t, failed).pc = "deleteLocks"
                 \/ t.pc = "clear" /\ Returned(t, failed).pc = "clearLocks"
                 \/ t.pc = "copy" /\ Returned(t, failed) = Answered(t, "ok")
<1>1. /\ t.work \in Seq(Frame) /\ Len(t.work) \in Nat /\ Len(t.work) \in 1..Len(t.work)
      /\ t \in Task
  BY TopInWalk DEF WalkOK
<1>2. CASE Len(t.work) > 1
  <2> DEFINE n    == Len(t.work) - 1
             rest == SubSeq(t.work, 1, n)
             work == [rest EXCEPT ![n].failed = @ \/ failed]
             caller == [rest[n] EXCEPT !.failed = @ \/ failed]
  <2>1. n \in 1..n /\ n \in Nat /\ n < Len(t.work) /\ Len(t.work) = n + 1
    BY <1>1, <1>2
  <2> HIDE DEF n
  <2>2. rest \in Seq(Frame) /\ Len(rest) = n /\ \A i \in 1..n : rest[i] = t.work[i]
    BY <1>1, <2>1
  <2>3. Returned(t, failed) = [t EXCEPT !.work = work]
    <3>1. rest = SubSeq(t.work, 1, Len(t.work) - 1)
      BY DEF rest, n
    <3>2. Returned(t, failed)
            = [t EXCEPT !.work = [rest EXCEPT ![Len(rest)].failed = @ \/ failed]]
      BY <1>2, <3>1, Zenon DEF Returned
    <3> QED BY <2>2, <3>2 DEF work
  <2> HIDE DEF rest
  <2>4. /\ caller \in Frame /\ caller.path = rest[n].path /\ caller.dest = rest[n].dest
        /\ caller.isDir = rest[n].isDir /\ caller.phase = rest[n].phase
        /\ caller.todo = rest[n].todo /\ caller.failed = (rest[n].failed \/ failed)
    <3>1. rest[n] \in Frame
      BY <2>1, <2>2
    <3> QED BY <3>1 DEF Frame
  <2>5. work = [rest EXCEPT ![n] = caller]
    OBVIOUS
  <2> HIDE DEF caller, work
  <2>6. /\ work \in Seq(Frame) /\ Len(work) = n
        /\ \A i \in 1..n : work[i] = IF i = n THEN caller ELSE rest[i]
    BY <2>1, <2>2, <2>4, <2>5
  <2>7. Left(t.work, work, failed)
    <3>1. \A i \in 1..n : rest[i] \in Frame
      BY <2>2
    <3>2. ASSUME NEW i \in 1..n
          PROVE  /\ work[i].path = t.work[i].path /\ work[i].dest = t.work[i].dest
                 /\ work[i].isDir = t.work[i].isDir /\ work[i].phase = t.work[i].phase
                 /\ work[i].todo = t.work[i].todo
                 /\ work[i].failed = (t.work[i].failed \/ (failed /\ i = n))
      <4>1. rest[i] = t.work[i] /\ rest[i].failed \in BOOLEAN
        BY <2>2, <3>1 DEF Frame
      <4>2. CASE i = n
        BY <2>4, <2>6, <4>1, <4>2
      <4>3. CASE i # n
        BY <2>6, <4>1, <4>3
      <4> QED BY <4>2, <4>3
    <3> QED BY <2>1, <2>6, <3>2 DEF Left
  <2> QED BY <1>1, <1>2, <2>3, <2>6, <2>7, WorkFields
<1>3. CASE Len(t.work) = 1 /\ failed
  BY <1>3 DEF Returned
<1>4. CASE Len(t.work) = 1 /\ ~failed
  <2>1. ASSUME NEW pc \in {"deleteLocks", "clearLocks"}
        PROVE  /\ [At(t, pc) EXCEPT !.work = <<>>].pc = pc
               /\ [At(t, pc) EXCEPT !.work = <<>>].req = t.req
    BY <1>1 DEF At, Task
  <2>2. CASE t.pc = "copy"
    <3>1. Returned(t, failed) = Answered(t, "ok")
      BY <1>4, <2>2 DEF Returned
    <3>2. Answered(t, "ok").req = t.req
      BY DEF Answered, NoTask
    <3> QED BY <1>4, <2>2, <3>1, <3>2
  <2>3. CASE t.pc \in {"delete", "clear"}
    BY <1>4, <2>1, <2>3 DEF Returned
  <2> QED BY <1>4, <2>2, <2>3 DEF Walking
<1>5. Len(t.work) > 1 \/ Len(t.work) = 1
  <2> DEFINE n == Len(t.work)
  <2>1. n \in Nat /\ n \in 1..n
    BY <1>1
  <2> HIDE DEF n
  <2>2. n > 1 \/ n = 1
    BY <2>1
  <2> QED BY <2>2 DEF n
<1> QED BY <1>2, <1>3, <1>4, <1>5, Zenon

-----------------------------------------------------------------------------
(* delete_items with nobody else at work: every call finds what its caller *)
(* found, and the members left are the entries still to do.                *)

\* A member that call i has to do, or has called for.
Listed(w, i, p) ==
    \/ \E e \in w[i].todo : e.path = p
    \/ i < Len(w) /\ p = w[i + 1].path

DeleteCall(w, i, f) ==
    /\ w[i].path \in DOMAIN f /\ w[i].isDir = IsDir(f, w[i].path) /\ ~w[i].failed
    /\ w[i].phase \in {"visit", "loop"} /\ (i < Len(w) => w[i].phase = "loop")
    /\ w[i].phase = "loop" =>
         \A p \in DOMAIN f : p \in Members(f, w[i].path) <=> Listed(w, i, p)
    /\ w[i].phase = "visit" => w[i].todo = {}
    /\ \A e \in w[i].todo : /\ e.path \in DOMAIN f /\ e.isDir = IsDir(f, e.path)
                            /\ i < Len(w) => e.path # w[i + 1].path

\* Every call is for a resource further down than those of its callers.
Deepens(w) == \A i, j \in 1..Len(w) : i < j => Len(w[i].path) < Len(w[j].path)

DeleteWalk(w, f) ==
    /\ w \in Seq(Frame) /\ w # <<>> /\ Deepens(w)
    /\ \A i \in 1..Len(w) : DeleteCall(w, i, f)

LEMMA DeleteBegins ==
    ASSUME NEW f, NEW p \in DOMAIN f, p \in Paths, NEW d \in Paths, NEW isDir, isDir = IsDir(f, p)
    PROVE  DeleteWalk(<<Frame0(p, d, isDir)>>, f)
<1> DEFINE x == Frame0(p, d, isDir)
           w == <<x>>
<1>1. /\ x.path = p /\ x.isDir = isDir /\ x.failed = FALSE /\ x.phase = "visit" /\ x.todo = {}
      /\ x \in Frame
  BY PathsAreSequences DEF Frame0, Frame, IsDir
<1> HIDE DEF x
<1>2. w \in Seq(Frame) /\ Len(w) = 1 /\ w[1] = x /\ w # <<>>
  BY <1>1
<1> HIDE DEF w
<1>3. DeleteCall(w, 1, f) /\ Deepens(w)
  BY <1>1, <1>2 DEF DeleteCall, Deepens
<1> QED BY <1>2, <1>3 DEF DeleteWalk, w, x

\* read_dir of a collection.
LEMMA DeleteLists ==
    ASSUME NEW w, NEW v, NEW x, DeleteWalk(w, fs), Resumed(w, v, x), IsDir(fs, w[Len(w)].path),
           x.path = w[Len(w)].path, x.isDir = w[Len(w)].isDir, x.failed = w[Len(w)].failed,
           x.phase = "loop", x.todo = Listing(x.path)
    PROVE  DeleteWalk(v, fs)
<1> DEFINE n == Len(w)
<1>1. n \in Nat /\ n \in 1..n /\ v \in Seq(Frame) /\ Len(v) = n
      /\ \A i \in 1..n : v[i] = IF i = n THEN x ELSE w[i]
  BY DEF DeleteWalk, Resumed
<1>2. \A i \in 1..n : DeleteCall(w, i, fs)
  BY DEF DeleteWalk
<1> HIDE DEF n
<1>3. \A i \in 1..n : v[i].path = w[i].path
  BY <1>1 DEF n
<1>4. ASSUME NEW i \in 1..n, i # n PROVE DeleteCall(v, i, fs)
  <2>1. i + 1 \in 1..n /\ v[i] = w[i] /\ v[i + 1].path = w[i + 1].path
    BY <1>1, <1>3, <1>4
  <2> QED BY <1>1, <1>2, <1>4, <2>1 DEF DeleteCall, Listed, n
<1>5. DeleteCall(v, n, fs)
  <2>1. v[n] = x /\ x.path = w[n].path /\ DeleteCall(w, n, fs)
    BY <1>1, <1>2 DEF n
  <2>2. \A p : p \in Members(fs, x.path) <=> \E e \in x.todo : e.path = p
    <3>1. ASSUME NEW p \in Members(fs, x.path) PROVE \E e \in x.todo : e.path = p
      <4>1. [path |-> p, isDir |-> IsDir(fs, p)] \in x.todo
        BY <3>1 DEF Listing
      <4> QED BY <4>1
    <3>2. \A e \in x.todo : e.path \in Members(fs, x.path)
      BY DEF Listing
    <3> QED BY <3>1, <3>2
  <2>3. \A e \in x.todo : e.path \in DOMAIN fs /\ e.isDir = IsDir(fs, e.path)
    BY DEF Listing, Members
  <2>4. \A p \in DOMAIN fs : p \in Members(fs, v[n].path) <=> Listed(v, n, p)
    BY <1>1, <2>1, <2>2 DEF Listed
  <2>5. v[n].isDir = IsDir(fs, v[n].path) /\ ~v[n].failed /\ v[n].path \in DOMAIN fs
    BY <2>1 DEF DeleteCall, n
  <2> QED BY <1>1, <2>1, <2>3, <2>4, <2>5 DEF DeleteCall
<1>6. Deepens(v)
  BY <1>1, <1>3 DEF DeleteWalk, Deepens, n
<1>7. v # <<>>
  BY <1>1
<1> QED BY <1>1, <1>4, <1>5, <1>6, <1>7 DEF DeleteWalk

\* A call for the next entry.
LEMMA DeleteCalls ==
    ASSUME NEW w, NEW v, NEW x, NEW y, NEW f, DeleteWalk(w, f), IsTree(f), Called(w, v, x, y),
           w[Len(w)].phase = "loop", NEW e \in w[Len(w)].todo,
           x.path = w[Len(w)].path, x.isDir = w[Len(w)].isDir, x.failed = w[Len(w)].failed,
           x.phase = "loop", x.todo = w[Len(w)].todo \ {e},
           y.path = e.path, y.isDir = e.isDir, ~y.failed, y.phase = "visit", y.todo = {},
           \A d \in w[Len(w)].todo : d = [path |-> d.path, isDir |-> d.isDir]
    PROVE  DeleteWalk(v, f)
<1> DEFINE n == Len(w)
<1>1. /\ n \in Nat /\ n \in 1..n /\ v \in Seq(Frame) /\ Len(v) = n + 1
      /\ \A i \in 1..n : v[i] = IF i = n THEN x ELSE w[i]
      /\ v[n + 1] = y
  <2>1. n \in Nat /\ n \in 1..n /\ v \in Seq(Frame) /\ Len(v) = n + 1
    BY DEF DeleteWalk, Called
  <2>2. \A i \in 1..n + 1 : v[i] = IF i = n + 1 THEN y ELSE IF i = n THEN x ELSE w[i]
    BY <2>1 DEF Called
  <2> HIDE DEF n
  <2>3. n + 1 \in 1..n + 1 /\ \A i \in 1..n : i \in 1..n + 1 /\ i # n + 1
    BY <2>1
  <2> QED BY <2>1, <2>2, <2>3
<1>2. \A i \in 1..n : DeleteCall(w, i, f)
  BY DEF DeleteWalk
<1>3. e \in w[n].todo /\ x.path = w[n].path /\ x.todo = w[n].todo \ {e} /\ w[n].phase = "loop"
  OBVIOUS
<1> HIDE DEF n
<1>4. \A i \in 1..n : v[i].path = w[i].path
  BY <1>1, <1>3 DEF n
<1>5. ASSUME NEW i \in 1..n, i # n PROVE DeleteCall(v, i, f)
  <2>1. i + 1 \in 1..n /\ v[i] = w[i] /\ v[i + 1].path = w[i + 1].path /\ i < n /\ i < Len(v)
    BY <1>1, <1>4, <1>5
  <2> QED BY <1>1, <1>2, <1>5, <2>1 DEF DeleteCall, Listed, n
<1>6. DeleteCall(v, n, f)
  <2>1. v[n] = x /\ v[n + 1].path = e.path /\ n < Len(v) /\ DeleteCall(w, n, f)
    BY <1>1, <1>2
  <2>2. \A p : (\E d \in w[n].todo : d.path = p) <=> (\E d \in x.todo : d.path = p) \/ p = e.path
    BY <1>3
  <2>3. ASSUME NEW d \in x.todo PROVE d.path # e.path
    <3>1. d.isDir = IsDir(f, d.path) /\ e.isDir = IsDir(f, e.path) /\ d \in w[n].todo /\ d # e
      BY <1>3, <2>1 DEF DeleteCall
    <3>2. d = [path |-> d.path, isDir |-> d.isDir] /\ e = [path |-> e.path, isDir |-> e.isDir]
      BY <1>3, <3>1 DEF n
    <3> QED BY <3>1, <3>2
  <2>4. x.isDir = w[n].isDir /\ x.failed = w[n].failed /\ x.phase = "loop"
    BY DEF n
  <2>5. \A p : Listed(v, n, p) <=> Listed(w, n, p)
    BY <1>1, <2>1, <2>2 DEF Listed, n
  <2> QED BY <1>3, <2>1, <2>3, <2>4, <2>5 DEF DeleteCall
<1>7. DeleteCall(v, n + 1, f)
  <2>1. e.path \in DOMAIN f /\ e.isDir = IsDir(f, e.path)
    BY <1>1, <1>2, <1>3 DEF DeleteCall
  <2>2. /\ v[n + 1].path = e.path /\ v[n + 1].isDir = e.isDir /\ ~v[n + 1].failed
        /\ v[n + 1].phase = "visit" /\ v[n + 1].todo = {}
    BY <1>1
  <2> QED BY <1>1, <2>1, <2>2 DEF DeleteCall
<1>8. Deepens(v)
  <2>1. e.path \in Members(f, w[n].path)
    BY <1>1, <1>2, <1>3 DEF DeleteCall, Listed
  <2>2. Len(w[n].path) < Len(e.path)
    <3>1. e.path \in Seq(Names) /\ e.path # <<>> /\ w[n].path = SubSeq(e.path, 1, Len(e.path) - 1)
      BY <2>1, PathsAreSequences DEF Members, IsTree, Parent, Root
    <3> QED BY <3>1
  <2>3. \A i \in 1..n : Len(w[i].path) \in Nat
    BY DEF DeleteWalk, Frame, n
  <2>4. \A i, j \in 1..n : i < j => Len(w[i].path) < Len(w[j].path)
    BY DEF DeleteWalk, Deepens, n
  <2>5. Len(e.path) \in Nat
    BY <2>1, PathsAreSequences DEF Members, IsTree
  <2>6. \A i \in 1..n : Len(w[i].path) < Len(e.path)
    <3> SUFFICES ASSUME NEW i \in 1..n PROVE Len(w[i].path) < Len(e.path)
      OBVIOUS
    <3>1. CASE i = n
      BY <2>2, <3>1
    <3>2. CASE i # n
      <4>1. i < n
        BY <1>1, <3>2
      <4>2. Len(w[i].path) < Len(w[n].path) /\ Len(w[i].path) \in Nat /\ Len(w[n].path) \in Nat
        BY <1>1, <2>3, <2>4, <4>1
      <4> QED BY <2>2, <2>5, <4>2
    <3> QED BY <3>1, <3>2
  <2>7. \A i \in 1..n + 1 : i = n + 1 \/ i \in 1..n
    BY <1>1
  <2>8. v[n + 1].path = e.path
    BY <1>1
  <2>9. ASSUME NEW i \in 1..n + 1, NEW j \in 1..n + 1, i < j
        PROVE  Len(v[i].path) < Len(v[j].path)
    <3>1. i \in 1..n
      BY <1>1, <2>9
    <3>2. CASE j = n + 1
      BY <1>4, <2>6, <2>8, <3>1, <3>2
    <3>3. CASE j \in 1..n
      BY <1>4, <2>4, <2>9, <3>1, <3>3
    <3> QED BY <2>7, <3>2, <3>3
  <2> QED BY <1>1, <2>9 DEF Deepens
<1>9. v # <<>>
  BY <1>1
<1>10. \A i \in 1..n + 1 : i = n + 1 \/ i = n \/ (i \in 1..n /\ i # n)
  BY <1>1
<1> QED BY <1>1, <1>5, <1>6, <1>7, <1>8, <1>9, <1>10 DEF DeleteWalk

\* The topmost call has removed its resource.
LEMMA DeleteLeaves ==
    ASSUME NEW w, NEW v, NEW f, DeleteWalk(w, f), IsTree(f), Left(w, v, FALSE)
    PROVE  DeleteWalk(v, Without(f, w[Len(w)].path))
<1> DEFINE n == Len(v)
           r == w[n + 1].path
           g == Without(f, r)
<1>1. n \in Nat /\ n \in 1..n /\ v \in Seq(Frame) /\ Len(w) = n + 1
      /\ \A i \in 1..n : /\ v[i].path = w[i].path /\ v[i].isDir = w[i].isDir
                         /\ v[i].phase = w[i].phase /\ v[i].todo = w[i].todo
                         /\ (v[i].failed <=> w[i].failed)
  <2>1. \A i \in 1..Len(v) : v[i].failed <=> w[i].failed
    BY DEF Left
  <2> QED BY <2>1 DEF Left
<1>2. \A i \in 1..n + 1 : DeleteCall(w, i, f)
  BY <1>1 DEF DeleteWalk
<1>3. \A i, j \in 1..n + 1 : i < j => w[i].path # w[j].path
  BY <1>1 DEF DeleteWalk, Deepens, Frame
<1>4. DOMAIN g = DOMAIN f \ {r} /\ \A q \in DOMAIN g : g[q] = f[q]
  BY DEF Without
<1> HIDE DEF g, n, r
<1>5. \A q : q # r => IsDir(g, q) = IsDir(f, q)
  BY <1>4 DEF IsDir
<1>6. ASSUME NEW i \in 1..n PROVE DeleteCall(v, i, g)
  <2>1. i < Len(w) /\ i \in 1..n + 1 /\ n + 1 \in 1..n + 1 /\ DeleteCall(w, i, f)
        /\ i + 1 \in 1..n + 1 /\ w[i].phase = "loop"
    BY <1>1, <1>2 DEF DeleteCall
  <2>2. w[i].path \in DOMAIN g /\ w[i].path # r /\ (w[i].isDir = IsDir(g, w[i].path))
    BY <1>3, <1>4, <1>5, <2>1 DEF DeleteCall, r
  <2>3. \A p \in DOMAIN g : p \in Members(g, w[i].path) <=> Listed(v, i, p)
    <3>1. \A p \in DOMAIN g : p \in Members(g, w[i].path) <=> p \in Members(f, w[i].path)
      BY <1>4 DEF Members
    <3>2. \A p \in DOMAIN f : p \in Members(f, w[i].path) <=> Listed(w, i, p)
      BY <2>1 DEF DeleteCall
    <3>3. ASSUME NEW p \in DOMAIN g PROVE Listed(w, i, p) <=> Listed(v, i, p)
      <4>1. CASE i = n
        <5>1. p # w[i + 1].path
          BY <1>4, <4>1 DEF r
        <5> QED BY <1>1, <4>1, <5>1 DEF Listed, n
      <4>2. CASE i # n
        <5>1. i + 1 \in 1..n /\ i < n /\ i < n + 1
          BY <1>1, <4>2
        <5>2. v[i + 1].path = w[i + 1].path /\ v[i].todo = w[i].todo
          BY <1>1, <5>1
        <5>3. Listed(w, i, p) <=> (\E e \in w[i].todo : e.path = p) \/ p = w[i + 1].path
          BY <2>1 DEF Listed
        <5>4. Listed(v, i, p) <=> (\E e \in v[i].todo : e.path = p) \/ p = v[i + 1].path
          BY <5>1 DEF Listed, n
        <5> QED BY <5>2, <5>3, <5>4
      <4> QED BY <4>1, <4>2
    <3> QED BY <1>4, <3>1, <3>2, <3>3
  <2>4. ASSUME NEW e \in w[i].todo
        PROVE  /\ e.path \in DOMAIN g /\ e.isDir = IsDir(g, e.path)
               /\ i < n => e.path # v[i + 1].path
    <3>1. e.path \in DOMAIN f /\ e.isDir = IsDir(f, e.path) /\ e.path # w[i + 1].path
          /\ e.path \in Members(f, w[i].path)
      BY <2>1, <2>4 DEF DeleteCall, Listed
    <3>2. e.path # r
      <4>1. CASE i = n
        BY <3>1, <4>1 DEF r
      <4>2. CASE i # n
        <5>1. n \in 1..n + 1 /\ i < n /\ n < Len(w)
          BY <1>1, <4>2
        <5>2. w[i].path # w[n].path
          BY <1>3, <2>1, <5>1
        <5>3. r \in DOMAIN f /\ Listed(w, n, r)
          BY <1>2, <2>1, <5>1 DEF Listed, r, DeleteCall
        <5>4. DeleteCall(w, n, f) /\ w[n].phase = "loop"
          BY <1>2, <5>1 DEF DeleteCall
        <5>5. r \in Members(f, w[n].path)
          BY <5>3, <5>4 DEF DeleteCall
        <5> QED BY <3>1, <5>2, <5>5 DEF Members
      <4> QED BY <4>1, <4>2
    <3>3. e.path \in DOMAIN g /\ e.isDir = IsDir(g, e.path)
      BY <1>4, <1>5, <3>1, <3>2
    <3>4. i < n => v[i + 1].path = w[i + 1].path
      BY <1>1, <2>1
    <3> QED BY <3>1, <3>3, <3>4
  <2>5. ~v[i].failed /\ v[i].path = w[i].path /\ v[i].isDir = w[i].isDir /\ v[i].phase = "loop"
        /\ v[i].todo = w[i].todo
    BY <1>1, <2>1 DEF DeleteCall
  <2> QED BY <2>2, <2>3, <2>4, <2>5 DEF DeleteCall, n
<1>7. Deepens(v)
  <2>1. \A i \in 1..n : i \in 1..n + 1
    BY <1>1
  <2> QED BY <1>1, <2>1 DEF DeleteWalk, Deepens, n
<1>8. v # <<>>
  BY <1>1 DEF n
<1>9. DeleteWalk(v, g)
  BY <1>1, <1>6, <1>7, <1>8 DEF DeleteWalk, n
<1> QED BY <1>1, <1>9 DEF g, r

\* A call that only has to remove its resource cannot fail, unless it is the
\* outermost one.
LEMMA DeleteRemoves ==
    ASSUME NEW w, NEW f, DeleteWalk(w, f), IsTree(f), Len(w) > 1 \/ w[1].path # Root,
           \/ w[Len(w)].phase = "visit" /\ ~w[Len(w)].isDir
           \/ w[Len(w)].phase = "loop" /\ w[Len(w)].todo = {}
    PROVE  RemoveErrors(f, w[Len(w)].path) = {}
<1> DEFINE n == Len(w)
           p == w[n].path
<1>1. n \in Nat /\ n \in 1..n /\ DeleteCall(w, n, f)
  BY DEF DeleteWalk
<1>2. p \in DOMAIN f /\ p \in Paths
  BY <1>1 DEF DeleteCall, IsTree
<1>3. p # Root
  <2>1. CASE n = 1
    BY <2>1
  <2>2. CASE n # 1
    <3>1. n - 1 \in 1..n /\ n - 1 < n /\ (n - 1) + 1 = n
      <4> HIDE DEF n
      <4> QED BY <1>1, <2>2
    <3>2. DeleteCall(w, n - 1, f)
      BY <3>1 DEF DeleteWalk
    <3>3. p \in Members(f, w[n - 1].path)
      BY <1>2, <3>1, <3>2 DEF DeleteCall, Listed
    <3> QED BY <3>3 DEF Members
  <2> QED BY <2>1, <2>2
<1>4. Members(f, p) = {}
  <2>1. CASE w[n].phase = "visit" /\ ~w[n].isDir
    <3>1. ~IsDir(f, p)
      BY <1>1, <2>1 DEF DeleteCall
    <3>2. ASSUME NEW q \in Members(f, p) PROVE FALSE
      <4>1. q \in DOMAIN f /\ q \in Paths \ {Root} /\ Parent(q) = p
        BY <3>2 DEF Members, IsTree
      <4> QED BY <1>2, <3>1, <4>1, ParentAbove, OnTheWay
    <3> QED BY <3>2
  <2>2. CASE w[n].phase = "loop" /\ w[n].todo = {}
    BY <1>1, <2>2 DEF DeleteCall, Listed, Members
  <2> QED BY <2>1, <2>2
<1> QED BY <1>2, <1>3, <1>4 DEF RemoveErrors


-----------------------------------------------------------------------------
(* Locks and resources, while one request is served at a time: every lock  *)
(* in force is on a resource, or the request that is running accounts for  *)
(* it.                                                                     *)

\* What a handler was told is still so.
Informed(t, f) ==
    Running(t) =>
    /\ t.req.method = "DELETE" /\ t.req.deep => t.req.path # Root
    /\ t.req.method \notin {"COPY", "MOVE"} /\ t.pc \in {"if", "check", "lock"} =>
         /\ t.exists <=> t.req.path \in DOMAIN f
         /\ t.isDir = IsDir(f, t.req.path)
    /\ t.req.method = "DELETE" /\ t.pc \in {"if", "check"} => t.req.path \in DOMAIN f
    /\ t.req.method \in {"COPY", "MOVE"} /\ t.pc \in {"if", "checkSource", "check", "validate"} =>
         /\ t.exists <=> t.req.dest \in DOMAIN f
         /\ t.destFile <=> IsFile(f, t.req.dest)
    /\ Deleting(t) => /\ DeleteWalk(t.work, f) /\ t.work[1].path = WalkRoot(t)
                      /\ t.work[1].phase = "loop" => t.pc = "clear" \/ t.req.deep
    /\ t.pc = "deleteLocks" => t.req.path # Root

\* A task that may have left locks behind that it has not dropped yet: those
\* below what it has removed or moved, or its own on the file to be made.
Excuses(t, l) ==
    \/ Deleting(t) /\ t.work[1].phase = "loop" /\ Above(WalkRoot(t), l.path)
    \/ t.pc \in {"deleteLocks", "moveLocks"} /\ Above(t.req.path, l.path)
    \/ t.pc = "clearLocks" /\ Above(t.req.dest, l.path)
    \/ Holding(t) /\ l.token = t.token

\* A collection that MKCOL has just made has no lock.
MadeUnlocked(t) ==
    t.pc \in {"mark", "rollback"} => \A l \in LS!InForce : l.path # t.req.path

LocksSettled ==
    /\ OneRunning
    /\ \A c \in Conns : Informed(task[c], fs) /\ MadeUnlocked(task[c])
    /\ \A l \in LS!InForce : l.path \in DOMAIN fs \/ \E c \in Conns : Excuses(task[c], l)

\* The facts a step starts from and ends in.
Stepping == ServerInv /\ ServerInv' /\ Guarded /\ LocksSettled /\ [Next]_vars

\* Removals succeed unless they must fail, no connection is lost, and nobody
\* deletes all there is: a DELETE of the root takes its members and then fails.
Steady == /\ ~Concurrent /\ ~Drops /\ "remove" \notin Faults
          /\ \A c \in Conns : \A req \in Workload[c] :
                req.method = "DELETE" /\ req.deep => req.path # Root

\* No way leads back to a resource for a lock that has ended.
LEMMA InForceBefore ==
    ASSUME ServerInv, ServerInv', [Next]_vars, NEW k \in LS!InForce', k.token \in issued
    PROVE  \E l \in LS!InForce : l.token = k.token /\ l.path = k.path
<1>1. LSP!IInv /\ [LSP!Next]_(LSP!vars)
  BY LockSteps, SameNext, SameInvariant DEF ServerInv
<1>2. LSP!IInv'
  <2>1. LSP!IInv' <=> LS!IInv'
    BY SameInvariant, PTL
  <2> QED BY <2>1 DEF ServerInv
<1>3. \A m \in LSP!InForce' : m.token \in issued =>
         \E l \in LSP!InForce : l.token = m.token /\ l.path = m.path
  BY <1>1, <1>2, LSP!InForceKeeps, PathsAssumption, LocksAssumption, FileTreeAssumption DEF LSP!Root, Root
<1> QED BY <1>3 DEF LSP!InForce, LS!InForce, LSP!Expired, LS!Expired, LSP!AllLocks, LS!AllLocks

\* While one request runs, the others excuse nothing.
LEMMA RunningExcuses ==
    ASSUME LocksSettled, NEW c \in Conns, Running(task[c])
    PROVE  \A l \in LS!InForce : l.path \in DOMAIN fs \/ Excuses(task[c], l)
<1>1. \A d \in Conns : \A l : Excuses(task[d], l) => Running(task[d])
  BY DEF Excuses, Running, Deleting, Holding
<1> QED BY <1>1 DEF LocksSettled, OneRunning

\* The only task that runs goes on as u.
LEMMA SettlesAlone ==
    ASSUME Stepping, NEW c \in Conns, \A d \in Conns : d # c => ~Running(task[d]), NEW u, Go(c, u),
           Informed(u, fs'), u.pc \in {"mark", "rollback"} => \A l \in LS!InForce' : l.path # u.req.path,
           \A l \in LS!InForce' : l.path \in DOMAIN fs' \/ Excuses(u, l)
    PROVE  LocksSettled'
<1>1. task'[c] = u /\ \A d \in Conns : d # c => task'[d] = task[d] /\ ~Running(task'[d])
  BY DEF Stepping, ServerInv, WalksOK, Go
<1>2. OneRunning'
  BY <1>1 DEF OneRunning
<1>3. \A d \in Conns : Informed(task'[d], fs')
  BY <1>1 DEF Informed
<1>4. ASSUME NEW d \in Conns, task'[d].pc \in {"mark", "rollback"}, NEW l \in LS!InForce'
      PROVE  l.path # task'[d].req.path
  <2>1. Running(task'[d])
    BY <1>4 DEF Running
  <2> QED BY <1>1, <1>4, <2>1
<1>5. \A l \in LS!InForce' : l.path \in DOMAIN fs' \/ \E d \in Conns : Excuses(task'[d], l)
  BY <1>1
<1>6. \A d \in Conns : MadeUnlocked(task[d])'
  BY <1>4 DEF MadeUnlocked
<1> QED BY <1>2, <1>3, <1>5, <1>6 DEF LocksSettled, Informed, Excuses, Running, Deleting, Holding,
                                    WalkRoot

LEMMA Settles ==
    ASSUME Stepping, NEW c \in Conns, Running(task[c]), NEW u, Go(c, u),
           Informed(u, fs'), u.pc \in {"mark", "rollback"} => \A l \in LS!InForce' : l.path # u.req.path,
           \A l \in LS!InForce' : l.path \in DOMAIN fs' \/ Excuses(u, l)
    PROVE  LocksSettled'
<1>1. \A d \in Conns : d # c => ~Running(task[d])
  BY DEF Stepping, LocksSettled, OneRunning
<1> QED BY <1>1, SettlesAlone

\* A step that takes no resource away and hands out no lock.
LEMMA QuietSettles ==
    ASSUME Stepping, NEW c \in Conns, Running(task[c]), NEW u, Go(c, u), Informed(u, fs'),
           task[c].pc \notin {"delete", "clear", "deleteLocks", "clearLocks", "moveLocks", "open", "undo"},
           DOMAIN fs \subseteq DOMAIN fs', issued' = issued,
           u.pc \in {"mark", "rollback"} => \A l \in LS!InForce : l.path # u.req.path
    PROVE  LocksSettled'
<1>1. \A l \in LS!InForce : l.path \in DOMAIN fs
  BY RunningExcuses DEF Stepping, Excuses, Deleting, Holding
<1>2. \A k \in LS!InForce' : \E l \in LS!InForce : l.token = k.token /\ l.path = k.path
  <2>1. \A k \in LS!InForce' : k.token \in issued
    BY DEF Stepping, ServerInv, LS!IInv, LS!InForce
  <2> QED BY <2>1, InForceBefore DEF Stepping
<1>3. \A l \in LS!InForce' : l.path \in DOMAIN fs'
  BY <1>1, <1>2
<1>4. u.pc \in {"mark", "rollback"} => \A l \in LS!InForce' : l.path # u.req.path
  BY <1>2
<1> QED BY <1>3, <1>4, Settles


-----------------------------------------------------------------------------
(* Every step settles the locks again.                                     *)

LEMMA AtKeeps ==
    ASSUME NEW t \in Task, NEW pc \in Pcs
    PROVE  /\ At(t, pc) \in Task /\ At(t, pc).pc = pc /\ At(t, pc).req = t.req
           /\ At(t, pc).exists = t.exists /\ At(t, pc).isDir = t.isDir
           /\ At(t, pc).destFile = t.destFile /\ At(t, pc).token = t.token
           /\ At(t, pc).work = t.work /\ At(t, pc).seen = t.seen
  BY DEF At, Task

LEMMA AnsweredInformed ==
    ASSUME NEW t, NEW status, NEW f
    PROVE  Informed(Answered(t, status), f) /\ Answered(t, status).pc = "done"
  BY DEF Informed, Answered, NoTask, Running

\* What a task that moves on without a walk has to know.
LEMMA MovesInformed ==
    ASSUME NEW t, NEW u, NEW f, Informed(t, f), Running(t), u.req = t.req,
           u.pc \notin {"if", "checkSource", "check", "validate", "lock", "delete", "clear", "deleteLocks"}
    PROVE  Informed(u, f)
  BY DEF Informed, Deleting, Running

LEMMA RunningTask ==
    ASSUME Stepping, NEW c \in Conns, Running(task[c])
    PROVE  /\ task[c] \in Task /\ WalkOK(task[c]) /\ Informed(task[c], fs) /\ IsTree(fs)
           /\ task[c].req \in Request /\ Reaches(task[c].req.method, task[c].pc)
           /\ task[c].req.path \in Paths /\ task[c].req.dest \in Paths
           /\ task[c].req.method \in Methods
<1>1. task[c].req \in Request /\ Reaches(task[c].req.method, task[c].pc)
  BY RunningRequest DEF Stepping, ServerInv
<1> QED BY <1>1, RequestFields DEF Stepping, ServerInv, WalksOK, LocksSettled

\* The next step of a request that only looked around or was refused.
LEMMA AnswerSettles ==
    ASSUME Stepping, NEW c \in Conns, Running(task[c]), NEW status,
           Go(c, Answered(task[c], status)),
           task[c].pc \notin {"delete", "clear", "deleteLocks", "clearLocks", "moveLocks", "open", "undo"},
           DOMAIN fs \subseteq DOMAIN fs', issued' = issued
    PROVE  LocksSettled'
<1> DEFINE u == Answered(task[c], status)
<1>1. Informed(u, fs') /\ u.pc = "done"
  BY AnsweredInformed
<1> HIDE DEF u
<1>2. Go(c, u)
  BY DEF u
<1> QED BY <1>1, <1>2, QuietSettles

LEMMA MetadataSettles ==
    ASSUME Stepping, NEW c \in Conns, Metadata(c)
    PROVE  LocksSettled'
<1> DEFINE t     == task[c]
           known == [t EXCEPT !.isDir = IsDir(fs, t.req.path), !.exists = t.req.path \in DOMAIN fs]
<1>1. /\ t.pc = "meta" /\ Running(t) /\ t \in Task /\ Informed(t, fs)
      /\ fs' = fs /\ issued' = issued
  BY RunningTask DEF Metadata, Running, lockVars
<1>2. \/ Go(c, Answered(t, "failed"))
      \/ \E pc \in {"if", "parent", "release"} :
           /\ Go(c, At(known, pc))
           /\ pc = "if" => t.req.method \notin {"COPY", "MOVE"}
           /\ t.req.method = "DELETE" => t.req.path \in DOMAIN fs
  BY DEF Metadata
<1>3. CASE Go(c, Answered(t, "failed"))
  BY <1>1, <1>3, AnswerSettles
<1>4. ASSUME NEW pc \in {"if", "parent", "release"}, Go(c, At(known, pc)),
             pc = "if" => t.req.method \notin {"COPY", "MOVE"},
             t.req.method = "DELETE" => t.req.path \in DOMAIN fs
      PROVE  LocksSettled'
  <2>1. known \in Task
    <3>1. IsDir(fs, t.req.path) \in BOOLEAN /\ (t.req.path \in DOMAIN fs) \in BOOLEAN
      BY DEF IsDir
    <3> QED BY <1>1, <3>1, Looked, Zenon
  <2>2. /\ known.req = t.req /\ known.exists = (t.req.path \in DOMAIN fs)
        /\ known.isDir = IsDir(fs, t.req.path)
    BY <1>1 DEF Task
  <2> HIDE DEF known
  <2> DEFINE u == At(known, pc)
  <2>3. /\ u.pc = pc /\ u.req = t.req /\ u.exists = known.exists
        /\ u.isDir = known.isDir
    BY <2>1, <2>2, AtKeeps DEF Pcs
  <2>4. Go(c, u)
    BY <1>4
  <2> HIDE DEF u
  <2>5. Informed(u, fs)
    BY <1>1, <1>4, <2>2, <2>3 DEF Informed, Deleting
  <2> QED BY <1>1, <1>4, <2>3, <2>4, <2>5, QuietSettles
<1> QED BY <1>2, <1>3, <1>4

LEMMA LookSettles ==
    ASSUME Stepping, NEW c \in Conns,
           DestParent(c) \/ DestMetadata(c) \/ IfHeader(c) \/ CheckSource(c)
    PROVE  LocksSettled'
<1> DEFINE t == task[c]
<1>1. /\ t.pc \in {"parent", "dest", "if", "checkSource"} /\ Running(t) /\ t \in Task
      /\ Informed(t, fs) /\ Reaches(t.req.method, t.pc) /\ fs' = fs /\ issued' = issued
  BY RunningTask DEF DestParent, DestMetadata, IfHeader, CheckSource, Running, lockVars, LS!Query
<1>2. CASE Go(c, Answered(t, "failed"))
  BY <1>1, <1>2, AnswerSettles
<1>3. CASE Go(c, At(t, "dest"))
  <2> DEFINE u == At(t, "dest")
  <2>1. u.pc = "dest" /\ u.req = t.req /\ Go(c, u)
    BY <1>1, <1>3, AtKeeps DEF Pcs
  <2> HIDE DEF u
  <2>2. Informed(u, fs)
    BY <1>1, <2>1, MovesInformed
  <2> QED BY <1>1, <2>1, <2>2, QuietSettles
<1>4. CASE DestMetadata(c) /\ ~Go(c, Answered(t, "failed"))
  <2> DEFINE u == [At(t, "if") EXCEPT !.exists = t.req.dest \in DOMAIN fs,
                                      !.destFile = IsFile(fs, t.req.dest)]
  <2>1. Go(c, u) /\ t.pc = "dest"
    BY <1>4 DEF DestMetadata
  <2>2. At(t, "if") \in Task /\ At(t, "if").pc = "if" /\ At(t, "if").req = t.req
    BY <1>1, AtKeeps DEF Pcs
  <2>3. /\ u.pc = "if" /\ u.req = t.req /\ u.exists = (t.req.dest \in DOMAIN fs)
        /\ u.destFile = IsFile(fs, t.req.dest)
    BY <2>2 DEF Task
  <2> HIDE DEF u
  <2>4. Informed(u, fs)
    BY <1>1, <2>1, <2>3 DEF Informed, Reaches, Deleting
  <2> QED BY <1>1, <2>1, <2>3, <2>4, QuietSettles
<1>5. CASE IfHeader(c) /\ ~Go(c, Answered(t, "failed"))
  <2>1. PICK pc \in {"lock", "checkSource", "check"} :
           /\ Go(c, At(t, pc)) /\ (pc = "lock" => t.req.method = "LOCK")
           /\ pc = "checkSource" => t.req.method = "MOVE"
    BY <1>5 DEF IfHeader
  <2> DEFINE u == At(t, pc)
  <2>2. /\ u.pc = pc /\ u.req = t.req /\ u.exists = t.exists /\ u.isDir = t.isDir
        /\ u.destFile = t.destFile /\ Go(c, u)
    BY <1>1, <2>1, AtKeeps DEF Pcs
  <2> HIDE DEF u
  <2>3. Informed(u, fs)
    BY <1>1, <1>5, <2>1, <2>2 DEF Informed, Deleting, IfHeader
  <2> QED BY <1>1, <2>2, <2>3, QuietSettles
<1>6. CASE CheckSource(c) /\ ~Go(c, Answered(t, "failed"))
  <2> DEFINE u == [At(t, "check") EXCEPT !.seen = issued]
  <2>1. Go(c, u) /\ t.pc = "checkSource"
    BY <1>6 DEF CheckSource
  <2>2. /\ At(t, "check") \in Task /\ At(t, "check").pc = "check" /\ At(t, "check").req = t.req
        /\ At(t, "check").exists = t.exists /\ At(t, "check").destFile = t.destFile
    BY <1>1, AtKeeps DEF Pcs
  <2>3. /\ u.pc = "check" /\ u.req = t.req /\ u.exists = t.exists /\ u.destFile = t.destFile
    BY <2>2 DEF Task
  <2> HIDE DEF u
  <2>4. Informed(u, fs)
    BY <1>1, <2>1, <2>3 DEF Informed, Reaches, Deleting
  <2> QED BY <1>1, <2>1, <2>3, <2>4, QuietSettles
<1>7. DestParent(c) => Go(c, Answered(t, "failed")) \/ Go(c, At(t, "dest"))
  BY DEF DestParent
<1> QED BY <1>2, <1>3, <1>4, <1>5, <1>6, <1>7

LEMMA CheckSettles ==
    ASSUME Stepping, NEW c \in Conns, Check(c)
    PROVE  LocksSettled'
<1> DEFINE t == task[c]
           passed == [t EXCEPT !.seen = IF t.req.method = "MOVE" THEN @ ELSE issued]
<1>1. /\ t.pc = "check" /\ Running(t) /\ t \in Task /\ Informed(t, fs)
      /\ Reaches(t.req.method, t.pc) /\ fs' = fs /\ issued' = issued
      /\ t.req.path \in Paths /\ t.req.method \in Methods
  BY RunningTask DEF Check, Running, LS!Query
<1>2. CASE Go(c, Answered(t, "failed"))
  BY <1>1, <1>2, AnswerSettles
<1>3. /\ passed \in Task /\ passed.req = t.req /\ passed.exists = t.exists
      /\ passed.isDir = t.isDir /\ passed.destFile = t.destFile
  <2>1. issued \subseteq Tokens
    BY DEF Stepping, ServerInv, LS!IInv, LS!TypeOK
  <2> QED BY <1>1, <2>1 DEF Task
<1>4. \/ Go(c, Answered(t, "failed"))
      \/ /\ t.req.method = "DELETE"
         /\ Go(c, [At(passed, "delete") EXCEPT !.work = <<Frame0(t.req.path, t.req.path, t.isDir)>>])
      \/ t.req.method \in {"COPY", "MOVE"} /\ Go(c, At(passed, "validate"))
      \/ \E pc \in {"put", "create", "refresh"} : Go(c, At(passed, pc))
  <2>1. t.req.method \in {"DELETE", "COPY", "MOVE", "PUT", "MKCOL", "REFRESH"}
    BY <1>1 DEF Reaches, Methods
  <2> QED BY <2>1 DEF Check
<1> HIDE DEF passed
<1>5. CASE t.req.method = "DELETE"
            /\ Go(c, [At(passed, "delete") EXCEPT !.work = <<Frame0(t.req.path, t.req.path, t.isDir)>>])
  <2> DEFINE w == <<Frame0(t.req.path, t.req.path, t.isDir)>>
             u == [At(passed, "delete") EXCEPT !.work = w]
  <2>1. DeleteWalk(w, fs)
    <3>1. t.req.path \in DOMAIN fs /\ t.isDir = IsDir(fs, t.req.path)
      BY <1>1, <1>5 DEF Informed
    <3> QED BY <1>1, <3>1, DeleteBegins
  <2>2. w[1].path = t.req.path /\ w[1].phase = "visit"
    BY DEF Frame0
  <2>3. At(passed, "delete") \in Task /\ At(passed, "delete").pc = "delete"
        /\ At(passed, "delete").req = t.req
    BY <1>3, AtKeeps DEF Pcs
  <2>4. Go(c, u)
    BY <1>5
  <2> HIDE DEF w
  <2>5. u.pc = "delete" /\ u.req = t.req /\ u.work = w
    BY <2>3 DEF Task
  <2> HIDE DEF u
  <2>6. Informed(u, fs)
    BY <1>1, <1>5, <2>1, <2>2, <2>5 DEF Informed, Deleting, WalkRoot
  <2> QED BY <1>1, <2>4, <2>5, <2>6, QuietSettles
<1>6. CASE t.req.method \in {"COPY", "MOVE"} /\ Go(c, At(passed, "validate"))
  <2> DEFINE u == At(passed, "validate")
  <2>1. /\ u.pc = "validate" /\ u.req = t.req /\ u.exists = t.exists /\ u.destFile = t.destFile
        /\ Go(c, u)
    BY <1>3, <1>6, AtKeeps DEF Pcs
  <2> HIDE DEF u
  <2>2. Informed(u, fs)
    BY <1>1, <1>6, <2>1 DEF Informed, Deleting
  <2> QED BY <1>1, <2>1, <2>2, QuietSettles
<1>7. ASSUME NEW pc \in {"put", "create", "refresh"}, Go(c, At(passed, pc))
      PROVE  LocksSettled'
  <2> DEFINE u == At(passed, pc)
  <2>1. u.pc = pc /\ u.req = t.req /\ Go(c, u)
    BY <1>3, <1>7, AtKeeps DEF Pcs
  <2> HIDE DEF u
  <2>2. Informed(u, fs)
    BY <1>1, <2>1, MovesInformed
  <2> QED BY <1>1, <2>1, <2>2, QuietSettles
<1> QED BY <1>2, <1>4, <1>5, <1>6, <1>7

\* On to the copy or the rename.
LEMMA TransferFields ==
    ASSUME NEW t \in Task
    PROVE  /\ Transfer(t).req = t.req /\ Transfer(t).pc \in {"move", "copy"}
           /\ t.req.method # "MOVE" => /\ Transfer(t).pc = "copy"
                                       /\ Transfer(t).work = <<Frame0(t.req.path, t.req.dest, t.isDir)>>
<1>1. \A pc \in {"move", "copy"} : At(t, pc) \in Task /\ At(t, pc).pc = pc /\ At(t, pc).req = t.req
  BY AtKeeps DEF Pcs
<1> DEFINE w == <<Frame0(t.req.path, t.req.dest, t.isDir)>>
<1>2. Transfer(t) = IF t.req.method = "MOVE" THEN [At(t, "move") EXCEPT !.work = <<>>]
                    ELSE [At(t, "copy") EXCEPT !.work = w]
  BY DEF Transfer
<1> HIDE DEF w
<1>3. /\ Transfer(t).req = t.req /\ Transfer(t).pc \in {"move", "copy"}
      /\ t.req.method # "MOVE" => Transfer(t).pc = "copy" /\ Transfer(t).work = w
  BY <1>1, <1>2 DEF Task
<1> QED BY <1>3 DEF w

LEMMA ValidateSettles ==
    ASSUME Stepping, NEW c \in Conns, Validate(c)
    PROVE  LocksSettled'
<1> DEFINE t == task[c]
<1>1. /\ t.pc = "validate" /\ Running(t) /\ t \in Task /\ Informed(t, fs)
      /\ Reaches(t.req.method, t.pc) /\ fs' = fs /\ issued' = issued /\ t.req.dest \in Paths
  BY RunningTask DEF Validate, Running, lockVars
<1>2. CASE Go(c, Answered(t, "failed"))
  BY <1>1, <1>2, AnswerSettles
<1>3. CASE Go(c, Transfer(t))
  <2>1. Informed(Transfer(t), fs) /\ Transfer(t).pc \in {"move", "copy"}
    BY <1>1, TransferFields, MovesInformed
  <2> QED BY <1>1, <1>3, <2>1, QuietSettles
<1>4. CASE Overwrites(t)
           /\ Go(c, [At(t, "clear") EXCEPT !.work = <<Frame0(t.req.dest, t.req.dest, ~t.destFile)>>])
  <2> DEFINE w == <<Frame0(t.req.dest, t.req.dest, ~t.destFile)>>
             u == [At(t, "clear") EXCEPT !.work = w]
  <2>1. DeleteWalk(w, fs)
    <3>1. t.req.dest \in DOMAIN fs /\ (t.destFile <=> IsFile(fs, t.req.dest))
      BY <1>1, <1>4 DEF Informed, Overwrites, Reaches
    <3>2. (~t.destFile) = IsDir(fs, t.req.dest)
      BY <3>1 DEF IsFile, IsDir
    <3> QED BY <1>1, <3>1, <3>2, DeleteBegins
  <2>2. w[1].path = t.req.dest /\ w[1].phase = "visit"
    BY DEF Frame0
  <2>3. At(t, "clear") \in Task /\ At(t, "clear").pc = "clear" /\ At(t, "clear").req = t.req
    BY <1>1, AtKeeps DEF Pcs
  <2>4. Go(c, u)
    BY <1>4
  <2> HIDE DEF w
  <2>5. u.pc = "clear" /\ u.req = t.req /\ u.work = w
    BY <2>3 DEF Task
  <2> HIDE DEF u
  <2>6. Informed(u, fs)
    BY <1>1, <2>1, <2>2, <2>5 DEF Informed, Deleting, WalkRoot, Reaches
  <2> QED BY <1>1, <2>4, <2>5, <2>6, QuietSettles
<1> QED BY <1>2, <1>3, <1>4 DEF Validate

-----------------------------------------------------------------------------
(* The walk of a DELETE, or of a COPY or MOVE that makes room.             *)

LEMMA DeletingTask ==
    ASSUME Stepping, NEW c \in Conns, Deleting(task[c])
    PROVE  LET t == task[c]
               n == Len(t.work)
           IN  /\ Running(t) /\ Walking(t) /\ WalkOK(t) /\ Informed(t, fs) /\ IsTree(fs)
               /\ t \in Task /\ DeleteWalk(t.work, fs) /\ t.work[1].path = WalkRoot(t)
               /\ t.work[1].phase = "loop" => t.pc = "clear" \/ t.req.deep
               /\ n \in Nat /\ n \in 1..n /\ Top(t) = t.work[n] /\ DeleteCall(t.work, n, fs)
               /\ Above(WalkRoot(t), Top(t).path) /\ Top(t) \in Frame
               /\ n > 1 => t.work[1].phase = "loop"
               /\ t.pc = "clear" => WalkRoot(t) # Root
               /\ t.pc = "delete" => t.req.method = "DELETE" /\ WalkRoot(t) = t.req.path
<1> DEFINE t == task[c]
           n == Len(t.work)
<1>1. Running(t) /\ Walking(t)
  BY DEF Deleting, Running, Walking
<1>2. /\ t \in Task /\ WalkOK(t) /\ Informed(t, fs) /\ IsTree(fs) /\ t.req.path \in Paths
      /\ Reaches(t.req.method, t.pc)
  BY <1>1, RunningTask
<1>3. /\ DeleteWalk(t.work, fs) /\ t.work[1].path = WalkRoot(t)
      /\ t.work[1].phase = "loop" => t.pc = "clear" \/ t.req.deep
  BY <1>1, <1>2 DEF Informed
<1>4. n \in Nat /\ n \in 1..n /\ Top(t) = t.work[n] /\ InWalk(t, Top(t)) /\ Top(t) \in Frame
  BY <1>1, <1>2, TopInWalk
<1>5. \A i \in 1..n : DeleteCall(t.work, i, fs)
  BY <1>3 DEF DeleteWalk
<1>6. Above(WalkRoot(t), Top(t).path)
  BY <1>1, <1>4 DEF InWalk, Deleting
<1>7. n > 1 => t.work[1].phase = "loop"
  <2> HIDE DEF n
  <2>1. n > 1 => 1 \in 1..n
    BY <1>4
  <2> QED BY <1>5, <2>1 DEF DeleteCall, n
<1>8. t.pc = "clear" => WalkRoot(t) # Root
  <2>1. t.pc = "clear" => ~Nested(t.req)
    BY <1>1, <1>2 DEF WalkOK, Paired, Reaches
  <2> QED BY <1>2, <2>1, RootIsAbove DEF Nested, WalkRoot
<1>9. t.pc = "delete" => t.req.method = "DELETE" /\ WalkRoot(t) = t.req.path
  BY <1>2 DEF Reaches, WalkRoot
<1> QED BY <1>1, <1>2, <1>3, <1>4, <1>5, <1>6, <1>7, <1>8, <1>9

\* The walk goes on: what is not there any more is below where it started.
LEMMA WalkOnSettles ==
    ASSUME Stepping, NEW c \in Conns, Deleting(task[c]), NEW u, Go(c, u),
           SameButWork(task[c], u), DeleteWalk(u.work, fs'),
           u.work[1].path = task[c].work[1].path, u.work[1].phase = "loop",
           task[c].pc = "clear" \/ task[c].req.deep, issued' = issued,
           \A p \in DOMAIN fs : p \in DOMAIN fs' \/ Above(WalkRoot(task[c]), p)
    PROVE  LocksSettled'
<1> DEFINE t == task[c]
<1>1. Running(t) /\ Informed(t, fs) /\ t.work[1].path = WalkRoot(t)
  BY DeletingTask
<1>2. u.pc = t.pc /\ u.req = t.req /\ Deleting(u) /\ WalkRoot(u) = WalkRoot(t)
  BY DEF SameButWork, Deleting, WalkRoot
<1>3. Informed(u, fs')
  BY <1>1, <1>2 DEF Informed, Deleting, Running
<1>4. ASSUME NEW k \in LS!InForce' PROVE k.path \in DOMAIN fs' \/ Excuses(u, k)
  <2>1. k.token \in issued
    BY <1>4 DEF Stepping, ServerInv, LS!IInv, LS!InForce
  <2>2. PICK l \in LS!InForce : l.token = k.token /\ l.path = k.path
    BY <1>4, <2>1, InForceBefore DEF Stepping
  <2>3. l.path \in DOMAIN fs \/ Excuses(t, l)
    BY <1>1, RunningExcuses DEF Stepping
  <2>4. Excuses(t, l) => Above(WalkRoot(t), l.path)
    BY DEF Excuses, Deleting, Holding
  <2> QED BY <1>2, <2>2, <2>3, <2>4 DEF Excuses
<1> QED BY <1>1, <1>2, <1>3, <1>4, Settles DEF Deleting

LEMMA RemoveSettles ==
    ASSUME Stepping, Steady, NEW c \in Conns, Deleting(task[c]),
           Remove(c, task[c], Top(task[c]).path), issued' = issued,
           \/ RemoveErrors(fs, Top(task[c]).path) = {}
           \/ Len(task[c].work) = 1 /\ task[c].work[1].phase = "visit"
    PROVE  LocksSettled'
<1> DEFINE t == task[c]
           w == t.work
           n == Len(w)
           r == Top(t).path
           root == WalkRoot(t)
<1>1. /\ Running(t) /\ Walking(t) /\ WalkOK(t) /\ Informed(t, fs) /\ IsTree(fs)
      /\ DeleteWalk(w, fs) /\ w[1].path = root /\ n \in Nat /\ n \in 1..n /\ Top(t) = w[n]
      /\ Above(root, r) /\ (n > 1 => w[1].phase = "loop")
      /\ (w[1].phase = "loop" => t.pc = "clear" \/ t.req.deep)
  BY DeletingTask
<1>2. PICK failed \in MayFail("remove", RemoveErrors(fs, r)) :
         fs' = (IF failed THEN fs ELSE Without(fs, r)) /\ Go(c, Returned(t, failed))
  BY DEF Remove
<1>3. failed \in BOOLEAN /\ (failed <=> RemoveErrors(fs, r) # {})
  BY <1>2 DEF MayFail, Steady
<1>4. \A k \in LS!InForce' : \E l \in LS!InForce :
        /\ l.token = k.token /\ l.path = k.path
        /\ l.path \in DOMAIN fs \/ Excuses(t, l)
  <2>1. \A k \in LS!InForce' : k.token \in issued
    BY DEF Stepping, ServerInv, LS!IInv, LS!InForce
  <2> QED BY <1>1, <2>1, InForceBefore, RunningExcuses DEF Stepping
<1>5. \A l : Excuses(t, l) => w[1].phase = "loop" /\ Above(root, l.path)
  BY DEF Excuses, Deleting, Holding
<1>6. CASE failed
  <2>1. n = 1 /\ w[1].phase = "visit" /\ fs' = fs
    BY <1>2, <1>3, <1>6
  <2>2. Go(c, Answered(t, "failed"))
    BY <1>2, <1>6, <2>1 DEF Returned
  <2> DEFINE u == Answered(t, "failed")
  <2>3. Informed(u, fs') /\ u.pc = "done"
    BY AnsweredInformed
  <2>4. Go(c, u)
    BY <2>2
  <2> HIDE DEF u
  <2>5. \A k \in LS!InForce' : k.path \in DOMAIN fs'
    BY <1>4, <1>5, <2>1
  <2> QED BY <1>1, <2>3, <2>4, <2>5, Settles
<1>7. CASE ~failed
  <2>1. fs' = Without(fs, r) /\ RemoveErrors(fs, r) = {} /\ Go(c, Returned(t, FALSE))
    BY <1>2, <1>3, <1>7
  <2>2. DOMAIN fs' = DOMAIN fs \ {r} /\ r # Root
    BY <2>1 DEF Without, RemoveErrors
  <2>3. \A p \in DOMAIN fs : p \in DOMAIN fs' \/ Above(root, p)
    BY <1>1, <2>2
  <2> DEFINE u == Returned(t, FALSE)
  <2>4. \/ n > 1 /\ SameButWork(t, u) /\ Left(w, u.work, FALSE)
        \/ /\ n = 1 /\ u.req = t.req
           /\ \/ t.pc = "delete" /\ u.pc = "deleteLocks"
              \/ t.pc = "clear" /\ u.pc = "clearLocks"
    <3>1. t.pc # "copy"
      BY DEF Deleting
    <3> QED BY <1>1, <3>1, ReturnLeaves
  <2>5. Go(c, u)
    BY <2>1
  <2> HIDE DEF u
  <2>6. CASE n > 1 /\ SameButWork(t, u) /\ Left(w, u.work, FALSE)
    <3>1. DeleteWalk(u.work, fs')
      BY <1>1, <2>1, <2>6, DeleteLeaves
    <3>2. u.work[1].path = w[1].path /\ u.work[1].phase = "loop"
      <4>1. 1 \in 1..Len(u.work)
        BY <3>1 DEF DeleteWalk
      <4> QED BY <1>1, <2>6, <4>1 DEF Left
    <3> QED BY <1>1, <2>3, <2>5, <2>6, <3>1, <3>2, WalkOnSettles
  <2>7. CASE /\ n = 1 /\ u.req = t.req
             /\ \/ t.pc = "delete" /\ u.pc = "deleteLocks"
                \/ t.pc = "clear" /\ u.pc = "clearLocks"
    <3>1. root = r
      BY <1>1, <2>7
    <3>2. u.pc = "deleteLocks" => root = u.req.path
      BY <2>7 DEF WalkRoot
    <3>3. u.pc = "clearLocks" => root = u.req.dest
      BY <2>7 DEF WalkRoot
    <3>4. Informed(u, fs')
      BY <1>1, <2>2, <2>7, <3>1, <3>2 DEF Informed, Running, Deleting
    <3>5. \A k \in LS!InForce' : k.path \in DOMAIN fs' \/ Excuses(u, k)
      BY <1>4, <1>5, <2>3, <2>7, <3>2, <3>3 DEF Excuses
    <3> QED BY <1>1, <2>5, <2>7, <3>4, <3>5, Settles
  <2> QED BY <2>4, <2>6, <2>7
<1> QED BY <1>6, <1>7

\* A call that has read its directory.
LEMMA ListingFrame ==
    ASSUME IsTree(fs), NEW frame \in Frame
    PROVE  LET x == [frame EXCEPT !.phase = "loop", !.todo = Listing(frame.path)]
           IN  /\ x \in Frame /\ x.path = frame.path /\ x.dest = frame.dest
               /\ x.isDir = frame.isDir /\ x.failed = frame.failed
               /\ x.phase = "loop" /\ x.todo = Listing(frame.path)
<1> DEFINE L == Listing(frame.path)
           x == [frame EXCEPT !.phase = "loop", !.todo = L]
<1>1. L \in SUBSET [path : Paths, isDir : BOOLEAN]
  <2>1. \A q : IsDir(fs, q) \in BOOLEAN
    BY DEF IsDir
  <2> QED BY <2>1 DEF Listing, Members, IsTree
<1> HIDE DEF L
<1>2. x \in Frame
  BY <1>1 DEF Frame
<1>3. /\ x.path = frame.path /\ x.dest = frame.dest /\ x.isDir = frame.isDir
      /\ x.failed = frame.failed /\ x.phase = "loop" /\ x.todo = L
  BY DEF Frame
<1> QED BY <1>2, <1>3 DEF L

LEMMA DeleteVisitSettles ==
    ASSUME Stepping, Steady, NEW c \in Conns, DeleteVisit(c)
    PROVE  LocksSettled'
<1> DEFINE t == task[c]
           w == t.work
           n == Len(w)
           frame == Top(t)
           x == [frame EXCEPT !.phase = "loop", !.todo = Listing(frame.path)]
           u == WithTop(t, x)
<1>1. Deleting(t) /\ frame.phase = "visit" /\ issued' = issued
  BY DEF DeleteVisit, lockVars
<1>2. /\ Running(t) /\ Walking(t) /\ WalkOK(t) /\ t \in Task /\ Informed(t, fs) /\ IsTree(fs)
      /\ DeleteWalk(w, fs) /\ n \in Nat /\ n \in 1..n /\ frame = w[n] /\ DeleteCall(w, n, fs)
      /\ (w[1].phase = "loop" => t.pc = "clear" \/ t.req.deep)
      /\ frame \in Frame /\ (n > 1 => w[1].phase = "loop") /\ w[1].path = WalkRoot(t)
  BY <1>1, DeletingTask
<1>3. CASE frame.isDir /\ (t.pc = "clear" \/ t.req.deep)
  <2>1. IsDir(fs, frame.path)
    BY <1>2, <1>3 DEF DeleteCall
  <2>2. Go(c, u) /\ fs' = fs
    BY <1>3, <2>1 DEF DeleteVisit, ReadDir
  <2>3. /\ x \in Frame /\ x.path = frame.path /\ x.isDir = frame.isDir
        /\ x.failed = frame.failed /\ x.phase = "loop" /\ x.todo = Listing(x.path)
    BY <1>2, ListingFrame
  <2> HIDE DEF x
  <2>4. SameButWork(t, u) /\ Resumed(w, u.work, x)
    BY <1>2, <2>3, WithTopResumes
  <2> HIDE DEF u
  <2>5. DeleteWalk(u.work, fs)
    BY <1>2, <2>1, <2>3, <2>4, DeleteLists
  <2>6. u.work[1].path = w[1].path /\ u.work[1].phase = "loop"
    <3> HIDE DEF n
    <3>1. 1 \in 1..n /\ (n = 1 \/ n > 1)
      BY <1>2
    <3> QED BY <1>2, <2>3, <2>4, <3>1 DEF Resumed, n
  <2> QED BY <1>1, <1>3, <2>2, <2>4, <2>5, <2>6, WalkOnSettles
<1>4. CASE ~(frame.isDir /\ (t.pc = "clear" \/ t.req.deep))
  <2>1. Remove(c, t, frame.path)
    BY <1>4 DEF DeleteVisit
  <2>2. CASE frame.isDir
    <3>1. w[1].phase # "loop" /\ ~(n > 1)
      BY <1>2, <1>4, <2>2
    <3>2. n = 1
      <4> HIDE DEF n
      <4> QED BY <1>2, <3>1
    <3> QED BY <1>1, <1>2, <2>1, <3>2, RemoveSettles
  <2>3. CASE ~frame.isDir
    <3>1. n > 1 \/ w[1].path # Root
      <4>1. n > 1 \/ n = 1
        <5> HIDE DEF n
        <5> QED BY <1>2
      <4>2. IsDir(fs, Root)
        BY <1>2 DEF IsTree
      <4> QED BY <1>2, <2>3, <4>1, <4>2 DEF DeleteCall
    <3>2. RemoveErrors(fs, frame.path) = {}
      BY <1>1, <1>2, <2>3, <3>1, DeleteRemoves
    <3> QED BY <1>1, <2>1, <3>2, RemoveSettles
  <2> QED BY <2>2, <2>3
<1> QED BY <1>3, <1>4

LEMMA DeleteLeaveSettles ==
    ASSUME Stepping, Steady, NEW c \in Conns, DeleteLeave(c)
    PROVE  LocksSettled'
<1> DEFINE t == task[c]
           w == t.work
           n == Len(w)
           frame == Top(t)
<1>1. Deleting(t) /\ frame.phase = "loop" /\ frame.todo = {} /\ issued' = issued
  BY DEF DeleteLeave, lockVars
<1>2. /\ Running(t) /\ Informed(t, fs) /\ IsTree(fs)
      /\ DeleteWalk(w, fs) /\ n \in Nat /\ n \in 1..n /\ frame = w[n] /\ DeleteCall(w, n, fs)
      /\ (w[1].phase = "loop" => t.pc = "clear" \/ t.req.deep)
      /\ (n > 1 => w[1].phase = "loop") /\ w[1].path = WalkRoot(t)
      /\ (t.pc = "clear" => WalkRoot(t) # Root)
      /\ (t.pc = "delete" => t.req.method = "DELETE" /\ WalkRoot(t) = t.req.path)
  BY <1>1, DeletingTask
<1>3. w[1].path # Root
  <2>1. n > 1 \/ n = 1
    <3> HIDE DEF n
    <3> QED BY <1>2
  <2>2. t.pc = "clear" \/ (t.pc = "delete" /\ t.req.deep)
    BY <1>1, <1>2, <2>1 DEF Deleting
  <2> QED BY <1>2, <2>2 DEF Informed
<1>4. ~frame.failed
  BY <1>2 DEF DeleteCall
<1>5. RemoveErrors(fs, frame.path) = {}
  BY <1>1, <1>2, <1>3, DeleteRemoves
<1>6. Remove(c, t, frame.path)
  BY <1>4 DEF DeleteLeave
<1> QED BY <1>1, <1>5, <1>6, RemoveSettles

\* The next call of a walk, as PushCalls has it.
EntryCalled(t, frame, u, x, y, e) ==
    /\ SameButWork(t, u) /\ Called(t.work, u.work, x, y) /\ e \in frame.todo
    /\ x.path = frame.path /\ x.dest = frame.dest /\ x.isDir = frame.isDir
    /\ x.failed = frame.failed /\ x.phase = "loop" /\ x.todo = frame.todo \ {e}
    /\ y.path = e.path /\ y.isDir = e.isDir /\ ~y.failed /\ y.phase = "visit"
    /\ y.todo = {}
    /\ y.dest = frame.dest \o SubSeq(e.path, Len(e.path), Len(e.path))

LEMMA NextEntryCalls ==
    ASSUME NEW c, WalkOK(task[c]), NextEntry(c)
    PROVE  LET t == task[c]
           IN  /\ Running(t) /\ Walking(t) /\ Top(t) = t.work[Len(t.work)]
               /\ Top(t).phase = "loop" /\ fs' = fs /\ issued' = issued
               /\ \E u, x, y, e : Go(c, u) /\ EntryCalled(t, Top(t), u, x, y, e)
<1> DEFINE t == task[c]
           frame == Top(t)
           d(q) == frame.dest \o SubSeq(q, Len(q), Len(q))
<1>1. Running(t) /\ Walking(t) /\ frame.phase = "loop" /\ fs' = fs /\ issued' = issued
  BY DEF NextEntry, Walking, Deleting, Running, lockVars
<1>2. WalkOK(t)
  OBVIOUS
<1>3. /\ InWalk(t, frame) /\ frame \in Frame /\ frame.path \in Paths /\ frame.dest \in Seq(Names)
      /\ frame = t.work[Len(t.work)]
  BY <1>1, <1>2, TopInWalk DEF InWalk, Frame
<1>4. PICK e \in frame.todo :
         Go(c, [WithTop(t, [frame EXCEPT !.todo = @ \ {e}]) EXCEPT
                  !.work = Append(@, Frame0(e.path, d(e.path), e.isDir))])
  BY DEF NextEntry
<1> DEFINE x == [frame EXCEPT !.todo = @ \ {e}]
           y == Frame0(e.path, d(e.path), e.isDir)
           u == [WithTop(t, x) EXCEPT !.work = Append(@, y)]
<1>5. e.path \in Paths \ {Root} /\ e.isDir \in BOOLEAN
  BY <1>3 DEF InWalk, Frame
<1>6. d(e.path) \in Seq(Names)
  <2> DEFINE s == SubSeq(e.path, Len(e.path), Len(e.path))
  <2>1. s \in Seq(Names)
    BY <1>5, LastName
  <2> HIDE DEF s
  <2>2. frame.dest \o s \in Seq(Names)
    BY <1>3, <2>1
  <2> QED BY <2>2 DEF s
<1>7. Go(c, u)
  BY <1>4
<1> HIDE DEF d
<1>8. /\ x \in Frame /\ x.path = frame.path /\ x.dest = frame.dest /\ x.isDir = frame.isDir
      /\ x.failed = frame.failed /\ x.phase = "loop" /\ x.todo = frame.todo \ {e}
  BY <1>1, <1>3 DEF Frame
<1>9. /\ y \in Frame /\ y.path = e.path /\ y.dest = d(e.path) /\ y.isDir = e.isDir
      /\ y.failed = FALSE /\ y.phase = "visit" /\ y.todo = {}
  BY <1>5, <1>6, PathsAreSequences DEF Frame0, Frame
<1> HIDE DEF x, y
<1>10. SameButWork(t, u) /\ Called(t.work, u.work, x, y)
  BY <1>1, <1>2, <1>8, <1>9, PushCalls
<1> HIDE DEF u
<1>11. EntryCalled(t, frame, u, x, y, e)
  BY <1>8, <1>9, <1>10 DEF EntryCalled, d
<1> QED BY <1>1, <1>2, <1>3, <1>7, <1>11

LEMMA NextEntrySettles ==
    ASSUME Stepping, NEW c \in Conns, NextEntry(c)
    PROVE  LocksSettled'
<1> DEFINE t == task[c]
           w == t.work
           n == Len(w)
           frame == Top(t)
<1>0. WalkOK(t)
  BY DEF Stepping, ServerInv, WalksOK
<1>1. /\ Running(t) /\ Walking(t) /\ frame = w[n] /\ frame.phase = "loop"
      /\ fs' = fs /\ issued' = issued
  BY <1>0, NextEntryCalls
<1>2. PICK u, x, y, e : Go(c, u) /\ EntryCalled(t, frame, u, x, y, e)
  BY <1>0, NextEntryCalls
<1>3. /\ SameButWork(t, u) /\ Called(w, u.work, x, y) /\ e \in frame.todo
      /\ x.path = frame.path /\ x.isDir = frame.isDir /\ x.failed = frame.failed
      /\ x.phase = "loop" /\ x.todo = frame.todo \ {e}
      /\ y.path = e.path /\ y.isDir = e.isDir /\ ~y.failed /\ y.phase = "visit"
      /\ y.todo = {} /\ Go(c, u)
  BY <1>2 DEF EntryCalled
<1>4. CASE Deleting(t)
  <2>1. /\ DeleteWalk(w, fs) /\ n \in Nat /\ n \in 1..n /\ IsTree(fs) /\ frame \in Frame
        /\ (w[1].phase = "loop" => t.pc = "clear" \/ t.req.deep)
        /\ (n > 1 => w[1].phase = "loop")
    BY <1>4, DeletingTask
  <2>2. \A d \in frame.todo : d = [path |-> d.path, isDir |-> d.isDir]
    BY <2>1 DEF Frame
  <2>3. DeleteWalk(u.work, fs)
    BY <1>1, <1>3, <2>1, <2>2, DeleteCalls
  <2>4. u.work[1].path = w[1].path /\ u.work[1].phase = "loop" /\ w[1].phase = "loop"
    <3>1. Len(u.work) = n + 1 /\ \A i \in 1..Len(u.work) :
            u.work[i] = IF i = Len(u.work) THEN y ELSE IF i = n THEN x ELSE w[i]
      BY <1>3 DEF Called
    <3> HIDE DEF n
    <3>2. 1 \in 1..Len(u.work) /\ 1 # Len(u.work) /\ (n = 1 \/ n > 1)
      BY <2>1, <3>1
    <3> QED BY <1>1, <1>3, <2>1, <3>1, <3>2
  <2> QED BY <1>1, <1>3, <1>4, <2>1, <2>3, <2>4, WalkOnSettles
<1>5. CASE t.pc = "copy"
  <2>1. u.pc = "copy" /\ u.req = t.req
    BY <1>3, <1>5 DEF SameButWork
  <2>2. Informed(u, fs)
    BY <1>1, <1>5, <2>1, RunningTask, MovesInformed
  <2> QED BY <1>1, <1>3, <1>5, <2>1, <2>2, QuietSettles
<1> QED BY <1>1, <1>4, <1>5 DEF Walking, Deleting

-----------------------------------------------------------------------------
(* The acts that take nothing away.                                        *)

\* A step of a copy: its call returns or goes on.
LEMMA CopyingSettles ==
    ASSUME Stepping, NEW c \in Conns, task[c].pc = "copy", NEW u, Go(c, u),
           \/ \E failed \in BOOLEAN : u = Returned(task[c], failed)
           \/ \E x : u = WithTop(task[c], x),
           DOMAIN fs \subseteq DOMAIN fs', issued' = issued
    PROVE  LocksSettled'
<1> DEFINE t == task[c]
<1>1. Running(t) /\ Walking(t)
  BY DEF Running, Walking
<1>2. t \in Task /\ WalkOK(t) /\ Informed(t, fs)
  BY <1>1, RunningTask
<1>3. u.req = t.req /\ u.pc \in {"copy", "done"}
  <2>1. ASSUME NEW failed \in BOOLEAN, u = Returned(t, failed)
        PROVE  u.req = t.req /\ u.pc \in {"copy", "done"}
    <3>1. \A status : Answered(t, status).req = t.req /\ Answered(t, status).pc = "done"
      BY DEF Answered, NoTask
    <3> QED BY <1>1, <1>2, <2>1, <3>1, ReturnLeaves DEF SameButWork
  <2>2. ASSUME NEW x, u = WithTop(t, x) PROVE u.req = t.req /\ u.pc = "copy"
    BY <1>2, <2>2 DEF WithTop, Task
  <2> QED BY <2>1, <2>2
<1>4. Informed(u, fs')
  BY <1>1, <1>2, <1>3 DEF Informed, Deleting, Running
<1> QED BY <1>1, <1>3, <1>4, QuietSettles

LEMMA CopySettles ==
    ASSUME Stepping, NEW c \in Conns,
           \/ CopyVisit(c) \/ CopyFile(c) \/ CopyDir(c) \/ CopyProps(c) \/ CopyList(c)
           \/ CopyLeave(c)
    PROVE  LocksSettled'
<1> DEFINE t     == task[c]
           frame == Top(t)
<1>1. t.pc = "copy" /\ issued' = issued
  BY DEF CopyVisit, CopyFile, CopyDir, CopyProps, CopyList, CopyLeave, lockVars
<1>2. TRUE \in BOOLEAN /\ FALSE \in BOOLEAN
  OBVIOUS
<1>3. \A p, entry : DOMAIN fs \subseteq DOMAIN With(fs, p, entry)
  BY DEF With
<1>4. frame.failed \in BOOLEAN
  <2>1. Running(t) /\ Walking(t)
    BY <1>1 DEF Running, Walking
  <2> QED BY <2>1, RunningTask, TopInWalk DEF Frame
<1>5. /\ DOMAIN fs \subseteq DOMAIN fs'
      /\ \/ \E failed \in BOOLEAN : Go(c, Returned(t, failed))
         \/ \E x : Go(c, WithTop(t, x))
  <2>1. CASE CopyVisit(c) \/ CopyProps(c)
    BY <1>2, <2>1 DEF CopyVisit, CopyProps
  <2>2. CASE CopyFile(c)
    <3>1. PICK failed \in MayFail("copy", CopyErrors(fs, frame.path, frame.dest)) :
             /\ fs' = IF failed THEN fs ELSE With(fs, frame.dest, fs[frame.path])
             /\ Go(c, Returned(t, failed))
      BY <2>2 DEF CopyFile
    <3> QED BY <1>3, <3>1, MayFailMeaning
  <2>3. CASE CopyDir(c)
    BY <1>2, <1>3, <2>3 DEF CopyDir
  <2>4. CASE CopyList(c)
    BY <1>2, <2>4 DEF CopyList, ReadDir
  <2>5. CASE CopyLeave(c)
    BY <1>4, <2>5 DEF CopyLeave
  <2> QED BY <2>1, <2>2, <2>3, <2>4, <2>5
<1>6. ASSUME NEW failed \in BOOLEAN, Go(c, Returned(t, failed)) PROVE LocksSettled'
  BY <1>1, <1>5, <1>6, CopyingSettles
<1>7. ASSUME NEW x, Go(c, WithTop(t, x)) PROVE LocksSettled'
  BY <1>1, <1>5, <1>7, CopyingSettles
<1> QED BY <1>5, <1>6, <1>7

LEMMA PutSettles ==
    ASSUME Stepping, NEW c \in Conns, Put(c) \/ Refresh(c) \/ Release(c)
    PROVE  LocksSettled'
<1> DEFINE t == task[c]
<1>1. t.pc \in {"put", "refresh", "release"} /\ Running(t) /\ issued' = issued
  BY DEF Put, Refresh, Release, Running, lockVars, LS!Refresh, LS!Unlock
<1>2. \E status : Go(c, Answered(t, status))
  BY DEF Put, Refresh, Release
<1>3. DOMAIN fs \subseteq DOMAIN fs'
  BY DEF Put, Refresh, Release, With
<1> QED BY <1>1, <1>2, <1>3, AnswerSettles

\* With nothing removed or moved, every lock is on a resource.
LEMMA NothingStray ==
    ASSUME Stepping, NEW c \in Conns, Running(task[c]), ~Holding(task[c]),
           task[c].pc \notin {"delete", "clear", "deleteLocks", "clearLocks", "moveLocks"},
           NEW k \in LS!InForce', k.token \in issued
    PROVE  k.path \in DOMAIN fs /\ \E l \in LS!InForce : l.path = k.path
<1>1. PICK l \in LS!InForce : l.token = k.token /\ l.path = k.path
  BY InForceBefore DEF Stepping
<1>2. ~Excuses(task[c], l)
  BY DEF Excuses, Deleting, Holding
<1> QED BY <1>1, <1>2, RunningExcuses DEF Stepping

LEMMA StoredIssued ==
    ASSUME Stepping, issued' = issued
    PROVE  \A k \in LS!InForce' : k.token \in issued
  BY DEF Stepping, ServerInv, LS!IInv, LS!InForce

LEMMA MakeSettles ==
    ASSUME Stepping, NEW c \in Conns, MakeCollection(c) \/ Mark(c) \/ Rollback(c)
    PROVE  LocksSettled'
<1> DEFINE t == task[c]
           p == t.req.path
<1>1. /\ t.pc \in {"create", "mark", "rollback"} /\ Running(t) /\ issued' = issued /\ t \in Task
      /\ Informed(t, fs)
  BY RunningTask DEF MakeCollection, Mark, Rollback, Running, lockVars
<1>2. \A k \in LS!InForce' : k.path \in DOMAIN fs /\ \E l \in LS!InForce : l.path = k.path
  BY <1>1, NothingStray, StoredIssued DEF Holding
<1>3. \A pc \in {"mark", "rollback"} :
        At(t, pc).pc = pc /\ At(t, pc).req = t.req /\ Informed(At(t, pc), fs')
  <2>1. ASSUME NEW pc \in {"mark", "rollback"}
        PROVE  At(t, pc).pc = pc /\ At(t, pc).req = t.req
    BY <1>1, AtKeeps DEF Pcs
  <2> QED BY <1>1, <2>1 DEF Informed, Running, Deleting
<1>4. CASE MakeCollection(c)
  <2>1. PICK failed \in MayFail("create_dir", CreateDirErrors(fs, p)) :
           /\ fs' = IF failed THEN fs ELSE With(fs, p, Dir)
           /\ Go(c, IF failed THEN Answered(t, "failed")
                    ELSE IF t.req.body THEN At(t, "mark") ELSE Answered(t, "ok"))
    BY <1>4 DEF MakeCollection
  <2>2. DOMAIN fs \subseteq DOMAIN fs'
    BY <2>1 DEF With
  <2>3. ASSUME NEW status, Go(c, Answered(t, status)) PROVE LocksSettled'
    BY <1>1, <2>2, <2>3, AnswerSettles
  <2>4. CASE ~failed /\ Go(c, At(t, "mark"))
    <3>1. CreateDirErrors(fs, p) = {}
      BY <2>4, MayFailMeaning
    <3>2. p \notin DOMAIN fs
      BY <3>1 DEF CreateDirErrors
    <3> DEFINE u == At(t, "mark")
    <3>3. u.pc = "mark" /\ u.req = t.req /\ Informed(u, fs') /\ Go(c, u)
      BY <1>3, <2>4
    <3> HIDE DEF u
    <3>4. \A k \in LS!InForce' : k.path # u.req.path /\ k.path \in DOMAIN fs'
      BY <1>2, <2>2, <3>2, <3>3
    <3> QED BY <1>1, <3>3, <3>4, Settles
  <2> QED BY <2>1, <2>3, <2>4
<1>5. CASE Mark(c)
  <2>1. fs' = fs /\ t.pc = "mark"
    BY <1>5 DEF Mark
  <2>2. CASE Go(c, Answered(t, "ok"))
    BY <1>1, <2>1, <2>2, AnswerSettles
  <2>3. CASE Go(c, At(t, "rollback"))
    <3> DEFINE u == At(t, "rollback")
    <3>1. u.pc = "rollback" /\ u.req = t.req /\ Informed(u, fs') /\ Go(c, u)
      BY <1>3, <2>3
    <3> HIDE DEF u
    <3>2. \A l \in LS!InForce : l.path # u.req.path
      BY <2>1, <3>1 DEF Stepping, LocksSettled, MadeUnlocked
    <3>3. \A k \in LS!InForce' : k.path # u.req.path /\ k.path \in DOMAIN fs'
      BY <1>2, <2>1, <3>2
    <3> QED BY <1>1, <3>1, <3>3, Settles
  <2> QED BY <1>5, <2>2, <2>3 DEF Mark
<1>6. CASE Rollback(c)
  <2>1. t.pc = "rollback" /\ DOMAIN fs \ {p} \subseteq DOMAIN fs'
    BY <1>6 DEF Rollback, Without
  <2>2. \A l \in LS!InForce : l.path # p
    BY <2>1 DEF Stepping, LocksSettled, MadeUnlocked
  <2>3. \A k \in LS!InForce' : k.path \in DOMAIN fs'
    BY <1>2, <2>1, <2>2
  <2> DEFINE u == Answered(t, "failed")
  <2>4. Informed(u, fs') /\ u.pc = "done"
    BY AnsweredInformed
  <2>5. Go(c, u)
    BY <1>6 DEF Rollback
  <2> HIDE DEF u
  <2> QED BY <1>1, <2>3, <2>4, <2>5, Settles
<1> QED BY <1>4, <1>5, <1>6

-----------------------------------------------------------------------------
(* The acts that move resources and those on locks.                        *)

LEMMA DropLocksSettles ==
    ASSUME Stepping, NEW c \in Conns, DropLocks(c)
    PROVE  LocksSettled'
<1> DEFINE t == task[c]
           p == IF t.pc = "clearLocks" THEN t.req.dest ELSE t.req.path
<1>1. /\ t.pc \in {"deleteLocks", "moveLocks", "clearLocks"} /\ Running(t) /\ t \in Task
      /\ Informed(t, fs) /\ WalkOK(t) /\ t.req.path \in Paths /\ t.req.dest \in Paths
      /\ Reaches(t.req.method, t.pc)
  BY RunningTask DEF DropLocks, Running
<1>2. LS!Delete(p) /\ fs' = fs /\ issued' = issued
  BY DEF DropLocks, LS!Delete
<1>3. p \in Paths \ {Root}
  <2>1. t.pc = "deleteLocks" => t.req.path # Root
    BY <1>1 DEF Informed
  <2>2. t.pc # "deleteLocks" => ~Nested(t.req)
    BY <1>1 DEF WalkOK, Paired, Reaches
  <2> QED BY <1>1, <2>1, <2>2, RootIsAbove DEF Nested
<1> HIDE DEF p
<1>4. \A l \in LS!AllLocks(nodes') : ~Above(p, l.path)
  <2>1. LSP!Delete(p) /\ LSP!IInv
    BY <1>2, SameMethods, SameInvariant DEF Stepping, ServerInv
  <2>2. \A q \in Paths \ {Root} : LSP!Delete(q) => \A l \in LSP!AllLocks(nodes') : ~LSP!Above(q, l.path)
    BY <2>1, LSP!DeleteEnds, PathsAssumption, LocksAssumption, FileTreeAssumption DEF LSP!Root, Root
  <2>3. \A l \in LSP!AllLocks(nodes') : ~LSP!Above(p, l.path)
    BY <1>3, <2>1, <2>2, Zenon
  <2> QED BY <2>3, SameLocks
<1>5. \A k \in LS!InForce' : k.path \in DOMAIN fs'
  <2> SUFFICES ASSUME NEW k \in LS!InForce' PROVE k.path \in DOMAIN fs
    BY <1>2
  <2>1. k.token \in issued /\ k \in LS!AllLocks(nodes')
    BY <1>2, StoredIssued DEF LS!InForce, LS!AllLocks
  <2>2. PICK l \in LS!InForce : l.token = k.token /\ l.path = k.path
    BY <2>1, InForceBefore DEF Stepping
  <2>3. ~Excuses(t, l)
    BY <1>1, <1>4, <2>1, <2>2 DEF Excuses, Deleting, Holding, p
  <2> QED BY <1>1, <2>2, <2>3, RunningExcuses DEF Stepping
<1>6. CASE Go(c, Answered(t, "ok"))
  <2> DEFINE u == Answered(t, "ok")
  <2>1. Informed(u, fs') /\ u.pc = "done" /\ Go(c, u)
    BY <1>6, AnsweredInformed
  <2> HIDE DEF u
  <2> QED BY <1>1, <1>5, <2>1, Settles
<1>7. CASE Go(c, Transfer(t))
  <2>1. Informed(Transfer(t), fs') /\ Transfer(t).pc \in {"move", "copy"}
    BY <1>1, <1>2, TransferFields, MovesInformed
  <2> QED BY <1>1, <1>5, <1>7, <2>1, Settles
<1> QED BY <1>1, <1>6, <1>7 DEF DropLocks

LEMMA MovedKeeps ==
    ASSUME IsTree(fs), NEW from \in Paths, NEW to \in Paths, RenameErrors(fs, from, to) = {},
           NEW p \in DOMAIN fs, ~Above(from, p)
    PROVE  p \in DOMAIN Moved(fs, from, to)
<1> DEFINE moving == DOMAIN fs \cap Subtree(from)
<1>1. from \in moving
  <2>1. from \in DOMAIN fs
    BY DEF RenameErrors
  <2> QED BY <2>1, AboveReflexive DEF Subtree
<1>2. Rebase(from, from, to) = to
  <2>1. from \in Seq(Names) /\ to \in Seq(Names)
    BY PathsAreSequences
  <2> QED BY <2>1 DEF Rebase
<1>3. DOMAIN Moved(fs, from, to)
        = (DOMAIN fs \ (moving \cup {to})) \cup {Rebase(r, from, to) : r \in moving}
  BY DEF Moved
<1> QED BY <1>1, <1>2, <1>3 DEF Subtree

LEMMA MoveSettles ==
    ASSUME Stepping, NEW c \in Conns, Move(c)
    PROVE  LocksSettled'
<1> DEFINE t == task[c]
<1>1. /\ t.pc = "move" /\ Running(t) /\ t \in Task /\ Informed(t, fs) /\ IsTree(fs)
      /\ t.req.path \in Paths /\ t.req.dest \in Paths /\ issued' = issued
  BY RunningTask DEF Move, Running, lockVars
<1>2. PICK failed \in MayFail("rename", RenameErrors(fs, t.req.path, t.req.dest)) :
         /\ fs' = IF failed THEN fs ELSE Moved(fs, t.req.path, t.req.dest)
         /\ Go(c, IF failed THEN Answered(t, "failed") ELSE At(t, "moveLocks"))
  BY DEF Move
<1>3. CASE failed
  BY <1>1, <1>2, <1>3, AnswerSettles
<1>4. CASE ~failed
  <2>1. RenameErrors(fs, t.req.path, t.req.dest) = {}
    BY <1>2, <1>4, MayFailMeaning
  <2> DEFINE u == At(t, "moveLocks")
  <2>2. u.pc = "moveLocks" /\ u.req = t.req /\ Go(c, u)
    BY <1>1, <1>2, <1>4, AtKeeps DEF Pcs
  <2> HIDE DEF u
  <2>3. Informed(u, fs')
    BY <1>1, <2>2 DEF Informed, Running, Deleting
  <2>4. ASSUME NEW k \in LS!InForce' PROVE k.path \in DOMAIN fs' \/ Excuses(u, k)
    <3>1. k.path \in DOMAIN fs
      BY <1>1, NothingStray, StoredIssued DEF Holding
    <3>2. Above(t.req.path, k.path) \/ k.path \in DOMAIN fs'
      BY <1>1, <1>2, <1>4, <2>1, <3>1, MovedKeeps
    <3> QED BY <2>2, <3>2 DEF Excuses
  <2> QED BY <1>1, <2>2, <2>3, <2>4, Settles
<1> QED BY <1>3, <1>4

LEMMA TakeLockSettles ==
    ASSUME Stepping, NEW c \in Conns, TakeLock(c)
    PROVE  LocksSettled'
<1> DEFINE t == task[c]
           granted == CHOOSE token \in issued' \ issued : TRUE
           locked == [t EXCEPT !.token = granted, !.seen = issued]
<1>1. /\ t.pc = "lock" /\ Running(t) /\ t \in Task /\ Informed(t, fs) /\ fs' = fs
      /\ t.req.path \in Paths /\ t.req \in Request /\ Reaches(t.req.method, t.pc)
      /\ LS!Lock(t.req.path, t.req.principal, t.req.timeout, t.req.shared, t.req.deep)
  BY RunningTask DEF TakeLock, Running
<1>2. CASE issued' = issued
  BY <1>1, <1>2, AnswerSettles DEF TakeLock
<1>3. CASE issued' # issued
  <2>1. PICK token \in Tokens \ issued : issued' = issued \cup {token}
    BY <1>1, <1>3 DEF LS!Lock
  <2>2. granted = token
    BY <2>1
  <2>3. \A l \in LS!AllLocks(nodes') : l.token \in issued \/ l.path = t.req.path
    BY LockAtRequest DEF Stepping
  <2>4. locked \in Task /\ locked.req = t.req /\ locked.token = token
    <3>1. issued \subseteq Tokens
      BY DEF Stepping, ServerInv, LS!IInv, LS!TypeOK
    <3> QED BY <1>1, <2>1, <2>2, <3>1 DEF Task
  <2> HIDE DEF granted, locked
  <2>5. ASSUME NEW k \in LS!InForce'
        PROVE  k.path \in DOMAIN fs \/ (k.path = t.req.path /\ k.token = token)
    <3>1. k \in LS!AllLocks(nodes') /\ k.token \in issued'
      BY <2>5 DEF LS!InForce, LS!AllLocks, Stepping, ServerInv, LS!IInv
    <3>2. CASE k.token \in issued
      BY <1>1, <2>5, <3>2, NothingStray DEF Holding
    <3>3. CASE k.token \notin issued
      BY <2>1, <2>3, <3>1, <3>3
    <3> QED BY <3>2, <3>3
  <2>6. CASE t.exists /\ Go(c, Answered(locked, "ok"))
    <3> DEFINE u == Answered(locked, "ok")
    <3>1. Informed(u, fs') /\ u.pc = "done" /\ Go(c, u)
      BY <2>6, AnsweredInformed
    <3> HIDE DEF u
    <3>2. t.req.path \in DOMAIN fs
      BY <1>1, <2>6 DEF Informed, Reaches
    <3> QED BY <1>1, <2>5, <3>1, <3>2, Settles
  <2>7. CASE Go(c, At(locked, "open"))
    <3> DEFINE u == At(locked, "open")
    <3>1. u.pc = "open" /\ u.req = t.req /\ u.token = token /\ Go(c, u)
      BY <2>4, <2>7, AtKeeps DEF Pcs
    <3> HIDE DEF u
    <3>2. Informed(u, fs')
      BY <1>1, <3>1 DEF Informed, Running, Deleting
    <3>3. \A k \in LS!InForce' : k.path \in DOMAIN fs' \/ Excuses(u, k)
      BY <1>1, <2>5, <3>1 DEF Excuses, Holding
    <3> QED BY <1>1, <3>1, <3>2, <3>3, Settles
  <2> QED BY <1>3, <2>6, <2>7 DEF TakeLock, locked, granted
<1> QED BY <1>2, <1>3

LEMMA OpenSettles ==
    ASSUME Stepping, NEW c \in Conns, Open(c) \/ UndoLock(c)
    PROVE  LocksSettled'
<1> DEFINE t == task[c]
           p == t.req.path
<1>1. /\ t.pc \in {"open", "undo"} /\ Running(t) /\ t \in Task /\ Informed(t, fs)
      /\ issued' = issued
  BY RunningTask DEF Open, UndoLock, Running, lockVars, LS!Unlock
<1>2. ASSUME NEW k \in LS!InForce' PROVE k.path \in DOMAIN fs \/ (k.path = p /\ k.token = t.token)
  <2>1. PICK l \in LS!InForce : l.token = k.token /\ l.path = k.path
    BY <1>1, <1>2, StoredIssued, InForceBefore DEF Stepping
  <2>2. l.path \in DOMAIN fs \/ l.token = t.token
    BY <1>1, RunningExcuses DEF Stepping, Excuses, Deleting
  <2>3. l.token = t.token => l.path = p
    BY <1>1, <2>1 DEF Stepping, Guarded, InOrder, Accounted, Holding, LS!InForce
  <2> QED BY <2>1, <2>2, <2>3
<1>3. CASE Open(c)
  <2>1. PICK failed \in MayFail("open", OpenErrors(fs, p, TRUE, t.req.fresh)) :
           /\ fs' = IF failed \/ p \in DOMAIN fs THEN fs ELSE With(fs, p, c)
           /\ Go(c, IF failed THEN At(t, "undo") ELSE Answered(t, "ok"))
    BY <1>3 DEF Open
  <2>2. CASE failed
    <3> DEFINE u == At(t, "undo")
    <3>1. u.pc = "undo" /\ u.req = t.req /\ u.token = t.token /\ Go(c, u)
      BY <1>1, <2>1, <2>2, AtKeeps DEF Pcs
    <3> HIDE DEF u
    <3>2. Informed(u, fs')
      BY <1>1, <3>1 DEF Informed, Running, Deleting
    <3>3. \A k \in LS!InForce' : k.path \in DOMAIN fs' \/ Excuses(u, k)
      BY <1>2, <2>1, <2>2, <3>1 DEF Excuses, Holding
    <3> QED BY <1>1, <3>1, <3>2, <3>3, Settles
  <2>3. CASE ~failed
    <3> DEFINE u == Answered(t, "ok")
    <3>1. Informed(u, fs') /\ u.pc = "done" /\ Go(c, u)
      BY <2>1, <2>3, AnsweredInformed
    <3> HIDE DEF u
    <3>2. DOMAIN fs \subseteq DOMAIN fs' /\ p \in DOMAIN fs'
      BY <2>1, <2>3 DEF With
    <3>3. \A k \in LS!InForce' : k.path \in DOMAIN fs'
      BY <1>2, <3>2
    <3> QED BY <1>1, <3>1, <3>3, Settles
  <2> QED BY <2>2, <2>3
<1>4. CASE UndoLock(c)
  <2> DEFINE u == Answered(t, "failed")
  <2>1. Informed(u, fs') /\ u.pc = "done" /\ Go(c, u) /\ fs' = fs
    BY <1>4, AnsweredInformed DEF UndoLock
  <2> HIDE DEF u
  <2>2. \A k \in LS!InForce' : k.token # t.token
    BY <1>4, UndoEndsLock DEF Stepping, LS!InForce, LS!AllLocks
  <2>3. \A k \in LS!InForce' : k.path \in DOMAIN fs'
    BY <1>2, <2>1, <2>2
  <2> QED BY <1>1, <2>1, <2>3, Settles
<1> QED BY <1>3, <1>4

-----------------------------------------------------------------------------
(* All steps, and the theorem.                                             *)

LEMMA ArriveSettles ==
    ASSUME Stepping, Steady, NEW c \in Conns, Arrive(c)
    PROVE  LocksSettled'
<1>1. /\ \A d \in Conns : ~Running(task[d])
      /\ fs' = fs /\ issued' = issued /\ now' = now /\ nodes' = nodes
  BY DEF Arrive, Steady, Idle, Running, lockVars
<1>2. PICK req \in Workload[c] : Go(c, [NoTask EXCEPT !.pc = "meta", !.req = req])
  BY DEF Arrive
<1> DEFINE u == [NoTask EXCEPT !.pc = "meta", !.req = req]
<1>3. u.pc = "meta" /\ u.req = req /\ Go(c, u)
  BY <1>2 DEF NoTask
<1> HIDE DEF u
<1>4. Informed(u, fs')
  BY <1>3 DEF Informed, Steady, Deleting
<1>5. \A d \in Conns : \A l : ~Excuses(task[d], l)
  BY <1>1 DEF Excuses, Running, Deleting, Holding
<1>6. \A k \in LS!InForce' : k.path \in DOMAIN fs'
  <2> SUFFICES ASSUME NEW k \in LS!InForce' PROVE k.path \in DOMAIN fs
    BY <1>1
  <2>1. PICK l \in LS!InForce : l.token = k.token /\ l.path = k.path
    BY <1>1, StoredIssued, InForceBefore DEF Stepping
  <2> QED BY <1>5, <2>1 DEF Stepping, LocksSettled
<1> QED BY <1>1, <1>3, <1>4, <1>6, SettlesAlone

\* Time passes, or nothing happens.
LEMMA RestSettles ==
    ASSUME Stepping, UNCHANGED <<fs, issued, task>>
    PROVE  LocksSettled'
<1>1. \A k \in LS!InForce' : \E l \in LS!InForce : l.token = k.token /\ l.path = k.path
  BY StoredIssued, InForceBefore DEF Stepping
<1>2. \A l, k : \A t : l.token = k.token /\ l.path = k.path => (Excuses(t, l) <=> Excuses(t, k))
  BY DEF Excuses
<1>3. ASSUME NEW k \in LS!InForce'
      PROVE  k.path \in DOMAIN fs' \/ \E c \in Conns : Excuses(task'[c], k)
  <2>1. PICK l \in LS!InForce : l.token = k.token /\ l.path = k.path
    BY <1>1
  <2>2. l.path \in DOMAIN fs \/ \E c \in Conns : Excuses(task[c], l)
    BY DEF Stepping, LocksSettled
  <2> QED BY <1>2, <2>1, <2>2
<1>4. OneRunning' /\ \A c \in Conns : Informed(task'[c], fs')
  BY DEF Stepping, LocksSettled, OneRunning
<1>5. \A c \in Conns : MadeUnlocked(task[c])'
  BY <1>1 DEF Stepping, LocksSettled, MadeUnlocked
<1> QED BY <1>3, <1>4, <1>5 DEF LocksSettled, Informed, Excuses, Running, Deleting, Holding, WalkRoot

LEMMA NextSettles ==
    ASSUME Stepping, Steady
    PROVE  LocksSettled'
<1>1. ASSUME NEW c \in Conns, Step(c) PROVE LocksSettled'
  BY <1>1, MetadataSettles, LookSettles, CheckSettles, ValidateSettles, DeleteVisitSettles,
     NextEntrySettles, DeleteLeaveSettles, CopySettles, DropLocksSettles, MoveSettles, PutSettles,
     MakeSettles, TakeLockSettles, OpenSettles DEF Step
<1>2. ASSUME NEW c \in Conns PROVE ~Drop(c)
  BY DEF Drop, Steady
<1>3. CASE Tick
  BY <1>3, RestSettles DEF Tick, LS!Tick
<1>4. CASE UNCHANGED vars
  BY <1>4, RestSettles DEF vars
<1> QED BY <1>1, <1>2, <1>3, <1>4, ArriveSettles DEF Stepping, Next

LEMMA InitSettled == Init => LocksSettled
<1>1. Init => \A c \in Conns : task[c] = NoTask
  BY DEF Init
<1>2. NoTask.pc = "idle"
  BY DEF NoTask
<1>3. Init => LS!InForce = {}
  BY DEF Init, LS!Init, LS!InForce, LS!AllLocks
<1> QED BY <1>1, <1>2, <1>3 DEF LocksSettled, OneRunning, Informed, MadeUnlocked, Running

\* With nothing under way every lock in force is on a resource that exists,
\* for requests one at a time: whatever they delete, move, overwrite or fail to
\* create takes its locks along, or gives them back.
THEOREM NoLockIsStray == ASSUME Steady PROVE Spec => []NoStrayLocks
<1>1. ServerInv /\ Guarded /\ LocksSettled /\ ServerInv' /\ [Next]_vars => LocksSettled'
  BY NextSettles DEF Stepping
<1>2. LocksSettled => NoStrayLocks
  BY DEF LocksSettled, NoStrayLocks, Idle, Excuses, Deleting, Holding
<1> QED BY <1>1, <1>2, InitSettled, ServerInvariant, RequestsStayGuarded, PTL DEF Spec

-----------------------------------------------------------------------------
(* do_copy with nobody else at work: what has been copied is as the source *)
(* is, and what has not is waiting for a call.                             *)

Place(r, p) == Rebase(p, r.path, r.dest)

Copied(r, f, p) == Place(r, p) \in DOMAIN f /\ f[Place(r, p)] = f[p]

\* A call under way will still come by p.
Waits(w, p) ==
    \/ \E i \in 1..Len(w) : \E e \in w[i].todo : Above(e.path, p)
    \/ LET x == w[Len(w)]
       IN  Above(x.path, p) /\ x.phase # "loop" /\ (x.phase \in {"props", "list"} => p # x.path)

\* A call of do_copy, on a resource of the source.
CopyCall(r, x, f) ==
    /\ x.path \in DOMAIN f /\ Above(r.path, x.path) /\ x.dest = Place(r, x.path)
    /\ x.phase \in {"mkdir", "props", "list", "loop"} => IsDir(f, x.path)
    /\ x.phase = "file" => IsFile(f, x.path)
    /\ x.phase # "loop" => x.todo = {} /\ ~x.failed
    /\ \A e \in x.todo : e.path \in Members(f, x.path)

\* Nothing is at the destination but what the source has.
OnlyCopies(r, f) ==
    \A q \in DOMAIN f \cap Subtree(r.dest) :
       \E p \in DOMAIN f \cap Subtree(r.path) : q = Place(r, p)

CopyCalls(r, w, f) ==
    /\ w \in Seq(Frame) /\ w # <<>>
    /\ \A i \in 1..Len(w) : CopyCall(r, w[i], f) /\ (i < Len(w) => w[i].phase = "loop")
    /\ OnlyCopies(r, f)

\* Unless a call has failed, all of the source is done or waits.
Covered(r, w, f) ==
    (\A i \in 1..Len(w) : ~w[i].failed)
      => \A p \in DOMAIN f \cap Subtree(r.path) : Copied(r, f, p) \/ Waits(w, p)

\* The request, and the tree it works on.
CopySetting(r, f) ==
    r.path \in Paths /\ r.dest \in Paths /\ ~Nested(r) /\ IsTree(f)

LEMMA ResumedCalls ==
    ASSUME NEW r, NEW w, NEW v, NEW x, NEW f, CopyCalls(r, w, f), Resumed(w, v, x),
           CopyCall(r, x, f)
    PROVE  CopyCalls(r, v, f)
<1> DEFINE n == Len(w)
<1>1. n \in Nat /\ n \in 1..n /\ v \in Seq(Frame) /\ Len(v) = n
      /\ \A i \in 1..n : v[i] = IF i = n THEN x ELSE w[i]
  BY DEF CopyCalls, Resumed
<1>2. v # <<>>
  BY <1>1
<1>3. \A i \in 1..n : CopyCall(r, v[i], f) /\ (i < n => v[i].phase = "loop")
  BY <1>1 DEF CopyCalls
<1> QED BY <1>1, <1>2, <1>3 DEF CopyCalls

LEMMA CalledCalls ==
    ASSUME NEW r, NEW w, NEW v, NEW x, NEW y, NEW f, CopyCalls(r, w, f), Called(w, v, x, y),
           CopyCall(r, x, f), x.phase = "loop", CopyCall(r, y, f)
    PROVE  CopyCalls(r, v, f)
<1> DEFINE n == Len(w)
<1>1. n \in Nat /\ n \in 1..n /\ v \in Seq(Frame) /\ Len(v) = n + 1
      /\ \A i \in 1..n + 1 : v[i] = IF i = n + 1 THEN y ELSE IF i = n THEN x ELSE w[i]
  BY DEF CopyCalls, Called
<1>2. \A i \in 1..n : CopyCall(r, w[i], f) /\ (i < n => w[i].phase = "loop")
  BY DEF CopyCalls
<1> HIDE DEF n
<1>3. v # <<>>
  BY <1>1
<1>4. ASSUME NEW i \in 1..n + 1
      PROVE  CopyCall(r, v[i], f) /\ (i < n + 1 => v[i].phase = "loop")
  <2>1. CASE i = n + 1
    BY <1>1, <2>1
  <2>2. CASE i = n
    BY <1>1, <2>2
  <2>3. CASE i # n + 1 /\ i # n
    <3>1. i \in 1..n /\ i < n
      BY <1>1, <2>3
    <3> QED BY <1>1, <1>2, <2>3, <3>1
  <2> QED BY <2>1, <2>2, <2>3
<1> QED BY <1>1, <1>3, <1>4 DEF CopyCalls

LEMMA LeftCalls ==
    ASSUME NEW r, NEW w, NEW v, NEW failed, NEW f, CopyCalls(r, w, f), Left(w, v, failed)
    PROVE  CopyCalls(r, v, f)
<1> DEFINE n == Len(v)
<1>1. n \in Nat /\ n \in 1..n /\ v \in Seq(Frame) /\ Len(w) = n + 1
      /\ \A i \in 1..n : /\ v[i].path = w[i].path /\ v[i].dest = w[i].dest
                         /\ v[i].phase = w[i].phase /\ v[i].todo = w[i].todo
  BY DEF Left
<1>2. \A i \in 1..n + 1 : CopyCall(r, w[i], f) /\ (i < n + 1 => w[i].phase = "loop")
  BY <1>1 DEF CopyCalls
<1> HIDE DEF n
<1>3. v # <<>>
  BY <1>1 DEF n
<1>4. \A i \in 1..n : CopyCall(r, v[i], f) /\ v[i].phase = "loop"
  <2>1. \A i \in 1..n : i \in 1..n + 1 /\ i < n + 1
    BY <1>1
  <2> QED BY <1>1, <1>2, <2>1 DEF CopyCall
<1> QED BY <1>1, <1>3, <1>4 DEF CopyCalls, n

\* What the tree f has become by copying s.
CopiedToo(r, f, g, s) ==
    /\ \A p \in Paths : Above(r.path, p) => (p \in DOMAIN g <=> p \in DOMAIN f)
    /\ DOMAIN f \subseteq DOMAIN g
    /\ OnlyCopies(r, f) => OnlyCopies(r, g)
    /\ Copied(r, g, s)
    /\ \A p \in DOMAIN f : Above(r.path, p) /\ Copied(r, f, p) => Copied(r, g, p)
    /\ \A x : CopyCall(r, x, f) => CopyCall(r, x, g)

\* One resource of the source is copied.
LEMMA CopyAdds ==
    ASSUME NEW r, NEW f, NEW s \in DOMAIN f, CopySetting(r, f), Above(r.path, s),
           Place(r, s) \in Paths
    PROVE  CopiedToo(r, f, With(f, Place(r, s), f[s]), s)
<1> DEFINE d == Place(r, s)
           g == With(f, d, f[s])
<1>1. r.path \in Paths /\ r.dest \in Paths /\ ~Above(r.path, r.dest) /\ ~Above(r.dest, r.path)
      /\ DOMAIN f \subseteq Paths /\ s \in Paths
  BY DEF CopySetting, Nested, IsTree
<1>2. Above(r.dest, d)
  BY <1>1, RebaseBack DEF Place
<1>3. DOMAIN g = DOMAIN f \cup {d} /\ \A q \in DOMAIN g : g[q] = IF q = d THEN f[s] ELSE f[q]
  BY DEF With
<1>4. \A p \in Paths : Above(r.path, p) => p # d
  BY <1>1, <1>2, AboveIsChain
<1> HIDE DEF g, d
<1>5. ASSUME NEW p \in Paths, Above(r.path, p)
      PROVE  (p \in DOMAIN g <=> p \in DOMAIN f) /\ (p \in DOMAIN f => g[p] = f[p])
  BY <1>3, <1>4, <1>5
<1>6. OnlyCopies(r, f) => OnlyCopies(r, g)
  BY <1>1, <1>3 DEF OnlyCopies, Subtree, d
<1>7. Copied(r, g, s)
  BY <1>1, <1>3, <1>5 DEF Copied, d
<1>8. ASSUME NEW p \in DOMAIN f, Above(r.path, p), Copied(r, f, p)
      PROVE  Copied(r, g, p)
  <2>1. CASE Place(r, p) = d
    <3>1. p = s
      <4>1. Place(r, p) \in Paths /\ d \in Paths
        BY <2>1 DEF d
      <4>2. Rebase(Place(r, p), r.dest, r.path) = p
        BY <1>1, <1>8, <4>1, RebaseBack DEF Place
      <4>3. Rebase(d, r.dest, r.path) = s
        BY <1>1, <4>1, RebaseBack DEF Place, d
      <4> QED BY <2>1, <4>2, <4>3
    <3> QED BY <1>7, <3>1
  <2>2. CASE Place(r, p) # d
    BY <1>1, <1>3, <1>5, <1>8, <2>2 DEF Copied
  <2> QED BY <2>1, <2>2
<1>9. ASSUME NEW x, CopyCall(r, x, f) PROVE CopyCall(r, x, g)
  <2>1. x.path \in DOMAIN f /\ x.path \in Paths /\ Above(r.path, x.path)
    BY <1>1, <1>9 DEF CopyCall
  <2>2. x.path \in DOMAIN g /\ g[x.path] = f[x.path]
    BY <1>5, <2>1
  <2>3. \A e \in x.todo : e.path \in Members(g, x.path)
    BY <1>3, <1>9 DEF CopyCall, Members
  <2> QED BY <1>9, <2>1, <2>2, <2>3 DEF CopyCall, IsDir, IsFile
<1>10. DOMAIN f \subseteq DOMAIN g
  BY <1>3
<1>11. CopiedToo(r, f, g, s)
  BY <1>5, <1>6, <1>7, <1>8, <1>9, <1>10 DEF CopiedToo
<1> QED BY <1>11 DEF g, d

\* A call has failed: its caller notes it, and nothing is promised any more.
LEMMA FailureCovers ==
    ASSUME NEW r, NEW w, NEW v, NEW f, Left(w, v, TRUE)
    PROVE  Covered(r, v, f)
  BY DEF Left, Covered

\* The topmost call goes on in its next phase.
LEMMA ResumedCovers ==
    ASSUME NEW r, NEW w, NEW v, NEW x, NEW f, NEW g, CopyCalls(r, w, f), Covered(r, w, f),
           Resumed(w, v, x), x.path = w[Len(w)].path, x.failed = w[Len(w)].failed,
           w[Len(w)].phase # "loop",
           \A p \in DOMAIN g \cap Subtree(r.path) :
              /\ p \in DOMAIN f
              /\ Copied(r, f, p) => Copied(r, g, p)
              /\ Above(x.path, p) /\ (w[Len(w)].phase \in {"props", "list"} => p # x.path) =>
                   \/ Copied(r, g, p)
                   \/ \E e \in x.todo : Above(e.path, p)
                   \/ x.phase # "loop" /\ (x.phase \in {"props", "list"} => p # x.path)
    PROVE  Covered(r, v, g)
<1> DEFINE n == Len(w)
<1>1. n \in Nat /\ n \in 1..n /\ Len(v) = n
      /\ \A i \in 1..n : v[i] = IF i = n THEN x ELSE w[i]
  BY DEF CopyCalls, Resumed
<1>2. w[n].todo = {}
  BY <1>1 DEF CopyCalls, CopyCall
<1> HIDE DEF n
<1>3. SUFFICES ASSUME \A i \in 1..n : ~v[i].failed, NEW p \in DOMAIN g \cap Subtree(r.path)
               PROVE  Copied(r, g, p) \/ Waits(v, p)
  BY <1>1 DEF Covered, n
<1>4. \A i \in 1..n : ~w[i].failed
  BY <1>1, <1>3 DEF n
<1>5. Copied(r, f, p) \/ Waits(w, p)
  BY <1>3, <1>4 DEF Covered, n
<1>6. CASE Copied(r, f, p)
  BY <1>3, <1>6
<1>7. ASSUME NEW i \in 1..n, NEW e \in w[i].todo, Above(e.path, p) PROVE Waits(v, p)
  <2>1. v[i] = w[i] /\ i \in 1..Len(v)
    BY <1>1, <1>2, <1>7
  <2> QED BY <1>7, <2>1 DEF Waits
<1>8. CASE Above(w[n].path, p) /\ (w[n].phase \in {"props", "list"} => p # w[n].path)
  <2>1. \/ Copied(r, g, p)
        \/ \E e \in x.todo : Above(e.path, p)
        \/ x.phase # "loop" /\ (x.phase \in {"props", "list"} => p # x.path)
    BY <1>3, <1>8 DEF n
  <2>2. v[Len(v)] = x /\ Len(v) \in 1..Len(v) /\ Above(x.path, p)
    BY <1>1, <1>8 DEF n
  <2> QED BY <2>1, <2>2 DEF Waits
<1> QED BY <1>5, <1>6, <1>7, <1>8 DEF Waits, n

\* A call is made for the next entry.
LEMMA CalledCovers ==
    ASSUME NEW r, NEW w, NEW v, NEW x, NEW y, NEW f, CopyCalls(r, w, f), Covered(r, w, f),
           Called(w, v, x, y), w[Len(w)].phase = "loop", NEW e, x.failed = w[Len(w)].failed,
           x.todo = w[Len(w)].todo \ {e}, y.path = e.path, y.phase = "visit"
    PROVE  Covered(r, v, f)
<1> DEFINE n == Len(w)
<1>1. n \in Nat /\ n \in 1..n /\ Len(v) = n + 1
      /\ \A i \in 1..n + 1 : v[i] = IF i = n + 1 THEN y ELSE IF i = n THEN x ELSE w[i]
  BY DEF CopyCalls, Called
<1> HIDE DEF n
<1>2. /\ \A i \in 1..n : i \in 1..n + 1 /\ v[i] = IF i = n THEN x ELSE w[i]
      /\ n + 1 \in 1..n + 1 /\ v[n + 1] = y
  BY <1>1
<1>3. SUFFICES ASSUME \A i \in 1..n + 1 : ~v[i].failed, NEW p \in DOMAIN f \cap Subtree(r.path)
               PROVE  Copied(r, f, p) \/ Waits(v, p)
  BY <1>1 DEF Covered
<1>4. \A i \in 1..n : ~w[i].failed
  BY <1>2, <1>3 DEF n
<1>5. Copied(r, f, p) \/ Waits(w, p)
  BY <1>3, <1>4 DEF Covered, n
<1>6. ASSUME NEW i \in 1..n, NEW d \in w[i].todo, Above(d.path, p) PROVE Waits(v, p)
  <2>1. CASE d \in v[i].todo
    BY <1>1, <1>2, <1>6, <2>1 DEF Waits
  <2>2. CASE d \notin v[i].todo
    <3>1. d = e
      BY <1>2, <1>6, <2>2 DEF n
    <3> QED BY <1>1, <1>2, <1>6, <3>1 DEF Waits
  <2> QED BY <2>1, <2>2
<1> QED BY <1>5, <1>6 DEF Waits, n

\* The topmost call is over and did what it had to do.
LEMMA LeftCovers ==
    ASSUME NEW r, NEW w, NEW v, NEW f, NEW g, CopyCalls(r, w, f), Covered(r, w, f),
           Left(w, v, FALSE), ~w[Len(w)].failed, w[Len(w)].todo = {},
           \A p \in DOMAIN g \cap Subtree(r.path) :
              /\ p \in DOMAIN f
              /\ Copied(r, f, p) => Copied(r, g, p)
              /\ Above(w[Len(w)].path, p) /\ w[Len(w)].phase # "loop" => Copied(r, g, p)
    PROVE  Covered(r, v, g)
<1> DEFINE n == Len(v)
<1>1. n \in Nat /\ n \in 1..n /\ Len(w) = n + 1
      /\ \A i \in 1..n : v[i].todo = w[i].todo /\ (v[i].failed <=> w[i].failed)
  <2>1. \A i \in 1..Len(v) : v[i].failed <=> w[i].failed
    BY DEF Left
  <2> QED BY <2>1 DEF Left
<1> HIDE DEF n
<1>2. \A i \in 1..n + 1 : i \in 1..n \/ i = Len(w)
  BY <1>1
<1>3. SUFFICES ASSUME \A i \in 1..n : ~v[i].failed, NEW p \in DOMAIN g \cap Subtree(r.path)
               PROVE  Copied(r, g, p) \/ Waits(v, p)
  BY DEF Covered, n
<1>4. \A i \in 1..Len(w) : ~w[i].failed
  BY <1>1, <1>2, <1>3
<1>5. Copied(r, f, p) \/ Waits(w, p)
  BY <1>3, <1>4 DEF Covered
<1>6. ASSUME NEW i \in 1..Len(w), NEW e \in w[i].todo, Above(e.path, p) PROVE Waits(v, p)
  <2>1. i \in 1..n
    BY <1>1, <1>2, <1>6
  <2> QED BY <1>1, <1>6, <2>1 DEF Waits, n
<1> QED BY <1>3, <1>5, <1>6 DEF Waits

Whole(r, f) ==
    OnlyCopies(r, f) /\ \A p \in DOMAIN f \cap Subtree(r.path) : Copied(r, f, p)

\* The outermost call is over and did what it had to do.
LEMMA LastCopies ==
    ASSUME NEW r, NEW w, NEW f, NEW g, CopyCalls(r, w, f), Covered(r, w, f), Len(w) = 1,
           ~w[1].failed, w[1].todo = {}, OnlyCopies(r, g),
           \A p \in DOMAIN g \cap Subtree(r.path) :
              /\ p \in DOMAIN f
              /\ Copied(r, f, p) => Copied(r, g, p)
              /\ Above(w[1].path, p) /\ w[1].phase # "loop" => Copied(r, g, p)
    PROVE  Whole(r, g)
<1>1. \A i \in 1..Len(w) : i = 1
  OBVIOUS
<1>2. ASSUME NEW p \in DOMAIN g \cap Subtree(r.path) PROVE Copied(r, g, p)
  <2>1. Copied(r, f, p) \/ Waits(w, p)
    BY <1>1, <1>2 DEF Covered
  <2> QED BY <1>1, <1>2, <2>1 DEF Waits
<1> QED BY <1>2 DEF Whole

-----------------------------------------------------------------------------
(* The steps of do_copy.                                                   *)

CopyAt(t, f) ==
    /\ t.pc = "copy" /\ t.req.deep /\ WalkOK(t) /\ CopySetting(t.req, f)
    /\ t.req.path \in DOMAIN f /\ CopyCalls(t.req, t.work, f) /\ Covered(t.req, t.work, f)

\* What a step may make of it.
CopyResult(t, u, f) ==
    \/ SameButWork(t, u) /\ CopyCalls(t.req, u.work, f) /\ Covered(t.req, u.work, f)
    \/ u = Answered(t, "failed")
    \/ u = Answered(t, "ok") /\ Whole(t.req, f)

CopyGoes(c) ==
    task[c].req.path \in DOMAIN fs' /\ \E u : Go(c, u) /\ CopyResult(task[c], u, fs')

LEMMA CopyTop ==
    ASSUME NEW t, NEW f, CopyAt(t, f)
    PROVE  /\ Walking(t) /\ WalkOK(t) /\ Top(t) = t.work[Len(t.work)] /\ Top(t) \in Frame
           /\ CopyCall(t.req, Top(t), f) /\ Top(t).path \in DOMAIN f /\ Top(t).path \in Paths
           /\ Above(t.req.path, Top(t).path)
           /\ Len(t.work) \in Nat /\ Len(t.work) \in 1..Len(t.work)
<1>1. Walking(t) /\ WalkOK(t)
  BY DEF CopyAt, Walking
<1>2. /\ Len(t.work) \in Nat /\ Len(t.work) \in 1..Len(t.work)
      /\ Top(t) = t.work[Len(t.work)] /\ Top(t) \in Frame
  BY <1>1, TopInWalk
<1>3. CopyCall(t.req, Top(t), f)
  BY <1>2 DEF CopyAt, CopyCalls
<1>4. DOMAIN f \subseteq Paths
  BY DEF CopyAt, CopySetting, IsTree
<1> QED BY <1>1, <1>2, <1>3, <1>4 DEF CopyCall

LEMMA CallFails ==
    ASSUME NEW t, NEW f, CopyAt(t, f)
    PROVE  CopyResult(t, Returned(t, TRUE), f)
<1> DEFINE u == Returned(t, TRUE)
<1>1. \/ SameButWork(t, u) /\ Left(t.work, u.work, TRUE)
      \/ u = Answered(t, "failed")
  BY CopyTop, ReturnLeaves
<1> HIDE DEF u
<1>2. ASSUME Left(t.work, u.work, TRUE)
      PROVE  CopyCalls(t.req, u.work, f) /\ Covered(t.req, u.work, f)
  BY <1>2, LeftCalls, FailureCovers DEF CopyAt
<1> QED BY <1>1, <1>2 DEF CopyResult, u

\* What was copied before a step is copied after it, and the calls of the walk
\* find the resources they found.
Furthers(r, w, f, g) ==
    /\ CopyCalls(r, w, g)
    /\ \A p \in DOMAIN g \cap Subtree(r.path) :
          p \in DOMAIN f /\ (Copied(r, f, p) => Copied(r, g, p))

LEMMA CallEnds ==
    ASSUME NEW t, NEW f, NEW g, CopyAt(t, f), Furthers(t.req, t.work, f, g),
           ~Top(t).failed, Top(t).todo = {},
           \A p \in DOMAIN g \cap Subtree(t.req.path) :
              Above(Top(t).path, p) /\ Top(t).phase # "loop" => Copied(t.req, g, p)
    PROVE  CopyResult(t, Returned(t, FALSE), g)
<1> DEFINE u == Returned(t, FALSE)
<1>1. \/ SameButWork(t, u) /\ Left(t.work, u.work, FALSE)
      \/ Len(t.work) = 1 /\ u = Answered(t, "ok")
  <2>1. t.pc = "copy"
    BY DEF CopyAt
  <2> QED BY <2>1, CopyTop, ReturnLeaves
<1>2. Top(t) = t.work[Len(t.work)]
  BY CopyTop
<1> HIDE DEF u
<1>3. ASSUME Left(t.work, u.work, FALSE)
      PROVE  CopyCalls(t.req, u.work, g) /\ Covered(t.req, u.work, g)
  <2>1. CopyCalls(t.req, u.work, g)
    BY <1>3, LeftCalls DEF Furthers
  <2>2. Covered(t.req, u.work, g)
    BY <1>2, <1>3, LeftCovers DEF Furthers, CopyAt
  <2> QED BY <2>1, <2>2
<1>4. ASSUME Len(t.work) = 1 PROVE Whole(t.req, g)
  <2>1. OnlyCopies(t.req, g)
    BY DEF Furthers, CopyCalls
  <2> QED BY <1>2, <1>4, <2>1, LastCopies DEF Furthers, CopyAt
<1> QED BY <1>1, <1>3, <1>4 DEF CopyResult, u

LEMMA CallGoesOn ==
    ASSUME NEW t, NEW f, NEW g, CopyAt(t, f), Furthers(t.req, t.work, f, g),
           NEW x \in Frame, CopyCall(t.req, x, g), x.path = Top(t).path,
           x.failed = Top(t).failed, Top(t).phase # "loop",
           \A p \in DOMAIN g \cap Subtree(t.req.path) :
              Above(x.path, p) /\ (Top(t).phase \in {"props", "list"} => p # x.path) =>
                 \/ Copied(t.req, g, p)
                 \/ \E e \in x.todo : Above(e.path, p)
                 \/ x.phase # "loop" /\ (x.phase \in {"props", "list"} => p # x.path)
    PROVE  CopyResult(t, WithTop(t, x), g)
<1> DEFINE u == WithTop(t, x)
<1>1. SameButWork(t, u) /\ Resumed(t.work, u.work, x) /\ Top(t) = t.work[Len(t.work)]
  BY CopyTop, WithTopResumes
<1> HIDE DEF u
<1>2. CopyCalls(t.req, u.work, g)
  BY <1>1, ResumedCalls DEF Furthers
<1>3. Covered(t.req, u.work, g)
  BY <1>1, ResumedCovers DEF Furthers, CopyAt
<1> QED BY <1>1, <1>2, <1>3 DEF CopyResult, u

LEMMA SameFurthers ==
    ASSUME NEW t, NEW f, CopyAt(t, f)
    PROVE  Furthers(t.req, t.work, f, f)
  BY DEF Furthers, CopyAt

\* The topmost call goes on in its next phase, with the tree as it was.
LEMMA NextPhase ==
    ASSUME NEW t, NEW f, CopyAt(t, f), NEW phase \in {"file", "mkdir", "list"},
           \/ Top(t).phase = "visit" /\ phase = "mkdir" /\ IsDir(f, Top(t).path)
           \/ Top(t).phase = "visit" /\ phase = "file" /\ ~IsDir(f, Top(t).path)
           \/ Top(t).phase = "props" /\ phase = "list"
    PROVE  CopyResult(t, WithTop(t, [Top(t) EXCEPT !.phase = phase]), f)
<1> DEFINE top == Top(t)
           x   == [top EXCEPT !.phase = phase]
<1>1. top \in Frame /\ CopyCall(t.req, top, f)
  BY CopyTop
<1>2. /\ x \in Frame /\ x.phase = phase /\ x.path = top.path /\ x.dest = top.dest
      /\ x.failed = top.failed /\ x.todo = top.todo
  BY <1>1 DEF Frame
<1> HIDE DEF x
<1>3. CopyCall(t.req, x, f)
  BY <1>1, <1>2 DEF CopyCall, IsDir, IsFile
<1>4. CopyResult(t, WithTop(t, x), f)
  BY <1>2, <1>3, SameFurthers, CallGoesOn
<1> QED BY <1>4 DEF x

\* The place of a member is in the place of its collection, by its name.
LEMMA PlaceOfMember ==
    ASSUME NEW r, r.path \in Paths, r.dest \in Paths, NEW s \in Paths, Above(r.path, s),
           NEW q \in Paths \ {Root}, Parent(q) = s
    PROVE  Place(r, q) = Place(r, s) \o SubSeq(q, Len(q), Len(q))
<1> DEFINE last == SubSeq(q, Len(q), Len(q))
           a == Place(r, q)
           b == Place(r, s)
           k == Len(r.path)
           m == Len(r.dest)
<1>1. /\ q \in Seq(Names) /\ s \in Seq(Names) /\ Len(q) \in Nat /\ Len(s) \in Nat
      /\ k \in Nat /\ m \in Nat
  BY PathsAreSequences
<1>2. Above(s, q) /\ k <= Len(s)
  BY ParentAbove DEF Above
<1>3. Len(q) = Len(s) + 1 /\ \A i \in 1..Len(s) : s[i] = q[i]
  <2>1. Len(q) # 0 /\ s = SubSeq(q, 1, Len(q) - 1)
    BY <1>1 DEF Parent, Root
  <2>2. Len(s) = Len(q) - 1
    <3> DEFINE j == Len(q) - 1
    <3>1. j \in Nat /\ j <= Len(q) /\ s = SubSeq(q, 1, j)
      BY <1>1, <2>1
    <3> HIDE DEF j
    <3>2. Len(s) = j
      BY <1>1, <3>1
    <3> QED BY <3>2 DEF j
  <2> QED BY <1>1, <1>2, <2>2 DEF Above
<1>4. /\ last \in Seq(Names) /\ Len(last) = 1 /\ last[1] = q[Len(q)]
  <2>1. Len(q) \in 1..Len(q)
    BY <1>1, <1>3
  <2> QED BY <1>1, <2>1
<1>5. /\ a \in Seq(Names) /\ Len(a) = m + (Len(q) - k)
      /\ \A i \in 1..m : a[i] = r.dest[i]
      /\ \A i \in m + 1..Len(a) : a[i] = q[i - m + k]
  <2>1. Above(r.path, q)
    BY <1>2, AboveTransitive
  <2> QED BY <2>1, RebaseEntries DEF Place
<1>6. /\ b \in Seq(Names) /\ Len(b) = m + (Len(s) - k)
      /\ \A i \in 1..m : b[i] = r.dest[i]
      /\ \A i \in m + 1..Len(b) : b[i] = s[i - m + k]
  BY RebaseEntries DEF Place
<1> HIDE DEF last, a, b, k, m
<1>7. /\ b \o last \in Seq(Names) /\ Len(b \o last) = Len(b) + 1
      /\ \A i \in 1..Len(b) + 1 : (b \o last)[i] = IF i <= Len(b) THEN b[i] ELSE last[i - Len(b)]
  <2>1. /\ b \o last \in Seq(Names) /\ Len(b \o last) = Len(b) + Len(last)
        /\ \A i \in 1..Len(b) + Len(last) :
              (b \o last)[i] = IF i <= Len(b) THEN b[i] ELSE last[i - Len(b)]
    <3>1. b \in Seq(Names) /\ last \in Seq(Names)
      BY <1>4, <1>6
    <3> QED BY <3>1, ConcatProperties, Zenon
  <2> QED BY <1>4, <2>1
<1>8. Len(a) = Len(b) + 1
  BY <1>1, <1>3, <1>5, <1>6
<1>9. ASSUME NEW i \in 1..Len(b) + 1 PROVE a[i] = (b \o last)[i]
  <2>1. CASE i <= m
    <3>1. i \in 1..m /\ i <= Len(b)
      BY <1>1, <1>2, <1>6, <2>1
    <3> QED BY <1>5, <1>6, <1>7, <3>1
  <2>2. CASE i > m /\ i <= Len(b)
    <3>1. i \in m + 1..Len(b) /\ i \in m + 1..Len(a) /\ i - m + k \in 1..Len(s)
      BY <1>1, <1>2, <1>6, <1>8, <2>2
    <3> QED BY <1>3, <1>5, <1>6, <1>7, <2>2, <3>1
  <2>3. CASE i > m /\ i = Len(b) + 1
    <3>1. i \in m + 1..Len(a) /\ i - m + k = Len(q) /\ i - Len(b) = 1 /\ ~(i <= Len(b))
      BY <1>1, <1>2, <1>3, <1>6, <1>8, <2>3
    <3>2. a[i] = q[Len(q)]
      BY <1>5, <3>1
    <3>3. (b \o last)[i] = last[1]
      BY <1>7, <3>1
    <3> QED BY <1>4, <3>2, <3>3
  <2>4. Len(b) \in Nat
    BY <1>6
  <2>5. i <= m \/ (i > m /\ i <= Len(b)) \/ (i > m /\ i = Len(b) + 1)
    BY <1>1, <2>4
  <2> QED BY <2>1, <2>2, <2>3, <2>5
<1>10. a = b \o last
  BY <1>5, <1>7, <1>8, <1>9, SeqEqual
<1> QED BY <1>10 DEF a, b, last

LEMMA CopyVisitGoes ==
    ASSUME NEW c, CopyAt(task[c], fs), CopyVisit(c)
    PROVE  CopyGoes(c)
<1> DEFINE t   == task[c]
           top == Top(t)
<1>1. top.phase = "visit" /\ fs' = fs
  BY DEF CopyVisit
<1>2. top.path \in DOMAIN fs /\ Above(t.req.path, top.path)
  BY CopyTop
<1>3. top.path # t.req.dest
  BY <1>2 DEF CopyAt, CopySetting, Nested
<1>4. \E phase \in {"file", "mkdir"} :
         /\ Go(c, WithTop(t, [top EXCEPT !.phase = phase]))
         /\ phase = "mkdir" <=> IsDir(fs, top.path)
  BY <1>2, <1>3 DEF CopyVisit
<1>5. PICK phase \in {"file", "mkdir"} :
         /\ Go(c, WithTop(t, [top EXCEPT !.phase = phase]))
         /\ phase = "mkdir" <=> IsDir(fs, top.path)
  BY <1>4
<1>6. CopyResult(t, WithTop(t, [top EXCEPT !.phase = phase]), fs)
  BY <1>1, <1>5, NextPhase
<1> QED BY <1>1, <1>5, <1>6 DEF CopyGoes, CopyAt

LEMMA CopyPropsGoes ==
    ASSUME NEW c, CopyAt(task[c], fs), CopyProps(c)
    PROVE  CopyGoes(c)
<1> DEFINE t   == task[c]
           top == Top(t)
           u   == WithTop(t, [top EXCEPT !.phase = "list"])
<1>1. top.phase = "props" /\ fs' = fs /\ t.req.deep
  BY DEF CopyProps, CopyAt
<1>2. Go(c, Returned(t, TRUE)) \/ Go(c, u)
  BY <1>1 DEF CopyProps
<1>3. CopyResult(t, u, fs)
  BY <1>1, NextPhase
<1> HIDE DEF u
<1> QED BY <1>1, <1>2, <1>3, CallFails DEF CopyGoes, CopyAt

\* The directory is read: all that is below it is at or below an entry.
LEMMA CopyListGoes ==
    ASSUME NEW c, CopyAt(task[c], fs), CopyList(c)
    PROVE  CopyGoes(c)
<1> DEFINE t   == task[c]
           top == Top(t)
           x   == [top EXCEPT !.phase = "loop", !.todo = Listing(top.path)]
<1>1. top.phase = "list" /\ fs' = fs
  BY DEF CopyList
<1>2. Go(c, Returned(t, TRUE)) \/ (IsDir(fs, top.path) /\ Go(c, WithTop(t, x)))
  BY DEF CopyList, ReadDir
<1>3. /\ top \in Frame /\ CopyCall(t.req, top, fs) /\ top.path \in Paths
      /\ top.path \in DOMAIN fs /\ IsTree(fs) /\ DOMAIN fs \subseteq Paths
  BY CopyTop DEF CopyAt, CopySetting, IsTree
<1>4. /\ x \in Frame /\ x.phase = "loop" /\ x.path = top.path /\ x.dest = top.dest
      /\ x.failed = top.failed /\ x.todo = Listing(top.path)
  BY <1>3, ListingFrame
<1>5. CASE IsDir(fs, top.path) /\ Go(c, WithTop(t, x))
  <2> HIDE DEF x
  <2>1. \A e \in x.todo : e.path \in Members(fs, x.path)
    BY <1>4 DEF Listing
  <2>2. CopyCall(t.req, x, fs)
    BY <1>3, <1>4, <1>5, <2>1 DEF CopyCall
  <2>3. ASSUME NEW p \in DOMAIN fs, Above(x.path, p), p # x.path
        PROVE  \E e \in x.todo : Above(e.path, p)
    <3>1. PICK q \in Paths \ {Root} : Parent(q) = x.path /\ Above(q, p)
      BY <1>3, <1>4, <2>3, ChildOnTheWay
    <3>2. q \in DOMAIN fs
      BY <1>3, <2>3, <3>1, OnTheWay DEF IsDir
    <3>3. [path |-> q, isDir |-> IsDir(fs, q)] \in x.todo
      BY <1>4, <3>1, <3>2 DEF Listing, Members
    <3> QED BY <3>1, <3>3
  <2>4. CopyResult(t, WithTop(t, x), fs)
    BY <1>1, <1>4, <2>2, <2>3, SameFurthers, CallGoesOn
  <2> QED BY <1>1, <1>5, <2>4 DEF CopyGoes, CopyAt
<1>6. CASE Go(c, Returned(t, TRUE))
  BY <1>1, <1>6, CallFails DEF CopyGoes, CopyAt
<1> QED BY <1>2, <1>5, <1>6

LEMMA CopyLeaveGoes ==
    ASSUME NEW c, CopyAt(task[c], fs), CopyLeave(c)
    PROVE  CopyGoes(c)
<1> DEFINE t   == task[c]
           top == Top(t)
<1>1. top.phase = "loop" /\ top.todo = {} /\ fs' = fs /\ Go(c, Returned(t, top.failed))
  BY DEF CopyLeave
<1>2. top.failed \in BOOLEAN
  BY CopyTop DEF Frame
<1>3. CASE top.failed
  <2>1. top.failed = TRUE
    BY <1>2, <1>3
  <2> QED BY <1>1, <2>1, CallFails DEF CopyGoes, CopyAt
<1>4. CASE ~top.failed
  <2>1. top.failed = FALSE
    BY <1>2, <1>4
  <2>2. CopyResult(t, Returned(t, FALSE), fs)
    BY <1>1, <1>4, SameFurthers, CallEnds
  <2> QED BY <1>1, <2>1, <2>2 DEF CopyGoes, CopyAt
<1> QED BY <1>3, <1>4

LEMMA NextEntryGoes ==
    ASSUME NEW c, CopyAt(task[c], fs), NextEntry(c)
    PROVE  CopyGoes(c)
<1> DEFINE t   == task[c]
           top == Top(t)
           w   == t.work
           r   == t.req
<1>1. /\ top = w[Len(w)] /\ WalkOK(t) /\ CopyCall(r, top, fs) /\ top.path \in Paths
      /\ Above(r.path, top.path) /\ CopyCalls(r, w, fs) /\ Covered(r, w, fs)
      /\ r.path \in Paths /\ r.dest \in Paths /\ DOMAIN fs \subseteq Paths
  BY CopyTop DEF CopyAt, CopySetting, IsTree
<1>2. top.phase = "loop" /\ fs' = fs
  BY <1>1, NextEntryCalls
<1>3. PICK u, x, y, e : Go(c, u) /\ EntryCalled(t, top, u, x, y, e)
  BY <1>1, NextEntryCalls
<1>4. /\ SameButWork(t, u) /\ Called(w, u.work, x, y) /\ e \in top.todo
      /\ x.path = top.path /\ x.dest = top.dest /\ x.failed = top.failed
      /\ x.phase = "loop" /\ x.todo = top.todo \ {e}
      /\ y.path = e.path /\ ~y.failed /\ y.phase = "visit" /\ y.todo = {}
      /\ y.dest = top.dest \o SubSeq(e.path, Len(e.path), Len(e.path))
  BY <1>3 DEF EntryCalled
<1>5. e.path \in DOMAIN fs /\ e.path \in Paths \ {Root} /\ Parent(e.path) = top.path
  BY <1>1, <1>4 DEF CopyCall, Members
<1>6. CopyCall(r, x, fs)
  BY <1>1, <1>2, <1>4 DEF CopyCall
<1>7. CopyCall(r, y, fs)
  <2>1. Above(r.path, e.path)
    BY <1>1, <1>5, ParentAbove, AboveTransitive
  <2>2. y.dest = Place(r, e.path)
    <3>1. top.dest = Place(r, top.path)
      BY <1>1 DEF CopyCall
    <3>2. Place(r, e.path) = Place(r, top.path) \o SubSeq(e.path, Len(e.path), Len(e.path))
      BY <1>1, <1>5, PlaceOfMember
    <3> QED BY <1>4, <3>1, <3>2
  <2> QED BY <1>4, <1>5, <2>1, <2>2 DEF CopyCall
<1>8. CopyCalls(r, u.work, fs)
  BY <1>1, <1>4, <1>6, <1>7, CalledCalls
<1>9. Covered(r, u.work, fs)
  BY <1>1, <1>2, <1>4, CalledCovers
<1>10. CopyResult(t, u, fs)
  BY <1>4, <1>8, <1>9 DEF CopyResult
<1> QED BY <1>2, <1>3, <1>10 DEF CopyGoes, CopyAt

\* A resource of the source is made at its place.
LEMMA MakingFurthers ==
    ASSUME NEW t, CopyAt(t, fs), Top(t).dest \in Paths,
           fs' = With(fs, Top(t).dest, fs[Top(t).path])
    PROVE  /\ Furthers(t.req, t.work, fs, fs') /\ t.req.path \in DOMAIN fs'
           /\ \A p \in Paths : Above(t.req.path, p) => (p \in DOMAIN fs' <=> p \in DOMAIN fs)
           /\ Copied(t.req, fs', Top(t).path)
           /\ \A x : CopyCall(t.req, x, fs) => CopyCall(t.req, x, fs')
<1> DEFINE r == t.req
           s == Top(t).path
<1>1. /\ s \in DOMAIN fs /\ CopySetting(r, fs) /\ Above(r.path, s) /\ Top(t).dest = Place(r, s)
      /\ CopyCalls(r, t.work, fs) /\ r.path \in DOMAIN fs /\ DOMAIN fs \subseteq Paths
  BY CopyTop DEF CopyAt, CopyCall, CopySetting, IsTree
<1>2. fs' = With(fs, Place(r, s), fs[s])
  BY <1>1
<1>3. CopiedToo(r, fs, fs', s)
  <2>1. Place(r, s) \in Paths
    BY <1>1
  <2>2. CopiedToo(r, fs, With(fs, Place(r, s), fs[s]), s)
    BY <1>1, <2>1, CopyAdds
  <2> QED BY <1>2, <2>2
<1>4. CopyCalls(r, t.work, fs')
  BY <1>1, <1>3 DEF CopyCalls, CopiedToo
<1>5. Furthers(r, t.work, fs, fs')
  BY <1>3, <1>4 DEF Furthers, Subtree, CopiedToo
<1> QED BY <1>1, <1>3, <1>5 DEF CopiedToo

LEMMA CopyFileGoes ==
    ASSUME NEW c, CopyAt(task[c], fs), CopyFile(c)
    PROVE  CopyGoes(c)
<1> DEFINE t   == task[c]
           top == Top(t)
<1>1. PICK failed \in MayFail("copy", CopyErrors(fs, top.path, top.dest)) :
         /\ fs' = IF failed THEN fs ELSE With(fs, top.dest, fs[top.path])
         /\ Go(c, Returned(t, failed))
  BY DEF CopyFile
<1>2. failed \in BOOLEAN /\ (~failed => CopyErrors(fs, top.path, top.dest) = {})
  BY <1>1, MayFailMeaning
<1>3. CASE failed
  <2>1. failed = TRUE /\ fs' = fs
    BY <1>1, <1>2, <1>3
  <2> QED BY <1>1, <2>1, CallFails DEF CopyGoes, CopyAt
<1>4. CASE ~failed
  <2>1. failed = FALSE /\ fs' = With(fs, top.dest, fs[top.path])
    BY <1>1, <1>2, <1>4
  <2>2. /\ top.phase = "file" /\ CopyCall(t.req, top, fs) /\ top.path \in DOMAIN fs
        /\ top.path \in Paths /\ IsTree(fs) /\ DOMAIN fs \subseteq Paths
    BY CopyTop DEF CopyFile, CopyAt, CopySetting, IsTree
  <2>3. top.dest \in Paths
    BY <1>2, <1>4, <2>2 DEF CopyErrors, OpenErrors
  <2>4. /\ Furthers(t.req, t.work, fs, fs') /\ t.req.path \in DOMAIN fs'
        /\ \A p \in Paths : Above(t.req.path, p) => (p \in DOMAIN fs' <=> p \in DOMAIN fs)
        /\ Copied(t.req, fs', top.path)
    BY <2>1, <2>3, MakingFurthers
  <2>5. \A p \in DOMAIN fs' \cap Subtree(t.req.path) : Above(top.path, p) => p = top.path
    <3>1. ~IsDir(fs, top.path)
      BY <2>2 DEF CopyCall, IsFile, IsDir
    <3> QED BY <2>2, <2>4, <3>1, NothingBelow DEF Subtree
  <2>6. ~top.failed /\ top.todo = {}
    BY <2>2 DEF CopyCall
  <2>7. CopyResult(t, Returned(t, FALSE), fs')
    BY <2>4, <2>5, <2>6, CallEnds
  <2> QED BY <1>1, <2>1, <2>4, <2>7 DEF CopyGoes
<1> QED BY <1>3, <1>4

LEMMA CopyDirGoes ==
    ASSUME NEW c, CopyAt(task[c], fs), CopyDir(c)
    PROVE  CopyGoes(c)
<1> DEFINE t   == task[c]
           top == Top(t)
           x   == [top EXCEPT !.phase = "props"]
<1>1. top.phase = "mkdir" /\ t.req.deep
  BY DEF CopyDir, CopyAt
<1>2. PICK failed \in MayFail("create_dir", CreateDirErrors(fs, top.dest)) :
         /\ fs' = IF failed THEN fs ELSE With(fs, top.dest, Dir)
         /\ Go(c, IF failed THEN Returned(t, TRUE) ELSE WithTop(t, x))
  BY <1>1 DEF CopyDir
<1>3. failed \in BOOLEAN /\ (~failed => CreateDirErrors(fs, top.dest) = {})
  BY <1>2, MayFailMeaning
<1>4. CASE failed
  <2>1. fs' = fs /\ Go(c, Returned(t, TRUE))
    BY <1>2, <1>4
  <2> QED BY <2>1, CallFails DEF CopyGoes, CopyAt
<1>5. CASE ~failed
  <2>1. top \in Frame /\ CopyCall(t.req, top, fs)
    BY CopyTop
  <2>2. fs' = With(fs, top.dest, fs[top.path]) /\ Go(c, WithTop(t, x))
    <3>1. fs[top.path] = Dir
      BY <1>1, <2>1 DEF CopyCall, IsDir
    <3> QED BY <1>2, <1>5, <3>1
  <2>3. top.dest \in Paths
    <3>1. top.dest \in Paths \/ CreateDirErrors(fs, top.dest) # {}
      BY DEF CreateDirErrors
    <3> QED BY <1>3, <1>5, <3>1
  <2>4. /\ Furthers(t.req, t.work, fs, fs') /\ t.req.path \in DOMAIN fs'
        /\ Copied(t.req, fs', top.path)
        /\ \A z : CopyCall(t.req, z, fs) => CopyCall(t.req, z, fs')
    BY <2>2, <2>3, MakingFurthers
  <2>5. /\ x \in Frame /\ x.phase = "props" /\ x.path = top.path /\ x.dest = top.dest
        /\ x.failed = top.failed /\ x.todo = top.todo
    BY <2>1 DEF Frame
  <2> HIDE DEF x
  <2>6. CopyCall(t.req, x, fs)
    BY <1>1, <2>1, <2>5 DEF CopyCall
  <2>7. CopyCall(t.req, x, fs')
    BY <2>4, <2>6
  <2>8. CopyResult(t, WithTop(t, x), fs')
    BY <1>1, <2>4, <2>5, <2>7, CallGoesOn
  <2> QED BY <2>2, <2>4, <2>8 DEF CopyGoes
<1> QED BY <1>4, <1>5

-----------------------------------------------------------------------------
(* The way to do_copy: the destination is cleared, or has not been there.  *)

\* The start: nothing is at the destination, and the source waits.
LEMMA CopyBegins ==
    ASSUME NEW r, NEW f, CopySetting(r, f), r.path \in DOMAIN f, r.dest \notin DOMAIN f,
           NEW isDir \in BOOLEAN
    PROVE  LET w == <<Frame0(r.path, r.dest, isDir)>>
           IN  CopyCalls(r, w, f) /\ Covered(r, w, f)
<1> DEFINE x == Frame0(r.path, r.dest, isDir)
           w == <<x>>
<1>1. /\ r.path \in Paths /\ r.dest \in Paths /\ IsTree(f) /\ DOMAIN f \subseteq Paths
      /\ Above(r.path, r.path)
  BY AboveReflexive DEF CopySetting, IsTree
<1>2. /\ x \in Frame /\ x.path = r.path /\ x.dest = r.dest /\ x.phase = "visit" /\ x.todo = {}
      /\ x.failed = FALSE
  BY <1>1, PathsAreSequences DEF Frame0, Frame
<1> HIDE DEF x
<1>3. w \in Seq(Frame) /\ Len(w) = 1 /\ w[1] = x /\ w # <<>>
  BY <1>2
<1> HIDE DEF w
<1>4. Place(r, r.path) = r.dest
  <2> DEFINE d == Place(r, r.path)
  <2>1. /\ d \in Seq(Names) /\ Len(d) = Len(r.dest) + (Len(r.path) - Len(r.path))
        /\ \A i \in 1..Len(r.dest) : d[i] = r.dest[i]
    BY <1>1, RebaseEntries DEF Place
  <2> HIDE DEF d
  <2>2. r.dest \in Seq(Names) /\ Len(r.path) \in Nat /\ Len(r.dest) \in Nat
    BY <1>1, PathsAreSequences
  <2>3. Len(d) = Len(r.dest)
    BY <2>1, <2>2
  <2>4. d = r.dest
    BY <2>1, <2>2, <2>3, SeqEqual
  <2> QED BY <2>4 DEF d
<1>5. CopyCall(r, x, f)
  BY <1>1, <1>2, <1>4 DEF CopyCall
<1>6. OnlyCopies(r, f)
  <2>1. \A q \in DOMAIN f : ~Above(r.dest, q)
    BY <1>1, NothingBelow DEF IsDir
  <2> QED BY <2>1 DEF OnlyCopies, Subtree
<1>7. CopyCalls(r, w, f)
  BY <1>3, <1>5, <1>6 DEF CopyCalls
<1>8. Covered(r, w, f)
  BY <1>2, <1>3 DEF Covered, Waits, Subtree
<1> QED BY <1>7, <1>8 DEF w, x

\* What clearing the destination may make of a task.
ClearResult(t, u, f) ==
    \/ SameButWork(t, u) /\ u.work # <<>> /\ u.work[1].path = t.req.dest
    \/ u = Answered(t, "failed")
    \/ u.req = t.req /\ u.pc = "clearLocks" /\ t.req.dest \notin DOMAIN f

ClearGoes(c) ==
    task[c].req.path \in DOMAIN fs' /\ \E u : Go(c, u) /\ ClearResult(task[c], u, fs')

ClearAt(t, f) ==
    /\ t.pc = "clear" /\ WalkOK(t) /\ ~Nested(t.req) /\ IsTree(f)
    /\ t.req.path \in DOMAIN f /\ t.work # <<>> /\ t.work[1].path = t.req.dest

LEMMA ClearTop ==
    ASSUME NEW t, NEW f, ClearAt(t, f)
    PROVE  /\ Walking(t) /\ WalkOK(t) /\ Top(t) = t.work[Len(t.work)] /\ Top(t) \in Frame
           /\ Top(t).path # t.req.path
           /\ Len(t.work) \in Nat /\ Len(t.work) \in 1..Len(t.work)
<1>1. Walking(t) /\ WalkOK(t) /\ WalkRoot(t) = t.req.dest /\ t.pc # "copy"
  BY DEF ClearAt, Walking, WalkRoot
<1>2. /\ Len(t.work) \in Nat /\ Len(t.work) \in 1..Len(t.work)
      /\ Top(t) = t.work[Len(t.work)] /\ Top(t) \in Frame /\ InWalk(t, Top(t))
  BY <1>1, TopInWalk
<1>3. Above(t.req.dest, Top(t).path)
  BY <1>1, <1>2 DEF InWalk
<1> QED BY <1>1, <1>2, <1>3 DEF ClearAt, Nested

\* A call of the walk returns.
LEMMA ClearReturns ==
    ASSUME NEW t, NEW f, NEW g, ClearAt(t, f), NEW failed \in BOOLEAN,
           ~failed /\ Len(t.work) = 1 => t.req.dest \notin DOMAIN g
    PROVE  ClearResult(t, Returned(t, failed), g)
<1> DEFINE u == Returned(t, failed)
<1>1. \/ SameButWork(t, u) /\ Left(t.work, u.work, failed)
      \/ u = Answered(t, "failed")
      \/ Len(t.work) = 1 /\ ~failed /\ u.req = t.req /\ u.pc = "clearLocks"
  BY ClearTop, ReturnLeaves DEF ClearAt
<1> HIDE DEF u
<1>2. ASSUME Left(t.work, u.work, failed)
      PROVE  u.work # <<>> /\ u.work[1].path = t.req.dest
  <2>1. Len(u.work) \in 1..Len(u.work) /\ u.work \in Seq(Frame)
    BY <1>2 DEF Left
  <2>2. 1 \in 1..Len(u.work) /\ u.work # <<>>
    BY <2>1
  <2> QED BY <1>2, <2>2 DEF Left, ClearAt
<1> QED BY <1>1, <1>2 DEF ClearResult, u

LEMMA ClearRemoves ==
    ASSUME NEW c, ClearAt(task[c], fs), Remove(c, task[c], Top(task[c]).path)
    PROVE  ClearGoes(c)
<1> DEFINE t == task[c]
           p == Top(t).path
<1>1. PICK failed \in MayFail("remove", RemoveErrors(fs, p)) :
         fs' = (IF failed THEN fs ELSE Without(fs, p)) /\ Go(c, Returned(t, failed))
  BY DEF Remove
<1>2. failed \in BOOLEAN
  BY <1>1, MayFailMeaning
<1>3. t.req.path \in DOMAIN fs'
  BY <1>1, ClearTop DEF ClearAt, Without
<1>4. ~failed /\ Len(t.work) = 1 => t.req.dest \notin DOMAIN fs'
  BY <1>1, ClearTop DEF ClearAt, Without
<1>5. ClearResult(t, Returned(t, failed), fs')
  BY <1>2, <1>4, ClearReturns
<1> QED BY <1>1, <1>3, <1>5 DEF ClearGoes

LEMMA ClearSteps ==
    ASSUME NEW c, ClearAt(task[c], fs), DeleteVisit(c) \/ NextEntry(c) \/ DeleteLeave(c)
    PROVE  ClearGoes(c)
<1> DEFINE t   == task[c]
           top == Top(t)
<1>1. /\ Walking(t) /\ WalkOK(t) /\ top \in Frame /\ top = t.work[Len(t.work)]
      /\ Len(t.work) \in Nat /\ Len(t.work) \in 1..Len(t.work) /\ IsTree(fs)
      /\ t.req.path \in DOMAIN fs /\ t.work[1].path = t.req.dest
  BY ClearTop DEF ClearAt
<1>2. CASE Remove(c, t, top.path)
  BY <1>2, ClearRemoves
<1>3. CASE Go(c, Returned(t, TRUE)) /\ fs' = fs
  <2>1. ClearResult(t, Returned(t, TRUE), fs)
    BY ClearReturns
  <2> QED BY <1>1, <1>3, <2>1 DEF ClearGoes
<1>4. CASE /\ Go(c, WithTop(t, [top EXCEPT !.phase = "loop", !.todo = Listing(top.path)]))
           /\ fs' = fs
  <2> DEFINE x == [top EXCEPT !.phase = "loop", !.todo = Listing(top.path)]
             u == WithTop(t, x)
  <2>1. x \in Frame /\ x.path = top.path
    BY <1>1, ListingFrame
  <2> HIDE DEF x
  <2>2. SameButWork(t, u) /\ Resumed(t.work, u.work, x)
    BY <1>1, <2>1, WithTopResumes
  <2> HIDE DEF u
  <2>3. u.work # <<>> /\ u.work[1].path = t.req.dest
    <3> DEFINE n == Len(t.work)
    <3>1. /\ n \in Nat /\ n \in 1..n /\ Len(u.work) = n /\ u.work \in Seq(Frame)
          /\ \A i \in 1..n : u.work[i] = IF i = n THEN x ELSE t.work[i]
      BY <1>1, <2>2 DEF Resumed
    <3>2. top = t.work[n]
      BY <1>1
    <3> HIDE DEF n
    <3>3. 1 \in 1..n
      BY <3>1
    <3> QED BY <1>1, <2>1, <3>1, <3>2, <3>3
  <2>4. ClearResult(t, u, fs)
    BY <2>2, <2>3 DEF ClearResult
  <2> QED BY <1>1, <1>4, <2>4 DEF ClearGoes, u, x
<1>5. CASE NextEntry(c)
  <2>1. fs' = fs
    BY <1>1, <1>5, NextEntryCalls
  <2>2. PICK u, x, y, e : Go(c, u) /\ EntryCalled(t, top, u, x, y, e)
    BY <1>1, <1>5, NextEntryCalls
  <2>3. SameButWork(t, u) /\ Called(t.work, u.work, x, y) /\ x.path = top.path
    BY <2>2 DEF EntryCalled
  <2>4. u.work # <<>> /\ u.work[1].path = t.req.dest
    <3> DEFINE n == Len(t.work)
    <3>1. /\ n \in Nat /\ n \in 1..n /\ Len(u.work) = n + 1 /\ u.work \in Seq(Frame)
          /\ \A i \in 1..n + 1 :
                u.work[i] = IF i = n + 1 THEN y ELSE IF i = n THEN x ELSE t.work[i]
      BY <1>1, <2>3 DEF Called
    <3>2. top = t.work[n]
      BY <1>1
    <3> HIDE DEF n
    <3>3. 1 \in 1..n + 1 /\ 1 # n + 1 /\ u.work # <<>>
      BY <3>1
    <3> QED BY <1>1, <2>3, <3>1, <3>2, <3>3
  <2>5. ClearResult(t, u, fs)
    BY <2>3, <2>4 DEF ClearResult
  <2> QED BY <1>1, <2>1, <2>2, <2>5 DEF ClearGoes
<1> QED BY <1>2, <1>3, <1>4, <1>5 DEF DeleteVisit, DeleteLeave, ReadDir

-----------------------------------------------------------------------------
(* The invariant of a COPY with nobody else at work.                       *)

DeepCopy(t) == Running(t) /\ t.req.method = "COPY" /\ t.req.deep

\* A deep COPY finds what it has been told; its destination goes before it
\* copies, and then all of the source is copied or waits.
Copying(t, f) ==
    DeepCopy(t) =>
    /\ t.pc # "meta" => t.req.path \in DOMAIN f
    /\ t.pc \in {"if", "check", "validate"} => (t.exists <=> t.req.dest \in DOMAIN f)
    /\ t.pc = "clear" => t.work # <<>> /\ t.work[1].path = t.req.dest
    /\ t.pc = "clearLocks" => t.req.dest \notin DOMAIN f
    /\ t.pc = "copy" => CopyCalls(t.req, t.work, f) /\ Covered(t.req, t.work, f)

CopiesGoWell == OneRunning /\ \A c \in Conns : Copying(task[c], fs)

\* The only task that runs goes on as u.
LEMMA GoesWell ==
    ASSUME ServerInv, NEW c \in Conns, \A d \in Conns : d # c => ~Running(task[d]), NEW u, Go(c, u),
           Copying(u, fs')
    PROVE  CopiesGoWell'
<1>1. task'[c] = u /\ \A d \in Conns : d # c => task'[d] = task[d] /\ ~Running(task'[d])
  BY DEF ServerInv, WalksOK, Go
<1>2. OneRunning'
  BY <1>1 DEF OneRunning
<1>3. \A d \in Conns : Copying(task'[d], fs')
  BY <1>1 DEF Copying, DeepCopy
<1> QED BY <1>2, <1>3 DEF CopiesGoWell, Copying, DeepCopy, Running

LEMMA AnsweredGoesWell ==
    ASSUME NEW t, NEW status, NEW f
    PROVE  Copying(Answered(t, status), f)
  BY DEF Copying, DeepCopy, Running, Answered, NoTask

\* A task keeps its request.
LEMMA StepKeepsRequest ==
    ASSUME ServerInv, NEW c \in Conns, Step(c)
    PROVE  \E u : Go(c, u) /\ u.req = task[c].req
<1> DEFINE t == task[c]
<1>0. t \in Task
  BY DEF ServerInv, WalksOK
<1>1. \A status : Answered(t, status).req = t.req
  BY DEF Answered, NoTask
<1>2. ASSUME NEW v \in Task, NEW pc PROVE At(v, pc).req = v.req
  BY DEF At, Task
<1>3. CASE CheckSource(c)
  <2>1. At(t, "check") \in Task
    BY <1>0, AtKeeps DEF Pcs
  <2>2. [At(t, "check") EXCEPT !.seen = issued].req = t.req
    BY <1>0, <1>2, <2>1 DEF Task
  <2> QED BY <1>1, <1>3, <2>2 DEF CheckSource
<1>4. CASE Check(c)
  <2> DEFINE passed == [t EXCEPT !.seen = IF t.req.method = "MOVE" THEN @ ELSE issued]
             w == <<Frame0(t.req.path, t.req.path, t.isDir)>>
  <2>1. passed \in Task /\ passed.req = t.req
    <3>1. issued \subseteq Tokens
      BY DEF ServerInv, LS!IInv, LS!TypeOK
    <3> QED BY <1>0, <3>1 DEF Task
  <2>2. Running(t) /\ t.pc = "check"
    BY <1>4 DEF Check, Running
  <2>3. t.req.method \in {"DELETE", "COPY", "MOVE", "PUT", "MKCOL", "REFRESH"}
    <3>1. t.req \in Request /\ Reaches(t.req.method, t.pc)
      BY <2>2, RunningRequest DEF ServerInv
    <3> QED BY <2>2, <3>1 DEF Reaches, Request, Methods
  <2>4. \/ Go(c, Answered(t, "failed"))
        \/ Go(c, [At(passed, "delete") EXCEPT !.work = w])
        \/ \E pc \in {"validate", "put", "create", "refresh"} : Go(c, At(passed, pc))
    BY <1>4, <2>3 DEF Check
  <2> HIDE DEF passed, w
  <2>5. \A pc : At(passed, pc).req = t.req
    BY <1>2, <2>1
  <2>6. [At(passed, "delete") EXCEPT !.work = w].req = t.req
    <3>1. At(passed, "delete") \in Task /\ At(passed, "delete").req = t.req
      BY <2>1, AtKeeps DEF Pcs
    <3> QED BY <3>1 DEF Task
  <2> QED BY <1>1, <2>4, <2>5, <2>6
<1>5. CASE TakeLock(c)
  <2> DEFINE granted == CHOOSE token \in issued' \ issued : TRUE
             locked  == [t EXCEPT !.token = granted, !.seen = issued]
  <2>1. locked.req = t.req /\ At(locked, "open").req = t.req
    BY <1>0 DEF At, Task
  <2>2. Answered(locked, "ok").req = t.req
    BY <2>1 DEF Answered, NoTask
  <2>3. \/ Go(c, Answered(t, "failed")) \/ Go(c, Answered(locked, "ok"))
        \/ Go(c, At(locked, "open"))
    BY <1>5 DEF TakeLock
  <2> QED BY <1>1, <2>1, <2>2, <2>3
<1>6. CASE UndoLock(c)
  BY <1>1, <1>6 DEF UndoLock
<1>7. CASE ~CheckSource(c) /\ ~Check(c) /\ ~TakeLock(c) /\ ~UndoLock(c)
  BY <1>1, <1>7, StepFollows DEF Onward, Follows
<1> QED BY <1>3, <1>4, <1>5, <1>6, <1>7

\* What a step starts from when it is one of a deep COPY.
LEMMA CopyTask ==
    ASSUME ServerInv, CopiesGoWell, NEW c \in Conns, DeepCopy(task[c])
    PROVE  LET t == task[c]
           IN  /\ t \in Task /\ WalkOK(t) /\ IsTree(fs) /\ Copying(t, fs) /\ Running(t)
               /\ Reaches("COPY", t.pc) /\ t.req.path \in Paths /\ t.req.dest \in Paths
               /\ t.req.method = "COPY" /\ t.req.deep
               /\ Paired(t) => CopySetting(t.req, fs)
               /\ t.pc = "copy" => CopyAt(t, fs)
               /\ t.pc = "clear" => ClearAt(t, fs)
<1> DEFINE t == task[c]
<1>1. /\ Running(t) /\ t.req.method = "COPY" /\ t.req.deep /\ t \in Task /\ WalkOK(t)
      /\ IsTree(fs) /\ Copying(t, fs)
  BY DEF DeepCopy, ServerInv, WalksOK, CopiesGoWell
<1>2. t.req \in Request /\ Reaches(t.req.method, t.pc)
  BY <1>1, RunningRequest DEF ServerInv
<1>3. t.req.path \in Paths /\ t.req.dest \in Paths
  BY <1>2, RequestFields
<1>4. Paired(t) => CopySetting(t.req, fs)
  BY <1>1, <1>3 DEF CopySetting, WalkOK
<1>5. t.pc \in {"copy", "clear"} => Paired(t)
  BY <1>1 DEF Paired
<1>6. t.pc = "copy" => CopyAt(t, fs)
  BY <1>1, <1>4, <1>5 DEF CopyAt, Copying, DeepCopy
<1>7. t.pc = "clear" => ClearAt(t, fs)
  BY <1>1, <1>4, <1>5 DEF ClearAt, Copying, DeepCopy, CopySetting
<1> QED BY <1>1, <1>2, <1>3, <1>4, <1>6, <1>7

\* The steps of do_copy keep the whole of it in view.
LEMMA CopyStepGoes ==
    ASSUME NEW c, Step(c), CopyAt(task[c], fs)
    PROVE  CopyGoes(c)
<1>1. task[c].pc = "copy"
  BY DEF CopyAt
<1>2. \/ NextEntry(c) \/ CopyVisit(c) \/ CopyFile(c) \/ CopyDir(c) \/ CopyProps(c) \/ CopyList(c)
      \/ CopyLeave(c)
  BY <1>1 DEF Step, Metadata, DestParent, DestMetadata, IfHeader, CheckSource, Check, Validate,
              DeleteVisit, DeleteLeave, Deleting, DropLocks, Move, Put, MakeCollection, Mark,
              Rollback, TakeLock, Open, UndoLock, Refresh, Release
<1> QED BY <1>2, NextEntryGoes, CopyVisitGoes, CopyFileGoes, CopyDirGoes, CopyPropsGoes,
           CopyListGoes, CopyLeaveGoes

LEMMA CopyWalksOn ==
    ASSUME ServerInv, CopiesGoWell, NEW c \in Conns, DeepCopy(task[c]), Step(c),
           task[c].pc \in {"clear", "copy"}
    PROVE  \E u : Go(c, u) /\ Copying(u, fs')
<1> DEFINE t == task[c]
<1>1. CASE t.pc = "copy"
  <2>1. CopyGoes(c) /\ t.pc = "copy"
    BY <1>1, CopyTask, CopyStepGoes
  <2>2. PICK u : Go(c, u) /\ CopyResult(t, u, fs')
    BY <2>1 DEF CopyGoes
  <2>3. \A status : Copying(Answered(t, status), fs')
    BY AnsweredGoesWell
  <2>4. CASE SameButWork(t, u) /\ CopyCalls(t.req, u.work, fs') /\ Covered(t.req, u.work, fs')
    BY <2>1, <2>2, <2>4 DEF SameButWork, Copying, CopyGoes
  <2> QED BY <2>2, <2>3, <2>4 DEF CopyResult
<1>2. CASE t.pc = "clear"
  <2>1. DeleteVisit(c) \/ NextEntry(c) \/ DeleteLeave(c)
    BY <1>2 DEF Step, Metadata, DestParent, DestMetadata, IfHeader, CheckSource, Check, Validate,
                CopyVisit, CopyFile, CopyDir, CopyProps, CopyList, CopyLeave, DropLocks, Move, Put,
                MakeCollection, Mark, Rollback, TakeLock, Open, UndoLock, Refresh, Release
  <2>2. ClearGoes(c)
    BY <1>2, <2>1, CopyTask, ClearSteps
  <2>3. PICK u : Go(c, u) /\ ClearResult(t, u, fs')
    BY <2>2 DEF ClearGoes
  <2>4. \A status : Copying(Answered(t, status), fs')
    BY AnsweredGoesWell
  <2>5. CASE SameButWork(t, u) /\ u.work # <<>> /\ u.work[1].path = t.req.dest
    BY <1>2, <2>2, <2>3, <2>5 DEF SameButWork, Copying, ClearGoes
  <2>6. CASE u.req = t.req /\ u.pc = "clearLocks" /\ t.req.dest \notin DOMAIN fs'
    BY <2>2, <2>3, <2>6 DEF Copying, ClearGoes
  <2> QED BY <2>3, <2>4, <2>5, <2>6 DEF ClearResult
<1> QED BY <1>1, <1>2

\* Before the walks: what metadata and validate found stays so.
LEMMA CopyLooks ==
    ASSUME ServerInv, CopiesGoWell, NEW c \in Conns, DeepCopy(task[c]),
           Metadata(c) \/ DestParent(c) \/ DestMetadata(c) \/ IfHeader(c) \/ Check(c)
    PROVE  \E u : Go(c, u) /\ Copying(u, fs')
<1> DEFINE t == task[c]
<1>1. /\ t \in Task /\ Copying(t, fs) /\ t.req.method = "COPY" /\ fs' = fs /\ DeepCopy(t)
  BY CopyTask DEF Metadata, DestParent, DestMetadata, IfHeader, Check
<1>2. CASE Go(c, Answered(t, "failed"))
  BY <1>2, AnsweredGoesWell
<1>3. CASE Metadata(c) /\ ~Go(c, Answered(t, "failed"))
  <2> DEFINE known == [t EXCEPT !.isDir = IsDir(fs, t.req.path), !.exists = t.req.path \in DOMAIN fs]
             u == At(known, "parent")
  <2>1. Go(c, u) /\ t.req.path \in DOMAIN fs
    BY <1>1, <1>3 DEF Metadata
  <2>2. known \in Task /\ known.req = t.req
    <3>1. IsDir(fs, t.req.path) \in BOOLEAN /\ (t.req.path \in DOMAIN fs) \in BOOLEAN
      BY DEF IsDir
    <3>2. known \in Task
      BY <1>1, <3>1, Looked, Zenon
    <3>3. known.req = t.req
      BY <1>1 DEF Task
    <3> QED BY <3>2, <3>3
  <2> HIDE DEF known
  <2>3. u.pc = "parent" /\ u.req = t.req
    BY <2>2, AtKeeps DEF Pcs
  <2> HIDE DEF u
  <2> QED BY <1>1, <2>1, <2>3 DEF Copying
<1>4. CASE DestParent(c) /\ ~Go(c, Answered(t, "failed"))
  <2> DEFINE u == At(t, "dest")
  <2>1. Go(c, u) /\ t.pc = "parent" /\ u.pc = "dest" /\ u.req = t.req
    BY <1>1, <1>4, AtKeeps DEF Pcs, DestParent
  <2> HIDE DEF u
  <2> QED BY <1>1, <2>1 DEF Copying
<1>5. CASE DestMetadata(c) /\ ~Go(c, Answered(t, "failed"))
  <2> DEFINE u == [At(t, "if") EXCEPT !.exists = t.req.dest \in DOMAIN fs,
                                      !.destFile = IsFile(fs, t.req.dest)]
  <2>1. Go(c, u) /\ t.pc = "dest"
    BY <1>5 DEF DestMetadata
  <2>2. At(t, "if") \in Task /\ At(t, "if").pc = "if" /\ At(t, "if").req = t.req
    BY <1>1, AtKeeps DEF Pcs
  <2>3. u.pc = "if" /\ u.req = t.req /\ u.exists = (t.req.dest \in DOMAIN fs)
    BY <2>2 DEF Task
  <2> HIDE DEF u
  <2> QED BY <1>1, <2>1, <2>3 DEF Copying
<1>6. CASE IfHeader(c) /\ ~Go(c, Answered(t, "failed"))
  <2> DEFINE u == At(t, "check")
  <2>1. /\ Go(c, u) /\ t.pc = "if" /\ u.pc = "check" /\ u.req = t.req /\ u.exists = t.exists
    BY <1>1, <1>6, AtKeeps DEF Pcs, IfHeader
  <2> HIDE DEF u
  <2> QED BY <1>1, <2>1 DEF Copying
<1>7. CASE Check(c) /\ ~Go(c, Answered(t, "failed"))
  <2> DEFINE passed == [t EXCEPT !.seen = IF t.req.method = "MOVE" THEN @ ELSE issued]
             u == At(passed, "validate")
  <2>1. Go(c, u) /\ t.pc = "check"
    BY <1>1, <1>7 DEF Check
  <2>2. passed \in Task /\ passed.req = t.req /\ passed.exists = t.exists
    <3>1. issued \subseteq Tokens
      BY DEF ServerInv, LS!IInv, LS!TypeOK
    <3> QED BY <1>1, <3>1 DEF Task
  <2> HIDE DEF passed
  <2>3. u.pc = "validate" /\ u.req = t.req /\ u.exists = t.exists
    BY <2>2, AtKeeps DEF Pcs
  <2> HIDE DEF u
  <2> QED BY <1>1, <2>1, <2>3 DEF Copying
<1> QED BY <1>2, <1>3, <1>4, <1>5, <1>6, <1>7

\* On to do_copy: the destination is not there.
LEMMA CopyStarts ==
    ASSUME ServerInv, CopiesGoWell, NEW c \in Conns, DeepCopy(task[c]), Paired(task[c]),
           task[c].pc # "meta", task[c].req.dest \notin DOMAIN fs
    PROVE  Copying(Transfer(task[c]), fs)
<1> DEFINE t == task[c]
           u == Transfer(t)
<1>1. /\ t \in Task /\ t.req.method = "COPY" /\ CopySetting(t.req, fs) /\ DeepCopy(t)
      /\ t.req.path \in DOMAIN fs /\ t.isDir \in BOOLEAN
  BY CopyTask DEF Copying, Task
<1> DEFINE w == <<Frame0(t.req.path, t.req.dest, t.isDir)>>
<1>2. u.req = t.req /\ u.pc = "copy" /\ u.work = w
  BY <1>1, TransferFields
<1>3. CopyCalls(t.req, w, fs) /\ Covered(t.req, w, fs)
  BY <1>1, CopyBegins
<1> HIDE DEF u, w
<1>4. Copying(u, fs)
  BY <1>1, <1>2, <1>3 DEF Copying
<1> QED BY <1>4 DEF u

LEMMA CopyEnters ==
    ASSUME ServerInv, CopiesGoWell, NEW c \in Conns, DeepCopy(task[c]), Validate(c) \/ DropLocks(c)
    PROVE  \E u : Go(c, u) /\ Copying(u, fs')
<1> DEFINE t == task[c]
<1>1. /\ t \in Task /\ Copying(t, fs) /\ DeepCopy(t) /\ t.req.method = "COPY" /\ t.req.deep
      /\ fs' = fs /\ Running(t) /\ Reaches("COPY", t.pc) /\ t.pc # "meta"
  BY CopyTask DEF Validate, DropLocks
<1>2. t.pc \in {"validate", "clearLocks"}
  BY <1>1 DEF Validate, DropLocks, Reaches
<1>3. Paired(t)
  BY <1>1, <1>2 DEF Paired
<1>4. CASE Go(c, Answered(t, "failed"))
  BY <1>4, AnsweredGoesWell
<1>5. CASE Go(c, Transfer(t)) /\ t.req.dest \notin DOMAIN fs
  BY <1>1, <1>3, <1>5, CopyStarts
<1>6. CASE /\ t.pc = "validate"
           /\ Go(c, [At(t, "clear") EXCEPT !.work = <<Frame0(t.req.dest, t.req.dest, ~t.destFile)>>])
  <2> DEFINE w == <<Frame0(t.req.dest, t.req.dest, ~t.destFile)>>
             u == [At(t, "clear") EXCEPT !.work = w]
  <2>1. w # <<>> /\ w[1].path = t.req.dest
    BY DEF Frame0
  <2>2. At(t, "clear") \in Task /\ At(t, "clear").pc = "clear" /\ At(t, "clear").req = t.req
    BY <1>1, AtKeeps DEF Pcs
  <2> HIDE DEF w
  <2>3. u.pc = "clear" /\ u.req = t.req /\ u.work = w
    BY <2>2 DEF Task
  <2>4. Go(c, u)
    BY <1>6 DEF w
  <2> HIDE DEF u
  <2> QED BY <1>1, <1>6, <2>1, <2>3, <2>4 DEF Copying
<1>7. t.pc = "validate" => Validate(c)
  BY <1>1 DEF DropLocks
<1>8. CASE t.pc = "validate"
  <2>1. ~Overwrites(t) => t.req.dest \notin DOMAIN fs
    BY <1>1, <1>8 DEF Overwrites, Copying
  <2> QED BY <1>4, <1>5, <1>6, <1>7, <1>8, <2>1 DEF Validate
<1>9. CASE t.pc = "clearLocks"
  <2>1. DropLocks(c) /\ t.req.dest \notin DOMAIN fs
    BY <1>1, <1>9 DEF Validate, Copying
  <2> QED BY <1>5, <1>9, <2>1 DEF DropLocks
<1> QED BY <1>2, <1>8, <1>9

LEMMA StepGoesWell ==
    ASSUME ServerInv, CopiesGoWell, NEW c \in Conns, Step(c)
    PROVE  \E u : Go(c, u) /\ Copying(u, fs')
<1> DEFINE t == task[c]
<1>1. CASE ~DeepCopy(t)
  <2>1. PICK u : Go(c, u) /\ u.req = t.req
    BY StepKeepsRequest
  <2> QED BY <1>1, <2>1, StepRuns DEF Copying, DeepCopy
<1>2. CASE DeepCopy(t)
  <2>1. /\ t \in Task /\ Running(t) /\ Reaches("COPY", t.pc)
    BY <1>2, CopyTask
  <2>2. t.pc \in {"meta", "parent", "dest", "if", "check", "validate", "clear", "clearLocks", "copy"}
    BY <2>1 DEF Task, Pcs, Running, Reaches
  <2>3. CASE t.pc \in {"clear", "copy"}
    BY <1>2, <2>3, CopyWalksOn
  <2>4. CASE t.pc \notin {"clear", "copy"}
    <3>1. \/ Metadata(c) \/ DestParent(c) \/ DestMetadata(c) \/ IfHeader(c) \/ Check(c)
          \/ Validate(c) \/ DropLocks(c)
      BY <2>2, <2>4 DEF Step, CheckSource, DeleteVisit, NextEntry, DeleteLeave, Deleting, CopyVisit,
         CopyFile, CopyDir, CopyProps, CopyList, CopyLeave, Move, Put, MakeCollection, Mark,
         Rollback, TakeLock, Open, UndoLock, Refresh, Release
    <3> QED BY <1>2, <3>1, CopyLooks, CopyEnters
  <2> QED BY <2>3, <2>4
<1> QED BY <1>1, <1>2

LEMMA NextGoesWell ==
    ASSUME ServerInv, CopiesGoWell, [Next]_vars, ~Concurrent
    PROVE  CopiesGoWell'
<1>1. ASSUME NEW c \in Conns, Step(c) PROVE CopiesGoWell'
  <2>1. PICK u : Go(c, u) /\ Copying(u, fs')
    BY <1>1, StepGoesWell
  <2>2. \A d \in Conns : d # c => ~Running(task[d])
    BY <1>1, StepRuns DEF CopiesGoWell, OneRunning
  <2> QED BY <2>1, <2>2, GoesWell
<1>2. ASSUME NEW c \in Conns, Drop(c) PROVE CopiesGoWell'
  <2>1. Running(task[c]) /\ Go(c, Answered(task[c], "dropped"))
    BY <1>2 DEF Drop, Idle, Running
  <2>2. \A d \in Conns : d # c => ~Running(task[d])
    BY <2>1 DEF CopiesGoWell, OneRunning
  <2> QED BY <2>1, <2>2, AnsweredGoesWell, GoesWell
<1>3. ASSUME NEW c \in Conns, Arrive(c) PROVE CopiesGoWell'
  <2>1. PICK req : Go(c, [NoTask EXCEPT !.pc = "meta", !.req = req])
    BY <1>3 DEF Arrive
  <2>2. \A d \in Conns : ~Running(task[d])
    BY <1>3 DEF Arrive, Idle, Running
  <2>3. Copying([NoTask EXCEPT !.pc = "meta", !.req = req], fs')
    BY DEF Copying, NoTask
  <2> QED BY <2>1, <2>2, <2>3, GoesWell
<1>4. CASE fs' = fs /\ task' = task
  BY <1>4 DEF CopiesGoWell, OneRunning, Copying, DeepCopy, Running
<1> QED BY <1>1, <1>2, <1>3, <1>4 DEF Next, Tick, vars

LEMMA InitGoesWell == Init => CopiesGoWell
<1>1. Init => \A c \in Conns : task[c] = NoTask
  BY DEF Init
<1>2. NoTask.pc = "idle"
  BY DEF NoTask
<1> QED BY <1>1, <1>2 DEF CopiesGoWell, OneRunning, Copying, DeepCopy, Running

\* What is promised of the copy.
LEMMA WholeMeaning ==
    ASSUME NEW r, NEW f, CopySetting(r, f), Whole(r, f)
    PROVE  LET source == DOMAIN f \cap Subtree(r.path)
           IN  /\ DOMAIN f \cap Subtree(r.dest) = {Rebase(p, r.path, r.dest) : p \in source}
               /\ \A p \in source : f[Rebase(p, r.path, r.dest)] = f[p]
<1> DEFINE source == DOMAIN f \cap Subtree(r.path)
<1>1. r.path \in Paths /\ r.dest \in Paths /\ DOMAIN f \subseteq Paths
  BY DEF CopySetting, IsTree
<1>2. ASSUME NEW p \in source
      PROVE  /\ Rebase(p, r.path, r.dest) \in DOMAIN f \cap Subtree(r.dest)
             /\ f[Rebase(p, r.path, r.dest)] = f[p]
  <2>1. Copied(r, f, p) /\ Above(r.path, p) /\ p \in Paths
    BY <1>1 DEF Whole, Subtree
  <2>2. Rebase(p, r.path, r.dest) \in DOMAIN f /\ f[Rebase(p, r.path, r.dest)] = f[p]
    BY <2>1 DEF Copied, Place
  <2>3. Above(r.dest, Rebase(p, r.path, r.dest))
    BY <1>1, <2>1, <2>2, RebaseBack
  <2> QED BY <1>1, <2>2, <2>3 DEF Subtree
<1>3. ASSUME NEW q \in DOMAIN f \cap Subtree(r.dest)
      PROVE  q \in {Rebase(p, r.path, r.dest) : p \in source}
  BY DEF Whole, OnlyCopies, Place
<1> QED BY <1>2, <1>3

\* A COPY that is answered with success has made the whole copy, and left
\* nothing at the destination that is not of it, whatever was there before and
\* whichever calls may fail: for requests one at a time.
THEOREM CopiesAreComplete == ASSUME ~Concurrent PROVE Spec => CopyIsComplete
<1> DEFINE Complete(c) ==
      LET req == task[c].req
      IN  Acts(c) /\ task[c].pc = "copy" /\ task'[c].status = "ok" /\ req.deep =>
            LET source == DOMAIN fs' \cap Subtree(req.path)
            IN  /\ DOMAIN fs' \cap Subtree(req.dest)
                     = {Rebase(p, req.path, req.dest) : p \in source}
                /\ \A p \in source : fs'[Rebase(p, req.path, req.dest)] = fs'[p]
<1>1. ASSUME ServerInv, ServerInv', Guarded', CopiesGoWell, [Next]_vars, NEW c \in Conns PROVE Complete(c)
  <2> DEFINE t == task[c]
  <2>1. SUFFICES ASSUME Acts(c), t.pc = "copy", task'[c].status = "ok", t.req.deep
                 PROVE  CopySetting(t.req, fs') /\ Whole(t.req, fs')
    BY WholeMeaning
  <2>2. Running(t)
    BY <2>1 DEF Running
  <2>3. DeepCopy(t)
    <3>1. Reaches(t.req.method, t.pc)
      BY <1>1, <2>2, RunningRequest DEF ServerInv
    <3> QED BY <2>1, <2>2, <3>1 DEF DeepCopy, Reaches
  <2>4. CopyAt(t, fs) /\ CopySetting(t.req, fs)
    BY <1>1, <2>1, <2>3, CopyTask DEF CopyAt
  <2>5. ~Drop(c)
    BY <1>1, <2>1 DEF Drop, Go, Answered, NoTask, ServerInv, WalksOK
  <2>6. Step(c)
    BY <1>1, <2>1, <2>5, OwnStep DEF ServerInv
  <2>7. PICK u : Go(c, u) /\ CopyResult(t, u, fs')
    BY <2>4, <2>6, CopyStepGoes DEF CopyGoes
  <2>8. task'[c] = u
    BY <1>1, <2>7 DEF Go, ServerInv, WalksOK
  <2>9. u # Answered(t, "failed")
    BY <2>1, <2>8 DEF Answered, NoTask
  <2>10. ~SameButWork(t, u)
    <3>1. SameButWork(t, u) => Running(u)
      BY <2>2 DEF SameButWork, Running
    <3>2. Running(task'[c]) => task'[c].status = "none"
      BY <1>1 DEF Guarded, InOrder, Accounted, Running
    <3> QED BY <2>1, <2>8, <3>1, <3>2
  <2>11. Whole(t.req, fs')
    BY <2>7, <2>9, <2>10 DEF CopyResult
  <2> QED BY <1>1, <2>4, <2>11 DEF CopySetting, ServerInv
<1>2. ServerInv /\ ServerInv' /\ Guarded' /\ CopiesGoWell /\ [Next]_vars
        => [\A c \in Conns : Complete(c)]_vars
  BY <1>1
<1>3. ServerInv /\ CopiesGoWell /\ [Next]_vars => CopiesGoWell'
  BY NextGoesWell
<1> QED BY <1>2, <1>3, InitGoesWell, ServerInvariant, RequestsStayGuarded, PTL
        DEF Spec, CopyIsComplete, Complete
=============================================================================
