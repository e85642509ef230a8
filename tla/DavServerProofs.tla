-------------------------- MODULE DavServerProofs --------------------------
(***************************************************************************)
(* Proofs about DavServer, for every set of connections, requests, paths   *)
(* and tokens, with calls that fail and connections that are lost: what    *)
(* the tasks keep, the lock system as the handlers use it, what a request  *)
(* may change, that an exclusive lock holds through all of a request of    *)
(* somebody else, and how locks end.                                       *)
(***************************************************************************)
EXTENDS DavServer, FileTreeProofs

-----------------------------------------------------------------------------
(* What every task has while its request runs: the request is one that the *)
(* clients may send, and a LOCK that goes on has been granted a token.     *)

Fields == {"pc", "req", "isDir", "exists", "destFile", "work", "token", "seen", "status"}

Running(t) == t.pc \notin {"idle", "done"}

\* Which handlers come to which step.
Reaches(method, pc) ==
    /\ pc \in {"parent", "dest", "validate", "clear", "clearLocks"} => method \in {"COPY", "MOVE"}
    /\ pc \in {"checkSource", "move", "moveLocks"} => method = "MOVE"
    /\ pc = "copy" => method = "COPY"
    /\ pc \in {"delete", "deleteLocks"} => method = "DELETE"
    /\ pc = "put" => method = "PUT"
    /\ pc \in {"create", "mark", "rollback"} => method = "MKCOL"
    /\ pc \in {"lock", "open", "undo"} => method = "LOCK"
    /\ pc = "refresh" => method = "REFRESH"
    /\ pc = "release" => method = "UNLOCK"
    /\ pc = "if" => method # "UNLOCK"
    /\ pc = "check" => method \notin {"LOCK", "UNLOCK"}

Sound(t) ==
    /\ t = [f \in Fields |-> t[f]]
    /\ t.token \in Tokens \cup {NoToken}
    /\ Running(t) => t.req \in Request /\ Reaches(t.req.method, t.pc)
    /\ t.pc \in {"open", "undo"} => t.token \in Tokens

TasksSound ==
    /\ task = [c \in Conns |-> task[c]]
    /\ \A c \in Conns : Sound(task[c])

\* The tasks that a handler's step makes of a sound one.
LEMMA AtSound ==
    ASSUME NEW t, Sound(t), Running(t), NEW pc, Reaches(t.req.method, pc),
           pc \in {"open", "undo"} => t.token \in Tokens
    PROVE  /\ Sound(At(t, pc))
           /\ At(t, pc).pc = pc /\ At(t, pc).req = t.req
  BY DEF Sound, At, Fields, Running

LEMMA RequestFields ==
    ASSUME NEW req \in Request
    PROVE  /\ req.path \in Paths /\ req.dest \in Paths /\ req.tag \in Paths
           /\ req.principal \in Principals /\ req.timeout \in Timeouts \cup {Never}
           /\ req.shared \in BOOLEAN /\ req.deep \in BOOLEAN
           /\ req.method \in Methods /\ req.tokens \subseteq Tokens
  BY DEF Request

LEMMA AnsweredSound ==
    ASSUME NEW t, Sound(t), NEW status
    PROVE  Sound(Answered(t, status))
  BY DEF Sound, Answered, NoTask, Fields, Running

LEMMA WithTopSound ==
    ASSUME NEW t, Sound(t), NEW frame
    PROVE  Sound(WithTop(t, frame))
  BY DEF Sound, WithTop, Fields, Running

\* A field that Sound does not look at.
LEMMA WorkSound ==
    ASSUME NEW t, Sound(t), NEW work
    PROVE  Sound([t EXCEPT !.work = work])
  BY DEF Sound, Fields, Running

LEMMA SeenSound ==
    ASSUME NEW t, Sound(t), NEW seen
    PROVE  /\ Sound([t EXCEPT !.seen = seen])
           /\ [t EXCEPT !.seen = seen].pc = t.pc
  BY DEF Sound, Fields, Running

LEMMA TransferSound ==
    ASSUME NEW t, Sound(t), Running(t), t.req.method \in {"COPY", "MOVE"}
    PROVE  Sound(Transfer(t))
<1>1. CASE t.req.method = "MOVE"
  <2>1. Reaches(t.req.method, "move")
    BY <1>1 DEF Reaches
  <2> QED BY <1>1, <2>1, AtSound, WorkSound DEF Transfer
<1>2. CASE t.req.method = "COPY"
  <2>1. Reaches(t.req.method, "copy")
    BY <1>2 DEF Reaches
  <2> QED BY <1>2, <2>1, AtSound, WorkSound DEF Transfer
<1> QED BY <1>1, <1>2

LEMMA ReturnedSound ==
    ASSUME NEW t, Sound(t), t.pc \in {"delete", "clear", "copy"}, NEW failed
    PROVE  Sound(Returned(t, failed))
<1>1. Running(t)
  BY DEF Running
<1>2. CASE Len(t.work) > 1
  BY <1>2, WorkSound DEF Returned
<1>3. CASE ~(Len(t.work) > 1) /\ failed
  BY <1>3, AnsweredSound DEF Returned
<1>4. CASE ~(Len(t.work) > 1) /\ ~failed
  <2>1. t.pc = "delete" => Sound(At(t, "deleteLocks"))
    BY <1>1, AtSound DEF Sound, Running, Reaches
  <2>2. t.pc = "clear" => Sound(At(t, "clearLocks"))
    BY <1>1, AtSound DEF Sound, Running, Reaches
  <2> QED BY <1>4, <2>1, <2>2, AnsweredSound, WorkSound DEF Returned
<1> QED BY <1>2, <1>3, <1>4

\* A step that moves one task on to a sound one keeps all of them sound.
LEMMA GoKeepsSound ==
    ASSUME TasksSound, NEW c \in Conns, NEW t, Sound(t), Go(c, t)
    PROVE  TasksSound'
  BY DEF TasksSound, Go, Sound, Running, Fields

-----------------------------------------------------------------------------
(* Every step keeps the tasks sound.                                       *)

LEMMA ArriveSound ==
    ASSUME TasksSound, NEW c \in Conns, Arrive(c)
    PROVE  TasksSound'
<1>1. PICK req \in Workload[c] : Go(c, [NoTask EXCEPT !.pc = "meta", !.req = req])
  BY DEF Arrive
<1>2. req \in Request
  BY ServerAssumption
<1>3. Sound([NoTask EXCEPT !.pc = "meta", !.req = req])
  BY <1>2 DEF Sound, NoTask, Fields, Running, Reaches
<1> QED BY <1>1, <1>3, GoKeepsSound

\* Before the first change: metadata, preconditions and checks.
LEMMA PrepareSound ==
    ASSUME TasksSound, NEW c \in Conns,
           \/ Metadata(c) \/ DestParent(c) \/ DestMetadata(c) \/ IfHeader(c)
           \/ CheckSource(c) \/ Check(c) \/ Validate(c)
    PROVE  TasksSound'
<1> DEFINE t == task[c]
<1>0. Sound(t)
  BY DEF TasksSound
<1>1. CASE Metadata(c)
  <2> DEFINE known == [t EXCEPT !.isDir = IsDir(fs, t.req.path), !.exists = t.req.path \in DOMAIN fs]
  <2>1. Sound(known) /\ Running(known) /\ known.req = t.req /\ t.req \in Request
    BY <1>0, <1>1 DEF Metadata, Sound, Running, Reaches, Fields
  <2>2. ASSUME NEW pc \in {"if", "parent", "release"}, Reaches(t.req.method, pc)
        PROVE  Sound(At(known, pc))
    BY <2>1, <2>2, AtSound
  <2>3. \/ Go(c, Answered(t, "failed"))
        \/ t.req.method # "UNLOCK" /\ Go(c, At(known, "if"))
        \/ t.req.method \in {"COPY", "MOVE"} /\ Go(c, At(known, "parent"))
        \/ t.req.method = "UNLOCK" /\ Go(c, At(known, "release"))
    BY <1>1 DEF Metadata
  <2>4. \/ Go(c, Answered(t, "failed"))
        \/ \E pc \in {"if", "parent", "release"} :
              Reaches(t.req.method, pc) /\ Go(c, At(known, pc))
    BY <2>3 DEF Reaches
  <2> QED BY <1>0, <2>2, <2>4, AnsweredSound, GoKeepsSound
<1>2. CASE DestParent(c)
  <2>1. Running(t) /\ Reaches(t.req.method, "dest")
    BY <1>0, <1>2 DEF DestParent, Running, Sound, Reaches
  <2>2. Sound(At(t, "dest")) /\ Sound(Answered(t, "failed"))
    BY <1>0, <2>1, AtSound, AnsweredSound
  <2> QED BY <1>2, <2>2, GoKeepsSound DEF DestParent
<1>3. CASE DestMetadata(c)
  <2> DEFINE known == [At(t, "if") EXCEPT !.exists = t.req.dest \in DOMAIN fs,
                                          !.destFile = IsFile(fs, t.req.dest)]
  <2>1. Running(t) /\ Reaches(t.req.method, "if")
    BY <1>0, <1>3 DEF DestMetadata, Running, Sound, Reaches
  <2>2. Sound(At(t, "if")) /\ Sound(Answered(t, "failed"))
    BY <1>0, <2>1, AtSound, AnsweredSound
  <2>3. Sound(known)
    BY <2>2 DEF Sound, Running, Fields
  <2>4. Go(c, known) \/ Go(c, Answered(t, "failed"))
    BY <1>3 DEF DestMetadata
  <2> QED BY <2>2, <2>3, <2>4, GoKeepsSound
<1>4. CASE IfHeader(c)
  <2>1. Running(t) /\ t.req.method # "UNLOCK"
    BY <1>0, <1>4 DEF IfHeader, Running, Sound, Reaches
  <2>2. \/ Go(c, Answered(t, "failed"))
        \/ t.req.method = "LOCK" /\ Go(c, At(t, "lock"))
        \/ t.req.method = "MOVE" /\ Go(c, At(t, "checkSource"))
        \/ t.req.method \notin {"LOCK", "UNLOCK"} /\ Go(c, At(t, "check"))
    BY <1>4, <2>1 DEF IfHeader
  <2>3. \/ Go(c, Answered(t, "failed"))
        \/ \E pc \in {"lock", "checkSource", "check"} :
              Reaches(t.req.method, pc) /\ Go(c, At(t, pc))
    BY <2>2 DEF Reaches
  <2> QED BY <1>0, <2>1, <2>3, AtSound, AnsweredSound, GoKeepsSound
<1>5. CASE CheckSource(c)
  <2>1. Running(t) /\ Reaches(t.req.method, "check")
    BY <1>0, <1>5 DEF CheckSource, Running, Sound, Reaches
  <2>2. Sound([At(t, "check") EXCEPT !.seen = issued]) /\ Sound(Answered(t, "failed"))
    BY <1>0, <2>1, AtSound, SeenSound, AnsweredSound
  <2> QED BY <1>5, <2>2, GoKeepsSound DEF CheckSource
<1>6. CASE Check(c)
  <2> DEFINE passed == [t EXCEPT !.seen = IF t.req.method = "MOVE" THEN @ ELSE issued]
             items  == <<Frame0(t.req.path, t.req.path, t.isDir)>>
  <2>1. /\ Running(t)
        /\ t.req.method \in {"DELETE", "COPY", "MOVE", "PUT", "MKCOL", "REFRESH"}
    BY <1>0, <1>6, RequestFields DEF Check, Running, Sound, Reaches, Methods
  <2>2. Sound(passed) /\ Running(passed) /\ passed.req = t.req
    BY <1>0, <2>1, SeenSound DEF Running, Sound, Fields
  <2>3. ASSUME NEW pc \in {"delete", "validate", "put", "create", "refresh"},
               Reaches(t.req.method, pc)
        PROVE  Sound(At(passed, pc))
    BY <2>2, <2>3, AtSound
  <2>4. \/ Go(c, Answered(t, "failed"))
        \/ t.req.method = "DELETE" /\ Go(c, [At(passed, "delete") EXCEPT !.work = items])
        \/ t.req.method \in {"COPY", "MOVE"} /\ Go(c, At(passed, "validate"))
        \/ t.req.method = "PUT" /\ Go(c, At(passed, "put"))
        \/ t.req.method = "MKCOL" /\ Go(c, At(passed, "create"))
        \/ t.req.method = "REFRESH" /\ Go(c, At(passed, "refresh"))
    BY <1>6, <2>1 DEF Check
  <2>5. t.req.method = "DELETE" => Sound([At(passed, "delete") EXCEPT !.work = items])
    BY <2>3, WorkSound DEF Reaches
  <2>6. \/ Go(c, Answered(t, "failed"))
        \/ t.req.method = "DELETE" /\ Go(c, [At(passed, "delete") EXCEPT !.work = items])
        \/ \E pc \in {"validate", "put", "create", "refresh"} :
              Reaches(t.req.method, pc) /\ Go(c, At(passed, pc))
    BY <2>4 DEF Reaches
  <2> QED BY <1>0, <2>3, <2>5, <2>6, AnsweredSound, GoKeepsSound
<1>7. CASE Validate(c)
  <2>1. Running(t) /\ t.req.method \in {"COPY", "MOVE"} /\ Reaches(t.req.method, "clear")
    BY <1>0, <1>7 DEF Validate, Running, Sound, Reaches
  <2>2. Sound(At(t, "clear")) /\ Sound(Transfer(t)) /\ Sound(Answered(t, "failed"))
    BY <1>0, <2>1, AtSound, TransferSound, AnsweredSound
  <2>3. ASSUME NEW work PROVE Sound([At(t, "clear") EXCEPT !.work = work])
    BY <2>2, WorkSound
  <2> QED BY <1>7, <2>2, <2>3, GoKeepsSound DEF Validate
<1> QED BY <1>1, <1>2, <1>3, <1>4, <1>5, <1>6, <1>7

\* The walks of delete_items and do_copy.
LEMMA WalkSound ==
    ASSUME TasksSound, NEW c \in Conns,
           \/ DeleteVisit(c) \/ NextEntry(c) \/ DeleteLeave(c)
           \/ CopyVisit(c) \/ CopyFile(c) \/ CopyDir(c) \/ CopyProps(c) \/ CopyList(c)
           \/ CopyLeave(c)
    PROVE  TasksSound'
<1> DEFINE t     == task[c]
           frame == Top(t)
<1>1. Sound(t)
  BY DEF TasksSound
<1>2. t.pc \in {"delete", "clear", "copy"}
  BY DEF DeleteVisit, NextEntry, DeleteLeave, CopyVisit, CopyFile, CopyDir, CopyProps,
         CopyList, CopyLeave, Deleting
<1>3. \A failed : Sound(Returned(t, failed))
  BY <1>1, <1>2, ReturnedSound
<1>4. \A next : Sound(WithTop(t, next))
  BY <1>1, WithTopSound
<1>5. ASSUME NEW f, ReadDir(c, t, f) PROVE TasksSound'
  BY <1>3, <1>4, <1>5, GoKeepsSound DEF ReadDir
<1>6. ASSUME NEW p, Remove(c, t, p) PROVE TasksSound'
  BY <1>3, <1>6, GoKeepsSound DEF Remove
<1>7. CASE DeleteVisit(c)
  BY <1>5, <1>6, <1>7 DEF DeleteVisit
<1>8. CASE NextEntry(c)
  <2>1. PICK next, work : Go(c, [WithTop(t, next) EXCEPT !.work = work])
    BY <1>8 DEF NextEntry
  <2>2. Sound([WithTop(t, next) EXCEPT !.work = work])
    BY <1>4, WorkSound
  <2> QED BY <2>1, <2>2, GoKeepsSound
<1>9. CASE DeleteLeave(c)
  BY <1>3, <1>6, <1>9, GoKeepsSound DEF DeleteLeave
<1>10. CASE CopyVisit(c)
  BY <1>3, <1>4, <1>10, GoKeepsSound DEF CopyVisit
<1>11. CASE CopyFile(c)
  BY <1>3, <1>11, GoKeepsSound DEF CopyFile
<1>12. CASE CopyDir(c)
  BY <1>3, <1>4, <1>12, GoKeepsSound DEF CopyDir
<1>13. CASE CopyProps(c)
  BY <1>3, <1>4, <1>13, GoKeepsSound DEF CopyProps
<1>14. CASE CopyList(c)
  BY <1>5, <1>14 DEF CopyList
<1>15. CASE CopyLeave(c)
  BY <1>3, <1>15, GoKeepsSound DEF CopyLeave
<1> QED BY <1>7, <1>8, <1>9, <1>10, <1>11, <1>12, <1>13, <1>14, <1>15

\* The acts of the handlers on resources.
LEMMA ActSound ==
    ASSUME TasksSound, NEW c \in Conns,
           DropLocks(c) \/ Move(c) \/ Put(c) \/ MakeCollection(c) \/ Mark(c) \/ Rollback(c)
    PROVE  TasksSound'
<1> DEFINE t == task[c]
<1>1. Sound(t)
  BY DEF TasksSound
<1>2. Running(t)
  BY DEF DropLocks, Move, Put, MakeCollection, Mark, Rollback, Running
<1>3. \A status : Sound(Answered(t, status))
  BY <1>1, AnsweredSound
<1>4. CASE DropLocks(c)
  <2>1. t.pc = "clearLocks" => Sound(Transfer(t))
    BY <1>1, <1>2, TransferSound DEF Sound, Reaches
  <2>2. \/ t.pc = "clearLocks" /\ Go(c, Transfer(t))
        \/ Go(c, Answered(t, "ok"))
    BY <1>4 DEF DropLocks
  <2> QED BY <1>3, <2>1, <2>2, GoKeepsSound
<1>5. CASE Move(c)
  <2>1. Sound(At(t, "moveLocks"))
    BY <1>1, <1>2, <1>5, AtSound DEF Move, Sound, Reaches
  <2> QED BY <1>3, <1>5, <2>1, GoKeepsSound DEF Move
<1>6. CASE Put(c)
  BY <1>3, <1>6, GoKeepsSound DEF Put
<1>7. CASE MakeCollection(c)
  <2>1. Sound(At(t, "mark"))
    BY <1>1, <1>2, <1>7, AtSound DEF MakeCollection, Sound, Reaches
  <2> QED BY <1>3, <1>7, <2>1, GoKeepsSound DEF MakeCollection
<1>8. CASE Mark(c)
  <2>1. Sound(At(t, "rollback"))
    BY <1>1, <1>2, <1>8, AtSound DEF Mark, Sound, Reaches
  <2> QED BY <1>3, <1>8, <2>1, GoKeepsSound DEF Mark
<1>9. CASE Rollback(c)
  BY <1>3, <1>9, GoKeepsSound DEF Rollback
<1> QED BY <1>4, <1>5, <1>6, <1>7, <1>8, <1>9

\* LOCK, its undoing, refresh and UNLOCK.
LEMMA LockingSound ==
    ASSUME TasksSound, NEW c \in Conns,
           TakeLock(c) \/ Open(c) \/ UndoLock(c) \/ Refresh(c) \/ Release(c)
    PROVE  TasksSound'
<1> DEFINE t == task[c]
<1>1. Sound(t)
  BY DEF TasksSound
<1>2. Running(t)
  BY DEF TakeLock, Open, UndoLock, Refresh, Release, Running
<1>3. \A status : Sound(Answered(t, status))
  BY <1>1, AnsweredSound
<1>4. CASE TakeLock(c)
  <2> DEFINE granted == CHOOSE token \in issued' \ issued : TRUE
             locked  == [t EXCEPT !.token = granted, !.seen = issued]
  <2>1. CASE issued' = issued
    BY <1>3, <1>4, <2>1, GoKeepsSound DEF TakeLock
  <2>2. CASE issued' # issued
    <3>1. granted \in Tokens
      BY <1>4, <2>2 DEF TakeLock, LS!Lock
    <3> HIDE DEF granted
    <3>2. Sound(locked) /\ locked.token = granted /\ locked.req = t.req /\ Running(locked)
      BY <1>1, <1>2, <3>1, <1>4 DEF TakeLock, Sound, Running, Reaches, Fields
    <3>3. Reaches(locked.req.method, "open")
      BY <1>1, <1>2, <1>4, <3>2 DEF TakeLock, Sound, Reaches
    <3>4. Go(c, Answered(locked, "ok")) \/ Go(c, At(locked, "open"))
      BY <1>4, <2>2 DEF TakeLock, granted
    <3> HIDE DEF locked
    <3>5. Sound(Answered(locked, "ok")) /\ Sound(At(locked, "open"))
      BY <3>1, <3>2, <3>3, AnsweredSound, AtSound
    <3> QED BY <3>4, <3>5, GoKeepsSound
  <2> QED BY <2>1, <2>2
<1>5. CASE Open(c)
  <2>1. Sound(At(t, "undo"))
    BY <1>1, <1>2, <1>5, AtSound DEF Open, Sound, Reaches
  <2> QED BY <1>3, <1>5, <2>1, GoKeepsSound DEF Open
<1>6. CASE UndoLock(c)
  BY <1>3, <1>6, GoKeepsSound DEF UndoLock
<1>7. CASE Refresh(c)
  BY <1>3, <1>7, GoKeepsSound DEF Refresh
<1>8. CASE Release(c)
  BY <1>3, <1>8, GoKeepsSound DEF Release
<1> QED BY <1>4, <1>5, <1>6, <1>7, <1>8

LEMMA NextSound == TasksSound /\ [Next]_vars => TasksSound'
<1> SUFFICES ASSUME TasksSound, [Next]_vars PROVE TasksSound'
  OBVIOUS
<1>1. ASSUME NEW c \in Conns, Arrive(c) PROVE TasksSound'
  BY <1>1, ArriveSound
<1>2. ASSUME NEW c \in Conns, Step(c) PROVE TasksSound'
  BY <1>2, PrepareSound, WalkSound, ActSound, LockingSound DEF Step
<1>3. ASSUME NEW c \in Conns, Drop(c) PROVE TasksSound'
  BY <1>3, AnsweredSound, GoKeepsSound DEF Drop, TasksSound
<1>4. CASE Tick
  BY <1>4 DEF Tick, TasksSound
<1>5. CASE UNCHANGED vars
  BY <1>5 DEF vars, TasksSound
<1> QED BY <1>1, <1>2, <1>3, <1>4, <1>5 DEF Next

LEMMA InitSound == Init => TasksSound
<1>1. Sound(NoTask)
  BY DEF Sound, NoTask, Fields, Running
<1>2. Init => task = [c \in Conns |-> NoTask]
  BY DEF Init
<1> QED BY <1>1, <1>2 DEF TasksSound

-----------------------------------------------------------------------------
(* The handlers and the lock system.                                       *)

LEMMA LockSteps ==
    ASSUME TasksSound, [Next]_vars
    PROVE  [LS!Next]_(LS!vars)
<1> SUFFICES LS!Next \/ UNCHANGED lockVars
  BY DEF LS!vars, lockVars
<1>1. ASSUME NEW c \in Conns, Arrive(c) \/ Drop(c) PROVE UNCHANGED lockVars
  BY <1>1 DEF Arrive, Drop
<1>2. ASSUME NEW c \in Conns, Step(c) PROVE LS!Next \/ UNCHANGED lockVars
  <2> DEFINE t == task[c]
  <2>1. Sound(t)
    BY DEF TasksSound
  <2>2. CASE \/ Metadata(c) \/ DestParent(c) \/ DestMetadata(c) \/ Validate(c)
             \/ DeleteVisit(c) \/ NextEntry(c) \/ DeleteLeave(c) \/ CopyVisit(c) \/ CopyFile(c)
             \/ CopyDir(c) \/ CopyProps(c) \/ CopyList(c) \/ CopyLeave(c)
             \/ Move(c) \/ Put(c) \/ MakeCollection(c) \/ Mark(c) \/ Rollback(c) \/ Open(c)
    BY <2>2 DEF Metadata, DestParent, DestMetadata, Validate, DeleteVisit, NextEntry, DeleteLeave,
                CopyVisit, CopyFile, CopyDir, CopyProps, CopyList, CopyLeave, Move, Put,
                MakeCollection, Mark, Rollback, Open
  <2>3. CASE IfHeader(c) \/ CheckSource(c) \/ Check(c)
    BY <2>3 DEF IfHeader, CheckSource, Check, LS!Next
  <2>4. CASE DropLocks(c)
    <3>1. t.req.path \in Paths /\ t.req.dest \in Paths
      BY <2>1, <2>4, RequestFields DEF DropLocks, Sound, Running
    <3> QED BY <2>4, <3>1 DEF DropLocks, LS!Next
  <2>5. CASE TakeLock(c)
    <3>1. t.req \in Request
      BY <2>1, <2>5 DEF TakeLock, Sound, Running
    <3>2. LS!Lock(t.req.path, t.req.principal, t.req.timeout, t.req.shared, t.req.deep)
      BY <2>5 DEF TakeLock
    <3>3. /\ t.req.path \in Paths /\ t.req.principal \in Principals
          /\ t.req.timeout \in Timeouts \cup {Never}
          /\ t.req.shared \in BOOLEAN /\ t.req.deep \in BOOLEAN
      BY <3>1, RequestFields
    <3>4. \E p \in Paths, principal \in Principals, timeout \in Timeouts \cup {Never},
             shared, deep \in BOOLEAN : LS!Lock(p, principal, timeout, shared, deep)
      BY <3>2, <3>3, Zenon
    <3> QED BY <3>4 DEF LS!Next
  <2>6. CASE UndoLock(c)
    <3>1. t.req \in Request /\ t.token \in Tokens
      BY <2>1, <2>6 DEF UndoLock, Sound, Running
    <3> QED BY <2>6, <3>1, RequestFields DEF UndoLock, LS!Next
  <2>7. CASE Refresh(c)
    <3>1. t.req \in Request
      BY <2>1, <2>7 DEF Refresh, Sound, Running
    <3> QED BY <2>7, <3>1, RequestFields DEF Refresh, LS!Next
  <2>8. CASE Release(c)
    <3>1. t.req \in Request
      BY <2>1, <2>8 DEF Release, Sound, Running
    <3> QED BY <2>8, <3>1, RequestFields DEF Release, LS!Next
  <2> QED BY <1>2, <2>2, <2>3, <2>4, <2>5, <2>6, <2>7, <2>8 DEF Step
<1>3. CASE Tick
  BY <1>3 DEF Tick, LS!Next
<1>4. CASE UNCHANGED vars
  BY <1>4 DEF vars, lockVars
<1> QED BY <1>1, <1>2, <1>3, <1>4 DEF Next

\* The handlers call lock, check, refresh, unlock and delete only as the lock
\* system allows, whatever requests run at the same time, fail or are dropped:
\* what it sees is one of its own behaviours.
LEMMA ServerUsesLockSystem == Spec => LS!Spec
<1>1. Init => LS!Init
  BY DEF Init
<1> QED BY <1>1, InitSound, NextSound, LockSteps, PTL DEF Spec, LS!Spec

-----------------------------------------------------------------------------
(* What is proved of every lock system holds of the server's.              *)

LSP == INSTANCE MemLsProofs WITH Deleted <- Paths

\* The two instances are the same module on the same variables.
LEMMA SameSpec == LS!Spec => LSP!Spec
<1>1. LS!Init => LSP!Init
  BY DEF LS!Init, LSP!Init, LS!Root, LSP!Root
<1>2. [LS!Next]_(LS!vars) => [LSP!Next]_(LSP!vars)
    BY DEF LS!Init, LSP!Init, LS!Next, LSP!Next, LS!vars, LSP!vars, LS!Lock, LSP!Lock,
           LS!Unlock, LSP!Unlock, LS!Refresh, LSP!Refresh, LS!Query, LSP!Query,
           LS!Delete, LSP!Delete, LS!Tick, LSP!Tick, LS!Root, LSP!Root, LS!Above, LSP!Above,
           LS!Trail, LSP!Trail, LS!Subtree, LSP!Subtree, LS!NewLock, LSP!NewLock,
           LS!DeadlineAt, LSP!DeadlineAt, LS!Expired, LSP!Expired, LS!Walk, LSP!Walk,
           LS!NodesBelow, LSP!NodesBelow, LS!HasChild, LSP!HasChild, LS!LocksOn, LSP!LocksOn,
           LS!Pruned, LSP!Pruned, LS!WithLock, LSP!WithLock, LS!HolderNodes, LSP!HolderNodes,
           LS!WithoutToken, LSP!WithoutToken, LS!Renewed, LSP!Renewed,
           LS!WithoutSubtree, LSP!WithoutSubtree, LS!Holds, LSP!Holds,
           LS!ConflictsToPath, LSP!ConflictsToPath, LS!ConflictsFromPath, LSP!ConflictsFromPath,
           LS!LockConflicts, LSP!LockConflicts
<1> QED BY <1>1, <1>2, PTL DEF LS!Spec, LSP!Spec

LEMMA LocksExclude == LSP!Spec => []LSP!NoIncompatibleLocks
  BY LSP!MutualExclusion, PathsAssumption, LocksAssumption, FileTreeAssumption DEF LSP!Root, LSP!Parent, Root, Parent

\* While the server runs, two locks in force never exclude each other.
THEOREM ServerLocksExclude == Spec => []LS!NoIncompatibleLocks
<1>1. LSP!NoIncompatibleLocks <=> LS!NoIncompatibleLocks
  BY DEF LSP!NoIncompatibleLocks, LS!NoIncompatibleLocks, LSP!InForce, LS!InForce, LSP!AllLocks,
         LS!AllLocks, LSP!Expired, LS!Expired, LSP!Incompatible, LS!Incompatible, LSP!Covers,
         LS!Covers, LSP!Above, LS!Above
<1> QED BY <1>1, ServerUsesLockSystem, SameSpec, LocksExclude, PTL

-----------------------------------------------------------------------------
(* What a request may change: its walks stay at and below the target it    *)
(* has been checked for, and the tree of resources stays a tree.  First    *)
(* the walks.                                                              *)

Walking(t) == t.pc \in {"delete", "clear", "copy"}

\* Where a walk starts: what it removes or makes is there or below.
WalkRoot(t) == IF t.pc = "delete" THEN t.req.path ELSE t.req.dest

\* A call of delete_items or do_copy is at or below the start of the walk,
\* with its source when it copies; the entries left to it are its members.
InWalk(t, frame) ==
    /\ frame \in Frame
    /\ frame.path \in Paths
    /\ \A e \in frame.todo : e.path # Root /\ Above(frame.path, e.path)
    /\ IF t.pc = "copy" THEN Above(WalkRoot(t), frame.dest) ELSE Above(WalkRoot(t), frame.path)

\* A COPY or MOVE that has looked at its destination.
Paired(t) == /\ Running(t) /\ t.req.method \in {"COPY", "MOVE"}
             /\ t.pc \notin {"meta", "parent", "dest"}

WalkOK(t) ==
    /\ t \in Task
    /\ Paired(t) => ~Nested(t.req)
    /\ Walking(t) => t.work # <<>> /\ \A i \in 1..Len(t.work) : InWalk(t, t.work[i])

WalksOK == task \in [Conns -> Task] /\ \A c \in Conns : WalkOK(task[c])

\* The request of a running task.
LEMMA RunningRequest ==
    ASSUME TasksSound, NEW c \in Conns, Running(task[c])
    PROVE  task[c].req \in Request /\ Reaches(task[c].req.method, task[c].pc)
  BY DEF TasksSound, Sound

LEMMA WorkType ==
    ASSUME NEW t \in Task
    PROVE  /\ t.work \in Seq(Frame) /\ t.pc \in Pcs
           /\ \A work \in Seq(Frame) : [t EXCEPT !.work = work] \in Task
           /\ \A pc \in Pcs : At(t, pc) \in Task
  BY DEF Task, At

LEMMA NoTaskType == NoTask \in Task
<1>1. <<>> \in Seq(Frame) /\ {} \in SUBSET Tokens /\ "idle" \in Pcs
  BY DEF Pcs
<1> QED BY <1>1 DEF NoTask, Task

LEMMA AnsweredWalkOK ==
    ASSUME NEW t, WalkOK(t), NEW status \in {"ok", "failed", "dropped"}
    PROVE  WalkOK(Answered(t, status))
<1>1. Answered(t, status) \in Task
  <2>1. NoTask \in Task
    BY NoTaskType
  <2>2. t.req \in {NoToken} \cup UNION {Workload[c] : c \in Conns}
        /\ t.token \in Tokens \cup {NoToken}
    BY DEF WalkOK, Task
  <2> QED BY <2>1, <2>2 DEF Answered, Task, Pcs
<1>2. Answered(t, status).pc = "done"
  BY DEF Answered, NoTask
<1> QED BY <1>1, <1>2 DEF WalkOK, Paired, Running, Walking

\* On to a step outside the walks.
LEMMA AtWalkOK ==
    ASSUME NEW t, WalkOK(t), NEW pc \in Pcs \ {"delete", "clear", "copy"},
           Paired(At(t, pc)) => ~Nested(t.req)
    PROVE  WalkOK(At(t, pc))
<1>1. At(t, pc) \in Task /\ At(t, pc).pc = pc /\ At(t, pc).req = t.req
  BY DEF WalkOK, At, Task
<1> QED BY <1>1 DEF WalkOK, Walking

\* On to a walk.
LEMMA EnterWalkOK ==
    ASSUME NEW t, WalkOK(t), NEW pc \in {"delete", "clear", "copy"},
           t.req \in Request, Paired(At(t, pc)) => ~Nested(t.req),
           NEW p \in Paths, NEW d \in Paths, NEW isDir \in BOOLEAN,
           CASE pc = "delete" -> p = t.req.path
             [] pc = "clear"  -> p = t.req.dest
             [] pc = "copy"   -> d = t.req.dest
    PROVE  WalkOK([At(t, pc) EXCEPT !.work = <<Frame0(p, d, isDir)>>])
<1> DEFINE frame == Frame0(p, d, isDir)
           u == [At(t, pc) EXCEPT !.work = <<frame>>]
<1>1. /\ frame \in Frame /\ frame.path = p /\ frame.dest = d /\ frame.todo = {}
  BY PathsAreSequences DEF Frame0, Frame
<1> HIDE DEF frame
<1>2. u \in Task /\ u.pc = pc /\ u.req = t.req /\ u.work = <<frame>>
  <2>1. t \in Task /\ pc \in Pcs /\ <<frame>> \in Seq(Frame)
    BY <1>1 DEF WalkOK, Pcs
  <2>2. At(t, pc) \in Task /\ At(t, pc).pc = pc /\ At(t, pc).req = t.req
    BY <2>1 DEF At, Task
  <2> QED BY <2>1, <2>2 DEF Task
<1>3. InWalk(u, frame)
  BY <1>1, <1>2, AboveReflexive, RequestFields DEF InWalk, WalkRoot
<1>4. Paired(At(t, pc)) <=> Paired(u)
  BY <1>2 DEF WalkOK, Paired, Running, At, Task
<1> HIDE DEF u
<1>5. u.work # <<>> /\ \A i \in 1..Len(u.work) : u.work[i] = frame
  BY <1>2
<1>6. WalkOK(u)
  BY <1>2, <1>3, <1>4, <1>5 DEF WalkOK
<1> QED BY <1>6 DEF u, frame

\* The call that is under way.
LEMMA TopInWalk ==
    ASSUME NEW t, WalkOK(t), Walking(t)
    PROVE  /\ Len(t.work) \in 1..Len(t.work) /\ Len(t.work) \in Nat
           /\ t.work \in Seq(Frame) /\ Top(t) = t.work[Len(t.work)]
           /\ InWalk(t, Top(t)) /\ Top(t) \in Frame
<1>1. t.work \in Seq(Frame) /\ t.work # <<>>
  BY DEF WalkOK, Task
<1>2. Len(t.work) \in 1..Len(t.work) /\ Len(t.work) \in Nat
  BY <1>1
<1> QED BY <1>1, <1>2 DEF WalkOK, Top, InWalk

\* What InWalk looks at besides the frame.
LEMMA SameWalk ==
    ASSUME NEW t, NEW u, u.pc = t.pc, u.req = t.req, NEW frame
    PROVE  InWalk(t, frame) <=> InWalk(u, frame)
  BY DEF InWalk, WalkRoot

\* Another stack of calls, each of them in the walk.
LEMMA WorkWalkOK ==
    ASSUME NEW t, WalkOK(t), Walking(t), NEW work \in Seq(Frame), work # <<>>,
           \A i \in 1..Len(work) : InWalk(t, work[i])
    PROVE  WalkOK([t EXCEPT !.work = work])
<1> DEFINE u == [t EXCEPT !.work = work]
<1>1. u \in Task /\ u.pc = t.pc /\ u.req = t.req /\ u.work = work
  BY DEF WalkOK, Task
<1> HIDE DEF u
<1>2. \A i \in 1..Len(work) : InWalk(u, work[i])
  BY <1>1, SameWalk
<1>3. Paired(u) => ~Nested(u.req)
  BY <1>1 DEF WalkOK, Paired, Running
<1> QED BY <1>1, <1>2, <1>3 DEF WalkOK, u

LEMMA WithTopWalkOK ==
    ASSUME NEW t, WalkOK(t), Walking(t), NEW frame, InWalk(t, frame)
    PROVE  /\ WalkOK(WithTop(t, frame)) /\ Walking(WithTop(t, frame))
           /\ WithTop(t, frame).pc = t.pc /\ WithTop(t, frame).req = t.req
<1> DEFINE work == [t.work EXCEPT ![Len(t.work)] = frame]
<1>1. /\ Len(t.work) \in 1..Len(t.work) /\ t.work \in Seq(Frame) /\ Len(t.work) \in Nat
      /\ frame \in Frame
  BY TopInWalk DEF InWalk
<1>2. /\ work \in Seq(Frame) /\ Len(work) = Len(t.work)
      /\ \A i \in 1..Len(work) : work[i] = IF i = Len(t.work) THEN frame ELSE t.work[i]
  BY <1>1
<1>3. WithTop(t, frame) = [t EXCEPT !.work = work]
  BY DEF WithTop
<1> HIDE DEF work
<1>4. WalkOK([t EXCEPT !.work = work])
  <2>1. work # <<>> /\ \A i \in 1..Len(work) : InWalk(t, work[i])
    BY <1>1, <1>2 DEF WalkOK
  <2> QED BY <1>2, <2>1, WorkWalkOK
<1> QED BY <1>3, <1>4 DEF Walking, WalkOK, Task

LEMMA PushWalkOK ==
    ASSUME NEW t, WalkOK(t), Walking(t), NEW frame, InWalk(t, frame)
    PROVE  WalkOK([t EXCEPT !.work = Append(@, frame)])
<1> DEFINE work == Append(t.work, frame)
<1>1. t.work \in Seq(Frame) /\ Len(t.work) \in Nat /\ frame \in Frame
  BY TopInWalk DEF InWalk
<1>2. /\ work \in Seq(Frame) /\ Len(work) = Len(t.work) + 1
      /\ \A i \in 1..Len(work) : work[i] = IF i = Len(t.work) + 1 THEN frame ELSE t.work[i]
  BY <1>1
<1> HIDE DEF work
<1>3. WalkOK([t EXCEPT !.work = work])
  <2>1. work # <<>>
    BY <1>1, <1>2
  <2>2. \A i \in 1..Len(work) : i # Len(t.work) + 1 => i \in 1..Len(t.work)
    BY <1>1, <1>2
  <2>3. \A i \in 1..Len(work) : InWalk(t, work[i])
    BY <1>2, <2>2 DEF WalkOK
  <2> QED BY <1>2, <2>1, <2>3, WorkWalkOK
<1> QED BY <1>3 DEF work

\* A task that differs in what the walks do not look at.
LEMMA SameWalkOK ==
    ASSUME NEW t, WalkOK(t), NEW u \in Task, u.pc = t.pc, u.req = t.req, u.work = t.work
    PROVE  WalkOK(u)
<1>1. \A frame : InWalk(t, frame) <=> InWalk(u, frame)
  BY SameWalk
<1> QED BY <1>1 DEF WalkOK, Paired, Running, Walking

\* With no call under way.
LEMMA NoWorkWalkOK ==
    ASSUME NEW t, WalkOK(t), ~Walking(t)
    PROVE  WalkOK([t EXCEPT !.work = <<>>])
<1> DEFINE u == [t EXCEPT !.work = <<>>]
<1>1. u \in Task /\ u.pc = t.pc /\ u.req = t.req
  <2>1. t \in Task /\ <<>> \in Seq(Frame)
    BY DEF WalkOK
  <2>2. u \in Task
    BY <2>1, WorkType
  <2> QED BY <2>1, <2>2 DEF Task
<1> QED BY <1>1 DEF WalkOK, Paired, Running, Walking

LEMMA ReturnedWalkOK ==
    ASSUME NEW t, WalkOK(t), Walking(t), NEW failed \in BOOLEAN
    PROVE  WalkOK(Returned(t, failed))
<1>1. t.work \in Seq(Frame) /\ Len(t.work) \in Nat /\ Len(t.work) \in 1..Len(t.work)
  BY TopInWalk
<1>2. CASE Len(t.work) > 1
  <2> DEFINE n    == Len(t.work) - 1
             rest == SubSeq(t.work, 1, n)
             work == [rest EXCEPT ![n].failed = @ \/ failed]
             caller == [rest[n] EXCEPT !.failed = @ \/ failed]
  <2>1. n \in 1..n /\ n \in Nat /\ n < Len(t.work)
    BY <1>1, <1>2
  <2> HIDE DEF n
  <2>2. rest \in Seq(Frame) /\ Len(rest) = n /\ \A i \in 1..n : rest[i] = t.work[i]
    BY <1>1, <2>1
  <2>3. \A i \in 1..n : InWalk(t, rest[i])
    BY <1>1, <2>1, <2>2 DEF WalkOK
  <2> HIDE DEF rest
  <2>4. caller \in Frame /\ InWalk(t, caller)
    <3>1. InWalk(t, rest[n]) /\ rest[n] \in Frame
      BY <2>1, <2>3 DEF InWalk
    <3>2. /\ caller \in Frame /\ caller.path = rest[n].path /\ caller.dest = rest[n].dest
          /\ caller.todo = rest[n].todo
      BY <3>1 DEF Frame
    <3> HIDE DEF caller
    <3> QED BY <3>1, <3>2 DEF InWalk
  <2>5. work = [rest EXCEPT ![n] = caller]
    OBVIOUS
  <2> HIDE DEF caller, work
  <2>6. /\ work \in Seq(Frame) /\ Len(work) = n
        /\ \A i \in 1..n : work[i] = IF i = n THEN caller ELSE rest[i]
    BY <2>1, <2>2, <2>4, <2>5
  <2>7. work # <<>> /\ \A i \in 1..Len(work) : InWalk(t, work[i])
    BY <2>1, <2>3, <2>4, <2>6
  <2>8. WalkOK([t EXCEPT !.work = work])
    BY <2>6, <2>7, WorkWalkOK
  <2>9. Returned(t, failed) = [t EXCEPT !.work = work]
    <3>1. rest = SubSeq(t.work, 1, Len(t.work) - 1)
      BY DEF rest, n
    <3>2. Returned(t, failed)
            = [t EXCEPT !.work = [rest EXCEPT ![Len(rest)].failed = @ \/ failed]]
      BY <1>2, <3>1, Zenon DEF Returned
    <3> QED BY <2>2, <3>2 DEF work
  <2> QED BY <2>8, <2>9
<1>3. CASE ~(Len(t.work) > 1) /\ failed
  BY <1>3, AnsweredWalkOK DEF Returned
<1>4. CASE ~(Len(t.work) > 1) /\ ~failed
  <2>1. CASE t.pc = "copy"
    BY <1>4, <2>1, AnsweredWalkOK DEF Returned
  <2>2. CASE t.pc \in {"delete", "clear"}
    <3> DEFINE pc == IF t.pc = "delete" THEN "deleteLocks" ELSE "clearLocks"
    <3>1. pc \in Pcs \ {"delete", "clear", "copy"} /\ At(t, pc).req = t.req /\ At(t, pc).pc = pc
      BY DEF Pcs, At, WalkOK, Task
    <3>2. Paired(At(t, pc)) => ~Nested(t.req)
      BY <2>2, <3>1 DEF Paired, WalkOK, Running
    <3>3. WalkOK(At(t, pc)) /\ ~Walking(At(t, pc))
      BY <3>1, <3>2, AtWalkOK DEF Walking
    <3>4. WalkOK([At(t, pc) EXCEPT !.work = <<>>])
      BY <3>3, NoWorkWalkOK
    <3> QED BY <1>4, <2>2, <3>4 DEF Returned
  <2> QED BY <2>1, <2>2 DEF Walking
<1> QED BY <1>2, <1>3, <1>4

\* On to the copy or the rename.
LEMMA TransferWalkOK ==
    ASSUME NEW t, WalkOK(t), t.req \in Request, ~Nested(t.req)
    PROVE  WalkOK(Transfer(t))
<1>1. t \in Task /\ t.isDir \in BOOLEAN /\ t.req.path \in Paths /\ t.req.dest \in Paths
  BY RequestFields DEF WalkOK, Task
<1>2. CASE t.req.method = "MOVE"
  <2>1. WalkOK(At(t, "move")) /\ ~Walking(At(t, "move"))
    BY <1>1, AtWalkOK DEF Pcs, Walking, At, Task
  <2>2. WalkOK([At(t, "move") EXCEPT !.work = <<>>])
    BY <2>1, NoWorkWalkOK
  <2> QED BY <1>2, <2>2 DEF Transfer
<1>3. CASE t.req.method # "MOVE"
  <2>1. WalkOK([At(t, "copy") EXCEPT !.work = <<Frame0(t.req.path, t.req.dest, t.isDir)>>])
    BY <1>1, EnterWalkOK
  <2> QED BY <1>3, <2>1 DEF Transfer
<1> QED BY <1>2, <1>3

LEMMA GoKeepsWalks ==
    ASSUME WalksOK, NEW c \in Conns, NEW t, WalkOK(t), Go(c, t)
    PROVE  WalksOK'
<1>1. task' = [task EXCEPT ![c] = t] /\ t \in Task /\ task \in [Conns -> Task]
  BY DEF Go, WalkOK, WalksOK
<1>2. \A d \in Conns : WalkOK(task[d])
  BY DEF WalksOK
<1>3. \A d \in Conns : task'[d] = t \/ task'[d] = task[d]
  BY <1>1
<1>4. \A d \in Conns : WalkOK(task'[d])
  BY <1>2, <1>3
<1> QED BY <1>1, <1>4 DEF WalksOK, WalkOK, Paired, Running, Walking, InWalk, WalkRoot

-----------------------------------------------------------------------------
(* Every step keeps the walks in their targets.                            *)

\* What a task has been told of a resource.
LEMMA Looked ==
    ASSUME NEW t \in Task, NEW x \in BOOLEAN, NEW y \in BOOLEAN
    PROVE  /\ [t EXCEPT !.isDir = x, !.exists = y] \in Task
           /\ [t EXCEPT !.isDir = x, !.exists = y].pc = t.pc
           /\ [t EXCEPT !.isDir = x, !.exists = y].req = t.req
           /\ [t EXCEPT !.isDir = x, !.exists = y].work = t.work
           /\ [t EXCEPT !.exists = y, !.destFile = x] \in Task
           /\ [t EXCEPT !.exists = y, !.destFile = x].pc = t.pc
           /\ [t EXCEPT !.exists = y, !.destFile = x].req = t.req
           /\ [t EXCEPT !.exists = y, !.destFile = x].work = t.work
  BY DEF Task

LEMMA ArriveWalks ==
    ASSUME WalksOK, NEW c \in Conns, Arrive(c)
    PROVE  WalksOK'
<1>1. PICK req \in Workload[c] : Go(c, [NoTask EXCEPT !.pc = "meta", !.req = req])
  BY DEF Arrive
<1> DEFINE t == [NoTask EXCEPT !.pc = "meta", !.req = req]
<1>2. t \in Task /\ t.pc = "meta"
  BY NoTaskType DEF Task, Pcs
<1>3. WalkOK(t)
  BY <1>2 DEF WalkOK, Paired, Walking
<1> HIDE DEF t
<1> QED BY <1>1, <1>3, GoKeepsWalks DEF t

\* Before the first change.
LEMMA PrepareWalks ==
    ASSUME TasksSound, WalksOK, issued \subseteq Tokens, NEW c \in Conns,
           \/ Metadata(c) \/ DestParent(c) \/ DestMetadata(c) \/ IfHeader(c)
           \/ CheckSource(c) \/ Check(c) \/ Validate(c)
    PROVE  WalksOK'
<1> DEFINE t == task[c]
<1>0. WalkOK(t) /\ t \in Task
  BY DEF WalksOK, WalkOK
<1>1. Running(t) /\ t.req \in Request /\ Reaches(t.req.method, t.pc)
  BY RunningRequest DEF Metadata, DestParent, DestMetadata, IfHeader, CheckSource, Check, Validate,
                        Running
<1>2. ASSUME Go(c, Answered(t, "failed")) PROVE WalksOK'
  BY <1>0, <1>2, AnsweredWalkOK, GoKeepsWalks
<1>3. ASSUME NEW pc \in Pcs \ {"delete", "clear", "copy"}
      PROVE  At(t, pc).pc = pc /\ At(t, pc).req = t.req
  BY <1>0 DEF At, Task
<1>4. CASE Metadata(c)
  <2> DEFINE known == [t EXCEPT !.isDir = IsDir(fs, t.req.path), !.exists = t.req.path \in DOMAIN fs]
  <2>1. /\ known \in Task /\ known.pc = t.pc /\ known.req = t.req /\ known.work = t.work
    <3>1. IsDir(fs, t.req.path) \in BOOLEAN /\ (t.req.path \in DOMAIN fs) \in BOOLEAN
      BY DEF IsDir
    <3> QED BY <1>0, <3>1, Looked, Zenon
  <2>2. WalkOK(known)
    BY <1>0, <2>1, SameWalkOK
  <2>3. \/ Go(c, Answered(t, "failed"))
        \/ \E pc \in {"if", "parent", "release"} :
             /\ pc = "if" => t.req.method \notin {"COPY", "MOVE"}
             /\ pc = "release" => t.req.method = "UNLOCK"
             /\ Go(c, At(known, pc))
    BY <1>4 DEF Metadata
  <2> HIDE DEF known
  <2>4. ASSUME NEW pc \in {"if", "parent", "release"},
               pc = "if" => t.req.method \notin {"COPY", "MOVE"},
               pc = "release" => t.req.method = "UNLOCK"
        PROVE  WalkOK(At(known, pc))
    <3>1. At(known, pc).pc = pc /\ At(known, pc).req = t.req /\ pc \in Pcs
      BY <2>1 DEF At, Task, Pcs
    <3>2. ~Paired(At(known, pc))
      BY <2>4, <3>1 DEF Paired
    <3> QED BY <2>2, <3>1, <3>2, AtWalkOK
  <2> QED BY <1>2, <2>3, <2>4, GoKeepsWalks
<1>5. CASE DestParent(c)
  <2>1. WalkOK(At(t, "dest"))
    BY <1>0, <1>3, AtWalkOK DEF Pcs, Paired
  <2> QED BY <1>2, <1>5, <2>1, GoKeepsWalks DEF DestParent
<1>6. CASE DestMetadata(c)
  <2> DEFINE known == [At(t, "if") EXCEPT !.exists = t.req.dest \in DOMAIN fs,
                                          !.destFile = IsFile(fs, t.req.dest)]
  <2>1. CASE ~Nested(t.req)
    <3>1. WalkOK(At(t, "if")) /\ At(t, "if") \in Task
      BY <1>0, <2>1, AtWalkOK DEF Pcs, WalkOK
    <3>2. /\ known \in Task /\ known.pc = At(t, "if").pc /\ known.req = At(t, "if").req
          /\ known.work = At(t, "if").work
      <4>1. IsFile(fs, t.req.dest) \in BOOLEAN /\ (t.req.dest \in DOMAIN fs) \in BOOLEAN
        BY DEF IsFile
      <4> QED BY <3>1, <4>1, Looked, Zenon
    <3> HIDE DEF known
    <3>3. WalkOK(known)
      BY <3>1, <3>2, SameWalkOK
    <3>4. Go(c, known) \/ Go(c, Answered(t, "failed"))
      BY <1>6 DEF DestMetadata, known
    <3> QED BY <1>2, <3>3, <3>4, GoKeepsWalks
  <2>2. CASE Nested(t.req)
    BY <1>2, <1>6, <2>2 DEF DestMetadata
  <2> QED BY <2>1, <2>2
<1>7. CASE IfHeader(c)
  <2>1. t.pc = "if"
    BY <1>7 DEF IfHeader
  <2>2. ASSUME NEW pc \in {"lock", "checkSource", "check"} PROVE WalkOK(At(t, pc))
    <3>1. Paired(At(t, pc)) => ~Nested(t.req)
      BY <1>0, <1>1, <1>3, <2>1 DEF Paired, WalkOK, Running, Pcs
    <3> QED BY <1>0, <3>1, AtWalkOK DEF Pcs
  <2>3. \/ Go(c, Answered(t, "failed"))
        \/ \E pc \in {"lock", "checkSource", "check"} : Go(c, At(t, pc))
    BY <1>7 DEF IfHeader
  <2> QED BY <1>2, <2>2, <2>3, GoKeepsWalks
<1>8. CASE CheckSource(c)
  <2> DEFINE u == At(t, "check")
             passed == [u EXCEPT !.seen = issued]
  <2>1. Paired(u) => ~Nested(t.req)
    BY <1>0, <1>1, <1>3, <1>8 DEF Paired, WalkOK, Running, Pcs, CheckSource
  <2>2. WalkOK(u) /\ u \in Task
    BY <1>0, <2>1, AtWalkOK DEF Pcs, WalkOK
  <2> HIDE DEF u
  <2>3. passed \in Task /\ passed.pc = u.pc /\ passed.req = u.req /\ passed.work = u.work
    BY <2>2 DEF Task
  <2>4. WalkOK(passed)
    BY <2>2, <2>3, SameWalkOK
  <2>5. Go(c, passed) \/ Go(c, Answered(t, "failed"))
    BY <1>8 DEF CheckSource, u
  <2> HIDE DEF passed
  <2> QED BY <1>2, <2>4, <2>5, GoKeepsWalks
<1>9. CASE Check(c)
  <2> DEFINE passed == [t EXCEPT !.seen = IF t.req.method = "MOVE" THEN @ ELSE issued]
  <2>1. passed \in Task /\ passed.pc = t.pc /\ passed.req = t.req /\ passed.work = t.work
    BY <1>0 DEF Task
  <2>2. WalkOK(passed) /\ t.pc = "check" /\ t.isDir \in BOOLEAN
    BY <1>0, <1>9, <2>1, SameWalkOK DEF Check, Task
  <2>3. \/ Go(c, Answered(t, "failed"))
        \/ t.req.method = "DELETE" /\ Go(c, [At(passed, "delete") EXCEPT
                                               !.work = <<Frame0(t.req.path, t.req.path, t.isDir)>>])
        \/ \E pc \in {"validate", "put", "create", "refresh"} : Go(c, At(passed, pc))
    <3>1. t.req.method \in {"DELETE", "COPY", "MOVE", "PUT", "MKCOL", "REFRESH"}
      BY <1>1, <2>2, RequestFields DEF Reaches, Methods
    <3> QED BY <1>9, <3>1 DEF Check
  <2> HIDE DEF passed
  <2>4. ASSUME NEW pc \in Pcs
        PROVE  At(passed, pc).pc = pc /\ At(passed, pc).req = t.req
    BY <2>1 DEF At, Task
  <2>5. ASSUME NEW pc \in Pcs PROVE Paired(At(passed, pc)) => ~Nested(t.req)
    BY <1>0, <1>1, <2>2, <2>4 DEF Paired, WalkOK, Running
  <2>6. ASSUME NEW pc \in {"validate", "put", "create", "refresh"} PROVE WalkOK(At(passed, pc))
    BY <2>1, <2>2, <2>5, AtWalkOK DEF Pcs
  <2>7. CASE t.req.method = "DELETE"
    <3>1. WalkOK([At(passed, "delete") EXCEPT !.work = <<Frame0(t.req.path, t.req.path, t.isDir)>>])
      <4>1. Paired(At(passed, "delete")) => ~Nested(passed.req)
        BY <2>1, <2>5 DEF Pcs
      <4>2. t.req.path \in Paths /\ passed.req \in Request
        BY <1>1, <2>1, RequestFields
      <4> QED BY <2>1, <2>2, <4>1, <4>2, EnterWalkOK
    <3> QED BY <1>2, <2>3, <2>6, <3>1, GoKeepsWalks
  <2> QED BY <1>2, <2>3, <2>6, <2>7, GoKeepsWalks
<1>10. CASE Validate(c)
  <2>1. t.pc = "validate" /\ t.req.method \in {"COPY", "MOVE"} /\ t.destFile \in BOOLEAN
    BY <1>0, <1>1, <1>10 DEF Validate, Reaches, Task
  <2>2. ~Nested(t.req) /\ t.req.path \in Paths /\ t.req.dest \in Paths
    BY <1>0, <1>1, <2>1, RequestFields DEF WalkOK, Paired
  <2>3. WalkOK([At(t, "clear") EXCEPT !.work = <<Frame0(t.req.dest, t.req.dest, ~t.destFile)>>])
    BY <1>0, <1>1, <2>1, <2>2, EnterWalkOK
  <2>4. WalkOK(Transfer(t))
    BY <1>0, <1>1, <2>2, TransferWalkOK
  <2> QED BY <1>2, <1>10, <2>3, <2>4, GoKeepsWalks DEF Validate
<1> QED BY <1>4, <1>5, <1>6, <1>7, <1>8, <1>9, <1>10

LEMMA MayFailMeaning ==
    ASSUME NEW call, NEW errors, NEW failed \in MayFail(call, errors)
    PROVE  failed \in BOOLEAN /\ (~failed => errors = {})
  BY DEF MayFail

\* The name of a member is added to the place of the copy.
LEMMA AboveExtended ==
    ASSUME NEW a \in Seq(Names), NEW d \in Seq(Names), NEW s \in Seq(Names), Above(a, d)
    PROVE  d \o s \in Seq(Names) /\ Above(a, d \o s)
<1>1. /\ d \o s \in Seq(Names) /\ Len(d \o s) = Len(d) + Len(s)
      /\ \A i \in 1..Len(d) + Len(s) : (d \o s)[i] = IF i <= Len(d) THEN d[i] ELSE s[i - Len(d)]
  BY ConcatProperties, Zenon
<1> HIDE DEF Above
<1>2. Len(a) <= Len(d) /\ \A i \in 1..Len(a) : a[i] = d[i]
  BY DEF Above
<1>3. Len(a) \in Nat /\ Len(d) \in Nat /\ Len(s) \in Nat
  OBVIOUS
<1> QED BY <1>1, <1>2, <1>3 DEF Above

LEMMA LastName ==
    ASSUME NEW q \in Paths \ {Root}
    PROVE  SubSeq(q, Len(q), Len(q)) \in Seq(Names)
<1>1. q \in Seq(Names) /\ Len(q) \in 1..Len(q) /\ Len(q) \in Nat
  BY PathsAreSequences DEF Root
<1> QED BY <1>1

\* What a walk does to the tree it does to one resource in its target.
InTarget(t, p) == p \in Paths /\ Above(WalkRoot(t), p)

LEMMA ReadDirWalks ==
    ASSUME WalksOK, IsTree(fs), NEW c \in Conns, Walking(task[c]),
           ReadDir(c, task[c], Top(task[c]))
    PROVE  WalksOK'
<1> DEFINE t == task[c]
           frame == Top(t)
           next == [frame EXCEPT !.phase = "loop", !.todo = Listing(frame.path)]
<1>1. WalkOK(t) /\ InWalk(t, frame) /\ frame \in Frame /\ frame.path \in Paths
  BY TopInWalk DEF WalksOK, InWalk
<1>2. CASE IsDir(fs, frame.path)
  <2>1. ASSUME NEW q \in Members(fs, frame.path)
        PROVE  q \in Paths /\ q # Root /\ Above(frame.path, q)
    BY <2>1, ParentAbove DEF Members, IsTree
  <2>2. \A e \in Listing(frame.path) :
          e \in [path : Paths, isDir : BOOLEAN] /\ e.path # Root /\ Above(frame.path, e.path)
    <3>1. \A q : IsDir(fs, q) \in BOOLEAN
      BY DEF IsDir
    <3>2. ASSUME NEW q, NEW x \in BOOLEAN, q \in Paths
          PROVE  /\ [path |-> q, isDir |-> x] \in [path : Paths, isDir : BOOLEAN]
                 /\ [path |-> q, isDir |-> x].path = q
      BY <3>2
    <3>3. ASSUME NEW e \in Listing(frame.path)
          PROVE  e \in [path : Paths, isDir : BOOLEAN] /\ e.path # Root /\ Above(frame.path, e.path)
      <4>1. PICK q \in Members(fs, frame.path) : e = [path |-> q, isDir |-> IsDir(fs, q)]
        BY <3>3, Zenon DEF Listing
      <4>2. e \in [path : Paths, isDir : BOOLEAN] /\ e.path = q
        BY <2>1, <3>1, <3>2, <4>1, Zenon
      <4> QED BY <2>1, <4>2
    <3> QED BY <3>3
  <2>3. /\ next \in Frame /\ next.path = frame.path /\ next.dest = frame.dest
        /\ next.todo = Listing(frame.path)
    BY <1>1, <2>2 DEF Frame
  <2> HIDE DEF next
  <2>4. InWalk(t, next)
    BY <1>1, <2>2, <2>3 DEF InWalk
  <2>5. WalkOK(WithTop(t, next))
    BY <1>1, <2>4, WithTopWalkOK
  <2>6. Go(c, WithTop(t, next))
    BY <1>2 DEF ReadDir, next
  <2> QED BY <2>5, <2>6, GoKeepsWalks
<1>3. CASE ~IsDir(fs, frame.path)
  <2>1. WalkOK(Returned(t, TRUE))
    BY <1>1, ReturnedWalkOK
  <2> QED BY <1>3, <2>1, GoKeepsWalks DEF ReadDir
<1> QED BY <1>2, <1>3

LEMMA RemoveWalks ==
    ASSUME WalksOK, IsTree(fs), NEW c \in Conns, Walking(task[c]), NEW p, Remove(c, task[c], p)
    PROVE  WalksOK' /\ IsTree(fs')
<1>1. PICK failed \in MayFail("remove", RemoveErrors(fs, p)) :
         /\ fs' = IF failed THEN fs ELSE Without(fs, p)
         /\ Go(c, Returned(task[c], failed))
  BY DEF Remove
<1>2. failed \in BOOLEAN /\ (~failed => RemoveErrors(fs, p) = {})
  BY MayFailMeaning
<1>3. WalkOK(Returned(task[c], failed))
  BY <1>2, ReturnedWalkOK DEF WalksOK
<1>4. IsTree(fs')
  BY <1>1, <1>2, WithoutIsTree
<1> QED BY <1>1, <1>3, <1>4, GoKeepsWalks

LEMMA NextEntryWalks ==
    ASSUME TasksSound, WalksOK, NEW c \in Conns, NextEntry(c)
    PROVE  WalksOK'
<1> DEFINE t == task[c]
           frame == Top(t)
           Name(q) == SubSeq(q, Len(q), Len(q))
<1>1. Walking(t) /\ WalkOK(t)
  BY DEF NextEntry, Walking, Deleting, WalksOK
<1>2. /\ InWalk(t, frame) /\ frame \in Frame /\ frame.path \in Paths /\ frame.dest \in Seq(Names)
      /\ WalkRoot(t) \in Paths
  BY <1>1, TopInWalk, RunningRequest, RequestFields DEF InWalk, Frame, WalkRoot, Running, Walking
<1>3. PICK e \in frame.todo :
         Go(c, [WithTop(t, [frame EXCEPT !.todo = @ \ {e}]) EXCEPT
                  !.work = Append(@, Frame0(e.path, frame.dest \o Name(e.path), e.isDir))])
  BY DEF NextEntry
<1> DEFINE rest == [frame EXCEPT !.todo = @ \ {e}]
           u    == WithTop(t, rest)
           d    == frame.dest \o Name(e.path)
           call == Frame0(e.path, d, e.isDir)
<1>4. e.path \in Paths \ {Root} /\ e.isDir \in BOOLEAN /\ Above(frame.path, e.path)
  BY <1>2 DEF InWalk, Frame
<1>5. d \in Seq(Names) /\ \A a \in Paths : Above(a, frame.dest) => Above(a, d)
  <2>1. Name(e.path) \in Seq(Names)
    BY <1>4, LastName
  <2> HIDE DEF Name
  <2> QED BY <1>2, <2>1, AboveExtended, PathsAreSequences
<1>6. /\ rest \in Frame /\ rest.path = frame.path /\ rest.dest = frame.dest
      /\ rest.todo \subseteq frame.todo
  BY <1>2 DEF Frame
<1> HIDE DEF rest
<1>7. InWalk(t, rest)
  BY <1>2, <1>6 DEF InWalk
<1>8. WalkOK(u) /\ Walking(u) /\ u.pc = t.pc /\ u.req = t.req
  BY <1>1, <1>7, WithTopWalkOK
<1> HIDE DEF u, d
<1>9. call \in Frame /\ call.path = e.path /\ call.dest = d /\ call.todo = {}
  BY <1>4, <1>5, PathsAreSequences DEF Frame0, Frame
<1>10. Above(WalkRoot(t), frame.path) => Above(WalkRoot(t), e.path)
  BY <1>2, <1>4, AboveTransitive
<1> HIDE DEF call
<1>11. InWalk(t, call)
  BY <1>2, <1>4, <1>5, <1>9, <1>10 DEF InWalk
<1>12. InWalk(u, call)
  BY <1>8, <1>11, SameWalk
<1>13. WalkOK([u EXCEPT !.work = Append(@, call)])
  BY <1>8, <1>12, PushWalkOK
<1>14. Go(c, [u EXCEPT !.work = Append(@, call)])
  BY <1>3 DEF u, rest, call, d
<1> QED BY <1>13, <1>14, GoKeepsWalks

\* delete_items, with its entries read and removed.
LEMMA DeleteWalks ==
    ASSUME TasksSound, WalksOK, IsTree(fs), NEW c \in Conns,
           DeleteVisit(c) \/ DeleteLeave(c)
    PROVE  WalksOK' /\ IsTree(fs')
<1> DEFINE t == task[c]
<1>1. Walking(t) /\ WalkOK(t)
  BY DEF DeleteVisit, DeleteLeave, Walking, Deleting, WalksOK
<1>2. ASSUME NEW p, Remove(c, t, p) PROVE WalksOK' /\ IsTree(fs')
  BY <1>1, <1>2, RemoveWalks
<1>3. ASSUME ReadDir(c, t, Top(t)), UNCHANGED fs PROVE WalksOK' /\ IsTree(fs')
  BY <1>1, <1>3, ReadDirWalks
<1>4. ASSUME Go(c, Returned(t, TRUE)), UNCHANGED fs PROVE WalksOK' /\ IsTree(fs')
  BY <1>1, <1>4, ReturnedWalkOK, GoKeepsWalks
<1>5. CASE DeleteVisit(c)
  BY <1>2, <1>3, <1>5 DEF DeleteVisit
<1>6. CASE DeleteLeave(c)
  BY <1>2, <1>4, <1>6 DEF DeleteLeave
<1> QED BY <1>5, <1>6

\* do_copy.
LEMMA CopyWalks ==
    ASSUME TasksSound, WalksOK, IsTree(fs), NEW c \in Conns,
           CopyVisit(c) \/ CopyFile(c) \/ CopyDir(c) \/ CopyProps(c) \/ CopyList(c) \/ CopyLeave(c)
    PROVE  WalksOK' /\ IsTree(fs')
<1> DEFINE t == task[c]
           frame == Top(t)
<1>1. Walking(t) /\ WalkOK(t) /\ t.pc = "copy"
  BY DEF CopyVisit, CopyFile, CopyDir, CopyProps, CopyList, CopyLeave, Walking, WalksOK
<1>2. InWalk(t, frame) /\ frame \in Frame
  BY <1>1, TopInWalk
<1>3. ASSUME NEW failed \in BOOLEAN, Go(c, Returned(t, failed)) PROVE WalksOK'
  BY <1>1, <1>3, ReturnedWalkOK, GoKeepsWalks
<1>4. ASSUME NEW phase \in {"visit", "file", "mkdir", "props", "list", "loop"},
             Go(c, WithTop(t, [frame EXCEPT !.phase = phase]))
      PROVE  WalksOK'
  <2> DEFINE next == [frame EXCEPT !.phase = phase]
  <2>1. /\ next \in Frame /\ next.path = frame.path /\ next.dest = frame.dest
        /\ next.todo = frame.todo
    BY <1>2 DEF Frame
  <2> HIDE DEF next
  <2>2. WalkOK(WithTop(t, next))
    BY <1>1, <1>2, <2>1, WithTopWalkOK DEF InWalk
  <2> QED BY <1>4, <2>2, GoKeepsWalks DEF next
<1>5. CASE CopyVisit(c)
  BY <1>3, <1>4, <1>5 DEF CopyVisit
<1>6. CASE CopyFile(c)
  <2>1. PICK failed \in MayFail("copy", CopyErrors(fs, frame.path, frame.dest)) :
          /\ fs' = IF failed THEN fs ELSE With(fs, frame.dest, fs[frame.path])
          /\ Go(c, Returned(t, failed))
    BY <1>6 DEF CopyFile
  <2>2. failed \in BOOLEAN /\ (~failed => CopyErrors(fs, frame.path, frame.dest) = {})
    BY MayFailMeaning
  <2>3. CASE ~failed
    <3>1. fs[frame.path] \in Contents /\ OpenErrors(fs, frame.dest, TRUE, FALSE) = {}
      BY <2>2, <2>3 DEF CopyErrors, IsDir, IsTree
    <3> QED BY <1>3, <2>1, <2>2, <2>3, <3>1, WithFileIsTree
  <2> QED BY <1>3, <2>1, <2>2, <2>3
<1>7. CASE CopyDir(c)
  <2>1. \/ Go(c, WithTop(t, [frame EXCEPT !.phase = "props"])) /\ UNCHANGED fs
        \/ \E failed \in MayFail("create_dir", CreateDirErrors(fs, frame.dest)) :
             /\ fs' = IF failed THEN fs ELSE With(fs, frame.dest, Dir)
             /\ Go(c, IF failed THEN Returned(t, TRUE)
                      ELSE WithTop(t, [frame EXCEPT !.phase = "props"]))
    BY <1>7 DEF CopyDir
  <2>2. CASE Go(c, WithTop(t, [frame EXCEPT !.phase = "props"])) /\ UNCHANGED fs
    BY <1>4, <2>2
  <2>3. ASSUME NEW failed \in MayFail("create_dir", CreateDirErrors(fs, frame.dest)),
               fs' = IF failed THEN fs ELSE With(fs, frame.dest, Dir),
               Go(c, IF failed THEN Returned(t, TRUE)
                     ELSE WithTop(t, [frame EXCEPT !.phase = "props"]))
        PROVE  WalksOK' /\ IsTree(fs')
    <3>1. ~failed => CreateDirErrors(fs, frame.dest) = {}
      BY MayFailMeaning
    <3> QED BY <1>3, <1>4, <2>3, <3>1, WithDirIsTree
  <2> QED BY <2>1, <2>2, <2>3
<1>8. CASE CopyProps(c)
  BY <1>3, <1>4, <1>8 DEF CopyProps
<1>9. CASE CopyList(c)
  BY <1>1, <1>9, ReadDirWalks DEF CopyList
<1>10. CASE CopyLeave(c)
  <2>1. frame.failed \in BOOLEAN
    BY <1>2 DEF Frame
  <2> QED BY <1>3, <1>10, <2>1 DEF CopyLeave
<1> QED BY <1>5, <1>6, <1>7, <1>8, <1>9, <1>10

\* The acts of the handlers on resources.
LEMMA ActWalks ==
    ASSUME TasksSound, WalksOK, IsTree(fs), NEW c \in Conns,
           DropLocks(c) \/ Move(c) \/ Put(c) \/ MakeCollection(c) \/ Mark(c) \/ Rollback(c)
    PROVE  WalksOK' /\ IsTree(fs')
<1> DEFINE t == task[c]
<1>1. WalkOK(t) /\ Running(t) /\ t \in Task
  BY DEF WalksOK, WalkOK, DropLocks, Move, Put, MakeCollection, Mark, Rollback, Running
<1>2. t.req \in Request /\ Reaches(t.req.method, t.pc) /\ t.req.path \in Paths /\ t.req.dest \in Paths
  BY <1>1, RunningRequest, RequestFields
<1>3. ASSUME NEW status \in {"ok", "failed"}, Go(c, Answered(t, status)) PROVE WalksOK'
  BY <1>1, <1>3, AnsweredWalkOK, GoKeepsWalks
<1>4. ASSUME NEW pc \in {"moveLocks", "mark", "rollback"}, Go(c, At(t, pc)),
             t.pc \in {"move", "create", "mark"}
      PROVE  WalksOK'
  <2>1. Paired(At(t, pc)) => ~Nested(t.req)
    BY <1>1, <1>4 DEF Paired, WalkOK, Running, At, Task
  <2> QED BY <1>1, <1>4, <2>1, AtWalkOK, GoKeepsWalks DEF Pcs
<1>5. CASE DropLocks(c)
  <2>1. \/ Go(c, Answered(t, "ok"))
        \/ t.pc = "clearLocks" /\ Go(c, Transfer(t))
    BY <1>5 DEF DropLocks
  <2>2. t.pc = "clearLocks" => WalkOK(Transfer(t))
    <3>1. t.pc = "clearLocks" => ~Nested(t.req)
      BY <1>1, <1>2 DEF WalkOK, Paired, Reaches
    <3> QED BY <1>1, <1>2, <3>1, TransferWalkOK
  <2>3. fs' = fs
    BY <1>5 DEF DropLocks
  <2> QED BY <1>3, <2>1, <2>2, <2>3, GoKeepsWalks
<1>6. CASE Move(c)
  <2>1. PICK failed \in MayFail("rename", RenameErrors(fs, t.req.path, t.req.dest)) :
          /\ fs' = IF failed THEN fs ELSE Moved(fs, t.req.path, t.req.dest)
          /\ Go(c, IF failed THEN Answered(t, "failed") ELSE At(t, "moveLocks"))
    BY <1>6 DEF Move
  <2>2. ~failed => RenameErrors(fs, t.req.path, t.req.dest) = {}
    BY MayFailMeaning
  <2>3. IsTree(fs')
    BY <1>2, <2>1, <2>2, MovedIsTree
  <2> QED BY <1>3, <1>4, <1>6, <2>1, <2>3 DEF Move
<1>7. CASE Put(c)
  <2>1. PICK failed \in MayFail("open", OpenErrors(fs, t.req.path, TRUE, t.req.fresh)) :
          /\ fs' = IF failed THEN fs ELSE With(fs, t.req.path, c)
          /\ Go(c, Answered(t, IF failed THEN "failed" ELSE "ok"))
    BY <1>7 DEF Put
  <2>2. ~failed => OpenErrors(fs, t.req.path, TRUE, t.req.fresh) = {}
    BY MayFailMeaning
  <2>3. IsTree(fs')
    BY <2>1, <2>2, WithFileIsTree, ServerAssumption
  <2> QED BY <1>3, <2>1, <2>3
<1>8. CASE MakeCollection(c)
  <2>1. PICK failed \in MayFail("create_dir", CreateDirErrors(fs, t.req.path)) :
          /\ fs' = IF failed THEN fs ELSE With(fs, t.req.path, Dir)
          /\ Go(c, IF failed THEN Answered(t, "failed")
                   ELSE IF t.req.body THEN At(t, "mark") ELSE Answered(t, "ok"))
    BY <1>8 DEF MakeCollection
  <2>2. ~failed => CreateDirErrors(fs, t.req.path) = {}
    BY MayFailMeaning
  <2>3. IsTree(fs')
    BY <2>1, <2>2, WithDirIsTree
  <2> QED BY <1>3, <1>4, <1>8, <2>1, <2>3 DEF MakeCollection
<1>9. CASE Mark(c)
  <2>1. Go(c, At(t, "rollback")) \/ Go(c, Answered(t, "ok"))
    BY <1>9 DEF Mark
  <2> QED BY <1>3, <1>4, <1>9, <2>1 DEF Mark
<1>10. CASE Rollback(c)
  <2>1. PICK failed \in MayFail("remove", RemoveErrors(fs, t.req.path)) :
          fs' = IF failed THEN fs ELSE Without(fs, t.req.path)
    BY <1>10 DEF Rollback
  <2>2. ~failed => RemoveErrors(fs, t.req.path) = {}
    BY MayFailMeaning
  <2>3. IsTree(fs')
    BY <2>1, <2>2, WithoutIsTree
  <2> QED BY <1>3, <1>10, <2>3 DEF Rollback
<1> QED BY <1>5, <1>6, <1>7, <1>8, <1>9, <1>10

\* LOCK, its undoing, refresh and UNLOCK.
LEMMA LockingWalks ==
    ASSUME TasksSound, WalksOK, IsTree(fs), issued \subseteq Tokens, NEW c \in Conns,
           TakeLock(c) \/ Open(c) \/ UndoLock(c) \/ Refresh(c) \/ Release(c)
    PROVE  WalksOK' /\ IsTree(fs')
<1> DEFINE t == task[c]
<1>1. WalkOK(t) /\ Running(t) /\ t \in Task
  BY DEF WalksOK, WalkOK, TakeLock, Open, UndoLock, Refresh, Release, Running
<1>2. t.req \in Request /\ Reaches(t.req.method, t.pc)
  BY <1>1, RunningRequest
<1>3. ASSUME NEW status \in {"ok", "failed"}, Go(c, Answered(t, status)) PROVE WalksOK'
  BY <1>1, <1>3, AnsweredWalkOK, GoKeepsWalks
<1>4. CASE TakeLock(c)
  <2> DEFINE granted == CHOOSE token \in issued' \ issued : TRUE
             locked  == [t EXCEPT !.token = granted, !.seen = issued]
  <2>1. CASE issued' = issued
    BY <1>3, <1>4, <2>1 DEF TakeLock
  <2>2. CASE issued' # issued
    <3>1. granted \in Tokens
      BY <1>4, <2>2 DEF TakeLock, LS!Lock
    <3> HIDE DEF granted
    <3>2. locked \in Task /\ locked.pc = t.pc /\ locked.req = t.req /\ locked.work = t.work
      BY <1>1, <3>1 DEF Task
    <3>3. Go(c, Answered(locked, "ok")) \/ Go(c, At(locked, "open"))
      BY <1>4, <2>2 DEF TakeLock, granted
    <3>4. t.req.method = "LOCK"
      BY <1>2, <1>4 DEF TakeLock, Reaches
    <3> HIDE DEF locked
    <3>5. WalkOK(locked)
      BY <1>1, <3>2, SameWalkOK
    <3>6. ~Paired(At(locked, "open"))
      BY <3>2, <3>4 DEF Paired, At, Task
    <3>7. WalkOK(Answered(locked, "ok")) /\ WalkOK(At(locked, "open"))
      BY <3>5, <3>6, AnsweredWalkOK, AtWalkOK DEF Pcs
    <3> QED BY <1>4, <3>3, <3>7, GoKeepsWalks DEF TakeLock
  <2> QED BY <1>4, <2>1, <2>2 DEF TakeLock
<1>5. CASE Open(c)
  <2>1. PICK failed \in MayFail("open", OpenErrors(fs, t.req.path, TRUE, t.req.fresh)) :
          /\ fs' = IF failed \/ t.req.path \in DOMAIN fs THEN fs ELSE With(fs, t.req.path, c)
          /\ Go(c, IF failed THEN At(t, "undo") ELSE Answered(t, "ok"))
    BY <1>5 DEF Open
  <2>2. ~failed => OpenErrors(fs, t.req.path, TRUE, t.req.fresh) = {}
    BY MayFailMeaning
  <2>3. IsTree(fs')
    BY <2>1, <2>2, WithFileIsTree, ServerAssumption
  <2>4. ~Paired(At(t, "undo"))
    BY <1>1, <1>2, <1>5 DEF Paired, At, Task, Open, Reaches
  <2>5. WalkOK(At(t, "undo"))
    BY <1>1, <2>4, AtWalkOK DEF Pcs
  <2> QED BY <1>3, <2>1, <2>3, <2>5, GoKeepsWalks
<1>6. CASE UndoLock(c)
  BY <1>3, <1>6 DEF UndoLock
<1>7. CASE Refresh(c)
  BY <1>3, <1>7 DEF Refresh
<1>8. CASE Release(c)
  BY <1>3, <1>8 DEF Release
<1> QED BY <1>4, <1>5, <1>6, <1>7, <1>8

LEMMA NextWalks ==
    ASSUME TasksSound, WalksOK, IsTree(fs), issued \subseteq Tokens, [Next]_vars
    PROVE  WalksOK' /\ IsTree(fs')
<1>1. ASSUME NEW c \in Conns, Arrive(c) PROVE WalksOK' /\ IsTree(fs')
  BY <1>1, ArriveWalks DEF Arrive
<1>2. ASSUME NEW c \in Conns, Step(c) PROVE WalksOK' /\ IsTree(fs')
  <2>1. ASSUME \/ Metadata(c) \/ DestParent(c) \/ DestMetadata(c) \/ IfHeader(c)
               \/ CheckSource(c) \/ Check(c) \/ Validate(c)
        PROVE  WalksOK' /\ fs' = fs
    BY <2>1, PrepareWalks
       DEF Metadata, DestParent, DestMetadata, IfHeader, CheckSource, Check, Validate
  <2>2. CASE NextEntry(c)
    BY <2>2, NextEntryWalks DEF NextEntry
  <2> QED BY <1>2, <2>1, <2>2, DeleteWalks, CopyWalks, ActWalks, LockingWalks DEF Step
<1>3. ASSUME NEW c \in Conns, Drop(c) PROVE WalksOK' /\ IsTree(fs')
  <2>1. WalkOK(Answered(task[c], "dropped"))
    BY AnsweredWalkOK DEF WalksOK
  <2> QED BY <1>3, <2>1, GoKeepsWalks DEF Drop
<1>4. CASE Tick
  BY <1>4 DEF Tick, WalksOK, WalkOK, Paired, Running, Walking, InWalk, WalkRoot
<1>5. CASE UNCHANGED vars
  BY <1>5 DEF vars, WalksOK, WalkOK, Paired, Running, Walking, InWalk, WalkRoot
<1> QED BY <1>1, <1>2, <1>3, <1>4, <1>5 DEF Next

LEMMA InitWalks == Init => WalksOK /\ IsTree(fs)
<1> SUFFICES ASSUME Init PROVE WalksOK /\ IsTree(fs)
  OBVIOUS
<1>1. WalkOK(NoTask)
  BY NoTaskType DEF WalkOK, NoTask, Paired, Running, Walking
<1>2. WalksOK
  BY <1>1, NoTaskType DEF Init, WalksOK
<1>3. DOMAIN fs = {Root} /\ fs[Root] = Dir /\ fs = [p \in DOMAIN fs |-> fs[p]]
  BY DEF Init
<1>4. Root \in Paths /\ \A q \in Trail(Root) : q = Root
  BY PathsAssumption, NothingAboveRoot DEF Trail
<1> QED BY <1>2, <1>3, <1>4 DEF IsTree, IsDir

-----------------------------------------------------------------------------
(* The lock system's own invariant holds while the server uses it.         *)

LEMMA LocksInvariant == LSP!Spec => []LSP!IInv
  BY LSP!Invariant, PathsAssumption, LocksAssumption, FileTreeAssumption DEF LSP!Root, Root

LEMMA SameInvariant == LSP!IInv <=> LS!IInv
  BY DEF LSP!IInv, LS!IInv, LSP!TypeOK, LS!TypeOK, LSP!IsLockTree, LS!IsLockTree, LSP!Root, LS!Root,
         LSP!Trail, LS!Trail, LSP!Above, LS!Above, LSP!DavLock, LS!DavLock, LSP!Deadlines,
         LS!Deadlines, LSP!Coherent, LS!Coherent, LSP!AllLocks, LS!AllLocks, LSP!Incompatible,
         LS!Incompatible, LSP!Covers, LS!Covers

ServerInv == TasksSound /\ WalksOK /\ IsTree(fs) /\ LS!IInv

\* The tasks, the tree and the locks, together.
THEOREM ServerInvariant == Spec => []ServerInv
<1>1. LS!IInv => issued \subseteq Tokens
  BY DEF LS!IInv, LS!TypeOK
<1>2. Spec => []LS!IInv
  BY ServerUsesLockSystem, SameSpec, LocksInvariant, SameInvariant, PTL
<1> DEFINE Inv == TasksSound /\ WalksOK /\ IsTree(fs)
<1>3. Init => Inv
  BY InitSound, InitWalks
<1>4. Inv /\ issued \subseteq Tokens /\ [Next]_vars => Inv'
  BY NextSound, NextWalks DEF IsTree, IsDir
<1> QED BY <1>1, <1>2, <1>3, <1>4, PTL DEF Spec, ServerInv

\* The resources are always a tree, closed under parents that are collections,
\* and what a task holds is what its handler keeps, however many requests run,
\* fail or are dropped.
THEOREM ServerTypeCorrect == Spec => []TypeOK
<1>1. ServerInv => TypeOK
  BY DEF ServerInv, TypeOK, WalksOK, LS!IInv
<1> QED BY <1>1, ServerInvariant, PTL

-----------------------------------------------------------------------------
(* What one step does to the resources.                                    *)

\* The step of a request is its own: others do not move its task.
LEMMA OwnStep ==
    ASSUME WalksOK, [Next]_vars, NEW c \in Conns, Acts(c)
    PROVE  Step(c) \/ Drop(c)
<1>1. ASSUME NEW d \in Conns, NEW t, Go(d, t) PROVE d = c
  BY <1>1 DEF Go, Acts, WalksOK
<1>2. ASSUME NEW d \in Conns, Step(d) PROVE \E t : Go(d, t)
  BY <1>2 DEF Step, Metadata, DestParent, DestMetadata, IfHeader, CheckSource, Check, Validate,
              DeleteVisit, NextEntry, DeleteLeave, Remove, ReadDir, CopyVisit, CopyFile, CopyDir,
              CopyProps, CopyList, CopyLeave, DropLocks, Move, Put, MakeCollection, Mark, Rollback,
              TakeLock, Open, UndoLock, Refresh, Release
<1>3. ~Arrive(c)
  BY DEF Arrive, Acts
<1>4. ASSUME NEW d \in Conns, Arrive(d) \/ Step(d) \/ Drop(d) PROVE d = c
  <2>1. \E t : Go(d, t)
    BY <1>2, <1>4 DEF Arrive, Drop
  <2> QED BY <1>1, <2>1
<1>5. task' # task
  BY DEF Acts
<1> QED BY <1>3, <1>4, <1>5 DEF Next, Tick, vars

\* A resource is made or replaced, one without members is removed, or a whole
\* subtree is moved.
Puts(p)  == \E entry : fs' = With(fs, p, entry)
Takes(p) == fs' = Without(fs, p)

LEMMA StepChanges ==
    ASSUME ServerInv, NEW c \in Conns, Step(c), fs' # fs
    PROVE  LET t == task[c]
           IN  \/ t.pc \in {"delete", "clear"} /\ \E p : InTarget(t, p) /\ Takes(p)
               \/ t.pc = "copy" /\ \E p : InTarget(t, p) /\ Puts(p)
               \/ /\ t.pc = "move" /\ fs' = Moved(fs, t.req.path, t.req.dest)
                  /\ RenameErrors(fs, t.req.path, t.req.dest) = {}
               \/ /\ t.pc \in {"put", "create", "open"} /\ Puts(t.req.path)
                  /\ t.pc # "put" \/ t.req.fresh => t.req.path \notin DOMAIN fs
               \/ t.pc = "rollback" /\ Takes(t.req.path)
<1> DEFINE t == task[c]
           frame == Top(t)
<1>1. WalkOK(t) /\ IsTree(fs)
  BY DEF ServerInv, WalksOK
<1>2. ASSUME Walking(t) PROVE InWalk(t, frame)
  BY <1>1, <1>2, TopInWalk
<1>3. CASE DeleteVisit(c) \/ DeleteLeave(c)
  <2>1. Remove(c, t, frame.path) /\ t.pc \in {"delete", "clear"}
    BY <1>3 DEF DeleteVisit, DeleteLeave, Deleting
  <2>2. Takes(frame.path)
    BY <2>1 DEF Remove, Takes
  <2>3. InTarget(t, frame.path)
    BY <1>2, <2>1 DEF InWalk, InTarget, Walking
  <2> QED BY <2>1, <2>2, <2>3
<1>4. CASE CopyFile(c)
  <2>1. /\ t.pc = "copy" /\ CopyErrors(fs, frame.path, frame.dest) = {}
        /\ fs' = With(fs, frame.dest, fs[frame.path])
    BY <1>4, MayFailMeaning DEF CopyFile
  <2>2. frame.dest \in Paths
    BY <1>1, <2>1 DEF CopyErrors, OpenErrors, IsTree
  <2> QED BY <1>2, <2>1, <2>2 DEF InWalk, InTarget, Walking, Puts
<1>5. CASE CopyDir(c)
  <2>1. /\ t.pc = "copy" /\ CreateDirErrors(fs, frame.dest) = {}
        /\ fs' = With(fs, frame.dest, Dir)
    BY <1>5, MayFailMeaning DEF CopyDir
  <2>2. frame.dest \in Paths
    BY <1>1, <2>1, WithDirIsTree
  <2> QED BY <1>2, <2>1, <2>2 DEF InWalk, InTarget, Walking, Puts
<1>6. CASE Move(c)
  BY <1>6, MayFailMeaning DEF Move
<1>7. CASE Put(c) \/ MakeCollection(c) \/ Open(c)
  BY <1>7, MayFailMeaning DEF Put, MakeCollection, Open, Puts, OpenErrors, CreateDirErrors
<1>8. CASE Rollback(c)
  BY <1>8 DEF Rollback, Takes
<1> QED BY <1>3, <1>4, <1>5, <1>6, <1>7, <1>8
        DEF Step, Metadata, DestParent, DestMetadata, IfHeader, CheckSource, Check, Validate,
            NextEntry, CopyVisit, CopyProps, CopyList, CopyLeave, DropLocks, Mark, TakeLock,
            UndoLock, Refresh, Release

LEMMA PutsKeeps ==
    ASSUME NEW p, Puts(p)
    PROVE  DOMAIN fs \subseteq DOMAIN fs' /\ \A q \in DOMAIN fs : q # p => fs'[q] = fs[q]
  BY DEF Puts, With

LEMMA TakesKeeps ==
    ASSUME NEW p, Takes(p)
    PROVE  /\ DOMAIN fs' = DOMAIN fs \ {p}
           /\ \A q \in DOMAIN fs : q # p => fs'[q] = fs[q]
  BY DEF Takes, Without

\* A dropped request changes nothing more.
LEMMA DropKeeps ==
    ASSUME NEW c, Drop(c) PROVE fs' = fs
  BY DEF Drop

-----------------------------------------------------------------------------
(* What the handlers promise about resources.                              *)

\* If-None-Match: * holds at the moment of the change, whatever has happened
\* since metadata was read.
THEOREM FreshIsKept == Spec => FreshChangesNothingOld
<1>1. ASSUME ServerInv, [Next]_vars, NEW c \in Conns, Acts(c),
             task[c].pc \in {"put", "create", "open"}, task[c].req.fresh, NEW p \in DOMAIN fs
      PROVE  p \in DOMAIN fs' /\ fs'[p] = fs[p]
  <2>1. CASE fs' = fs
    BY <1>1, <2>1
  <2>2. CASE fs' # fs
    <3>1. Step(c)
      BY <1>1, <2>2, OwnStep, DropKeeps DEF ServerInv
    <3>2. Puts(task[c].req.path) /\ task[c].req.path \notin DOMAIN fs
      BY <1>1, <2>2, <3>1, StepChanges
    <3> QED BY <1>1, <3>2, PutsKeeps
  <2> QED BY <2>1, <2>2
<1>2. ServerInv /\ [Next]_vars
        => [\A c \in Conns :
              Acts(c) /\ task[c].pc \in {"put", "create", "open"} /\ task[c].req.fresh
                => \A p \in DOMAIN fs : p \in DOMAIN fs' /\ fs'[p] = fs[p]]_vars
  BY <1>1
<1> QED BY <1>2, ServerInvariant, PTL DEF Spec, FreshChangesNothingOld

\* What was below the source of a rename is below its destination.
LEMMA MovedCarries ==
    ASSUME NEW f, IsTree(f), NEW from \in Paths, NEW to \in Paths,
           RenameErrors(f, from, to) = {}, ~Above(to, from),
           NEW p \in DOMAIN f, Above(from, p)
    PROVE  LET q == Rebase(p, from, to)
               g == Moved(f, from, to)
           IN  p \notin DOMAIN g /\ q \in DOMAIN g /\ g[q] = f[p]
<1> DEFINE moving == DOMAIN f \cap Subtree(from)
           g == Moved(f, from, to)
<1>1. DOMAIN f \subseteq Paths /\ ~Above(from, to) /\ \A r \in moving : Rebase(r, from, to) \in Paths
  BY DEF IsTree, RenameErrors
<1>2. p \in moving /\ p \in Paths
  BY <1>1 DEF Subtree
<1>3. ASSUME NEW r \in moving
      PROVE  Above(to, Rebase(r, from, to)) /\ Rebase(Rebase(r, from, to), to, from) = r
  BY <1>1, RebaseBack DEF Subtree
<1>4. /\ DOMAIN g = (DOMAIN f \ (moving \cup {to})) \cup {Rebase(r, from, to) : r \in moving}
      /\ \A q \in DOMAIN g : g[q] = IF Above(to, q) THEN f[Rebase(q, to, from)] ELSE f[q]
  BY DEF Moved
<1> HIDE DEF g
<1>5. Rebase(p, from, to) \in DOMAIN g /\ g[Rebase(p, from, to)] = f[p]
  BY <1>2, <1>3, <1>4
<1>6. ~Above(to, p)
  BY <1>1, <1>2, AboveIsChain
<1>7. p \notin DOMAIN g
  BY <1>2, <1>3, <1>4, <1>6
<1> QED BY <1>5, <1>7 DEF g

\* COPY and MOVE lose nothing of the source, whatever fails or runs besides.
THEOREM SourceIsKept == Spec => SourceSurvives
<1>1. ASSUME ServerInv, [Next]_vars, NEW c \in Conns, Acts(c),
             task[c].pc \in {"clear", "copy", "move"},
             NEW p \in DOMAIN fs \cap Subtree(task[c].req.path)
      PROVE  LET q == IF p \in DOMAIN fs' THEN p
                      ELSE Rebase(p, task[c].req.path, task[c].req.dest)
             IN  q \in DOMAIN fs' /\ fs'[q] = fs[p]
  <2> DEFINE t == task[c]
  <2>1. CASE fs' = fs
    BY <1>1, <2>1
  <2>2. CASE fs' # fs
    <3>1. Step(c)
      BY <1>1, <2>2, OwnStep, DropKeeps DEF ServerInv
    <3>2. t.req \in Request /\ t.req.path \in Paths /\ t.req.dest \in Paths /\ ~Nested(t.req)
      <4>1. Running(t) /\ t.req \in Request /\ t.req.method \in {"COPY", "MOVE"}
        BY <1>1, RunningRequest DEF ServerInv, Running, Reaches
      <4>2. Paired(t) /\ WalkOK(t)
        BY <1>1, <4>1 DEF Paired, ServerInv, WalksOK
      <4> QED BY <4>1, <4>2, RequestFields DEF WalkOK
    <3>3. ~Above(t.req.path, t.req.dest) /\ ~Above(t.req.dest, t.req.path)
      BY <3>2 DEF Nested
    <3>4. p \in Paths /\ Above(t.req.path, p) /\ IsTree(fs)
      BY <1>1 DEF Subtree, ServerInv
    <3>5. ASSUME NEW q, InTarget(t, q), t.pc \in {"clear", "copy"} PROVE q # p
      BY <3>2, <3>3, <3>4, <3>5, AboveIsChain DEF InTarget, WalkRoot
    <3>6. CASE t.pc \in {"clear", "copy"}
      <4>1. PICK r : InTarget(t, r) /\ (Takes(r) \/ Puts(r))
        BY <1>1, <2>2, <3>1, <3>6, StepChanges
      <4>2. p # r
        BY <3>5, <3>6, <4>1
      <4>3. p \in DOMAIN fs' /\ fs'[p] = fs[p]
        <5>1. CASE Takes(r)
          <6>1. /\ DOMAIN fs' = DOMAIN fs \ {r}
                /\ \A q \in DOMAIN fs : q # r => fs'[q] = fs[q]
            BY <5>1, TakesKeeps
          <6> QED BY <4>2, <6>1
        <5>2. CASE Puts(r)
          BY <1>1, <4>2, <5>2, PutsKeeps
        <5> QED BY <4>1, <5>1, <5>2
      <4> QED BY <4>3
    <3>7. CASE t.pc = "move"
      <4>1. fs' = Moved(fs, t.req.path, t.req.dest) /\ RenameErrors(fs, t.req.path, t.req.dest) = {}
        BY <1>1, <2>2, <3>1, <3>7, StepChanges
      <4> QED BY <1>1, <3>2, <3>3, <3>4, <4>1, MovedCarries
    <3> QED BY <1>1, <3>6, <3>7
  <2> QED BY <2>1, <2>2
<1>2. ServerInv /\ [Next]_vars
        => [\A c \in Conns : Acts(c) /\ task[c].pc \in {"clear", "copy", "move"} =>
              \A p \in DOMAIN fs \cap Subtree(task[c].req.path) :
                 LET q == IF p \in DOMAIN fs' THEN p
                          ELSE Rebase(p, task[c].req.path, task[c].req.dest)
                 IN  q \in DOMAIN fs' /\ fs'[q] = fs[p]]_vars
  BY <1>1
<1> QED BY <1>2, ServerInvariant, PTL DEF Spec, SourceSurvives

-----------------------------------------------------------------------------
(* Exclusive locks hold through a whole request although they are checked  *)
(* once: what a request may still change is covered by no exclusive lock   *)
(* of the time of its checks but its own.  And how locks end: by their     *)
(* token, by their deadline, or with the resource they were on, deleted by *)
(* a request that checked first; a LOCK that fails leaves none.            *)

\* What a request that has got this far may still change.
InScope(t, p) ==
    \/ t.pc = "delete" /\ Above(t.req.path, p)
    \/ t.pc \in {"validate", "clear", "clearLocks", "copy", "move"} /\ Above(t.req.dest, p)
    \/ /\ t.req.method = "MOVE" /\ t.pc \in {"check", "validate", "clear", "clearLocks", "move"}
       /\ Above(t.req.path, p)
    \/ t.pc \in {"put", "create", "mark", "rollback", "open"} /\ p = t.req.path

\* Its own locks, Mine for a task.
Own(t, l) == l.token \in t.req.tokens \cup {t.token} /\ l.principal = t.req.principal

\* Every exclusive lock n stores, expired or not, that it could have met when
\* it checked and that covers what it may still change is its own.
Cleared(t, n) ==
    \A l \in LS!AllLocks(n), p \in Paths :
       ~l.shared /\ Covers(l, p) /\ InScope(t, p) /\ l.token \in t.seen => Own(t, l)

\* Whose locks a request that has got this far may still have deleted.
MayEnd(t, p) ==
    \/ t.pc \in {"delete", "deleteLocks"} /\ Above(t.req.path, p)
    \/ t.pc \in {"validate", "clear", "clearLocks"} /\ Above(t.req.dest, p)
    \/ /\ t.req.method = "MOVE"
       /\ t.pc \in {"check", "validate", "clear", "clearLocks", "move", "moveLocks"}
       /\ Above(t.req.path, p)

\* Every lock n stores on such a resource, shared or not, that it could have
\* met when it checked is its own.
Spared(t, n) ==
    \A l \in LS!AllLocks(n) : MayEnd(t, l.path) /\ l.token \in t.seen => Own(t, l)

\* A LOCK has its lock and has not made its file yet.
Holding(t) == t.pc \in {"open", "undo"}

\* What becomes of the lock a LOCK was granted: it is found at the path of the
\* request, and when the LOCK has failed it is gone.
Accounted(t, n, i) ==
    /\ t.token \in i \cup {NoToken}
    /\ Running(t) => t.status = "none" /\ (~Holding(t) => t.token = NoToken)
    /\ Holding(t) => /\ t.token \in i
                     /\ \A l \in LS!AllLocks(n) : l.token = t.token => l.path = t.req.path
    /\ t.status = "failed" /\ t.req.method = "LOCK" /\ t.token # NoToken
         => \A l \in LS!AllLocks(n) : l.token # t.token

\* A task in order, given the locks stored and the tokens handed out.
InOrder(t, n, i) ==
    /\ t.seen \subseteq i
    /\ Cleared(t, n) /\ Spared(t, n) /\ Accounted(t, n, i)

Guarded == \A c \in Conns : InOrder(task[c], nodes, issued)

-----------------------------------------------------------------------------
(* The lock system, as MemLsProofs knows it.                               *)

LEMMA SameLocks ==
    /\ \A n : LSP!AllLocks(n) = LS!AllLocks(n)
    /\ \A n, t : LSP!Pruned(n, t) = LS!Pruned(n, t)
    /\ \A l, p : LSP!Covers(l, p) <=> Covers(l, p)
    /\ \A p, q : LSP!Above(p, q) <=> Above(p, q)
<1>1. \A n : LSP!AllLocks(n) = LS!AllLocks(n)
  BY DEF LSP!AllLocks, LS!AllLocks
<1>2. \A n, t : LSP!Pruned(n, t) = LS!Pruned(n, t)
  BY DEF LSP!Pruned, LS!Pruned, LSP!Expired, LS!Expired, LSP!NodesBelow, LS!NodesBelow, LSP!Subtree,
         LS!Subtree, LSP!Above, LS!Above, LSP!Root, LS!Root
<1>3. \A l, p : LSP!Covers(l, p) <=> Covers(l, p)
  BY DEF LSP!Covers, Covers, LSP!Above, Above
<1>4. \A p, q : LSP!Above(p, q) <=> Above(p, q)
  BY DEF LSP!Above, Above
<1> QED BY <1>1, <1>2, <1>3, <1>4

LEMMA SameCheck ==
    \A n, p, pr, ignore, deep, tokens :
       LSP!CheckConflicts(n, p, pr, ignore, deep, tokens)
         = LS!CheckConflicts(n, p, pr, ignore, deep, tokens)
  BY DEF LSP!CheckConflicts, LS!CheckConflicts, LSP!ConflictsToPath, LS!ConflictsToPath,
         LSP!ConflictsFromPath, LS!ConflictsFromPath, LSP!LocksOn, LS!LocksOn, LSP!Walk, LS!Walk,
         LSP!Trail, LS!Trail, LSP!Above, LS!Above, LSP!Holds, LS!Holds, LSP!NodesBelow,
         LS!NodesBelow, LSP!Subtree, LS!Subtree

LEMMA SameNext == [LS!Next]_(LS!vars) <=> [LSP!Next]_(LSP!vars)
  BY DEF LS!Next, LSP!Next, LS!vars, LSP!vars, LS!Lock, LSP!Lock,
         LS!Unlock, LSP!Unlock, LS!Refresh, LSP!Refresh, LS!Query, LSP!Query,
         LS!Delete, LSP!Delete, LS!Tick, LSP!Tick, LS!Root, LSP!Root, LS!Above, LSP!Above,
         LS!Trail, LSP!Trail, LS!Subtree, LSP!Subtree, LS!NewLock, LSP!NewLock,
         LS!DeadlineAt, LSP!DeadlineAt, LS!Expired, LSP!Expired, LS!Walk, LSP!Walk,
         LS!NodesBelow, LSP!NodesBelow, LS!HasChild, LSP!HasChild, LS!LocksOn, LSP!LocksOn,
         LS!Pruned, LSP!Pruned, LS!WithLock, LSP!WithLock, LS!HolderNodes, LSP!HolderNodes,
         LS!WithoutToken, LSP!WithoutToken, LS!Renewed, LSP!Renewed,
         LS!WithoutSubtree, LSP!WithoutSubtree, LS!Holds, LSP!Holds,
         LS!ConflictsToPath, LSP!ConflictsToPath, LS!ConflictsFromPath, LSP!ConflictsFromPath,
         LS!LockConflicts, LSP!LockConflicts

LEMMA SameMethods ==
    /\ LS!Query => LSP!Query
    /\ \A p, principal, timeout, shared, deep :
          LS!Lock(p, principal, timeout, shared, deep) => LSP!Lock(p, principal, timeout, shared, deep)
    /\ \A p, token : LS!Unlock(p, token) => LSP!Unlock(p, token)
    /\ \A p, token, timeout : LS!Refresh(p, token, timeout) => LSP!Refresh(p, token, timeout)
    /\ \A p : LS!Delete(p) => LSP!Delete(p)
<1>1. LS!Query => LSP!Query
  BY SameLocks DEF LS!Query, LSP!Query
<1>2. ASSUME NEW p, NEW principal, NEW timeout, NEW shared, NEW deep,
             LS!Lock(p, principal, timeout, shared, deep)
      PROVE  LSP!Lock(p, principal, timeout, shared, deep)
  BY <1>2 DEF LS!Lock, LSP!Lock, LS!NewLock, LSP!NewLock, LS!DeadlineAt, LSP!DeadlineAt,
     LS!WithLock, LSP!WithLock, LS!LocksOn, LSP!LocksOn, LS!Holds, LSP!Holds,
     LS!ConflictsToPath, LSP!ConflictsToPath, LS!ConflictsFromPath, LSP!ConflictsFromPath,
     LS!LockConflicts, LSP!LockConflicts, LS!Root, LSP!Root, LS!Above, LSP!Above,
     LS!Trail, LSP!Trail, LS!Subtree, LSP!Subtree, LS!Expired, LSP!Expired, LS!Walk, LSP!Walk,
     LS!NodesBelow, LSP!NodesBelow, LS!Pruned, LSP!Pruned
<1>3. ASSUME NEW p, NEW token, LS!Unlock(p, token) PROVE LSP!Unlock(p, token)
  BY <1>3 DEF LS!Unlock, LSP!Unlock, LS!HolderNodes, LSP!HolderNodes,
     LS!WithoutToken, LSP!WithoutToken, LS!HasChild, LSP!HasChild, LS!Root, LSP!Root,
     LS!Above, LSP!Above, LS!Trail, LSP!Trail, LS!Subtree, LSP!Subtree, LS!Expired, LSP!Expired,
     LS!Walk, LSP!Walk, LS!NodesBelow, LSP!NodesBelow, LS!Pruned, LSP!Pruned
<1>4. ASSUME NEW p, NEW token, NEW timeout, LS!Refresh(p, token, timeout)
      PROVE  LSP!Refresh(p, token, timeout)
  BY <1>4 DEF LS!Refresh, LSP!Refresh, LS!HolderNodes, LSP!HolderNodes, LS!Renewed, LSP!Renewed,
     LS!DeadlineAt, LSP!DeadlineAt, LS!Root, LSP!Root, LS!Above, LSP!Above, LS!Trail, LSP!Trail,
     LS!Subtree, LSP!Subtree, LS!Expired, LSP!Expired, LS!Walk, LSP!Walk,
     LS!NodesBelow, LSP!NodesBelow, LS!Pruned, LSP!Pruned
<1>5. ASSUME NEW p, LS!Delete(p) PROVE LSP!Delete(p)
  BY <1>5 DEF LS!Delete, LSP!Delete, LS!WithoutSubtree, LSP!WithoutSubtree, LS!Root, LSP!Root,
     LS!NodesBelow, LSP!NodesBelow, LS!Subtree, LSP!Subtree, LS!Above, LSP!Above
<1> QED BY <1>1, <1>2, <1>3, <1>4, <1>5, Zenon

LEMMA ServerLocksKeep ==
    ASSUME ServerInv, [Next]_vars
    PROVE  /\ \A k \in LS!AllLocks(nodes') : k.token \in issued =>
                 \E l \in LS!AllLocks(nodes) :
                    /\ l.token = k.token /\ l.path = k.path /\ l.principal = k.principal
                    /\ l.shared = k.shared /\ l.deep = k.deep
           /\ issued \subseteq issued'
<1>1. [LSP!Next]_(LSP!vars) /\ LSP!IInv
  BY LockSteps, SameNext, SameInvariant DEF ServerInv
<1>2. \A k \in LSP!AllLocks(nodes') :
         k.token \in issued => \E l \in LSP!AllLocks(nodes) : LSP!SameLock(l, k)
  BY <1>1, LSP!LocksKeep, PathsAssumption, LocksAssumption, FileTreeAssumption DEF LSP!Root, Root
<1>3. issued \subseteq issued'
  BY <1>1, LSP!IssuedGrows, PathsAssumption, LocksAssumption, FileTreeAssumption DEF LSP!Root, Root
<1> QED BY <1>2, <1>3, SameLocks DEF LSP!SameLock

LEMMA ServerCheckGuards ==
    ASSUME ServerInv, NEW p \in Paths, NEW r \in Paths, NEW req \in Request, NEW deep \in BOOLEAN,
           ~Refused(req, p, deep), r = p \/ (deep /\ Above(p, r)),
           NEW l \in LS!AllLocks(LS!Pruned(nodes, now)), ~l.shared, Covers(l, r)
    PROVE  l.token \in req.tokens /\ l.principal = req.principal
<1>1. LSP!IInv
  BY SameInvariant DEF ServerInv
<1>2. \A x, y \in Paths, pr \in Principals, d \in BOOLEAN, tokens \in SUBSET Tokens :
        LSP!CheckConflicts(LSP!Pruned(nodes, now), x, pr, FALSE, d, tokens) = {}
          /\ (y = x \/ (d /\ LSP!Above(x, y)))
          => \A k \in LSP!AllLocks(LSP!Pruned(nodes, now)) :
                ~k.shared /\ LSP!Covers(k, y) => k.token \in tokens /\ k.principal = pr
  BY <1>1, LSP!CheckGuards, PathsAssumption, LocksAssumption, FileTreeAssumption DEF LSP!Root, Root
<1>3. req.principal \in Principals /\ req.tokens \in SUBSET Tokens
  BY RequestFields
<1>4. LSP!CheckConflicts(LSP!Pruned(nodes, now), p, req.principal, FALSE, deep, req.tokens) = {}
  BY SameLocks, SameCheck DEF Refused
<1>5. r = p \/ (deep /\ LSP!Above(p, r))
  BY SameLocks
<1>6. \A k \in LSP!AllLocks(LSP!Pruned(nodes, now)) :
         ~k.shared /\ LSP!Covers(k, r) => k.token \in req.tokens /\ k.principal = req.principal
  <2>1. \A pr \in Principals, d \in BOOLEAN, tokens \in SUBSET Tokens :
          LSP!CheckConflicts(LSP!Pruned(nodes, now), p, pr, FALSE, d, tokens) = {}
            /\ (r = p \/ (d /\ LSP!Above(p, r)))
            => \A k \in LSP!AllLocks(LSP!Pruned(nodes, now)) :
                  ~k.shared /\ LSP!Covers(k, r) => k.token \in tokens /\ k.principal = pr
    BY <1>2, Zenon
  <2>2. \A tokens \in SUBSET Tokens :
          LSP!CheckConflicts(LSP!Pruned(nodes, now), p, req.principal, FALSE, deep, tokens) = {}
            /\ (r = p \/ (deep /\ LSP!Above(p, r)))
            => \A k \in LSP!AllLocks(LSP!Pruned(nodes, now)) :
                  ~k.shared /\ LSP!Covers(k, r) => k.token \in tokens /\ k.principal = req.principal
    BY <1>3, <2>1, Zenon
  <2> QED BY <1>3, <1>4, <1>5, <2>2, Zenon
<1>7. l \in LSP!AllLocks(LSP!Pruned(nodes, now)) /\ LSP!Covers(l, r)
  BY SameLocks
<1> QED BY <1>6, <1>7

-----------------------------------------------------------------------------
(* What was cleared stays cleared.                                         *)

\* Others hand out, renew and end locks, but the locks of the time of the
\* checks that are left are still what they were.
LEMMA OrderKept ==
    ASSUME ServerInv, [Next]_vars, NEW t, InOrder(t, nodes, issued)
    PROVE  InOrder(t, nodes', issued')
<1>1. t.seen \subseteq issued' /\ issued \subseteq issued'
  BY ServerLocksKeep DEF InOrder
<1>2. ASSUME NEW k \in LS!AllLocks(nodes'), k.token \in issued
      PROVE  \E l \in LS!AllLocks(nodes) :
                /\ l.token = k.token /\ l.path = k.path /\ l.principal = k.principal
                /\ l.shared = k.shared /\ l.deep = k.deep
  BY <1>2, ServerLocksKeep
<1>3. ASSUME NEW k \in LS!AllLocks(nodes'), NEW p \in Paths, ~k.shared, Covers(k, p),
             InScope(t, p), k.token \in t.seen
      PROVE  Own(t, k)
  <2>1. PICK l \in LS!AllLocks(nodes) :
           /\ l.token = k.token /\ l.path = k.path /\ l.principal = k.principal
           /\ l.shared = k.shared /\ l.deep = k.deep
    BY <1>2, <1>3 DEF InOrder
  <2>2. Covers(l, p)
    BY <1>3, <2>1 DEF Covers
  <2>3. Own(t, l)
    BY <1>3, <2>1, <2>2 DEF InOrder, Cleared
  <2> QED BY <2>1, <2>3 DEF Own
<1>4. ASSUME NEW k \in LS!AllLocks(nodes'), MayEnd(t, k.path), k.token \in t.seen
      PROVE  Own(t, k)
  <2>1. PICK l \in LS!AllLocks(nodes) :
           l.token = k.token /\ l.path = k.path /\ l.principal = k.principal
    BY <1>2, <1>4 DEF InOrder
  <2>2. Own(t, l)
    BY <1>4, <2>1 DEF InOrder, Spared
  <2> QED BY <2>1, <2>2 DEF Own
<1>5. Accounted(t, nodes', issued')
  BY <1>1, <1>2 DEF InOrder, Accounted
<1> QED BY <1>1, <1>3, <1>4, <1>5 DEF InOrder, Cleared, Spared

\* A task goes on with what is left to do.
Follows(t, u) == /\ u.req = t.req /\ u.seen = t.seen /\ u.token = t.token /\ u.status = t.status
                 /\ Holding(u) <=> Holding(t)
                 /\ \A p : (InScope(u, p) => InScope(t, p)) /\ (MayEnd(u, p) => MayEnd(t, p))

LEMMA FollowsInOrder ==
    ASSUME NEW t, NEW u, Running(t), Follows(t, u), NEW n, NEW i, InOrder(t, n, i)
    PROVE  InOrder(u, n, i)
<1>1. Cleared(u, n) /\ Spared(u, n) /\ u.seen \subseteq i
  BY DEF Follows, InOrder, Cleared, Spared, Own
<1>2. Accounted(u, n, i)
  BY DEF Follows, InOrder, Accounted
<1> QED BY <1>1, <1>2 DEF InOrder

\* A task that is done may change nothing; a LOCK that fails holds no lock.
LEMMA AnsweredInOrder ==
    ASSUME NEW t, Running(t), NEW n, NEW i, InOrder(t, n, i),
           NEW status, Holding(t) => status # "failed"
    PROVE  InOrder(Answered(t, status), n, i)
<1> DEFINE u == Answered(t, status)
<1>1. u.pc = "done" /\ u.seen = {} /\ u.token = t.token /\ u.req = t.req /\ u.status = status
  BY DEF Answered, NoTask
<1> HIDE DEF u
<1>2. Cleared(u, n) /\ Spared(u, n)
  BY <1>1 DEF Cleared, Spared
<1>3. Accounted(u, n, i)
  BY <1>1 DEF InOrder, Accounted, Holding, Running
<1>4. InOrder(u, n, i)
  BY <1>1, <1>2, <1>3 DEF InOrder
<1> QED BY <1>4 DEF u

\* What Follows asks of a step that only moves on.
Narrows(t, u) ==
    /\ Holding(u) <=> Holding(t)
    /\ \A p : (InScope(u, p) => InScope(t, p)) /\ (MayEnd(u, p) => MayEnd(t, p))

LEMMA AtFollows ==
    ASSUME NEW t \in Task, NEW pc, Narrows(t, At(t, pc))
    PROVE  Follows(t, At(t, pc))
  BY DEF Follows, Narrows, At, Task

LEMMA AtFields ==
    ASSUME NEW t \in Task, NEW pc
    PROVE  At(t, pc).pc = pc /\ At(t, pc).req = t.req
  BY DEF At, Task

\* What InScope looks at besides the path.
LEMMA SameScope ==
    ASSUME NEW t, NEW u, u.pc = t.pc, u.req = t.req, u.seen = t.seen, u.token = t.token,
           u.status = t.status
    PROVE  Follows(t, u)
  BY DEF Follows, InScope, MayEnd, Holding

LEMMA FollowsOn ==
    ASSUME NEW t, NEW u, NEW v, Follows(t, u), Follows(u, v)
    PROVE  Follows(t, v)
  BY DEF Follows

LEMMA WorkFollows ==
    ASSUME NEW t \in Task, NEW work
    PROVE  Follows(t, [t EXCEPT !.work = work])
<1> DEFINE u == [t EXCEPT !.work = work]
<1>1. /\ u.pc = t.pc /\ u.req = t.req /\ u.seen = t.seen /\ u.token = t.token
      /\ u.status = t.status
  BY DEF Task
<1> HIDE DEF u
<1>2. Follows(t, u)
  BY <1>1, SameScope
<1> QED BY <1>2 DEF u

\* Where a request may end up when it takes a step from t.
Onward(t, u) ==
    Follows(t, u) \/ \E status : u = Answered(t, status) /\ (Holding(t) => status # "failed")

LEMMA ReturnedFollows ==
    ASSUME NEW t \in Task, Walking(t), NEW failed
    PROVE  Onward(t, Returned(t, failed))
<1>1. CASE Len(t.work) > 1
  BY <1>1, WorkFollows DEF Returned, Onward
<1>2. CASE ~(Len(t.work) > 1) /\ (failed \/ t.pc = "copy")
  <2>1. \E status : Returned(t, failed) = Answered(t, status)
    BY <1>2 DEF Returned, Walking
  <2> QED BY <2>1 DEF Onward, Holding, Walking
<1>3. CASE ~(Len(t.work) > 1) /\ ~failed /\ t.pc \in {"delete", "clear"}
  <2> DEFINE pc == IF t.pc = "delete" THEN "deleteLocks" ELSE "clearLocks"
  <2>1. Follows(t, At(t, pc))
    BY <1>3, AtFields, AtFollows DEF Narrows, InScope, MayEnd, Holding
  <2>2. At(t, pc) \in Task
    BY DEF At, Task, Pcs
  <2>3. Follows(t, [At(t, pc) EXCEPT !.work = <<>>])
    BY <2>1, <2>2, WorkFollows, FollowsOn
  <2> QED BY <1>3, <2>3 DEF Returned, Onward
<1> QED BY <1>1, <1>2, <1>3 DEF Walking, Onward

LEMMA TransferFollows ==
    ASSUME NEW t \in Task, t.pc \in {"validate", "clearLocks"}
    PROVE  Follows(t, Transfer(t))
<1>1. At(t, "move") \in Task /\ At(t, "copy") \in Task
  BY DEF At, Task, Pcs
<1>2. CASE t.req.method = "MOVE"
  <2>1. Follows(t, At(t, "move"))
    BY <1>2, AtFields, AtFollows DEF Narrows, InScope, MayEnd, Holding
  <2> QED BY <1>1, <1>2, <2>1, WorkFollows, FollowsOn DEF Transfer
<1>3. CASE t.req.method # "MOVE"
  <2>1. Follows(t, At(t, "copy"))
    BY <1>3, AtFields, AtFollows DEF Narrows, InScope, MayEnd, Holding
  <2> QED BY <1>1, <1>3, <2>1, WorkFollows, FollowsOn DEF Transfer
<1> QED BY <1>2, <1>3

\* Apart from the checks and the grant of a lock, a step never widens what
\* its request may change.
LEMMA StepFollows ==
    ASSUME ServerInv, NEW c \in Conns, Step(c),
           ~CheckSource(c), ~Check(c), ~TakeLock(c), ~UndoLock(c)
    PROVE  \E u : Go(c, u) /\ Onward(task[c], u)
<1> DEFINE t == task[c]
           frame == Top(t)
<1>0. t \in Task /\ WalkOK(t)
  BY DEF ServerInv, WalksOK
<1>1. ASSUME NEW status, Holding(t) => status # "failed", Go(c, Answered(t, status))
      PROVE  \E u : Go(c, u) /\ Onward(t, u)
  BY <1>1 DEF Onward
<1>2. ASSUME NEW u, Go(c, u), Follows(t, u) PROVE \E v : Go(c, v) /\ Onward(t, v)
  BY <1>2 DEF Onward
<1>3. ASSUME NEW failed, Walking(t), Go(c, Returned(t, failed))
      PROVE  \E u : Go(c, u) /\ Onward(t, u)
  BY <1>0, <1>3, ReturnedFollows DEF Onward
<1>4. ASSUME NEW next PROVE Follows(t, WithTop(t, next))
  BY <1>0, WorkFollows DEF WithTop
<1>5. CASE Metadata(c)
  <2> DEFINE known == [t EXCEPT !.isDir = IsDir(fs, t.req.path), !.exists = t.req.path \in DOMAIN fs]
  <2>0. t.pc = "meta" /\ ~Holding(t)
    BY <1>5 DEF Metadata, Holding
  <2>1. \/ Go(c, Answered(t, "failed"))
        \/ \E pc \in {"if", "parent", "release"} :
              Go(c, At(known, pc)) /\ (pc = "if" => t.req.method \notin {"COPY", "MOVE"})
    BY <1>5 DEF Metadata
  <2>2. known \in Task /\ known.pc = t.pc /\ known.req = t.req /\ known.seen = t.seen
        /\ known.token = t.token /\ known.status = t.status
    <3>1. IsDir(fs, t.req.path) \in BOOLEAN /\ (t.req.path \in DOMAIN fs) \in BOOLEAN
      BY DEF IsDir
    <3>2. ASSUME NEW x \in BOOLEAN, NEW y \in BOOLEAN
          PROVE  LET u == [t EXCEPT !.isDir = x, !.exists = y]
                 IN  u \in Task /\ u.pc = t.pc /\ u.req = t.req /\ u.seen = t.seen
                     /\ u.token = t.token /\ u.status = t.status
      BY <1>0 DEF Task
    <3> QED BY <3>1, <3>2, Zenon
  <2> HIDE DEF known
  <2>3. ASSUME NEW pc \in {"if", "parent", "release"} PROVE Follows(t, At(known, pc))
    <3>1. Follows(t, known)
      BY <2>2, SameScope
    <3>2. Follows(known, At(known, pc))
      BY <2>0, <2>2, AtFields, AtFollows DEF Narrows, InScope, MayEnd, Holding
    <3> QED BY <3>1, <3>2, FollowsOn
  <2> QED BY <1>1, <1>2, <2>0, <2>1, <2>3
<1>6. CASE DestParent(c)
  <2>1. Follows(t, At(t, "dest")) /\ ~Holding(t)
    BY <1>0, <1>6, AtFields, AtFollows DEF DestParent, Narrows, InScope, MayEnd, Holding
  <2> QED BY <1>1, <1>2, <1>6, <2>1 DEF DestParent
<1>7. CASE DestMetadata(c)
  <2> DEFINE u == At(t, "if")
             known == [u EXCEPT !.exists = t.req.dest \in DOMAIN fs,
                                !.destFile = IsFile(fs, t.req.dest)]
  <2>1. Follows(t, u) /\ u \in Task /\ ~Holding(t)
    BY <1>0, <1>7, AtFields, AtFollows
       DEF DestMetadata, Narrows, InScope, MayEnd, Holding, At, Task, Pcs
  <2> HIDE DEF u
  <2>2. known.pc = u.pc /\ known.req = u.req /\ known.seen = u.seen /\ known.token = u.token
        /\ known.status = u.status
    BY <2>1 DEF Task
  <2>3. Follows(t, known)
    BY <2>1, <2>2, SameScope, FollowsOn
  <2>4. Go(c, known) \/ Go(c, Answered(t, "failed"))
    BY <1>7 DEF DestMetadata, u
  <2> HIDE DEF known
  <2> QED BY <1>1, <1>2, <2>1, <2>3, <2>4
<1>8. CASE IfHeader(c)
  <2>1. \/ Go(c, Answered(t, "failed"))
        \/ \E pc \in {"lock", "checkSource", "check"} :
              Go(c, At(t, pc)) /\ (pc = "check" => t.req.method # "MOVE")
    BY <1>8 DEF IfHeader
  <2>2. ASSUME NEW pc \in {"lock", "checkSource", "check"}, pc = "check" => t.req.method # "MOVE"
        PROVE  Follows(t, At(t, pc))
    BY <1>0, <1>8, <2>2, AtFields, AtFollows DEF IfHeader, Narrows, InScope, MayEnd, Holding
  <2>3. ~Holding(t)
    BY <1>8 DEF IfHeader, Holding
  <2> QED BY <1>1, <1>2, <2>1, <2>2, <2>3
<1>9. CASE Validate(c)
  <2>1. t.pc = "validate"
    BY <1>9 DEF Validate
  <2>2. Follows(t, Transfer(t))
    BY <1>0, <2>1, TransferFollows
  <2>3. At(t, "clear") \in Task /\ Follows(t, At(t, "clear"))
    BY <1>0, <2>1, AtFields, AtFollows DEF Narrows, InScope, MayEnd, Holding, At, Task, Pcs
  <2>4. \A work : Follows(t, [At(t, "clear") EXCEPT !.work = work])
    BY <2>3, WorkFollows, FollowsOn
  <2> QED BY <1>1, <1>2, <1>9, <2>1, <2>2, <2>4 DEF Validate, Holding
<1>10. ASSUME NEW p, Walking(t), Remove(c, t, p) PROVE \E u : Go(c, u) /\ Onward(t, u)
  BY <1>3, <1>10 DEF Remove
<1>11. ASSUME NEW f, Walking(t), ReadDir(c, t, f) PROVE \E u : Go(c, u) /\ Onward(t, u)
  BY <1>2, <1>3, <1>4, <1>11 DEF ReadDir
<1>12. CASE DeleteVisit(c) \/ DeleteLeave(c)
  <2>1. Walking(t)
    BY <1>12 DEF DeleteVisit, DeleteLeave, Deleting, Walking
  <2>2. \/ Go(c, Returned(t, TRUE))
        \/ Remove(c, t, frame.path)
        \/ ReadDir(c, t, frame)
    BY <1>12 DEF DeleteVisit, DeleteLeave
  <2> QED BY <1>3, <1>10, <1>11, <2>1, <2>2
<1>13. CASE NextEntry(c)
  <2>1. PICK next, work : Go(c, [WithTop(t, next) EXCEPT !.work = work])
    BY <1>13 DEF NextEntry
  <2>2. [WithTop(t, next) EXCEPT !.work = work] = [t EXCEPT !.work = work]
    BY <1>0 DEF WithTop, Task
  <2>3. Follows(t, [t EXCEPT !.work = work])
    BY <1>0, WorkFollows
  <2> QED BY <1>2, <2>1, <2>2, <2>3
<1>14. CASE CopyVisit(c) \/ CopyFile(c) \/ CopyDir(c) \/ CopyProps(c) \/ CopyList(c) \/ CopyLeave(c)
  <2>1. Walking(t)
    BY <1>14 DEF CopyVisit, CopyFile, CopyDir, CopyProps, CopyList, CopyLeave, Walking
  <2>2. \/ \E failed : Go(c, Returned(t, failed))
        \/ \E next : Go(c, WithTop(t, next))
        \/ ReadDir(c, t, frame)
    BY <1>14 DEF CopyVisit, CopyFile, CopyDir, CopyProps, CopyList, CopyLeave
  <2> QED BY <1>2, <1>3, <1>4, <1>11, <2>1, <2>2
<1>15. CASE DropLocks(c)
  <2>1. Go(c, Answered(t, "ok")) \/ (t.pc = "clearLocks" /\ Go(c, Transfer(t)))
    BY <1>15 DEF DropLocks
  <2>2. t.pc = "clearLocks" => Follows(t, Transfer(t))
    BY <1>0, TransferFollows
  <2>3. ~Holding(t)
    BY <1>15 DEF DropLocks, Holding
  <2> QED BY <1>1, <1>2, <2>1, <2>2, <2>3
<1>16. CASE Move(c) \/ Put(c) \/ MakeCollection(c) \/ Mark(c) \/ Rollback(c) \/ Open(c)
            \/ Refresh(c) \/ Release(c)
  <2>0. CASE Open(c)
    <3>1. t.pc = "open" /\ (Go(c, Answered(t, "ok")) \/ Go(c, At(t, "undo")))
      BY <2>0 DEF Open
    <3>2. Follows(t, At(t, "undo"))
      BY <1>0, <3>1, AtFields, AtFollows DEF Narrows, InScope, MayEnd, Holding
    <3> QED BY <1>1, <1>2, <3>1, <3>2
  <2> SUFFICES ASSUME ~Open(c) PROVE \E u : Go(c, u) /\ Onward(t, u)
    BY <2>0
  <2>1. \/ \E status : Go(c, Answered(t, status))
        \/ t.pc = "move" /\ Go(c, At(t, "moveLocks"))
        \/ t.pc = "create" /\ Go(c, At(t, "mark"))
        \/ t.pc = "mark" /\ Go(c, At(t, "rollback"))
    BY <1>16 DEF Move, Put, MakeCollection, Mark, Rollback, Refresh, Release
  <2>2. /\ t.pc = "move" => Follows(t, At(t, "moveLocks"))
        /\ t.pc = "create" => Follows(t, At(t, "mark"))
        /\ t.pc = "mark" => Follows(t, At(t, "rollback"))
    BY <1>0, AtFields, AtFollows DEF Narrows, InScope, MayEnd, Holding
  <2>3. ~Holding(t)
    BY <1>16 DEF Move, Put, MakeCollection, Mark, Rollback, Refresh, Release, Holding
  <2> QED BY <1>1, <1>2, <2>1, <2>2, <2>3
<1> QED BY <1>5, <1>6, <1>7, <1>8, <1>9, <1>12, <1>13, <1>14, <1>15, <1>16 DEF Step

-----------------------------------------------------------------------------
(* The checks and the grant of a lock.                                     *)

\* A task in order after the step.
Fit(u) == InOrder(u, nodes', issued')

LEMMA AnsweredFit ==
    ASSUME ServerInv, [Next]_vars, NEW t, Running(t), InOrder(t, nodes, issued),
           NEW status, Holding(t) => status # "failed"
    PROVE  Fit(Answered(t, status))
  BY OrderKept, AnsweredInOrder DEF Fit

LEMMA Asking ==
    ASSUME ServerInv, NEW c \in Conns, Running(task[c])
    PROVE  /\ task[c] \in Task /\ task[c].req \in Request
           /\ task[c].req.path \in Paths /\ task[c].req.dest \in Paths
           /\ issued \in SUBSET Tokens
<1>1. task[c].req \in Request
  BY RunningRequest DEF ServerInv
<1> QED BY <1>1, RequestFields DEF ServerInv, WalksOK, LS!IInv, LS!TypeOK

\* What check() lets through at p is cleared there.
LEMMA CheckedCleared ==
    ASSUME ServerInv, LS!Query, NEW p \in Paths, NEW deep \in BOOLEAN, NEW u,
           u.req \in Request, ~Refused(u.req, p, deep),
           NEW l \in LS!AllLocks(nodes'), NEW r \in Paths, ~l.shared, Covers(l, r),
           r = p \/ (deep /\ Above(p, r))
    PROVE  Own(u, l)
<1>1. l \in LS!AllLocks(LS!Pruned(nodes, now))
  BY DEF LS!Query
<1>2. l.token \in u.req.tokens /\ l.principal = u.req.principal
  BY <1>1, ServerCheckGuards
<1> QED BY <1>2 DEF Own

\* A deep check has seen to every lock below, shared or not.
LEMMA CheckedSpared ==
    ASSUME ServerInv, LS!Query, NEW p \in Paths, NEW u,
           u.req \in Request, ~Refused(u.req, p, TRUE),
           NEW l \in LS!AllLocks(nodes'), Above(p, l.path)
    PROVE  Own(u, l)
<1>1. l \in LSP!AllLocks(LSP!Pruned(nodes, now)) /\ LSP!Above(p, l.path)
  BY SameLocks DEF LS!Query
<1>2. \A x \in Paths, pr \in Principals, tokens \in SUBSET Tokens :
        LSP!CheckConflicts(LSP!Pruned(nodes, now), x, pr, FALSE, TRUE, tokens) = {}
          => \A k \in LSP!AllLocks(LSP!Pruned(nodes, now)) :
                LSP!Above(x, k.path) => k.token \in tokens /\ k.principal = pr
  BY SameInvariant, LSP!CheckGuardsBelow, PathsAssumption, LocksAssumption, FileTreeAssumption
     DEF ServerInv, LSP!Root, Root
<1>3. u.req.principal \in Principals /\ u.req.tokens \in SUBSET Tokens
  BY RequestFields
<1>4. LSP!CheckConflicts(LSP!Pruned(nodes, now), p, u.req.principal, FALSE, TRUE, u.req.tokens) = {}
  BY SameLocks, SameCheck DEF Refused
<1>5. \A tokens \in SUBSET Tokens :
        LSP!CheckConflicts(LSP!Pruned(nodes, now), p, u.req.principal, FALSE, TRUE, tokens) = {}
          => \A k \in LSP!AllLocks(LSP!Pruned(nodes, now)) :
                LSP!Above(p, k.path) => k.token \in tokens /\ k.principal = u.req.principal
  BY <1>2, <1>3, Zenon
<1>6. \A k \in LSP!AllLocks(LSP!Pruned(nodes, now)) :
        LSP!Above(p, k.path) => k.token \in u.req.tokens /\ k.principal = u.req.principal
  BY <1>3, <1>4, <1>5, Zenon
<1> QED BY <1>1, <1>6 DEF Own

\* Before a lock is held, Accounted says that there is none.
LEMMA UnheldAccounted ==
    ASSUME NEW t, Running(t), ~Holding(t), NEW n, NEW i, InOrder(t, n, i),
           NEW u, u.token = t.token, u.status = t.status, u.req = t.req, ~Holding(u), NEW m, NEW j
    PROVE  Accounted(u, m, j)
  BY DEF InOrder, Accounted

LEMMA CheckSourceFit ==
    ASSUME ServerInv, [Next]_vars, Guarded, NEW c \in Conns, CheckSource(c)
    PROVE  \E u : Go(c, u) /\ Fit(u)
<1> DEFINE t == task[c]
           u == [At(t, "check") EXCEPT !.seen = issued]
<1>1. t.pc = "checkSource" /\ Running(t) /\ ~Holding(t) /\ LS!Query /\ InOrder(t, nodes, issued)
  BY DEF CheckSource, Running, Holding, Guarded
<1>2. CASE Refused(t.req, t.req.path, TRUE)
  BY <1>1, <1>2, AnsweredFit DEF CheckSource
<1>3. CASE ~Refused(t.req, t.req.path, TRUE)
  <2>1. t \in Task /\ t.req \in Request /\ t.req.path \in Paths
    BY <1>1, Asking
  <2>2. /\ u.pc = "check" /\ u.req = t.req /\ u.seen = issued
        /\ u.token = t.token /\ u.status = t.status
    BY <2>1 DEF At, Task
  <2>3. Go(c, u)
    BY <1>3 DEF CheckSource
  <2> HIDE DEF u
  <2>4. \A p : InScope(u, p) \/ MayEnd(u, p) => Above(t.req.path, p)
    BY <2>2 DEF InScope, MayEnd
  <2>5. Cleared(u, nodes')
    BY <1>1, <1>3, <2>1, <2>2, <2>4, CheckedCleared DEF Cleared
  <2>6. Spared(u, nodes')
    BY <1>1, <1>3, <2>1, <2>2, <2>4, CheckedSpared DEF Spared
  <2>7. issued' = issued
    BY <1>1 DEF LS!Query
  <2>8. Accounted(u, nodes', issued')
    BY <1>1, <2>2, UnheldAccounted DEF Holding
  <2> QED BY <2>2, <2>3, <2>5, <2>6, <2>7, <2>8 DEF Fit, InOrder
<1> QED BY <1>2, <1>3

LEMMA CheckFit ==
    ASSUME ServerInv, [Next]_vars, Guarded, NEW c \in Conns, Check(c)
    PROVE  \E u : Go(c, u) /\ Fit(u)
<1> DEFINE t == task[c]
           deep == DeepCheck(t.req)
           passed == [t EXCEPT !.seen = IF t.req.method = "MOVE" THEN @ ELSE issued]
<1>1. t.pc = "check" /\ Running(t) /\ ~Holding(t) /\ LS!Query /\ InOrder(t, nodes, issued)
  BY DEF Check, Running, Holding, Guarded
<1>2. CASE Refused(t.req, Target(t.req), deep)
  BY <1>1, <1>2, AnsweredFit DEF Check
<1>3. CASE ~Refused(t.req, Target(t.req), deep)
  <2>1. t \in Task /\ t.req \in Request /\ t.req.path \in Paths /\ t.req.dest \in Paths
        /\ issued \in SUBSET Tokens
    BY <1>1, Asking
  <2>2. Target(t.req) \in Paths /\ deep \in BOOLEAN
    BY <2>1 DEF Target, DeepCheck
  <2>3. /\ passed \in Task /\ passed.req = t.req /\ passed.pc = t.pc /\ passed.token = t.token
        /\ passed.status = t.status
        /\ t.req.method = "MOVE" => passed.seen = t.seen
        /\ t.req.method # "MOVE" => passed.seen = issued
    BY <2>1 DEF Task
  <2>4. PICK u : /\ Go(c, u)
                 /\ \/ /\ t.req.method = "DELETE"
                       /\ \E work : u = [At(passed, "delete") EXCEPT !.work = work]
                    \/ t.req.method \in {"COPY", "MOVE"} /\ u = At(passed, "validate")
                    \/ t.req.method = "PUT" /\ u = At(passed, "put")
                    \/ t.req.method = "MKCOL" /\ u = At(passed, "create")
                    \/ t.req.method = "REFRESH" /\ u = At(passed, "refresh")
    <3>1. t.req.method \in {"DELETE", "COPY", "MOVE", "PUT", "MKCOL", "REFRESH"}
      <4>1. Reaches(t.req.method, "check")
        BY <1>1 DEF ServerInv, TasksSound, Sound
      <4>2. t.req.method \in Methods
        BY <2>1, RequestFields
      <4> QED BY <4>1, <4>2 DEF Reaches, Methods
    <3> QED BY <1>3, <3>1 DEF Check
  <2> HIDE DEF passed
  <2>5. u.req = t.req /\ u.seen = passed.seen /\ u.token = t.token /\ u.status = t.status
    BY <2>3, <2>4 DEF At, Task
  <2>6. \/ t.req.method = "DELETE" /\ u.pc = "delete"
        \/ t.req.method \in {"COPY", "MOVE"} /\ u.pc = "validate"
        \/ t.req.method = "PUT" /\ u.pc = "put"
        \/ t.req.method = "MKCOL" /\ u.pc = "create"
        \/ t.req.method = "REFRESH" /\ u.pc = "refresh"
    BY <2>3, <2>4 DEF At, Task
  <2>7. \A p : InScope(u, p) =>
          \/ p = Target(t.req)
          \/ deep /\ Above(Target(t.req), p)
          \/ t.req.method = "MOVE" /\ Above(t.req.path, p)
    BY <2>5, <2>6 DEF InScope, Target, DeepCheck
  <2>8. \A p : MayEnd(u, p) =>
           \/ deep /\ Above(Target(t.req), p)
           \/ t.req.method = "MOVE" /\ Above(t.req.path, p)
    BY <2>5, <2>6 DEF MayEnd, Target, DeepCheck
  <2>9. LS!AllLocks(nodes') \subseteq LS!AllLocks(nodes)
    <3>1. LSP!AllLocks(LSP!Pruned(nodes, now)) \subseteq LSP!AllLocks(nodes)
      BY SameInvariant, LSP!PrunedFewer, PathsAssumption, LocksAssumption, FileTreeAssumption
         DEF ServerInv, LSP!Root, Root
    <3> QED BY <1>1, <3>1, SameLocks DEF LS!Query
  <2>10. ASSUME NEW l \in LS!AllLocks(nodes'), NEW p \in Paths, ~l.shared, Covers(l, p),
               InScope(u, p), l.token \in u.seen
        PROVE  Own(u, l)
    <3>1. CASE p = Target(t.req) \/ (deep /\ Above(Target(t.req), p))
      BY <1>1, <1>3, <2>1, <2>2, <2>5, <2>10, <3>1, CheckedCleared
    <3>2. CASE t.req.method = "MOVE" /\ Above(t.req.path, p)
      <4>1. InScope(t, p) /\ l.token \in t.seen
        BY <1>1, <2>3, <2>5, <2>10, <3>2 DEF InScope
      <4>2. Own(t, l)
        BY <1>1, <2>10, <2>9, <4>1 DEF InOrder, Cleared
      <4> QED BY <2>5, <4>2 DEF Own
    <3> QED BY <2>7, <2>10, <3>1, <3>2
  <2>11. u.seen \subseteq issued'
    BY <1>1, <2>3, <2>5 DEF InOrder, LS!Query
  <2>12. ASSUME NEW l \in LS!AllLocks(nodes'), MayEnd(u, l.path), l.token \in u.seen
         PROVE  Own(u, l)
    <3>1. CASE deep /\ Above(Target(t.req), l.path)
      BY <1>1, <1>3, <2>1, <2>2, <2>5, <3>1, CheckedSpared
    <3>2. CASE t.req.method = "MOVE" /\ Above(t.req.path, l.path)
      <4>1. MayEnd(t, l.path) /\ l.token \in t.seen
        BY <1>1, <2>3, <2>5, <2>12, <3>2 DEF MayEnd
      <4>2. Own(t, l)
        BY <1>1, <2>9, <4>1 DEF InOrder, Spared
      <4> QED BY <2>5, <4>2 DEF Own
    <3> QED BY <2>12, <2>8, <3>1, <3>2
  <2>13. Accounted(u, nodes', issued')
    BY <1>1, <2>5, <2>6, UnheldAccounted DEF Holding
  <2> QED BY <2>4, <2>10, <2>11, <2>12, <2>13 DEF Fit, InOrder, Cleared, Spared
<1> QED BY <1>2, <1>3

\* The lock a LOCK is granted is on its path.
LEMMA LockAtRequest ==
    ASSUME ServerInv, NEW c \in Conns, TakeLock(c)
    PROVE  \A l \in LS!AllLocks(nodes') : l.token \in issued \/ l.path = task[c].req.path
<1> DEFINE t == task[c]
<1>1. t.req \in Request
  BY Asking DEF TakeLock, Running
<1>2. LSP!IInv
  BY SameInvariant DEF ServerInv
<1>3. LSP!Lock(t.req.path, t.req.principal, t.req.timeout, t.req.shared, t.req.deep)
  BY SameMethods DEF TakeLock
<1>4. t.req.path \in Paths /\ t.req.principal \in Principals
      /\ t.req.timeout \in Timeouts \cup {Never} /\ t.req.shared \in BOOLEAN
      /\ t.req.deep \in BOOLEAN
  BY <1>1, RequestFields
<1>5. \A p \in Paths, principal \in Principals, timeout \in Timeouts \cup {Never},
         shared, deep \in BOOLEAN :
         LSP!IInv /\ LSP!Lock(p, principal, timeout, shared, deep)
           => \A l \in LSP!AllLocks(nodes') : l.token \in issued \/ l.path = p
  BY LSP!GrantPath, PathsAssumption, LocksAssumption, FileTreeAssumption DEF LSP!Root, Root
<1>6. \A l \in LSP!AllLocks(nodes') : l.token \in issued \/ l.path = t.req.path
  BY <1>2, <1>3, <1>4, <1>5, Zenon
<1> QED BY <1>6, SameLocks

LEMMA TakeLockFit ==
    ASSUME ServerInv, [Next]_vars, Guarded, NEW c \in Conns, TakeLock(c)
    PROVE  \E u : Go(c, u) /\ Fit(u)
<1> DEFINE t == task[c]
           granted == CHOOSE token \in issued' \ issued : TRUE
           locked == [t EXCEPT !.token = granted, !.seen = issued]
<1>1. t.pc = "lock" /\ Running(t) /\ ~Holding(t) /\ InOrder(t, nodes, issued)
      /\ LS!Lock(t.req.path, t.req.principal, t.req.timeout, t.req.shared, t.req.deep)
  BY DEF TakeLock, Running, Holding, Guarded
<1>2. CASE issued' = issued
  BY <1>1, <1>2, AnsweredFit DEF TakeLock
<1>3. CASE issued' # issued
  <2>1. t \in Task /\ t.req \in Request
    BY <1>1, Asking
  <2>2. issued \subseteq issued' /\ granted \in issued' \ issued
    BY <1>1, <1>3 DEF LS!Lock
  <2>3. locked.req = t.req /\ locked.token = granted /\ locked.status = t.status
    BY <2>1 DEF Task
  <2>4. LSP!IInv
    BY SameInvariant DEF ServerInv
  <2>5. LSP!Lock(t.req.path, t.req.principal, t.req.timeout, t.req.shared, t.req.deep)
    BY <1>1, SameMethods
  <2>6. t.req.path \in Paths /\ t.req.principal \in Principals
        /\ t.req.timeout \in Timeouts \cup {Never} /\ t.req.shared \in BOOLEAN
        /\ t.req.deep \in BOOLEAN
    BY <2>1, RequestFields
  <2>7. \A l \in LS!AllLocks(nodes') : l.token \in issued => l.shared \/ ~Covers(l, t.req.path)
    <3>1. \A p \in Paths, principal \in Principals, timeout \in Timeouts \cup {Never},
             shared, deep \in BOOLEAN :
             LSP!IInv /\ LSP!Lock(p, principal, timeout, shared, deep) /\ issued' # issued
               => \A l \in LSP!AllLocks(nodes') :
                     l.token \in issued => l.shared \/ ~LSP!Covers(l, p)
      BY LSP!GrantGuards, PathsAssumption, LocksAssumption, FileTreeAssumption DEF LSP!Root, Root
    <3>2. \A l \in LSP!AllLocks(nodes') :
             l.token \in issued => l.shared \/ ~LSP!Covers(l, t.req.path)
      BY <1>3, <2>4, <2>5, <2>6, <3>1, Zenon
    <3> QED BY <3>2, SameLocks
  <2>8. \A l \in LS!AllLocks(nodes') : l.token \in issued \/ l.path = t.req.path
    BY LockAtRequest
  <2> HIDE DEF granted, locked
  <2>9. CASE Go(c, Answered(locked, "ok"))
    <3> DEFINE u == Answered(locked, "ok")
    <3>1. u.pc = "done" /\ u.seen = {} /\ u.token = granted /\ u.status = "ok"
      BY <2>3 DEF Answered, NoTask
    <3> HIDE DEF u
    <3>2. Accounted(u, nodes', issued')
      BY <2>2, <3>1 DEF Accounted, Running, Holding
    <3>3. Fit(u)
      BY <3>1, <3>2 DEF Fit, InOrder, Cleared, Spared
    <3> QED BY <2>9, <3>3 DEF u
  <2>10. CASE Go(c, At(locked, "open"))
    <3> DEFINE u == At(locked, "open")
    <3>1. /\ u.pc = "open" /\ u.req = t.req /\ u.seen = issued
          /\ u.token = granted /\ u.status = t.status
      BY <2>1 DEF At, Task, locked
    <3> HIDE DEF u
    <3>2. Cleared(u, nodes')
      BY <2>7, <3>1 DEF Cleared, InScope
    <3>3. Spared(u, nodes')
      BY <3>1 DEF Spared, MayEnd
    <3>4. Accounted(u, nodes', issued')
      BY <1>1, <2>2, <2>8, <3>1 DEF InOrder, Accounted, Running, Holding
    <3>5. Fit(u)
      BY <2>2, <3>1, <3>2, <3>3, <3>4 DEF Fit, InOrder
    <3> QED BY <2>10, <3>5 DEF u
  <2> QED BY <1>3, <2>9, <2>10 DEF TakeLock, locked, granted
<1> QED BY <1>2, <1>3

\* The lock a LOCK gives back is gone.
LEMMA UndoEndsLock ==
    ASSUME ServerInv, Guarded, NEW c \in Conns, UndoLock(c)
    PROVE  \A l \in LS!AllLocks(nodes') : l.token # task[c].token
<1> DEFINE t == task[c]
<1>1. /\ t.pc = "undo" /\ Running(t) /\ Holding(t) /\ InOrder(t, nodes, issued)
      /\ LS!Unlock(t.req.path, t.token)
  BY DEF UndoLock, Running, Holding, Guarded
<1>2. t.req.path \in Paths /\ t.token \in Tokens
  BY <1>1, Asking DEF InOrder, Accounted
<1>3. LSP!Unlock(t.req.path, t.token)
  BY <1>1, SameMethods
<1>4. \A l \in LSP!AllLocks(nodes) : l.token = t.token => l.path = t.req.path
  BY <1>1, SameLocks DEF InOrder, Accounted
<1>5. \A p \in Paths, token \in Tokens :
        LSP!Unlock(p, token) /\ (\A l \in LSP!AllLocks(nodes) : l.token = token => l.path = p)
          => \A l \in LSP!AllLocks(nodes') : l.token # token
  BY SameInvariant, LSP!UnlockEnds, PathsAssumption, LocksAssumption, FileTreeAssumption
     DEF ServerInv, LSP!Root, Root
<1>6. \A l \in LSP!AllLocks(nodes') : l.token # t.token
  BY <1>2, <1>3, <1>4, <1>5, Zenon
<1> QED BY <1>6, SameLocks

LEMMA UndoLockFit ==
    ASSUME ServerInv, [Next]_vars, Guarded, NEW c \in Conns, UndoLock(c)
    PROVE  \E u : Go(c, u) /\ Fit(u)
<1> DEFINE t == task[c]
           u == Answered(t, "failed")
<1>1. /\ t.pc = "undo" /\ Running(t) /\ Holding(t) /\ InOrder(t, nodes, issued)
      /\ LS!Unlock(t.req.path, t.token) /\ Go(c, u)
  BY DEF UndoLock, Running, Holding, Guarded
<1>2. \A l \in LS!AllLocks(nodes') : l.token # t.token
  BY UndoEndsLock
<1>3. issued' = issued
  BY <1>1 DEF LS!Unlock
<1>4. u.pc = "done" /\ u.seen = {} /\ u.token = t.token
  BY DEF Answered, NoTask
<1> HIDE DEF u
<1>5. Accounted(u, nodes', issued')
  BY <1>1, <1>2, <1>3, <1>4 DEF InOrder, Accounted, Running, Holding
<1>6. Fit(u)
  BY <1>4, <1>5 DEF Fit, InOrder, Cleared, Spared
<1> QED BY <1>1, <1>6

-----------------------------------------------------------------------------
(* Every request stays within what it checked.                             *)

LEMMA StepRuns ==
    ASSUME NEW c, Step(c) PROVE Running(task[c])
  BY DEF Running, Step, Metadata, DestParent, DestMetadata, IfHeader, CheckSource, Check, Validate,
         DeleteVisit, NextEntry, DeleteLeave, CopyVisit, CopyFile, CopyDir, CopyProps, CopyList,
         CopyLeave, DropLocks, Move, Put, MakeCollection, Mark, Rollback, TakeLock, Open, UndoLock,
         Refresh, Release, Deleting

LEMMA StepFit ==
    ASSUME ServerInv, [Next]_vars, Guarded, NEW c \in Conns, Step(c)
    PROVE  \E u : Go(c, u) /\ Fit(u)
<1>1. CASE ~CheckSource(c) /\ ~Check(c) /\ ~TakeLock(c) /\ ~UndoLock(c)
  <2>1. PICK u : Go(c, u) /\ Onward(task[c], u)
    BY <1>1, StepFollows
  <2>2. Fit(task[c]) /\ InOrder(task[c], nodes, issued) /\ Running(task[c])
    BY OrderKept, StepRuns DEF Guarded, Fit
  <2>3. ASSUME Follows(task[c], u) PROVE Fit(u)
    BY <2>2, <2>3, FollowsInOrder DEF Fit
  <2> QED BY <2>1, <2>2, <2>3, AnsweredFit DEF Onward
<1> QED BY <1>1, CheckSourceFit, CheckFit, TakeLockFit, UndoLockFit

LEMMA NextGuarded ==
    ASSUME ServerInv, [Next]_vars, Guarded
    PROVE  Guarded'
<1>1. \A d \in Conns : Fit(task[d])
  BY OrderKept DEF Guarded, Fit
<1>2. task = [d \in Conns |-> task[d]]
  BY DEF ServerInv, TasksSound
<1>3. ASSUME NEW c \in Conns, NEW u, Go(c, u), Fit(u) PROVE \A d \in Conns : Fit(task'[d])
  BY <1>1, <1>2, <1>3 DEF Go
<1>4. ASSUME NEW c \in Conns, Arrive(c) PROVE \A d \in Conns : Fit(task'[d])
  <2>1. PICK req : Go(c, [NoTask EXCEPT !.pc = "meta", !.req = req])
    BY <1>4 DEF Arrive
  <2>2. Fit([NoTask EXCEPT !.pc = "meta", !.req = req])
    BY DEF Fit, InOrder, Cleared, Spared, Accounted, Holding, NoTask
  <2> QED BY <1>3, <2>1, <2>2
<1>5. ASSUME NEW c \in Conns, Step(c) PROVE \A d \in Conns : Fit(task'[d])
  BY <1>3, <1>5, StepFit
<1>6. ASSUME NEW c \in Conns, Drop(c) PROVE \A d \in Conns : Fit(task'[d])
  <2>1. Running(task[c]) /\ Go(c, Answered(task[c], "dropped"))
    BY <1>6 DEF Drop, Idle, Running
  <2>2. Fit(Answered(task[c], "dropped"))
    BY <2>1, AnsweredFit DEF Guarded
  <2> QED BY <1>3, <2>1, <2>2
<1>7. ASSUME task' = task PROVE \A d \in Conns : Fit(task'[d])
  BY <1>1, <1>7
<1>8. \A d \in Conns : Fit(task'[d])
  BY <1>4, <1>5, <1>6, <1>7 DEF Next, Tick, vars
<1> QED BY <1>8 DEF Fit, Guarded, InOrder, Cleared, Spared, Accounted

LEMMA InitGuarded == Init => Guarded
  BY DEF Init, Guarded, InOrder, Cleared, Spared, Accounted, Running, Holding, NoTask

\* The invariant behind the properties below: every request keeps to what it
\* has checked, and a LOCK's lock is where its request can take it back.
THEOREM RequestsStayGuarded == Spec => []Guarded
<1>1. ServerInv /\ Guarded /\ [Next]_vars => Guarded'
  BY NextGuarded
<1> QED BY <1>1, InitGuarded, ServerInvariant, PTL DEF Spec

\* A step changes only what its request may still change.
LEMMA ChangesInScope ==
    ASSUME ServerInv, NEW c \in Conns, Step(c), NEW p \in Paths, Changed(p)
    PROVE  InScope(task[c], p)
<1> DEFINE t == task[c]
<1>1. fs' # fs
  BY DEF Changed
<1>2. ASSUME NEW q, Puts(q) \/ Takes(q) PROVE p = q
  <2>1. CASE Puts(q)
    BY <2>1 DEF Puts, With, Changed
  <2>2. CASE Takes(q)
    BY <2>2 DEF Takes, Without, Changed
  <2> QED BY <1>2, <2>1, <2>2
<1>3. CASE t.pc \in {"delete", "clear", "copy"} /\ \E q : InTarget(t, q) /\ (Takes(q) \/ Puts(q))
  BY <1>2, <1>3 DEF InTarget, WalkRoot, InScope
<1>4. CASE t.pc \in {"put", "create", "open", "rollback"} /\ (Puts(t.req.path) \/ Takes(t.req.path))
  BY <1>2, <1>4 DEF InScope
<1>5. CASE /\ t.pc = "move" /\ fs' = Moved(fs, t.req.path, t.req.dest)
           /\ RenameErrors(fs, t.req.path, t.req.dest) = {}
  <2>1. Running(t) /\ t.req.method = "MOVE"
    BY <1>5 DEF ServerInv, TasksSound, Sound, Running, Reaches
  <2>2. t.req.path \in Paths /\ t.req.dest \in Paths /\ DOMAIN fs \subseteq Paths
    BY <2>1, Asking DEF ServerInv, IsTree
  <2>3. Above(t.req.path, p) \/ Above(t.req.dest, p)
    <3> SUFFICES ASSUME ~Above(t.req.path, p), ~Above(t.req.dest, p) PROVE FALSE
      OBVIOUS
    <3>1. ASSUME NEW r \in DOMAIN fs \cap Subtree(t.req.path)
          PROVE  Above(t.req.dest, Rebase(r, t.req.path, t.req.dest))
      <4>1. Rebase(r, t.req.path, t.req.dest) \in Paths
        BY <1>5 DEF RenameErrors
      <4> QED BY <2>2, <4>1, RebaseBack DEF Subtree
    <3>2. Above(t.req.dest, t.req.dest)
      BY DEF Above
    <3>3. (p \in DOMAIN fs) <=> (p \in DOMAIN fs')
      BY <1>5, <3>1, <3>2 DEF Moved, Subtree
    <3>4. p \in DOMAIN fs => fs'[p] = fs[p]
      BY <1>5, <3>3 DEF Moved
    <3> QED BY <3>3, <3>4 DEF Changed
  <2> QED BY <1>5, <2>1, <2>3 DEF InScope
<1> QED BY <1>1, <1>3, <1>4, <1>5, StepChanges

\* However the requests interleave, fail or are dropped, and however locks
\* expire meanwhile: nothing that an exclusive lock covers is changed by a
\* request whose checks the lock was in time for and does not excuse.
THEOREM ServerRespectsLocks == Spec => LocksRespected
<1>1. ASSUME ServerInv, Guarded, [Next]_vars, NEW c \in Conns, Acts(c),
             NEW l \in LS!InForce, NEW p \in Paths,
             ~l.shared, Covers(l, p), ~Mine(c, l), Changed(p)
      PROVE  l.token \notin task[c].seen
  <2>1. Step(c)
    <3>1. fs' # fs
      BY <1>1 DEF Changed
    <3> QED BY <1>1, <3>1, OwnStep, DropKeeps DEF ServerInv
  <2>2. InScope(task[c], p)
    BY <1>1, <2>1, ChangesInScope
  <2>3. l \in LS!AllLocks(nodes) /\ ~Own(task[c], l)
    BY <1>1 DEF LS!InForce, Own, Mine, Presents
  <2> QED BY <1>1, <2>2, <2>3 DEF Guarded, InOrder, Cleared
<1>2. ServerInv /\ Guarded /\ [Next]_vars
        => [\A c \in Conns : Acts(c) =>
              \A l \in LS!InForce, p \in Paths :
                 ~l.shared /\ Covers(l, p) /\ ~Mine(c, l) /\ Changed(p)
                    => l.token \notin task[c].seen]_vars
  BY <1>1
<1> QED BY <1>2, ServerInvariant, RequestsStayGuarded, PTL DEF Spec, LocksRespected

-----------------------------------------------------------------------------
(* How locks end.                                                          *)

\* A LOCK that is answered with an error leaves no lock behind, whoever else
\* works on the file it could not make.
THEOREM FailedLocksGone == Spec => []FailedLockLeavesNothing
<1>1. ASSUME ServerInv, Guarded, NEW c \in Conns, task[c].status = "failed",
             task[c].req.method = "LOCK", NEW l \in LS!InForce
      PROVE  l.token # task[c].token
  <2>1. l \in LS!AllLocks(nodes) /\ l.token \in Tokens
    BY <1>1 DEF LS!InForce, ServerInv, LS!IInv, LS!TypeOK
  <2> QED BY <1>1, <2>1, ServerAssumption DEF Guarded, InOrder, Accounted
<1>2. ServerInv /\ Guarded => FailedLockLeavesNothing
  BY <1>1 DEF FailedLockLeavesNothing
<1> QED BY <1>2, ServerInvariant, RequestsStayGuarded, PTL

\* The ways a step ends a lock: by its token, or with what it is on.
ByToken(t, l) ==
    \/ t.pc \in {"release", "refresh"} /\ l.token \in t.req.tokens
    \/ t.pc = "undo" /\ l.token = t.token
WithResource(t, l) ==
    \/ t.pc \in {"deleteLocks", "moveLocks"} /\ Above(t.req.path, l.path)
    \/ t.pc = "clearLocks" /\ Above(t.req.dest, l.path)

\* What one step may do to a lock in force: only unlock, refresh and delete
\* touch it, and only under its token or at and below a path.
LEMMA StepEndsLock ==
    ASSUME ServerInv, [Next]_vars, NEW c \in Conns, Step(c), NEW l \in LS!InForce
    PROVE  \/ l \in LS!AllLocks(nodes')
           \/ task'[c] # task[c] /\ (ByToken(task[c], l) \/ WithResource(task[c], l))
<1> DEFINE t == task[c]
<1>1. Running(t) /\ t.req \in Request /\ t.req.path \in Paths /\ t.req.dest \in Paths
  BY StepRuns, Asking
<1>2. LSP!IInv /\ l \in LSP!InForce /\ l \in LS!AllLocks(nodes)
  BY SameInvariant DEF ServerInv, LS!InForce, LSP!InForce, LS!AllLocks, LSP!AllLocks,
     LS!Expired, LSP!Expired
<1>3. /\ LSP!Query => l \in LSP!AllLocks(nodes')
      /\ \A p, principal, timeout, shared, deep :
            p \in Paths /\ principal \in Principals /\ timeout \in Timeouts \cup {Never}
              /\ shared \in BOOLEAN /\ deep \in BOOLEAN
              /\ LSP!Lock(p, principal, timeout, shared, deep) => l \in LSP!AllLocks(nodes')
      /\ \A p, token : LSP!Unlock(p, token) /\ l.token # token => l \in LSP!AllLocks(nodes')
      /\ \A p, token : \A timeout \in Timeouts \cup {Never} :
            LSP!Refresh(p, token, timeout) /\ l.token # token => l \in LSP!AllLocks(nodes')
      /\ \A p \in Paths : LSP!Delete(p) /\ ~LSP!Above(p, l.path) => l \in LSP!AllLocks(nodes')
  BY <1>2, LSP!LocksStay, PathsAssumption, LocksAssumption, FileTreeAssumption DEF LSP!Root, Root
<1>4. CASE nodes' = nodes
  BY <1>2, <1>4
<1>5. ASSUME NEW u, Go(c, u), u.pc # t.pc PROVE task'[c] # t
  BY <1>5 DEF Go, ServerInv, TasksSound
<1>6. ASSUME NEW status, Go(c, Answered(t, status)) PROVE task'[c] # t
  <2>1. Answered(t, status).pc = "done"
    BY DEF Answered, NoTask
  <2> QED BY <1>1, <1>5, <1>6, <2>1 DEF Running
<1>7. CASE IfHeader(c) \/ CheckSource(c) \/ Check(c)
  <2>1. nodes' = nodes \/ LS!Query
    BY <1>7 DEF IfHeader, CheckSource, Check, lockVars
  <2> QED BY <1>3, <1>4, <2>1, SameMethods, SameLocks
<1>8. CASE TakeLock(c)
  <2>1. LSP!Lock(t.req.path, t.req.principal, t.req.timeout, t.req.shared, t.req.deep)
    BY <1>8, SameMethods DEF TakeLock
  <2>2. t.req.principal \in Principals /\ t.req.timeout \in Timeouts \cup {Never}
        /\ t.req.shared \in BOOLEAN /\ t.req.deep \in BOOLEAN
    BY <1>1, RequestFields
  <2>3. l \in LSP!AllLocks(nodes')
    BY <1>1, <1>3, <2>1, <2>2, Zenon
  <2> QED BY <2>3, SameLocks
<1>9. CASE UndoLock(c)
  BY <1>3, <1>9, <1>6, SameMethods, SameLocks DEF UndoLock, ByToken
<1>10. CASE Refresh(c)
  <2>1. PICK token \in t.req.tokens : LS!Refresh(t.req.path, token, t.req.timeout)
    BY <1>10 DEF Refresh
  <2>2. t.pc = "refresh" /\ task'[c] # t
    BY <1>10, <1>6 DEF Refresh
  <2> QED BY <1>1, <1>3, <2>1, <2>2, RequestFields, SameMethods, SameLocks DEF ByToken
<1>11. CASE Release(c)
  <2>1. PICK token \in t.req.tokens : LS!Unlock(t.req.path, token)
    BY <1>11 DEF Release
  <2>2. t.pc = "release" /\ task'[c] # t
    BY <1>11, <1>6 DEF Release
  <2> QED BY <1>3, <2>1, <2>2, SameMethods, SameLocks DEF ByToken
<1>12. CASE DropLocks(c)
  <2>1. /\ t.pc \in {"deleteLocks", "moveLocks", "clearLocks"}
        /\ LS!Delete(IF t.pc = "clearLocks" THEN t.req.dest ELSE t.req.path)
    BY <1>12 DEF DropLocks
  <2>2. task'[c] # t
    <3>1. Go(c, Answered(t, "ok")) \/ (t.pc = "clearLocks" /\ Go(c, Transfer(t)))
      BY <1>12 DEF DropLocks
    <3>2. Transfer(t).pc \in {"move", "copy"}
      BY <1>1, Asking DEF Transfer, At, Task
    <3> QED BY <1>5, <1>6, <3>1, <3>2
  <2>3. LSP!Above(IF t.pc = "clearLocks" THEN t.req.dest ELSE t.req.path, l.path)
           => WithResource(t, l)
    BY <2>1 DEF WithResource, LSP!Above, Above
  <2> QED BY <1>1, <1>3, <2>1, <2>2, <2>3, SameMethods, SameLocks
<1> QED BY <1>4, <1>7, <1>8, <1>9, <1>10, <1>11, <1>12
        DEF Step, Metadata, DestParent, DestMetadata, Validate, DeleteVisit, NextEntry, DeleteLeave,
            CopyVisit, CopyFile, CopyDir, CopyProps, CopyList, CopyLeave, Move, Put, MakeCollection,
            Mark, Rollback, Open, lockVars

\* Before its deadline a lock is ended by its token, by the LOCK that took it
\* and failed, or with its resource; and DELETE, MOVE and COPY never take a
\* lock away that their checks could have met, whoever holds it.
THEOREM LocksEndByRight == Spec => LocksEndOnlyByRight
<1> DEFINE Rightly(c, l) ==
             /\ Acts(c)
             /\ ByToken(task[c], l)
                \/ (WithResource(task[c], l) /\ (Mine(c, l) \/ l.token \notin task[c].seen))
<1>1. ASSUME ServerInv, Guarded, [Next]_vars, NEW l \in LS!InForce,
             l.token \notin {m.token : m \in LS!InForce'}, ~Expired(l, now')
      PROVE  \E c \in Conns : Rightly(c, l)
  <2>1. l \notin LS!AllLocks(nodes')
    BY <1>1 DEF LS!InForce, LS!Expired, Expired
  <2>2. nodes' # nodes
    BY <2>1 DEF LS!InForce
  <2>3. PICK c \in Conns : Step(c)
    BY <1>1, <2>2 DEF Next, Arrive, Drop, Tick, LS!Tick, vars, lockVars
  <2>4. task'[c] # task[c] /\ (ByToken(task[c], l) \/ WithResource(task[c], l))
    BY <1>1, <2>1, <2>3, StepEndsLock
  <2>5. task[c].pc = "moveLocks" => task[c].req.method = "MOVE"
    BY <1>1, <2>3, StepRuns DEF ServerInv, TasksSound, Sound, Reaches
  <2>6. WithResource(task[c], l) => MayEnd(task[c], l.path)
    BY <2>5 DEF WithResource, MayEnd
  <2>7. WithResource(task[c], l) /\ l.token \in task[c].seen => Mine(c, l)
    BY <1>1, <2>6 DEF Guarded, InOrder, Spared, Own, Mine, Presents, LS!InForce
  <2>8. Acts(c)
    BY <2>3, <2>4, StepRuns DEF Acts, Idle, Running
  <2> QED BY <2>4, <2>7, <2>8
<1>2. ServerInv /\ Guarded /\ [Next]_vars
        => [\A l \in LS!InForce :
              l.token \notin {m.token : m \in LS!InForce'} /\ ~Expired(l, now')
                => \E c \in Conns : Rightly(c, l)]_vars
  BY <1>1
<1>3. ServerInv /\ Guarded /\ [Next]_vars
        => [\A l \in LS!InForce :
              l.token \notin {m.token : m \in LS!InForce'} /\ ~Expired(l, now')
                => \E c \in Conns :
                     LET t == task[c]
                     IN  /\ Acts(c)
                         /\ \/ t.pc \in {"release", "refresh"} /\ l.token \in t.req.tokens
                            \/ t.pc = "undo" /\ l.token = t.token
                            \/ /\ \/ t.pc \in {"deleteLocks", "moveLocks"} /\ Above(t.req.path, l.path)
                                  \/ t.pc = "clearLocks" /\ Above(t.req.dest, l.path)
                               /\ Mine(c, l) \/ l.token \notin t.seen]_vars
  BY <1>2 DEF ByToken, WithResource
<1> QED BY <1>3, ServerInvariant, RequestsStayGuarded, PTL DEF Spec, LocksEndOnlyByRight
=============================================================================
