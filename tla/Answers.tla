------------------------------- MODULE Answers -------------------------------
(* Every answer that is a stream: a GET or HEAD, a PROPFIND, or the        *)
(* multistatus of a DELETE, COPY or MOVE, one in each behaviour.           *)
EXTENDS GetHead, MultiError, PropFind

vars == <<stream, get, file, multi, find, tree>>
getVars == <<get, file>>
findVars == <<find, tree>>

IdleGet == get = [pc |-> "idle", len |-> Unset, status |-> 0]
IdleFind == find = [pc |-> "idle", status |-> 0]

Init ==
    /\ stream = [s \in Streams |-> Fresh]
    /\ \/ GetInit("look") /\ MultiInit("idle") /\ IdleFind /\ tree = {}
       \/ IdleGet /\ file = {} /\ MultiInit("first") /\ IdleFind /\ tree = {}
       \/ IdleGet /\ file = {} /\ MultiInit("idle") /\ FindInit("start")

Gets == get.pc # "idle"
Reporting == multi.pc # "idle"
Finds == find.pc # "idle"

\* The connection sends a chunk.
Take == TakeChunk /\ UNCHANGED <<getVars, multi, findVars>>

\* The response is over.
Over ==
    \/ stream[Body].answer \in {"none", "error"}
    \/ get.pc = "done" \/ multi.pc = "done" \/ find.pc = "done"

Steps ==
    \/ Gets /\ GetNext /\ UNCHANGED <<multi, findVars>>
    \/ Reporting /\ MultiNext /\ UNCHANGED <<getVars, findVars>>
    \/ Finds /\ FindNext /\ UNCHANGED <<getVars, multi>>
    \/ Wake /\ UNCHANGED <<getVars, multi, findVars>>
    \/ Take

Others ==
    \/ Gets /\ OthersWrite /\ UNCHANGED <<multi, findVars>>
    \/ Finds /\ OthersMove /\ UNCHANGED <<getVars, multi>>

Next == Steps \/ Others

\* A woken task is polled, a poll runs to its end, and the file system answers.
Spec == Init /\ [][Next]_vars /\ WF_vars(Steps)

-----------------------------------------------------------------------------

\* What goes into a stream comes out of it, in order and once.
DeliversInOrder == \A s \in Streams : InOrder(stream[s])

\* Every response ends, whatever others do to the files meanwhile. A poller
\* that is told "pending" without being woken later would wait for ever.
AnswerEnds == <>Over
=============================================================================
