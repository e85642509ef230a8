----------------------------- MODULE AsyncStream -----------------------------
(* async_stream.rs: a future that produces the items of a stream. The      *)
(* future and the stream share one slot. A send() fills the slot and gives *)
(* up the poll; poll_next() polls the future and then looks in the slot.   *)
(* A poll runs to its end on one thread, but a stream's future may poll    *)
(* another stream, so a poll is a sequence of steps here.                  *)
EXTENDS Naturals, Sequences, SequencesExt

CONSTANT Streams \* the streams of one answer

Body == "body"  \* the body of the response, polled by the connection

ASSUME StreamsAssumption == Body \in Streams

VARIABLE stream \* the streams, see Fresh

\* slot holds one item or none; fut is where the future stands: it "runs"
\* inside a poll, is suspended in a send() ("sends") or on something else
\* ("awaits", and "woken" when that has come about), or has returned ("ok",
\* "failed"). answer is what the last poll gave, "idle" once the poller has
\* made use of it. sent and got are what went in and what came out so far.
Fresh == [fut |-> "woken", slot |-> <<>>, answer |-> "idle", sent |-> <<>>, got |-> <<>>,
          waited |-> FALSE, polledAgain |-> FALSE]

Returned(r) == r.fut \in {"ok", "failed"}

\* A plausible mistake: the slot is looked at before the future is polled.
AnsweredBeforePoll(r) ==
    IF Returned(r) THEN [r EXCEPT !.answer = IF r.fut = "ok" THEN "none" ELSE "error"]
    ELSE [r EXCEPT !.answer = "pending"]

\* The outcomes of a poll of the future, as poll_next() tells them.
Answered(r) ==
    IF Returned(r) THEN [r EXCEPT !.answer = IF r.fut = "ok" THEN "none" ELSE "error"]
    ELSE IF r.slot = <<>> THEN [r EXCEPT !.answer = "pending"]
    ELSE [r EXCEPT !.answer = "item", !.slot = <<>>, !.got = Append(@, r.slot[1])]

\* A plausible mistake: it is ready at once.
SendItemReady(r, item) ==
    [r EXCEPT !.slot = <<item>>, !.sent = Append(@, item), !.waited = FALSE]

\* A SenderFuture is pending when first polled, and ready after that.
SendItem(r, item) ==
    [r EXCEPT !.slot = <<item>>, !.sent = Append(@, item), !.fut = "sends", !.waited = FALSE]

\* The steps of a future that is being polled, in the stream of that name.
Step(s, r) == stream' = [stream EXCEPT ![s] = IF r.fut = "runs" THEN r ELSE Answered(r)]

Runs(s) == stream[s].fut = "runs"
Send(s, item) == Runs(s) /\ Step(s, SendItem(stream[s], item))

\* One call of the file system for each item is enough.
Await(s) == Runs(s) /\ ~stream[s].waited
            /\ Step(s, [stream[s] EXCEPT !.fut = "awaits", !.waited = TRUE])

Return(s, result) == Runs(s) /\ Step(s, [stream[s] EXCEPT !.fut = result])

\* poll_next() is called. To poll a future that has returned is a panic.
Polled(r) ==
    IF Returned(r) THEN [r EXCEPT !.polledAgain = TRUE] ELSE [r EXCEPT !.fut = "runs"]

\* The poller wants the next item. It polls again when it has used the last
\* answer, or when it has been woken.
Poll(s) ==
    /\ ~Runs(s)
    /\ \/ stream[s].answer = "idle"
       \/ stream[s].answer = "pending" /\ stream[s].fut = "woken"
    /\ stream' = [stream EXCEPT ![s] = Polled(@)]

\* What the poller waits for is there: an answer that is not "pending".
Has(s, answer) == ~Runs(s) /\ stream[s].answer = answer
Item(s) == Last(stream[s].got)
Taken(s) == [stream EXCEPT ![s].answer = "idle"]
TakeChunk == Has(Body, "item") /\ stream' = Taken(Body)

\* The task is woken. All the streams of an answer are polled by one task.
Wake ==
    /\ \E s \in Streams : stream[s].fut = "awaits"
    /\ \A s \in Streams : ~Runs(s)
    /\ stream' = [s \in Streams |->
         IF stream[s].fut = "awaits" THEN [stream[s] EXCEPT !.fut = "woken"] ELSE stream[s]]

-----------------------------------------------------------------------------

\* A stream yields what its future sends, in order: no item replaces another
\* in the slot before it was taken, and none is given twice. It is not polled
\* once it has ended.
InOrder(r) ==
    /\ ~r.polledAgain
    /\ r.sent = r.got \o r.slot
=============================================================================
