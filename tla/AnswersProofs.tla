---------------------------- MODULE AnswersProofs ----------------------------
(***************************************************************************)
(* Streamed answers, for any streams, reports, trees, files and requests:  *)
(* a stream delivers what is sent into it, a multistatus tells every       *)
(* status its handler reported, a PROPFIND lists what is there, once,      *)
(* while others change the tree, and the body of a GET is what its headers *)
(* promise, while others change the file.  Each rests on an invariant of   *)
(* its own: AllFlow for all streams, Telling for the two of a multistatus, *)
(* Walking for the walk of a PROPFIND, Getting for the body of a GET.      *)
(***************************************************************************)
EXTENDS Answers, SequenceTheorems, FiniteSetTheorems, TLAPS

StreamFields == {"fut", "slot", "answer", "sent", "got", "waited", "polledAgain"}

\* Between two steps a slot is empty: a future that has sent is suspended, and
\* the poll that polled it has taken the item. No item waits at the end.
Flows(r) ==
    /\ DOMAIN r = StreamFields
    /\ r.fut \in {"runs", "sends", "awaits", "woken", "ok", "failed"}
    /\ r.answer \in {"idle", "pending", "item", "none", "error"}
    /\ r.sent \in Seq(ToSet(r.sent))
    /\ r.got = r.sent /\ r.slot = <<>> /\ ~r.polledAgain
    /\ r.fut = "ok" <=> r.answer = "none"
    /\ r.fut = "failed" <=> r.answer = "error"
    /\ r.answer = "item" => r.fut = "sends" /\ r.sent # <<>>

AllFlow == DOMAIN stream = Streams /\ \A s \in Streams : Flows(stream[s])

-----------------------------------------------------------------------------
(* The steps of a stream.                                                  *)

LEMMA AppendIsSeq ==
    ASSUME NEW s, s \in Seq(ToSet(s)), NEW x
    PROVE  /\ Append(s, x) \in Seq(ToSet(Append(s, x)))
           /\ Append(s, x) # <<>> /\ Len(Append(s, x)) = Len(s) + 1
           /\ Append(s, x)[Len(s) + 1] = x /\ Last(Append(s, x)) = x
           /\ \A i \in 1..Len(s) : Append(s, x)[i] = s[i]
<1> DEFINE a == Append(s, x)
           S == ToSet(s) \cup {x}
<1>1. s \in Seq(S)
  BY SeqMonotonic
<1>2. /\ Len(s) \in Nat /\ a \in Seq(S) /\ Len(a) = Len(s) + 1 /\ DOMAIN a = 1..Len(s) + 1
      /\ a[Len(s) + 1] = x /\ \A i \in 1..Len(s) : a[i] = s[i]
  BY <1>1
<1>3. \A i \in 1..Len(a) : a[i] \in ToSet(a)
  BY <1>2 DEF ToSet
<1>4. a \in Seq(ToSet(a))
  BY <1>2, <1>3
<1> QED BY <1>2, <1>4 DEF Last

LEMMA SendFlows ==
    ASSUME NEW r, Flows(r), r.fut = "runs", NEW item
    PROVE  /\ Flows(Answered(SendItem(r, item)))
           /\ Answered(SendItem(r, item)).sent = Append(r.sent, item)
           /\ Answered(SendItem(r, item)).answer = "item"
<1> DEFINE q == SendItem(r, item)
           p == [q EXCEPT !.answer = "item", !.slot = <<>>, !.got = Append(@, q.slot[1])]
<1>1. /\ DOMAIN q = StreamFields /\ q.fut = "sends" /\ q.slot = <<item>> /\ q.sent = Append(r.sent, item)
      /\ q.got = r.got /\ q.polledAgain = r.polledAgain
  BY DEF Flows, SendItem, StreamFields
<1>2. Answered(q) = p
  BY <1>1 DEF Answered, Returned
<1>3. /\ DOMAIN p = StreamFields /\ p.fut = "sends" /\ p.answer = "item" /\ p.slot = <<>> /\ p.sent = Append(r.sent, item)
      /\ p.got = Append(r.got, q.slot[1]) /\ p.polledAgain = r.polledAgain
  BY <1>1 DEF StreamFields
<1>4. q.slot[1] = item
  BY <1>1
<1> HIDE DEF p, q
<1>5. Flows(p)
  BY <1>3, <1>4, AppendIsSeq DEF Flows
<1> QED BY <1>2, <1>3, <1>5 DEF q

LEMMA AwaitFlows ==
    ASSUME NEW r, Flows(r), r.fut = "runs"
    PROVE  LET q == Answered([r EXCEPT !.fut = "awaits", !.waited = TRUE])
           IN  Flows(q) /\ q.sent = r.sent /\ q.answer = "pending" /\ q.fut = "awaits"
  BY DEF Answered, Returned, Flows, StreamFields

LEMMA ReturnFlows ==
    ASSUME NEW r, Flows(r), r.fut = "runs", NEW result \in {"ok", "failed"}
    PROVE  LET q == Answered([r EXCEPT !.fut = result])
           IN  Flows(q) /\ q.sent = r.sent /\ q.fut = result
  BY DEF Answered, Returned, Flows, StreamFields

LEMMA PolledFlows ==
    ASSUME NEW r, Flows(r), r.answer \in {"idle", "pending"}
    PROVE  Flows(Polled(r)) /\ Polled(r).sent = r.sent /\ Polled(r).answer = r.answer /\ Polled(r).fut = "runs"
  BY DEF Polled, Returned, Flows, StreamFields

LEMMA IdleFlows ==
    ASSUME NEW r, Flows(r), r.answer = "item"
    PROVE  LET q == [r EXCEPT !.answer = "idle"]
           IN  Flows(q) /\ q.sent = r.sent /\ q.answer = "idle" /\ q.fut = r.fut
  BY DEF Flows, StreamFields

LEMMA WokenFlows ==
    ASSUME NEW r, Flows(r), r.fut = "awaits"
    PROVE  LET q == [r EXCEPT !.fut = "woken"]
           IN  Flows(q) /\ q.sent = r.sent /\ q.answer = r.answer /\ q.fut = "woken"
  BY DEF Flows, StreamFields

LEMMA FreshFlows == Flows(Fresh)
  BY DEF Fresh, Flows, StreamFields, ToSet

\* Nothing happens in any stream but this one.
Other(s) == \A t \in Streams \ {s} : stream'[t] = stream[t]

LEMMA ChangeFlows ==
    ASSUME AllFlow, NEW s \in Streams, NEW q, Flows(q), stream' = [stream EXCEPT ![s] = q]
    PROVE  AllFlow' /\ stream'[s] = q /\ Other(s)
  BY DEF AllFlow, Other

LEMMA SendStep ==
    ASSUME AllFlow, NEW s \in Streams, NEW item, Send(s, item)
    PROVE  /\ AllFlow' /\ Other(s) /\ stream[s].fut = "runs"
           /\ stream'[s].sent = Append(stream[s].sent, item)
           /\ stream'[s].answer = "item"
<1> DEFINE q == Answered(SendItem(stream[s], item))
<1>1. Flows(stream[s]) /\ stream[s].fut = "runs"
  BY DEF AllFlow, Send, Runs
<1>2. Flows(q) /\ q.sent = Append(stream[s].sent, item) /\ q.answer = "item"
  BY <1>1, SendFlows
<1>3. SendItem(stream[s], item).fut = "sends"
  BY <1>1 DEF Flows, StreamFields, SendItem
<1>4. stream' = [stream EXCEPT ![s] = q]
  BY <1>3 DEF Send, Step
<1> HIDE DEF q
<1> QED BY <1>1, <1>2, <1>4, ChangeFlows

LEMMA AwaitStep ==
    ASSUME AllFlow, NEW s \in Streams, Await(s)
    PROVE  /\ AllFlow' /\ Other(s) /\ stream[s].fut = "runs"
           /\ stream'[s].sent = stream[s].sent
           /\ stream'[s].answer = "pending" /\ stream'[s].fut = "awaits"
<1> DEFINE p == [stream[s] EXCEPT !.fut = "awaits", !.waited = TRUE]
           q == Answered(p)
<1>1. Flows(stream[s]) /\ stream[s].fut = "runs"
  BY DEF AllFlow, Await, Runs
<1>2. Flows(q) /\ q.sent = stream[s].sent /\ q.answer = "pending" /\ q.fut = "awaits"
  BY <1>1, AwaitFlows
<1>3. p.fut = "awaits"
  BY <1>1 DEF Flows, StreamFields
<1>4. stream' = [stream EXCEPT ![s] = q]
  BY <1>3 DEF Await, Step
<1> HIDE DEF q
<1> QED BY <1>1, <1>2, <1>4, ChangeFlows

LEMMA ReturnStep ==
    ASSUME AllFlow, NEW s \in Streams, NEW result \in {"ok", "failed"}, Return(s, result)
    PROVE  /\ AllFlow' /\ Other(s) /\ stream[s].fut = "runs"
           /\ stream'[s].sent = stream[s].sent /\ stream'[s].fut = result
<1> DEFINE p == [stream[s] EXCEPT !.fut = result]
           q == Answered(p)
<1>1. Flows(stream[s]) /\ stream[s].fut = "runs"
  BY DEF AllFlow, Return, Runs
<1>2. Flows(q) /\ q.sent = stream[s].sent /\ q.fut = result
  BY <1>1, ReturnFlows
<1>3. p.fut # "runs"
  BY <1>1 DEF Flows, StreamFields
<1>4. stream' = [stream EXCEPT ![s] = q]
  BY <1>3 DEF Return, Step
<1> HIDE DEF q
<1> QED BY <1>1, <1>2, <1>4, ChangeFlows

LEMMA PollStep ==
    ASSUME AllFlow, NEW s \in Streams, Poll(s)
    PROVE  /\ AllFlow' /\ Other(s)
           /\ stream[s].answer \in {"idle", "pending"}
           /\ stream'[s].sent = stream[s].sent /\ stream'[s].answer = stream[s].answer
           /\ stream'[s].fut = "runs"
<1> DEFINE q == Polled(stream[s])
<1>1. Flows(stream[s]) /\ stream[s].answer \in {"idle", "pending"}
  BY DEF AllFlow, Poll
<1>2. Flows(q) /\ q.sent = stream[s].sent /\ q.answer = stream[s].answer /\ q.fut = "runs"
  BY <1>1, PolledFlows
<1>3. stream' = [stream EXCEPT ![s] = q]
  BY DEF Poll
<1> HIDE DEF q
<1> QED BY <1>1, <1>2, <1>3, ChangeFlows

LEMMA TakeStep ==
    ASSUME AllFlow, NEW s \in Streams, Has(s, "item"), stream' = Taken(s)
    PROVE  /\ AllFlow' /\ Other(s)
           /\ stream[s].answer = "item"
           /\ stream'[s].sent = stream[s].sent /\ stream'[s].answer = "idle"
           /\ stream'[s].fut = stream[s].fut
<1> DEFINE q == [stream[s] EXCEPT !.answer = "idle"]
<1>1. Flows(stream[s]) /\ stream[s].answer = "item"
  BY DEF AllFlow, Has
<1>2. Flows(q) /\ q.sent = stream[s].sent /\ q.answer = "idle" /\ q.fut = stream[s].fut
  BY <1>1, IdleFlows
<1>3. stream' = [stream EXCEPT ![s] = q]
  BY DEF Taken
<1> HIDE DEF q
<1> QED BY <1>1, <1>2, <1>3, ChangeFlows

LEMMA WakeStep ==
    ASSUME AllFlow, Wake
    PROVE  /\ AllFlow'
           /\ \A s \in Streams :
                 /\ stream'[s].sent = stream[s].sent /\ stream'[s].answer = stream[s].answer
                 /\ stream'[s].fut = IF stream[s].fut = "awaits" THEN "woken" ELSE stream[s].fut
<1>1. ASSUME NEW s \in Streams
      PROVE  /\ Flows(stream'[s])
             /\ stream'[s].sent = stream[s].sent /\ stream'[s].answer = stream[s].answer
             /\ stream'[s].fut = IF stream[s].fut = "awaits" THEN "woken" ELSE stream[s].fut
  <2>1. Flows(stream[s])
    BY DEF AllFlow
  <2>2. stream'[s] = IF stream[s].fut = "awaits" THEN [stream[s] EXCEPT !.fut = "woken"] ELSE stream[s]
    BY DEF Wake
  <2> QED BY <2>1, <2>2, WokenFlows
<1>2. DOMAIN stream' = Streams
  BY DEF Wake
<1> QED BY <1>1, <1>2 DEF AllFlow

\* The body takes a status of the handler and sends the response for it.
LEMMA WriteNextStep ==
    ASSUME AllFlow, WriteNext
    PROVE  /\ AllFlow' /\ multi' = multi
           /\ stream[Reports].answer = "item" /\ stream[Body].fut = "runs"
           /\ stream'[Reports].sent = stream[Reports].sent /\ stream'[Reports].answer = "idle"
           /\ stream'[Reports].fut = stream[Reports].fut
           /\ stream'[Body].sent = Append(stream[Body].sent, Response(Item(Reports)))
           /\ stream'[Body].answer = "item"
<1> DEFINE q == Answered(SendItem(stream[Body], Response(Item(Reports))))
           p == [stream[Reports] EXCEPT !.answer = "idle"]
<1>1. Body \in Streams /\ Reports \in Streams /\ Body # Reports
  BY StreamsAssumption, MultiAssumption DEF Body, Reports
<1>2. /\ Flows(stream[Body]) /\ stream[Body].fut = "runs"
      /\ Flows(stream[Reports]) /\ stream[Reports].answer = "item"
  BY <1>1 DEF AllFlow, WriteNext, Runs, Has
<1>3. /\ Flows(q) /\ q.sent = Append(stream[Body].sent, Response(Item(Reports))) /\ q.answer = "item"
      /\ Flows(p) /\ p.sent = stream[Reports].sent /\ p.answer = "idle" /\ p.fut = stream[Reports].fut
  BY <1>2, SendFlows, IdleFlows
<1>4. stream' = [stream EXCEPT ![Body] = q, ![Reports] = p]
  BY <1>1, <1>2 DEF WriteNext, AllFlow
<1> HIDE DEF p, q
<1>5. AllFlow' /\ stream'[Body] = q /\ stream'[Reports] = p
  BY <1>1, <1>3, <1>4 DEF AllFlow
<1> QED BY <1>2, <1>3, <1>5 DEF WriteNext

-----------------------------------------------------------------------------
(* A multistatus: from the handler's stream to the body's.                 *)

Report == [path : Paths, status : Statuses]
MultiFields == {"pc", "items", "response"}

\* How many statuses were taken from the handler, and how many responses the
\* body has, between its opening and its closing tag.
One(condition) == IF condition THEN 1 ELSE 0
Consumed(reports) == Len(reports.sent) - One(reports.answer = "item")
Ended(body) == body.sent # <<>> /\ Last(body.sent) = Finish
Written(body) == Len(body.sent) - One(body.sent # <<>>) - One(Ended(body))

\* A body before its first poll.
Untouched(body) == body.sent = <<>> /\ body.answer = "idle" /\ body.fut = "woken"

\* Every status taken is written or kept, in order; a handler that failed is not
\* taken for one that ended; and a single status is the one of the request.
Tells(m, reports, body) ==
    /\ DOMAIN m = MultiFields
    /\ m.pc \in {"first", "second", "body", "done"}
    /\ m.items \in Seq(Report) /\ reports.sent \in Seq(Report)
    /\ m.pc \in {"first", "second"} => m.response = Undecided
    /\ m.pc \in {"first", "second", "done"} => Untouched(body)
    /\ m.pc = "first" => m.items = <<>> /\ Consumed(reports) = 0
    /\ m.pc = "second" => /\ Consumed(reports) = 1 /\ m.items = <<reports.sent[1]>>
                          /\ reports.sent[1].path = ReqPath
    /\ m.pc = "body" =>
        /\ m.response \in {Undecided, Multistatus}
        /\ body.sent # <<>> => body.sent[1] = Start
        /\ Written(body) + Len(m.items) = Consumed(reports)
        /\ \A i \in 1..Written(body) : body.sent[i + 1] = Response(reports.sent[i])
        /\ \A i \in 1..Len(m.items) : m.items[i] = reports.sent[Written(body) + i]
        /\ Ended(body) => m.items = <<>> /\ reports.answer = "none"
        /\ body.fut = "ok" => Ended(body)
        /\ body.fut = "failed" => /\ body.sent # <<>> /\ ~Ended(body)
                                  /\ m.items = <<>> /\ reports.answer = "error"
    /\ m.pc = "done" =>
        \/ /\ m.response = "error"
           /\ reports.fut = "failed" \/ (reports.fut = "ok" /\ reports.sent = <<>>)
        \/ /\ Len(reports.sent) = 1 /\ reports.sent[1].path = ReqPath
           /\ reports.sent[1].status = m.response /\ reports.fut = "ok"

Telling ==
    multi.pc # "idle" => /\ get.pc = "idle" /\ find.pc = "idle"
                         /\ Tells(multi, stream[Reports], stream[Body])

-----------------------------------------------------------------------------
(* Every step of an answer keeps its streams in order.                     *)

LEMMA InitFlows == Init => AllFlow
<1> SUFFICES ASSUME Init PROVE AllFlow
  OBVIOUS
<1>1. stream = [s \in Streams |-> Fresh]
  BY DEF Init
<1> QED BY <1>1, FreshFlows DEF AllFlow

LEMMA GetFlows == AllFlow /\ GetNext => AllFlow'
<1> SUFFICES ASSUME AllFlow, GetNext PROVE AllFlow'
  OBVIOUS
<1> USE StreamsAssumption
<1>0. UNCHANGED stream => AllFlow'
  BY DEF AllFlow
<1>1. \A item : Send(Body, item) => AllFlow'
  BY SendStep
<1>2. \A result \in {"ok", "failed"} : Return(Body, result) => AllFlow'
  BY ReturnStep
<1>3. (Await(Body) => AllFlow') /\ (Poll(Body) => AllFlow')
  BY AwaitStep, PollStep
<1>4. CASE Look
  BY <1>0, <1>4 DEF Look, Ends
<1>5. CASE Open
  BY <1>0, <1>5 DEF Open, Ends
<1>6. CASE PollGet
  BY <1>3, <1>6 DEF PollGet
<1>7. CASE StartRange
  BY <1>0, <1>1, <1>7 DEF StartRange, PartHeader
<1>14. CASE SkipRange
  BY <1>0, <1>14 DEF SkipRange, Skipped
<1>8. CASE ReadChunk
  BY <1>1, <1>2, <1>3, <1>8 DEF ReadChunk
<1>9. CASE EndRange
  BY <1>0, <1>9 DEF EndRange
<1>10. CASE EndBody
  BY <1>1, <1>2, <1>10 DEF EndBody
<1>11. CASE IndexEntry
  BY <1>0, <1>11 DEF IndexEntry
<1>12. CASE IndexPage
  BY <1>1, <1>2, <1>12 DEF IndexPage
<1>13. CASE OthersWrite
  BY <1>0, <1>13 DEF OthersWrite
<1> QED BY <1>4, <1>5, <1>6, <1>7, <1>8, <1>9, <1>10, <1>11, <1>12, <1>13, <1>14 DEF GetNext

LEMMA MultiFlows == AllFlow /\ MultiNext => AllFlow'
<1> SUFFICES ASSUME AllFlow, MultiNext PROVE AllFlow'
  OBVIOUS
<1> USE StreamsAssumption, MultiAssumption
<1>0. UNCHANGED stream => AllFlow'
  BY DEF AllFlow
<1>1. \A s \in Streams : \A item : Send(s, item) => AllFlow'
  BY SendStep
<1>2. \A s \in Streams : \A result \in {"ok", "failed"} : Return(s, result) => AllFlow'
  BY ReturnStep
<1>3. \A s \in Streams : (Await(s) => AllFlow') /\ (Poll(s) => AllFlow')
  BY AwaitStep, PollStep
<1>4. CASE AddStatus
  BY <1>1, <1>4 DEF AddStatus
<1>5. CASE HandlerAwaits
  BY <1>3, <1>5 DEF HandlerAwaits
<1>6. CASE HandlerEnds
  BY <1>2, <1>6 DEF HandlerEnds
<1>7. CASE PollReports
  BY <1>3, <1>7 DEF PollReports
<1>8. CASE Fails \/ OnlyStatus
  BY <1>0, <1>8 DEF Fails, OnlyStatus
<1>9. CASE FirstStatus \/ SecondStatus
  BY TakeStep, <1>9 DEF FirstStatus, SecondStatus
<1>10. CASE PollBody
  BY <1>3, <1>10 DEF PollBody
<1>11. CASE WriteHeader \/ WriteItem
  BY <1>1, <1>11 DEF WriteHeader, WriteItem
<1>12. CASE WriteNext
  BY WriteNextStep, <1>12
<1>13. CASE BodyAwaits
  BY <1>3, <1>13 DEF BodyAwaits
<1>14. CASE BodyFails \/ BodyEnds
  BY <1>1, <1>2, <1>14 DEF BodyFails, BodyEnds
<1> QED
  BY <1>4, <1>5, <1>6, <1>7, <1>8, <1>9, <1>10, <1>11, <1>12, <1>13, <1>14 DEF MultiNext

LEMMA FindFlows == AllFlow /\ FindNext => AllFlow'
<1> SUFFICES ASSUME AllFlow, FindNext PROVE AllFlow'
  OBVIOUS
<1> USE StreamsAssumption
<1>0. UNCHANGED stream => AllFlow'
  BY DEF AllFlow
<1>1. CASE PollFind
  BY PollStep, <1>1 DEF PollFind
<1>2. CASE FindAwaits
  BY AwaitStep, <1>2 DEF FindAwaits
<1>3. CASE WriteProps
  BY SendStep, <1>3 DEF WriteProps
<1>4. CASE EndFind
  BY SendStep, ReturnStep, <1>4 DEF EndFind
<1>5. CASE Accept \/ ReadDirectory \/ SkipEntry \/ NextEntry \/ EndDirectory \/ OthersMove
  BY <1>0, <1>5 DEF Accept, ReadDirectory, SkipEntry, NextEntry, EndDirectory, OthersMove
<1> QED BY <1>1, <1>2, <1>3, <1>4, <1>5 DEF FindNext

LEMMA NextFlows == AllFlow /\ [Next]_vars => AllFlow'
<1> SUFFICES ASSUME AllFlow, [Next]_vars PROVE AllFlow'
  OBVIOUS
<1>1. CASE UNCHANGED vars
  BY <1>1 DEF vars, AllFlow
<1>2. CASE Wake
  BY WakeStep, <1>2
<1>3. CASE Take
  BY TakeStep, StreamsAssumption, <1>3 DEF Take, TakeChunk
<1>4. CASE GetNext \/ MultiNext \/ FindNext
  BY <1>4, GetFlows, MultiFlows, FindFlows
<1>5. CASE Others
  BY <1>4, <1>5 DEF Others, GetNext, FindNext
<1> QED BY <1>1, <1>2, <1>3, <1>4, <1>5 DEF Next, Steps

\* What a future sends into an AsyncStream is what the polls of the stream give,
\* each item once and in order, and none is lost at the end, with streams that
\* poll each other: the slot shared by sender and stream holds one item at most,
\* as a send gives up the poll until it is taken (async_stream.rs).
THEOREM Delivery == Spec => []DeliversInOrder
<1>1. AllFlow => DeliversInOrder
  <2> SUFFICES ASSUME AllFlow, NEW s \in Streams PROVE InOrder(stream[s])
    BY DEF DeliversInOrder
  <2>1. Flows(stream[s])
    BY DEF AllFlow
  <2> QED BY <2>1, ConcatEmptySeq DEF Flows, InOrder
<1> QED BY InitFlows, NextFlows, <1>1, PTL DEF Spec

-----------------------------------------------------------------------------
(* The steps of a multistatus.                                             *)

LEMMA AppendTo ==
    ASSUME NEW S, NEW s \in Seq(S), NEW x
    PROVE  /\ Len(Append(s, x)) = Len(s) + 1 /\ Append(s, x) # <<>>
           /\ Append(s, x)[Len(s) + 1] = x /\ Last(Append(s, x)) = x
           /\ \A i \in 1..Len(s) : Append(s, x)[i] = s[i]
           /\ x \in S => Append(s, x) \in Seq(S)
<1>1. s \in Seq(S \cup {x})
  BY SeqMonotonic
<1> QED BY <1>1 DEF Last

LEMMA Counts ==
    ASSUME NEW r, Flows(r)
    PROVE  /\ Len(r.sent) \in Nat /\ DOMAIN r.sent = 1..Len(r.sent)
           /\ r.answer = "item" => Consumed(r) = Len(r.sent) - 1
           /\ r.answer # "item" => Consumed(r) = Len(r.sent)
           /\ r.sent = <<>> => Written(r) = 0
           /\ r.sent # <<>> /\ ~Ended(r) => Written(r) = Len(r.sent) - 1
           /\ Ended(r) => Written(r) = Len(r.sent) - 2
           /\ Written(r) \in Int
<1>1. Len(r.sent) \in Nat /\ DOMAIN r.sent = 1..Len(r.sent)
  BY DEF Flows
<1>2. One(TRUE) = 1 /\ One(FALSE) = 0
  BY DEF One
<1>3. (r.answer = "item") \in BOOLEAN /\ (r.sent # <<>>) \in BOOLEAN /\ Ended(r) \in BOOLEAN
  BY DEF Ended
<1>4. r.sent = <<>> => Len(r.sent) = 0 /\ ~Ended(r)
  BY DEF Ended
<1>5. /\ r.answer = "item" => One(r.answer = "item") = 1
      /\ r.answer # "item" => One(r.answer = "item") = 0
      /\ r.sent # <<>> => One(r.sent # <<>>) = 1
      /\ r.sent = <<>> => One(r.sent # <<>>) = 0
      /\ Ended(r) => One(Ended(r)) = 1
      /\ ~Ended(r) => One(Ended(r)) = 0
  BY <1>3 DEF One
<1>6. Ended(r) => r.sent # <<>>
  BY DEF Ended
<1> QED BY <1>1, <1>4, <1>5, <1>6 DEF Consumed, Written

\* The handler goes on while nothing it sent waits to be taken.
LEMMA HandlerTells ==
    ASSUME NEW m, NEW b, NEW r, NEW r1, Tells(m, r, b), Flows(b), Flows(r), Flows(r1),
           \/ r1.sent = r.sent /\ (r1.answer = r.answer \/ (r.answer \in {"idle", "pending"} /\ r1.answer # "item"))
           \/ /\ r.answer \in {"idle", "pending"} /\ r1.answer = "item"
              /\ \E x \in Report : r1.sent = Append(r.sent, x)
    PROVE  Tells(m, r1, b)
<1>0. r.sent \in Seq(Report) /\ Len(r.sent) \in Nat /\ Written(b) \in Int
  BY Counts DEF Tells
<1>1. CASE r1.sent = r.sent /\ (r1.answer = r.answer \/ (r.answer \in {"idle", "pending"} /\ r1.answer # "item"))
  <2>1. Consumed(r1) = Consumed(r)
    BY <1>1, Counts
  <2> QED BY <1>1, <2>1 DEF Tells, Flows
<1>2. ASSUME NEW x \in Report, r1.sent = Append(r.sent, x), r.answer \in {"idle", "pending"}, r1.answer = "item"
      PROVE  Tells(m, r1, b)
  <2>1. Consumed(r1) = Len(r.sent) /\ Consumed(r) = Len(r.sent)
    BY <1>0, <1>2, AppendTo, Counts
  <2>2. r1.sent \in Seq(Report) /\ \A i \in 1..Len(r.sent) : r1.sent[i] = r.sent[i]
    BY <1>0, <1>2, AppendTo
  <2>3. CASE m.pc \in {"first", "second", "done"}
    BY <1>0, <1>2, <2>1, <2>2, <2>3 DEF Tells, Flows
  <2>4. CASE m.pc = "body"
    <3>1. m.items \in Seq(Report) /\ Len(m.items) \in Nat /\ Written(b) + Len(m.items) = Len(r.sent)
      BY <2>1, <2>4 DEF Tells
    <3>2. ~Ended(b)
      BY <1>2, <2>4 DEF Tells
    <3>3. \A i \in 1..Written(b) : b.sent[i + 1] = Response(r1.sent[i])
      <4> SUFFICES ASSUME NEW i \in 1..Written(b) PROVE b.sent[i + 1] = Response(r1.sent[i])
        OBVIOUS
      <4>1. i \in 1..Len(r.sent)
        BY <1>0, <3>1
      <4> QED BY <2>2, <2>4, <4>1 DEF Tells
    <3>4. \A i \in 1..Len(m.items) : m.items[i] = r1.sent[Written(b) + i]
      <4> SUFFICES ASSUME NEW i \in 1..Len(m.items) PROVE m.items[i] = r1.sent[Written(b) + i]
        OBVIOUS
      <4>1. Written(b) + i <= Len(r.sent)
        BY <1>0, <3>1
      <4>2. Written(b) + i >= 1
        <5>1. Written(b) >= 0
          <6>1. b.sent # <<>> => b.sent[1] = Start
            BY <2>4 DEF Tells
          <6> QED BY <3>2, Counts DEF Flows
        <5> QED BY <1>0, <5>1
      <4>3. Written(b) + i \in 1..Len(r.sent)
        BY <1>0, <4>1, <4>2
      <4> QED BY <2>2, <2>4, <4>3 DEF Tells
    <3> QED BY <1>2, <2>1, <2>2, <2>4, <3>1, <3>2, <3>3, <3>4 DEF Tells, Flows
  <2> QED BY <2>3, <2>4 DEF Tells
<1> QED BY <1>1, <1>2

LEMMA ResponseIsNotFinish ==
    ASSUME NEW x \in Report
    PROVE  Response(x) # Finish
<1>1. Response(x).status \in Statuses \cup {"200"}
  BY DEF Response, Report
<1>2. Finish.status \notin Statuses \cup {"200"}
  BY MultiAssumption DEF Finish
<1> QED BY <1>1, <1>2

\* multi_error() takes the first status, the second one, or ends.
LEMMA FirstTells ==
    ASSUME NEW m, NEW r, NEW r1, NEW b, NEW pc, Tells(m, r, b), Flows(r), Flows(r1), Flows(b),
           m.pc = "first", r.answer = "item", r1.sent = r.sent, r1.answer = "idle",
           pc = IF Last(r.got).path = ReqPath THEN "second" ELSE "body"
    PROVE  Tells([m EXCEPT !.items = <<Last(r.got)>>, !.pc = pc], r1, b)
<1> DEFINE m1 == [m EXCEPT !.items = <<Last(r.got)>>, !.pc = pc]
<1>1. /\ DOMAIN m1 = MultiFields /\ m1.items = <<Last(r.got)>> /\ m1.pc = pc /\ m1.response = m.response
  BY DEF Tells, MultiFields
<1>2. r.sent \in Seq(Report) /\ Len(r.sent) = 1 /\ Consumed(r1) = 1 /\ Written(b) = 0 /\ ~Ended(b)
  <2>1. Consumed(r) = Len(r.sent) - 1 /\ Len(r.sent) \in Nat /\ Consumed(r1) = Len(r.sent)
    BY Counts
  <2>2. r.sent \in Seq(Report) /\ Consumed(r) = 0 /\ b.sent = <<>>
    BY DEF Tells, Untouched
  <2> QED BY <2>1, <2>2, Counts DEF Ended
<1>3. Last(r.got) = r.sent[1] /\ r.sent[1] \in Report
  BY <1>2 DEF Flows, Last
<1>4. pc \in {"second", "body"} /\ (pc = "second" => r.sent[1].path = ReqPath)
  BY <1>3
<1> HIDE DEF m1
<1>5. m1.items \in Seq(Report) /\ Len(m1.items) = 1 /\ m1.items[1] = r1.sent[1]
  BY <1>1, <1>3
<1>6. Tells(m1, r1, b)
  BY <1>1, <1>2, <1>3, <1>4, <1>5 DEF Tells, Untouched
<1> QED BY <1>6 DEF m1

LEMMA SecondTells ==
    ASSUME NEW m, NEW r, NEW r1, NEW b, Tells(m, r, b), Flows(r), Flows(r1), Flows(b),
           m.pc = "second", r.answer = "item", r1.sent = r.sent, r1.answer = "idle"
    PROVE  Tells([m EXCEPT !.items = Append(@, Last(r.got)), !.pc = "body"], r1, b)
<1> DEFINE m1 == [m EXCEPT !.items = Append(@, Last(r.got)), !.pc = "body"]
<1>1. /\ DOMAIN m1 = MultiFields /\ m1.items = Append(m.items, Last(r.got)) /\ m1.pc = "body"
      /\ m1.response = m.response
  BY DEF Tells, MultiFields
<1>2. /\ r.sent \in Seq(Report) /\ Len(r.sent) = 2 /\ Consumed(r1) = 2 /\ Written(b) = 0 /\ ~Ended(b)
      /\ m.items = <<r.sent[1]>>
  <2>1. Consumed(r) = Len(r.sent) - 1 /\ Len(r.sent) \in Nat /\ Consumed(r1) = Len(r.sent)
    BY Counts
  <2>2. r.sent \in Seq(Report) /\ Consumed(r) = 1 /\ b.sent = <<>> /\ m.items = <<r.sent[1]>>
    BY DEF Tells, Untouched
  <2> QED BY <2>1, <2>2, Counts DEF Ended
<1>3. Last(r.got) = r.sent[2] /\ r.sent[1] \in Report /\ r.sent[2] \in Report
  BY <1>2 DEF Flows, Last
<1> HIDE DEF m1
<1>4. /\ m1.items \in Seq(Report) /\ Len(m1.items) = 2
      /\ m1.items[1] = r1.sent[1] /\ m1.items[2] = r1.sent[2]
  BY <1>1, <1>2, <1>3
<1>5. Tells(m1, r1, b)
  BY <1>1, <1>2, <1>4 DEF Tells, Untouched
<1> QED BY <1>5 DEF m1

LEMMA RespondsTells ==
    ASSUME NEW m, NEW r, NEW b, NEW response, Tells(m, r, b), Flows(r), m.pc \in {"first", "second"},
           \/ response = "error" /\ (r.answer = "error" \/ (m.pc = "first" /\ r.answer = "none"))
           \/ response = m.items[1].status /\ m.pc = "second" /\ r.answer = "none"
    PROVE  Tells([m EXCEPT !.pc = "done", !.response = response], r, b)
<1> DEFINE m1 == [m EXCEPT !.pc = "done", !.response = response]
<1>1. /\ DOMAIN m1 = MultiFields /\ m1.items = m.items /\ m1.pc = "done" /\ m1.response = response
  BY DEF Tells, MultiFields
<1>2. r.sent \in Seq(Report) /\ m.items \in Seq(Report) /\ Untouched(b)
  BY DEF Tells
<1> HIDE DEF m1
<1>3. ASSUME response = "error" /\ (r.answer = "error" \/ (m.pc = "first" /\ r.answer = "none"))
      PROVE  Tells(m1, r, b)
  <2>1. r.answer = "error" => r.fut = "failed"
    BY DEF Flows
  <2>2. m.pc = "first" /\ r.answer = "none" => r.fut = "ok" /\ r.sent = <<>>
    <3> SUFFICES ASSUME m.pc = "first", r.answer = "none" PROVE r.fut = "ok" /\ r.sent = <<>>
      OBVIOUS
    <3>1. Len(r.sent) = 0
      BY Counts DEF Tells
    <3> QED BY <1>2, <3>1, EmptySeq DEF Flows
  <2> QED BY <1>1, <1>2, <1>3, <2>1, <2>2 DEF Tells
<1>4. ASSUME response = m.items[1].status /\ m.pc = "second" /\ r.answer = "none"
      PROVE  Tells(m1, r, b)
  <2>1. Len(r.sent) = 1 /\ r.fut = "ok" /\ m.items = <<r.sent[1]>> /\ r.sent[1].path = ReqPath
    BY <1>4, Counts DEF Tells, Flows
  <2> QED BY <1>1, <1>2, <1>4, <2>1 DEF Tells
<1>5. Tells(m1, r, b)
  BY <1>3, <1>4
<1> QED BY <1>5 DEF m1

\* A poll of the body that sends nothing.
LEMMA BodyWaitsTells ==
    ASSUME NEW m, NEW m1, NEW r, NEW b, NEW b1, Tells(m, r, b), m.pc = "body",
           b1.sent = b.sent, b1.fut \notin {"ok", "failed"},
           m1 = m \/ m1 = [m EXCEPT !.response = Multistatus]
    PROVE  Tells(m1, r, b1)
<1>1. DOMAIN m1 = MultiFields /\ m1.pc = "body" /\ m1.items = m.items /\ m1.response \in {Undecided, Multistatus}
  BY DEF Tells, MultiFields
<1>2. Written(b1) = Written(b) /\ Ended(b1) = Ended(b)
  BY DEF Written, Ended
<1> QED BY <1>1, <1>2 DEF Tells

LEMMA HeaderTells ==
    ASSUME NEW m, NEW r, NEW b, NEW b1, Tells(m, r, b), Flows(b), Flows(b1), m.pc = "body",
           b.sent = <<>>, b1.sent = Append(b.sent, Start), b1.answer = "item"
    PROVE  Tells(m, r, b1)
<1>1. b1.sent = <<Start>> /\ Last(b1.sent) = Start
  BY DEF Last
<1>2. Start # Finish
  BY DEF Start, Finish
<1>3. Written(b) = 0 /\ Written(b1) = 0 /\ ~Ended(b) /\ ~Ended(b1)
  <2>1. ~Ended(b) /\ ~Ended(b1) /\ b1.sent # <<>> /\ Len(b1.sent) = 1
    BY <1>1, <1>2 DEF Ended
  <2>2. Written(b) = 0
    BY Counts
  <2>3. Written(b1) = Len(b1.sent) - 1
    BY <2>1, Counts
  <2> QED BY <2>1, <2>2, <2>3
<1>4. b1.fut = "sends"
  BY DEF Flows
<1> QED BY <1>1, <1>3, <1>4 DEF Tells

LEMMA ItemWritten ==
    ASSUME NEW b, NEW b1, NEW x \in Report, Flows(b), Flows(b1), b.sent # <<>>, ~Ended(b),
           b1.sent = Append(b.sent, Response(x))
    PROVE  /\ ~Ended(b1) /\ b1.sent # <<>> /\ b1.sent[1] = b.sent[1]
           /\ Written(b) \in Nat /\ Written(b1) = Written(b) + 1
           /\ b1.sent[Written(b1) + 1] = Response(x)
           /\ \A i \in 1..Written(b) : b1.sent[i + 1] = b.sent[i + 1]
<1>1. Len(b.sent) \in Nat /\ Written(b) = Len(b.sent) - 1 /\ b.sent \in Seq(ToSet(b.sent))
  BY Counts DEF Flows
<1>2. Len(b.sent) > 0
  BY <1>1, EmptySeq
<1>3. /\ Len(b1.sent) = Len(b.sent) + 1 /\ b1.sent # <<>> /\ b1.sent[Len(b.sent) + 1] = Response(x)
      /\ Last(b1.sent) = Response(x) /\ \A i \in 1..Len(b.sent) : b1.sent[i] = b.sent[i]
  BY <1>1, AppendIsSeq
<1>4. ~Ended(b1)
  BY <1>3, ResponseIsNotFinish DEF Ended
<1>5. Written(b1) = Len(b1.sent) - 1
  BY <1>3, <1>4, Counts
<1> QED BY <1>1, <1>2, <1>3, <1>4, <1>5

\* The body writes the next status, x: one of those taken before, or the one
\* the handler has reported last.
LEMMA ItemTells ==
    ASSUME NEW m, NEW m1, NEW r, NEW r1, NEW b, NEW b1, NEW x \in Report,
           Tells(m, r, b), Flows(r), Flows(r1), Flows(b), Flows(b1), m.pc = "body",
           b.sent # <<>>, b1.sent = Append(b.sent, Response(x)), b1.answer = "item", r1.sent = r.sent,
           ~Ended(b), x = r.sent[Written(b) + 1], Consumed(r1) = Written(b) + 1 + Len(m1.items),
           DOMAIN m1 = MultiFields, m1.pc = "body", m1.response = m.response, m1.items \in Seq(Report),
           \A i \in 1..Len(m1.items) : m1.items[i] = r.sent[Written(b) + 1 + i]
    PROVE  Tells(m1, r1, b1)
<1>1. /\ ~Ended(b1) /\ b1.sent # <<>> /\ b1.sent[1] = b.sent[1]
      /\ Written(b) \in Nat /\ Written(b1) = Written(b) + 1
      /\ b1.sent[Written(b1) + 1] = Response(x)
      /\ \A i \in 1..Written(b) : b1.sent[i + 1] = b.sent[i + 1]
  BY ONLY x \in Report, Flows(b), Flows(b1), b.sent # <<>>, ~Ended(b), b1.sent = Append(b.sent, Response(x)), ItemWritten
<1>2. b.sent[1] = Start /\ \A i \in 1..Written(b) : b.sent[i + 1] = Response(r.sent[i])
  BY DEF Tells
<1>3. \A i \in 1..Written(b1) : b1.sent[i + 1] = Response(r1.sent[i])
  <2> SUFFICES ASSUME NEW i \in 1..Written(b1) PROVE b1.sent[i + 1] = Response(r.sent[i])
    OBVIOUS
  <2>1. CASE i = Written(b) + 1
    BY <1>1, <2>1
  <2>2. CASE i \in 1..Written(b)
    BY <1>1, <1>2, <2>2
  <2>3. i = Written(b) + 1 \/ i \in 1..Written(b)
    BY <1>1
  <2> QED BY <2>1, <2>2, <2>3
<1>4. \A i \in 1..Len(m1.items) : m1.items[i] = r1.sent[Written(b1) + i]
  BY <1>1
<1>5. b1.fut = "sends"
  BY DEF Flows
<1>6. r1.sent \in Seq(Report) /\ m.response \in {Undecided, Multistatus}
  BY DEF Tells
<1>7. Written(b1) + Len(m1.items) = Consumed(r1)
  BY <1>1
<1> QED BY <1>1, <1>2, <1>3, <1>4, <1>5, <1>6, <1>7 DEF Tells

LEMMA TakenItemTells ==
    ASSUME NEW m, NEW r, NEW b, NEW b1, Tells(m, r, b), Flows(r), Flows(b), Flows(b1), m.pc = "body",
           m.items # <<>>, b.sent # <<>>, b1.sent = Append(b.sent, Response(Head(m.items))), b1.answer = "item"
    PROVE  Tells([m EXCEPT !.items = Tail(@)], r, b1)
<1> DEFINE m1 == [m EXCEPT !.items = Tail(@)]
<1>1. /\ ~Ended(b) /\ m.items \in Seq(Report) /\ Written(b) + Len(m.items) = Consumed(r)
      /\ \A i \in 1..Len(m.items) : m.items[i] = r.sent[Written(b) + i]
  BY DEF Tells
<1>2. /\ DOMAIN m1 = MultiFields /\ m1.pc = "body" /\ m1.response = m.response /\ m1.items = Tail(m.items)
  BY DEF Tells, MultiFields
<1> HIDE DEF m1
<1>3. Len(m.items) \in Nat /\ Len(m.items) >= 1
  BY <1>1, EmptySeq
<1>4. /\ Head(m.items) = m.items[1] /\ Head(m.items) \in Report
      /\ m1.items \in Seq(Report) /\ Len(m1.items) = Len(m.items) - 1
      /\ \A i \in 1..Len(m1.items) : m1.items[i] = m.items[i + 1]
  BY <1>1, <1>2, HeadTailProperties
<1>5. Written(b) \in Int /\ Head(m.items) = r.sent[Written(b) + 1]
  BY <1>1, <1>3, <1>4, Counts
<1>6. Consumed(r) = Written(b) + 1 + Len(m1.items)
  BY <1>1, <1>3, <1>4, <1>5
<1>7. \A i \in 1..Len(m1.items) : m1.items[i] = r.sent[Written(b) + 1 + i]
  <2> SUFFICES ASSUME NEW i \in 1..Len(m1.items) PROVE m1.items[i] = r.sent[Written(b) + 1 + i]
    OBVIOUS
  <2>1. i + 1 \in 1..Len(m.items)
    BY <1>3, <1>4
  <2>2. Written(b) + (i + 1) = Written(b) + 1 + i
    BY <1>5
  <2> QED BY <1>1, <1>4, <2>1, <2>2
<1>8. Tells(m1, r, b1)
  BY <1>1, <1>2, <1>4, <1>5, <1>6, <1>7, ItemTells
<1> QED BY <1>8 DEF m1

LEMMA NextItemTells ==
    ASSUME NEW m, NEW r, NEW r1, NEW b, NEW b1, Tells(m, r, b), Flows(r), Flows(r1), Flows(b), Flows(b1),
           m.pc = "body", m.items = <<>>, b.sent # <<>>, r.answer = "item", r1.answer = "idle", r1.sent = r.sent,
           b1.sent = Append(b.sent, Response(Last(r.got))), b1.answer = "item"
    PROVE  Tells(m, r1, b1)
<1>1. /\ ~Ended(b) /\ m.items \in Seq(Report) /\ Len(m.items) = 0 /\ Written(b) + Len(m.items) = Consumed(r)
      /\ r.sent \in Seq(Report) /\ DOMAIN m = MultiFields
  BY DEF Tells
<1>2. /\ Consumed(r) = Len(r.sent) - 1 /\ Consumed(r1) = Len(r.sent) /\ Len(r.sent) \in Nat /\ Written(b) \in Int
  BY Counts
<1>3. Last(r.got) = r.sent[Len(r.sent)] /\ Len(r.sent) = Written(b) + 1
  BY <1>1, <1>2 DEF Flows, Last
<1>4. Last(r.got) \in Report /\ Last(r.got) = r.sent[Written(b) + 1]
  <2>1. Len(r.sent) >= 1
    BY <1>1, EmptySeq DEF Flows
  <2> QED BY <1>1, <1>2, <1>3, <2>1
<1>5. Consumed(r1) = Written(b) + 1 + Len(m.items)
  BY <1>1, <1>2, <1>3
<1>6. \A i \in 1..Len(m.items) : m.items[i] = r.sent[Written(b) + 1 + i]
  BY <1>1
<1> QED BY <1>1, <1>4, <1>5, <1>6, ItemTells

LEMMA EndTells ==
    ASSUME NEW m, NEW r, NEW b, NEW b1, Tells(m, r, b), Flows(r), Flows(b), Flows(b1), m.pc = "body",
           b.sent # <<>>, m.items = <<>>,
           \/ r.answer = "error" /\ b1.fut = "failed" /\ b1.sent = b.sent
           \/ r.answer = "none" /\ Last(b.sent) = Finish /\ b1.fut = "ok" /\ b1.sent = b.sent
           \/ /\ r.answer = "none" /\ Last(b.sent) # Finish
              /\ b1.answer = "item" /\ b1.sent = Append(b.sent, Finish)
    PROVE  Tells(m, r, b1)
<1>1. CASE b1.sent = b.sent /\ b1.fut \in {"ok", "failed"}
  <2>1. Written(b1) = Written(b) /\ Ended(b1) = Ended(b)
    BY <1>1 DEF Written, Ended
  <2>2. b1.fut = "ok" => Ended(b)
    BY <1>1 DEF Ended, Flows
  <2>3. b1.fut = "failed" => ~Ended(b) /\ r.answer = "error"
    BY <1>1 DEF Tells, Flows
  <2> QED BY <1>1, <2>1, <2>2, <2>3 DEF Tells
<1>2. CASE r.answer = "none" /\ Last(b.sent) # Finish /\ b1.answer = "item" /\ b1.sent = Append(b.sent, Finish)
  <2>1. ~Ended(b) /\ Len(b.sent) \in Nat /\ Written(b) = Len(b.sent) - 1
    BY <1>2, Counts DEF Ended
  <2>2. /\ Len(b1.sent) = Len(b.sent) + 1 /\ b1.sent # <<>> /\ Last(b1.sent) = Finish
        /\ \A i \in 1..Len(b.sent) : b1.sent[i] = b.sent[i]
    BY <1>2, AppendIsSeq DEF Flows
  <2>3. Ended(b1) /\ Written(b1) = Written(b)
    BY <2>1, <2>2, Counts DEF Ended
  <2>4. b1.fut = "sends"
    BY <1>2 DEF Flows
  <2>5. Len(b.sent) > 0
    BY <2>1, EmptySeq DEF Flows
  <2>6. b1.sent[1] = Start /\ \A i \in 1..Written(b1) : b1.sent[i + 1] = Response(r.sent[i])
    BY <2>1, <2>2, <2>3, <2>5 DEF Tells
  <2> QED BY <1>2, <2>2, <2>3, <2>4, <2>6 DEF Tells
<1> QED BY <1>1, <1>2

LEMMA InitTells == Init => Telling
<1> SUFFICES ASSUME Init, multi.pc # "idle" PROVE Telling
  BY DEF Telling
<1>1. /\ stream[Reports] = Fresh /\ stream[Body] = Fresh
      /\ get.pc = "idle" /\ find.pc = "idle" /\ multi = [pc |-> "first", items |-> <<>>, response |-> Undecided]
  BY StreamsAssumption, MultiAssumption DEF Init, MultiInit, IdleGet, IdleFind
<1>2. Consumed(Fresh) = 0
  BY FreshFlows, Counts DEF Fresh
<1> QED BY <1>1, <1>2 DEF Telling, Tells, Untouched, Fresh, MultiFields

\* What a step of the statuses' answer does to its two streams.
LEMMA MultiTells ==
    ASSUME AllFlow, AllFlow', MultiNext, Tells(multi, stream[Reports], stream[Body])
    PROVE  Tells(multi', stream'[Reports], stream'[Body]) /\ multi'.pc # "idle"
<1> DEFINE r == stream[Reports]
           b == stream[Body]
           r1 == stream'[Reports]
           b1 == stream'[Body]
<1>1. Body \in Streams /\ Reports \in Streams /\ Body # Reports
  BY StreamsAssumption, MultiAssumption DEF Body, Reports
<1>2. Flows(r) /\ Flows(r1) /\ Flows(b) /\ Flows(b1) /\ Tells(multi, r, b)
  BY <1>1 DEF AllFlow
<1>3. Other(Body) => r1 = r
  BY <1>1 DEF Other
<1>4. Other(Reports) => b1 = b
  BY <1>1 DEF Other
<1>5. UNCHANGED stream => r1 = r /\ b1 = b
  OBVIOUS
<1>6. Tells(multi', r1, b1) => multi'.pc # "idle"
  BY DEF Tells
<1> SUFFICES Tells(multi', r1, b1)
  BY <1>6
<1> HIDE DEF r, b, r1, b1
<1>7. CASE AddStatus
  <2>1. PICK x \in Report : Send(Reports, x) /\ multi' = multi
    BY <1>7 DEF AddStatus, Report
  <2>2. /\ r1.sent = Append(r.sent, x) /\ r1.answer = "item" /\ r.answer \in {"idle", "pending"} /\ b1 = b
    BY <1>1, <1>2, <1>4, <2>1, SendStep DEF Flows, r, r1
  <2> QED BY <1>2, <2>1, <2>2, HandlerTells
<1>8. CASE HandlerAwaits \/ HandlerEnds \/ PollReports
  <2>1. /\ multi' = multi /\ r1.sent = r.sent /\ b1 = b
        /\ r1.answer = r.answer \/ (r.answer \in {"idle", "pending"} /\ r1.answer # "item")
    <3>1. CASE HandlerAwaits
      BY <1>1, <1>2, <1>4, <3>1, AwaitStep DEF HandlerAwaits, Flows, r, r1
    <3>2. CASE HandlerEnds
      BY <1>1, <1>2, <1>4, <3>2, ReturnStep DEF HandlerEnds, Flows, r, r1
    <3>3. CASE PollReports
      BY <1>1, <1>4, <3>3, PollStep DEF PollReports, r, r1
    <3> QED BY <1>8, <3>1, <3>2, <3>3
  <2> QED BY <1>2, <2>1, HandlerTells
<1>9. CASE Fails \/ OnlyStatus
  <2>1. /\ r1 = r /\ b1 = b /\ multi.pc \in {"first", "second"}
        /\ \E response :
             /\ multi' = [multi EXCEPT !.pc = "done", !.response = response]
             /\ \/ response = "error" /\ (r.answer = "error" \/ (multi.pc = "first" /\ r.answer = "none"))
                \/ response = multi.items[1].status /\ multi.pc = "second" /\ r.answer = "none"
    BY <1>5, <1>9 DEF Fails, OnlyStatus, Responds, Has, r
  <2>2. PICK response :
             /\ multi' = [multi EXCEPT !.pc = "done", !.response = response]
             /\ \/ response = "error" /\ (r.answer = "error" \/ (multi.pc = "first" /\ r.answer = "none"))
                \/ response = multi.items[1].status /\ multi.pc = "second" /\ r.answer = "none"
    BY <2>1
  <2>3. Tells([multi EXCEPT !.pc = "done", !.response = response], r, b)
    BY ONLY <1>2, <2>1, <2>2, RespondsTells
  <2> QED BY <2>1, <2>2, <2>3
<1>10. CASE FirstStatus
  <2>1. /\ r.answer = "item" /\ r1.sent = r.sent /\ r1.answer = "idle" /\ b1 = b
    BY <1>1, <1>4, <1>10, TakeStep DEF FirstStatus, r, r1
  <2> DEFINE pc == IF Last(r.got).path = ReqPath THEN "second" ELSE "body"
  <2>2. multi.pc = "first" /\ multi' = [multi EXCEPT !.items = <<Last(r.got)>>, !.pc = pc]
    BY <1>10 DEF FirstStatus, Item, r
  <2> HIDE DEF pc
  <2>3. Tells([multi EXCEPT !.items = <<Last(r.got)>>, !.pc = pc], r1, b)
    BY <1>2, <2>1, <2>2, FirstTells DEF pc
  <2> QED BY <2>1, <2>2, <2>3
<1>11. CASE SecondStatus
  <2>1. /\ r.answer = "item" /\ r1.sent = r.sent /\ r1.answer = "idle" /\ b1 = b
    BY <1>1, <1>4, <1>11, TakeStep DEF SecondStatus, r, r1
  <2>2. multi.pc = "second" /\ multi' = [multi EXCEPT !.items = Append(@, Last(r.got)), !.pc = "body"]
    BY <1>11 DEF SecondStatus, Item, r
  <2>3. Tells([multi EXCEPT !.items = Append(@, Last(r.got)), !.pc = "body"], r1, b)
    BY <1>2, <2>1, <2>2, SecondTells
  <2> QED BY <2>1, <2>2, <2>3
<1>12. CASE PollBody \/ BodyAwaits
  <2>1. /\ r1 = r /\ b1.sent = b.sent /\ b1.fut \notin {"ok", "failed"}
        /\ multi' = multi \/ multi' = [multi EXCEPT !.response = Multistatus]
    <3>1. CASE PollBody
      BY <1>1, <1>3, <3>1, PollStep DEF PollBody, b, b1
    <3>2. CASE BodyAwaits
      BY <1>1, <1>3, <3>2, AwaitStep DEF BodyAwaits, b, b1
    <3> QED BY <1>12, <3>1, <3>2
  <2>2. multi.pc = "body"
    <3>1. CASE PollBody
      BY <3>1 DEF PollBody
    <3>2. CASE BodyAwaits
      BY <1>1, <1>2, <3>2, AwaitStep DEF BodyAwaits, Tells, Untouched, b
    <3> QED BY <1>12, <3>1, <3>2
  <2> QED BY <1>2, <2>1, <2>2, BodyWaitsTells
<1>13. CASE WriteHeader
  <2>1. /\ r1 = r /\ multi' = multi /\ multi.pc = "body" /\ b.sent = <<>>
        /\ b1.sent = Append(b.sent, Start) /\ b1.answer = "item"
    BY <1>1, <1>3, <1>13, SendStep DEF WriteHeader, b, b1
  <2> QED BY <1>2, <2>1, HeaderTells
<1>14. CASE WriteItem
  <2>1. /\ r1 = r /\ multi.pc = "body" /\ multi.items # <<>> /\ multi' = [multi EXCEPT !.items = Tail(@)]
        /\ b.sent # <<>> /\ b1.sent = Append(b.sent, Response(Head(multi.items))) /\ b1.answer = "item"
    BY <1>1, <1>3, <1>14, SendStep DEF WriteItem, HasHeader, b, b1
  <2>2. Tells([multi EXCEPT !.items = Tail(@)], r, b1)
    BY <1>2, <2>1, TakenItemTells
  <2> QED BY <2>1, <2>2
<1>15. CASE WriteNext
  <2>1. /\ multi' = multi /\ multi.pc = "body" /\ multi.items = <<>> /\ b.sent # <<>>
    BY <1>15, WriteNextStep DEF WriteNext, HasHeader, b
  <2>2. /\ r.answer = "item" /\ r1.sent = r.sent /\ r1.answer = "idle"
        /\ b1.sent = Append(b.sent, Response(Last(r.got))) /\ b1.answer = "item"
    BY <1>15, WriteNextStep DEF Item, r, r1, b, b1
  <2> QED BY <1>2, <2>1, <2>2, NextItemTells
<1>16. CASE BodyFails \/ BodyEnds
  <2>1. /\ multi' = multi /\ multi.pc = "body" /\ multi.items = <<>> /\ b.sent # <<>>
    BY <1>16 DEF BodyFails, BodyEnds, HasHeader, b
  <2>2. /\ r1 = r
        /\ \/ r.answer = "error" /\ b1.fut = "failed" /\ b1.sent = b.sent
           \/ r.answer = "none" /\ Last(b.sent) = Finish /\ b1.fut = "ok" /\ b1.sent = b.sent
           \/ /\ r.answer = "none" /\ Last(b.sent) # Finish
              /\ b1.answer = "item" /\ b1.sent = Append(b.sent, Finish)
    <3>1. CASE BodyFails
      BY <1>1, <1>3, <3>1, ReturnStep DEF BodyFails, Has, r, b, b1
    <3>2. CASE BodyEnds
      BY <1>1, <1>3, <3>2, SendStep, ReturnStep DEF BodyEnds, Has, r, b, b1
    <3> QED BY <1>16, <3>1, <3>2
  <2> QED BY <1>2, <2>1, <2>2, EndTells
<1> QED
  BY <1>7, <1>8, <1>9, <1>10, <1>11, <1>12, <1>13, <1>14, <1>15, <1>16 DEF MultiNext

LEMMA NextTells == AllFlow /\ Telling /\ [Next]_vars => Telling'
<1> SUFFICES ASSUME AllFlow, AllFlow', Telling, [Next]_vars PROVE Telling'
  BY NextFlows
<1> DEFINE r == stream[Reports]
           b == stream[Body]
           r1 == stream'[Reports]
           b1 == stream'[Body]
<1>1. Body \in Streams /\ Reports \in Streams /\ Body # Reports
  BY StreamsAssumption, MultiAssumption DEF Body, Reports
<1>2. CASE multi.pc = "idle"
  <2>1. multi' = multi
    BY <1>2 DEF Next, Steps, Others, vars, Reporting, Take, GetNext, FindNext
  <2> QED BY <1>2, <2>1 DEF Telling
<1>3. ASSUME multi.pc # "idle" PROVE Telling'
  <2>1. get.pc = "idle" /\ find.pc = "idle" /\ Tells(multi, r, b)
    BY <1>3 DEF Telling
  <2>2. /\ get' = get /\ find' = find
        /\ MultiNext \/ (multi' = multi /\ (Wake \/ TakeChunk \/ UNCHANGED stream))
    BY <2>1 DEF Next, Steps, Others, vars, getVars, findVars, Gets, Finds, Take
  <2>3. Flows(r) /\ Flows(b) /\ Flows(r1) /\ Flows(b1)
    BY <1>1 DEF AllFlow
  <2>4. CASE MultiNext
    BY <2>1, <2>2, <2>4, MultiTells DEF Telling
  <2>5. ASSUME multi' = multi, r1.sent = r.sent, r1.answer = r.answer, b1.sent = b.sent,
               b1.fut = b.fut \/ (b.fut = "awaits" /\ b1.fut = "woken"), b1.answer = b.answer \/ b.answer = "item"
        PROVE  Telling'
    <3>1. Tells(multi, r1, b)
      <4> HIDE DEF r, b, r1, b1
      <4> QED BY <2>1, <2>3, <2>5, HandlerTells
    <3>2. Tells(multi, r1, b1)
      <4> HIDE DEF r, b, r1, b1
      <4>1. CASE multi.pc = "body"
        BY <2>5, <3>1, <4>1 DEF Tells, Written, Ended
      <4>2. CASE multi.pc # "body"
        BY <2>5, <3>1, <4>2 DEF Tells, Untouched
      <4> QED BY <4>1, <4>2
    <3> QED BY <2>1, <2>2, <2>5, <3>2 DEF Telling
  <2>6. CASE multi' = multi /\ Wake
    BY <1>1, <2>5, <2>6, WakeStep
  <2>7. CASE multi' = multi /\ TakeChunk
    <3>1. r1 = r /\ b1.sent = b.sent /\ b1.fut = b.fut /\ b.answer = "item"
      BY <1>1, <2>7, TakeStep DEF TakeChunk, Other
    <3> QED BY <2>5, <2>7, <3>1
  <2>8. CASE multi' = multi /\ UNCHANGED stream
    BY <2>5, <2>8
  <2> QED BY <2>2, <2>4, <2>6, <2>7, <2>8
<1> QED BY <1>2, <1>3

LEMMA TellingIsTrue == AllFlow /\ Telling => TellsWhatHappened
<1> SUFFICES ASSUME AllFlow, Telling, multi.pc # "idle" PROVE TellsWhatHappened
  BY DEF TellsWhatHappened
<1> DEFINE r == stream[Reports]
           b == stream[Body]
           responses == [i \in DOMAIN r.sent |-> Response(r.sent[i])]
           told == <<Start>> \o responses
<1>1. Tells(multi, r, b) /\ Flows(r) /\ Flows(b)
  BY StreamsAssumption, MultiAssumption DEF Telling, AllFlow
<1> HIDE DEF r, b
<1>2. multi.response \in Statuses =>
        Len(r.sent) = 1 /\ r.sent[1].path = ReqPath /\ r.sent[1].status = multi.response /\ r.fut = "ok"
  BY <1>1, MultiAssumption DEF Tells
<1>3. multi.response = "error" => r.fut = "failed" \/ (r.fut = "ok" /\ r.sent = <<>>)
  <2> SUFFICES ASSUME multi.response = "error"
               PROVE  r.fut = "failed" \/ (r.fut = "ok" /\ r.sent = <<>>)
    OBVIOUS
  <2>1. multi.pc = "done"
    BY <1>1 DEF Tells, Undecided, Multistatus
  <2>2. Len(r.sent) = 1 => r.sent[1].status # "error"
    <3>1. r.sent \in Seq(Report)
      BY <1>1 DEF Tells
    <3>2. Len(r.sent) = 1 => r.sent[1] \in Report
      BY <3>1
    <3>3. \A x \in Report : x.status \in Statuses
      BY DEF Report
    <3> QED BY <3>2, <3>3, MultiAssumption
  <2> QED BY <1>1, <2>1, <2>2 DEF Tells
<1>4. ASSUME b.answer \in {"none", "error"}
      PROVE  /\ b.answer = "none" => r.fut = "ok" /\ b.got = Append(told, Finish)
             /\ b.answer = "error" => r.fut = "failed" /\ b.got = told
  <2>1. /\ multi.pc = "body" /\ b.got = b.sent /\ b.sent # <<>> /\ multi.items = <<>>
        /\ b.answer = "none" => Ended(b) /\ r.answer = "none" /\ r.fut = "ok"
        /\ b.answer = "error" => ~Ended(b) /\ r.answer = "error" /\ r.fut = "failed"
    BY <1>1, <1>4 DEF Tells, Untouched, Flows, Ended
  <2>2. /\ Written(b) = Len(r.sent) /\ Len(r.sent) \in Nat /\ Len(b.sent) \in Nat
        /\ b.answer = "none" => Len(b.sent) = Len(r.sent) + 2
        /\ b.answer = "error" => Len(b.sent) = Len(r.sent) + 1
        /\ Len(b.sent) >= Len(r.sent) + 1
    <3>1. /\ Len(r.sent) \in Nat /\ Len(b.sent) \in Nat /\ Consumed(r) = Len(r.sent) /\ Written(b) \in Int
          /\ b.answer = "none" => Written(b) = Len(b.sent) - 2
          /\ b.answer = "error" => Written(b) = Len(b.sent) - 1
      BY <1>1, <1>4, <2>1, Counts
    <3>2. Written(b) + Len(multi.items) = Consumed(r) /\ Len(multi.items) = 0
      BY <1>1, <2>1 DEF Tells
    <3>3. Written(b) = Len(r.sent)
      BY <3>1, <3>2
    <3>4. b.answer = "none" => Len(b.sent) = Len(r.sent) + 2
      BY <3>1, <3>3
    <3>5. b.answer = "error" => Len(b.sent) = Len(r.sent) + 1
      BY <3>1, <3>3
    <3>6. Len(b.sent) >= Len(r.sent) + 1
      BY <1>4, <3>1, <3>4, <3>5
    <3> QED BY <3>1, <3>3, <3>4, <3>5, <3>6
  <2>3. b.sent[1] = Start /\ \A i \in 1..Len(r.sent) : b.sent[i + 1] = Response(r.sent[i])
    BY <1>1, <2>1, <2>2 DEF Tells
  <2> DEFINE S == ToSet(b.sent)
  <2>4. b.sent \in Seq(S) /\ \A i \in 1..Len(b.sent) : b.sent[i] \in S
    BY <1>1 DEF Flows
  <2> HIDE DEF S
  <2>5. responses \in Seq(S) /\ Len(responses) = Len(r.sent) /\ \A i \in 1..Len(r.sent) : responses[i] = b.sent[i + 1]
    <3>1. DOMAIN r.sent = 1..Len(r.sent)
      BY <1>1, Counts
    <3>2. \A i \in 1..Len(r.sent) : i + 1 \in 1..Len(b.sent)
      BY <1>4, <2>2
    <3>3. \A i \in 1..Len(r.sent) : Response(r.sent[i]) \in S
      BY <2>3, <2>4, <3>2
    <3> QED BY <2>2, <2>3, <3>1, <3>3
  <2> HIDE DEF responses
  <2>6. <<Start>> \in Seq(S) /\ Len(<<Start>>) = 1
    <3>1. 1 \in 1..Len(b.sent)
      BY <1>4, <2>2
    <3>2. Start \in S
      BY <2>3, <2>4, <3>1
    <3> QED BY <3>2
  <2>7. /\ told \in Seq(S) /\ Len(told) = Len(r.sent) + 1
        /\ \A i \in 1..Len(r.sent) + 1 : told[i] = b.sent[i]
    BY <2>2, <2>3, <2>5, <2>6
  <2> HIDE DEF told
  <2>8. CASE b.answer = "error"
    <3>1. b.sent = told
      BY <2>2, <2>4, <2>7, <2>8, SeqEqual
    <3> QED BY <2>1, <2>8, <3>1
  <2>9. CASE b.answer = "none"
    <3>1. b.sent[Len(r.sent) + 2] = Finish
      BY <2>1, <2>2, <2>9 DEF Ended, Last
    <3>2. Finish \in S
      BY <2>2, <2>4, <2>9, <3>1
    <3>3. /\ Append(told, Finish) \in Seq(S) /\ Len(Append(told, Finish)) = Len(b.sent)
          /\ \A i \in 1..Len(b.sent) : Append(told, Finish)[i] = b.sent[i]
      BY <2>2, <2>7, <2>9, <3>1, <3>2
    <3>4. b.sent = Append(told, Finish)
      BY <2>4, <3>3, SeqEqual
    <3> QED BY <2>1, <2>9, <3>4
  <2> QED BY <1>4, <2>8, <2>9
<1> QED BY <1>2, <1>3, <1>4 DEF TellsWhatHappened, r, b

\* The answer made of a handler's statuses (multierror.rs) tells every one of
\* them, in order, when it ends well; the first status alone is the answer only
\* when it is the only one and about the request itself; and a handler that
\* fails later cuts the answer off and is never taken for one that ended.
THEOREM StatusesAreTold == Spec => []TellsWhatHappened
<1>1. Init => AllFlow /\ Telling
  BY InitFlows, InitTells
<1>2. AllFlow /\ Telling /\ [Next]_vars => AllFlow' /\ Telling'
  BY NextFlows, NextTells
<1> QED BY <1>1, <1>2, TellingIsTrue, PTL DEF Spec

-----------------------------------------------------------------------------
(* The walk of a PROPFIND.                                                 *)

FindFields == {"pc", "req", "status", "frames", "next", "missed"}

\* The resources written, those in the frames, and those the walk will come to.
Listed(sent) == {sent[i] : i \in DOMAIN sent} \ {CloseTag}
Framed(frames) == UNION {frames[k] : k \in DOMAIN frames}
Todo(f) == Framed(f.frames) \cup {path \in {f.next} : f.pc = "write"}
Reads(req, path) == req.depth = Infinity \/ (req.depth = 1 /\ path = req.path)

\* What exists is a tree at every moment.
TreeFits(t) ==
    /\ DOMAIN t = {"now", "always", "moves"}
    /\ t.now \subseteq Nodes /\ t.always \subseteq t.now
    /\ \A path \in t.now : \A n \in 0..Len(path) : SubSeq(path, 1, n) \in t.now

\* The walk has its parts where they belong.
Placed(f, sent) ==
    /\ DOMAIN f = FindFields /\ f.req \in FindRequests /\ f.status = 207
    /\ f.pc \in {"write", "read", "list", "close"}
    /\ f.req.path \in Nodes /\ ~HiddenPath(f.req.hide, f.req.path)
    /\ sent \in Seq(Nodes \cup {CloseTag}) /\ f.frames \in Seq(SUBSET Nodes)
    /\ f.pc # "close" => CloseTag \notin {sent[i] : i \in DOMAIN sent}
    /\ f.pc = "close" => f.frames = <<>>

\* What was written is in scope, once, and after the directory it is in.
Ordered(req, sent) ==
    /\ \A i, j \in DOMAIN sent : i # j => sent[i] # sent[j]
    /\ Listed(sent) \subseteq InScope(req)
    /\ \A i \in DOMAIN sent :
          sent[i] \notin {req.path, CloseTag} => \E j \in 1..i - 1 : sent[j] = Above(sent[i])

\* The frames hold what is in the directories that were written and read.
Framing(f, sent) ==
    /\ \A i, j \in DOMAIN f.frames : i # j => f.frames[i] \cap f.frames[j] = {}
    /\ Framed(f.frames) \cap Listed(sent) = {}
    /\ \A path \in Framed(f.frames) : path # <<>> /\ Above(path) \in Listed(sent) /\ Reads(f.req, Above(path))
    /\ f.pc = "read" =>
         /\ f.next \in Listed(sent) /\ Reads(f.req, f.next)
         /\ \A path \in Framed(f.frames) \cup (Listed(sent) \ {f.req.path}) : Above(path) # f.next
    /\ f.pc = "write" =>
         /\ f.next \in InScope(f.req) /\ f.next \notin Listed(sent) \cup Framed(f.frames)
         /\ f.next # f.req.path => Above(f.next) \in Listed(sent)

\* What was there all the time was written, or the walk is still to come to it,
\* or it could not be read.
Complete(f, sent, t) ==
    \A path \in InScope(f.req) \cap t.always :
        \/ path \in Listed(sent)
        \/ \E n \in Len(f.req.path)..Len(path) : SubSeq(path, 1, n) \in Todo(f)
        \/ f.pc = "read" /\ \E n \in Len(f.req.path)..Len(path) - 1 : SubSeq(path, 1, n) = f.next
        \/ \E n \in Len(f.req.path) + 1..Len(path) : SubSeq(path, 1, n) \in f.missed

Walks(f, sent, t) ==
    Placed(f, sent) /\ Ordered(f.req, sent) /\ Framing(f, sent) /\ Complete(f, sent, t)

Walking ==
    find.pc # "idle" =>
        /\ get.pc = "idle" /\ multi.pc = "idle"
        /\ TreeFits(tree)
        /\ \/ /\ find.pc \in {"start", "done"} /\ find.status # 207
              /\ DOMAIN find = FindFields /\ find.req \in FindRequests
              /\ Untouched(stream[Body]) /\ find.frames = <<>>
           \/ /\ find.pc \notin {"start", "done"}
              /\ Walks(find, stream[Body].sent, tree)
              /\ stream[Body].fut = "ok" => find.pc = "close"

LEMMA InitialPart ==
    ASSUME NEW S, NEW q \in Seq(S), NEW m \in 0..Len(q)
    PROVE  /\ SubSeq(q, 1, m) \in Seq(S) /\ Len(SubSeq(q, 1, m)) = m
           /\ \A i \in 1..m : SubSeq(q, 1, m)[i] = q[i]
<1>1. \A i \in 1..m : q[i] \in S
  OBVIOUS
<1>2. m \in Int /\ (m = 0 \/ 1 <= m)
  OBVIOUS
<1> QED BY <1>1, <1>2, SubSeqProperties

LEMMA Prefix ==
    ASSUME NEW p \in Seq(STRING), NEW n \in 0..Len(p)
    PROVE  /\ SubSeq(p, 1, n) \in Seq(STRING) /\ Len(SubSeq(p, 1, n)) = n /\ Len(p) \in Nat
           /\ \A i \in 1..n : SubSeq(p, 1, n)[i] = p[i]
           /\ SubSeq(p, 1, Len(p)) = p
           /\ \A m \in 0..n : SubSeq(SubSeq(p, 1, n), 1, m) = SubSeq(p, 1, m)
<1>0. Len(p) \in Nat /\ n \in Nat /\ n <= Len(p)
  OBVIOUS
<1>1. ASSUME NEW q \in Seq(STRING), NEW m \in 0..Len(q)
      PROVE  /\ SubSeq(q, 1, m) \in Seq(STRING) /\ Len(SubSeq(q, 1, m)) = m
             /\ \A i \in 1..m : SubSeq(q, 1, m)[i] = q[i]
  BY InitialPart
<1>2. ASSUME NEW m \in 0..n PROVE SubSeq(SubSeq(p, 1, n), 1, m) = SubSeq(p, 1, m)
  <2> DEFINE q == SubSeq(p, 1, n)
  <2>1. q \in Seq(STRING) /\ Len(q) = n /\ (\A i \in 1..n : q[i] = p[i]) /\ m \in 0..Len(q) /\ m \in 0..Len(p)
    BY <1>0, <1>1
  <2> HIDE DEF q
  <2>2. /\ SubSeq(q, 1, m) \in Seq(STRING) /\ Len(SubSeq(q, 1, m)) = m
        /\ SubSeq(p, 1, m) \in Seq(STRING) /\ Len(SubSeq(p, 1, m)) = m
    BY <1>1, <2>1
  <2>3. \A i \in 1..m : SubSeq(q, 1, m)[i] = SubSeq(p, 1, m)[i]
    BY <1>0, <1>1, <2>1
  <2>4. SubSeq(q, 1, m) = SubSeq(p, 1, m)
    BY <2>2, <2>3, SeqEqual
  <2> QED BY <2>4 DEF q
<1>3. SubSeq(p, 1, Len(p)) = p
  BY SubSeqFull
<1> QED BY <1>0, <1>1, <1>2, <1>3

LEMMA AboveIsPrefix ==
    ASSUME NEW p \in Nodes, p # <<>>
    PROVE  /\ Len(p) \in Nat /\ Len(p) >= 1 /\ Len(Above(p)) = Len(p) - 1
           /\ Above(p) \in Nodes
           /\ \A m \in 0..Len(p) - 1 : SubSeq(Above(p), 1, m) = SubSeq(p, 1, m)
<1>1. p \in Seq(STRING)
  BY FindAssumption
<1>2. Len(p) \in Nat /\ Len(p) >= 1 /\ Len(p) - 1 \in 0..Len(p) /\ Len(p) - 1 \in 0..Len(p) - 1
  BY <1>1, EmptySeq
<1> QED BY <1>1, <1>2, Prefix, FindAssumption DEF Above

LEMMA ScopePaths ==
    ASSUME NEW req \in FindRequests, req.path \in Nodes, NEW p \in InScope(req)
    PROVE  /\ p \in Nodes /\ p \in Seq(STRING) /\ Len(p) \in Nat /\ Len(req.path) \in Nat
           /\ Len(p) >= Len(req.path) /\ SubSeq(p, 1, Len(req.path)) = req.path
           /\ req.depth \in {0, 1, Infinity}
           /\ req.depth = Infinity \/ Len(p) <= Len(req.path) + req.depth
           /\ \A n \in Len(req.path) + 1..Len(p) : ~HiddenEntry(req.hide, "propfind", SubSeq(p, 1, n))
  BY FindAssumption DEF InScope

\* The walk stays in scope: an entry of a directory it reads, and does not skip.
LEMMA EntryInScope ==
    ASSUME NEW req \in FindRequests, req.path \in Nodes, NEW p \in Nodes, p # <<>>,
           Above(p) \in InScope(req), Reads(req, Above(p)), ~HiddenEntry(req.hide, "propfind", p)
    PROVE  p \in InScope(req)
<1> DEFINE d == Above(p)
           base == req.path
<1>1. /\ d \in Nodes /\ Len(d) \in Nat /\ Len(base) \in Nat /\ Len(d) >= Len(base)
      /\ SubSeq(d, 1, Len(base)) = base /\ req.depth \in {0, 1, Infinity}
      /\ \A n \in Len(base) + 1..Len(d) : ~HiddenEntry(req.hide, "propfind", SubSeq(d, 1, n))
  BY ScopePaths
<1>2. /\ Len(p) \in Nat /\ Len(d) = Len(p) - 1 /\ \A m \in 0..Len(p) - 1 : SubSeq(d, 1, m) = SubSeq(p, 1, m)
  BY AboveIsPrefix
<1>3. SubSeq(p, 1, Len(p)) = p
  BY <1>2, Prefix, FindAssumption
<1> HIDE DEF d, base
<1>4. Len(p) >= Len(base) /\ SubSeq(p, 1, Len(base)) = base
  BY <1>1, <1>2
<1>5. req.depth = Infinity \/ Len(p) <= Len(base) + req.depth
  BY <1>1, <1>2 DEF Reads, Infinity, d, base
<1>6. \A n \in Len(base) + 1..Len(p) : ~HiddenEntry(req.hide, "propfind", SubSeq(p, 1, n))
  <2> SUFFICES ASSUME NEW n \in Len(base) + 1..Len(p) PROVE ~HiddenEntry(req.hide, "propfind", SubSeq(p, 1, n))
    OBVIOUS
  <2>1. CASE n = Len(p)
    BY <1>3, <2>1
  <2>2. CASE n # Len(p)
    <3>1. n \in Len(base) + 1..Len(d) /\ n \in 0..Len(p) - 1
      BY <1>1, <1>2, <2>2
    <3> QED BY <1>1, <1>2, <3>1
  <2> QED BY <2>1, <2>2
<1> QED BY <1>4, <1>5, <1>6 DEF InScope, base

\* A walk below a resource that may be seen shows nothing that may not be.
LEMMA ScopeIsVisible ==
    ASSUME NEW req \in FindRequests, req.path \in Nodes, ~HiddenPath(req.hide, req.path), NEW p \in InScope(req)
    PROVE  ~HiddenPath([req.hide EXCEPT !.dots = IF @ = "Always" THEN @ ELSE "Never"], p)
<1> DEFINE base == req.path
           hide == [req.hide EXCEPT !.dots = IF @ = "Always" THEN @ ELSE "Never"]
<1>1. /\ p \in Seq(STRING) /\ base \in Seq(STRING) /\ Len(base) \in Nat /\ Len(p) \in Nat /\ Len(base) <= Len(p)
      /\ DOMAIN p = 1..Len(p) /\ DOMAIN base = 1..Len(base) /\ SubSeq(p, 1, Len(base)) = base
      /\ \A n \in Len(base) + 1..Len(p) : ~HiddenEntry(req.hide, "propfind", SubSeq(p, 1, n))
  BY ScopePaths, FindAssumption
<1>2. /\ hide.links = req.hide.links
      /\ hide.dots \in {"ForDirectPaths", "Always"} => req.hide.dots = "Always"
  BY FindAssumption DEF HideOptions
<1> HIDE DEF hide, base
<1>3. ASSUME NEW n \in 1..Len(p)
      PROVE  /\ ~is_collection_marker(p[n])
             /\ hide.dots \in {"ForDirectPaths", "Always"} => p[n] \notin DotNames
             /\ hide.links => SubSeq(p, 1, n) \notin Links
  <2>1. CASE n \in 1..Len(base)
    <3>1. Len(base) \in 0..Len(p) /\ n \in 0..Len(base)
      BY <1>1, <2>1
    <3>2. base[n] = p[n] /\ SubSeq(base, 1, n) = SubSeq(p, 1, n)
      BY <1>1, <2>1, <3>1, Prefix
    <3> QED BY <1>1, <1>2, <2>1, <3>2 DEF HiddenPath, base
  <2>2. CASE n \in Len(base) + 1..Len(p)
    <3>1. n \in 0..Len(p) /\ n \in 1..n
      BY <1>1
    <3>2. Len(SubSeq(p, 1, n)) = n /\ SubSeq(p, 1, n)[n] = p[n]
      BY <1>1, <3>1, Prefix
    <3> QED BY <1>1, <1>2, <2>2, <3>2 DEF HiddenEntry, HidesDots
  <2>3. n \in 1..Len(base) \/ n \in Len(base) + 1..Len(p)
    BY <1>1
  <2> QED BY <2>1, <2>2, <2>3
<1>4. ~HiddenPath(hide, p)
  BY <1>1, <1>3 DEF HiddenPath
<1> QED BY <1>4 DEF hide

LEMMA WalkingIsTrue == AllFlow /\ Walking => ListsWhatIsThere
<1> SUFFICES ASSUME AllFlow, Walking, find.pc # "idle" PROVE ListsWhatIsThere
  BY DEF ListsWhatIsThere
<1> DEFINE sent == stream[Body].sent
           named == {i \in DOMAIN sent : sent[i] # CloseTag}
           hide == [find.req.hide EXCEPT !.dots = IF @ = "Always" THEN @ ELSE "Never"]
<1>1. Flows(stream[Body])
  BY StreamsAssumption DEF AllFlow
<1>2. stream[Body].got = sent
  BY <1>1 DEF Flows
<1>3. CASE find.pc \in {"start", "done"}
  <2>1. sent = <<>> /\ stream[Body].answer # "none"
    BY <1>3 DEF Walking, Untouched, Walks
  <2>2. DOMAIN sent = {}
    BY <2>1
  <2> QED BY <1>2, <2>1, <2>2 DEF ListsWhatIsThere
<1>4. CASE find.pc \notin {"start", "done"}
  <2>1. Walks(find, sent, tree) /\ (stream[Body].fut = "ok" => find.pc = "close")
    BY <1>4 DEF Walking
  <2> HIDE DEF sent
  <2>2. \A i, j \in named : i # j => sent[i] # sent[j]
    BY <2>1 DEF Walks, Ordered
  <2>3. ASSUME NEW i \in named
        PROVE  /\ sent[i] \in InScope(find.req) /\ ~HiddenPath(hide, sent[i])
               /\ sent[i] # find.req.path => \E j \in 1..i - 1 : sent[j] = Above(sent[i])
    <3>1. sent[i] \in InScope(find.req)
      BY <2>1 DEF Walks, Ordered, Listed
    <3>2. ~HiddenPath(hide, sent[i])
      BY <2>1, <3>1, ScopeIsVisible DEF Walks, Placed
    <3> QED BY <2>1, <3>1, <3>2 DEF Walks, Ordered
  <2>4. stream[Body].answer = "none" =>
           \A path \in InScope(find.req) \cap tree.always :
               \/ path \in {sent[i] : i \in named}
               \/ \E n \in Len(find.req.path) + 1..Len(path) : SubSeq(path, 1, n) \in find.missed
    <3> SUFFICES ASSUME stream[Body].answer = "none", NEW path \in InScope(find.req) \cap tree.always,
                        ~\E n \in Len(find.req.path) + 1..Len(path) : SubSeq(path, 1, n) \in find.missed
                 PROVE  path \in {sent[i] : i \in named}
      OBVIOUS
    <3>1. find.pc = "close" /\ find.frames = <<>>
      BY <1>1, <2>1 DEF Flows, Walks, Placed
    <3>2. Todo(find) = {}
      BY <3>1 DEF Todo, Framed
    <3>3. path \in Listed(sent)
      BY <2>1, <3>1, <3>2 DEF Walks, Complete
    <3> QED BY <3>3 DEF Listed
  <2> HIDE DEF hide, named
  <2> QED BY <1>2, <2>2, <2>3, <2>4 DEF ListsWhatIsThere, sent, named, hide
<1> QED BY <1>3, <1>4

LEMMA ListedAppend ==
    ASSUME NEW S, NEW sent \in Seq(S), NEW x \in S, x # CloseTag
    PROVE  Listed(Append(sent, x)) = Listed(sent) \cup {x}
<1> DEFINE a == Append(sent, x)
<1>1. /\ Len(sent) \in Nat /\ DOMAIN sent = 1..Len(sent) /\ DOMAIN a = 1..Len(sent) + 1
      /\ a[Len(sent) + 1] = x /\ \A i \in 1..Len(sent) : a[i] = sent[i]
  BY AppendTo
<1> HIDE DEF a
<1>2. {a[i] : i \in DOMAIN a} = {sent[i] : i \in DOMAIN sent} \cup {x}
  BY <1>1
<1> QED BY <1>2 DEF Listed, a

\* write_props(): the resource is written for the first time, after the
\* collection it is in.
LEMMA WriteWalks ==
    ASSUME NEW f, NEW f1, NEW sent, NEW t, Walks(f, sent, t), f.pc = "write",
           NEW pc \in {"read", "list"}, f1 = [f EXCEPT !.pc = pc],
           pc = "read" <=> f.next \in Collections /\ Reads(f.req, f.next)
    PROVE  Walks(f1, Append(sent, f.next), t)
<1> DEFINE x == f.next
           sent1 == Append(sent, x)
           L == Listed(sent)
           L1 == Listed(sent1)
<1>1. /\ DOMAIN f1 = FindFields /\ f1.pc = pc /\ f1.req = f.req /\ f1.next = x /\ f1.frames = f.frames
      /\ f1.status = f.status /\ f1.missed = f.missed
  BY DEF Walks, Placed, FindFields
<1>2. /\ f.req \in FindRequests /\ f.req.path \in Nodes
      /\ sent \in Seq(Nodes \cup {CloseTag}) /\ f.frames \in Seq(SUBSET Nodes)
      /\ CloseTag \notin {sent[i] : i \in DOMAIN sent}
  BY DEF Walks, Placed
<1>3. /\ x \in InScope(f.req) /\ x \notin L /\ x \notin Framed(f.frames)
      /\ x # f.req.path => Above(x) \in L
  BY DEF Walks, Framing
<1>4. x \in Nodes /\ x # CloseTag
  BY <1>2, <1>3, ScopePaths, FindAssumption
<1>5. L1 = L \cup {x}
  BY <1>2, <1>4, ListedAppend
<1>6. /\ Len(sent) \in Nat /\ DOMAIN sent = 1..Len(sent) /\ DOMAIN sent1 = 1..Len(sent) + 1
      /\ sent1 \in Seq(Nodes \cup {CloseTag})
      /\ sent1[Len(sent) + 1] = x /\ \A i \in 1..Len(sent) : sent1[i] = sent[i]
  BY <1>2, <1>4, AppendTo
<1>7. \A i \in 1..Len(sent) : sent[i] \in L
  BY <1>2, <1>6 DEF Listed
<1> HIDE DEF x, sent1, L, L1
<1>8. Placed(f1, sent1)
  <2>1. CloseTag \notin {sent1[i] : i \in DOMAIN sent1}
    BY <1>2, <1>4, <1>6
  <2> QED BY <1>1, <1>6, <2>1 DEF Walks, Placed
<1>9. Ordered(f.req, sent1)
  <2>1. \A i, j \in DOMAIN sent1 : i # j => sent1[i] # sent1[j]
    <3> SUFFICES ASSUME NEW i \in 1..Len(sent) + 1, NEW j \in 1..Len(sent) + 1, i # j PROVE sent1[i] # sent1[j]
      BY <1>6
    <3>1. CASE i \in 1..Len(sent) /\ j \in 1..Len(sent)
      BY <1>6, <3>1 DEF Walks, Ordered
    <3>2. CASE i = Len(sent) + 1 /\ j \in 1..Len(sent)
      BY <1>3, <1>6, <1>7, <3>2
    <3>3. CASE j = Len(sent) + 1 /\ i \in 1..Len(sent)
      BY <1>3, <1>6, <1>7, <3>3
    <3> QED BY <1>6, <3>1, <3>2, <3>3
  <2>2. L1 \subseteq InScope(f.req)
    BY <1>3, <1>5 DEF Walks, Ordered, L
  <2>3. ASSUME NEW i \in DOMAIN sent1, sent1[i] \notin {f.req.path, CloseTag}
        PROVE  \E j \in 1..i - 1 : sent1[j] = Above(sent1[i])
    <3>1. CASE i \in 1..Len(sent)
      <4>1. PICK j \in 1..i - 1 : sent[j] = Above(sent[i])
        BY <1>6, <2>3, <3>1 DEF Walks, Ordered
      <4>2. j \in 1..Len(sent)
        BY <1>6, <3>1
      <4> QED BY <1>6, <3>1, <4>1, <4>2
    <3>2. CASE i = Len(sent) + 1
      <4>1. Above(x) \in L
        BY <1>3, <1>6, <2>3, <3>2
      <4>2. PICK j \in 1..Len(sent) : sent[j] = Above(x)
        BY <1>6, <4>1 DEF L, Listed
      <4>3. j \in 1..i - 1
        BY <1>6, <3>2
      <4> QED BY <1>6, <3>2, <4>2, <4>3
    <3> QED BY <1>6, <3>1, <3>2
  <2> QED BY <2>1, <2>2, <2>3 DEF Ordered, L1
<1>10. Framing(f1, sent1)
  <2>1. /\ \A i, j \in DOMAIN f.frames : i # j => f.frames[i] \cap f.frames[j] = {}
        /\ Framed(f.frames) \cap L = {}
        /\ \A path \in Framed(f.frames) : path # <<>> /\ Above(path) \in L /\ Reads(f.req, Above(path))
    BY DEF Walks, Framing, L
  <2>2. \A path \in L \ {f.req.path} : Above(path) \in L
    <3> SUFFICES ASSUME NEW path \in L \ {f.req.path} PROVE Above(path) \in L
      OBVIOUS
    <3>1. PICK i \in 1..Len(sent) : sent[i] = path /\ path # CloseTag
      BY <1>6 DEF L, Listed
    <3>2. PICK j \in 1..i - 1 : sent[j] = Above(path)
      BY <1>6, <3>1 DEF Walks, Ordered
    <3>3. j \in 1..Len(sent)
      BY <1>6
    <3> QED BY <1>7, <3>2, <3>3
  <2>3. \A path \in Framed(f.frames) \cup (L1 \ {f.req.path}) : Above(path) # x
    BY <1>3, <1>5, <2>1, <2>2
  <2>4. /\ Framed(f.frames) \cap L1 = {}
        /\ \A path \in Framed(f.frames) : path # <<>> /\ Above(path) \in L1 /\ Reads(f.req, Above(path))
    BY <1>3, <1>5, <2>1
  <2>5. pc = "read" => x \in L1 /\ Reads(f.req, x)
    BY <1>5 DEF x
  <2> QED BY <1>1, <2>1, <2>3, <2>4, <2>5 DEF Framing, L1
<1>11. Complete(f1, sent1, t)
  <2> SUFFICES ASSUME NEW p \in InScope(f.req) \cap t.always
               PROVE  \/ p \in L1
                      \/ \E n \in Len(f.req.path)..Len(p) : SubSeq(p, 1, n) \in Framed(f.frames)
                      \/ pc = "read" /\ \E n \in Len(f.req.path)..Len(p) - 1 : SubSeq(p, 1, n) = x
                      \/ \E n \in Len(f.req.path) + 1..Len(p) : SubSeq(p, 1, n) \in f.missed
    BY <1>1 DEF Complete, Todo, L1
  <2>1. \/ p \in L
        \/ \E n \in Len(f.req.path)..Len(p) : SubSeq(p, 1, n) \in Framed(f.frames) \/ SubSeq(p, 1, n) = x
        \/ \E n \in Len(f.req.path) + 1..Len(p) : SubSeq(p, 1, n) \in f.missed
    BY DEF Walks, Complete, Todo, L, x
  <2>2. ASSUME NEW n \in Len(f.req.path)..Len(p), SubSeq(p, 1, n) = x
        PROVE  p \in L1 \/ (pc = "read" /\ \E k \in Len(f.req.path)..Len(p) - 1 : SubSeq(p, 1, k) = x)
    <3>1. /\ p \in Nodes /\ p \in Seq(STRING) /\ Len(p) \in Nat /\ Len(f.req.path) \in Nat
          /\ SubSeq(p, 1, Len(f.req.path)) = f.req.path
          /\ f.req.depth \in {0, 1, Infinity} /\ (f.req.depth = Infinity \/ Len(p) <= Len(f.req.path) + f.req.depth)
      BY <1>2, ScopePaths
    <3>2. CASE n = Len(p)
      BY <1>5, <2>2, <3>1, <3>2, Prefix
    <3>3. CASE n # Len(p)
      <4>1. n \in 0..Len(p) - 1 /\ n \in Len(f.req.path)..Len(p) - 1
        BY <3>1, <3>3
      <4>2. x \in Collections
        BY <2>2, <3>1, <4>1, FindAssumption
      <4>3. f.req.depth = Infinity \/ (f.req.depth = 1 /\ n = Len(f.req.path))
        BY <3>1, <4>1 DEF Infinity
      <4>4. Reads(f.req, x)
        BY <2>2, <3>1, <4>3 DEF Reads
      <4> QED BY <2>2, <4>1, <4>2, <4>4 DEF x
    <3> QED BY <3>2, <3>3
  <2> QED BY <1>5, <2>1, <2>2
<1> QED BY <1>1, <1>8, <1>9, <1>10, <1>11 DEF Walks, sent1, x

\* read_dir(): the new frame has what is in the collection just written, none of
\* which the walk has met before.
LEMMA ReadWalks ==
    ASSUME NEW f, NEW f1, NEW sent, NEW t, Walks(f, sent, t), TreeFits(t), f.pc = "read", NEW new, NEW all, NEW missed,
           all = {path \in t.now \ {<<>>} : f.next \in t.now /\ Above(path) = f.next},
           f1 = [f EXCEPT !.pc = "list", !.frames = Append(@, new), !.missed = missed],
           new \subseteq all, f.missed \subseteq missed, all \subseteq new \cup missed
    PROVE  Walks(f1, sent, t)
<1> DEFINE x == f.next
           L == Listed(sent)
           F == Framed(f.frames)
           F1 == Framed(f1.frames)
<1>1. /\ DOMAIN f1 = FindFields /\ f1.pc = "list" /\ f1.req = f.req /\ f1.next = x
      /\ f1.frames = Append(f.frames, new) /\ f1.status = f.status /\ f1.missed = missed
  BY DEF Walks, Placed, FindFields
<1>2. /\ f.req \in FindRequests /\ f.req.path \in Nodes /\ f.frames \in Seq(SUBSET Nodes)
  BY DEF Walks, Placed
<1>3. /\ x \in L /\ Reads(f.req, x) /\ L \subseteq InScope(f.req)
      /\ \A path \in F \cup (L \ {f.req.path}) : Above(path) # x
      /\ \A i, j \in DOMAIN f.frames : i # j => f.frames[i] \cap f.frames[j] = {}
      /\ F \cap L = {}
      /\ \A path \in F : path # <<>> /\ Above(path) \in L /\ Reads(f.req, Above(path))
  BY DEF Walks, Framing, Ordered
<1>4. /\ t.now \subseteq Nodes /\ t.always \subseteq t.now
      /\ \A path \in t.now : \A n \in 0..Len(path) : SubSeq(path, 1, n) \in t.now
  BY DEF TreeFits
<1>5. /\ new \in SUBSET Nodes /\ \A path \in new : path # <<>> /\ Above(path) = x
  BY <1>4
<1>6. /\ Len(f.frames) \in Nat /\ DOMAIN f.frames = 1..Len(f.frames) /\ DOMAIN f1.frames = 1..Len(f.frames) + 1
      /\ f1.frames \in Seq(SUBSET Nodes)
      /\ f1.frames[Len(f.frames) + 1] = new /\ \A i \in 1..Len(f.frames) : f1.frames[i] = f.frames[i]
  BY <1>1, <1>2, <1>5, AppendTo
<1>7. \A i \in 1..Len(f.frames) : f.frames[i] \subseteq F
  BY <1>6 DEF Framed
<1>8. F1 = F \cup new
  BY <1>6 DEF Framed
<1> HIDE DEF x, L, F, F1
<1>9. new \cap F = {}
  BY <1>3, <1>5
<1>10. new \cap L = {}
  <2> SUFFICES ASSUME NEW path \in new, path \in L PROVE FALSE
    OBVIOUS
  <2>1. path = f.req.path /\ path \in Nodes /\ path # <<>> /\ Above(path) = x
    BY <1>3, <1>5
  <2>2. Len(x) >= Len(path) /\ Len(x) = Len(path) - 1 /\ Len(path) \in Nat
    BY <1>2, <1>3, <2>1, ScopePaths, AboveIsPrefix
  <2> QED BY <2>2
<1>11. Placed(f1, sent)
  BY <1>1, <1>6 DEF Walks, Placed
<1>12. Framing(f1, sent)
  <2>1. \A i, j \in DOMAIN f1.frames : i # j => f1.frames[i] \cap f1.frames[j] = {}
    <3> SUFFICES ASSUME NEW i \in 1..Len(f.frames) + 1, NEW j \in 1..Len(f.frames) + 1, i # j
                 PROVE  f1.frames[i] \cap f1.frames[j] = {}
      BY <1>6
    <3>1. CASE i \in 1..Len(f.frames) /\ j \in 1..Len(f.frames)
      BY <1>3, <1>6, <3>1
    <3>2. CASE i = Len(f.frames) + 1 /\ j \in 1..Len(f.frames)
      BY <1>6, <1>7, <1>9, <3>2
    <3>3. CASE j = Len(f.frames) + 1 /\ i \in 1..Len(f.frames)
      BY <1>6, <1>7, <1>9, <3>3
    <3> QED BY <1>6, <3>1, <3>2, <3>3
  <2>2. F1 \cap L = {}
    BY <1>3, <1>8, <1>10
  <2>3. \A path \in F1 : path # <<>> /\ Above(path) \in L /\ Reads(f.req, Above(path))
    BY <1>3, <1>5, <1>8
  <2> QED BY <1>1, <2>1, <2>2, <2>3 DEF Framing, F1, L
<1>13. Complete(f1, sent, t)
  <2> SUFFICES ASSUME NEW p \in InScope(f.req) \cap t.always
               PROVE  \/ p \in L
                      \/ \E n \in Len(f.req.path)..Len(p) : SubSeq(p, 1, n) \in F1
                      \/ \E n \in Len(f.req.path) + 1..Len(p) : SubSeq(p, 1, n) \in missed
    BY <1>1 DEF Complete, Todo, L, F1
  <2>1. \/ p \in L
        \/ \E n \in Len(f.req.path)..Len(p) : SubSeq(p, 1, n) \in F
        \/ \E n \in Len(f.req.path)..Len(p) - 1 : SubSeq(p, 1, n) = x
        \/ \E n \in Len(f.req.path) + 1..Len(p) : SubSeq(p, 1, n) \in missed
    BY DEF Walks, Complete, Todo, L, F, x
  <2>2. ASSUME NEW n \in Len(f.req.path)..Len(p) - 1, SubSeq(p, 1, n) = x
        PROVE  \/ \E k \in Len(f.req.path)..Len(p) : SubSeq(p, 1, k) \in F1
               \/ \E k \in Len(f.req.path) + 1..Len(p) : SubSeq(p, 1, k) \in missed
    <3>1. p \in Nodes /\ p \in Seq(STRING) /\ Len(p) \in Nat /\ Len(f.req.path) \in Nat /\ p \in t.now
      BY <1>2, <1>4, ScopePaths
    <3>2. n + 1 \in Len(f.req.path) + 1..Len(p) /\ n + 1 \in Len(f.req.path)..Len(p) /\ n + 1 \in 0..Len(p) /\ n \in 0..Len(p) /\ n \in 0..n + 1 /\ n \in Nat
      BY <3>1
    <3> DEFINE c == SubSeq(p, 1, n + 1)
    <3>3. c \in t.now /\ x \in t.now
      BY <1>4, <2>2, <3>1, <3>2
    <3>4. Len(c) = n + 1 /\ SubSeq(c, 1, n) = x
      BY <2>2, <3>1, <3>2, Prefix
    <3> HIDE DEF c
    <3>5. c # <<>> /\ Above(c) = x
      <4>1. Len(c) # 0 /\ Len(c) - 1 = n
        BY <3>2, <3>4
      <4> QED BY <3>4, <4>1 DEF Above
    <3>6. c \in all
      BY <3>3, <3>5 DEF x
    <3> QED BY <1>8, <3>2, <3>6 DEF c
  <2> QED BY <1>8, <2>1, <2>2
<1> QED BY <1>1, <1>11, <1>12, <1>13 DEF Walks

LEMMA FrameWithout ==
    ASSUME NEW frames \in Seq(SUBSET Nodes), frames # <<>>, NEW path \in Last(frames),
           \A i, j \in DOMAIN frames : i # j => frames[i] \cap frames[j] = {},
           NEW frames1, frames1 = [frames EXCEPT ![Len(frames)] = @ \ {path}]
    PROVE  /\ frames1 \in Seq(SUBSET Nodes)
           /\ \A i, j \in DOMAIN frames1 : i # j => frames1[i] \cap frames1[j] = {}
           /\ Framed(frames1) = Framed(frames) \ {path}
           /\ path \in Framed(frames) /\ path \in Nodes
<1> DEFINE k == Len(frames)
           last == frames[k] \ {path}
<1>1. /\ k \in Nat /\ k \in 1..k /\ DOMAIN frames = 1..k /\ \A i \in 1..k : frames[i] \subseteq Nodes
      /\ path \in frames[k]
  BY EmptySeq DEF Last
<1>2. last \in SUBSET Nodes
  BY <1>1
<1>3. frames1 = [frames EXCEPT ![k] = last]
  OBVIOUS
<1> HIDE DEF k, last
<1>4. frames1 \in Seq(SUBSET Nodes) /\ DOMAIN frames1 = 1..k
  BY <1>1, <1>2, <1>3, ExceptSeq DEF k
<1>5. \A i \in 1..k : frames1[i] = IF i = k THEN last ELSE frames[i]
  BY <1>1, <1>3
<1>6. \A i \in 1..k : frames1[i] = frames[i] \ {path}
  <2> SUFFICES ASSUME NEW i \in 1..k PROVE frames1[i] = frames[i] \ {path}
    OBVIOUS
  <2>1. i # k => path \notin frames[i]
    BY <1>1
  <2> QED BY <1>5, <2>1 DEF last
<1>7. Framed(frames1) = Framed(frames) \ {path}
  BY <1>1, <1>4, <1>6 DEF Framed
<1>8. path \in Framed(frames) /\ path \in Nodes
  BY <1>1 DEF Framed
<1>9. \A i, j \in DOMAIN frames1 : i # j => frames1[i] \cap frames1[j] = {}
  BY <1>1, <1>4, <1>6
<1> QED BY <1>4, <1>7, <1>8, <1>9

\* An entry that is skipped is hidden, gone or missed, and so is all below it;
\* one that is not is in scope.
LEMMA EntryWalks ==
    ASSUME NEW f, NEW f1, NEW sent, NEW t, Walks(f, sent, t), TreeFits(t), f.pc = "list", f.frames # <<>>,
           NEW path \in Last(f.frames), NEW frames, frames = [f.frames EXCEPT ![Len(f.frames)] = @ \ {path}],
           DOMAIN f1 = FindFields, f1.req = f.req, f1.frames = frames, f1.status = f.status,
           f.missed \subseteq f1.missed,
           \/ /\ HiddenEntry(f.req.hide, "propfind", path) \/ path \notin t.now \/ path \in f1.missed
              /\ f1.pc = "list"
           \/ /\ ~HiddenEntry(f.req.hide, "propfind", path)
              /\ f1.pc = "write" /\ f1.next = path
    PROVE  Walks(f1, sent, t)
<1> DEFINE L == Listed(sent)
           F == Framed(f.frames)
           F1 == Framed(frames)
<1>1. /\ DOMAIN f1 = FindFields /\ f1.req = f.req /\ f1.frames = frames /\ f1.status = f.status
      /\ f1.pc \in {"list", "write"} /\ (f1.pc = "write" => f1.next = path)
  OBVIOUS
<1>2. /\ f.req \in FindRequests /\ f.req.path \in Nodes /\ f.frames \in Seq(SUBSET Nodes)
      /\ CloseTag \notin {sent[i] : i \in DOMAIN sent}
  BY DEF Walks, Placed
<1>3. /\ L \subseteq InScope(f.req) /\ F \cap L = {}
      /\ \A i, j \in DOMAIN f.frames : i # j => f.frames[i] \cap f.frames[j] = {}
      /\ \A p \in F : p # <<>> /\ Above(p) \in L /\ Reads(f.req, Above(p))
  BY DEF Walks, Framing, Ordered
<1>4. /\ frames \in Seq(SUBSET Nodes)
      /\ \A i, j \in DOMAIN frames : i # j => frames[i] \cap frames[j] = {}
      /\ F1 = F \ {path} /\ path \in F /\ path \in Nodes
  BY <1>2, <1>3, FrameWithout
<1> HIDE DEF L, F, F1
<1>5. Placed(f1, sent)
  BY <1>1, <1>2, <1>4 DEF Walks, Placed
<1>6. path # <<>> /\ Above(path) \in L /\ Reads(f.req, Above(path)) /\ path \notin L
  BY <1>3, <1>4
<1>7. f1.pc = "write" => path \in InScope(f.req)
  BY <1>1, <1>2, <1>3, <1>4, <1>6, EntryInScope
<1>8. Framing(f1, sent)
  BY <1>1, <1>3, <1>4, <1>6, <1>7 DEF Framing, L, F1
<1>9. Complete(f1, sent, t)
  <2> SUFFICES ASSUME NEW p \in InScope(f.req) \cap t.always
               PROVE  \/ p \in L
                      \/ \E n \in Len(f.req.path)..Len(p) : SubSeq(p, 1, n) \in Todo(f1)
                      \/ \E n \in Len(f.req.path) + 1..Len(p) : SubSeq(p, 1, n) \in f1.missed
    BY <1>1 DEF Complete, L
  <2>1. \/ p \in L
        \/ \E n \in Len(f.req.path)..Len(p) : SubSeq(p, 1, n) \in F
        \/ \E n \in Len(f.req.path) + 1..Len(p) : SubSeq(p, 1, n) \in f1.missed
    BY DEF Walks, Complete, Todo, L, F
  <2>2. F1 \subseteq Todo(f1) /\ (f1.pc = "write" => path \in Todo(f1))
    BY <1>1 DEF Todo, F1
  <2>3. ASSUME NEW n \in Len(f.req.path)..Len(p), SubSeq(p, 1, n) = path, f1.pc # "write"
        PROVE  \E k \in Len(f.req.path) + 1..Len(p) : SubSeq(p, 1, k) \in f1.missed
    <3>1. HiddenEntry(f.req.hide, "propfind", path) \/ path \notin t.now \/ path \in f1.missed
      BY <2>3
    <3>2. /\ p \in Nodes /\ p \in Seq(STRING) /\ Len(p) \in Nat /\ Len(f.req.path) \in Nat
          /\ \A k \in Len(f.req.path) + 1..Len(p) : ~HiddenEntry(f.req.hide, "propfind", SubSeq(p, 1, k))
      BY <1>2, ScopePaths
    <3>3. path \in t.now
      <4>1. n \in 0..Len(p) /\ p \in t.now
        BY <3>2 DEF TreeFits
      <4> QED BY <2>3, <4>1 DEF TreeFits
    <3>4. n # Len(f.req.path)
      <4>1. Len(path) = n
        BY <2>3, <3>2, Prefix
      <4>2. Len(Above(path)) = Len(path) - 1 /\ Len(Above(path)) >= Len(f.req.path)
        BY <1>2, <1>3, <1>4, <1>6, AboveIsPrefix, ScopePaths
      <4> QED BY <3>2, <4>1, <4>2
    <3>5. n \in Len(f.req.path) + 1..Len(p)
      BY <3>2, <3>4
    <3> QED BY <2>3, <3>1, <3>2, <3>3, <3>5
  <2> QED BY <1>4, <2>1, <2>2, <2>3
<1> QED BY <1>1, <1>5, <1>8, <1>9 DEF Walks

LEMMA EndDirectoryWalks ==
    ASSUME NEW f, NEW f1, NEW sent, NEW t, Walks(f, sent, t), f.pc = "list", f.frames # <<>>,
           Last(f.frames) = {}, f1 = [f EXCEPT !.frames = Front(@)]
    PROVE  Walks(f1, sent, t)
<1> DEFINE k == Len(f.frames)
<1>1. /\ DOMAIN f1 = FindFields /\ f1.req = f.req /\ f1.pc = "list" /\ f1.status = f.status
      /\ f1.frames = SubSeq(f.frames, 1, k - 1)
  BY DEF Walks, Placed, FindFields, Front
<1>9. f1.missed = f.missed
  BY DEF Walks, Placed, FindFields
<1>2. f.frames \in Seq(SUBSET Nodes)
  BY DEF Walks, Placed
<1>3. k \in Nat /\ k >= 1 /\ DOMAIN f.frames = 1..k /\ f.frames[k] = {} /\ \A i \in 1..k : f.frames[i] \subseteq Nodes
  BY <1>2, EmptySeq DEF Last
<1> HIDE DEF k
<1>4. /\ f1.frames \in Seq(SUBSET Nodes) /\ DOMAIN f1.frames = 1..k - 1
      /\ \A i \in 1..k - 1 : f1.frames[i] = f.frames[i]
  <2> DEFINE m == k - 1
  <2>1. m \in Nat /\ \A i \in 1..m : f.frames[i] \in SUBSET Nodes
    BY <1>3
  <2>2. f1.frames = SubSeq(f.frames, 1, m)
    BY <1>1
  <2> HIDE DEF m
  <2>3. m \in 0..Len(f.frames)
    BY <1>3 DEF m, k
  <2>4. /\ SubSeq(f.frames, 1, m) \in Seq(SUBSET Nodes) /\ Len(SubSeq(f.frames, 1, m)) = m
        /\ \A i \in 1..m : SubSeq(f.frames, 1, m)[i] = f.frames[i]
    BY ONLY <1>2, <2>3, InitialPart
  <2>5. f1.frames \in Seq(SUBSET Nodes) /\ Len(f1.frames) = m /\ \A i \in 1..m : f1.frames[i] = f.frames[i]
    BY <2>2, <2>4
  <2> QED BY <2>5 DEF m
<1>5. Framed(f1.frames) = Framed(f.frames)
  <2>1. \A i \in 1..k - 1 : i \in 1..k
    BY <1>3
  <2>2. \A i \in 1..k : i = k \/ i \in 1..k - 1
    BY <1>3
  <2>3. Framed(f1.frames) \subseteq Framed(f.frames)
    BY <1>3, <1>4, <2>1 DEF Framed
  <2>4. Framed(f.frames) \subseteq Framed(f1.frames)
    BY <1>3, <1>4, <2>2 DEF Framed
  <2> QED BY <2>3, <2>4
<1>6. \A i, j \in DOMAIN f1.frames : i # j => f1.frames[i] \cap f1.frames[j] = {}
  <2> SUFFICES ASSUME NEW i \in 1..k - 1, NEW j \in 1..k - 1, i # j PROVE f1.frames[i] \cap f1.frames[j] = {}
    BY <1>4
  <2>1. i \in 1..k /\ j \in 1..k
    BY <1>3
  <2> QED BY <1>3, <1>4, <2>1 DEF Walks, Framing
<1>7. Placed(f1, sent)
  BY <1>1, <1>4 DEF Walks, Placed
<1>8. Framing(f1, sent) /\ Complete(f1, sent, t)
  BY <1>1, <1>5, <1>6, <1>9 DEF Walks, Framing, Complete, Todo
<1> QED BY <1>1, <1>7, <1>8 DEF Walks

LEMMA CloseWalks ==
    ASSUME NEW f, NEW f1, NEW sent, NEW t, Walks(f, sent, t), f.pc = "list", f.frames = <<>>,
           f1 = [f EXCEPT !.pc = "close"]
    PROVE  Walks(f1, Append(sent, CloseTag), t)
<1> DEFINE sent1 == Append(sent, CloseTag)
<1>1. /\ DOMAIN f1 = FindFields /\ f1.pc = "close" /\ f1.req = f.req /\ f1.frames = <<>> /\ f1.status = f.status
      /\ f1.missed = f.missed
  BY DEF Walks, Placed, FindFields
<1>2. sent \in Seq(Nodes \cup {CloseTag}) /\ CloseTag \notin {sent[i] : i \in DOMAIN sent}
  BY DEF Walks, Placed
<1>3. /\ Len(sent) \in Nat /\ DOMAIN sent = 1..Len(sent) /\ DOMAIN sent1 = 1..Len(sent) + 1
      /\ sent1 \in Seq(Nodes \cup {CloseTag})
      /\ sent1[Len(sent) + 1] = CloseTag /\ \A i \in 1..Len(sent) : sent1[i] = sent[i]
  BY <1>2, AppendTo
<1> HIDE DEF sent1
<1>4. Listed(sent1) = Listed(sent)
  <2>1. {sent1[i] : i \in DOMAIN sent1} = {sent[i] : i \in DOMAIN sent} \cup {CloseTag}
    BY <1>3
  <2> QED BY <2>1 DEF Listed
<1>5. Placed(f1, sent1)
  BY <1>1, <1>2, <1>3, EmptySeq DEF Walks, Placed
<1>6. Ordered(f.req, sent1)
  <2>1. \A i, j \in DOMAIN sent1 : i # j => sent1[i] # sent1[j]
    <3> SUFFICES ASSUME NEW i \in 1..Len(sent) + 1, NEW j \in 1..Len(sent) + 1, i # j PROVE sent1[i] # sent1[j]
      BY <1>3
    <3>1. CASE i \in 1..Len(sent) /\ j \in 1..Len(sent)
      BY <1>3, <3>1 DEF Walks, Ordered
    <3>2. CASE i = Len(sent) + 1 /\ j \in 1..Len(sent)
      BY <1>2, <1>3, <3>2
    <3>3. CASE j = Len(sent) + 1 /\ i \in 1..Len(sent)
      BY <1>2, <1>3, <3>3
    <3> QED BY <1>3, <3>1, <3>2, <3>3
  <2>2. ASSUME NEW i \in DOMAIN sent1, sent1[i] \notin {f.req.path, CloseTag}
        PROVE  \E j \in 1..i - 1 : sent1[j] = Above(sent1[i])
    <3>1. i \in 1..Len(sent)
      BY <1>3, <2>2
    <3>2. PICK j \in 1..i - 1 : sent[j] = Above(sent[i])
      BY <1>3, <2>2, <3>1 DEF Walks, Ordered
    <3>3. j \in 1..Len(sent)
      BY <1>3, <3>1
    <3> QED BY <1>3, <3>1, <3>2, <3>3
  <2> QED BY <1>4, <2>1, <2>2 DEF Walks, Ordered
<1>7. Framed(<<>>) = {}
  BY DEF Framed
<1>8. Framing(f1, sent1)
  BY <1>1, <1>4, <1>7 DEF Walks, Framing
<1>9. Complete(f1, sent1, t)
  <2>1. Todo(f) = {}
    BY <1>7 DEF Todo
  <2> QED BY <1>1, <1>4, <2>1 DEF Walks, Complete
<1> QED BY <1>1, <1>5, <1>6, <1>8, <1>9 DEF Walks, sent1

LEMMA AcceptWalks ==
    ASSUME NEW f, NEW f1, NEW t, TreeFits(t), DOMAIN f = FindFields, f.req \in FindRequests, f.frames = <<>>,
           f1 = [f EXCEPT !.pc = "write", !.status = 207, !.next = f.req.path],
           ~HiddenPath(f.req.hide, f.req.path), f.req.path \in t.now
    PROVE  Walks(f1, <<>>, t)
<1> DEFINE base == f.req.path
<1>1. /\ DOMAIN f1 = FindFields /\ f1.pc = "write" /\ f1.status = 207 /\ f1.next = base
      /\ f1.req = f.req /\ f1.frames = <<>>
  BY DEF FindFields
<1>2. base \in Nodes /\ base \in Seq(STRING) /\ Len(base) \in Nat
  BY FindAssumption DEF TreeFits
<1>3. Listed(<<>>) = {} /\ Framed(<<>>) = {} /\ DOMAIN <<>> = {}
  BY DEF Listed, Framed
<1>4. Placed(f1, <<>>)
  <2>1. CloseTag \notin {<<>>[i] : i \in DOMAIN <<>>}
    BY <1>3
  <2>2. <<>> \in Seq(Nodes \cup {CloseTag}) /\ <<>> \in Seq(SUBSET Nodes)
    BY EmptySeq
  <2>3. f1.req \in FindRequests /\ f1.req.path \in Nodes /\ ~HiddenPath(f1.req.hide, f1.req.path)
    BY <1>1, <1>2
  <2>4. f1.frames \in Seq(SUBSET Nodes) /\ f1.pc \in {"write", "read", "list", "close"} /\ f1.pc # "close"
    BY <1>1, <2>2
  <2> HIDE DEF base
  <2> QED BY ONLY <1>1, <2>1, <2>2, <2>3, <2>4, Zenon DEF Placed
<1>5. Ordered(f1.req, <<>>)
  BY <1>3 DEF Ordered
<1>6. base \in InScope(f.req)
  <2>1. SubSeq(base, 1, Len(base)) = base
    BY <1>2, SubSeqFull
  <2>2. f.req.depth = Infinity \/ Len(base) <= Len(base) + f.req.depth
    BY <1>2, FindAssumption DEF Infinity
  <2>3. Len(base) + 1..Len(base) = {}
    BY <1>2
  <2> QED BY <1>2, <2>1, <2>2, <2>3 DEF InScope
<1>7. Framing(f1, <<>>)
  BY <1>1, <1>3, <1>6 DEF Framing
<1>8. Complete(f1, <<>>, t)
  <2> SUFFICES ASSUME NEW p \in InScope(f.req)
               PROVE  \E n \in Len(base)..Len(p) : SubSeq(p, 1, n) \in Todo(f1)
    BY <1>1 DEF Complete
  <2>1. /\ Len(p) \in Nat /\ Len(p) >= Len(base) /\ SubSeq(p, 1, Len(base)) = base
    BY <1>2, ScopePaths
  <2>2. base \in Todo(f1)
    BY <1>1 DEF Todo
  <2>3. Len(base) \in Len(base)..Len(p)
    BY <1>2, <2>1
  <2> QED BY <2>1, <2>2, <2>3
<1> QED BY <1>1, <1>4, <1>5, <1>7, <1>8 DEF Walks

\* Others take a whole subtree away, or add a resource to a collection.
LEMMA MoveFits ==
    ASSUME TreeFits(tree), OthersMove
    PROVE  TreeFits(tree') /\ tree'.always \subseteq tree.always
<1>1. PICK path \in Nodes \ {<<>>} :
         LET gone == {q \in tree.now : Len(q) >= Len(path) /\ SubSeq(q, 1, Len(path)) = path}
             now == IF Exists(path) THEN tree.now \ gone ELSE tree.now \cup {path}
         IN  /\ Exists(Above(path))
             /\ tree' = [now |-> now, always |-> tree.always \cap now, moves |-> tree.moves + 1]
  BY DEF OthersMove
<1> DEFINE gone == {q \in tree.now : Len(q) >= Len(path) /\ SubSeq(q, 1, Len(path)) = path}
           now == IF Exists(path) THEN tree.now \ gone ELSE tree.now \cup {path}
<1>2. /\ DOMAIN tree' = {"now", "always", "moves"} /\ tree'.now = now /\ tree'.always = tree.always \cap now
  BY <1>1
<1>3. /\ tree.now \subseteq Nodes
      /\ \A q \in tree.now : \A n \in 0..Len(q) : SubSeq(q, 1, n) \in tree.now
  BY DEF TreeFits
<1>4. now \subseteq Nodes
  BY <1>3
<1>5. ASSUME NEW q \in now, NEW n \in 0..Len(q) PROVE SubSeq(q, 1, n) \in now
  <2>1. q \in Seq(STRING) /\ path \in Seq(STRING) /\ Len(q) \in Nat /\ Len(path) \in Nat
    BY <1>4, <1>5, FindAssumption
  <2>2. CASE Exists(path)
    <3>1. q \in tree.now /\ q \notin gone /\ now = tree.now \ gone
      BY <1>5, <2>2
    <3>2. SubSeq(q, 1, n) \in tree.now
      BY <1>3, <3>1
    <3>3. ASSUME SubSeq(q, 1, n) \in gone PROVE FALSE
      <4>1. Len(SubSeq(q, 1, n)) = n /\ n >= Len(path) /\ SubSeq(SubSeq(q, 1, n), 1, Len(path)) = path
        BY <2>1, <3>3, Prefix
      <4>2. Len(path) \in 0..n
        BY <2>1, <4>1
      <4>3. SubSeq(q, 1, Len(path)) = path /\ Len(q) >= Len(path)
        BY <2>1, <4>1, <4>2, Prefix
      <4> QED BY <3>1, <4>3
    <3> QED BY <3>1, <3>2, <3>3
  <2>3. CASE ~Exists(path)
    <3>1. now = tree.now \cup {path}
      BY <2>3
    <3>2. CASE q \in tree.now
      BY <1>3, <3>1, <3>2
    <3>3. CASE q = path /\ n = Len(path)
      BY <2>1, <3>1, <3>3, SubSeqFull
    <3>4. CASE q = path /\ n # Len(path)
      <4>1. n \in 0..Len(path) - 1 /\ n \in 0..Len(Above(path)) /\ SubSeq(Above(path), 1, n) = SubSeq(path, 1, n)
        BY <1>1, <2>1, <3>4, AboveIsPrefix
      <4> QED BY <1>1, <1>3, <3>1, <3>4, <4>1 DEF Exists
    <3> QED BY <1>5, <3>1, <3>2, <3>3, <3>4
  <2> QED BY <2>2, <2>3
<1> HIDE DEF now
<1>6. \A q \in now : \A n \in 0..Len(q) : SubSeq(q, 1, n) \in now
  BY <1>5
<1> QED BY <1>2, <1>4, <1>6 DEF TreeFits

LEMMA InitWalks == Init => Walking
<1> SUFFICES ASSUME Init, find.pc # "idle" PROVE Walking
  BY DEF Walking
<1>1. get.pc = "idle" /\ multi.pc = "idle" /\ FindInit("start") /\ stream[Body] = Fresh
  BY StreamsAssumption DEF Init, IdleFind, IdleGet, MultiInit
<1>2. /\ DOMAIN find = FindFields /\ find.pc = "start" /\ find.status = 0 /\ find.req \in FindRequests
      /\ find.frames = <<>> /\ tree = [now |-> Nodes, always |-> Nodes, moves |-> 0]
  BY <1>1 DEF FindInit, FindFields
<1>3. \A path \in Nodes : \A n \in 0..Len(path) : SubSeq(path, 1, n) \in Nodes
  <2> SUFFICES ASSUME NEW path \in Nodes, NEW n \in 0..Len(path) PROVE SubSeq(path, 1, n) \in Nodes
    OBVIOUS
  <2>1. path \in Seq(STRING) /\ Len(path) \in Nat
    BY FindAssumption
  <2>2. CASE n = Len(path)
    BY <2>1, <2>2, SubSeqFull
  <2>3. CASE n # Len(path)
    BY <2>1, <2>3, FindAssumption
  <2> QED BY <2>2, <2>3
<1>4. TreeFits(tree)
  BY <1>2, <1>3 DEF TreeFits
<1> QED BY <1>1, <1>2, <1>4 DEF Walking, Untouched, Fresh

\* Before there is a response, the body is not polled.
LEMMA StartWalks ==
    ASSUME AllFlow, Walking, find.pc \in {"start", "done"}, FindNext, UNCHANGED <<get, multi>>
    PROVE  Walking'
<1>1. /\ get.pc = "idle" /\ multi.pc = "idle" /\ TreeFits(tree) /\ find.status # 207
      /\ DOMAIN find = FindFields /\ find.req \in FindRequests
      /\ Untouched(stream[Body]) /\ find.frames = <<>>
  BY DEF Walking
<1>2. ~Runs(Body)
  BY <1>1 DEF Runs, Untouched
<1>3. Accept
  BY <1>1, <1>2 DEF FindNext, PollFind, FindAwaits, WriteProps, ReadDirectory, SkipEntry, NextEntry,
                    EndDirectory, EndFind, OthersMove, At, Send, Return, Await
<1>4. UNCHANGED <<stream, tree>>
  BY <1>3 DEF Accept
<1>5. \/ \E status \in {403, 404, 400} : FindsWith(status)
      \/ /\ ~HiddenPath(find.req.hide, find.req.path) /\ Exists(find.req.path)
         /\ find' = [find EXCEPT !.pc = "write", !.status = 207, !.next = find.req.path]
  BY <1>3 DEF Accept
<1>6. CASE \E status \in {403, 404, 400} : FindsWith(status)
  <2>1. PICK status \in {403, 404, 400} : find' = [find EXCEPT !.pc = "done", !.status = status]
    BY <1>6 DEF FindsWith
  <2>2. /\ DOMAIN find' = FindFields /\ find'.pc = "done" /\ find'.status # 207 /\ find'.req = find.req
        /\ find'.frames = <<>>
    BY <1>1, <2>1 DEF FindFields
  <2> QED BY <1>1, <1>4, <2>2 DEF Walking
<1>7. CASE /\ ~HiddenPath(find.req.hide, find.req.path) /\ Exists(find.req.path)
           /\ find' = [find EXCEPT !.pc = "write", !.status = 207, !.next = find.req.path]
  <2>1. Walks(find', <<>>, tree)
    BY <1>1, <1>7, AcceptWalks DEF Exists
  <2>2. stream'[Body].sent = <<>> /\ stream'[Body].fut # "ok"
    BY <1>1, <1>4 DEF Untouched
  <2>3. find'.pc = "write"
    BY <1>1, <1>7 DEF FindFields
  <2> QED BY <1>1, <1>4, <2>1, <2>2, <2>3 DEF Walking
<1> QED BY <1>5, <1>6, <1>7

LEMMA FindWalks ==
    ASSUME AllFlow, AllFlow', Walking, find.pc \notin {"idle", "start", "done"}, FindNext, UNCHANGED <<get, multi>>
    PROVE  Walking'
<1> DEFINE sent == stream[Body].sent
           sent1 == stream'[Body].sent
<1>1. /\ get.pc = "idle" /\ multi.pc = "idle" /\ TreeFits(tree)
      /\ Walks(find, sent, tree) /\ (stream[Body].fut = "ok" => find.pc = "close")
  BY DEF Walking
<1>2. Body \in Streams /\ Flows(stream[Body]) /\ Flows(stream'[Body])
  BY StreamsAssumption DEF AllFlow
<1>3. DOMAIN find = FindFields
  BY <1>1 DEF Walks, Placed
<1>4. ASSUME Walks(find', sent1, tree'), TreeFits(tree'), stream'[Body].fut = "ok" => find'.pc = "close"
      PROVE  Walking'
  <2>1. find'.pc \notin {"idle", "start", "done"}
    BY <1>4 DEF Walks, Placed
  <2> QED BY <1>1, <1>4, <2>1 DEF Walking
<1> HIDE DEF sent, sent1
<1>5. CASE Accept
  BY <1>5 DEF Accept
<1>6. CASE PollFind \/ FindAwaits
  <2>1. sent1 = sent /\ stream'[Body].fut # "ok" /\ find' = find /\ tree' = tree
    BY <1>2, <1>6, PollStep, AwaitStep DEF PollFind, FindAwaits, sent, sent1
  <2> QED BY <1>1, <1>4, <2>1
<1>7. CASE WriteProps
  <2> DEFINE pc == IF Descends(find.next) THEN "read" ELSE "list"
  <2>1. /\ sent1 = Append(sent, find.next) /\ stream'[Body].answer = "item" /\ tree' = tree
        /\ find.pc = "write" /\ find' = [find EXCEPT !.pc = pc]
    BY <1>2, <1>7, SendStep DEF WriteProps, At, sent, sent1
  <2>2. pc \in {"read", "list"} /\ (pc = "read" <=> find.next \in Collections /\ Reads(find.req, find.next))
    BY DEF Descends, IsDir, Reads
  <2> HIDE DEF pc
  <2>3. Walks(find', sent1, tree)
    BY <1>1, <2>1, <2>2, WriteWalks
  <2>4. stream'[Body].fut # "ok"
    BY <1>2, <2>1 DEF Flows
  <2> QED BY <1>1, <1>4, <2>1, <2>3, <2>4
<1>8. CASE ReadDirectory
  <2> DEFINE all == Members
  <2>1. /\ sent1 = sent /\ tree' = tree /\ stream'[Body] = stream[Body] /\ find.pc = "read" /\ Runs(Body)
    BY <1>8 DEF ReadDirectory, At, sent, sent1
  <2>4. \/ find' = [find EXCEPT !.pc = "list", !.frames = Append(@, all)]
        \/ find' = [find EXCEPT !.pc = "list", !.frames = Append(@, {}), !.missed = @ \cup all]
    BY <1>8 DEF ReadDirectory
  <2>2. all = {path \in tree.now \ {<<>>} : find.next \in tree.now /\ Above(path) = find.next}
    BY DEF Exists, Members
  <2> HIDE DEF all
  <2>5. PICK new, missed :
           /\ find' = [find EXCEPT !.pc = "list", !.frames = Append(@, new), !.missed = missed]
           /\ new \subseteq all /\ find.missed \subseteq missed /\ all \subseteq new \cup missed
    <3>1. CASE find' = [find EXCEPT !.pc = "list", !.frames = Append(@, all)]
      <4>1. find' = [find EXCEPT !.pc = "list", !.frames = Append(@, all), !.missed = find.missed]
        BY <1>3, <3>1 DEF FindFields
      <4> QED BY <4>1
    <3>2. CASE find' = [find EXCEPT !.pc = "list", !.frames = Append(@, {}), !.missed = @ \cup all]
      <4> DEFINE none == {}
                 missed == find.missed \cup all
      <4>1. find' = [find EXCEPT !.pc = "list", !.frames = Append(@, none), !.missed = missed]
        BY <3>2
      <4>2. none \subseteq all /\ find.missed \subseteq missed /\ all \subseteq none \cup missed
        OBVIOUS
      <4> HIDE DEF none, missed
      <4> QED BY <4>1, <4>2
    <3> QED BY <2>4, <3>1, <3>2
  <2>3. Walks(find', sent, tree)
    BY <1>1, <2>1, <2>2, <2>5, ReadWalks
  <2> QED BY <1>1, <1>4, <2>1, <2>3 DEF Runs
<1>9. CASE SkipEntry \/ NextEntry
  <2>1. PICK path \in InFrame :
           \/ \E missed : /\ find' = [find EXCEPT !.frames = WithoutEntry(path), !.missed = missed]
                          /\ find.missed \subseteq missed
                          /\ HiddenEntry(find.req.hide, "propfind", path) \/ ~Exists(path) \/ path \in missed
           \/ /\ ~HiddenEntry(find.req.hide, "propfind", path)
              /\ find' = [find EXCEPT !.pc = "write", !.next = path, !.frames = WithoutEntry(path)]
    <3>1. CASE SkipEntry
      <4>1. PICK path \in InFrame :
              LET fails == ~HiddenEntry(find.req.hide, "propfind", path) /\ Exists(path)
              IN  find' = [find EXCEPT !.frames = WithoutEntry(path),
                                       !.missed = IF fails THEN @ \cup {path} ELSE @]
        BY <3>1 DEF SkipEntry
      <4> DEFINE fails == ~HiddenEntry(find.req.hide, "propfind", path) /\ Exists(path)
                 missed == IF fails THEN find.missed \cup {path} ELSE find.missed
      <4>2. find' = [find EXCEPT !.frames = WithoutEntry(path), !.missed = missed]
        BY <4>1
      <4>3. /\ find.missed \subseteq missed
            /\ HiddenEntry(find.req.hide, "propfind", path) \/ ~Exists(path) \/ path \in missed
        OBVIOUS
      <4> HIDE DEF missed
      <4> QED BY <4>2, <4>3, Zenon
    <3>2. CASE NextEntry
      BY <3>2 DEF NextEntry
    <3> QED BY <1>9, <3>1, <3>2
  <2>2. /\ sent1 = sent /\ tree' = tree /\ stream'[Body] = stream[Body] /\ find.pc = "list" /\ Runs(Body)
        /\ find.frames # <<>>
    BY <1>9 DEF SkipEntry, NextEntry, At, sent, sent1
  <2> DEFINE frames == [find.frames EXCEPT ![Len(find.frames)] = @ \ {path}]
  <2>3. frames = WithoutEntry(path) /\ path \in Last(find.frames)
    BY DEF WithoutEntry, InFrame
  <2> HIDE DEF frames
  <2>4. /\ DOMAIN find' = FindFields /\ find'.req = find.req /\ find'.frames = frames /\ find'.status = find.status
        /\ find.missed \subseteq find'.missed
        /\ \/ /\ HiddenEntry(find.req.hide, "propfind", path) \/ path \notin tree.now \/ path \in find'.missed
              /\ find'.pc = "list"
           \/ /\ ~HiddenEntry(find.req.hide, "propfind", path)
              /\ find'.pc = "write" /\ find'.next = path
    BY <1>3, <2>1, <2>2, <2>3 DEF Exists, FindFields
  <2>5. Walks(find', sent, tree)
    BY <1>1, <2>2, <2>3, <2>4, EntryWalks DEF frames
  <2> QED BY <1>1, <1>4, <2>2, <2>5 DEF Runs
<1>10. CASE EndDirectory
  <2>1. /\ sent1 = sent /\ tree' = tree /\ stream'[Body] = stream[Body] /\ find.pc = "list" /\ Runs(Body)
        /\ find.frames # <<>> /\ Last(find.frames) = {} /\ find' = [find EXCEPT !.frames = Front(@)]
    BY <1>10 DEF EndDirectory, At, InFrame, sent, sent1
  <2>2. Walks(find', sent, tree)
    BY <1>1, <2>1, EndDirectoryWalks
  <2> QED BY <1>1, <1>4, <2>1, <2>2 DEF Runs
<1>11. CASE EndFind
  <2>1. tree' = tree
    BY <1>11 DEF EndFind
  <2>2. CASE At("list") /\ find.frames = <<>> /\ Send(Body, CloseTag) /\ find' = [find EXCEPT !.pc = "close"]
    <3>1. sent1 = Append(sent, CloseTag) /\ find.pc = "list" /\ find'.pc = "close"
      BY <1>2, <1>3, <2>2, SendStep DEF At, FindFields, sent, sent1
    <3>2. Walks(find', sent1, tree)
      BY <1>1, <2>2, <3>1, CloseWalks
    <3> QED BY <1>1, <1>4, <2>1, <3>1, <3>2
  <2>3. CASE At("close") /\ Return(Body, "ok") /\ UNCHANGED find
    <3>1. sent1 = sent /\ find' = find /\ find.pc = "close"
      BY <1>2, <2>3, ReturnStep DEF At, sent, sent1
    <3> QED BY <1>1, <1>4, <2>1, <3>1
  <2> QED BY <1>11, <2>2, <2>3 DEF EndFind
<1>12. CASE OthersMove
  <2>1. sent1 = sent /\ find' = find /\ stream' = stream
    BY <1>12 DEF OthersMove, sent, sent1
  <2>2. TreeFits(tree') /\ tree'.always \subseteq tree.always
    BY <1>1, <1>12, MoveFits
  <2>3. Walks(find, sent, tree')
    BY <1>1, <2>2 DEF Walks, Complete
  <2> QED BY <1>1, <1>4, <2>1, <2>2, <2>3
<1> QED BY <1>5, <1>6, <1>7, <1>8, <1>9, <1>10, <1>11, <1>12 DEF FindNext

LEMMA NextWalks == AllFlow /\ Walking /\ [Next]_vars => Walking'
<1> SUFFICES ASSUME AllFlow, AllFlow', Walking, [Next]_vars PROVE Walking'
  BY NextFlows
<1>1. Body \in Streams
  BY StreamsAssumption
<1>2. CASE find.pc = "idle"
  <2>1. find' = find
    BY <1>2 DEF Next, Steps, Others, vars, findVars, Finds, Take, GetNext, MultiNext
  <2> QED BY <1>2, <2>1 DEF Walking
<1>3. CASE find.pc # "idle"
  <2>1. get.pc = "idle" /\ multi.pc = "idle"
    BY <1>3 DEF Walking
  <2>2. /\ get' = get /\ multi' = multi
        /\ FindNext \/ (find' = find /\ tree' = tree /\ (Wake \/ TakeChunk \/ UNCHANGED stream))
    BY <2>1 DEF Next, Steps, Others, vars, getVars, findVars, Gets, Reporting, Take, FindNext
  <2>3. CASE FindNext
    BY <1>3, <2>2, <2>3, StartWalks, FindWalks
  <2>4. ASSUME find' = find, tree' = tree, stream'[Body].sent = stream[Body].sent,
               stream'[Body].fut = stream[Body].fut \/ (stream[Body].fut = "awaits" /\ stream'[Body].fut = "woken"),
               stream'[Body].answer = stream[Body].answer \/ stream[Body].answer = "item"
        PROVE  Walking'
    BY <1>3, <2>1, <2>2, <2>4 DEF Walking, Untouched
  <2>5. CASE find' = find /\ tree' = tree /\ Wake
    BY <1>1, <2>4, <2>5, WakeStep
  <2>6. CASE find' = find /\ tree' = tree /\ TakeChunk
    BY <1>1, <2>4, <2>6, TakeStep DEF TakeChunk
  <2>7. CASE find' = find /\ tree' = tree /\ UNCHANGED stream
    BY <2>4, <2>7
  <2> QED BY <2>2, <2>3, <2>5, <2>6, <2>7
<1> QED BY <1>2, <1>3

\* A PROPFIND (handle_props.rs) names each resource once and after its
\* collection, only what is within its depth and shown to clients, and all of
\* that which was there from its first step to its last, whatever others remove
\* and create between two steps of its walk, but for the entries it could not
\* read and what is below them: any tree, any depth.
THEOREM ListingIsTrue == Spec => []ListsWhatIsThere
<1>1. Init => AllFlow /\ Walking
  BY InitFlows, InitWalks
<1>2. AllFlow /\ Walking /\ [Next]_vars => AllFlow' /\ Walking'
  BY NextFlows, NextWalks
<1> QED BY <1>1, <1>2, WalkingIsTrue, PTL DEF Spec

-----------------------------------------------------------------------------
(* Induction over the naturals, for functions defined from their value     *)
(* before: the ranges that fit, the bytes that came out.                   *)

LEMMA Induction ==
    ASSUME NEW T, 0 \in T, \A n \in T \cap Nat : n + 1 \in T
    PROVE  Nat \subseteq T
<1> SUFFICES ASSUME NEW k \in Nat, k \notin T PROVE FALSE
  OBVIOUS
<1> DEFINE UpTo(n) == 0..n
           W == {UpTo(n) : n \in {m \in Nat : m \notin T}}
<1>1. W \subseteq FiniteSubsetsOf(Nat)
  <2> SUFFICES ASSUME NEW n \in Nat PROVE IsFiniteSet(0..n) /\ 0..n \subseteq Nat
    BY DEF FiniteSubsetsOf
  <2> QED BY FS_Interval
<1>2. W # {}
  OBVIOUS
<1>3. PICK w \in W : \A y \in W : <<y, w>> \notin StrictSubsetOrdering(Nat)
  <2> HIDE DEF W
  <2> QED BY ONLY <1>1, <1>2, FS_StrictSubsetOrderingWellFounded, WFMin
<1>4. PICK m \in Nat : m \notin T /\ w = 0..m
  OBVIOUS
<1>5. m # 0 /\ m - 1 \in Nat /\ (m - 1) + 1 = m
  BY <1>4
<1>6. UpTo(m - 1) \in W
  BY <1>4, <1>5
<1>7. UpTo(m - 1) \subseteq w /\ m \in w /\ m \notin UpTo(m - 1) /\ w \subseteq Nat
  BY <1>4, <1>5
<1>8. <<UpTo(m - 1), w>> \in StrictSubsetOrdering(Nat)
  <2> HIDE DEF UpTo, W
  <2> QED BY <1>7 DEF StrictSubsetOrdering
<1> QED BY <1>3, <1>6, <1>8

\* g starts with a and goes on as F says.
Iterates(g, n, S, a, F) ==
    /\ g \in [0..n -> S]
    /\ g[0] = a
    /\ \A i \in 1..n : g[i] = F[<<i, g[i - 1]>>]

LEMMA Recursion ==
    ASSUME NEW n \in Nat, NEW S, NEW a \in S, NEW F \in [(1..n) \X S -> S]
    PROVE  \E g : Iterates(g, n, S, a, F)
<1> DEFINE T == {k \in Nat : k <= n => \E g : Iterates(g, k, S, a, F)}
<1>1. 0 \in T
  <2>1. Iterates([i \in 0..0 |-> a], 0, S, a, F)
    BY DEF Iterates
  <2> QED BY <2>1
<1>2. ASSUME NEW k \in T \cap Nat PROVE k + 1 \in T
  <2>1. SUFFICES ASSUME k + 1 <= n PROVE \E g : Iterates(g, k + 1, S, a, F)
    OBVIOUS
  <2>2. PICK g : Iterates(g, k, S, a, F)
    BY <2>1
  <2> DEFINE h == [i \in 0..(k + 1) |-> IF i = k + 1 THEN F[<<k + 1, g[k]>>] ELSE g[i]]
  <2>3. F[<<k + 1, g[k]>>] \in S
    BY <2>1, <2>2 DEF Iterates
  <2>4. h \in [0..(k + 1) -> S]
    BY <2>2, <2>3 DEF Iterates
  <2>5. h[0] = a
    BY <2>2 DEF Iterates
  <2>6. ASSUME NEW i \in 1..(k + 1) PROVE h[i] = F[<<i, h[i - 1]>>]
    <3>0. i - 1 \in 0..(k + 1) /\ h[i - 1] = g[i - 1]
      OBVIOUS
    <3>1. CASE i = k + 1
      <4>1. h[k + 1] = F[<<k + 1, g[k]>>] /\ i - 1 = k
        BY <3>1
      <4> QED BY <3>0, <3>1, <4>1
    <3>2. CASE i # k + 1
      BY <2>2, <3>0, <3>2 DEF Iterates
    <3> QED BY <3>1, <3>2
  <2>7. Iterates(h, k + 1, S, a, F)
    BY <2>4, <2>5, <2>6 DEF Iterates
  <2> QED BY <2>7
<1>3. Nat \subseteq T
  <2> HIDE DEF T
  <2> QED BY <1>1, <1>2, Induction
<1> QED BY <1>3

-----------------------------------------------------------------------------
(* Sequences that are joined.                                              *)

\* What FlattenSeq adds for one sequence more
Joins(s, S) == [w \in (1..Len(s)) \X Seq(S) |-> w[2] \o s[w[1]]]

LEMMA FlattenIs ==
    ASSUME NEW S, NEW s \in Seq(Seq(S))
    PROVE  \E g : Iterates(g, Len(s), Seq(S), <<>>, Joins(s, S)) /\ FlattenSeq(s) = g[Len(s)]
<1> DEFINE n == Len(s)
           F == Joins(s, S)
           Is(f) == f = [i \in 1..n |-> IF i = 1 THEN s[i] ELSE f[i - 1] \o s[i]]
<1>1. n \in Nat /\ \A i \in 1..n : s[i] \in Seq(S)
  OBVIOUS
<1>2. <<>> \in Seq(S)
  OBVIOUS
<1>3. ASSUME NEW i \in 1..n, NEW x \in Seq(S) PROVE F[<<i, x>>] = x \o s[i] /\ x \o s[i] \in Seq(S)
  <2> DEFINE w == <<i, x>>
  <2>1. w \in (1..n) \X Seq(S) /\ w[1] = i /\ w[2] = x
    OBVIOUS
  <2>2. s[i] \in Seq(S)
    BY <1>1
  <2>3. F[w] = w[2] \o s[w[1]]
    <3> HIDE DEF w
    <3> QED BY <2>1 DEF Joins
  <2> HIDE DEF F
  <2>4. F[w] = x \o s[i]
    BY <2>1, <2>3
  <2> QED BY <2>2, <2>4
<1>4. F \in [(1..n) \X Seq(S) -> Seq(S)]
  <2>1. \A w \in (1..n) \X Seq(S) : w[2] \o s[w[1]] \in Seq(S)
    BY <1>1
  <2> QED BY <2>1 DEF Joins
<1> HIDE DEF F
<1>5. PICK g : Iterates(g, n, Seq(S), <<>>, F)
  <2> HIDE DEF n
  <2> QED BY <1>1, <1>2, <1>4, Recursion
<1> HIDE DEF n
<1>6. /\ g[0] = <<>> /\ \A i \in 0..n : g[i] \in Seq(S)
      /\ \A i \in 1..n : g[i] = g[i - 1] \o s[i]
  <2>1. ASSUME NEW i \in 1..n PROVE g[i] = g[i - 1] \o s[i]
    <3>1. i - 1 \in 0..n /\ g[i - 1] \in Seq(S)
      BY <1>1, <1>5 DEF Iterates
    <3>2. g[i] = F[<<i, g[i - 1]>>]
      BY <1>5 DEF Iterates
    <3> QED BY <1>3, <3>1, <3>2
  <2> QED BY <1>5, <2>1 DEF Iterates
<1>7. CASE n = 0
  <2>1. s = <<>>
    BY <1>7 DEF n
  <2>2. FlattenSeq(s) = s
    BY <1>7 DEF FlattenSeq, n
  <2> QED BY <1>5, <1>6, <1>7, <2>1, <2>2 DEF F, n
<1>8. CASE n # 0
  <2> DEFINE h == [i \in 1..n |-> g[i]]
             f == CHOOSE f : Is(f)
  <2>1. Is(h)
    <3> SUFFICES ASSUME NEW i \in 1..n
                 PROVE  h[i] = IF i = 1 THEN s[i] ELSE h[i - 1] \o s[i]
      OBVIOUS
    <3>1. CASE i = 1
      <4>0. i - 1 = 0
        BY <3>1
      <4>1. i - 1 = 0 /\ g[i] = g[i - 1] \o s[i] /\ s[i] \in Seq(S)
        BY <1>1, <1>6, <4>0
      <4>2. <<>> \o s[i] = s[i]
        BY <4>1, ConcatEmptySeq
      <4> QED BY <1>6, <3>1, <4>1, <4>2
    <3>2. CASE i # 1
      <4>1. i - 1 \in 1..n
        BY <1>1, <3>2
      <4> QED BY <1>6, <3>2, <4>1
    <3> QED BY <3>1, <3>2
  <2>2. Is(f)
    <3> HIDE DEF Is, h
    <3> QED BY <2>1
  <2>3. FlattenSeq(s) = f[n]
    BY <1>8 DEF FlattenSeq, n
  <2> HIDE DEF f
  <2> DEFINE T == {i \in Nat : i + 1 <= n => f[i + 1] = g[i + 1]}
  <2>4. f[1] = g[1]
    <3>1. 1 \in 1..n /\ 1 - 1 = 0
      BY <1>1, <1>8
    <3>2. f[1] = s[1] /\ g[1] = g[0] \o s[1] /\ s[1] \in Seq(S)
      BY <1>1, <1>6, <2>2, <3>1
    <3>3. <<>> \o s[1] = s[1]
      BY <3>2, ConcatEmptySeq
    <3> QED BY <1>6, <3>2, <3>3
  <2>5. 0 \in T
    BY <2>4
  <2>6. ASSUME NEW i \in T \cap Nat PROVE i + 1 \in T
    <3> SUFFICES ASSUME i + 1 + 1 <= n PROVE f[i + 1 + 1] = g[i + 1 + 1]
      OBVIOUS
    <3> DEFINE j == i + 1 + 1
    <3>1. j \in 1..n /\ j # 1 /\ j - 1 = i + 1 /\ i + 1 <= n
      BY <1>1
    <3>2. f[i + 1] = g[i + 1]
      BY <3>1
    <3> HIDE DEF j
    <3>3. f[j] = f[j - 1] \o s[j] /\ g[j] = g[j - 1] \o s[j]
      BY <1>6, <2>2, <3>1
    <3>4. f[j] = g[j]
      BY <3>1, <3>2, <3>3
    <3> QED BY <3>4 DEF j
  <2>7. Nat \subseteq T
    <3> HIDE DEF T
    <3> QED BY <2>5, <2>6, Induction
  <2>8. n - 1 \in Nat /\ (n - 1) + 1 = n
    BY <1>1, <1>8
  <2>9. f[n] = g[n]
    BY <2>7, <2>8
  <2> QED BY <1>5, <2>3, <2>9 DEF F, n
<1> QED BY <1>7, <1>8

LEMMA JoinsIs ==
    ASSUME NEW S, NEW s \in Seq(Seq(S)), NEW g, Iterates(g, Len(s), Seq(S), <<>>, Joins(s, S))
    PROVE  /\ g[0] = <<>> /\ \A i \in 0..Len(s) : g[i] \in Seq(S)
           /\ \A i \in 1..Len(s) : s[i] \in Seq(S) /\ g[i] = g[i - 1] \o s[i]
<1> DEFINE n == Len(s)
           F == Joins(s, S)
<1>1. n \in Nat /\ \A i \in 1..n : s[i] \in Seq(S)
  OBVIOUS
<1>2. g[0] = <<>> /\ \A i \in 0..n : g[i] \in Seq(S)
  BY DEF Iterates
<1>3. ASSUME NEW i \in 1..n PROVE g[i] = g[i - 1] \o s[i]
  <2> DEFINE w == <<i, g[i - 1]>>
  <2>1. i - 1 \in 0..n
    BY <1>1
  <2>2. w \in (1..n) \X Seq(S) /\ w[1] = i /\ w[2] = g[i - 1]
    BY <1>2, <2>1
  <2>3. g[i] = F[w]
    BY DEF Iterates
  <2> HIDE DEF w
  <2>4. F[w] = w[2] \o s[w[1]]
    BY <2>2 DEF Joins
  <2> QED BY <2>2, <2>3, <2>4
<1> QED BY <1>1, <1>2, <1>3

LEMMA FlattenEmpty == FlattenSeq(<<>>) = <<>>
BY DEF FlattenSeq

LEMMA FlattenAppend ==
    ASSUME NEW S, NEW s \in Seq(Seq(S)), NEW x \in Seq(S)
    PROVE  /\ FlattenSeq(s) \in Seq(S)
           /\ FlattenSeq(Append(s, x)) = FlattenSeq(s) \o x
<1> DEFINE n == Len(s)
           t == Append(s, x)
<1>1. /\ n \in Nat /\ n + 1 \in Nat /\ Len(t) = n + 1 /\ t[n + 1] = x
      /\ t \in Seq(Seq(S))
      /\ \A i \in 1..n : t[i] = s[i]
  OBVIOUS
<1>2. PICK g : Iterates(g, n, Seq(S), <<>>, Joins(s, S)) /\ FlattenSeq(s) = g[n]
  BY FlattenIs
<1> HIDE DEF t
<1>3. PICK h : Iterates(h, Len(t), Seq(S), <<>>, Joins(t, S)) /\ FlattenSeq(t) = h[n + 1]
  BY <1>1, FlattenIs
<1>4. /\ g[0] = <<>> /\ \A i \in 0..n : g[i] \in Seq(S)
      /\ \A i \in 1..n : g[i] = g[i - 1] \o s[i]
  BY <1>2, JoinsIs
<1>5. h[0] = <<>> /\ \A i \in 1..Len(t) : h[i] = h[i - 1] \o t[i]
  BY ONLY <1>1, <1>3, JoinsIs
<1> HIDE DEF n
<1> DEFINE T == {i \in Nat : i <= n => g[i] = h[i]}
<1>6. 0 \in T
  BY <1>4, <1>5
<1>7. ASSUME NEW i \in T \cap Nat PROVE i + 1 \in T
  <2>1. SUFFICES ASSUME i + 1 <= n PROVE g[i + 1] = h[i + 1]
    OBVIOUS
  <2> DEFINE j == i + 1
  <2>2. j \in 1..n /\ j \in 1..Len(t) /\ j - 1 = i /\ i <= n
    BY <1>1, <2>1
  <2>3. g[i] = h[i]
    BY <2>2
  <2> HIDE DEF j
  <2>4. g[j] = g[i] \o s[j] /\ h[j] = h[i] \o t[j] /\ t[j] = s[j]
    BY <1>1, <1>4, <1>5, <2>2
  <2>5. g[j] = h[j]
    BY ONLY <2>3, <2>4
  <2> QED BY <2>5 DEF j
<1>8. g[n] = h[n] /\ g[n] \in Seq(S)
  <2>1. Nat \subseteq T
    <3> HIDE DEF T
    <3> QED BY <1>6, <1>7, Induction
  <2>2. n \in T /\ n <= n /\ n \in 0..n
    <3> HIDE DEF T
    <3> QED BY <1>1, <2>1
  <2> QED BY <1>4, <2>2
<1>9. h[n + 1] = h[n] \o x
  <2>1. n + 1 \in 1..Len(t) /\ (n + 1) - 1 = n
    BY <1>1
  <2> QED BY <1>1, <1>5, <2>1
<1> QED BY <1>2, <1>3, <1>8, <1>9 DEF t

LEMMA FlattenHead ==
    ASSUME NEW S, NEW s \in Seq(Seq(S)), s # <<>>
    PROVE  /\ Head(s) \in Seq(S) /\ FlattenSeq(Tail(s)) \in Seq(S)
           /\ FlattenSeq(s) = Head(s) \o FlattenSeq(Tail(s))
<1> DEFINE n == Len(Tail(s))
           t == Tail(s)
<1>1. /\ n \in Nat /\ n + 1 = Len(s) /\ t \in Seq(Seq(S)) /\ Head(s) = s[1] /\ s[1] \in Seq(S)
      /\ \A i \in 1..n : t[i] = s[i + 1]
  <2>1. Len(s) \in Nat \ {0}
    BY EmptySeq
  <2> QED BY <2>1, HeadTailProperties
<1> HIDE DEF t
<1>2. PICK g : Iterates(g, n + 1, Seq(S), <<>>, Joins(s, S)) /\ FlattenSeq(s) = g[n + 1]
  BY <1>1, FlattenIs
<1>3. PICK h : Iterates(h, n, Seq(S), <<>>, Joins(t, S)) /\ FlattenSeq(t) = h[n]
  BY <1>1, FlattenIs DEF t
<1>4. /\ g[0] = <<>> /\ \A i \in 1..n + 1 : s[i] \in Seq(S) /\ g[i] = g[i - 1] \o s[i]
      /\ h[0] = <<>> /\ \A i \in 0..n : h[i] \in Seq(S)
      /\ \A i \in 1..n : h[i] = h[i - 1] \o t[i]
  <2>0. t \in Seq(Seq(S))
    BY <1>1
  <2>1. Iterates(h, Len(t), Seq(S), <<>>, Joins(t, S)) /\ n = Len(t)
    BY <1>3 DEF t
  <2>2. /\ h[0] = <<>> /\ \A i \in 0..Len(t) : h[i] \in Seq(S)
        /\ \A i \in 1..Len(t) : h[i] = h[i - 1] \o t[i]
    BY ONLY <2>0, <2>1, JoinsIs
  <2>3. Iterates(g, Len(s), Seq(S), <<>>, Joins(s, S))
    BY <1>1, <1>2
  <2>4. g[0] = <<>> /\ \A i \in 1..Len(s) : s[i] \in Seq(S) /\ g[i] = g[i - 1] \o s[i]
    BY <2>3, JoinsIs
  <2> HIDE DEF n
  <2> QED BY <1>1, <2>1, <2>2, <2>4
<1> HIDE DEF n
<1> DEFINE T == {i \in Nat : i <= n => g[i + 1] = s[1] \o h[i]}
<1>5. 0 \in T
  <2>1. 1 \in 1..n + 1 /\ 1 - 1 = 0 /\ 0 + 1 = 1
    BY <1>1
  <2>2. g[1] = <<>> \o s[1]
    BY <1>4, <2>1
  <2>3. <<>> \o s[1] = s[1] /\ s[1] \o <<>> = s[1]
    BY <1>1, ConcatEmptySeq
  <2> QED BY <1>4, <2>1, <2>2, <2>3
<1>6. ASSUME NEW i \in T \cap Nat PROVE i + 1 \in T
  <2>0. i \in Nat /\ i + 1 \in Nat /\ (i <= n => g[i + 1] = s[1] \o h[i])
    <3>1. i \in T /\ i \in Nat
      BY <1>6
    <3>2. i + 1 \in Nat
      BY <3>1
    <3> QED BY <3>1, <3>2, Zenon
  <2>7. SUFFICES ASSUME i + 1 <= n PROVE g[i + 1 + 1] = s[1] \o h[i + 1]
    BY <2>0, Zenon
  <2> HIDE DEF T
  <2>1. /\ i + 1 + 1 \in 1..n + 1 /\ (i + 1 + 1) - 1 = i + 1 /\ i <= n
        /\ i + 1 \in 1..n /\ (i + 1) - 1 = i /\ i \in 0..n
    BY <1>1, <2>0, <2>7
  <2>2. g[i + 1] = s[1] \o h[i]
    BY <2>0, <2>1
  <2> DEFINE j == i + 1
  <2> HIDE DEF j
  <2>3. g[j + 1] = g[j] \o s[j + 1] /\ h[j] = h[i] \o t[j]
    BY <1>4, <2>1 DEF j
  <2>4. t[j] = s[j + 1] /\ s[j + 1] \in Seq(S) /\ h[i] \in Seq(S)
    BY <1>1, <1>4, <2>1 DEF j
  <2>5. (s[1] \o h[i]) \o s[j + 1] = s[1] \o (h[i] \o s[j + 1])
    <3> DEFINE a == s[1]
               b == h[i]
               c == s[j + 1]
    <3>1. a \in Seq(S) /\ b \in Seq(S) /\ c \in Seq(S)
      BY <1>1, <2>4
    <3> HIDE DEF a, b, c
    <3>2. (a \o b) \o c = a \o (b \o c)
      BY ONLY <3>1, ConcatAssociative
    <3> QED BY <3>2 DEF a, b, c
  <2>6. g[j + 1] = s[1] \o h[j]
    BY <2>2, <2>3, <2>4, <2>5 DEF j
  <2> QED BY <2>6 DEF j
<1>7. Nat \subseteq T
  <2> HIDE DEF T
  <2> QED BY <1>5, <1>6, Induction
<1>8. g[n + 1] = s[1] \o h[n] /\ h[n] \in Seq(S)
  <2>0. n \in Nat /\ n \in 0..n /\ n <= n
    BY <1>1
  <2>1. n \in T /\ n \in 0..n /\ n <= n
    <3> HIDE DEF T
    <3> QED BY <1>7, <2>0
  <2> QED BY <1>4, <2>1, Zenon
<1> QED BY <1>1, <1>2, <1>3, <1>8 DEF t

-----------------------------------------------------------------------------
(* What is promised.                                                       *)

LEMMA SmallMod == ASSUME NEW m \in Nat, NEW x \in 0..m PROVE x % (m + 1) = x
  OBVIOUS

\* The n offsets from a on
Seg(a, n) == [i \in 1..n |-> a + i - 1]

LEMMA SegIs ==
    ASSUME NEW a \in Int, NEW n \in Nat
    PROVE  /\ Seg(a, n) \in Seq(Int) /\ Len(Seg(a, n)) = n
           /\ \A i \in 1..n : Seg(a, n)[i] = a + i - 1
<1>1. Seg(a, n) \in [1..n -> Int]
  BY DEF Seg
<1>2. Seg(a, n) \in Seq(Int) /\ Len(Seg(a, n)) = n
  BY <1>1
<1>3. \A i \in 1..n : Seg(a, n)[i] = a + i - 1
  BY DEF Seg
<1> QED BY <1>2, <1>3

LEMMA IntervalSorted ==
    ASSUME NEW a \in Int, NEW n \in Nat
    PROVE  Sorted(a..a + n - 1, <) = Seg(a, n)
<1> DEFINE S == a..a + n - 1
           upTo(e) == {o \in S : o < e}
<1>1. Cardinality(S) = n
  BY FS_Interval
<1>2. ASSUME NEW e \in S PROVE Cardinality(upTo(e)) = e - a
  <2>1. upTo(e) = a..e - 1
    OBVIOUS
  <2> HIDE DEF upTo
  <2>2. a \in Int /\ e - 1 \in Int /\ e \in Int
    BY <1>2
  <2>3. Cardinality(a..e - 1) = IF a > e - 1 THEN 0 ELSE (e - 1) - a + 1
    BY <2>2, FS_Interval
  <2> QED BY <1>2, <2>1, <2>2, <2>3
<1> HIDE DEF upTo
<1>3. ASSUME NEW i \in 1..n PROVE (CHOOSE e \in S : Cardinality(upTo(e)) = i - 1) = a + i - 1
  <2>1. a + i - 1 \in S
    OBVIOUS
  <2>2. \A e \in S : Cardinality(upTo(e)) = i - 1 <=> e = a + i - 1
    BY <1>2
  <2> HIDE DEF S
  <2> QED BY <2>1, <2>2
<1> QED BY <1>1, <1>3 DEF Sorted, Seg, upTo

LEMMA SliceIs ==
    ASSUME NEW spec \in RangeSpecs, NEW len \in Nat, MaxU64 \in Nat, len < MaxU64,
           NEW r, r = Bounds(spec, len), Served(spec, len), Valid(r, len)
    PROVE  /\ r.first \in Nat /\ Count(r, len) \in Nat /\ r.first + Count(r, len) <= len
           /\ Wanted(spec, len) # {}
           /\ Slice(spec, len) = Seg(r.first, Count(r, len))
<1> DEFINE a == r.first
           b == min(End(r), len - 1)
           n == b - a + 1
<1>1. /\ spec.first \in Nat \cup {Unset} /\ spec.last \in Nat \cup {Unset}
      /\ spec.first = Unset /\ spec.last # Unset => a = len - spec.last /\ r.last = Unset
      /\ ~(spec.first = Unset /\ spec.last # Unset) => r = spec
  BY DEF RangeSpecs, Bounds
<1>2. a # Unset /\ a < len /\ (r.last # Unset => r.last >= a)
  BY DEF Valid
<1>3. spec.first = Unset => spec.last \in Nat /\ spec.last <= len
  BY <1>1, <1>2 DEF Served, Unset
<1>4. a \in Nat /\ r.last \in Nat \cup {Unset}
  BY <1>1, <1>2, <1>3 DEF Unset
<1>5. b \in a..len - 1 /\ b = IF r.last # Unset /\ r.last <= len - 1 THEN r.last ELSE len - 1
  BY <1>2, <1>4 DEF min, End, Unset
<1>6. n \in 1..len /\ n \in 0..MaxU64 /\ a + n <= len /\ n \in Nat /\ b = a + n - 1
  BY <1>4, <1>5
<1>7. Count(r, len) = n
  <2> HIDE DEF n
  <2>1. n % (MaxU64 + 1) = n
    BY <1>6, SmallMod
  <2> QED BY <2>1 DEF Count, n
<1>8. Wanted(spec, len) = a..a + n - 1
  <2>1. ASSUME NEW p \in Int
        PROVE  p \in Wanted(spec, len) <=> p \in a..b
    <3>1. CASE spec.first = Unset
      <4>1. a = len - spec.last /\ r.last = Unset /\ b = len - 1
        BY <1>1, <1>3, <1>5, <3>1 DEF Unset
      <4> QED BY <1>3, <1>4, <3>1, <4>1 DEF Wanted
    <3>2. CASE spec.first # Unset
      <4>1. r = spec
        BY <1>1, <3>2
      <4> QED BY <1>4, <1>5, <3>2, <4>1 DEF Wanted, Unset
    <3> QED BY <3>1, <3>2
  <2>2. Wanted(spec, len) \subseteq Int /\ a..b \subseteq Int
    BY DEF Wanted
  <2> HIDE DEF a, b
  <2>3. Wanted(spec, len) = a..b
    BY <2>1, <2>2
  <2> QED BY <1>6, <2>3
<1> HIDE DEF a, b, n
<1>9. Slice(spec, len) = Seg(a, n)
  <2>1. Sorted(a..a + n - 1, <) = Seg(a, n)
    <3>1. a \in Int /\ n \in Nat
      BY <1>4, <1>6
    <3> QED BY ONLY <3>1, IntervalSorted DEF Sorted
  <2> QED BY <1>8, <2>1 DEF Slice, Sorted
<1>10. a \in Wanted(spec, len)
  BY <1>4, <1>6, <1>8
<1> QED BY <1>4, <1>6, <1>7, <1>9, <1>10 DEF a

AnyRange == [first : Int, last : Int]

LEMMA FitsAppend ==
    ASSUME NEW s \in Seq(RangeSpecs), NEW x \in RangeSpecs, NEW len \in Nat
    PROVE  /\ SatisfiableRanges(s, len) \in Seq(AnyRange)
           /\ Bounds(x, len) \in AnyRange
           /\ SatisfiableRanges(Append(s, x), len) = SatisfiableRanges(s, len) \o Fits(x, len)
<1> DEFINE map(t) == [i \in DOMAIN t |-> Fits(t[i], len)]
<1>1. ASSUME NEW y \in RangeSpecs PROVE Fits(y, len) \in Seq(AnyRange) /\ Bounds(y, len) \in AnyRange
  <2>1. Bounds(y, len) \in AnyRange
    BY DEF Bounds, RangeSpecs, AnyRange, Unset
  <2> QED BY <2>1 DEF Fits
<1>2. /\ Len(s) \in Nat /\ Len(Append(s, x)) = Len(s) + 1 /\ Append(s, x)[Len(s) + 1] = x
      /\ \A i \in 1..Len(s) : s[i] \in RangeSpecs /\ Append(s, x)[i] = s[i]
  OBVIOUS
<1>3. map(s) \in Seq(Seq(AnyRange)) /\ Len(map(s)) = Len(s)
  <2>1. map(s) \in [1..Len(s) -> Seq(AnyRange)]
    BY <1>1, <1>2
  <2> QED BY <1>2, <2>1
<1>4. map(Append(s, x)) = Append(map(s), Fits(x, len))
  <2> DEFINE t == Append(s, x)
             u == Append(map(s), Fits(x, len))
  <2>1. DOMAIN t = 1..Len(s) + 1
    BY <1>2
  <2>2. /\ DOMAIN u = 1..Len(s) + 1 /\ u[Len(s) + 1] = Fits(x, len)
        /\ \A i \in 1..Len(s) : u[i] = map(s)[i]
    <3> HIDE DEF map
    <3> QED BY <1>1, <1>3
  <2>3. \A i \in 1..Len(s) : map(s)[i] = Fits(s[i], len)
    BY <1>2
  <2>4. u \in Seq(Seq(AnyRange))
    <3> HIDE DEF map
    <3> QED BY <1>1, <1>3
  <2> HIDE DEF u, map
  <2>5. ASSUME NEW i \in 1..Len(s) + 1 PROVE u[i] = Fits(t[i], len)
    <3>1. CASE i = Len(s) + 1
      BY <1>2, <2>2, <3>1
    <3>2. CASE i # Len(s) + 1
      <4>1. i \in 1..Len(s)
        BY <1>2, <3>2
      <4> QED BY <1>2, <2>2, <2>3, <4>1
    <3> QED BY <3>1, <3>2
  <2>6. u = [i \in 1..Len(s) + 1 |-> Fits(t[i], len)]
    BY <2>2, <2>4, <2>5
  <2> QED BY <2>1, <2>6 DEF u, map
<1> HIDE DEF map
<1>5. FlattenSeq(map(s)) \in Seq(AnyRange) /\ FlattenSeq(Append(map(s), Fits(x, len))) = FlattenSeq(map(s)) \o Fits(x, len)
  BY <1>1, <1>3, FlattenAppend
<1> QED BY <1>1, <1>4, <1>5 DEF SatisfiableRanges, map

\* The bytes of ranges, and what is promised for the ranges asked for
Bodies(rs) == [i \in DOMAIN rs |-> Seg(rs[i].start, rs[i].count)]
Slices(specs, len) == [i \in DOMAIN specs |-> IF Served(specs[i], len) THEN Slice(specs[i], len) ELSE <<>>]
Within(len) == {r \in [start : Nat, count : Nat] : r.start + r.count <= len}

LEMMA BodiesAppend ==
    ASSUME NEW len \in Nat, NEW rs \in Seq(Within(len)), NEW r \in Within(len)
    PROVE  /\ Bodies(rs) \in Seq(Seq(Int)) /\ Len(Bodies(rs)) = Len(rs)
           /\ Bodies(Append(rs, r)) = Append(Bodies(rs), Seg(r.start, r.count))
           /\ Seg(r.start, r.count) \in Seq(Int)
<1> DEFINE n == Len(rs)
           t == Append(rs, r)
<1>1. /\ n \in Nat /\ Len(t) = n + 1 /\ t[n + 1] = r
      /\ \A i \in 1..n : rs[i] \in Within(len) /\ t[i] = rs[i]
      /\ DOMAIN t = 1..n + 1 /\ DOMAIN rs = 1..n
  OBVIOUS
<1> HIDE DEF t, n
<1>2. ASSUME NEW y \in Within(len) PROVE Seg(y.start, y.count) \in Seq(Int)
  <2>1. y.start \in Int /\ y.count \in Nat
    BY DEF Within
  <2> QED BY <2>1, SegIs
<1>3. Bodies(rs) \in [1..n -> Seq(Int)]
  BY <1>1, <1>2 DEF Bodies
<1>4. Bodies(rs) \in Seq(Seq(Int)) /\ Len(Bodies(rs)) = n
  BY <1>1, <1>3
<1>5. Bodies(t) = Append(Bodies(rs), Seg(r.start, r.count))
  <2> DEFINE x == Seg(r.start, r.count)
             u == Append(Bodies(rs), x)
  <2>1. x \in Seq(Int)
    BY <1>2
  <2> HIDE DEF x
  <2>2. /\ u \in Seq(Seq(Int)) /\ Len(u) = n + 1 /\ u[n + 1] = x
        /\ \A i \in 1..n : u[i] = Bodies(rs)[i]
    BY <1>1, <1>4, <2>1
  <2>3. \A i \in 1..n : Bodies(rs)[i] = Seg(rs[i].start, rs[i].count)
    BY <1>1 DEF Bodies
  <2> HIDE DEF u
  <2>4. \A i \in 1..n + 1 : u[i] = Seg(t[i].start, t[i].count)
    BY <1>1, <2>2, <2>3 DEF x
  <2>5. u = [i \in 1..n + 1 |-> Seg(t[i].start, t[i].count)]
    BY <2>2, <2>4
  <2> QED BY <1>1, <2>5 DEF Bodies, u, x
<1> QED BY <1>2, <1>4, <1>5 DEF n, t

LEMMA SlicesAppend ==
    ASSUME NEW s \in Seq(RangeSpecs), NEW x \in RangeSpecs, NEW len
    PROVE  Slices(Append(s, x), len) =
               [i \in 1..Len(s) + 1 |-> IF i = Len(s) + 1 THEN IF Served(x, len) THEN Slice(x, len) ELSE <<>>
                                        ELSE Slices(s, len)[i]]
<1>1. /\ Len(s) \in Nat /\ Len(Append(s, x)) = Len(s) + 1 /\ Append(s, x)[Len(s) + 1] = x
      /\ \A i \in 1..Len(s) : Append(s, x)[i] = s[i]
      /\ DOMAIN s = 1..Len(s) /\ DOMAIN Append(s, x) = 1..Len(s) + 1
  OBVIOUS
<1> DEFINE t == Append(s, x)
<1> HIDE DEF t
<1> QED BY <1>1 DEF Slices, t

\* A range that is served, and one that is not
LEMMA FitsIs ==
    ASSUME NEW spec \in RangeSpecs, NEW len \in Nat
    PROVE  Fits(spec, len) = IF Served(spec, len) THEN <<Bounds(spec, len)>> ELSE <<>>
  BY DEF Fits, Served, RangeSpecs, Unset

\* What the ranges a request asks for come to: what is sent is what was promised.
Served206(specs, len) ==
    LET wanted == SatisfiableRanges(specs, len)
    IN  /\ Ranges(wanted, len) \in Seq(Within(len))
        /\ Slices(specs, len) \in Seq(Seq(Int)) /\ Len(Slices(specs, len)) = Len(specs)
        /\ FlattenSeq(Bodies(Ranges(wanted, len))) = FlattenSeq(Slices(specs, len))
        /\ \A i \in DOMAIN specs : Served(specs[i], len) => Wanted(specs[i], len) # {}

AllValid(specs, len) ==
    \A i \in DOMAIN SatisfiableRanges(specs, len) : Valid(SatisfiableRanges(specs, len)[i], len)

LEMMA RangesAppend ==
    ASSUME NEW w \in Seq(AnyRange), NEW r \in AnyRange, NEW len
    PROVE  /\ Len(Ranges(w, len)) = Len(w)
           /\ Ranges(Append(w, r), len) = Append(Ranges(w, len), [start |-> r.first, count |-> Count(r, len)])
<1> DEFINE n == Len(w)
           t == Append(w, r)
           x == [start |-> r.first, count |-> Count(r, len)]
           S == {Ranges(w, len)[i] : i \in 1..n} \cup {x}
           u == Append(Ranges(w, len), x)
<1>1. /\ n \in Nat /\ Len(t) = n + 1 /\ t[n + 1] = r
      /\ \A i \in 1..n : t[i] = w[i]
      /\ DOMAIN t = 1..n + 1 /\ DOMAIN w = 1..n
  OBVIOUS
<1>2. Ranges(w, len) \in Seq(S) /\ Len(Ranges(w, len)) = n
  <2>1. Ranges(w, len) \in [1..n -> S]
    BY <1>1 DEF Ranges
  <2> HIDE DEF S
  <2> QED BY <1>1, <2>1
<1> HIDE DEF t, n
<1>3. x \in S
  OBVIOUS
<1> HIDE DEF S
<1>4. \A i \in 1..n : Ranges(w, len)[i] = [start |-> w[i].first, count |-> Count(w[i], len)]
  BY <1>1 DEF Ranges
<1>5. /\ u \in Seq(S) /\ Len(u) = n + 1 /\ u[n + 1] = x
      /\ \A i \in 1..n : u[i] = Ranges(w, len)[i]
  <2> HIDE DEF x
  <2> QED BY <1>1, <1>2, <1>3
<1> HIDE DEF u
<1>6. \A i \in 1..n + 1 : u[i] = [start |-> t[i].first, count |-> Count(t[i], len)]
  <2> SUFFICES ASSUME NEW i \in 1..n + 1
               PROVE  u[i] = [start |-> t[i].first, count |-> Count(t[i], len)]
    OBVIOUS
  <2>1. CASE i = n + 1
    BY <1>1, <1>5, <2>1
  <2>2. CASE i # n + 1
    <3>1. i \in 1..n
      BY <1>1, <2>2
    <3> QED BY <1>1, <1>4, <1>5, <3>1
  <2> QED BY <2>1, <2>2
<1>7. u = [i \in 1..n + 1 |-> [start |-> t[i].first, count |-> Count(t[i], len)]]
  BY <1>5, <1>6
<1> QED BY <1>1, <1>2, <1>7 DEF Ranges, t, u, n

LEMMA RangesServed ==
    ASSUME NEW len \in Nat, MaxU64 \in Nat, len < MaxU64,
           NEW specs \in Seq(RangeSpecs), AllValid(specs, len)
    PROVE  Served206(specs, len)
<1> DEFINE Holds(s) == AllValid(s, len) => Served206(s, len)
           T == {n \in Nat : \A s \in Seq(RangeSpecs) : Len(s) = n => Holds(s)}
<1>1. 0 \in T
  <2>1. SUFFICES ASSUME NEW s \in Seq(RangeSpecs), Len(s) = 0 PROVE Served206(s, len)
    OBVIOUS
  <2>2. s = <<>> /\ DOMAIN s = {}
    BY <2>1
  <2>3. SatisfiableRanges(s, len) = <<>>
    BY <2>2, FlattenEmpty DEF SatisfiableRanges
  <2>4. Ranges(<<>>, len) = <<>> /\ Bodies(<<>>) = <<>> /\ Slices(s, len) = <<>>
    BY <2>2 DEF Ranges, Bodies, Slices
  <2>5. Ranges(SatisfiableRanges(s, len), len) = <<>>
    BY <2>3, <2>4
  <2>6. <<>> \in Seq(Within(len)) /\ <<>> \in Seq(Seq(Int)) /\ Len(<<>>) = 0
    OBVIOUS
  <2>7. FlattenSeq(Bodies(<<>>)) = FlattenSeq(Slices(s, len))
    BY <2>4
  <2> QED BY <2>1, <2>2, <2>4, <2>5, <2>6, <2>7 DEF Served206
<1>2. ASSUME NEW n \in T \cap Nat PROVE n + 1 \in T
  <2>1. SUFFICES ASSUME NEW t \in Seq(RangeSpecs), Len(t) = n + 1, AllValid(t, len) PROVE Served206(t, len)
    OBVIOUS
  <2> DEFINE s == [i \in 1..n |-> t[i]]
             x == t[n + 1]
             w == SatisfiableRanges(s, len)
             b == Bounds(x, len)
             r == [start |-> b.first, count |-> Count(b, len)]
  <2>2. n \in Nat /\ s \in Seq(RangeSpecs) /\ Len(s) = n /\ x \in RangeSpecs /\ t = Append(s, x)
    <3>1. n \in Nat /\ \A i \in 1..n + 1 : t[i] \in RangeSpecs
      BY <2>1
    <3>2. s \in [1..n -> RangeSpecs] /\ x \in RangeSpecs
      BY <3>1
    <3>3. s \in Seq(RangeSpecs) /\ Len(s) = n
      BY <3>1, <3>2
    <3>4. /\ Append(s, x) \in Seq(RangeSpecs) /\ Len(Append(s, x)) = n + 1
          /\ \A i \in 1..n + 1 : Append(s, x)[i] = t[i]
      BY <3>1, <3>2, <3>3
    <3>5. t = Append(s, x)
      <4> HIDE DEF s, x
      <4> QED BY <2>1, <3>4
    <3> QED BY <3>1, <3>2, <3>3, <3>5
  <2> HIDE DEF s, x
  <2>3. /\ w \in Seq(AnyRange) /\ b \in AnyRange
        /\ SatisfiableRanges(t, len) = w \o Fits(x, len)
    BY <2>2, FitsAppend
  <2>4. Len(w) \in Nat /\ Fits(x, len) = IF Served(x, len) THEN <<b>> ELSE <<>>
    BY <2>2, <2>3, FitsIs
  <2> HIDE DEF w, b
  <2>5. SatisfiableRanges(t, len) = IF Served(x, len) THEN Append(w, b) ELSE w
    <3>1. Append(w, b) = w \o <<b>> /\ w \o <<>> = w
      BY <2>3
    <3> QED BY <2>3, <2>4, <3>1
  <2>6. AllValid(s, len)
    <3>1. \A i \in DOMAIN w : i \in DOMAIN SatisfiableRanges(t, len) /\ SatisfiableRanges(t, len)[i] = w[i]
      BY <2>3, <2>4, <2>5
    <3> QED BY <2>1, <3>1 DEF AllValid, w
  <2>7. Served206(s, len)
    BY <1>2, <2>2, <2>6
  <2> HIDE DEF T
  <2>8. /\ Slices(t, len) = Append(Slices(s, len), IF Served(x, len) THEN Slice(x, len) ELSE <<>>)
    <3> DEFINE y == IF Served(x, len) THEN Slice(x, len) ELSE <<>>
    <3>1. Slices(t, len) = [i \in 1..n + 1 |-> IF i = n + 1 THEN y ELSE Slices(s, len)[i]]
      BY <2>2, SlicesAppend
    <3>2. Slices(s, len) \in Seq(Seq(Int)) /\ Len(Slices(s, len)) = n
      BY <2>2, <2>7 DEF Served206
    <3> HIDE DEF y
    <3> DEFINE q == Slices(s, len)
    <3> HIDE DEF q
    <3>3. q \in Seq(Seq(Int) \cup {y}) /\ Len(q) = n
      BY <3>2 DEF q
    <3>4. /\ Append(q, y) \in Seq(Seq(Int) \cup {y}) /\ Len(Append(q, y)) = n + 1
          /\ \A i \in 1..n : Append(q, y)[i] = q[i]
          /\ Append(q, y)[n + 1] = y
      BY <2>2, <3>3
    <3>5. Append(q, y) = [i \in 1..n + 1 |-> IF i = n + 1 THEN y ELSE q[i]]
      <4> DEFINE u == Append(q, y)
      <4> HIDE DEF u
      <4>1. \A i \in 1..n + 1 : u[i] = IF i = n + 1 THEN y ELSE q[i]
        <5> SUFFICES ASSUME NEW i \in 1..n + 1 PROVE u[i] = IF i = n + 1 THEN y ELSE q[i]
          OBVIOUS
        <5>1. i = n + 1 \/ i \in 1..n
          BY <2>2
        <5>2. i \in 1..n => i # n + 1
          BY <2>2
        <5> QED BY <3>4, <5>1, <5>2 DEF u
      <4>2. u \in Seq(Seq(Int) \cup {y}) /\ Len(u) = n + 1
        BY <3>4 DEF u
      <4>3. u = [i \in 1..n + 1 |-> IF i = n + 1 THEN y ELSE q[i]]
        BY <4>1, <4>2
      <4> QED BY <4>3 DEF u
    <3> QED BY <3>1, <3>5 DEF y, q
  <2>9. \A i \in DOMAIN t : t[i] = IF i = n + 1 THEN x ELSE s[i]
    BY <2>1, <2>2 DEF s, x
  <2>10. CASE ~Served(x, len)
    <3>1. SatisfiableRanges(t, len) = w /\ Slices(t, len) = Append(Slices(s, len), <<>>)
      BY <2>5, <2>8, <2>10
    <3>2. Slices(s, len) \in Seq(Seq(Int)) /\ Len(Slices(s, len)) = n
      BY <2>2, <2>7 DEF Served206
    <3>3. FlattenSeq(Slices(t, len)) = FlattenSeq(Slices(s, len)) /\ Slices(t, len) \in Seq(Seq(Int))
          /\ Len(Slices(t, len)) = n + 1
      <4> DEFINE q == Slices(s, len)
      <4> HIDE DEF q
      <4>1. <<>> \in Seq(Int) /\ q \in Seq(Seq(Int)) /\ Len(q) = n
        BY <3>2 DEF q
      <4>2. FlattenSeq(q) \in Seq(Int) /\ FlattenSeq(Append(q, <<>>)) = FlattenSeq(q) \o <<>>
        BY ONLY <4>1, FlattenAppend
      <4>3. FlattenSeq(q) \o <<>> = FlattenSeq(q)
        BY <4>2, ConcatEmptySeq
      <4>4. Append(q, <<>>) \in Seq(Seq(Int)) /\ Len(Append(q, <<>>)) = n + 1
        BY <4>1
      <4> QED BY <3>1, <4>2, <4>3, <4>4 DEF q
    <3>4. \A i \in DOMAIN t : Served(t[i], len) => Wanted(t[i], len) # {}
      <4>1. ASSUME NEW i \in DOMAIN t, Served(t[i], len) PROVE Wanted(t[i], len) # {}
        <5>1. i # n + 1 /\ t[i] = s[i] /\ i \in DOMAIN s
          BY <2>1, <2>2, <2>9, <2>10, <4>1
        <5> QED BY <2>7, <4>1, <5>1 DEF Served206
      <4> QED BY <4>1
    <3> QED BY <2>1, <2>7, <3>1, <3>3, <3>4 DEF Served206, w
  <2>11. CASE Served(x, len)
    <3>1. SatisfiableRanges(t, len) = Append(w, b) /\ Slices(t, len) = Append(Slices(s, len), Slice(x, len))
      BY <2>5, <2>8, <2>11
    <3>2. Valid(b, len)
      <4>1. Len(w) + 1 \in DOMAIN Append(w, b) /\ Append(w, b)[Len(w) + 1] = b
        BY <2>3, <2>4
      <4> QED BY <2>1, <3>1, <4>1 DEF AllValid
    <3>3. /\ b.first \in Nat /\ Count(b, len) \in Nat /\ b.first + Count(b, len) <= len
          /\ Wanted(x, len) # {} /\ Slice(x, len) = Seg(b.first, Count(b, len))
      BY <2>2, <2>11, <3>2, SliceIs DEF b
    <3>4. r \in Within(len) /\ r.start = b.first /\ r.count = Count(b, len)
      BY <3>3 DEF Within
    <3> HIDE DEF r
    <3> DEFINE rs == Ranges(w, len)
               q == Slices(s, len)
               y == Slice(x, len)
    <3>5. Ranges(Append(w, b), len) = Append(rs, r)
      BY <2>3, RangesAppend DEF r
    <3>6. /\ rs \in Seq(Within(len)) /\ q \in Seq(Seq(Int)) /\ Len(q) = n
          /\ FlattenSeq(Bodies(rs)) = FlattenSeq(q)
      BY <2>2, <2>7 DEF Served206, w
    <3> HIDE DEF rs, q
    <3>7. /\ Bodies(rs) \in Seq(Seq(Int)) /\ y \in Seq(Int)
          /\ Bodies(Append(rs, r)) = Append(Bodies(rs), y)
      BY <3>3, <3>4, <3>6, BodiesAppend
    <3> HIDE DEF y
    <3>8. /\ FlattenSeq(Append(Bodies(rs), y)) = FlattenSeq(Bodies(rs)) \o y
          /\ FlattenSeq(Append(q, y)) = FlattenSeq(q) \o y
      BY <3>6, <3>7, FlattenAppend
    <3>9. /\ Append(rs, r) \in Seq(Within(len))
          /\ Append(q, y) \in Seq(Seq(Int)) /\ Len(Append(q, y)) = n + 1
      BY <3>4, <3>6, <3>7
    <3>10. FlattenSeq(Bodies(Append(rs, r))) = FlattenSeq(Append(q, y))
      BY <3>6, <3>7, <3>8
    <3>11. \A i \in DOMAIN t : Served(t[i], len) => Wanted(t[i], len) # {}
      <4>1. ASSUME NEW i \in DOMAIN t, Served(t[i], len) PROVE Wanted(t[i], len) # {}
        <5>1. CASE i = n + 1
          BY <2>9, <3>3, <5>1
        <5>2. CASE i # n + 1
          <6>1. t[i] = s[i] /\ i \in DOMAIN s
            BY <2>1, <2>2, <2>9, <5>2
          <6> QED BY <2>7, <4>1, <6>1 DEF Served206
        <5> QED BY <5>1, <5>2
      <4> QED BY <4>1
    <3> QED BY <2>1, <3>1, <3>5, <3>9, <3>10, <3>11 DEF Served206, q, y, rs
  <2> QED BY <2>10, <2>11
<1>3. Nat \subseteq T
  <2> HIDE DEF T
  <2> QED BY <1>1, <1>2, Induction
<1>4. Len(specs) \in Nat
  OBVIOUS
<1> QED BY <1>3, <1>4

LEMMA FlattenOne == ASSUME NEW S, NEW x \in Seq(S) PROVE FlattenSeq(<<x>>) = x
<1>1. /\ <<>> \in Seq(Seq(S)) /\ Append(<<>>, x) = <<x>>
  OBVIOUS
<1>2. FlattenSeq(Append(<<>>, x)) = FlattenSeq(<<>>) \o x
  BY <1>1, FlattenAppend
<1>3. <<>> \o x = x
  BY ConcatEmptySeq
<1> QED BY <1>1, <1>2, <1>3, FlattenEmpty

Whole == [first |-> 0, last |-> Unset]

LEMMA WholeIs == ASSUME NEW len \in Nat PROVE Slice(Whole, len) = Seg(0, len)
<1>1. Wanted(Whole, len) = 0..0 + len - 1
  BY DEF Wanted, Whole, Unset
<1>2. Sorted(0..0 + len - 1, <) = Seg(0, len)
  <2>1. 0 \in Int /\ len \in Nat
    OBVIOUS
  <2> QED BY ONLY <2>1, IntervalSorted DEF Sorted
<1> QED BY <1>1, <1>2 DEF Slice, Sorted

\* What a response with that status is about
PromiseOf(g) == IF g.status = 206 THEN Slices(g.req.range, g.len) ELSE <<Slice(Whole, g.len)>>

\* The answer of the handler is true of the ranges it is about to send.
IsTrue(g) ==
    g.status \in {200, 206} =>
        /\ PromiseOf(g) \in Seq(Seq(Int))
        /\ g.announced # Unset => g.announced = Len(FlattenSeq(PromiseOf(g)))
        /\ g.status = 206 => \A spec \in ToSet(g.req.range) : Served(spec, g.len) => Wanted(spec, g.len) # {}

AnswerIs(g, ranges) ==
    /\ ranges \in Seq(Within(g.len)) /\ ranges # <<>> /\ IsTrue(g)
    /\ g.status \in {200, 206} => FlattenSeq(Bodies(ranges)) = FlattenSeq(PromiseOf(g))

LEMMA OneBody ==
    ASSUME NEW len \in Nat, NEW r \in Within(len)
    PROVE  FlattenSeq(Bodies(<<r>>)) = Seg(r.start, r.count)
<1>1. r.start \in Int /\ r.count \in Nat
  BY DEF Within
<1>2. Seg(r.start, r.count) \in Seq(Int)
  BY <1>1, SegIs
<1>3. Bodies(<<r>>) = <<Seg(r.start, r.count)>>
  BY DEF Bodies
<1> QED BY <1>2, <1>3, FlattenOne

LEMMA DecidedIs ==
    ASSUME NEW req \in GetRequests, NEW len \in Lengths, NEW g,
           g.req = req, g.len = len,
           g.status = Decided(req, len).status, g.announced = Decided(req, len).announced
    PROVE  AnswerIs(g, Decided(req, len).ranges)
<1> DEFINE wanted == IF req.ifrange /\ req.condition = 200 THEN SatisfiableRanges(req.range, len) ELSE <<>>
           bad == \E i \in DOMAIN wanted : ~Valid(wanted[i], len)
           whole == [start |-> 0, count |-> len]
           ranges == IF bad \/ wanted = <<>> THEN <<whole>> ELSE Ranges(wanted, len)
           status == CASE bad -> 416
                       [] wanted # <<>> /\ ~bad -> 206
                       [] OTHER -> req.condition
           bodiless == status \in {416, 412, 304}
           announced == IF Len(ranges) > 1 THEN Unset
                        ELSE IF req.head \/ ~bodiless \/ status = 304 THEN ranges[1].count ELSE 0
<1>1. Decided(req, len).ranges = ranges /\ g.status = status /\ g.announced = announced
  BY DEF Decided
<1>2. /\ len \in Nat /\ MaxU64 \in Nat /\ len < MaxU64 /\ req.range \in Seq(RangeSpecs)
      /\ req.condition \in {200, 304, 412}
  BY GetAssumption
<1>3. whole \in Within(len) /\ whole.start = 0 /\ whole.count = len
  BY <1>2 DEF Within
<1>4. \/ bad /\ status = 416 /\ ranges = <<whole>>
      \/ ~bad /\ wanted # <<>> /\ status = 206 /\ ranges = Ranges(wanted, len)
      \/ ~bad /\ wanted = <<>> /\ status = req.condition /\ ranges = <<whole>>
  OBVIOUS
<1>5. status \in {200, 206} =>
        announced = IF Len(ranges) > 1 THEN Unset ELSE ranges[1].count
  <2>1. status \in {200, 206} => ~bodiless
    <3> HIDE DEF status
    <3> QED OBVIOUS
  <2> HIDE DEF status, ranges, bodiless
  <2> QED BY <2>1
<1> HIDE DEF status, ranges, announced
<1> HIDE DEF whole
<1>6. <<whole>> \in Seq(Within(len)) /\ <<whole>> # <<>>
  BY <1>3
<1>7. CASE status \notin {200, 206}
  <2>1. ranges = <<whole>>
    BY <1>4, <1>7
  <2> QED BY <1>1, <1>6, <1>7, <2>1 DEF AnswerIs, IsTrue
<1>8. CASE status = 206
  <2>1. ~bad /\ wanted # <<>> /\ ranges = Ranges(wanted, len)
    BY <1>2, <1>4, <1>8
  <2>2. wanted = SatisfiableRanges(req.range, len)
    BY <2>1
  <2>3. AllValid(req.range, len)
    BY <2>1, <2>2 DEF AllValid
  <2>4. Served206(req.range, len)
    BY <1>2, <2>3, RangesServed
  <2> HIDE DEF bad, wanted
  <2>5. PromiseOf(g) = Slices(req.range, len)
    BY <1>1, <1>8 DEF PromiseOf
  <2>6. /\ ranges \in Seq(Within(len)) /\ Slices(req.range, len) \in Seq(Seq(Int))
        /\ FlattenSeq(Bodies(ranges)) = FlattenSeq(Slices(req.range, len))
        /\ \A i \in DOMAIN req.range : Served(req.range[i], len) => Wanted(req.range[i], len) # {}
    BY <2>1, <2>2, <2>4 DEF Served206
  <2>7. ranges # <<>>
    <3>1. Whole \in RangeSpecs
      BY DEF Whole, RangeSpecs
    <3>2. wanted \in Seq(AnyRange)
      BY <1>2, <2>2, <3>1, FitsAppend
    <3>3. DOMAIN wanted # {}
      <4>1. wanted # <<>>
        BY <2>1
      <4>2. Len(wanted) \in Nat \ {0} /\ DOMAIN wanted = 1..Len(wanted)
        BY ONLY <3>2, <4>1, EmptySeq
      <4>3. 1 \in DOMAIN wanted
        <5>1. \A k \in Nat \ {0} : 1 \in 1..k
          OBVIOUS
        <5> QED BY ONLY <4>2, <5>1, Zenon
      <4> QED BY ONLY <4>3, Zenon
    <3>4. DOMAIN ranges = DOMAIN wanted
      BY <2>1 DEF Ranges
    <3> QED BY <3>3, <3>4
  <2>8. announced # Unset => announced = Len(FlattenSeq(Slices(req.range, len)))
    <3> SUFFICES ASSUME announced # Unset PROVE announced = Len(FlattenSeq(Bodies(ranges)))
      BY <2>6
    <3>1. Len(ranges) \in Nat \ {0} /\ ~(Len(ranges) > 1) /\ announced = ranges[1].count
      BY <1>5, <1>8, <2>6, <2>7, EmptySeq
    <3>2. Len(ranges) = 1 /\ ranges[1] \in Within(len) /\ ranges = <<ranges[1]>>
      <4>1. Len(ranges) = 1
        <5>1. \A k \in Nat \ {0} : ~(k > 1) => k = 1
          OBVIOUS
        <5> QED BY ONLY <3>1, <5>1, Zenon
      <4>2. ranges \in Seq(Within(len))
        BY <2>6
      <4> HIDE DEF ranges
      <4> QED BY ONLY <4>1, <4>2
    <3>3. FlattenSeq(Bodies(ranges)) = Seg(ranges[1].start, ranges[1].count)
      BY <1>2, <3>2, OneBody
    <3>4. ranges[1].start \in Int /\ ranges[1].count \in Nat
      BY <3>2 DEF Within
    <3>5. Len(Seg(ranges[1].start, ranges[1].count)) = ranges[1].count
      BY <3>4, SegIs
    <3> QED BY <3>1, <3>3, <3>5
  <2>9. \A spec \in ToSet(req.range) : Served(spec, len) => Wanted(spec, len) # {}
    BY <2>6 DEF ToSet
  <2> QED BY <1>1, <2>5, <2>6, <2>7, <2>8, <2>9 DEF AnswerIs, IsTrue
<1>9. CASE status = 200
  <2>1. ranges = <<whole>>
    BY <1>4, <1>9
  <2>2. PromiseOf(g) = <<Seg(0, len)>>
    BY <1>1, <1>2, <1>9, WholeIs DEF PromiseOf
  <2>3. Seg(0, len) \in Seq(Int) /\ Len(Seg(0, len)) = len
    <3>1. 0 \in Int /\ len \in Nat
      BY <1>2
    <3> QED BY ONLY <3>1, SegIs
  <2>4. FlattenSeq(<<Seg(0, len)>>) = Seg(0, len) /\ <<Seg(0, len)>> \in Seq(Seq(Int))
    BY <2>3, FlattenOne
  <2>5. FlattenSeq(Bodies(ranges)) = Seg(0, len)
    BY <1>2, <1>3, <2>1, OneBody
  <2>6. announced = len
    <3>1. Len(ranges) = 1 /\ ranges[1] = whole
      BY <2>1
    <3> QED BY <1>3, <1>5, <1>9, <3>1
  <2> QED BY <1>1, <1>6, <1>9, <2>1, <2>2, <2>3, <2>4, <2>5, <2>6 DEF AnswerIs, IsTrue
<1> QED BY <1>7, <1>8, <1>9

-----------------------------------------------------------------------------
(* What came out so far, and what is still to come.                        *)

Sendable == [kind : {"part", "data", "end", "page", "row"}, bytes : Seq(Int)]

LEMMA OnlyEmpty == \A kind : Only(<<>>, kind) = <<>>
<1>1. \A kind : [i \in DOMAIN <<>> |-> BytesOf(<<>>[i], kind)] = <<>>
  OBVIOUS
<1> QED BY <1>1, FlattenEmpty DEF Only

LEMMA OnlyAppend ==
    ASSUME NEW s \in Seq(Sendable), NEW x \in Sendable, NEW kind
    PROVE  /\ Only(s, kind) \in Seq(Int)
           /\ Only(Append(s, x), kind) = IF x.kind = kind THEN Only(s, kind) \o x.bytes ELSE Only(s, kind)
<1> DEFINE n == Len(s)
           t == Append(s, x)
           b == BytesOf(x, kind)
           p == [i \in DOMAIN s |-> BytesOf(s[i], kind)]
           q == [i \in DOMAIN t |-> BytesOf(t[i], kind)]
           u == Append(p, b)
<1>1. /\ n \in Nat /\ DOMAIN s = 1..n /\ DOMAIN t = 1..n + 1 /\ t[n + 1] = x
      /\ \A i \in 1..n : t[i] = s[i] /\ s[i] \in Sendable
  OBVIOUS
<1>2. ASSUME NEW y \in Sendable PROVE BytesOf(y, kind) \in Seq(Int)
  BY DEF Sendable, BytesOf
<1> HIDE DEF t, n
<1>3. p \in Seq(Seq(Int)) /\ Len(p) = n
  <2>1. p \in [1..n -> Seq(Int)]
    BY <1>1, <1>2
  <2> HIDE DEF p
  <2> QED BY <1>1, <2>1
<1>4. b \in Seq(Int) /\ (b = IF x.kind = kind THEN x.bytes ELSE <<>>)
  BY <1>2 DEF BytesOf
<1>5. \A i \in 1..n : p[i] = BytesOf(s[i], kind)
  BY <1>1
<1> HIDE DEF b, p
<1>6. /\ u \in Seq(Seq(Int)) /\ Len(u) = n + 1 /\ u[n + 1] = b
      /\ \A i \in 1..n : u[i] = p[i]
  BY <1>1, <1>3, <1>4
<1> HIDE DEF u
<1>7. \A i \in 1..n + 1 : u[i] = BytesOf(t[i], kind)
  <2> SUFFICES ASSUME NEW i \in 1..n + 1 PROVE u[i] = BytesOf(t[i], kind)
    OBVIOUS
  <2>1. CASE i = n + 1
    BY <1>1, <1>6, <2>1 DEF b
  <2>2. CASE i # n + 1
    <3>1. i \in 1..n
      BY <1>1, <2>2
    <3> QED BY <1>1, <1>5, <1>6, <3>1
  <2> QED BY <2>1, <2>2
<1>8. u = q
  <2>1. u = [i \in 1..n + 1 |-> BytesOf(t[i], kind)]
    BY <1>6, <1>7
  <2> QED BY <1>1, <2>1
<1>9. FlattenSeq(p) \in Seq(Int) /\ FlattenSeq(u) = FlattenSeq(p) \o b
  BY <1>3, <1>4, FlattenAppend DEF u
<1>10. FlattenSeq(p) \o <<>> = FlattenSeq(p)
  BY <1>9, ConcatEmptySeq
<1>11. Only(s, kind) = FlattenSeq(p) /\ Only(t, kind) = FlattenSeq(q)
  BY DEF Only, p
<1> HIDE DEF q
<1> QED BY <1>4, <1>8, <1>9, <1>10, <1>11 DEF t

\* The data so far, with the rest of it, is what was promised; a byte that was
\* read where the file had been cut is zero.
Follows(data, rest, promised, f) ==
    /\ data \in Seq(Int) /\ rest \in Seq(Int) /\ promised \in Seq(Int)
    /\ Len(data) + Len(rest) = Len(promised)
    /\ \A i \in 1..Len(rest) : promised[Len(data) + i] = rest[i]
    /\ ~f.regrown => \A i \in 1..Len(data) :
           data[i] = promised[i] \/ (data[i] = Zero /\ promised[i] >= f.low)

LEMMA ConcatIs ==
    ASSUME NEW S, NEW s \in Seq(S), NEW t \in Seq(S)
    PROVE  /\ s \o t \in Seq(S) /\ Len(s \o t) = Len(s) + Len(t)
           /\ \A i \in 1..Len(s) : (s \o t)[i] = s[i]
           /\ \A i \in 1..Len(t) : (s \o t)[Len(s) + i] = t[i]
<1> DEFINE u == s \o t
           n == Len(s)
           m == Len(t)
<1>1. n \in Nat /\ m \in Nat
  OBVIOUS
<1>2. /\ u \in Seq(S) /\ Len(u) = n + m
      /\ \A i \in 1..n + m : u[i] = IF i <= n THEN s[i] ELSE t[i - n]
  BY ConcatProperties
<1> HIDE DEF u, n, m
<1>3. ASSUME NEW i \in 1..n PROVE u[i] = s[i]
  BY <1>1, <1>2
<1>4. ASSUME NEW i \in 1..m PROVE u[n + i] = t[i]
  <2>1. n + i \in 1..n + m /\ ~(n + i <= n) /\ (n + i) - n = i
    BY <1>1
  <2> QED BY <1>2, <2>1
<1> QED BY <1>1, <1>2, <1>3, <1>4 DEF u, n, m

LEMMA MoreFollows ==
    ASSUME NEW data, NEW promised, NEW f, NEW a \in Int, NEW n \in Nat, NEW r \in Seq(Int),
           Follows(data, Seg(a, n) \o r, promised, f),
           NEW buf \in Seq(Int), NEW k \in 0..n, Len(buf) = k,
           ~f.regrown => \A i \in 1..k : buf[i] = a + i - 1 \/ (buf[i] = Zero /\ a + i - 1 >= f.low)
    PROVE  Follows(data \o buf, Seg(a + k, n - k) \o r, promised, f)
<1> DEFINE d == Len(data)
           m == Len(r)
           more == data \o buf
           x == Seg(a, n)
           y == Seg(a + k, n - k)
           old == x \o r
           rest == y \o r
<1>1. /\ data \in Seq(Int) /\ old \in Seq(Int) /\ promised \in Seq(Int)
      /\ Len(data) + Len(old) = Len(promised)
      /\ \A i \in 1..Len(old) : promised[Len(data) + i] = old[i]
      /\ ~f.regrown => \A i \in 1..Len(data) :
             data[i] = promised[i] \/ (data[i] = Zero /\ promised[i] >= f.low)
  BY DEF Follows
<1>2. /\ x \in Seq(Int) /\ Len(x) = n /\ \A i \in 1..n : x[i] = a + i - 1
      /\ y \in Seq(Int) /\ Len(y) = n - k /\ \A i \in 1..n - k : y[i] = a + k + i - 1
  <2>1. a + k \in Int /\ n - k \in Nat
    OBVIOUS
  <2>2. x \in Seq(Int) /\ Len(x) = n /\ \A i \in 1..n : x[i] = a + i - 1
    BY SegIs
  <2>3. y \in Seq(Int) /\ Len(y) = n - k /\ \A i \in 1..n - k : y[i] = a + k + i - 1
    BY <2>1, SegIs
  <2> QED BY <2>2, <2>3
<1> HIDE DEF x, y
<1>3. /\ d \in Nat /\ m \in Nat /\ k \in Nat /\ n \in Nat /\ k <= n
      /\ d = Len(data) /\ m = Len(r) /\ d + Len(old) = Len(promised)
  BY <1>1
<1>4. /\ Len(old) = n + m
      /\ \A i \in 1..n : old[i] = x[i]
      /\ \A i \in 1..m : old[n + i] = r[i]
  <2>1. x \in Seq(Int) /\ r \in Seq(Int)
    BY <1>2
  <2>2. /\ Len(old) = Len(x) + Len(r)
        /\ \A i \in 1..Len(x) : old[i] = x[i]
        /\ \A i \in 1..Len(r) : old[Len(x) + i] = r[i]
    BY ONLY <2>1, ConcatIs
  <2> HIDE DEF old
  <2> QED BY <1>2, <2>2
<1>5. /\ rest \in Seq(Int) /\ Len(rest) = (n - k) + m
      /\ \A i \in 1..n - k : rest[i] = y[i]
      /\ \A i \in 1..m : rest[(n - k) + i] = r[i]
  <2> DEFINE e == n - k
  <2>1. e = Len(y)
    BY <1>2
  <2> HIDE DEF m, e
  <2>2. /\ rest \in Seq(Int) /\ Len(rest) = e + m
        /\ \A i \in 1..e : rest[i] = y[i]
        /\ \A i \in 1..m : rest[e + i] = r[i]
    <3>1. y \in Seq(Int) /\ r \in Seq(Int)
      BY <1>2
    <3>2. /\ rest \in Seq(Int) /\ Len(rest) = Len(y) + Len(r)
          /\ \A i \in 1..Len(y) : rest[i] = y[i]
          /\ \A i \in 1..Len(r) : rest[Len(y) + i] = r[i]
      BY ONLY <3>1, ConcatIs
    <3> HIDE DEF rest
    <3> QED BY ONLY <1>3, <2>1, <3>2
  <2> QED BY <2>2 DEF e
<1>6. /\ more \in Seq(Int) /\ Len(more) = d + k
      /\ \A i \in 1..d : more[i] = data[i]
      /\ \A i \in 1..k : more[d + i] = buf[i]
  <2>1. data \in Seq(Int) /\ buf \in Seq(Int)
    BY <1>1
  <2>2. /\ more \in Seq(Int) /\ Len(more) = Len(data) + Len(buf)
        /\ \A i \in 1..Len(data) : more[i] = data[i]
        /\ \A i \in 1..Len(buf) : more[Len(data) + i] = buf[i]
    BY ONLY <2>1, ConcatIs
  <2> HIDE DEF more
  <2> QED BY <2>2
<1> HIDE DEF d, m, old, rest, more
<1>7. Len(more) + Len(rest) = Len(promised)
  <2>1. /\ d \in Nat /\ m \in Nat /\ k \in Nat /\ n \in Nat /\ d + Len(old) = Len(promised)
        /\ Len(old) = n + m /\ Len(rest) = (n - k) + m /\ Len(more) = d + k
    BY <1>3, <1>4, <1>5, <1>6, Zenon
  <2>2. \A i, j, l \in Nat : (l + i) + ((j - i) + m) = l + (j + m)
    BY <1>3
  <2> QED BY <2>1, <2>2
<1>8. ASSUME NEW i \in 1..Len(rest) PROVE promised[Len(more) + i] = rest[i]
  <2>1. k + i \in 1..Len(old) /\ Len(more) + i = d + (k + i) /\ i \in Int
    BY <1>3, <1>4, <1>5, <1>6
  <2>2. promised[Len(more) + i] = old[k + i]
    BY <1>1, <1>3, <2>1
  <2>3. CASE i \in 1..n - k
    <3>1. k + i \in 1..n
      BY <1>3, <2>3
    <3>2. rest[i] = a + k + i - 1 /\ old[k + i] = a + (k + i) - 1
      BY <1>2, <1>4, <1>5, <2>3, <3>1
    <3> QED BY <1>3, <2>1, <2>2, <3>2
  <2>4. CASE i \notin 1..n - k
    <3> DEFINE j == i - (n - k)
    <3>1. j \in 1..m /\ i = (n - k) + j /\ k + i = n + j
      BY <1>3, <1>5, <2>4
    <3> HIDE DEF j
    <3>2. old[k + i] = r[j] /\ rest[i] = r[j]
      BY <1>4, <1>5, <3>1
    <3> QED BY <2>2, <3>2
  <2> QED BY <2>3, <2>4
<1>9. ASSUME ~f.regrown, NEW i \in 1..Len(more)
      PROVE  more[i] = promised[i] \/ (more[i] = Zero /\ promised[i] >= f.low)
  <2>1. CASE i \in 1..d
    BY <1>1, <1>3, <1>6, <1>9, <2>1
  <2>2. CASE i \notin 1..d
    <3> DEFINE j == i - d
    <3>1. j \in 1..k /\ j \in 1..Len(old) /\ j \in 1..n /\ d + j = i
      BY <1>3, <1>4, <1>6, <2>2
    <3> HIDE DEF j
    <3>2. promised[i] = old[j] /\ old[j] = a + j - 1
      BY <1>1, <1>2, <1>3, <1>4, <3>1
    <3>3. more[i] = buf[j]
      BY <1>6, <3>1
    <3> QED BY <1>9, <3>1, <3>2, <3>3
  <2> QED BY <2>1, <2>2
<1> QED BY <1>1, <1>5, <1>6, <1>7, <1>8, <1>9 DEF Follows, more, rest, y

LEMMA CutFollows ==
    ASSUME NEW data, NEW rest, NEW promised, NEW f, NEW f1, Follows(data, rest, promised, f),
           f.low \in Int, f1.low \in Int, f1.low <= f.low, f.regrown => f1.regrown
    PROVE  Follows(data, rest, promised, f1)
<1>1. ASSUME ~f1.regrown, NEW i \in 1..Len(data)
      PROVE  data[i] = promised[i] \/ (data[i] = Zero /\ promised[i] >= f1.low)
  <2>1. data[i] = promised[i] \/ (data[i] = Zero /\ promised[i] >= f.low)
    BY <1>1 DEF Follows
  <2>2. promised[i] \in Int
    <3>1. Len(data) \in Nat /\ Len(rest) \in Nat /\ i \in 1..Len(promised)
      BY DEF Follows
    <3> QED BY <3>1 DEF Follows
  <2> QED BY <2>1, <2>2
<1> QED BY <1>1 DEF Follows

-----------------------------------------------------------------------------
(* The invariant of a GET.                                                 *)

GetFields == {"pc", "req", "len", "ranges", "status", "announced", "multi", "curpos", "pos", "left", "skipped",
              "seen", "rows"}
FileFields == {"len", "low", "regrown", "changes"}

\* What the handler still has to send
Rest(g) ==
    IF g.left = Unset THEN FlattenSeq(Bodies(g.ranges))
    ELSE Seg(g.curpos, g.left) \o FlattenSeq(Bodies(Tail(g.ranges)))

\* The file is read at the offset that is sent, unless it ended there when it
\* was read: then it cannot have bytes there, without having grown again.
InPlace(g, f) ==
    /\ g.ranges \in Seq(Within(g.len))
    /\ g.curpos \in Nat /\ g.pos \in Nat /\ g.pos <= g.curpos
    /\ g.left \in Nat \cup {Unset}
    /\ g.left # Unset => g.ranges # <<>> /\ g.curpos + g.left <= g.len
    /\ g.pos # g.curpos => f.low < g.len /\ (f.regrown \/ f.len <= g.pos)

\* A range can be left out only after another, and then no length is announced.
LengthKept(g) ==
    g.announced # Unset =>
        /\ ~g.skipped /\ Len(g.ranges) <= 1
        /\ g.left = Unset /\ g.ranges # <<>> => g.curpos = Head(g.ranges).start

\* With what is still to be sent, it is not more than was promised.
NoLonger(data, rest, promised) ==
    /\ data \in Seq(Int) /\ rest \in Seq(Int) /\ promised \in Seq(Int)
    /\ Len(data) + Len(rest) <= Len(promised)

Sending(g, f, body) ==
    /\ g.len \in Lengths /\ g.status \in {200, 206} /\ IsTrue(g) /\ InPlace(g, f) /\ LengthKept(g)
    /\ NoLonger(Only(body.sent, "data"), Rest(g), FlattenSeq(PromiseOf(g)))
    /\ g.skipped \/ Follows(Only(body.sent, "data"), Rest(g), FlattenSeq(PromiseOf(g)), f)
    /\ body.fut = "ok" => g.ranges = <<>> /\ g.left = Unset

\* An index is a page of the entries that are shown, and is begun when all
\* entries were looked at.
Shown(hide) == {e \in IndexEntries : ~HiddenEntry(hide, "autoindex", e.path)}

InRows(entries) == Sorted(entries, Before)
Told(n, rows) == IF n = 0 THEN 0 ELSE min(n - 1, rows)

Listing(g, body) ==
    /\ g.len = Unset /\ g.rows \subseteq Shown(g.req.hide) /\ g.seen \subseteq IndexEntries
    /\ body.sent # <<>> => g.seen = IndexEntries
    /\ Len(body.sent) <= Len(Page(g.rows))
    /\ \A j \in 1..Len(body.sent) : body.sent[j] = Page(g.rows)[j]
    /\ Len(Only(body.sent, "row")) = Told(Len(body.sent), Cardinality(g.rows))
    /\ \A i \in 1..Len(Only(body.sent, "row")) : Only(body.sent, "row")[i] = InRows(g.rows)[i].name

Holds(g, f, body) ==
    /\ DOMAIN g = GetFields /\ DOMAIN f = FileFields /\ g.req \in GetRequests
    /\ f.len \in Lengths /\ f.low \in Nat /\ f.low <= f.len /\ f.regrown \in BOOLEAN
    /\ body.sent \in Seq(Sendable)
    /\ \/ /\ g.pc \in {"look", "open"} /\ g.len = Unset /\ Untouched(body)
          /\ g.left = Unset /\ ~g.skipped /\ g.seen = {} /\ g.rows = {}
       \/ /\ g.pc = "done" /\ Untouched(body) /\ ~g.skipped
          /\ g.len = Unset \/ (g.len \in Lengths /\ IsTrue(g))
       \/ g.pc = "body" /\ Sending(g, f, body)
       \/ g.pc = "index" /\ Listing(g, body)

Getting ==
    IF get.pc = "idle" THEN get.len = Unset
    ELSE multi.pc = "idle" /\ find.pc = "idle" /\ Holds(get, file, stream[Body])

LEMMA FlattenIsSeq == ASSUME NEW S, NEW s \in Seq(Seq(S)) PROVE FlattenSeq(s) \in Seq(S)
<1>1. <<>> \in Seq(S)
  OBVIOUS
<1> QED BY <1>1, FlattenAppend

LEMMA BodiesAreSeq ==
    ASSUME NEW len \in Nat, NEW rs \in Seq(Within(len))
    PROVE  /\ Bodies(rs) \in Seq(Seq(Int)) /\ Len(Bodies(rs)) = Len(rs)
           /\ FlattenSeq(Bodies(rs)) \in Seq(Int)
<1>1. [start |-> 0, count |-> 0] \in Within(len)
  BY DEF Within
<1> QED BY <1>1, BodiesAppend, FlattenIsSeq

\* The first of the ranges that are left, and the others
LEMMA BodiesHead ==
    ASSUME NEW len \in Nat, NEW rs \in Seq(Within(len)), rs # <<>>
    PROVE  /\ Head(rs) \in Within(len) /\ Tail(rs) \in Seq(Within(len))
           /\ FlattenSeq(Bodies(Tail(rs))) \in Seq(Int)
           /\ FlattenSeq(Bodies(rs)) = Seg(Head(rs).start, Head(rs).count) \o FlattenSeq(Bodies(Tail(rs)))
<1> DEFINE n == Len(Tail(rs))
           t == Tail(rs)
           b == Bodies(rs)
<1>1. /\ n \in Nat /\ Len(rs) = n + 1 /\ t \in Seq(Within(len)) /\ Head(rs) = rs[1] /\ rs[1] \in Within(len)
      /\ \A i \in 1..n : t[i] = rs[i + 1]
      /\ DOMAIN t = 1..n /\ DOMAIN rs = 1..n + 1
  <2>1. Len(rs) \in Nat \ {0}
    BY EmptySeq
  <2> QED BY <2>1, HeadTailProperties
<1>2. b \in Seq(Seq(Int)) /\ Len(b) = n + 1 /\ b # <<>>
  <2>1. b \in Seq(Seq(Int)) /\ Len(b) = n + 1
    BY <1>1, BodiesAreSeq
  <2> HIDE DEF b, n
  <2> QED BY <1>1, <2>1
<1> HIDE DEF t, n, b
<1>3. FlattenSeq(b) = Head(b) \o FlattenSeq(Tail(b))
  BY <1>2, FlattenHead
<1>4. Head(b) = b[1] /\ Tail(b) \in Seq(Seq(Int)) /\ Len(Tail(b)) = n /\ \A i \in 1..n : Tail(b)[i] = b[i + 1]
  BY <1>1, <1>2, HeadTailProperties
<1>5. \A i \in 1..n + 1 : b[i] = Seg(rs[i].start, rs[i].count)
  BY <1>1 DEF Bodies, b
<1>6. Head(b) = Seg(rs[1].start, rs[1].count)
  BY <1>1, <1>4, <1>5
<1>7. Tail(b) = Bodies(t)
  <2>1. \A i \in 1..n : Tail(b)[i] = Seg(t[i].start, t[i].count)
    BY <1>1, <1>4, <1>5
  <2> DEFINE c == Tail(b)
  <2> HIDE DEF c
  <2>3. c \in Seq(Seq(Int)) /\ Len(c) = n /\ \A i \in 1..n : c[i] = Seg(t[i].start, t[i].count)
    BY <1>4, <2>1 DEF c
  <2>2. c = [i \in 1..n |-> Seg(t[i].start, t[i].count)]
    BY <2>3
  <2> QED BY <1>1, <2>2 DEF Bodies, c
<1>8. FlattenSeq(Bodies(t)) \in Seq(Int)
  BY <1>1, BodiesAreSeq
<1> QED BY <1>1, <1>3, <1>6, <1>7, <1>8 DEF t, b

\* What the steps of the body make of the handler
Started(g) == [Seeked(g) EXCEPT !.left = Head(g.ranges).count]
RangeSkipped(g) == [g EXCEPT !.ranges = Tail(@), !.skipped = TRUE]
RangeEnded(g) == [g EXCEPT !.left = Unset, !.ranges = Tail(@)]
ChunkRead(g, f, n) ==
    [g EXCEPT !.left = @ - min(@, n), !.curpos = @ + n, !.pos = IF @ < f.len THEN @ + n ELSE @]

Continues(g, g1) == DOMAIN g1 = GetFields /\ g1.pc = g.pc /\ g1.req = g.req

LEMMA StartHolds ==
    ASSUME NEW g, NEW f, NEW body, NEW body1, Sending(g, f, body), DOMAIN g = GetFields,
           g.left = Unset, g.ranges # <<>>,
           body1.fut # "ok", Only(body1.sent, "data") = Only(body.sent, "data")
    PROVE  Sending(Started(g), f, body1) /\ Continues(g, Started(g))
<1> DEFINE r == Head(g.ranges)
           g1 == Started(g)
<1>1. g.len \in Nat
  BY GetAssumption DEF Sending
<1>2. /\ r \in Within(g.len) /\ FlattenSeq(Bodies(Tail(g.ranges))) \in Seq(Int)
      /\ FlattenSeq(Bodies(g.ranges)) = Seg(r.start, r.count) \o FlattenSeq(Bodies(Tail(g.ranges)))
  <2>1. g.ranges \in Seq(Within(g.len)) /\ g.ranges # <<>>
    BY DEF Sending, InPlace
  <2> QED BY <1>1, <2>1, BodiesHead
<1>3. r.start \in Nat /\ r.count \in Nat /\ r.start + r.count <= g.len
  BY <1>2 DEF Within
<1> HIDE DEF r
<1>4. /\ DOMAIN g1 = GetFields /\ g1.pc = g.pc /\ g1.req = g.req /\ g1.len = g.len /\ g1.ranges = g.ranges
      /\ g1.status = g.status /\ g1.announced = g.announced /\ g1.left = r.count /\ g1.curpos = r.start
      /\ g1.skipped = g.skipped
      /\ g1.pos = IF g.curpos = r.start THEN g.pos ELSE r.start
  BY DEF Seeked, Started, GetFields, r
<1> HIDE DEF g1
<1>5. IsTrue(g1) /\ PromiseOf(g1) = PromiseOf(g)
  BY <1>4 DEF IsTrue, PromiseOf, Sending
<1>6. Rest(g1) = Rest(g)
  <2>1. g1.left # Unset
    BY <1>3, <1>4 DEF Unset
  <2> QED BY <1>2, <1>4, <2>1 DEF Rest, r
<1>7. InPlace(g1, f) /\ LengthKept(g1)
  BY <1>3, <1>4 DEF InPlace, LengthKept, Sending, Unset
<1>8. Sending(g1, f, body1) /\ Continues(g, g1)
  BY <1>4, <1>5, <1>6, <1>7 DEF Sending, Continues
<1> QED BY <1>8 DEF g1

LEMMA SkipHolds ==
    ASSUME NEW g, NEW f, NEW body, Sending(g, f, body), DOMAIN g = GetFields,
           g.left = Unset, g.ranges # <<>>, g.curpos # Head(g.ranges).start, body.fut # "ok"
    PROVE  Sending(RangeSkipped(g), f, body) /\ Continues(g, RangeSkipped(g))
<1> DEFINE g1 == RangeSkipped(g)
           r == Head(g.ranges)
           tail == FlattenSeq(Bodies(Tail(g.ranges)))
<1>1. g.len \in Nat /\ g.ranges \in Seq(Within(g.len)) /\ g.announced = Unset
  BY GetAssumption DEF Sending, InPlace, LengthKept
<1>2. /\ r \in Within(g.len) /\ Tail(g.ranges) \in Seq(Within(g.len)) /\ tail \in Seq(Int)
      /\ FlattenSeq(Bodies(g.ranges)) = Seg(r.start, r.count) \o tail
  BY <1>1, BodiesHead
<1>3. r.start \in Int /\ r.count \in Nat
  BY <1>2 DEF Within
<1>4. /\ DOMAIN g1 = GetFields /\ g1.pc = g.pc /\ g1.req = g.req /\ g1.len = g.len /\ g1.ranges = Tail(g.ranges)
      /\ g1.status = g.status /\ g1.announced = g.announced /\ g1.left = Unset /\ g1.curpos = g.curpos
      /\ g1.pos = g.pos /\ g1.skipped
  BY DEF GetFields, RangeSkipped
<1> HIDE DEF g1, r
<1>5. IsTrue(g1) /\ PromiseOf(g1) = PromiseOf(g)
  BY <1>4 DEF IsTrue, PromiseOf, Sending
<1>6. InPlace(g1, f) /\ LengthKept(g1)
  BY <1>1, <1>2, <1>4 DEF InPlace, LengthKept, Sending
<1>7. Rest(g1) = tail /\ Rest(g) = Seg(r.start, r.count) \o tail
  BY <1>2, <1>4 DEF Rest
<1>8. NoLonger(Only(body.sent, "data"), Rest(g1), FlattenSeq(PromiseOf(g)))
  <2> DEFINE data == Only(body.sent, "data")
             promised == FlattenSeq(PromiseOf(g))
             seg == Seg(r.start, r.count)
  <2>1. NoLonger(data, seg \o tail, promised)
    BY <1>7 DEF Sending
  <2>2. seg \in Seq(Int) /\ Len(seg) = r.count
    BY <1>3, SegIs
  <2> HIDE DEF data, promised, seg, tail
  <2>3. NoLonger(data, tail, promised)
    BY <1>2, <1>3, <2>1, <2>2 DEF NoLonger
  <2> QED BY <1>7, <2>3 DEF data, promised
<1>9. Sending(g1, f, body) /\ Continues(g, g1)
  BY <1>4, <1>5, <1>6, <1>8 DEF Sending, Continues
<1> QED BY <1>9 DEF g1

LEMMA EndRangeHolds ==
    ASSUME NEW g, NEW f, NEW body, Sending(g, f, body), DOMAIN g = GetFields, g.left = 0, body.fut # "ok"
    PROVE  Sending(RangeEnded(g), f, body) /\ Continues(g, RangeEnded(g))
<1> DEFINE g1 == RangeEnded(g)
<1>1. g.len \in Nat /\ g.ranges # <<>> /\ g.ranges \in Seq(Within(g.len)) /\ g.curpos \in Nat
  BY GetAssumption DEF Sending, InPlace, Unset
<1>2. Tail(g.ranges) \in Seq(Within(g.len)) /\ FlattenSeq(Bodies(Tail(g.ranges))) \in Seq(Int)
  BY <1>1, BodiesHead
<1>4. /\ DOMAIN g1 = GetFields /\ g1.pc = g.pc /\ g1.req = g.req /\ g1.len = g.len /\ g1.ranges = Tail(g.ranges)
      /\ g1.status = g.status /\ g1.announced = g.announced /\ g1.left = Unset /\ g1.curpos = g.curpos
      /\ g1.pos = g.pos /\ g1.skipped = g.skipped
  BY DEF GetFields, RangeEnded
<1> HIDE DEF g1
<1>5. IsTrue(g1) /\ PromiseOf(g1) = PromiseOf(g)
  BY <1>4 DEF IsTrue, PromiseOf, Sending
<1>6. Rest(g1) = Rest(g)
  <2>1. Seg(g.curpos, 0) = <<>>
    BY DEF Seg
  <2>2. <<>> \o FlattenSeq(Bodies(Tail(g.ranges))) = FlattenSeq(Bodies(Tail(g.ranges)))
    BY <1>2, ConcatEmptySeq
  <2>3. g.left # Unset
    BY DEF Unset
  <2> QED BY <1>4, <2>1, <2>2, <2>3 DEF Rest
<1>7. InPlace(g1, f) /\ LengthKept(g1)
  <2>1. InPlace(g1, f)
    BY <1>2, <1>4 DEF InPlace, Sending
  <2>2. ASSUME g.announced # Unset PROVE ~g1.skipped /\ Tail(g.ranges) = <<>> /\ Len(<<>>) = 0
    <3>1. ~g.skipped /\ Len(g.ranges) <= 1
      BY <2>2 DEF Sending, LengthKept
    <3> DEFINE S == Within(g.len)
               s == g.ranges
    <3>2. s \in Seq(S) /\ s # <<>> /\ Tail(s) \in Seq(S) /\ Len(s) <= 1
      BY <1>1, <1>2, <3>1
    <3> HIDE DEF S, s
    <3>3. Len(s) \in Nat \ {0} /\ Len(Tail(s)) = Len(s) - 1
      BY <3>2, EmptySeq, HeadTailProperties
    <3>4. Len(Tail(s)) = 0
      BY <3>2, <3>3
    <3>5. Tail(s) = <<>>
      BY <3>2, <3>4, EmptySeq
    <3> QED BY <1>4, <3>1, <3>5 DEF s
  <2>3. LengthKept(g1)
    <3> SUFFICES ASSUME g1.announced # Unset
                 PROVE  ~g1.skipped /\ Len(g1.ranges) <= 1 /\ g1.ranges = <<>>
      BY DEF LengthKept
    <3>1. ~g1.skipped /\ g1.ranges = <<>> /\ Len(g1.ranges) = 0
      BY <1>4, <2>2
    <3> QED BY <3>1
  <2> QED BY <2>1, <2>3
<1>8. Sending(g1, f, body) /\ Continues(g, g1)
  BY <1>4, <1>5, <1>6, <1>7 DEF Sending, Continues
<1> QED BY <1>8 DEF g1

LEMMA ChunkIs ==
    ASSUME get.left \in Nat \ {0}, get.pos \in Nat, file.len \in Nat
    PROVE  \E k \in 1..get.left :
             /\ Len(Chunk) = k /\ Chunk \in Seq(Int)
             /\ get.pos < file.len => get.pos + k <= file.len /\ \A i \in 1..k : Chunk[i] = get.pos + i - 1
             /\ get.pos >= file.len => \A i \in 1..k : Chunk[i] = Zero
<1>0. ReadBufSize \in Nat \ {0} /\ ZeroBuf \in Nat \ {0}
  BY GetAssumption
<1>1. CASE get.pos < file.len
  <2> DEFINE k == min(min(get.left, ReadBufSize), file.len - get.pos)
  <2>1. k \in 1..get.left /\ get.pos + k <= file.len /\ k \in Nat
    BY <1>0, <1>1 DEF min
  <2>2. Chunk = Seg(get.pos, k)
    BY <1>1 DEF Chunk, Bytes, Seg
  <2> HIDE DEF k
  <2>3. Chunk \in Seq(Int) /\ Len(Chunk) = k /\ \A i \in 1..k : Chunk[i] = get.pos + i - 1
    <3>1. get.pos \in Int /\ k \in Nat
      BY <2>1
    <3> QED BY <2>2, <3>1, SegIs
  <2>4. ~(get.pos >= file.len)
    BY <1>1
  <2> QED BY <2>1, <2>3, <2>4
<1>2. CASE ~(get.pos < file.len)
  <2> DEFINE k == min(get.left, ZeroBuf)
             z == [i \in 1..k |-> Zero]
  <2>1. k \in 1..get.left /\ k \in Nat
    BY <1>0 DEF min
  <2>2. Chunk = z
    BY <1>2 DEF Chunk, Zeroes
  <2> HIDE DEF k
  <2>3. z \in [1..k -> Int] /\ \A i \in 1..k : z[i] = Zero
    BY DEF Zero
  <2> HIDE DEF z
  <2>4. z \in Seq(Int) /\ Len(z) = k
    BY <2>1, <2>3
  <2> QED BY <1>2, <2>1, <2>2, <2>3, <2>4
<1> QED BY <1>1, <1>2

LEMMA ReadHolds ==
    ASSUME NEW body, NEW body1, Sending(get, file, body), DOMAIN get = GetFields,
           file.len \in Lengths, file.low \in Nat, file.low <= file.len, get.left > 0,
           body1.fut # "ok", Only(body1.sent, "data") = Only(body.sent, "data") \o Chunk
    PROVE  LET g1 == ChunkRead(get, file, Len(Chunk)) IN Sending(g1, file, body1) /\ Continues(get, g1)
<1> DEFINE g1 == ChunkRead(get, file, Len(Chunk))
<1>1. /\ get.len \in Nat /\ file.len \in Nat /\ get.curpos \in Nat /\ get.pos \in Nat /\ get.pos <= get.curpos
      /\ get.left \in Nat \ {0} /\ get.left # Unset /\ get.ranges # <<>> /\ get.curpos + get.left <= get.len
      /\ get.ranges \in Seq(Within(get.len))
      /\ get.pos # get.curpos => file.low < get.len /\ (file.regrown \/ file.len <= get.pos)
  BY GetAssumption DEF Sending, InPlace, Unset
<1>2. PICK k \in 1..get.left :
        /\ Len(Chunk) = k /\ Chunk \in Seq(Int)
        /\ get.pos < file.len => get.pos + k <= file.len /\ \A i \in 1..k : Chunk[i] = get.pos + i - 1
        /\ get.pos >= file.len => \A i \in 1..k : Chunk[i] = Zero
  BY <1>1, ChunkIs
<1>3. k \in Nat /\ k <= get.left /\ k > 0
  BY <1>1
<1>4. /\ DOMAIN g1 = GetFields /\ g1.pc = get.pc /\ g1.req = get.req /\ g1.len = get.len /\ g1.ranges = get.ranges
      /\ g1.status = get.status /\ g1.announced = get.announced /\ g1.skipped = get.skipped
      /\ g1.left = get.left - min(get.left, k) /\ g1.curpos = get.curpos + k
      /\ g1.pos = IF get.pos < file.len THEN get.pos + k ELSE get.pos
  BY <1>2 DEF GetFields, ChunkRead
<1> HIDE DEF g1
<1>5. g1.left = get.left - k /\ g1.left \in Nat /\ g1.left # Unset
  BY <1>1, <1>3, <1>4 DEF min, Unset
<1>6. IsTrue(g1) /\ PromiseOf(g1) = PromiseOf(get)
  BY <1>4 DEF IsTrue, PromiseOf, Sending
<1>7. InPlace(g1, file)
  <2>1. g1.curpos \in Nat /\ g1.pos \in Nat /\ g1.pos <= g1.curpos /\ g1.curpos + g1.left <= g1.len
    <3>1. g1.curpos \in Nat /\ g1.curpos + g1.left <= g1.len
      <4>1. \A c, l, i \in Nat : (c + i) + (l - i) = c + l
        OBVIOUS
      <4>2. (get.curpos + k) + (get.left - k) = get.curpos + get.left
        BY <1>1, <1>3, <4>1
      <4>3. get.curpos + k \in Nat
        BY <1>1, <1>3
      <4>4. g1.curpos = get.curpos + k /\ g1.left = get.left - k /\ g1.len = get.len
        BY <1>4, <1>5
      <4> QED BY ONLY <1>1, <4>2, <4>3, <4>4
    <3>2. g1.pos \in Nat /\ g1.pos <= g1.curpos
      BY <1>1, <1>3, <1>4
    <3> QED BY <3>1, <3>2
  <2>2. ASSUME g1.pos # g1.curpos PROVE file.low < g1.len /\ (file.regrown \/ file.len <= g1.pos)
    <3>1. CASE get.pos < file.len
      <4>1. get.pos # get.curpos
        BY <1>1, <1>3, <1>4, <2>2, <3>1
      <4>2. ~(file.len <= get.pos)
        BY <1>1, <3>1
      <4> QED BY <1>1, <1>4, <4>1, <4>2
    <3>2. CASE ~(get.pos < file.len)
      BY <1>1, <1>3, <1>4, <3>2
    <3> QED BY <3>1, <3>2
  <2> QED BY <1>1, <1>4, <1>5, <2>1, <2>2 DEF InPlace
<1>8. /\ NoLonger(Only(body1.sent, "data"), Rest(g1), FlattenSeq(PromiseOf(get)))
      /\ get.skipped \/ Follows(Only(body1.sent, "data"), Rest(g1), FlattenSeq(PromiseOf(get)), file)
  <2> DEFINE r == FlattenSeq(Bodies(Tail(get.ranges)))
             data == Only(body.sent, "data")
             promised == FlattenSeq(PromiseOf(get))
             a == get.curpos
             n == get.left
             buf == Chunk
  <2>1. r \in Seq(Int)
    BY <1>1, BodiesHead
  <2>2. /\ NoLonger(data, Seg(a, n) \o r, promised)
        /\ get.skipped \/ Follows(data, Seg(a, n) \o r, promised, file)
    BY <1>1 DEF Sending, Rest
  <2>3. ~file.regrown => \A i \in 1..k : buf[i] = a + i - 1 \/ (buf[i] = Zero /\ a + i - 1 >= file.low)
    <3> SUFFICES ASSUME ~file.regrown, NEW i \in 1..k
                 PROVE  buf[i] = a + i - 1 \/ (buf[i] = Zero /\ a + i - 1 >= file.low)
      OBVIOUS
    <3>1. CASE get.pos < file.len
      <4>1. get.pos = get.curpos
        BY <1>1, <3>1
      <4> QED BY <1>2, <3>1, <4>1
    <3>2. CASE ~(get.pos < file.len)
      <4>1. buf[i] = Zero
        BY <1>1, <1>2, <3>2
      <4>2. a + i - 1 >= file.low
        BY <1>1, <1>3, <3>2
      <4> QED BY <4>1, <4>2
    <3> QED BY <3>1, <3>2
  <2>4. a \in Int /\ n \in Nat /\ k \in 0..n /\ buf \in Seq(Int) /\ Len(buf) = k
    BY <1>1, <1>2, <1>3
  <2> HIDE DEF r, data, promised, a, n, buf
  <2>5. get.skipped \/ Follows(data \o buf, Seg(a + k, n - k) \o r, promised, file)
    BY <2>1, <2>2, <2>3, <2>4, MoreFollows
  <2>7. NoLonger(data \o buf, Seg(a + k, n - k) \o r, promised)
    <3> DEFINE s == Seg(a, n)
               t == Seg(a + k, n - k)
    <3>1. n - k \in Nat /\ a + k \in Int
      BY <2>4
    <3>2. s \in Seq(Int) /\ Len(s) = n /\ t \in Seq(Int) /\ Len(t) = n - k
      BY <2>4, <3>1, SegIs
    <3> HIDE DEF s, t
    <3>3. /\ data \in Seq(Int) /\ promised \in Seq(Int) /\ Len(data) + Len(s \o r) <= Len(promised)
      BY <2>2 DEF NoLonger, s
    <3>4. /\ Len(s \o r) = n + Len(r) /\ Len(t \o r) = n - k + Len(r) /\ Len(data \o buf) = Len(data) + k
          /\ data \o buf \in Seq(Int) /\ t \o r \in Seq(Int)
          /\ Len(data) \in Nat /\ Len(r) \in Nat /\ Len(promised) \in Nat
      <4>1. Len(s \o r) = n + Len(r) /\ Len(t \o r) = n - k + Len(r) /\ t \o r \in Seq(Int)
        BY ONLY <2>1, <3>2, ConcatProperties
      <4>2. Len(data \o buf) = Len(data) + k /\ data \o buf \in Seq(Int)
        BY ONLY <2>4, <3>3, ConcatProperties
      <4>3. Len(data) \in Nat /\ Len(r) \in Nat /\ Len(promised) \in Nat
        BY <2>1, <3>3
      <4> QED BY ONLY <4>1, <4>2, <4>3
    <3>5. Len(data \o buf) + Len(t \o r) <= Len(promised)
      BY <2>4, <3>3, <3>4
    <3> QED BY <3>3, <3>4, <3>5 DEF NoLonger, t
  <2>6. Rest(g1) = Seg(a + k, n - k) \o r
    BY <1>4, <1>5 DEF Rest, a, n, r
  <2> QED BY <2>5, <2>6, <2>7 DEF data, promised, buf
<1>10. LengthKept(g1)
  BY <1>4, <1>5 DEF LengthKept, Sending
<1>9. Sending(g1, file, body1) /\ Continues(get, g1)
  BY <1>4, <1>5, <1>6, <1>7, <1>8, <1>10 DEF Sending, Continues
<1> QED BY <1>9 DEF g1

LEMMA CutHolds ==
    ASSUME NEW body, Sending(get, file, body), DOMAIN get = GetFields,
           file.len \in Lengths, file.low \in Nat, file.low <= file.len, file.regrown \in BOOLEAN,
           NEW n \in Lengths,
           file' = [len |-> n, low |-> min(n, file.low), changes |-> file.changes + 1,
                    regrown |-> file.regrown \/ (n > file.len /\ file.low < get.len)]
    PROVE  Sending(get, file', body)
<1>1. n \in Nat /\ file.len \in Nat /\ get.len \in Nat
  BY GetAssumption DEF Sending
<1>2. /\ file'.len = n /\ file'.low = min(n, file.low)
      /\ file.regrown => file'.regrown
      /\ n > file.len /\ file.low < get.len => file'.regrown
      /\ file'.regrown \in BOOLEAN
  OBVIOUS
<1>3. file'.low \in Nat /\ file'.low <= file.low
  BY <1>1, <1>2 DEF min
<1>4. InPlace(get, file')
  <2>1. InPlace(get, file)
    BY DEF Sending
  <2>2. ASSUME get.pos # get.curpos
        PROVE  file'.low < get.len /\ (file'.regrown \/ file'.len <= get.pos)
    <3>1. get.pos \in Nat /\ file.low < get.len /\ (file.regrown \/ file.len <= get.pos)
      BY <2>1, <2>2 DEF InPlace
    <3> QED BY <1>1, <1>2, <1>3, <3>1
  <2> QED BY <2>1, <2>2 DEF InPlace
<1>5. get.skipped \/ Follows(Only(body.sent, "data"), Rest(get), FlattenSeq(PromiseOf(get)), file')
  <2>1. get.skipped \/ Follows(Only(body.sent, "data"), Rest(get), FlattenSeq(PromiseOf(get)), file)
    BY DEF Sending
  <2>2. file.low \in Int /\ file'.low \in Int /\ (file.regrown => file'.regrown)
    BY <1>2, <1>3
  <2> QED BY <1>3, <2>1, <2>2, CutFollows
<1> QED BY <1>4, <1>5 DEF Sending

-----------------------------------------------------------------------------
(* An index.                                                               *)

LEMMA BeforeIsOrder ==
    ASSUME NEW a \in IndexEntries, NEW b \in IndexEntries
    PROVE  /\ ~Before(a, a) /\ ~(Before(a, b) /\ Before(b, a))
           /\ a # b => Before(a, b) \/ Before(b, a)
           /\ \A c \in IndexEntries : Before(a, b) /\ Before(b, c) => Before(a, c)
<1> USE DEF Before
<1>1. /\ \A e \in IndexEntries : e.name \in Nat /\ e.dir \in BOOLEAN
      /\ a.name = b.name => a = b
  BY GetAssumption
<1>2. ~Before(a, a) /\ ~(Before(a, b) /\ Before(b, a))
  BY <1>1
<1>3. a # b => Before(a, b) \/ Before(b, a)
  BY <1>1
<1>4. ASSUME NEW c \in IndexEntries, Before(a, b), Before(b, c) PROVE Before(a, c)
  BY <1>1, <1>4
<1> QED BY <1>2, <1>3, <1>4

\* Each row is at its place: as many come before it as its place says.
LEMMA RowsInOrder ==
    ASSUME NEW rows \in SUBSET IndexEntries
    PROVE  /\ IsFiniteSet(rows) /\ Cardinality(rows) \in Nat
           /\ InRows(rows) \in Seq(rows) /\ Len(InRows(rows)) = Cardinality(rows)
           /\ \A i, j \in 1..Cardinality(rows) : i < j =>
                /\ InRows(rows)[i] # InRows(rows)[j]
                /\ ~Before(InRows(rows)[j], InRows(rows)[i])
<1> DEFINE c == Cardinality(rows)
           lower(e) == {o \in rows : Before(o, e)}
           rank == [e \in rows |-> Cardinality(lower(e))]
           T == 0..c - 1
<1>1. IsFiniteSet(rows) /\ c \in Nat
  BY GetAssumption, FS_Subset, FS_CardinalityType
<1>2. ASSUME NEW e \in rows PROVE lower(e) \subseteq rows /\ lower(e) # rows
  BY BeforeIsOrder
<1>3. ASSUME NEW e \in rows PROVE IsFiniteSet(lower(e)) /\ Cardinality(lower(e)) \in T
  <2> HIDE DEF lower
  <2>1. /\ IsFiniteSet(lower(e)) /\ Cardinality(lower(e)) <= c /\ Cardinality(lower(e)) # c
    BY <1>1, <1>2, FS_Subset
  <2>2. Cardinality(lower(e)) \in Nat
    BY <2>1, FS_CardinalityType
  <2> QED BY <1>1, <2>1, <2>2
<1>4. ASSUME NEW a \in rows, NEW b \in rows, Before(a, b) PROVE rank[a] < rank[b]
  <2>1. lower(a) \subseteq lower(b) /\ a \in lower(b) /\ a \notin lower(a)
    BY <1>4, BeforeIsOrder
  <2>2. rank[a] = Cardinality(lower(a)) /\ rank[b] = Cardinality(lower(b))
    OBVIOUS
  <2> HIDE DEF lower, rank
  <2>3. /\ Cardinality(lower(a)) <= Cardinality(lower(b))
        /\ Cardinality(lower(a)) # Cardinality(lower(b))
    BY <1>3, <2>1, FS_Subset
  <2>4. Cardinality(lower(a)) \in Nat /\ Cardinality(lower(b)) \in Nat
    BY <1>3
  <2> QED BY <2>2, <2>3, <2>4
<1>5. rank \in [rows -> T]
  <2> HIDE DEF lower, T
  <2> QED BY <1>3
<1> HIDE DEF rank
<1>6. ASSUME NEW a \in rows, NEW b \in rows, rank[a] = rank[b] PROVE a = b
  <2>1. rank[a] \in Int /\ rank[b] \in Int
    BY <1>5
  <2>2. ~(rank[a] < rank[b]) /\ ~(rank[b] < rank[a])
    BY <1>6, <2>1
  <2> QED BY <1>4, <2>2, BeforeIsOrder
<1>7. IsFiniteSet(T) /\ Cardinality(T) = c
  <2>1. 0 \in Int /\ c - 1 \in Int
    BY <1>1
  <2>2. IsFiniteSet(0..c - 1) /\ Cardinality(0..c - 1) = IF 0 > c - 1 THEN 0 ELSE (c - 1) - 0 + 1
    BY ONLY <2>1, FS_Interval
  <2> QED BY <1>1, <2>2
<1> HIDE DEF T
<1>8. rank \in Injection(rows, T)
  BY <1>5, <1>6 DEF Injection, IsInjective
<1>9. rank \in Surjection(rows, T)
  BY <1>7, <1>8, FS_Injection
<1> DEFINE s == InRows(rows)
<1>10. s = [i \in 1..c |-> CHOOSE e \in rows : Cardinality(lower(e)) = i - 1]
  BY DEF Sorted, InRows
<1>11. ASSUME NEW i \in 1..c PROVE s[i] \in rows /\ rank[s[i]] = i - 1
  <2>1. i - 1 \in T
    BY <1>1 DEF T
  <2>2. PICK e \in rows : rank[e] = i - 1
    BY <1>9, <2>1 DEF Surjection
  <2>3. \A x \in rows : rank[x] = Cardinality(lower(x))
    BY DEF rank
  <2>4. s[i] = CHOOSE x \in rows : Cardinality(lower(x)) = i - 1
    BY <1>10
  <2> HIDE DEF s, lower
  <2> QED BY <2>2, <2>3, <2>4
<1>12. s \in Seq(rows) /\ Len(s) = c
  <2>1. s \in [1..c -> rows]
    BY <1>10, <1>11
  <2> HIDE DEF s
  <2> QED BY <1>1, <2>1
<1>13. ASSUME NEW i \in 1..c, NEW j \in 1..c, i < j PROVE s[i] # s[j] /\ ~Before(s[j], s[i])
  <2> HIDE DEF s, c
  <2>1. rank[s[i]] = i - 1 /\ rank[s[j]] = j - 1 /\ s[i] \in rows /\ s[j] \in rows
    BY <1>11
  <2>2. ~(rank[s[j]] < rank[s[i]]) /\ rank[s[i]] # rank[s[j]]
    BY <1>1, <1>13, <2>1
  <2> QED BY <1>4, <2>1, <2>2
<1> QED BY <1>1, <1>12, <1>13

LEMMA PageIs ==
    ASSUME NEW rows \in SUBSET IndexEntries
    PROVE  /\ Page(rows) \in Seq(Sendable) /\ Len(Page(rows)) = Cardinality(rows) + 2
           /\ Page(rows)[1].kind = "page"
           /\ \A i \in 1..Cardinality(rows) :
                Page(rows)[i + 1] = [kind |-> "row", bytes |-> <<InRows(rows)[i].name>>]
           /\ Page(rows)[Cardinality(rows) + 2] = LastPart
<1> DEFINE c == Cardinality(rows)
           s == InRows(rows)
           x == [kind |-> "page", bytes |-> <<>>]
           m == [i \in DOMAIN s |-> [kind |-> "row", bytes |-> <<s[i].name>>]]
           xm == <<x>> \o m
           p == xm \o <<LastPart>>
<1>1. c \in Nat /\ s \in Seq(rows) /\ Len(s) = c
  BY RowsInOrder
<1>2. Page(rows) = p
  BY DEF Page, InRows
<1>3. x \in Sendable /\ LastPart \in Sendable /\ x.kind = "page"
  BY DEF Sendable, LastPart
<1>4. m \in Seq(Sendable) /\ Len(m) = c /\ \A i \in 1..c : m[i] = [kind |-> "row", bytes |-> <<s[i].name>>]
  <2> HIDE DEF s, c
  <2>1. DOMAIN s = 1..c /\ \A i \in 1..c : s[i].name \in Int
    BY <1>1, GetAssumption
  <2>2. ASSUME NEW i \in 1..c PROVE [kind |-> "row", bytes |-> <<s[i].name>>] \in Sendable
    <3>1. <<s[i].name>> \in Seq(Int)
      BY <2>1
    <3> QED BY <3>1 DEF Sendable
  <2>3. m \in [1..c -> Sendable] /\ \A i \in 1..c : m[i] = [kind |-> "row", bytes |-> <<s[i].name>>]
    BY <2>1, <2>2
  <2> HIDE DEF m
  <2> QED BY <1>1, <2>3
<1>5. <<x>> \in Seq(Sendable) /\ Len(<<x>>) = 1 /\ <<x>>[1] = x
  BY <1>3
<1>6. <<LastPart>> \in Seq(Sendable) /\ Len(<<LastPart>>) = 1 /\ <<LastPart>>[1] = LastPart
  BY <1>3
<1> HIDE DEF x, m, c, s
<1>7. /\ xm \in Seq(Sendable) /\ Len(xm) = c + 1 /\ xm[1] = x
      /\ \A i \in 1..c : xm[i + 1] = m[i]
  <2> DEFINE one == <<x>>
  <2> HIDE DEF one
  <2>1. one \in Seq(Sendable) /\ Len(one) = 1 /\ one[1] = x /\ m \in Seq(Sendable) /\ Len(m) = c
    BY <1>4, <1>5 DEF one
  <2>2. /\ one \o m \in Seq(Sendable) /\ Len(one \o m) = Len(one) + Len(m)
        /\ \A i \in 1..Len(one) : (one \o m)[i] = one[i]
        /\ \A i \in 1..Len(m) : (one \o m)[Len(one) + i] = m[i]
    BY ONLY <2>1, ConcatIs
  <2>3. one \o m = xm
    BY DEF one
  <2> HIDE DEF xm
  <2>4. 1 \in 1..1 /\ \A i \in 1..c : 1 + i = i + 1
    BY <1>1
  <2> QED BY <1>1, <2>1, <2>2, <2>3, <2>4
<1> HIDE DEF xm
<1>8. /\ p \in Seq(Sendable) /\ Len(p) = (c + 1) + 1
      /\ \A i \in 1..c + 1 : p[i] = xm[i]
      /\ p[(c + 1) + 1] = LastPart
  <2> DEFINE one == <<LastPart>>
  <2> HIDE DEF one
  <2>1. one \in Seq(Sendable) /\ Len(one) = 1 /\ one[1] = LastPart /\ xm \in Seq(Sendable) /\ Len(xm) = c + 1
    BY <1>6, <1>7 DEF one
  <2>2. /\ xm \o one \in Seq(Sendable) /\ Len(xm \o one) = Len(xm) + Len(one)
        /\ \A i \in 1..Len(xm) : (xm \o one)[i] = xm[i]
        /\ \A i \in 1..Len(one) : (xm \o one)[Len(xm) + i] = one[i]
    <3>1. xm \in Seq(Sendable) /\ one \in Seq(Sendable)
      BY <2>1
    <3> QED BY ONLY <3>1, ConcatIs
  <2>3. xm \o one = p
    BY DEF one
  <2> HIDE DEF p
  <2>4. 1 \in 1..Len(one)
    BY <2>1
  <2> QED BY <2>1, <2>2, <2>3, <2>4
<1> HIDE DEF p
<1>9. /\ (c + 1) + 1 = c + 2 /\ 1 \in 1..c + 1 /\ \A i \in 1..c : i + 1 \in 1..c + 1
  BY <1>1
<1>10. p[1].kind = "page"
  BY <1>3, <1>7, <1>8, <1>9
<1>11. \A i \in 1..c : p[i + 1] = [kind |-> "row", bytes |-> <<s[i].name>>]
  BY <1>4, <1>7, <1>8, <1>9
<1> QED BY <1>2, <1>8, <1>9, <1>10, <1>11 DEF c, s

LEMMA PageHolds ==
    ASSUME NEW g, NEW body, NEW body1, Listing(g, body), body.sent \in Seq(Sendable),
           g.seen = IndexEntries,
           ~\E i \in DOMAIN body.sent : body.sent[i].kind = "end",
           body1.sent = Append(body.sent, Page(g.rows)[Len(body.sent) + 1])
    PROVE  Listing(g, body1) /\ body1.sent \in Seq(Sendable)
<1> DEFINE rows == g.rows
           c == Cardinality(rows)
           sent == body.sent
           n == Len(sent)
           page == Page(rows)
           x == page[n + 1]
           told == Only(sent, "row")
           s == InRows(rows)
<1>1. rows \in SUBSET IndexEntries
  BY DEF Listing, Shown
<1>2. /\ page \in Seq(Sendable) /\ Len(page) = c + 2 /\ page[1].kind = "page"
      /\ \A i \in 1..c : page[i + 1] = [kind |-> "row", bytes |-> <<s[i].name>>]
      /\ page[c + 2] = LastPart
  BY <1>1, PageIs
<1>3. /\ c \in Nat /\ n \in Nat /\ sent \in Seq(Sendable) /\ s \in Seq(rows) /\ Len(s) = c
      /\ n <= Len(page) /\ (\A j \in 1..n : sent[j] = page[j])
      /\ Len(told) = Told(n, c) /\ \A i \in 1..Len(told) : told[i] = s[i].name
  BY <1>1, RowsInOrder DEF Listing
<1> HIDE DEF page
<1>4. n <= c + 1
  <2> SUFFICES ASSUME n = c + 2 PROVE FALSE
    BY <1>2, <1>3
  <2>1. n \in 1..n /\ n \in DOMAIN sent /\ sent[n] = LastPart
    BY <1>2, <1>3
  <2> QED BY <2>1 DEF LastPart
<1>5. x \in Sendable /\ n + 1 <= Len(page)
  BY <1>2, <1>3, <1>4
<1> HIDE DEF x
<1>6. /\ body1.sent \in Seq(Sendable) /\ Len(body1.sent) = n + 1
      /\ \A j \in 1..n : body1.sent[j] = sent[j]
      /\ body1.sent[n + 1] = x
  <2>1. body1.sent = Append(sent, x)
    BY DEF x, page
  <2> HIDE DEF n, sent
  <2>2. sent \in Seq(Sendable) /\ n = Len(sent)
    BY <1>3 DEF n
  <2> QED BY <1>5, <2>1, <2>2
<1>7. ASSUME NEW j \in 1..n + 1 PROVE body1.sent[j] = page[j]
  <2>1. CASE j = n + 1
    BY <1>6, <2>1 DEF x
  <2>2. CASE j # n + 1
    <3>1. j \in 1..n
      BY <1>3, <2>2
    <3> QED BY <1>3, <1>6, <3>1
  <2> QED BY <2>1, <2>2
<1> DEFINE told1 == Only(body1.sent, "row")
<1>8. told \in Seq(Int) /\ told1 = IF x.kind = "row" THEN told \o x.bytes ELSE told
  <2>1. body1.sent = Append(sent, x)
    BY DEF x, page
  <2> HIDE DEF sent
  <2>2. sent \in Seq(Sendable)
    BY <1>3
  <2>3. Only(sent, "row") \in Seq(Int) /\ Only(Append(sent, x), "row") = IF x.kind = "row" THEN Only(sent, "row") \o x.bytes ELSE Only(sent, "row")
    BY ONLY <1>5, <2>2, OnlyAppend
  <2> QED BY <2>1, <2>3
<1> HIDE DEF told, told1, s, c
<1>9. /\ Len(told1) = Told(n + 1, c)
      /\ \A i \in 1..Len(told1) : told1[i] = s[i].name
  <2>1. CASE n = 0
    <3>1. x.kind # "row"
      BY <1>2, <2>1 DEF x
    <3>2. Told(0 + 1, c) = 0 /\ Told(0, c) = 0
      BY <1>3 DEF Told, min
    <3> QED BY <1>3, <1>8, <2>1, <3>1, <3>2
  <2>2. CASE n = c + 1
    <3>1. n + 1 = c + 2
      BY <1>3, <2>2
    <3>2. x.kind # "row"
      BY <1>2, <3>1 DEF x, LastPart
    <3>3. Told(n + 1, c) = c /\ Told(n, c) = c
      BY <1>3, <2>2 DEF Told, min
    <3> QED BY <1>3, <1>8, <3>2, <3>3
  <2>3. CASE n # 0 /\ n # c + 1
    <3>1. n \in 1..c
      BY <1>3, <1>4, <2>3
    <3>2. x = [kind |-> "row", bytes |-> <<s[n].name>>]
      BY <1>2, <3>1 DEF x
    <3>3. told1 = told \o <<s[n].name>>
      BY <1>8, <3>2
    <3>4. Told(n, c) = n - 1 /\ Told(n + 1, c) = n
      BY <1>3, <3>1 DEF Told, min
    <3>5. s[n].name \in Int
      BY <1>1, <1>3, <3>1, GetAssumption
    <3> DEFINE y == s[n].name
    <3>6. y \in Int /\ told1 = told \o <<y>>
      BY <3>3, <3>5
    <3> HIDE DEF y
    <3>7. Len(told) = n - 1
      BY <1>3, <3>4
    <3>8. told1 = Append(told, y)
      BY <1>8, <3>6
    <3>9. Len(told1) = n /\ told1[n] = y /\ \A i \in 1..n - 1 : told1[i] = told[i]
      BY <1>3, <1>8, <3>1, <3>6, <3>7, <3>8
    <3>10. ASSUME NEW i \in 1..n PROVE told1[i] = s[i].name
      <4>1. CASE i = n
        BY <3>9, <4>1 DEF y
      <4>2. CASE i # n
        <5>1. i \in 1..n - 1
          BY <1>3, <4>2
        <5> QED BY <1>3, <3>7, <3>9, <5>1
      <4> QED BY <4>1, <4>2
    <3> QED BY <3>4, <3>9, <3>10
  <2> QED BY <2>1, <2>2, <2>3
<1>10. g.len = Unset /\ rows \subseteq Shown(g.req.hide) /\ g.seen \subseteq IndexEntries
  BY DEF Listing
<1> QED BY <1>5, <1>6, <1>7, <1>9, <1>10 DEF Listing, page, told1, s, c

LEMMA ShownIsVisible ==
    ASSUME NEW hide \in HideOptions, NEW e \in Shown(hide)
    PROVE  ~HiddenPath([hide EXCEPT !.dots = IF HidesDots(hide, "autoindex") THEN "Always" ELSE "Never"], e.path)
<1> DEFINE x == e.path[1]
           h == [hide EXCEPT !.dots = IF HidesDots(hide, "autoindex") THEN "Always" ELSE "Never"]
<1>1. e \in IndexEntries /\ ~HiddenEntry(hide, "autoindex", e.path) /\ e.path = <<x>>
  BY GetAssumption DEF Shown
<1>2. Len(<<x>>) = 1 /\ <<x>>[1] = x /\ DOMAIN <<x>> = {1} /\ SubSeq(<<x>>, 1, 1) = <<x>>
  <2>1. <<x>> \in Seq({x}) /\ Len(<<x>>) = 1
    OBVIOUS
  <2>2. SubSeq(<<x>>, 1, 1) = <<x>>
    BY <2>1, SubSeqFull
  <2> QED BY <2>2
<1>3. ~(x \in Markers) /\ ~(HidesDots(hide, "autoindex") /\ x \in DotNames) /\ ~(hide.links /\ <<x>> \in Links)
  <2> HIDE DEF x
  <2>1. <<x>>[Len(<<x>>)] = x
    BY <1>2
  <2>2. ~HiddenEntry(hide, "autoindex", <<x>>)
    BY <1>1
  <2> QED BY <2>1, <2>2 DEF HiddenEntry, is_collection_marker
<1>4. h.links = hide.links /\ h.dots = IF HidesDots(hide, "autoindex") THEN "Always" ELSE "Never"
  BY DEF HideOptions
<1>5. h.dots \in {"ForDirectPaths", "Always"} => HidesDots(hide, "autoindex")
  <2> HIDE DEF h
  <2> QED BY <1>4
<1> HIDE DEF x, h
<1>6. ~HiddenPath(h, <<x>>)
  <2> SUFFICES ASSUME HiddenPath(h, <<x>>) PROVE FALSE
    OBVIOUS
  <2>1. CASE \E i \in DOMAIN <<x>> : is_collection_marker(<<x>>[i])
    BY <1>2, <1>3, <2>1 DEF is_collection_marker
  <2>2. CASE h.dots \in {"ForDirectPaths", "Always"} /\ \E i \in DOMAIN <<x>> : <<x>>[i] \in DotNames
    BY <1>2, <1>3, <1>5, <2>2
  <2>3. CASE h.links /\ \E n \in DOMAIN <<x>> : SubSeq(<<x>>, 1, n) \in Links
    BY <1>2, <1>3, <1>4, <2>3
  <2> QED BY <2>1, <2>2, <2>3 DEF HiddenPath
<1> QED BY <1>1, <1>6 DEF h

LEMMA ListingIsOrdered ==
    ASSUME AllFlow, get.pc = "index", get.req \in GetRequests, Listing(get, stream[Body]),
           stream[Body].sent \in Seq(Sendable)
    PROVE  IndexIsInOrder
<1> DEFINE entry(name) == CHOOSE e \in IndexEntries : e.name = name
           out == Out("row")
           rows == [i \in DOMAIN out |-> entry(out[i])]
           s == InRows(get.rows)
           c == Cardinality(get.rows)
           sent == stream[Body].sent
<1>1. stream[Body].got = sent
  BY StreamsAssumption DEF AllFlow, Flows
<1>2. out = Only(sent, "row")
  BY <1>1 DEF Out
<1>3. /\ get.rows \in SUBSET IndexEntries /\ get.rows \subseteq Shown(get.req.hide)
      /\ Len(out) = Told(Len(sent), c) /\ \A i \in 1..Len(out) : out[i] = s[i].name
  BY <1>2 DEF Listing, Shown
<1>4. /\ c \in Nat /\ s \in Seq(get.rows) /\ Len(s) = c
      /\ \A i, j \in 1..c : i < j => s[i] # s[j] /\ ~Before(s[j], s[i])
  BY <1>3, RowsInOrder
<1>5. DOMAIN out = 1..Len(out) /\ Len(out) \in Nat /\ Len(out) <= c
  <2>1. out \in Seq(Int)
    <3>0. LastPart \in Sendable
      BY DEF LastPart, Sendable
    <3>1. sent \in Seq(Sendable)
      OBVIOUS
    <3> QED BY <1>2, <3>0, <3>1, OnlyAppend
  <2>2. Len(out) \in Nat /\ DOMAIN out = 1..Len(out)
    <3> HIDE DEF out
    <3> QED BY <2>1
  <2>3. Len(sent) \in Nat
    OBVIOUS
  <2> HIDE DEF out, c, sent
  <2> QED BY <1>3, <1>4, <2>2, <2>3 DEF Told, min
<1> HIDE DEF out, s, c
<1>6. ASSUME NEW i \in DOMAIN out PROVE rows[i] = s[i] /\ s[i] \in get.rows /\ i \in 1..c
  <2>1. i \in 1..c /\ i \in 1..Len(out)
    BY <1>4, <1>5
  <2>2. s[i] \in get.rows /\ s[i] \in IndexEntries /\ out[i] = s[i].name
    BY <1>3, <1>4, <2>1
  <2>3. entry(out[i]) = s[i]
    BY <2>2, GetAssumption
  <2> QED BY <2>1, <2>2, <2>3
<1> HIDE DEF rows
<1>7. ASSUME NEW i \in DOMAIN out, NEW j \in DOMAIN out, i < j
      PROVE  /\ rows[i] # rows[j]
             /\ ~HiddenPath([get.req.hide EXCEPT !.dots =
                    IF HidesDots(get.req.hide, "autoindex") THEN "Always" ELSE "Never"], rows[i].path)
             /\ rows[j].dir => rows[i].dir
  <2>1. rows[i] = s[i] /\ rows[j] = s[j] /\ s[i] \in get.rows /\ s[j] \in get.rows
    BY <1>6, <1>7
  <2>2. s[i] # s[j] /\ ~Before(s[j], s[i])
    BY <1>4, <1>6, <1>7
  <2>3. s[i] \in Shown(get.req.hide) /\ get.req.hide \in HideOptions
    BY <1>3, <2>1, GetAssumption
  <2>4. ~HiddenPath([get.req.hide EXCEPT !.dots =
              IF HidesDots(get.req.hide, "autoindex") THEN "Always" ELSE "Never"], s[i].path)
    BY <2>3, ShownIsVisible
  <2>5. s[j].dir => s[i].dir
    <3>1. s[i].dir \in BOOLEAN /\ s[j].dir \in BOOLEAN
      BY <1>3, <2>1, GetAssumption
    <3> QED BY <2>2, <3>1 DEF Before
  <2> QED BY <2>1, <2>2, <2>4, <2>5
<1>8. DOMAIN rows = DOMAIN out
  BY DEF rows
<1> QED BY <1>7, <1>8 DEF IndexIsInOrder, rows, out

LEMMA FileIsTrue ==
    ASSUME AllFlow, Getting PROVE FileIsAsPromised
<1> DEFINE promised == FlattenSeq(Promised)
           sent == Out("data")
<1> SUFFICES ASSUME get.status \in {200, 206}, get.len # Unset
             PROVE  /\ get.announced # Unset => get.announced = Len(promised)
                    /\ get.status = 206 =>
                         \A spec \in ToSet(get.req.range) : Served(spec, get.len) => Wanted(spec, get.len) # {}
                    /\ Len(sent) <= Len(promised)
                    /\ get.announced # Unset => ~get.skipped
                    /\ stream[Body].answer = "none" /\ ~get.skipped => Len(sent) = Len(promised)
                    /\ ~file.regrown /\ ~get.skipped => \A i \in DOMAIN sent :
                           sent[i] = promised[i] \/ (sent[i] = Zero /\ promised[i] >= file.low)
  BY DEF FileIsAsPromised
<1>1. /\ stream[Body].got = stream[Body].sent
      /\ stream[Body].fut = "ok" <=> stream[Body].answer = "none"
  BY StreamsAssumption DEF AllFlow, Flows
<1>2. Holds(get, file, stream[Body]) /\ get.pc \notin {"look", "open", "index"}
  BY DEF Getting, Holds, Listing
<1>3. IsTrue(get) /\ Promised = PromiseOf(get)
  <2>1. Promised = PromiseOf(get)
    BY DEF Promised, PromiseOf, Slices, Whole
  <2> QED BY <1>2, <2>1 DEF Holds, Sending
<1>4. /\ Promised \in Seq(Seq(Int))
      /\ get.announced # Unset => get.announced = Len(promised)
      /\ get.status = 206 =>
             \A spec \in ToSet(get.req.range) : Served(spec, get.len) => Wanted(spec, get.len) # {}
  BY <1>3 DEF IsTrue
<1>5. promised \in Seq(Int)
  BY <1>4, FlattenIsSeq
<1>6. sent = Only(stream[Body].sent, "data")
  BY <1>1 DEF Out
<1>7. CASE get.pc = "done"
  <2>1. stream[Body].sent = <<>> /\ stream[Body].answer = "idle" /\ ~get.skipped
    BY <1>2, <1>7 DEF Holds, Untouched
  <2>2. sent = <<>>
    BY <1>6, <2>1, OnlyEmpty
  <2> HIDE DEF promised, sent
  <2>3. Len(sent) = 0 /\ DOMAIN sent = {} /\ Len(promised) \in Nat
    BY <1>5, <2>2
  <2> QED BY <1>4, <2>1, <2>3 DEF promised
<1>8. CASE get.pc = "body"
  <2>1. Sending(get, file, stream[Body])
    BY <1>2, <1>8 DEF Holds
  <2>2. /\ NoLonger(sent, Rest(get), promised)
        /\ get.skipped \/ Follows(sent, Rest(get), promised, file)
    BY <1>3, <1>6, <2>1 DEF Sending
  <2> HIDE DEF promised, sent
  <2>7. get.announced # Unset => ~get.skipped
    BY <2>1 DEF Sending, LengthKept
  <2>3. /\ sent \in Seq(Int) /\ Rest(get) \in Seq(Int) /\ Len(sent) + Len(Rest(get)) <= Len(promised)
        /\ ~get.skipped => Len(sent) + Len(Rest(get)) = Len(promised)
        /\ ~file.regrown /\ ~get.skipped => \A i \in 1..Len(sent) :
               sent[i] = promised[i] \/ (sent[i] = Zero /\ promised[i] >= file.low)
    BY <2>2 DEF Follows, NoLonger
  <2>4. Len(sent) \in Nat /\ Len(Rest(get)) \in Nat /\ DOMAIN sent = 1..Len(sent)
    BY <2>3
  <2>5. Len(sent) <= Len(promised)
    <3>1. promised \in Seq(Int)
      BY <1>5
    <3> QED BY <2>3, <2>4, <3>1
  <2>6. ASSUME stream[Body].answer = "none", ~get.skipped PROVE Len(sent) = Len(promised)
    <3>1. get.ranges = <<>> /\ get.left = Unset
      BY <1>1, <2>1, <2>6 DEF Sending
    <3>2. Bodies(<<>>) = <<>>
      BY DEF Bodies
    <3>3. Rest(get) = <<>>
      BY <3>1, <3>2, FlattenEmpty DEF Rest
    <3>4. Len(Rest(get)) = 0
      BY <3>3
    <3>5. Len(sent) + Len(Rest(get)) = Len(promised)
      BY <2>3, <2>6
    <3> QED BY <2>4, <3>4, <3>5
  <2> QED BY <1>4, <2>3, <2>4, <2>5, <2>6, <2>7 DEF promised
<1> QED BY <1>2, <1>7, <1>8 DEF Holds

LEMMA GettingIsTrue == AllFlow /\ Getting => BodyIsAsPromised
<1> SUFFICES ASSUME AllFlow, Getting PROVE BodyIsAsPromised
  OBVIOUS
<1>1. IndexIsInOrder
  <2>1. CASE get.pc = "index"
    <3>1. Holds(get, file, stream[Body])
      BY <2>1 DEF Getting
    <3>2. get.req \in GetRequests /\ Listing(get, stream[Body]) /\ stream[Body].sent \in Seq(Sendable)
      BY <2>1, <3>1 DEF Holds
    <3> QED BY <2>1, <3>2, ListingIsOrdered
  <2>2. CASE get.pc # "index"
    BY <2>2 DEF IndexIsInOrder
  <2> QED BY <2>1, <2>2
<1> QED BY <1>1, FileIsTrue DEF BodyIsAsPromised

LEMMA InitGets == Init => Getting
<1> SUFFICES ASSUME Init PROVE Getting
  OBVIOUS
<1>1. stream[Body] = Fresh
  BY StreamsAssumption DEF Init
<1>2. CASE IdleGet
  BY <1>2 DEF IdleGet, Getting
<1>3. CASE GetInit("look") /\ MultiInit("idle") /\ IdleFind
  <2>1. PICK req \in GetRequests, len \in Lengths :
          /\ get = [pc |-> "look", req |-> req, len |-> Unset, ranges |-> <<>>, status |-> 200,
                    announced |-> Unset, multi |-> FALSE, curpos |-> 0, pos |-> 0,
                    left |-> Unset, skipped |-> FALSE, seen |-> {}, rows |-> {}]
          /\ file = [len |-> len, low |-> len, regrown |-> FALSE, changes |-> 0]
    BY <1>3 DEF GetInit
  <2>2. len \in Nat /\ multi.pc = "idle" /\ find.pc = "idle"
    BY <1>3, GetAssumption DEF MultiInit, IdleFind
  <2>3. /\ DOMAIN get = GetFields /\ DOMAIN file = FileFields /\ get.req \in GetRequests
        /\ get.pc = "look" /\ get.len = Unset /\ get.left = Unset /\ get.skipped = FALSE
        /\ get.seen = {} /\ get.rows = {} /\ file.len = len /\ file.low = len /\ file.regrown = FALSE
    BY <2>1 DEF GetFields, FileFields
  <2>4. Untouched(stream[Body]) /\ stream[Body].sent \in Seq(Sendable)
    BY <1>1 DEF Untouched, Fresh
  <2>5. file.low \in Nat /\ file.low <= file.len /\ file.len \in Lengths /\ file.regrown \in BOOLEAN
    <3>1. len <= len
      BY <2>2
    <3>2. file.low \in Nat /\ file.low <= file.len
      BY <2>2, <2>3, <3>1, Zenon
    <3> QED BY <2>3, <3>2, Zenon
  <2>6. Holds(get, file, stream[Body])
    BY ONLY <2>3, <2>4, <2>5 DEF Holds
  <2> QED BY <2>2, <2>3, <2>6 DEF Getting
<1> QED BY <1>2, <1>3 DEF Init

\* The handler, until it has decided on an answer.
LEMMA OpeningHolds ==
    ASSUME AllFlow, get.pc \in {"look", "open"}, Holds(get, file, stream[Body]), GetNext
    PROVE  get'.pc # "idle" /\ Holds(get', file', stream'[Body])
<1>1. /\ DOMAIN get = GetFields /\ DOMAIN file = FileFields /\ get.req \in GetRequests
      /\ file.len \in Lengths /\ file.low \in Nat /\ file.low <= file.len /\ file.regrown \in BOOLEAN
      /\ stream[Body].sent \in Seq(Sendable) /\ Untouched(stream[Body])
      /\ get.len = Unset /\ get.left = Unset /\ ~get.skipped /\ get.seen = {} /\ get.rows = {}
  BY DEF Holds
<1>2. ~Runs(Body) /\ stream[Body].sent = <<>> /\ stream[Body].fut = "woken"
  BY <1>1 DEF Runs, Untouched
<1>3. Look \/ Open \/ OthersWrite
  BY <1>2 DEF GetNext, PollGet, StartRange, SkipRange, ReadChunk, EndRange, EndBody, InBody, InIndex, IndexEntry,
               IndexPage
<1>4. Only(<<>>, "data") = <<>> /\ Only(<<>>, "row") = <<>>
  BY OnlyEmpty
<1>5. ASSUME NEW status, NEW announced, Ends(status, announced)
      PROVE  get'.pc # "idle" /\ Holds(get', file', stream'[Body])
  <2>1. /\ DOMAIN get' = GetFields /\ get'.pc = "done" /\ get'.req = get.req /\ get'.len = Unset
        /\ ~get'.skipped /\ file' = file /\ stream' = stream
    BY <1>1, <1>5 DEF Ends, GetFields
  <2> QED BY <1>1, <2>1 DEF Holds
<1>6. CASE Look
  <2>1. \/ \E status, announced : Ends(status, announced)
        \/ /\ get' = [get EXCEPT !.pc = IF get.req.head THEN "done" ELSE "index"]
           /\ UNCHANGED <<stream, file>>
        \/ /\ get' = [get EXCEPT !.pc = "open"]
           /\ UNCHANGED <<stream, file>>
    BY <1>6 DEF Look
  <2>2. ASSUME NEW pc \in {"done", "index", "open"}, get' = [get EXCEPT !.pc = pc], stream' = stream, file' = file
        PROVE  get'.pc # "idle" /\ Holds(get', file', stream'[Body])
    <3>1. /\ DOMAIN get' = GetFields /\ get'.pc = pc /\ get'.req = get.req /\ get'.len = Unset
          /\ get'.left = Unset /\ ~get'.skipped /\ get'.seen = {} /\ get'.rows = {}
      BY <1>1, <2>2 DEF GetFields
    <3>2. CASE pc = "index"
      <4>1. {} \in SUBSET IndexEntries
        OBVIOUS
      <4>2. Len(Page({})) = Cardinality({}) + 2 /\ Cardinality({}) = 0
        BY <4>1, PageIs, FS_EmptySet
      <4>3. Len(<<>>) = 0 /\ 1..0 = {} /\ Told(0, Cardinality({})) = 0
        BY DEF Told
      <4>4. Listing(get', stream'[Body])
        <5> DEFINE body == stream'[Body]
        <5>1. body.sent = <<>> /\ Len(body.sent) = 0 /\ Only(body.sent, "row") = <<>> /\ Len(Only(body.sent, "row")) = 0
          BY <1>2, <1>4, <2>2, <4>3
        <5>2. 0 <= Len(Page({}))
          BY <4>2
        <5> HIDE DEF body
        <5>3. get'.rows \subseteq Shown(get'.req.hide) /\ get'.seen \subseteq IndexEntries
          BY <3>1
        <5>4. /\ \A j \in 1..Len(body.sent) : body.sent[j] = Page(get'.rows)[j]
              /\ \A i \in 1..Len(Only(body.sent, "row")) : Only(body.sent, "row")[i] = InRows(get'.rows)[i].name
          BY <4>3, <5>1
        <5>5. Len(body.sent) <= Len(Page(get'.rows)) /\ Len(Only(body.sent, "row")) = Told(Len(body.sent), Cardinality(get'.rows))
          BY <3>1, <4>3, <5>1, <5>2
        <5>6. Listing(get', body)
          BY ONLY <3>1, <5>1, <5>3, <5>4, <5>5 DEF Listing
        <5> QED BY <5>6 DEF body
      <4> QED BY <1>1, <2>2, <3>1, <3>2, <4>4 DEF Holds
    <3>3. CASE pc # "index"
      BY <1>1, <2>2, <3>1, <3>3 DEF Holds
    <3> QED BY <3>2, <3>3
  <2> QED BY <1>5, <2>1, <2>2
<1>7. CASE Open
  <2> DEFINE decided == Decided(get.req, file.len)
  <2>1. CASE \E status, announced : Ends(status, announced)
    BY <1>5, <2>1
  <2>2. CASE /\ get' = [get EXCEPT
                   !.pc = IF get.req.head \/ decided.bodiless THEN "done" ELSE "body",
                   !.len = file.len, !.ranges = decided.ranges, !.status = decided.status,
                   !.announced = decided.announced, !.multi = Len(decided.ranges) > 1,
                   !.curpos = decided.ranges[1].start, !.pos = decided.ranges[1].start]
             /\ file' = [file EXCEPT !.low = file.len]
             /\ UNCHANGED stream
    <3> DEFINE pc == IF get.req.head \/ decided.bodiless THEN "done" ELSE "body"
    <3> HIDE DEF decided, pc
    <3>1. /\ DOMAIN get' = GetFields /\ get'.pc = pc /\ get'.req = get.req /\ get'.len = file.len
          /\ get'.ranges = decided.ranges /\ get'.status = decided.status /\ get'.announced = decided.announced
          /\ get'.curpos = decided.ranges[1].start /\ get'.pos = decided.ranges[1].start /\ get'.left = Unset
          /\ ~get'.skipped
      BY <1>1, <2>2 DEF GetFields, pc
    <3>2. /\ DOMAIN file' = FileFields /\ file'.len = file.len /\ file'.low = file.len /\ file'.regrown \in BOOLEAN
          /\ stream' = stream
      BY <1>1, <2>2 DEF FileFields
    <3>3. AnswerIs(get', decided.ranges)
      BY <1>1, <3>1, DecidedIs DEF decided
    <3>4. pc \in {"done", "body"} /\ (pc = "body" => decided.status \in {200, 206})
      <4>1. decided.status \in {200, 206, 304, 412, 416}
            /\ (decided.bodiless <=> decided.status \in {416, 412, 304})
        <5> DEFINE req == get.req
                   len == file.len
                   wanted == IF req.ifrange /\ req.condition = 200 THEN SatisfiableRanges(req.range, len) ELSE <<>>
                   bad == \E i \in DOMAIN wanted : ~Valid(wanted[i], len)
                   status == CASE bad -> 416
                               [] wanted # <<>> /\ ~bad -> 206
                               [] OTHER -> req.condition
        <5>1. decided.status = status /\ decided.bodiless = (status \in {416, 412, 304})
          BY DEF decided, Decided
        <5>2. req.condition \in {200, 304, 412}
          BY <1>1, GetAssumption
        <5> HIDE DEF wanted, bad
        <5>3. status \in {200, 206, 304, 412, 416}
          BY <5>2
        <5> HIDE DEF status
        <5>4. decided.status \in {200, 206, 304, 412, 416}
          BY <5>1, <5>3
        <5>5. decided.bodiless = (decided.status \in {416, 412, 304})
          BY <5>1, Zenon
        <5> HIDE DEF decided
        <5>6. decided.bodiless <=> decided.status \in {416, 412, 304}
          BY <5>5
        <5> QED BY <5>4, <5>6
      <4> QED BY <4>1 DEF pc
    <3>5. file.len \in Nat /\ file'.low <= file'.len /\ file'.low \in Nat
      BY <1>1, <3>2, GetAssumption
    <3>6. CASE pc = "done"
      BY <1>1, <3>1, <3>2, <3>3, <3>5, <3>6 DEF Holds, AnswerIs
    <3>7. CASE pc = "body"
      <4>1. /\ get'.ranges \in Seq(Within(get'.len)) /\ get'.ranges # <<>> /\ IsTrue(get')
            /\ get'.status \in {200, 206}
            /\ FlattenSeq(Bodies(get'.ranges)) = FlattenSeq(PromiseOf(get'))
        BY <3>1, <3>3, <3>4, <3>7 DEF AnswerIs
      <4>2. get'.ranges[1].start \in Nat
        <5>1. get'.ranges[1] \in Within(get'.len)
          <6>1. Len(get'.ranges) \in Nat \ {0}
            BY <4>1, EmptySeq
          <6> QED BY <4>1, <6>1
        <5> QED BY <5>1 DEF Within
      <4>3. InPlace(get', file')
        BY <3>1, <4>1, <4>2 DEF InPlace
      <4>4. Rest(get') = FlattenSeq(PromiseOf(get')) /\ FlattenSeq(PromiseOf(get')) \in Seq(Int)
        <5>1. FlattenSeq(Bodies(get'.ranges)) \in Seq(Int)
          BY <3>1, <3>5, <4>1, BodiesAreSeq
        <5> QED BY <3>1, <4>1, <5>1 DEF Rest
      <4>5. Follows(<<>>, Rest(get'), FlattenSeq(PromiseOf(get')), file')
        <5> DEFINE q == FlattenSeq(PromiseOf(get'))
        <5> HIDE DEF q
        <5>1. q \in Seq(Int) /\ Rest(get') = q
          BY <4>4 DEF q
        <5>2. <<>> \in Seq(Int) /\ Len(<<>>) = 0 /\ 1..0 = {}
          OBVIOUS
        <5>3. Len(q) \in Nat /\ 0 + Len(q) = Len(q) /\ \A i \in 1..Len(q) : 0 + i = i
          BY <5>1
        <5>4. Follows(<<>>, q, q, file')
          BY ONLY <5>1, <5>2, <5>3 DEF Follows
        <5> QED BY <5>1, <5>4 DEF q
      <4>6. stream'[Body].sent = <<>> /\ stream'[Body].fut # "ok"
        BY <1>2, <3>2
      <4>8. LengthKept(get')
        <5>1. get'.announced # Unset => ~(Len(get'.ranges) > 1)
          BY <3>1 DEF decided, Decided
        <5>2. Len(get'.ranges) \in Nat /\ Head(get'.ranges) = get'.ranges[1]
          BY <4>1
        <5> QED BY <3>1, <5>1, <5>2 DEF LengthKept
      <4>9. NoLonger(<<>>, Rest(get'), FlattenSeq(PromiseOf(get')))
        BY <4>4, <4>5 DEF Follows, NoLonger
      <4>7. Sending(get', file', stream'[Body])
        BY <1>1, <1>4, <3>1, <4>1, <4>3, <4>5, <4>6, <4>8, <4>9 DEF Sending
      <4> QED BY <1>1, <3>1, <3>2, <3>5, <3>7, <4>7 DEF Holds
    <3> QED BY <3>1, <3>4, <3>6, <3>7
  <2> QED BY <1>7, <2>1, <2>2 DEF Open
<1>8. CASE OthersWrite
  <2>1. PICK n \in Lengths :
          file' = [len |-> n, low |-> min(n, file.low), changes |-> file.changes + 1,
                   regrown |-> file.regrown \/ (n > file.len /\ file.low < get.len)]
    BY <1>8 DEF OthersWrite
  <2>2. /\ DOMAIN file' = FileFields /\ file'.len = n /\ file'.low = min(n, file.low) /\ file'.regrown \in BOOLEAN
    BY <2>1 DEF FileFields
  <2>3. n \in Nat /\ file'.low \in Nat /\ file'.low <= file'.len
    BY <1>1, <2>2, GetAssumption DEF min
  <2>4. get' = get /\ stream' = stream
    BY <1>8 DEF OthersWrite
  <2> QED BY <1>1, <2>2, <2>3, <2>4 DEF Holds
<1> QED BY <1>3, <1>6, <1>7, <1>8

\* What a send or another step of the body's stream leaves.
LEMMA SentData ==
    ASSUME AllFlow, stream[Body].sent \in Seq(Sendable), NEW item \in Sendable, Send(Body, item)
    PROVE  /\ AllFlow' /\ stream'[Body].fut # "ok" /\ stream'[Body].sent \in Seq(Sendable)
           /\ \A kind : Only(stream'[Body].sent, kind) =
                  IF item.kind = kind THEN Only(stream[Body].sent, kind) \o item.bytes ELSE Only(stream[Body].sent, kind)
<1>1. /\ AllFlow' /\ stream'[Body].sent = Append(stream[Body].sent, item) /\ stream'[Body].answer = "item"
  BY SendStep, StreamsAssumption
<1>2. stream'[Body].fut # "ok"
  BY <1>1, StreamsAssumption DEF AllFlow, Flows
<1> DEFINE sent == stream[Body].sent
<1> HIDE DEF sent
<1>3. sent \in Seq(Sendable)
  BY DEF sent
<1>4. Append(sent, item) \in Seq(Sendable)
  BY <1>3
<1>5. \A kind : Only(Append(sent, item), kind) = IF item.kind = kind THEN Only(sent, kind) \o item.bytes ELSE Only(sent, kind)
  BY <1>3, OnlyAppend
<1> QED BY <1>1, <1>2, <1>4, <1>5 DEF sent

\* The body of a file.
LEMMA BodyHolds ==
    ASSUME AllFlow, get.pc = "body", Holds(get, file, stream[Body]), GetNext
    PROVE  get'.pc # "idle" /\ Holds(get', file', stream'[Body])
<1>1. /\ DOMAIN get = GetFields /\ DOMAIN file = FileFields /\ get.req \in GetRequests
      /\ file.len \in Lengths /\ file.low \in Nat /\ file.low <= file.len /\ file.regrown \in BOOLEAN
      /\ stream[Body].sent \in Seq(Sendable) /\ Sending(get, file, stream[Body])
  BY DEF Holds
<1>2. ASSUME Sending(get', file, stream'[Body]), Continues(get, get'), file' = file, stream'[Body].sent \in Seq(Sendable)
      PROVE  get'.pc # "idle" /\ Holds(get', file', stream'[Body])
  BY <1>1, <1>2 DEF Holds, Continues
<1>3. ASSUME get' = get, file' = file, stream'[Body].sent = stream[Body].sent, stream'[Body].fut # "ok"
      PROVE  get'.pc # "idle" /\ Holds(get', file', stream'[Body])
  <2>1. Sending(get', file, stream'[Body])
    BY <1>1, <1>3 DEF Sending
  <2> QED BY <1>1, <1>2, <1>3, <2>1 DEF Continues
<1>4. CASE PollGet
  BY <1>3, <1>4, PollStep, StreamsAssumption DEF PollGet
<1>5. CASE StartRange
  <2>1. get.left = Unset /\ get.ranges # <<>> /\ get' = Started(get) /\ file' = file /\ stream[Body].fut = "runs"
    BY <1>5 DEF StartRange, Part, InBody, Runs, Started
  <2>2. /\ stream'[Body].fut # "ok" /\ stream'[Body].sent \in Seq(Sendable)
        /\ Only(stream'[Body].sent, "data") = Only(stream[Body].sent, "data")
    <3>1. CASE get.multi
      <4> DEFINE item == [kind |-> "part", bytes |-> <<Part.start, Part.count>>]
      <4>1. Part.start \in Int /\ Part.count \in Int
        <5>1. get.ranges \in Seq(Within(get.len)) /\ get.len \in Nat
          BY <1>1, GetAssumption DEF Sending, InPlace
        <5>2. Head(get.ranges) \in Within(get.len)
          BY <2>1, <5>1, BodiesHead
        <5> QED BY <5>2 DEF Part, Within
      <4>2. item \in Sendable /\ item.kind # "data"
        <5>1. <<Part.start, Part.count>> \in Seq(Int)
          BY <4>1
        <5> QED BY <5>1 DEF Sendable
      <4>3. Send(Body, item)
        BY <1>5, <3>1 DEF StartRange, PartHeader
      <4> HIDE DEF item
      <4> QED BY <1>1, <4>2, <4>3, SentData
    <3>2. CASE ~get.multi
      BY <1>1, <1>5, <2>1, <3>2 DEF StartRange, PartHeader
    <3> QED BY <3>1, <3>2
  <2>3. Sending(Started(get), file, stream'[Body]) /\ Continues(get, Started(get))
    BY <1>1, <2>1, <2>2, StartHolds
  <2> QED BY <1>2, <2>1, <2>2, <2>3
<1>11. CASE SkipRange
  <2>1. /\ get.left = Unset /\ get.ranges # <<>> /\ get.curpos # Head(get.ranges).start
        /\ get' = RangeSkipped(get) /\ stream' = stream /\ file' = file /\ stream[Body].fut = "runs"
    BY <1>11 DEF SkipRange, Skipped, Part, InBody, Runs, RangeSkipped
  <2>2. Sending(get', file, stream[Body]) /\ Continues(get, get')
    BY <1>1, <2>1, SkipHolds
  <2> QED BY <1>1, <1>2, <2>1, <2>2
<1>6. CASE ReadChunk
  <2>1. file' = file /\ get.left > 0
    BY <1>6 DEF ReadChunk
  <2>2. CASE get' = get /\ Await(Body)
    BY <1>3, <2>1, <2>2, AwaitStep, StreamsAssumption
  <2>3. CASE get' = get /\ Return(Body, "failed")
    BY <1>3, <2>1, <2>3, ReturnStep, StreamsAssumption
  <2>4. CASE /\ get' = [get EXCEPT !.left = @ - min(@, Len(Chunk)), !.curpos = @ + Len(Chunk),
                                   !.pos = IF @ < file.len THEN @ + Len(Chunk) ELSE @]
             /\ Send(Body, [kind |-> "data", bytes |-> Chunk])
    <3> DEFINE item == [kind |-> "data", bytes |-> Chunk]
    <3>1. item \in Sendable /\ item.kind = "data" /\ item.bytes = Chunk
      <4>1. get.left \in Nat \ {0} /\ get.pos \in Nat /\ file.len \in Nat
        BY <1>1, <2>1, GetAssumption DEF Sending, InPlace, Unset
      <4>2. Chunk \in Seq(Int)
        BY <4>1, ChunkIs
      <4> QED BY <4>2 DEF Sendable
    <3>2. Send(Body, item)
      BY <2>4
    <3> HIDE DEF item
    <3>3. /\ stream'[Body].fut # "ok" /\ stream'[Body].sent \in Seq(Sendable)
          /\ Only(stream'[Body].sent, "data") = Only(stream[Body].sent, "data") \o Chunk
      BY <1>1, <3>1, <3>2, SentData
    <3>4. Sending(get', file, stream'[Body]) /\ Continues(get, get')
      <4>1. get' = ChunkRead(get, file, Len(Chunk))
        BY <2>4 DEF ChunkRead
      <4>2. LET g1 == ChunkRead(get, file, Len(Chunk)) IN Sending(g1, file, stream'[Body]) /\ Continues(get, g1)
        BY <1>1, <2>1, <3>3, ReadHolds
      <4> QED BY <4>1, <4>2
    <3> QED BY <1>2, <2>1, <3>3, <3>4
  <2> QED BY <1>6, <2>2, <2>3, <2>4 DEF ReadChunk
<1>7. CASE EndRange
  <2>1. /\ get.left = 0 /\ get' = [get EXCEPT !.left = Unset, !.ranges = Tail(@)] /\ stream' = stream /\ file' = file
        /\ stream[Body].fut = "runs"
    BY <1>7 DEF EndRange, InBody, Runs
  <2>3. get' = RangeEnded(get)
    BY <2>1 DEF RangeEnded
  <2>2. Sending(get', file, stream[Body]) /\ Continues(get, get')
    BY <1>1, <2>1, <2>3, EndRangeHolds
  <2> QED BY <1>1, <1>2, <2>1, <2>2
<1>8. CASE EndBody
  <2>1. get.left = Unset /\ get.ranges = <<>> /\ get' = get /\ file' = file
    BY <1>8 DEF EndBody
  <2>2. CASE Send(Body, LastPart)
    <3>1. LastPart \in Sendable /\ LastPart.kind # "data"
      BY DEF LastPart, Sendable
    <3>2. /\ stream'[Body].fut # "ok" /\ stream'[Body].sent \in Seq(Sendable)
          /\ Only(stream'[Body].sent, "data") = Only(stream[Body].sent, "data")
      BY <1>1, <2>2, <3>1, SentData
    <3>3. Sending(get', file, stream'[Body])
      BY <1>1, <2>1, <3>2 DEF Sending
    <3> QED BY <1>1, <1>2, <2>1, <3>2, <3>3 DEF Continues
  <2>3. CASE Return(Body, "ok")
    <3>1. stream'[Body].sent = stream[Body].sent
      BY <2>3, ReturnStep, StreamsAssumption
    <3>2. Sending(get', file, stream'[Body])
      BY <1>1, <2>1, <3>1 DEF Sending
    <3> QED BY <1>1, <1>2, <2>1, <3>1, <3>2 DEF Continues
  <2> QED BY <1>8, <2>2, <2>3 DEF EndBody
<1>9. CASE OthersWrite
  <2>1. PICK n \in Lengths :
          file' = [len |-> n, low |-> min(n, file.low), changes |-> file.changes + 1,
                   regrown |-> file.regrown \/ (n > file.len /\ file.low < get.len)]
    BY <1>9 DEF OthersWrite
  <2>2. /\ DOMAIN file' = FileFields /\ file'.len = n /\ file'.low = min(n, file.low) /\ file'.regrown \in BOOLEAN
    BY <2>1 DEF FileFields
  <2>3. n \in Nat /\ file'.low \in Nat /\ file'.low <= file'.len
    BY <1>1, <2>2, GetAssumption DEF min
  <2>4. get' = get /\ stream' = stream
    BY <1>9 DEF OthersWrite
  <2>5. Sending(get, file', stream[Body])
    BY <1>1, <2>1, CutHolds
  <2> QED BY <1>1, <2>2, <2>3, <2>4, <2>5 DEF Holds
<1>10. ~Look /\ ~Open /\ ~IndexEntry /\ ~IndexPage
  BY DEF Look, Open, IndexEntry, IndexPage, InIndex
<1> QED BY <1>4, <1>5, <1>6, <1>7, <1>8, <1>9, <1>10, <1>11 DEF GetNext

\* The body of a directory.
LEMMA IndexHolds ==
    ASSUME AllFlow, get.pc = "index", Holds(get, file, stream[Body]), GetNext
    PROVE  get'.pc # "idle" /\ Holds(get', file', stream'[Body])
<1>1. /\ DOMAIN get = GetFields /\ DOMAIN file = FileFields /\ get.req \in GetRequests
      /\ file.len \in Lengths /\ file.low \in Nat /\ file.low <= file.len /\ file.regrown \in BOOLEAN
      /\ stream[Body].sent \in Seq(Sendable) /\ Listing(get, stream[Body])
  BY DEF Holds
<1>2. ASSUME get' = get, file' = file, stream'[Body].sent = stream[Body].sent
      PROVE  get'.pc # "idle" /\ Holds(get', file', stream'[Body])
  <2>1. Listing(get, stream'[Body])
    BY <1>1, <1>2 DEF Listing
  <2> QED BY <1>1, <1>2, <2>1 DEF Holds
<1>3. CASE PollGet
  BY <1>2, <1>3, PollStep, StreamsAssumption DEF PollGet
<1>4. CASE IndexEntry
  <2>1. PICK e \in IndexEntries \ get.seen :
           \/ get' = [get EXCEPT !.seen = @ \cup {e},
                                 !.rows = IF HiddenEntry(get.req.hide, "autoindex", e.path) THEN @ ELSE @ \cup {e}]
           \/ get' = [get EXCEPT !.seen = @ \cup {e}]
    BY <1>4 DEF IndexEntry
  <2>2. file' = file /\ stream' = stream
    BY <1>4 DEF IndexEntry
  <2>3. /\ DOMAIN get' = GetFields /\ get'.pc = get.pc /\ get'.req = get.req /\ get'.len = get.len
        /\ get'.seen = get.seen \cup {e}
        /\ get'.rows = get.rows \/ (e \in Shown(get.req.hide) /\ get'.rows = get.rows \cup {e})
    BY <1>1, <2>1 DEF GetFields, Shown
  <2>4. stream[Body].sent = <<>>
    BY <1>1, <2>1 DEF Listing
  <2>5. get'.rows \subseteq Shown(get'.req.hide) /\ get'.seen \subseteq IndexEntries
    BY <1>1, <2>1, <2>3 DEF Listing
  <2>6. get'.rows \in SUBSET IndexEntries
    BY <2>5 DEF Shown
  <2>7. Cardinality(get'.rows) \in Nat /\ Len(Page(get'.rows)) = Cardinality(get'.rows) + 2
    BY <2>6, PageIs, RowsInOrder
  <2>8. Listing(get', stream[Body])
    <3> DEFINE body == stream[Body]
    <3>1. /\ body.sent = <<>> /\ Len(body.sent) = 0
          /\ Only(body.sent, "row") = <<>> /\ Len(Only(body.sent, "row")) = 0
      BY <2>4, OnlyEmpty
    <3>2. 0 <= Len(Page(get'.rows)) /\ 1..0 = {} /\ Told(0, Cardinality(get'.rows)) = 0
      BY <2>7 DEF Told
    <3>3. get'.len = Unset
      BY <1>1, <2>3 DEF Listing
    <3> HIDE DEF body
    <3>4. Listing(get', body)
      BY ONLY <2>5, <3>1, <3>2, <3>3 DEF Listing
    <3> QED BY <3>4 DEF body
  <2> QED BY <1>1, <2>2, <2>3, <2>8 DEF Holds
<1>5. CASE IndexPage
  <2>1. get' = get /\ file' = file /\ get.seen = IndexEntries
    BY <1>5 DEF IndexPage
  <2>2. CASE HasLastPart
    <3>1. Return(Body, "ok")
      BY <1>5, <2>2 DEF IndexPage
    <3> QED BY <1>2, <2>1, <3>1, ReturnStep, StreamsAssumption
  <2>3. CASE ~HasLastPart
    <3>1. stream'[Body].sent = Append(stream[Body].sent, Page(get.rows)[Len(stream[Body].sent) + 1])
      BY <1>5, <2>3, SendStep, StreamsAssumption DEF IndexPage
    <3>2. ~\E i \in DOMAIN stream[Body].sent : stream[Body].sent[i].kind = "end"
      BY <2>3 DEF HasLastPart
    <3>3. Listing(get, stream'[Body]) /\ stream'[Body].sent \in Seq(Sendable)
      BY <1>1, <2>1, <3>1, <3>2, PageHolds
    <3> QED BY <1>1, <2>1, <3>3 DEF Holds
  <2> QED BY <2>2, <2>3
<1>6. ~Look /\ ~Open /\ ~StartRange /\ ~SkipRange /\ ~ReadChunk /\ ~EndRange /\ ~EndBody /\ ~OthersWrite
  BY DEF Look, Open, StartRange, SkipRange, ReadChunk, EndRange, EndBody, InBody, OthersWrite
<1> QED BY <1>3, <1>4, <1>5, <1>6 DEF GetNext

LEMMA NextGets == AllFlow /\ Getting /\ [Next]_vars => Getting'
<1> SUFFICES ASSUME AllFlow, Getting, [Next]_vars PROVE Getting'
  OBVIOUS
<1>1. Body \in Streams
  BY StreamsAssumption
<1>2. CASE get.pc = "idle"
  <2>1. get' = get
    BY <1>2 DEF Next, Steps, Others, vars, getVars, Gets, Take
  <2> QED BY <1>2, <2>1 DEF Getting
<1>3. CASE get.pc # "idle"
  <2>1. multi.pc = "idle" /\ find.pc = "idle" /\ Holds(get, file, stream[Body])
    BY <1>3 DEF Getting
  <2>2. /\ multi' = multi /\ find' = find
        /\ GetNext \/ (get' = get /\ file' = file /\ (Wake \/ TakeChunk \/ UNCHANGED stream))
    BY <2>1 DEF Next, Steps, Others, vars, getVars, findVars, Reporting, Finds, Take, GetNext
  <2>3. ASSUME get'.pc # "idle" /\ Holds(get', file', stream'[Body]) PROVE Getting'
    BY <2>1, <2>2, <2>3 DEF Getting
  <2>4. CASE GetNext
    <3>1. get.pc \in {"look", "open", "body", "index", "done"}
      BY <2>1 DEF Holds
    <3>2. get.pc # "done"
      BY <2>4 DEF GetNext, Look, Open, PollGet, StartRange, SkipRange, ReadChunk, EndRange, EndBody, InBody, IndexEntry,
                  IndexPage, InIndex, OthersWrite
    <3> QED BY <2>1, <2>3, <2>4, <3>1, <3>2, OpeningHolds, BodyHolds, IndexHolds
  <2>5. ASSUME get' = get, file' = file, stream'[Body].sent = stream[Body].sent,
               stream'[Body].fut = stream[Body].fut \/ (stream[Body].fut = "awaits" /\ stream'[Body].fut = "woken"),
               stream'[Body].answer = stream[Body].answer \/ stream[Body].answer = "item"
        PROVE  Getting'
    <3>1. Untouched(stream[Body]) => Untouched(stream'[Body])
      BY <2>5 DEF Untouched
    <3>2. Sending(get, file, stream[Body]) => Sending(get, file, stream'[Body])
      BY <2>5 DEF Sending
    <3>3. Listing(get, stream[Body]) => Listing(get, stream'[Body])
      BY <2>5 DEF Listing
    <3>4. Holds(get', file', stream'[Body])
      BY <2>1, <2>5, <3>1, <3>2, <3>3 DEF Holds
    <3> QED BY <1>3, <2>3, <2>5, <3>4
  <2>6. CASE get' = get /\ file' = file /\ Wake
    BY <1>1, <2>5, <2>6, WakeStep
  <2>7. CASE get' = get /\ file' = file /\ TakeChunk
    BY <1>1, <2>5, <2>7, TakeStep DEF TakeChunk
  <2>8. CASE get' = get /\ file' = file /\ UNCHANGED stream
    BY <2>5, <2>8
  <2> QED BY <2>2, <2>4, <2>6, <2>7, <2>8
<1> QED BY <1>2, <1>3

\* The body of a GET (handle_gethead.rs) is what its headers promise, for any
\* file, any ranges and buffers of any size, while others cut the file and let
\* it grow: the length announced is the length of the ranges asked for, no more
\* is ever sent and all of it when the body ends, each byte from its own offset
\* or zero where the file was cut; and an index shows each entry once,
\* directories first, and none that is hidden.
THEOREM BodiesAreTrue == Spec => []BodyIsAsPromised
<1>1. Init => AllFlow /\ Getting
  BY InitFlows, InitGets
<1>2. AllFlow /\ Getting /\ [Next]_vars => AllFlow' /\ Getting'
  BY NextFlows, NextGets
<1> QED BY <1>1, <1>2, GettingIsTrue, PTL DEF Spec
=============================================================================
