----------------------------- MODULE MultiError ------------------------------
(* multierror.rs: the statuses a DELETE, COPY or MOVE reports as it works  *)
(* become one plain response, or a multistatus body that is written while  *)
(* the work goes on. The handler's stream of statuses is polled first by   *)
(* multi_error() itself and then by the body, which is a stream too.       *)
EXTENDS AsyncStream

CONSTANTS
    ReqPath, Paths,     \* the request's path, and those statuses are about
    Statuses,           \* the status codes reported
    MaxStatuses         \* bound: statuses of one request

VARIABLE multi          \* multi_error(): [pc, items, response]

Reports == "reports"    \* the stream of the handler

Undecided == "undecided"
Multistatus == "207"

\* The status of a multistatus is not the status of a member of it.
ASSUME MultiAssumption ==
    Reports \in Streams /\ Statuses \cap {Undecided, Multistatus, "error", "trailer"} = {}

MultiInit(pc) == multi = [pc |-> pc, items |-> <<>>, response |-> Undecided]

-----------------------------------------------------------------------------
(* The handler: it reports statuses and waits for its file system.         *)

\* MultiError::add_status().
AddStatus ==
    \E p \in Paths, status \in Statuses :
        /\ Len(stream[Reports].sent) < MaxStatuses
        /\ Send(Reports, [path |-> p, status |-> status])
        /\ UNCHANGED multi

HandlerAwaits == Await(Reports) /\ UNCHANGED multi

HandlerEnds == \E result \in {"ok", "failed"} : Return(Reports, result) /\ UNCHANGED multi

-----------------------------------------------------------------------------
(* multi_error() until it has a response.                                  *)

Responds(response) == multi' = [multi EXCEPT !.pc = "done", !.response = response]

PollReports ==
    /\ multi.pc \in {"first", "second"} \/ (multi.pc = "body" /\ Runs(Body) /\ multi.items = <<>>)
    /\ Poll(Reports)
    /\ UNCHANGED multi

Fails ==
    /\ multi.pc \in {"first", "second"}
    /\ \/ Has(Reports, "error")
       \/ multi.pc = "first" /\ Has(Reports, "none")        \* ChanError
    /\ Responds("error")
    /\ UNCHANGED stream

FirstStatus ==
    /\ multi.pc = "first"
    /\ Has(Reports, "item")
    /\ multi' = [multi EXCEPT !.items = <<Item(Reports)>>,
                              !.pc = IF Item(Reports).path = ReqPath THEN "second" ELSE "body"]
    /\ stream' = Taken(Reports)

\* The status for the request's path is the only one.
OnlyStatus ==
    /\ multi.pc = "second"
    /\ Has(Reports, "none")
    /\ Responds(multi.items[1].status)
    /\ UNCHANGED stream

\* A plausible mistake: the first item is forgotten.
SecondStatusAlone ==
    /\ multi.pc = "second"
    /\ Has(Reports, "item")
    /\ multi' = [multi EXCEPT !.items = <<Item(Reports)>>, !.pc = "body"]
    /\ stream' = Taken(Reports)

SecondStatus ==
    /\ multi.pc = "second"
    /\ Has(Reports, "item")
    /\ multi' = [multi EXCEPT !.items = Append(@, Item(Reports)), !.pc = "body"]
    /\ stream' = Taken(Reports)

-----------------------------------------------------------------------------
(* The body, polled by the connection.                                     *)

PollBody ==
    /\ multi.pc = "body"
    /\ Poll(Body)
    /\ multi' = [multi EXCEPT !.response = Multistatus]

Start == [path |-> "header", status |-> "header"]
Finish == [path |-> "trailer", status |-> "trailer"]
Response(item) == [item EXCEPT !.status = IF @ = "204" THEN "200" ELSE @]

WriteHeader ==
    /\ multi.pc = "body"
    /\ stream[Body].sent = <<>>
    /\ Send(Body, Start)
    /\ UNCHANGED multi

HasHeader == multi.pc = "body" /\ stream[Body].sent # <<>>

\* stream::iter(items).chain(status_stream)
WriteItem ==
    /\ HasHeader
    /\ multi.items # <<>>
    /\ Send(Body, Response(Head(multi.items)))
    /\ multi' = [multi EXCEPT !.items = Tail(@)]

WriteNext ==
    /\ HasHeader /\ multi.items = <<>>
    /\ Runs(Body) /\ Has(Reports, "item")
    /\ stream' = [stream EXCEPT ![Body] = Answered(SendItem(@, Response(Item(Reports)))),
                                ![Reports].answer = "idle"]
    /\ UNCHANGED multi

BodyAwaits ==
    /\ multi.items = <<>>
    /\ Has(Reports, "pending") /\ stream[Reports].fut # "woken"
    /\ Await(Body)
    /\ UNCHANGED multi

\* A plausible mistake: an error is skipped.
BodySkipsError ==
    /\ HasHeader /\ multi.items = <<>>
    /\ Runs(Body) /\ Has(Reports, "error")
    /\ stream' = Taken(Reports)
    /\ UNCHANGED multi

\* `let (path, status) = res?`
BodyFails ==
    /\ HasHeader /\ multi.items = <<>>
    /\ Has(Reports, "error")
    /\ Return(Body, "failed")
    /\ UNCHANGED multi

BodyEnds ==
    /\ HasHeader /\ multi.items = <<>>
    /\ Has(Reports, "none")
    /\ \/ Last(stream[Body].sent) # Finish /\ Send(Body, Finish)
       \/ Last(stream[Body].sent) = Finish /\ Return(Body, "ok")
    /\ UNCHANGED multi

MultiNext ==
    \/ AddStatus \/ HandlerAwaits \/ HandlerEnds
    \/ PollReports \/ Fails \/ FirstStatus \/ OnlyStatus \/ SecondStatus
    \/ PollBody \/ WriteHeader \/ WriteItem \/ WriteNext
    \/ BodyAwaits \/ BodyFails \/ BodyEnds

-----------------------------------------------------------------------------

\* A response without a body means that the handler reported one status, for
\* the request's path, and then ended well. A body that ends well has every
\* status the handler reported, in order, and the handler ended well; one that
\* breaks off has the statuses up to the handler's failure.
TellsWhatHappened ==
    LET reports == stream[Reports]
        body == stream[Body]
        told == <<Start>> \o [i \in DOMAIN reports.sent |-> Response(reports.sent[i])]
    IN  multi.pc # "idle" =>
        /\ multi.response \in Statuses =>
            /\ Len(reports.sent) = 1 /\ reports.sent[1].path = ReqPath
            /\ reports.sent[1].status = multi.response
            /\ reports.fut = "ok"
        /\ body.answer = "none" => reports.fut = "ok" /\ body.got = Append(told, Finish)
        /\ body.answer = "error" => reports.fut = "failed" /\ body.got = told
        /\ multi.response = "error" =>
            reports.fut = "failed" \/ (reports.fut = "ok" /\ reports.sent = <<>>)
=============================================================================
