-------------------------------- MODULE MCPut --------------------------------
(* Put with two clients: one that sends everything, and one that sends the  *)
(* requests that get in its way.  1 is a byte of a valid object, 2 is not.  *)
EXTENDS Put

CONSTANTS c1, c2

MCValid == {<<1>>, <<1, 1>>}
MCStored == {<<2>>, <<1, 1>>}

Plain == [kind |-> "none", b |-> 0, e |-> 0]
Upload(frames) ==
    [update |-> Plain, content |-> Plain, count |-> NoCount, frames |-> frames,
     broken |-> FALSE, fresh |-> FALSE, existing |-> FALSE]

One == Upload(<<<<1>>>>)
Two == Upload(<<<<1>>, <<1>>>>)
Bad == Upload(<<<<2>>>>)
Break(req) == [req EXCEPT !.broken = TRUE]
Count(req, n) == [req EXCEPT !.count = n]
Update(req, kind, b, e) == [req EXCEPT !.update = [kind |-> kind, b |-> b, e |-> e]]
Range(req, b, e) == [req EXCEPT !.content = [kind |-> "bytes", b |-> b, e |-> e]]

\* Bodies that are right, invalid, too long, too short, or break off.
Whole == {One, Count(One, 2), Count(Two, 1), Bad, Upload(<<<<1, 1>>, <<1>>>>), Break(Two),
          [One EXCEPT !.fresh = TRUE], [One EXCEPT !.existing = TRUE],
          [One EXCEPT !.content.kind = "star"]}

\* Ranges at the start, in the middle, at the end and past it, one that is
\* empty, ones without bytes and one that ends beyond what can be addressed.
Parts ==
    {Update(Count(One, 1), "fromTo", b, b) : b \in 0..2}
    \cup {Update(Count(One, 2), "fromTo", 1, 1), Update(Count(One, 1), "fromTo", 1, 0),
          Update(Count(Two, 2), "from", 0, 0), Update(Count(Two, 2), "from", 2, 0)}
    \cup {Update(Count(req, 1), "last", b, 0) : req \in {One, Bad}, b \in 0..2}
    \cup {Update(req, "append", 0, 0) :
             req \in {One, Count(One, 1), Count(One, 2), Count(Two, 1), Break(Count(Two, 2))}}
    \cup {Update(Count(Upload(<<>>), 0), "from", b, 0) : b \in {0, 2}}
    \cup {Range(One, b, e) : b \in 0..1, e \in 0..1}
    \cup {Range(Two, 0, 1), Range(Bad, 0, 0), Range(Count(One, 1), 0, 1),
          Range(Update(Count(One, 1), "append", 0, 0), 0, 0)}

Small == {One, Update(Count(One, 1), "append", 0, 0)}

MCWorkload == [c \in {c1, c2} |-> IF c = c1 THEN Whole \cup Parts ELSE Small]
=============================================================================
