------------------------------- MODULE Headers -------------------------------
(* davheaders.rs: is the URL of a Destination on the server the request    *)
(* was sent to? A host is a name and its spelling; a URL is [scheme, host, *)
(* spelling, port], a Host header [host, spelling, port]; None is left out. *)
EXTENDS Naturals

CONSTANT None

DefaultPort(scheme) == CASE scheme = "http" -> 80 [] scheme = "https" -> 443 [] OTHER -> None

\* A plausible mistake: a port that is left out is no port.
effective_portGiven(scheme, port) == port

effective_port(scheme, port) == IF port # None THEN port ELSE DefaultPort(scheme)

\* Names are compared without their spelling; a port nobody can tell matches any.
same_server(scheme, host, port, url) ==
    LET mine == effective_port(scheme, port)
        theirs == effective_port(url.scheme, url.port)
    IN  /\ host = url.host
        /\ scheme # None => scheme = url.scheme
        /\ mine = None \/ theirs = None \/ mine = theirs

\* request_is_same_server(): the request's own URL, or else its Host header.
request_is_same_server(request, url) ==
    IF request.uri.host # None THEN same_server(request.uri.scheme, request.uri.host, request.uri.port, url)
    ELSE IF request.hosthdr # None THEN same_server(None, request.hosthdr.host, request.hosthdr.port, url)
    ELSE same_server(None, None, None, url)

\* Destination::is_same_server(); a destination is a path, or has a URL as well.
is_same_server(request, destination) == destination = None \/ request_is_same_server(request, destination)

-----------------------------------------------------------------------------

\* The ways to write a server: the port may be left out when it is the default.
Ports(server) == {server.port} \cup (IF server.port = DefaultPort(server.scheme) THEN {None} ELSE {})
Urls(server) == {[scheme |-> server.scheme, host |-> server.host, port |-> p] : p \in Ports(server)}
NoUri == [scheme |-> None, host |-> None, port |-> None]
Requests(server) ==
    {[uri |-> u, hosthdr |-> None] : u \in Urls(server)}
    \cup {[uri |-> NoUri, hosthdr |-> [host |-> server.host, port |-> p]] : p \in Ports(server)}

\* A COPY or MOVE within the server is accepted however the server is written,
\* and one to another server is refused: to another host always, to another
\* port or scheme when the request says its own. A request that says nothing
\* of its server reaches no other by a URL.
DestinationLaw(mine, theirs) ==
    /\ \A request \in Requests(mine), url \in Urls(theirs) :
          /\ mine = theirs => is_same_server(request, url)
          /\ mine.host # theirs.host => ~is_same_server(request, url)
          /\ mine.port # theirs.port /\ (request.uri.host # None \/ request.hosthdr.port # None) =>
                ~is_same_server(request, url)
          /\ mine.scheme # theirs.scheme /\ request.uri.host # None => ~is_same_server(request, url)
    /\ \A url \in Urls(theirs) : ~is_same_server([uri |-> NoUri, hosthdr |-> None], url)
    /\ \A request \in Requests(mine) : is_same_server(request, None)
=============================================================================
