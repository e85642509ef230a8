------------------------------ MODULE MCAnswers ------------------------------
(* The requests of Answers, the entries of its directory and its tree.     *)
EXTENDS Answers

Show == [dots |-> "Never", links |-> FALSE]
Plain == [kind |-> "file", head |-> FALSE, autoindex |-> FALSE, range |-> <<>>, ifrange |-> TRUE,
          condition |-> 200, hide |-> Show]
Span(first, last) == [first |-> first, last |-> last]
Spans == {Span(0, 2), Span(1, 1), Span(3, Unset), Span(Unset, 2), Span(0, MaxU64), Span(2, 1), Span(4, 9),
          Span(Unset, 9), Span(Unset, 0), Span(Unset, Unset)}
RangeLists == {<<a>> : a \in Spans}
    \cup {<<a, b>> : a \in {Span(0, 1), Span(2, 3), Span(Unset, 2)}, b \in {Span(2, 3), Span(0, 0), Span(5, Unset)}}
MCGetRequests ==
    {Plain} \cup {[Plain EXCEPT !.range = r] : r \in RangeLists}
    \cup {[Plain EXCEPT !.range = <<Span(1, 2)>>, !.condition = c, !.ifrange = i, !.head = h] :
            c \in {200, 304, 412}, i, h \in BOOLEAN}
    \cup {[Plain EXCEPT !.kind = k, !.head = h] :
            k \in {"probe", "hidden", "dir without slash", "dir", "dir with indexfile"}, h \in BOOLEAN}
    \cup {[Plain EXCEPT !.kind = "dir", !.autoindex = TRUE, !.head = h,
                        !.hide = [dots |-> d, links |-> l]] :
            d \in {"Never", "InAutoIndexListings", "ForDirectPaths"}, h, l \in BOOLEAN}

MCEntries ==
    {[name |-> 1, path |-> <<"f">>, dir |-> FALSE], [name |-> 2, path |-> <<"d">>, dir |-> TRUE],
     [name |-> 3, path |-> <<".h">>, dir |-> TRUE], [name |-> 4, path |-> <<"l">>, dir |-> FALSE],
     [name |-> 5, path |-> <<".dav-calendar">>, dir |-> FALSE]}

MCNodes == {<<>>, <<"d">>, <<"d", "f">>, <<"d", ".h">>, <<"d", ".h", "f">>, <<"l">>, <<".dav-calendar">>}
MCCollections == {<<>>, <<"d">>, <<"d", ".h">>}
MCLinks == {<<"l">>}
MCFindRequests ==
    {[path |-> p, depth |-> d, body |-> "propfind", infinity |-> TRUE,
      hide |-> [dots |-> o, links |-> l]] :
        p \in {<<>>, <<"d">>, <<"d", ".h">>}, d \in {0, 1, Infinity},
        o \in {"Never", "InListings", "ForDirectPaths", "Always"}, l \in BOOLEAN}
    \cup {[path |-> <<>>, depth |-> d, body |-> b, infinity |-> FALSE, hide |-> Show] :
        d \in {0, Infinity}, b \in {"propfind", "not a propfind"}}
=============================================================================
