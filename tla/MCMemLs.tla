------------------------------- MODULE MCMemLs -------------------------------
(* MemLs on a collection /a, its member /a/b, a sibling /c and the root.    *)
EXTENDS MemLs

CONSTANTS t1, t2

MCNames == {"a", "b", "c"}
MCPaths == {<<>>, <<"a">>, <<"a", "b">>, <<"c">>}
MCMembers == MCPaths \ {Root}
=============================================================================
