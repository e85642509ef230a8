------------------------------- MODULE MCMemFs -------------------------------
(* MemFs on two names, and collections with one member.                     *)
EXTENDS MemFs

CONSTANTS h1, h2

MCSymmetry == Permutations(Handles)

A  == <<"a">>
AA == <<"a", "a">>
B  == <<"b">>
BA == <<"b", "a">>

MCNames == {"a", "b"}
MCPaths == {Root, A, AA, B, BA}
MCBuffers == {<<>>, <<1>>}
MCContents == UNION {[1..n -> 0..2] : n \in 0..MaxLen}

\* What the handlers do: COPY and MOVE refuse a path that is the other one.
MCRenames == {<<p, q>> : p, q \in MCPaths} \ {<<p, p>> : p \in MCPaths}
\* create_dir of the root makes a member without a name, see the README.
MCMkcols == MCPaths \ {Root}
=============================================================================
