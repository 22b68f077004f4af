---------------------------- MODULE MCEdgeRemove ----------------------------
(* Small instances of EdgeRemove.                                          *)
EXTENDS EdgeRemove

Edge(u, v) == [from |-> u, to |-> v, pair |-> FALSE]
Pair(u, v) == [from |-> u, to |-> v, pair |-> TRUE]

BothEnds(E) == [out |-> E, in |-> E]

\* racing_deletions and more: both directions of one edge, as one removal and
\* as a pair that begins with the other direction, and both directions of another at the same vertex.
RacingOps == {Edge(0, 1), Pair(1, 0), Edge(1, 2), Edge(2, 1)}

\* Edges with both ends, and edges with their out end or their in end only.
RacingGraphs == {BothEnds({<<0, 1>>, <<1, 0>>, <<1, 2>>, <<2, 0>>}),
                 [out |-> {<<0, 1>>, <<1, 0>>, <<1, 2>>}, in |-> {<<0, 1>>, <<1, 0>>, <<2, 1>>}]}
=============================================================================
