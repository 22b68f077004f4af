--------------------------- MODULE MCStingerServer ---------------------------
(* Small instances of StingerServer: every list of six edges over three     *)
(* pairs of vertices, two of them opposite and two from the same source.    *)
EXTENDS StingerServer

Pairs == {<<0, 1>>, <<1, 0>>, <<0, 2>>}

Timestamps == <<1, 2, 3, 3, 4, 5>>

SixEdges == {[i \in 1 .. 6 |-> [src |-> f[i][1], dst |-> f[i][2],
                               weight |-> i, timestamp |-> Timestamps[i]]] :
             f \in [1 .. 6 -> Pairs]}
=============================================================================
