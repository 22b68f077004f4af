----------------------- MODULE MCEdgeInsertRefinement -----------------------
(* Small instances of the refinement of AtomicAdjacency by EdgeInsert.     *)
EXTENDS EdgeInsertRefinement

Op(d, dir, w, ts, mode) == [dest |-> d, dir |-> dir, weight |-> w, ts |-> ts, mode |-> mode]

\* Increments of one edge, its reverse, and another edge that is overwritten.
MixedOps == {Op(0, "OUT", 1, 2, "INCR"), Op(0, "IN", 3, 1, "INCR"),
             Op(1, "OUT", 2, 3, "SET")}

\* A list with one slot never used, or one left by a deletion; two new
\* neighbours make it grow.
SomeContents == {<<2>>, <<2, -1>>}

\* Words a deleted edge leaves in its slot, and a block its stamps.
Left == {[slot |-> [k \in Indices |-> [weight |-> k + 1, timeFirst |-> 1, timeRecent |-> k + 1]],
          smallStamp |-> 1, largeStamp |-> 2]}

MinStamp == -9
MaxStamp == 9
=============================================================================
