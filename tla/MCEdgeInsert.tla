---------------------------- MODULE MCEdgeInsert ----------------------------
(* Small instances of EdgeInsert.                                          *)
EXTENDS EdgeInsert, TLC

Op(d, dir, w, ts, mode) == [dest |-> d, dir |-> dir, weight |-> w, ts |-> ts, mode |-> mode]

\* An edge, its reverse, and another edge, so that
\* blocks have to be appended while the edge is being looked for.
RaceOps == {Op(0, "OUT", 1, 3, "INCR"), Op(0, "IN", 1, 1, "INCR"),
            Op(1, "OUT", 1, 2, "SET")}

\* An empty list, one with a free slot and one whose only block is full.
RaceContents == {<<>>, <<2>>, <<2, 3>>}

\* Blocks with holes that deletions left, before and behind a live edge.
ReuseContents == {<<-1, 0>>, <<2, -1>>, <<-1, -1>>, <<-1>>}

AllContents == RaceContents \cup ReuseContents

\* Words a deleted edge leaves in its slot, and a block its stamps.
Left == {[slot |-> [k \in Indices |-> [weight |-> k + 1, timeFirst |-> 1, timeRecent |-> k + 1]],
          smallStamp |-> 1, largeStamp |-> 2]}

MinStamp == -9
MaxStamp == 9

ThreadSymmetry == Permutations(Threads)
=============================================================================
