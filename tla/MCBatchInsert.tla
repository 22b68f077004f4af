--------------------------- MODULE MCBatchInsert ---------------------------
(* Small instances of BatchInsert.                                         *)
EXTENDS BatchInsert, TLC

E(s, d, w, ts) == [src |-> s, dst |-> d, weight |-> w, ts |-> ts, result |-> 0]
Preset(s, d, r) == [src |-> s, dst |-> d, weight |-> 8, ts |-> 1, result |-> r]

S(n, dirs, w) == [neighbor |-> n, dirs |-> dirs, weight |-> w, timeRecent |-> 0]
Hole == S(Blank, {}, 9)
Out(n) == S(n, {"OUT"}, 1)
In(n) == S(n, {"IN"}, 0)

\* A block of two slots with one, or both, of them below the high mark.
One(a) == [high |-> 1, slot |-> <<a, NewSlot>>]
Two(a, b) == [high |-> 2, slot |-> <<a, b>>]

Lists(f) == f @@ [v \in Vertices |-> <<>>]

Case(b, g, op, dir) == [batch |-> b, list |-> Lists(g), operation |-> op, directed |-> dir]

\* Two ranges of vertex 0 that share its edge to 2.
Straddling == <<E(0, 1, 1, 1), E(0, 2, 2, 1), E(0, 2, 4, 2), E(0, 3, 1, 1), E(0, 2, 1, 3)>>

\* Lists of vertex 0: empty, with a free slot, with a hole before a live edge
\* that keeps a weight, and full.
StraddlingCases ==
  {Case(Straddling, 0 :> <<>>, "INCR", TRUE),
   Case(Straddling, 0 :> <<One(Out(3))>> @@ 3 :> <<One(In(0))>>, "INCR", TRUE),
   Case(Straddling, 0 :> <<Two(Hole, Out(2))>> @@ 2 :> <<One(In(0))>>, "INCR", TRUE),
   Case(Straddling, 0 :> <<Two(Out(4), In(3))>> @@ 3 :> <<One(Out(0))>> @@ 4 :> <<One(In(0))>>, "INCR", TRUE)}

\* Two ranges that need three blocks between them and share the edge to 3.
Wide == <<E(0, 1, 1, 1), E(0, 2, 1, 1), E(0, 3, 1, 1), E(0, 3, 2, 2), E(0, 4, 1, 1), E(0, 5, 1, 1)>>

WideCases == {Case(Wide, 0 :> <<Two(Hole, Hole)>>, "INCR", dir) : dir \in BOOLEAN}

\* The edge exists in the other direction, and has to be found by both ranges
\* at both of its ends.
Reversed == <<E(0, 1, 1, 1), E(0, 1, 2, 2), E(0, 1, 4, 3), E(0, 1, 8, 4)>>

ReversedCases == {Case(Reversed, 0 :> <<One(In(1))>> @@ 1 :> <<One(Out(0))>>, "INCR", TRUE)}

\* Both halves of a batch, a self-loop, and updates the caller marked.
Mixed == <<E(0, 1, 1, 1), E(1, 0, 2, 1), E(1, 1, 1, 1), Preset(0, 2, -1), E(2, 1, 4, 2)>>

MixedCases == {Case(Mixed, 1 :> <<One(Hole)>>, op, dir) : op \in Operations, dir \in BOOLEAN}

\* Edges of which deleteOlderThan has left one end: the other is stored again,
\* and the caller is told of the edge if it is its last end that is missing.
HalfCases ==
  {Case(Straddling, 0 :> <<One(Out(2))>> @@ 3 :> <<One(In(0))>>, "INCR", TRUE)} \cup
  {Case(Mixed, 1 :> <<Two(Out(0), In(2))>>, op, dir) : op \in Operations, dir \in BOOLEAN}

\* An update without a source, marked and with the vertex 0 a message has by
\* default, before another of that edge: the thread does not see that the edge
\* from 0 to 2 has a slot and gives it a second, or it has two already.  The
\* other edges of vertex 0 do not suffer.
Defaults == <<E(0, 1, 1, 1), Preset(0, 2, -1), E(0, 2, 2, 2),
              E(0, 3, 1, 1), E(0, 3, 2, 2), E(0, 3, 4, 3)>>

DefaultCases ==
  {Case(Defaults, 0 :> blocks, "INCR", dir) :
     blocks \in {<<Two(Out(2), Hole)>>, <<Two(Out(2), Out(2)), One(In(3))>>}, dir \in BOOLEAN}

AllCases == StraddlingCases \cup WideCases \cup ReversedCases \cup MixedCases
              \cup HalfCases \cup DefaultCases

ThreadSymmetry == Permutations(Threads)
=============================================================================
