--------------------------- MODULE ReferenceGraph ---------------------------
(***************************************************************************)
(* reference_impl.h: the implementation of DynamicGraph the tests compare  *)
(* the others with.  A graph is a map from the edges there are to their    *)
(* weights and timestamps.                                                 *)
(***************************************************************************)
EXTENDS Integers, Sequences, Functions, FiniteSets, SequencesExt

EmptyGraph == [e \in {} |-> [weight |-> 0, timestamp |-> 0]]

Later(a, b) == IF a > b THEN a ELSE b

\* insert_batch, for one edge.  An edge is new when its weight is -1, the value
\* a missing edge is created with.
InsertEdge(graph, e) ==
  LET key == <<e.src, e.dst>>
      new == key \notin DOMAIN graph \/ graph[key].weight = -1 IN
  [k \in DOMAIN graph \cup {key} |->
     IF k # key THEN graph[k]
     ELSE IF new THEN [weight |-> e.weight, timestamp |-> e.timestamp]
     ELSE [weight |-> graph[k].weight + e.weight,
           timestamp |-> Later(graph[k].timestamp, e.timestamp)]]

\* insert_batch: the edges of the batch one after the other.
InsertBatch(graph, batch) ==
  LET after[i \in 0 .. Len(batch)] ==
        IF i = 0 THEN graph ELSE InsertEdge(after[i - 1], batch[i]) IN
  after[Len(batch)]

DeleteOlderThan(graph, threshold) ==
  Restrict(graph, {k \in DOMAIN graph : graph[k].timestamp >= threshold})
=============================================================================
