---------------------------- MODULE StingerServer ----------------------------
(***************************************************************************)
(* One trial of the benchmark: benchmark.h drives StingerServer, which     *)
(* keeps the graph in STINGER (stinger_server.cpp, stinger_graph.cpp).     *)
(* run_dynamic records for every batch which edges will expire, deletes    *)
(* them and inserts the batch with a parallel loop of stinger_incr_edge.   *)
(* run_static, of the sort mode SNAPSHOT, builds a new graph from the      *)
(* newest entries of all edges so far, filtered and in CSR form.           *)
(*                                                                         *)
(* The insertion is that of the builds with USE_STINGER_BATCH_INSERT off,  *)
(* insert_using_parallel_for_*_schedule.  The default build compiles       *)
(* insert_using_stinger_batch in its place (stinger_server.cpp 179), whose *)
(* steps BatchInsert has: what is shown here of insertions is of the loop. *)
(*                                                                         *)
(* In both modes the reference implementation gets the deletions and       *)
(* batches of run_dynamic, as in the tests CompareWithReference and        *)
(* SortModeDoesntAffectEdgeCount.                                          *)
(***************************************************************************)
EXTENDS SlotList, FiniteSets, SequencesExt

CONSTANTS Vertices,
          Datasets,   \* edge lists a run may load
          BatchSize,
          Windows,    \* widths of the time window, window_size in time units
          ThreadCounts, \* numbers of OpenMP threads
          SortModes     \* of Args::SORT_MODE, those Benchmark::run acts on

Ref == INSTANCE ReferenceGraph

Edges == [src : Vertices, dst : Vertices, weight : Nat \ {0}, timestamp : Nat]

\* What EdgeListDataset checks before the benchmark starts.
ASSUME DatasetAssumption ==
  /\ Vertices \subseteq Nat /\ IsFiniteSet(Vertices) /\ SortModes \subseteq {"UNSORTED", "SNAPSHOT"}
  /\ ThreadCounts \subseteq Nat \ {0} /\ BatchSize \in Nat \ {0} /\ Windows \subseteq Nat
  /\ \A d \in Datasets :
       /\ d \in Seq(Edges) /\ Len(d) >= BatchSize
       /\ \A i \in DOMAIN d : d[i].src # d[i].dst
       /\ \A i, j \in DOMAIN d : i < j => d[i].timestamp <= d[j].timestamp

VARIABLES
  edges,     \* the dataset
  window,    \* the width of its time window
  num_threads, \* the OpenMP threads of the parallel loops
  sort_mode,
  lists,     \* lists[v]: the slots of v
  vertex,    \* vertex[v]: inDegree, outDegree and degree
  max_active_vertex,
  recentDeletions, \* the edges before_batch found to expire
  batch_id, phase,
  next,      \* the edge of the batch the parallel loop hands out next
  inflight,  \* the edges being inserted and the directions still to do
  snapshot,  \* the batch the last graph of run_static was built from
  reference  \* the graph of the reference implementation

setup == <<edges, window, num_threads, sort_mode>>
vars == <<setup, lists, vertex, max_active_vertex, recentDeletions,
          batch_id, phase, next, inflight, snapshot, reference>>

-----------------------------------------------------------------------------
(* The dataset.                                                            *)

NumBatches == Len(edges) \div BatchSize

MinTimestamp == edges[1].timestamp
MaxTimestamp == edges[Len(edges)].timestamp

BatchStart(b) == b * BatchSize + 1
BatchEnd(b) == (b + 1) * BatchSize

\* getTimestampForWindow.
Threshold(b) == Ref!Later(MinTimestamp, edges[BatchEnd(b)].timestamp - window)

\* Batch::filter: a batch begins with its first edge that is not too old.
FilteredStart(from, b) ==
  Min({i \in from .. BatchEnd(b) : edges[i].timestamp >= Threshold(b)} \cup {BatchEnd(b) + 1})

Batch(b) == FilteredStart(BatchStart(b), b) .. BatchEnd(b)

SameEdge(e, f) == e.src = f.src /\ e.dst = f.dst

\* Batch::dedup_and_sort_by_out_degree keeps one of the newest entries of every
\* edge.  The order it leaves them in is lost in the sort of the CSR loading.
Deduplicated(entries) ==
  {S \in SUBSET entries :
     \A e \in entries : \E f \in S :
       /\ {g \in S : SameEdge(e, g)} = {f}
       /\ f.timestamp >= e.timestamp}

\* The batches get_preprocessed_batch may return in the mode SNAPSHOT.
Snapshots(b) == Deduplicated({edges[i] : i \in FilteredStart(1, b) .. BatchEnd(b)})

\* args.window_size # 1.0
Windowed == window < MaxTimestamp - MinTimestamp

-----------------------------------------------------------------------------
(* The graph.                                                              *)

OutEdges(L) == {e \in Vertices \X Vertices : e[2] \in Neighbors(L[e[1]], "OUT")}
InEdges(L) == {e \in Vertices \X Vertices : e[1] \in Neighbors(L[e[2]], "IN")}

OutSlot(L, u, v) == L[u][Min({i \in SlotsOf(L[u], v) : "OUT" \in L[u][i].dirs})]

NewVertex == [inDegree |-> 0, outDegree |-> 0, degree |-> 0]

\* The counters of v follow the change of its slots from list to list2.
Recount(c, list, list2) ==
  LET Directed(l, d) == Cardinality({i \in DOMAIN l : d \in l[i].dirs})
      Used(l) == Cardinality({i \in DOMAIN l : l[i].neighbor # Blank}) IN
  [inDegree |-> c.inDegree + Directed(list2, "IN") - Directed(list, "IN"),
   outDegree |-> c.outDegree + Directed(list2, "OUT") - Directed(list, "OUT"),
   degree |-> c.degree + Used(list2) - Used(list)]

\* stinger_max_active_vertex
MaxActive(V) == Max({0} \cup {v \in Vertices : V[v].inDegree > 0 \/ V[v].outDegree > 0})

\* The number of edges in the lists of the first n vertices.
edges_up_to(V, n) ==
  LET total[i \in 0 .. n] ==
        IF i = 0 THEN 0
        ELSE total[i - 1] + (IF i - 1 \in Vertices THEN V[i - 1].outDegree ELSE 0) IN
  total[n]

get_num_edges == edges_up_to(vertex, max_active_vertex + 1)

-----------------------------------------------------------------------------
(* The graph insert_using_set_initial_edges makes of a batch without       *)
(* duplicates: every edge is put down at its source as an outgoing and at  *)
(* its destination as an incoming one, two of the same ends are merged.    *)

Half(e, d) == [neighbor |-> IF d = "OUT" THEN e.dst ELSE e.src,
               dirs |-> {d}, weight |-> e.weight, timeRecent |-> e.timestamp]

Halves(batch, v) == {Half(e, "OUT") : e \in {f \in batch : f.src = v}} \cup
                    {Half(e, "IN") : e \in {f \in batch : f.dst = v}}

\* Mutant: the duplicate left behind by the merge is the one that is kept.
MergedDropsDuplicate(halves) ==
  IF \E h \in halves : h.dirs = {"OUT"} THEN CHOOSE h \in halves : h.dirs = {"OUT"}
  ELSE CHOOSE h \in halves : TRUE

\* The partial sum over the edges to one neighbour, outgoing first: the last
\* of them with the directions of all.
Merged(halves) ==
  LET last == IF \E h \in halves : h.dirs = {"IN"} THEN {"IN"} ELSE {"OUT"} IN
  [(CHOOSE h \in halves : h.dirs = last) EXCEPT !.dirs = UNION {h.dirs : h \in halves}]

\* The i-th smallest of a set of numbers.
Nth(S, i) == CHOOSE n \in S : Cardinality({m \in S : m < n}) = i - 1

\* The slots of v in the order of their neighbours.
LoadedList(batch, v) ==
  LET halves == Halves(batch, v)
      neighbors == {h.neighbor : h \in halves} IN
  [i \in 1 .. Cardinality(neighbors) |->
     Merged({h \in halves : h.neighbor = Nth(neighbors, i)})]

\* stinger_set_initial_edges counts an outgoing slot at both of its ends.
LoadedVertex(L, v) ==
  [inDegree |-> Cardinality({e \in OutEdges(L) : e[2] = v}),
   outDegree |-> Cardinality({e \in OutEdges(L) : e[1] = v}),
   degree |-> Len(L[v])]

-----------------------------------------------------------------------------
Expiring(L) ==
  {e \in OutEdges(L) : OutSlot(L, e[1], e[2]).timeRecent < Threshold(batch_id)}

Init ==
  /\ edges \in Datasets
  /\ window \in Windows
  /\ num_threads \in ThreadCounts
  /\ sort_mode \in SortModes
  /\ lists = [v \in Vertices |-> <<>>]
  /\ vertex = [v \in Vertices |-> NewVertex]
  /\ max_active_vertex = 0
  /\ recentDeletions = {}
  /\ batch_id = 0
  /\ phase = "before_batch"
  /\ next = 1
  /\ inflight = {}
  /\ snapshot = {}
  /\ reference = Ref!EmptyGraph

\* Mutant: what will expire is looked up with the slots of incoming edges.
BeforeBatchBothDirections ==
  /\ phase = "before_batch" /\ sort_mode = "UNSORTED"
  /\ recentDeletions' = {e \in Vertices \X Vertices :
                           \E i \in SlotsOf(lists[e[1]], e[2]) :
                             lists[e[1]][i].timeRecent < Threshold(batch_id)}
  /\ phase' = "deletions"
  /\ UNCHANGED <<setup, lists, vertex, max_active_vertex, batch_id, next, inflight, snapshot, reference>>

\* before_batch: which edges the deletions are going to remove.
BeforeBatch ==
  /\ phase = "before_batch" /\ sort_mode = "UNSORTED"
  /\ recentDeletions' = Expiring(lists)
  /\ phase' = "deletions"
  /\ UNCHANGED <<setup, lists, vertex, max_active_vertex, batch_id, next, inflight, snapshot, reference>>

\* delete_edges_older_than, on both graphs, unless the window is the whole
\* dataset; then the batch is filtered.
Delete ==
  /\ phase = "deletions"
  /\ IF Windowed
     THEN /\ lists' = [v \in Vertices |->
                         [i \in DOMAIN lists[v] |-> Expired(lists[v][i], Threshold(batch_id))]]
          /\ vertex' = [v \in Vertices |-> Recount(vertex[v], lists[v], lists'[v])]
          /\ max_active_vertex' = MaxActive(vertex')
          /\ reference' = Ref!DeleteOlderThan(reference, Threshold(batch_id))
     ELSE UNCHANGED <<lists, vertex, max_active_vertex, reference>>
  /\ next' = FilteredStart(BatchStart(batch_id), batch_id)
  /\ phase' = "insertions"
  /\ UNCHANGED <<setup, recentDeletions, batch_id, inflight, snapshot>>

\* A thread of the parallel loop takes the next edge of the batch.
Take ==
  /\ phase = "insertions"
  /\ next <= BatchEnd(batch_id)
  /\ Cardinality(inflight) < num_threads
  /\ inflight' = inflight \cup {[edge |-> next, half |-> 1]}
  /\ next' = next + 1
  /\ UNCHANGED <<setup, lists, vertex, max_active_vertex, recentDeletions, batch_id, phase,
                 snapshot, reference>>

\* Mutant: the incoming half is written only for edges to a larger vertex.
HalfDirectionOutOnly(e, half) == IF e.src < e.dst /\ half = 2 THEN "IN" ELSE "OUT"

\* stinger_incr_edge begins with the list of the smaller vertex.
HalfDirection(e, half) == IF (e.src < e.dst) = (half = 1) THEN "OUT" ELSE "IN"

\* One stinger_update_directed_edge of a stinger_incr_edge.
InsertHalf(c) ==
  LET e == edges[c.edge]
      d == HalfDirection(e, c.half)
      v == IF d = "OUT" THEN e.src ELSE e.dst
      n == IF d = "OUT" THEN e.dst ELSE e.src
      list2 == Update(lists[v], n, d, e.weight, e.timestamp) IN
  /\ lists' = [lists EXCEPT ![v] = list2]
  /\ vertex' = [vertex EXCEPT ![v] = Recount(@, lists[v], list2)]
  /\ inflight' = (inflight \ {c}) \cup
                   (IF c.half = 1 THEN {[c EXCEPT !.half = 2]} ELSE {})
  /\ UNCHANGED <<setup, max_active_vertex, recentDeletions, batch_id, phase,
                 next, snapshot, reference>>

\* The end of insert_batch, with onGraphChange, once the loop is over.
EndBatch ==
  /\ phase = "insertions"
  /\ next > BatchEnd(batch_id)
  /\ inflight = {}
  /\ max_active_vertex' = MaxActive(vertex)
  /\ reference' = LET b == Batch(batch_id) IN
                   Ref!InsertBatch(reference, SubSeq(edges, Min(b \cup {next}), next - 1))
  /\ batch_id' = batch_id + 1
  /\ phase' = IF batch_id' = NumBatches THEN "done" ELSE "before_batch"
  /\ UNCHANGED <<setup, lists, vertex, recentDeletions, next, inflight, snapshot>>

\* One graph of run_static.  Benchmark says after which batches there is one;
\* as each is new, the others make no difference to it.
Construct ==
  /\ phase = "before_batch" /\ sort_mode = "SNAPSHOT"
  /\ snapshot' \in Snapshots(batch_id)
  /\ lists' = [v \in Vertices |-> LoadedList(snapshot', v)]
  /\ vertex' = [v \in Vertices |-> LoadedVertex(lists', v)]
  /\ max_active_vertex' = MaxActive(vertex')
  /\ reference' =
       LET b == Batch(batch_id)
           kept == IF Windowed THEN Ref!DeleteOlderThan(reference, Threshold(batch_id))
                               ELSE reference IN
       Ref!InsertBatch(kept, SubSeq(edges, Min(b), BatchEnd(batch_id)))
  /\ batch_id' = batch_id + 1
  /\ phase' = IF batch_id' = NumBatches THEN "done" ELSE "before_batch"
  /\ UNCHANGED <<setup, recentDeletions, next, inflight>>

Done == phase = "done" /\ UNCHANGED vars

Next ==
  \/ BeforeBatch \/ Delete \/ Take \/ EndBatch \/ Construct \/ Done
  \/ \E c \in inflight : InsertHalf(c)

Spec == Init /\ [][Next]_vars

-----------------------------------------------------------------------------
(* Properties.                                                             *)

Slots == [neighbor : Vertices \cup {Blank}, dirs : SUBSET {"OUT", "IN"},
          weight : Nat, timeRecent : Nat]

\* Every variable has its type; no counter is ever decremented below zero.
TypeOK ==
  /\ edges \in Seq(Edges) /\ window \in Windows /\ num_threads \in ThreadCounts
  /\ sort_mode \in SortModes /\ snapshot \subseteq Range(edges)
  /\ lists \in [Vertices -> Seq(Slots)]
  /\ vertex \in [Vertices -> [inDegree : Nat, outDegree : Nat, degree : Nat]]
  /\ max_active_vertex \in Vertices \cup {0}
  /\ recentDeletions \subseteq Vertices \X Vertices
  /\ batch_id \in 0 .. NumBatches
  /\ phase \in {"before_batch", "deletions", "insertions", "done"}
  /\ next \in 1 .. Len(edges) + 1
  /\ inflight \subseteq [edge : DOMAIN edges, half : {1, 2}]
  /\ Cardinality(inflight) <= num_threads

\* No parallel loop is under way: both graphs have had the same operations.
AtRest == inflight = {} /\ (phase = "insertions" => next = Min(Batch(batch_id) \cup {next}))

RefEdges == DOMAIN reference

\* stinger_consistency_check: the in-degree of a vertex is the number of out
\* edges to it and the other way round, an edge has an end at both vertices.
Consistent == AtRest =>
  \A v \in Vertices :
    /\ vertex[v].inDegree = Cardinality({e \in OutEdges(lists) : e[2] = v})
    /\ vertex[v].outDegree = Cardinality({e \in InEdges(lists) : e[1] = v})

\* The weight of an edge is the sum of what was inserted.
WeightsMatch == AtRest =>
  \A e \in RefEdges \cap OutEdges(lists) :
    OutSlot(lists, e[1], e[2]).weight = reference[e].weight

\* With one thread, and in snapshots, the edges, their timestamps and the numbers
\* the benchmark reports are those of the reference implementation after every
\* step: neither the window nor the sort mode changes the graph.  The merge of
\* a snapshot swaps the timestamps of two opposite edges.  Without deletions, any
\* number of threads and any order of insertion by the loop leave the two ends of
\* every edge and the weights of the reference implementation (those of the default
\* build's insert_using_stinger_batch are AddsUp of BatchInsert).
MatchesReference ==
  /\ AtRest /\ (num_threads = 1 \/ sort_mode = "SNAPSHOT") =>
       /\ OutEdges(lists) = RefEdges
       /\ \A e \in RefEdges :
            sort_mode = "UNSORTED" \/ <<e[2], e[1]>> \notin RefEdges =>
              OutSlot(lists, e[1], e[2]).timeRecent = reference[e].timestamp
       /\ \A v \in Vertices : vertex[v].outDegree = Cardinality({e \in RefEdges : e[1] = v})
       /\ get_num_edges = Cardinality(RefEdges)
  /\ sort_mode = "UNSORTED" /\ ~Windowed => Consistent /\ WeightsMatch

\* A snapshot is loaded as the updates would have left it, under any window: the
\* degrees are consistent, no neighbour has two slots, and of two edges that are
\* not opposite both ends hold the weight of the entry that was kept.
SnapshotLoads == sort_mode = "SNAPSHOT" =>
  /\ Consistent
  /\ \A v \in Vertices :
       /\ \A n \in Vertices : Cardinality(SlotsOf(lists[v], n)) <= 1
       /\ vertex[v].degree = Cardinality({n \in Vertices : SlotsOf(lists[v], n) # {}})
  /\ \A e \in snapshot :
       (\A f \in snapshot : f.src # e.dst \/ f.dst # e.src) =>
         /\ lists[e.src][Min(SlotsOf(lists[e.src], e.dst))].weight = e.weight
         /\ lists[e.dst][Min(SlotsOf(lists[e.dst], e.src))].weight = e.weight

\* "Swap src and dest, otherwise keep the same values": an edge of the snapshot
\* has its own weight and timestamp in the slot of its source.
LoadsEveryWeight == \A e \in snapshot :
  /\ OutSlot(lists, e.src, e.dst).weight = e.weight
  /\ OutSlot(lists, e.src, e.dst).timeRecent = e.timestamp

\* With any number of threads no edge outlives its last update by more than the
\* window: what is in the graph is in the reference graph.
NoStaleEdge == AtRest => OutEdges(lists) \subseteq RefEdges

\* Whatever the deletions did to the two ends of an edge, inserting it again
\* makes it whole: at the end of a batch, inserted by the loop, its edges have
\* both ends (for insert_using_stinger_batch that is AddsUp of BatchInsert).
BatchIsWhole ==
  phase \in {"before_batch", "done"} /\ batch_id > 0 =>
    \A i \in Batch(batch_id - 1) :
      <<edges[i].src, edges[i].dst>> \in OutEdges(lists) \cap InEdges(lists)

\* The type invariant, with the counters never below zero and no more updates
\* under way than threads; and batches are whole.
BatchesOK == TypeOK /\ BatchIsWhole

\* The algorithms are told of the deletions before they happen: before_batch
\* figures out exactly the edges that the next step takes away.
RecordedDeletionsHappen ==
  [][phase = "deletions" =>
       recentDeletions = OutEdges(lists) \ OutEdges(lists')]_vars
=============================================================================
