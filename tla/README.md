# A verification project for stinger-dynograph

STINGER keeps a changing graph in shared memory: every vertex has a list of
edge blocks, and the threads of a parallel loop insert and remove edges at the
same time under locks that are single words.  DynoGraph drives it: batches of
edges with timestamps are inserted, edges older than a window are deleted, and
at several points in between graph algorithms run.

This directory models the parts of the repository that decide what is in the
graph and who sees it: the protocols of insertion, removal and batch insertion,
the table of names, the batches and the window on top of them and the loading of
a snapshot, the driver that decides when algorithms run and on what data; and of
the streaming server the queue of batches, and the process loop that takes
algorithm processes and monitors through every batch.  TLC checks small
instances; TLAPS proves for every instance the main invariants of the two locking
protocols, of the driver, and of the streaming server's queue, algorithms and
monitors, that updates and removals are atomic, and that the graph server keeps the
graph of the reference implementation.

Paths below are relative to `src/`; `core/` stands for
`lib/stinger/lib/stinger_core/`, `util/` for `lib/dynograph_util/` and
`net/` for `lib/stinger/lib/stinger_net/`.

## 1. Inventory

### The graph store: `core/`

* **Edge insertion**: `stinger_update_directed_edge`,
  `update_edge_data_and_direction`, `new_eb`, `push_ebs` (`core/src/stinger.c`
  940-1274).  State: the chain of blocks of a vertex, each with slots (neighbour
  and direction bits, weight, timeFirst, timeRecent), a high water mark, a count
  and two stamps; the degree counters of a vertex; the tail of the block pool; an
  array of the blocks of an edge type.  Synchronisation is by full/empty words
  (`core/inc/x86_full_empty.h`): a word that holds MARKER is empty and so locked.
  *Hard*: threads look for a free slot without a lock and look again under one;
  blocks are appended while others walk the list; an edge and its reverse share
  a slot; slots that deletions blanked are used again.  *Correct if*: one slot
  per neighbour, counters that agree with the slots, no update lost, every call
  returns.
* **Edge removal**: `stinger_remove_edge`, `stinger_remove_edge_pair`
  (1461-1596).  A removal needs the slots at both ends of an edge.  *Hard*: two
  locks per call, taken in the order of the vertex numbers, and paths that give
  up half-way.  *Correct if*: the two ends go together, an edge is removed once,
  no thread waits for ever.
* **Names and physical vertex mapping** (`stinger_names.c`,
  `stinger_physmap.c`).  State: an open hash table whose entries are full/empty
  words, the strings, and the number of each.  Operations: look up or create a
  name, save, load.  *Hard*: threads create the same and colliding names at once.
  *Correct if*: every name has one number for good.
* **Batch insertion** (`core/inc/stinger_batch_insert.h`): the updates of one
  vertex are sorted, split into ranges for the threads, and each range is made in
  one walk over the list.  *Hard*: ranges that share an edge, slots and the end
  of the list.  *Correct if*: the lists are those of single updates.
* **CSR loading** (`stinger_set_initial_edges`, and its caller in
  `stinger_graph.cpp`): merges out and in edges into lists.  *Correct if*: the
  graph is the one updates would have made.
* **Block pool** (`get_from_ebpool`, `new_ebs`, `new_blk_ebs`), **consistency
  check** (`stinger_consistency_check`, 585-712), **traversal**
  (`core/inc/stinger_traversal.h`), **save, load and shared memory**.

### The benchmark: `stinger_server.cpp`, `stinger_graph.cpp`, `util/`

* **Graph server**: `StingerServer` and `StingerGraph`.  State: the graph, the
  largest active vertex, the deletions about to happen.  Operations:
  `before_batch`, `delete_edges_older_than`, `insert_batch`.  *Hard*: the
  deletions are predicted by one loop and made by another; they look at single
  ends of edges; insertions of a batch run in any order.  *Correct if*: the graph
  is that of the reference implementation.
* **Reference implementation** (`util/reference_impl.h`): a map from edges to
  weight and timestamp; the test `CompareWithReference` compares the two.
* **Datasets** (`edgelist_dataset.cc`, `batch.cc`, `rmat_dataset.cc`): batches,
  thresholds, filters.
* **Driver** (`benchmark.h`, `benchmark.cc`, `alg_data_manager.cc`): trials,
  batches, epochs, trials of algorithms, and the data algorithms carry from epoch
  to epoch.  *Hard*: arithmetic with doubles decides where the epochs are.
  *Correct if*: as many epochs as asked, evenly spaced, each algorithm run on the
  graph and the data it should see.
* **Proxy dataset** (MPI broadcasts), **hooks**, **algorithms** (`stinger_alg`).

### The streaming server: `lib/stinger/src/server/`, `net/`

* **Batch queue** (`batch_server.cpp`): a thread per stream receives batches and
  puts them on a queue, or drops them when it is long; the process loop takes them
  off and deletes them.  *Hard*: two parties delete batches, and the length is
  looked at before the batch is put.  *Correct if*: every batch is processed once,
  in the order of its stream, or counted as dropped.
* **Batches** (`batch.cpp`): names are mapped, edges inserted and deleted in
  parallel loops.
* **Algorithms**: they register, and take part in a handshake
  (init, preprocess, batch, postprocess) for every batch (`alg_handling.cpp`,
  `stinger_server_state.cpp`).  State: a tree of algorithms by level of dependency, the
  state and the socket of each; a thread per connection registers algorithms
  while the process loop walks the tree.  *Hard*: algorithms join and die in any
  phase of a batch, levels that come and go, waiting for all of them.  *Correct
  if*: every algorithm sees every batch once, after those it depends on, while the
  graph stands still, and the death of one does not hold up the others.
* **Monitors** (`alg_handling.cpp`, `mon_handling.cpp`, `stinger_mon.cpp`): after
  each batch a monitor maps the graph while the server waits, and publishes the
  mapping to the readers of its process, who wait for the next one on a semaphore.
  *Hard*: the mapping is made, announced and published in three steps; readers are
  counted and wait in two; monitors come back under their names in the midst of the
  passes.  *Correct if*: a mapping is made of a graph that stands still, stays while
  it is read, and no wake-up is lost.

### How they interact

The driver calls the graph server, which runs parallel loops whose bodies call
the store; the threads of a loop share nothing but the store, and the loops of
one batch follow each other.  In the streaming server the process loop is the
one that calls the store, for one batch at a time, and it serves algorithms and
monitors in between.  `PROJECT.json` lists every component with what is and
is not modelled, and every hazard at its line.

## 2. The modules

| module | models | abstract specification |
| --- | --- | --- |
| `EdgeInsert` | insertion into one list, word by word | `AtomicAdjacency` |
| `EdgeInsertRefinement` | the refinement mapping of the former | |
| `EdgeRemove` | removal of edges, both locks | `AtomicRemoval` |
| `SlotList` | one list at rest: a whole update, a whole expiry | |
| `ReferenceGraph` | `reference_impl.h` | |
| `StingerServer` | batches, window, both graphs; uses the two above | |
| `Benchmark` | the driver; its graph is what `StingerServer` models | |
| `Names` | the table of names, word by word | `AtomicNames` |
| `BatchInsert` | a batch by `stinger_batch_insert.h` | updates one by one (`AddsUp`) |
| `BatchServer` | stream threads, the queue, the process loop at it | |
| `AlgServer` | the process loop, connection threads, registry and algorithm processes | |
| `Monitor` | the monitor passes, registration, handler threads and readers | |
| `*_proofs` | theorems about the module they name | |
| `MC*` | values of the constants for TLC | |

The levels fit together like this.  `EdgeInsert` has one action per access to
shared memory, and implements `AtomicAdjacency`, where an update is one step.
That is what allows `StingerServer` to take a directional update in one step
(`SlotList!Update`), and `BatchInsert` an update of a slot.
`EdgeInsert!UniqueNeighbor` is what allows `EdgeRemove` to name a slot by the vertex
and its neighbour.  `StingerServer` says what is in the graph after n batches, so
`Benchmark` only keeps n.  The streaming server's process loop is in three modules,
for its three neighbours:
`BatchServer` has it take and delete batches, `AlgServer` serve algorithms,
`Monitor` serve monitors.  Each takes the others' part of the loop as one step,
because the loop does one after the other and they share no other state; of the
graph they keep the number of batches applied.

### EdgeInsert

The action names follow the phases of `stinger_update_directed_edge`: `Find*` is
the first pass, that only looks for the neighbour; `Seek*` and `Claim*` the
second, that also takes a free slot under the lock of timeFirst; `Grow*` and
`Push*` append a block under the lock of the last link; `Upd*` are the steps of
`update_edge_data_and_direction` under the lock of the weight.  `frame[t]` holds
the local variables of the C functions under their names.  `Word` adds MARKER to
the values of a word.  `MARKER \notin Int` separates the two, as every weight and
timestamp a dataset can hold does; a weight of -1 would be MARKER in the code and
leave its word empty.

* Reads and writes of words other threads can see are single steps in program
  order.  The build is for x86, where stores become visible in order, and every
  lock operation is a compare and swap that drains them, so no other order of
  accesses is observable at these places.
* One list is enough.  Lists of different vertices share only the pool's tail and
  the edge type array, both taken by fetch-and-add; a block is named by its rank
  among the blocks of this list.  DynoGraph creates one edge type.
* The two halves of an edge are inserted at different lists, by two updates that
  hold no lock in between, so no update waits for one at another list.
* `InitContents` are lists as earlier phases leave them, with holes from
  deletions below the high water mark.  A deletion clears the neighbour and the
  direction only (`core/src/stinger.c` 1132-1146): `OldWords` are the weights, the
  timestamps of slots and the stamps of the block that updates had written by then, in
  holes and live slots alike.

### EdgeRemove

One call is `Call`, then twice `Seek`, `Lock`, `Check` (first the side of the
smaller vertex), then `RemoveForward`, `RemoveBack`, `UnlockSecond`,
`UnlockFirst`, or one of the failing paths `Missing`, `Fail`, `FailFirst`.
`Reverse` is the second call of `stinger_remove_edge_pair`.  A search is one read
of the slot: a list has at most one slot per neighbour, nothing is inserted while
deletions run, and a slot once blank stays so.  `Graphs` has the edges' out and
in ends apart, because the window can leave an edge with one end only.

### StingerServer, SlotList, ReferenceGraph

The insertion here is the parallel loop over single edges
(`insert_using_parallel_for_*_schedule`), which `insert_batch` calls in builds with
`USE_STINGER_BATCH_INSERT` off.  The default (`CMakeLists.txt` 6) compiles
`insert_using_stinger_batch` in its place (`stinger_server.cpp` 179).  That is
`BatchInsert`, whose `AddsUp` says that the batch leaves in the lists what the loop
would, on lists with ends missing as `deleteOlderThan` leaves them; the two modules
are not composed, and what the runs and theorems of `StingerServer` say of insertions
they say of the loop.

A batch is `BeforeBatch`, `Delete`, then `Take` and `InsertHalf` in any
interleaving, then `EndBatch`; `phase` and `batch_id` are the position of
`run_dynamic`, `inflight` the calls of `stinger_incr_edge` under way, with the
half still to do.  `Delete` is one step: each block belongs to one thread of the
loop, the loop reads and writes one slot at a time and the counters are atomic,
so the order of the slots cannot be seen.  `window = max - min` stands for
`window_size = 1.0`, which switches deletions off.  `reference` gets the same
operations.

In snapshot mode `Construct` is `run_static` for one batch: `Snapshot` filters the
edges so far and removes duplicates (`batch.cc`), `Halves` makes an outgoing and
an incoming entry of each edge and `Merged` one of two that follow each other
(`stinger_graph.cpp` 148-212), `LoadedList` and `LoadedVertex` are what
`stinger_set_initial_edges` makes of them.  The component labels that
`onGraphChange` computes are left out.

### Benchmark

The control of `run`, `run_dynamic` and `run_static`.  The graph is the number of
batches loaded, the data of an algorithm the sequence of epochs computed into it:
enough to tell which data a trial started from.  Nothing checks that the names of
the algorithms are distinct (`Args::validate`, `util/args.cc` 134-157), and data are looked
up by name: the second run of a name in a trial finds what the first has computed
(`RunsOf`), which `SameDataEachAlgTrial` tells from what other trials have left.

`EpochsDue` is `round_down(true_div(...))` in exact integer arithmetic: the quotient is
only wrong when it should be whole and the stored `batches_per_epoch` was rounded up
far enough.  The constants 52 and 53 bits are those of a double; the definition
gives the same result as doubles do for all workloads below 300 batches.

### AlgServer

The process loop is `srv`: `pc` and `pass` say where in `process_loop_handler` it
is, the other fields are its local variables.  A batch is `DequeueBatch`, the
initialisation pass, `EndInit`, for each level a loop that begins preprocessing
and one that ends it, `UpdateGraph`, the same for postprocessing, `EndBatch`.  What
the six blocks of the loop do with an algorithm is one table, `Exchanges`, and one
action, `Handle`, which waits for a message or the end of the stream.  The counts
`stop_level` and `stop_index` are read where the code reads them, so registrations
happen between the reading and the use.

A registration is `Connect`, `HasAlg`, `CheckAlg` if the name is known, `DeleteAlg` if
the algorithm of that name is dead, `ResolveDeps`, `AddAlg`: each is one hold of the
registry's lock.  `ResolveDeps` is two holds per dependency, made as one step: a
dependency that another thread replaces in between is not among the behaviours.
In no scenario of the run is a dependency replaced.  An algorithm process
makes its calls in the order `NextCall`; it computes between `Receive` and the next
`Send`.  `Crash` is its death, which leaves what it has sent in the socket.

* The timeouts are not modelled: the code compares a counter with them and never
  advances it (the increments are comments).  So no living algorithm is put in error
  (`OnlyTheDeadFail`), and the branch that eats a message of an algorithm in error has
  no message to eat.
* The conversion of the batch, the data of algorithms in shared memory, invalid
  names and `write_data` are left out.
* Processes and names are apart: several processes may register one name, each with a
  connection thread of its own.  `has_alg`, `get_alg`, `delete_alg` and `add_alg` hold
  the lock one after the other, so two threads may both find the name free.  Then both
  states are in the tree, the map knows the second, and `delete_alg` takes every second
  one of a run of equal names from the tree and frees what the map has.
  `contested` is a history variable, the names for which this happened.
* `AddAlg` cuts the tree when the new algorithm's level is below another's.  `cut` is
  a history variable, who was cut off and is still registered.
* A scenario says which names and dependencies are declared, how often processes may
  start, who may die, and whether registrations come only between batches.  The last
  is so in the scenarios in which a registration cuts the tree, erases from it or
  frees a state: during a batch the loop's counts would then run off the end of
  a vector, or its pointer be to a freed state, and what happens is undefined.
  `Undefined` has what can happen between batches as well, `get_alg` of a name that
  was deleted after `has_alg`; the model stops there.

### Names

`Probe`, `Compare`, `Lock`, `Restore`, `Claim`, `Number`, `SetName`, `Publish` are
the accesses of `stinger_names_create_type`, `Look` and `Match` those of
`stinger_names_lookup_type`.  A spelling gives a name its length, which is what
the capacity is counted in, and its entry, so that names collide or do not.
`Stray` is the line that fills the wrong word (214): the thread never comes back
if that word is full, and the entry stays empty in any case.  A call has two results,
what it returns and `*out`: a failing creation leaves in `*out` -1, the constant
INT64_MAX (204), or what the caller had there (`Unset`, 224).  `Start` looks at
`next_type` and `Number` draws it, so that several threads may draw numbers from
`max_types` on (`Overflow`); `SetName` then writes over an entry of `from_name`, which
follows `to_name` in memory.  `AtomicNames` gives a name its number in one step between
call and return.  In the run no name is a prefix of another (`PrefixPairs`).

### BatchInsert

`BeginPass` sorts the half of the batch that is due and makes the ranges;
`TakeRange` gives one to a thread.  `Find*` is the walk that only looks, `Seek*` and
`Claim` the walk that also takes free slots, `Grow` the block at the end,
`DoUpdate` one update of the slot under its weight's lock.  `Passes` are the two
loops of a directed batch, with both directions in each, or the four of an
undirected one.  Results are cleared and remapped between them as the code does.

A batch may have updates that are marked -1, with any edge, and the lists any contents:
edges with one end, neighbours with two slots.  `find_updates` takes the first update of
an edge for all of them, so an edge of which some updates are marked and some are not may
get a second slot; `batch.cpp` marks an update whose name it cannot resolve and leaves
its vertex at 0 or 1, the defaults of the message, so such edges do occur.  The
properties are about two vertices v and n that are `Unmixed`: of the edges between
them all updates are marked or none, and neither has two slots for the other from before.

### BatchServer

`RecvBatch`, `RecvEmpty`, `RecvFail`, `Check`, `Lock`, `Push`, `After` are a round of a
stream thread; `LoopLock`, `LoopPop`, `LoopProcess`, `LoopDelete` one of the process
loop.  `freed` are the batches deleted.  A use of one sets `undefined`, where the
model stops: the code does this after the last batch of a stream.

### Monitor

`pc[c]` is the handler thread of a monitor process, and before that the thread of
the server that registers it.  `loop`, `index`, `stop`, `cur` are the process loop.  The
vector of monitors and the map by name are apart, because `delete_mon` erases
the first of a name from one and the last from the other.  `Undefined` is where the
loop uses an index past the end or a deleted state; it then stops.  `Die` is the
death of a process at any point.  A reader is `WaitForSync`, `SemWait`, `ReadLock`,
`ReadUnlock`.  Version numbers are counted modulo `Batches`.  Timeouts are left out
as in `AlgServer`.

## 3. The runs

| run | question | instance | result |
| --- | --- | --- | --- |
| `insert_race` | is a list correct whatever threads insert? | 3 threads, 1 update each: an edge, its reverse, another; 7 initial lists | holds |
| `insert_refinement` | is an update atomic, does it return? | 2 threads, 2 updates each | holds |
| `remove_racing` | are removals atomic? | 3 threads; single and pair removals of opposite and adjacent edges | holds |
| `server_window` | what does any order of insertion preserve, and is the serial one, or a snapshot, the reference graph? | 1 or 2 threads or snapshots, all lists of 6 edges over 3 pairs, windows 0, 1, 2, 4 | holds |
| `server_mirror` | do the ends of edges stay together? | 1 thread, window 1 | **violated** |
| `snapshot_weights` | does a snapshot load every edge's weight? | no window | **violated** |
| `bench_trials` | does each algorithm see what it should? | workloads up to 24 batches, 2 trials, 2 trials of 2 algorithms, one named twice, 3 sort modes | holds |
| `names_shared` | does every name get one number? | 2 threads, 2 calls each, 4 names that collide in a table for 2, room for all or not | holds |
| `batch_ranges` | is a batch the sum of its updates? | 2 threads, 20 batches and lists, blocks of 2 slots | holds |
| `queue_streams` | is every batch processed once? | 2 streams of 2 batches, a queue for 1 | holds |
| `alg_rounds` | does every algorithm take part in every batch as promised? | 3 algorithms, 2 batches; one depends on two, late registrations, a death; one that dies and comes back; one that cuts another off the tree; three of one name | holds |
| `monitor_update` | are mappings made of a still graph, and readers woken? | a monitor with 2 readers; one that may die beside another; one whose name another takes | holds |

### What they show

* **insert_race.** `UniqueNeighbor`: a list never has two slots for one
  neighbour.  `SlotLock`: two threads are never both inside the update of a slot,
  and the word says empty exactly while one is.  `ConsistentAtRest`: when all
  threads are done, counters, high water marks and the edge type array agree with
  the slots and no word is left empty.  `OnlyAdds`: no step takes a direction of
  an edge away.
* **insert_refinement.** `ImplementsAtomic`: for every thread, a call is one step
  of `AtomicAdjacency` between its call and its return; no increment and no
  direction is lost, on a list with a slot never used or one a deletion left, with the
  weight and timestamps it had.  `Returns`: every call ends.
* **remove_racing.** `EndsAgree`: an edge that had both ends or none, and has one,
  is in the hands of one thread that holds both its slots.
  `ImplementsAtomicRemoval`: of threads that remove the same edge exactly one is
  told so, and an edge seen missing is missing.  `CountsOK`: the counters are never
  negative, agree with the slots at the end, and every lock is given back, with
  half edges as well.
* **server_window.** `NoStaleEdge`: nothing outlives the window.  `BatchesOK`: every
  edge of a batch has both ends after it, whatever the window had left of it.
  `RecordedDeletionsHappen`: the deletions told to the algorithms are those made.
  `MatchesReference`: with one thread, and in snapshots, edges, stamps, degrees and
  the edge count are the reference implementation's after every step; without a
  window, any order of insertion gives consistent ends and the reference's weights.
  `SnapshotLoads`: a snapshot has one slot per neighbour, consistent degrees and the
  weights that were kept.
* **bench_trials.** `AlgsSeePrefix`: an algorithm in batch b sees batches 0 to b,
  in every mode and trial.  `SameDataEachAlgTrial`: repeated trials start from the
  data of the last epoch.  `EpochsOK`: the distance of two epochs is batches / epochs rounded one
  way or the other, and no epoch is lost when epochs divide batches.
* **names_shared.** `ImplementsAtomicNames`: a name has one number from some point
  of its creation on, which every later call returns; a call fails only for want of
  room or an entry, and `*out` is then -1 or INT64_MAX and never unset.  This is so up
  to the step that draws a number beyond the last.  `ReturnsUnlessAbandoned`: a call waits
  for ever only at an entry that a thread left empty (202, 214) or after such an overflow.
  `TableOK`: the numbers exceed `max_types` by less than the number of threads, strings
  and places stay within the table, and a table that has not overflowed has the same
  numbers when it is saved and loaded.
* **batch_ranges.** `ListsOK`: no neighbour ever gets two slots, and no update is
  pending after its pass, as the code asserts.  `AddsUp`: the lists hold what the
  updates one by one would have left, both ends of each edge although one may have
  been missing.  `NewEdgesReported`: in a directed batch no update of an edge whose last end
  was there is reported as new, and exactly one of any other, unless the slot is in use
  for the reverse: then at least one.  All of these of any two vertices whose marks are
  not mixed, and whatever becomes of mixed edges beside them.  `Terminates`: the
  batch ends.
* **queue_streams.** `QueueOK`: every batch received is in one place, and the queue is
  longer than its limit by less than the number of streams.  `InStreamOrder`: the
  batches of a stream are processed in order.  `EveryBatchHandled`: each is
  processed or dropped, unless a deleted one was used before.
* **alg_rounds.** `RegistryOK`: the tree holds every registered algorithm once, at its
  level, and nothing else, but for those that a registration below them cut off and
  for names that two threads registered at once, which do others no harm; and no
  count the loop has read is beyond the tree it is used on.  `ComputesOnStaticGraph`: while an algorithm computes the graph is
  the one its phase promises.  `DependenciesFirst`: no algorithm begins a phase
  before its dependencies have ended it.  `OnlyTheDeadFail`: the server and the
  processes never disagree about the next call.  `EveryBatchSeen`: nobody misses a
  batch who is not cut off or contested.  `BatchFinishes`: no death and no registration stops the loop.
* **monitor_update.** `ReadersOK`: a reader that waits is counted or has a token, and
  a mapping stays while it is read.  `StaticWhileMapped`: from the reply to
  BEGIN_UPDATE to END_UPDATE the graph does not change and is the one announced.
  `EveryBatchSeen`: every live monitor counted at the start has the batch at the end.
  Both hold unless a monitor that comes back shifts the others under the loop.
  `PassesEnd`: no death stops the loop.  `WaitReturns`: a reader gets a token as long as
  batches come, although others may take the one meant for it.

### Bounds, and why they are enough

* Three threads make every pair of insertions race while a third appends a
  block; two blocks of two slots have a full block, a free slot, a hole before and
  behind the edge, and growth.  The refinement needs a second update per thread,
  which finds what the first left; there two threads keep the run small.
  `MaxBlocks` is never reached by a thread that needs a further block: the pool's
  exhaustion, which aborts the process, is not modelled.
* Removals of opposite edges need three vertices and three threads for a cycle of
  waiting to have an outsider; the second half of a pair meets what other threads
  left.
* Six edges in two or three batches let an edge be inserted, half expire, expire
  and return; the timestamps have a repetition, and the windows include 0 and the
  width of the dataset.  All assignments of the six edges to the pairs
  are tried; two of the pairs are opposite, for the merge of a snapshot.
* Workloads up to 24 batches include the smallest that loses an epoch (9
  batches, 7 epochs) and workloads that divide.
* In `alg_rounds` the dependent algorithm makes a second level, and the two it
  depends on make a level with an index to shift.  Two batches let one register
  in, or die in, any phase of the first and be met by the second; two starts let
  a process replace its dead predecessor, and one that was cut off come back.  Three
  processes of one name are two that race and one that finds, or deletes, what they left.
* Four names and two types: a third creation finds the table full, or is past the check
  when the second draws the last number, and the fourth meets what it overwrote.
  All at one entry, or one at the first and one at the second, make probing meet a taken
  entry, wrap around, and meet the entry that the overflow overwrites; strings that leave no room
  for the last one make a creation fail after it took the entry.
* In `batch_ranges` six updates of a vertex make two ranges that share an edge; the
  lists have a free slot, a hole before and behind a live edge, a full block, the
  edge in the other direction, one end of an edge, and a neighbour in two slots;
  the marked updates come first of their edge, or alone.
* Two streams exceed a queue for one batch together; two batches each have a last
  and one before it.
* In `monitor_update` two readers of a process can take each other's token, and a batch
  number modulo two tells a mapping from the one before.  All three kinds of
  monitors at once have 2 million states; their safety was checked once, by hand,
  and is not among the runs.
* Symmetry is used for threads only, in runs without liveness or refinement.

### Fairness

`insert_refinement` and the removal runs assume weak fairness of each thread's
own steps (not of `Call`: nobody has to call).  A thread of an OpenMP loop is
scheduled by the operating system until its iteration ends.  Weak fairness of a
step that waits for a full word does not promise that it gets it: the word may
be full and empty in turn.  That `Returns` holds all the same rests on the number
of calls being finite, as in a batch.  `AlgServer` assumes weak fairness of the
process loop, of connection threads, and of the calls and answers of an algorithm
that lives: its computations end.  Nobody has to connect or to die.  Without the
fairness of `Send` the loop stops for ever, because no timeout expires.
`Names`, `BatchInsert` and `BatchServer` assume weak fairness of the steps of threads
inside a call, of the threads of a loop, and of the stream threads and the loop.
`Monitor` assumes that batches keep coming, weak fairness of the loop, and strong
fairness of handler threads and readers, which matters at the write lock and at
the semaphore: a thread that asks again and again gets them.  POSIX leaves the
first open, and the default lock of the library prefers readers, so that
`WaitReturns` rests on readers that are not always in the lock.
`StingerServer` and `Benchmark` have
no fairness: they are loops with one thread of control, and their properties are
about what is true when they get somewhere.

## 4. Where code and documentation disagree

The violation runs, with the lines they quote in `PROJECT.json`:

* `server_mirror`: `deleteOlderThan` looks at timeRecent, which only an outgoing
  update sets.  The two ends of an edge expire apart, and
  `stinger_consistency_check` fails on the result.
* `snapshot_weights`: of two opposite edges each is loaded with the other's weight
  and timestamp (`stinger_graph.cpp` 194).

Seen while modelling, without a run of their own:

* An insertion that loses the race for its slot to the reverse edge adds its own
  direction, which is new, and returns 0, as if it had found it
  (`core/src/stinger.c` 1245; the comment at 1287 says 1).
* Two insertions of one edge may both return 1: the direction is read before the
  lock (1194).
* timeFirst is restored to its old value after a raced update (1244).
* `stinger_remove_edge` returns -1 for an edge that is not there (1515), its
  comment says 0 (1458).
* An edge whose slot kept IN has its old weight when it is inserted again after
  its OUT direction expired (1075); the reference implementation starts anew.
* The sort mode presort runs no trial (`util/benchmark.h` 225); the documentation
  lists it (`README.md` 91).
* Nothing resets the data of the algorithms between trials
  (`util/benchmark.h` 222); an algorithm of the second trial starts from the last
  epoch of the first.
* An algorithm with a missing dependency gets no answer at all
  (`lib/stinger/src/server/src/alg_handling.cpp` 153).
* An algorithm that dies unnoticed keeps its name: its successor is refused until
  the loop has read the end of its stream, which it does only during a batch.
* timeRecent is what the last thread wrote (`core/src/stinger.c` 1129), so two
  insertions of an edge in one batch can leave the older stamp, and the edge is
  deleted early; the reference keeps the newest.
* Removing a self-loop waits for a lock the caller holds (1530).
* Rounding of doubles loses an epoch of 9 batches and 7 epochs
  (`util/benchmark.cc` 111), which the assertion at the end of the run catches.
* `add_alg` resizes the tree of algorithms to the level of the new one, which may be
  a cut (`net/src/stinger_server_state.cpp` 295): algorithms on higher levels stay
  registered and wait for ever.  A scenario of `alg_rounds` has this between batches;
  during one, the loop indexes a level or an algorithm that is no more.
* Two processes that register one name at once are both told that they succeeded
  (`alg_handling.cpp` 81-162).  Both are served, but the map knows the second only: a third
  that comes when that one has died takes the first, which lives, from the tree, and leaves
  the second there, which it frees (`delete_alg`'s loop passes over the entry behind
  each one it erases).
* `writeef(&from_name + index, ...)` (`core/src/stinger_names.c` 214) fills a word on
  the stack; two threads that create colliding names leave an entry empty.
  An exhausted string area does so too (202).
* The number of types is compared with its limit before it is raised (180, 208), so that
  threads exceed it, by less than their number; `to_name[max_types]` is the first entry
  of `from_name`, and what it held is lost (209).
* Names are compared over the length of the one looked for, so that it also
  matches a longer one it is a prefix of.
* `stinger_names_create_type` returns -1 without setting `*out` when it has tried
  every entry, and INT64_MAX in it when the strings are full, which `batch.cpp` takes
  for a vertex.
* `stinger_names_resize` of a table that is not full creates the empty name for the
  types not in use.
* `handle_stream` reads `keep_alive` of a batch after it enqueued it, and deletes the
  last one of a stream while it is in the queue (`batch_server.cpp` 66-67), against
  the comment at `stinger_server_state.cpp` 156.  After a failure to receive, the batch
  is never deleted.
* Two ranges that meet in a slot with the other direction may both report the edge
  as new, each having read the slot before it is locked
  (`core/inc/stinger_batch_insert.h` 296); the test expects one to
  (`stinger_batch_test.cpp` 227-233).  `NewEdgesReported` promises one where the slot
  is not so shared.
* An undirected batch with an edge and its reverse reports neither as new (547).
* An update that is marked -1, which "Prevents batch update from trying to insert
  this edge" (`batch.cpp` 141), is sorted among the others and inserted if it lies
  behind the first pending one of its edge (`stinger_batch_insert.h` 212).  If it is
  the first of its edge, the pending ones behind it are taken for done (170), the
  edge's slot is passed over, and the edge may get a second one: without `Unmixed`,
  TLC finds `ListsOK` violated by `DefaultCases`.  A name that cannot be resolved leaves the
  vertex of its update at the default of the message, 0 or 1 (`batch.cpp` 84, 99), so
  that such an update may have an edge in common with others.
* `sync` wakes readers before `update_algs` publishes the mapping
  (`net/src/mon_handling.cpp` 123): a reader that is quick gets the one before.
* After END_UPDATE readers use a mapping of a graph the next batch changes.
* `has_mon`, `delete_mon` and `add_mon` are three holds of the lock (`handle_mon`): two
  monitors of one name can both be in the list, of which a third then frees the
  second and erases the first.  The loop's index is not moved when a monitor before
  it is erased.
* The error reply to an unexpected message in the END_UPDATE pass is made and not
  sent (`alg_handling.cpp` 690).
* RMAT timestamps are positions, so that with a window of 0 the threshold is
  beyond every edge of its batch and the filter leaves nothing.

## 5. What is proved

Every theorem is about all values of the constants that satisfy the assumption of
its module, which says what the code's types and callers ensure: sets of threads,
vertices or algorithms are finite, sizes are positive, identifiers are distinct from
the markers beside them.  An invariant that a run checks is seldom inductive; the
inductive one each proof finds is a conjunction of named parts, checked with TLC
before it was proved, and there is one lemma per action.

### EdgeInsert_proofs

`ConstantsAssumption` is the only assumption: any set of threads, any block size,
any pool, any updates and any initial lists without a repeated neighbour.

* `TypeCorrect`, `TypeInvariant`: the type invariant.  By itself it is not
  inductive, because a thread indexes slots by its cursor: `TypeInv` adds
  `CursorOK`, that cursors and links are blocks already taken from the pool.
* `SlotLockHolds`: mutual exclusion of the updates of a slot.  `SlotLock` is
  inductive given `TypeInv`: a thread enters by taking the weight out of a full
  word, so nobody else is inside; only the thread inside writes the word.
* `LinkInvariant`: the chain is the blocks in the order they were taken, a block
  that is not linked yet is known to one thread and holds its edge only, untouched
  blocks are as `new_eb` leaves them, and one thread is at a link at a time.
* `SlotInvariant`, `UniqueNeighborHolds`: two threads that insert the same neighbour
  never give it two slots, although both search without a lock.  The argument: a
  slot with a neighbour keeps it; slots are filled in the order of the list; a
  thread in its second walk has passed filled slots only, all of other neighbours,
  and holes before the edge's slot were compared in its first walk.  So when a thread
  claims a slot and finds it free under timeFirst, whoever inserted the same
  neighbour meanwhile did it at a slot this thread has not passed, and every such slot
  lies behind the one it claims, which that other thread would have passed free.
* `OnlyAddsHolds`: no step takes back a neighbour, a direction, a high water mark
  or a link, which searching without a lock rests on.

* `CountInvariant`, `ConsistentAtRestHolds`: what `stinger_consistency_check` looks at
  when no update is under way.  `ConsistentAtRest` says nothing while threads run,
  so `CountInv` says what the counters are then: a degree is the number of slots with
  that direction less those a thread has written and not counted yet (`InHand`), the
  same for the edges of a block; the array of blocks lists every block but one that a
  thread is about to put there.  Every empty word has a thread that refills it
  with an integer: the weight by `SlotLock`, timeFirst by the claim, which the
  thread gives back even if another one has written the word in between, the stamp
  by the thread that holds it.
* `UpdateInvariant`, `UpdatesAreAtomic`: the safety part of the refinement, for any
  number of threads and updates.  The abstract list shows a slot whose weight is
  in it as it is, and one whose weight a thread has taken as that thread found it
  before its direction is in place, and as the thread will leave it afterwards (`View`,
  `Held`).  `UpdateInv` says that this is what the thread leaves: SET for a new
  edge, else the mode of the call.  So `UpdWrite` and `UpdDir` are the abstract update,
  the first and the last step of a call its begin and end, and every other step
  changes nothing that is shown (`ViewKept`).  That only one slot shows a vertex is
  `UniqueNeighbor`; that no other thread's slot is touched is `SlotLock`.
  An update in the direction IN sets no weight.  If it makes the edge, the edge has the
  weight its slot had: 0 in a new one, and in one that a deletion left the weight of
  the deleted edge.  The proof does not go through without this, and so the promise
  says it (`Unset`).

### EdgeRemove_proofs

`RemovalAssumption` is the assumption about constants.  The invariant has three
parts.  `ControlType`: program counters and local variables.  `LocksOK`: the slots a
thread holds follow from its position (`Held`), the locked slots are those held, two
threads hold disjoint slots, and a thread past its checks has seen the directions it
is about to take and they are still there.  `HalfRemoved`: an edge with one end is
the edge of the thread between its two updates.  The second is what makes the third
inductive: a direction can only be taken by a thread that holds the slot.

* `EndsAlwaysAgree`: no step of any number of removals, from any initial graph, is
  seen with one end of an edge gone except by the thread that holds both slots,
  unless some initial graph has one end of that edge only.
* `CountsAreOK`: counters that are exact are kept exact, because a direction that is
  taken is there (`LocksOK`); so none falls below zero, which `TypeOK` alone could not
  show.  Nobody holds a lock at rest, for every locked slot has a thread that holds it.
* `RemovalsAreAtomic`: the safety part of the refinement.  `RemoveForward` removes
  the abstract edge; a search that misses its side, with or without the lock, is
  the failing removal; every other step leaves the abstract state alone or begins or
  ends a call.  That a removal past its checks succeeds rests on `LocksOK`.

### Benchmark_proofs

`BenchInvariant` says how many epochs have run after each batch, and which data the
two sets of algorithm data hold at each step.  The number of epochs due never falls
and never exceeds the number asked for, whichever of the quotients that may be rounded
the wrong way are: the theorems do not depend on which quotients doubles get wrong.

* `TypeCorrect`: with the bound of the assertion, `epoch <= num_epochs`.
* `AlgsSeePrefixHolds`, `SameDataHolds`: what an algorithm runs on, and that repeated
  trials of an epoch start from the same data.
* `EpochInvariant`, `EpochsOKHolds`: algorithms run as often as asked, evenly spaced.
  The invariant says that epoch i ran at the batch where `EpochsDue` reaches i
  (`EpochInv`).  In exact arithmetic that is the first n with n * epochs >= i * batches;
  where the double falls short, it is the one after (`DueRange`).  Two epochs in
  a row are therefore the quotient of batches by epochs apart, rounded down or up
  (`Gap`); where it is whole, no double falls short, and the last batch has the
  last epoch (`DueAll`).

### BatchServer_proofs

`LineInvariant`: for every stream, the batches handled, in the hands of the loop,
in the queue and yet to come are one line of increasing numbers, from which nothing
but `Push` onto a long queue removes one.  It holds until the loop uses a batch its
stream has deleted (`handle_stream`, see section 4), and the properties say so.  A
second part bounds the queue together with the streams that have looked at its length
and are about to push.

* `QueueHolds`, `InStreamOrderHolds`.

### Monitor_proofs

* `ReadersHold`: by a count of the readers that are between two of their steps: those
  that wait are the counted ones and those a token is under way to.
* `PassInvariant`: where the loop stands, the state of each monitor, the messages in
  the sockets and the client's mapping agree.  It is inductive while no monitor was
  erased from before the loop's position (`~shifted`) and the loop has not crashed on
  the list, the condition under which the run checks the two properties.
* `StaticWhileMappedHolds`, `EveryBatchSeenHolds` follow from it.

### AlgServer_proofs

* `ServerInvariant`, `TreeHolds`, `OnlyTheDeadFailHolds`, in every scenario, with cuts,
  restarts during a batch and names that several threads register at once: the map and
  the tree are the registry but for what was cut off and contested, which are
  kept apart; the state in the registry of each algorithm says which call is awaited, and its
  process is at that call or its answer is under way (`Awaited`, `Coming`,
  `Answered`), unless its name is contested.  Of a contested name the invariant has the
  types only, and that an entry of another name is not touched by what happens to it:
  `delete_alg` erases by name.
* `PhaseInvariant`, `StaticGraphHolds`, in *orderly* scenarios: names are distinct, and
  registrations happen between batches only, where they may cut and delete, or none
  registers twice and one with dependencies depends on, or is a dependency of, every
  other, so that the tree only grows while the loop runs.  The invariant says
  that an algorithm in a phase is one the loop will still come to in this pass.
* `RegistryHolds`: `TreeHolds` in every scenario, and in orderly ones that the loop's
  counts stay within the tree, which follows from `PhaseInvariant`.
* `RegistryInvariant`, `DependenciesFirstHolds`, `EveryBatchSeenHolds`, in *tidy*
  scenarios: distinct names, and registrations between batches and no dependencies, or
  the second kind above.  The invariant says that nothing is cut off, and that a
  registered algorithm that is not ahead of the loop has had its turn or joined late.

The restrictions are needed: a cut under the loop makes its counts wrong (section 4),
an algorithm that registers again during a pass is taken out from before the loop's
index, so that the next one is passed over, and one that is cut off is never served.
Of the scenarios of `alg_rounds`, `Dependent` and `Restarting` are tidy, `Cutting` is
orderly, and `OneName` is neither: there TLC alone checks the other properties.

### BatchInsert_proofs

Two assumptions are about constants.  `BatchInsertAssumption`: types, and that no slot
above a high water mark is in use, as every other operation leaves the lists (`SlotList`,
`EdgeInsert`).  `FreeAssumption`: free slots have no direction, for these are bits of
the neighbour; only the second invariant uses it.  Nothing is assumed of the marks, of
the ends of edges, or of how often a neighbour is in a list: the theorems are about
vertices that are `Unmixed`, and say nothing of a pair that is not.

* `InvAlways`, `ListsHold`.  `ThreadOK` says of a thread, by its label: a place its
  first walk has passed holds no neighbour it still wants, unless every slot
  before that place was filled; the places its second walk has passed are all filled,
  and with other neighbours; and in either case, where a neighbour it wants is in
  the list of the second walk, no slot in front is free.  So a free slot that the walk
  comes to, and still finds free under timeFirst, is one whose neighbour is in no other
  slot.  `OthersKeep` says that this outlasts steps of other threads: they fill
  slots only in the order of the list (`Fills`), never change a neighbour, and make
  only updates of their own ranges.  That the ranges are apart and leave out no update
  is arithmetic of `\div` (`Parts`, `Splits`), that the updates of an edge are in a row
  follows from the order (`SortedPass`), and what is pending when a pass begins from
  the passes before it (`PendingAgain`).
* `AddsUpHolds`, `NewEdgesReportedHolds`.  A second invariant (`DoneOK`, `HandOK`) counts
  what the passes have stored.  Each update has two ends or four, and each end its pass
  (`Turn`); `Made` has the ends made so far.  A direction is in a slot exactly if it was
  before or an end of it is made, the weight of a slot is that of its start and the
  ends made (or of one of them), a free slot has a weight that a free slot had, one of the
  updates of an edge is reported as new exactly if its last end was not there (`ReportsOK`),
  and no second one unless the edge's reverse may have the slot (`OnceOK`), and a thread with a slot in hand knows
  its direction.  `ListsOK` is needed throughout: as no unmixed neighbour has two slots, a
  store changes what is known of one edge (`ReplacedSlot`, `SlotChange`).  A new pass
  makes no end and undoes none, for what was pending is settled and what is cleared is
  pending (`MadeSame`).  The sum over a set that gains a row of updates is the
  lemma `SumRow`: `SumFunctionOnSet` is defined by recursion over sets, and its values
  are found by the least set without them (`LeastSet`).

### StingerServer_proofs

`DatasetAssumption` is the only assumption: datasets of any length from one batch on,
with non-decreasing timestamps and no edge from a vertex to itself, any finite set
of vertices, any windows, numbers of threads and sort modes.  The graph keeps lists,
with slots that two edges share and deletions left free, and the reference keeps
edges.  Four invariants, each with those before it, relate them.

* `IInv`: types, where the loops stand, that the counters of each vertex are those of its
  slots (`UpdatedOK`), that what the loop of insertions has handed out and no thread
  has in its hands is in both lists (`BatchDone`), that a snapshot is
  the lists of the edges it was built from (`LoadedOK`), and that what
  `before_batch` recorded is still what expires (`RecordedOK`).  From it follow
  `BatchesOKHolds`, `SnapshotLoadsHolds` and `RecordedDeletionsHappenHolds`.
* `Paired`, without deletions: an edge in one of its lists is in the other one too, or
  a thread is about to put it there.  When no thread is at work both ends
  count the same edges: `InsertionsKeepConsistent`, for every order of the
  insertions.
* `RefInv`: the edge of an outgoing slot is in the reference, and no older there, or
  was handed out in the batch under way.  Timestamps are needed: the reference deletes
  an edge by its own, the graph by the slot's, which may be newer than that of the
  direction deleted.  A snapshot is from entries the window does not exclude, and
  the reference has every such entry (`PrefixCovered`).  `NoStaleEdgeHolds` follows.
* `Mirror`, the other direction: with one thread, or in a snapshot, the graph has every
  edge of the reference, no older (`HeldOK`, `SnapshotHeld`), and without deletions
  the weight of a slot is the reference's with the sum of what the batch under way
  has added so far, in any order (`WeightsOK`, `Applied`).  With `RefInv` the two
  graphs are the same, which is `MatchesReferenceHolds`.

The reference's batch and `edges_up_to` are recursive functions.  That they have values,
and that these unfold, is proved from the least number for which they would not
(`AfterExists`, `SumExists`): the library's induction theorems cannot be used, but
that the natural numbers are well ordered can.

### Only model-checked

* Liveness under fairness, and so the liveness part of the refinements: out of the
  proof system's reach.
* `LoadRestoresTypes` of `Names`: what a fold over the saved names computes; and
  the type part of `TableOK`, which was not attempted.

## 6. What is not modelled

Input and output (parsers, sockets, protocol buffers, hooks), the numerical
algorithms, vendored libraries (more than nine tenths of the repository's lines),
and the MPI proxy, whose ranks proceed in lock step.  Save, load and shared memory
of the graph: files written and read by one thread at rest, without recovery.
Exhaustion of memory, which ends the process.  The JSON-RPC server and other clients
under `clients/`: readers of a mapping, as in `Monitor`, with numerical work.
`stinger_names_resize` and the removal of names, which no program calls while
threads run.  `PROJECT.json` has each component with its reason.

## 7. Plan

The order in which the modules were written: `EdgeInsert`, `AtomicAdjacency` and the
refinement; `EdgeRemove` and `AtomicRemoval`; `SlotList`, `ReferenceGraph`,
`StingerServer`; `Benchmark`; `AlgServer`; the proofs; `Names` and `AtomicNames`;
`BatchServer`; `BatchInsert`; snapshots in `StingerServer`; `Monitor`.

What is left to prove is under "Only model-checked".
