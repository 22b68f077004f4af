----------------------------- MODULE BatchInsert -----------------------------
(***************************************************************************)
(* The insertion of a batch by stinger_batch_insert.h: the updates of one  *)
(* vertex are sorted, and each range of them is done by one thread in one  *)
(* walk over the vertex's list.  A vertex with many updates has several    *)
(* ranges, which may hold updates of the same edge.                        *)
(*                                                                         *)
(* A thread compares neighbours without a lock, takes a slot it finds free *)
(* under timeFirst, and appends a block under the link of the last one.    *)
(* Each update of a slot is a step of its own here, for it locks the       *)
(* weight (EdgeInsert has its accesses, the degrees and the stamps); the   *)
(* claim of a slot with the first update in it is one step, for others see *)
(* the slot as it was or wait for timeFirst; so is a new block, which only *)
(* its thread knows until it is linked.  One edge type is in use, and the  *)
(* pool has the blocks asked for: when it has not, the process ends.       *)
(***************************************************************************)
EXTENDS SlotList, SequencesExt

CONSTANTS
  Threads,     \* the OpenMP threads
  Vertices,
  EBSize,      \* STINGER_EDGEBLOCKSIZE
  Cases        \* the batches, with the lists they meet and the way they are inserted

Operations == {"SET", "INCR"}
Presets == {-1, 0, 1}      \* the result codes a caller may hand in; 0 is pending

Slots == [neighbor : Vertices \cup {Blank}, dirs : SUBSET {"OUT", "IN"},
          weight : Int, timeRecent : Int]

Updates == [src : Vertices, dst : Vertices, weight : Int, ts : Int, result : Presets]

Places(g, v) == (DOMAIN g[v]) \X (1..EBSize)
At(g, v, p) == g[v][p[1]].slot[p[2]]

\* No slot above the high water mark of a block is in use.
BlocksOK(g, v) ==
  \A b \in DOMAIN g[v] :
    /\ g[v][b].high \in 0..EBSize
    /\ \A k \in 1..EBSize :
         k > g[v][b].high => g[v][b].slot[k].neighbor = Blank

\* Neighbour n has one slot at most in the list of vertex v.
OneSlot(g, v, n) ==
  \A p, q \in Places(g, v) :
    At(g, v, p).neighbor = n /\ At(g, v, q).neighbor = n => p = q

SlotsAt(g, v) == UNION {{g[v][b].slot[k] : k \in 1..EBSize} : b \in DOMAIN g[v]}

\* The slot of neighbour n in the lists g of vertex v, or an unused one.
SlotIn(g, v, n) ==
  LET here == {s \in SlotsAt(g, v) : s.neighbor = n} IN
  IF here = {} THEN NewSlot ELSE CHOOSE s \in here : TRUE

IsEdge(g, v, n) == "OUT" \in SlotIn(g, v, n).dirs

ASSUME BatchInsertAssumption ==
  /\ EBSize \in Nat \ {0} /\ IsFiniteSet(Threads) /\ Threads # {}
  /\ Vertices \subseteq Nat
  /\ \A c \in Cases :
       /\ c.operation \in Operations /\ c.directed \in BOOLEAN
       /\ c.batch \in Seq(Updates)
       /\ c.list \in [Vertices -> Seq([high : 0..EBSize, slot : [1..EBSize -> Slots]])]
       /\ \A v \in Vertices : BlocksOK(c.list, v)

\* A free slot has no direction, for these are bits of the neighbour.
ASSUME FreeAssumption ==
  \A c \in Cases : \A v \in Vertices : \A s \in SlotsAt(c.list, v) :
    s.neighbor = Blank => s.dirs = {}

VARIABLES
  input,       \* the batch, its operation, its direction and the lists before it
  pass,        \* the number of the parallel loop under way, or of the last one
  order,       \* the updates of this pass, sorted
  result,      \* result[u]: the result field of update u
  todo,        \* the ranges no thread has taken
  list,        \* list[v]: the blocks of vertex v
  pc, frame    \* each thread's position and local variables

vars == <<input, pass, order, result, todo, list, pc, frame>>

PENDING == 0
ADDED == 11
UPDATED == 10

Idle == [v |-> 0, last |-> 0, first |-> 0, tmp |-> 0, k |-> 0, endk |-> 0,
         u |-> 0, res |-> 0, mode |-> "SET", scan |-> "find"]

EmptyBlock == [high |-> 0, slot |-> [k \in 1..EBSize |-> NewSlot]]

Ids == DOMAIN input.batch
Upd(u) == input.batch[u]

Init ==
  /\ input \in Cases
  /\ pass = 0 /\ order = <<>> /\ todo = {}
  /\ result = [u \in Ids |-> Upd(u).result]
  /\ list = input.list
  /\ pc = [t \in Threads |-> "idle"] /\ frame = [t \in Threads |-> Idle]

-----------------------------------------------------------------------------
(* The passes: in each one half of the batch, at one end of its edges.     *)

\* Edges to a larger vertex, and the others.
Half(h) == {u \in Ids : (Upd(u).src < Upd(u).dst) <=> (h = "up")}

Pass(h, d, at) == [half |-> h, dir |-> d, at |-> at]

\* The smaller end of an edge is updated first.
Directed == <<Pass("up", "OUT", "src"), Pass("up", "IN", "dst"),
              Pass("down", "IN", "dst"), Pass("down", "OUT", "src")>>
Backwards == <<Pass("up", "OUT", "dst"), Pass("up", "IN", "src"),
               Pass("down", "IN", "src"), Pass("down", "OUT", "dst")>>
Passes == IF input.directed THEN Directed ELSE Directed \o Backwards

Source(u) == IF Passes[pass].at = "src" THEN Upd(u).src ELSE Upd(u).dst
Neighbor(u) == IF Passes[pass].at = "src" THEN Upd(u).dst ELSE Upd(u).src
Dir == Passes[pass].dir

\* What the caller preset stays.
Clear(ids) ==
  [u \in Ids |-> IF u \in ids /\ result[u] \in {ADDED, UPDATED} THEN PENDING ELSE result[u]]

\* The updates made pending again before pass p.
Cleared(p) == IF p = 5 THEN Ids
              ELSE IF p % 2 = 0 THEN Half(Passes[p].half) ELSE {}

\* By source, neighbour and time; equal ones in any order.
Before(p, u, v) ==
  LET key(x) == IF Passes[p].at = "src" THEN <<Upd(x).src, Upd(x).dst, Upd(x).ts>>
                ELSE <<Upd(x).dst, Upd(x).src, Upd(x).ts>>
      a == key(u)  b == key(v) IN
  \E i \in 1..3 : a[i] < b[i] /\ \A j \in 1..i - 1 : a[j] = b[j]

Sorted(p) ==
  {s \in SetToSeqs(Half(Passes[p].half)) :
     \A i, j \in DOMAIN s : i < j => ~Before(p, s[j], s[i])}

\* The updates first..last of one source; the last range takes the remainder.
Split(first, last) ==
  LET n == Cardinality(Threads)
      per == (last - first + 1) \div n IN
  IF per < n THEN {<<first, last>>}
  ELSE {<<first + i * per, IF i = n - 1 THEN last ELSE first + (i + 1) * per - 1>> :
          i \in 0..n - 1}

Ranges(p, s) ==
  LET source(i) == IF Passes[p].at = "src" THEN Upd(s[i]).src ELSE Upd(s[i]).dst
      same(i) == {j \in DOMAIN s : source(j) = source(i)} IN
  UNION {Split(Min(same(i)), Max(same(i))) : i \in DOMAIN s}

AllIdle == todo = {} /\ \A t \in Threads : pc[t] = "idle"

\* do_batch_update, up to its parallel loop.
BeginPass ==
  /\ AllIdle /\ pass < Len(Passes)
  /\ pass' = pass + 1
  /\ result' = Clear(Cleared(pass'))
  /\ order' \in Sorted(pass')
  /\ todo' = Ranges(pass', order')
  /\ UNCHANGED <<input, list, pc, frame>>

Done == AllIdle /\ pass = Len(Passes)

\* What the caller gets.
Remapped(u) == IF result[u] \in {ADDED, UPDATED} THEN result[u] - 10 ELSE result[u]

-----------------------------------------------------------------------------
(* A thread and its range.                                                 *)

Blocks(t) == list[frame[t].v]
Block(t) == Blocks(t)[frame[t].tmp]
Slot(t) == Block(t).slot[frame[t].k]
None == 0

\* The first update of the range that is pending under the results res.
NextUpdate(t, res) ==
  LET todo_t == {i \in frame[t].first..frame[t].last : res[order[i]] = PENDING} IN
  IF todo_t = {} THEN None ELSE Min(todo_t)

\* find_updates from the next pending update on: none if the first is not pending.
FindUpdates(t, n) ==
  LET next == NextUpdate(t, result)
      same == {i \in next..frame[t].last : Neighbor(order[i]) = n} IN
  IF next = None \/ same = {} THEN None
  ELSE IF result[order[Min(same)]] = PENDING THEN Min(same) ELSE None

\* Variant of Result: a slot that is in use counts as the edge.
ResultInUse(slot) == UPDATED

\* A slot in use for the other direction only: the edge is new.
Result(slot) == IF Dir \in slot.dirs THEN UPDATED ELSE ADDED

Write(slot, u, mode) ==
  Written(slot, Neighbor(u), Dir,
          IF mode = "SET" THEN Upd(u).weight ELSE slot.weight + Upd(u).weight, Upd(u).ts)

WriteBlock(block, k, u, mode) ==
  [high |-> Max({block.high, k}), slot |-> [block.slot EXCEPT ![k] = Write(@, u, mode)]]

\* Are there more updates of the same neighbour behind position i?
MoreAfter(t, i) == i < frame[t].last /\ Neighbor(order[i + 1]) = Neighbor(order[i])

TakeRange(t) ==
  /\ pc[t] = "idle"
  /\ \E r \in todo :
       LET v == Source(order[r[1]]) IN
       /\ todo' = todo \ {r}
       /\ frame' = [frame EXCEPT ![t] = [Idle EXCEPT !.v = v, !.first = r[1], !.last = r[2]]]
       /\ pc' = [pc EXCEPT ![t] = IF list[v] = <<>> THEN "seek_block" ELSE "find_block"]
  /\ UNCHANGED <<input, pass, order, result, list>>

Goto(t, l) == pc' = [pc EXCEPT ![t] = l]

EnterBlock(t, b) ==
  frame' = [frame EXCEPT ![t].tmp = b, ![t].k = 1, ![t].endk = Blocks(t)[b].high]

\* The slot is the one of the updates from position u on.
StartUpdates(t, u, scan) ==
  /\ frame' = [frame EXCEPT ![t].u = u, ![t].res = Result(Slot(t)),
                            ![t].mode = input.operation, ![t].scan = scan]
  /\ Goto(t, "update")

NextSlot(t) == frame' = [frame EXCEPT ![t].k = @ + 1]

\* First walk: edges that are there.
FindBlock(t) ==
  /\ pc[t] = "find_block"
  /\ EnterBlock(t, frame[t].tmp + 1)
  /\ Goto(t, "find")
  /\ UNCHANGED <<input, pass, order, result, todo, list>>

FindScan(t) ==
  /\ pc[t] = "find" /\ frame[t].k <= frame[t].endk
  /\ LET u == FindUpdates(t, Slot(t).neighbor) IN
     IF u # None THEN StartUpdates(t, u, "find") ELSE NextSlot(t) /\ UNCHANGED pc
  /\ UNCHANGED <<input, pass, order, result, todo, list>>

FindNext(t) ==
  /\ pc[t] = "find" /\ frame[t].k > frame[t].endk
  /\ IF frame[t].tmp < Len(Blocks(t))
     THEN Goto(t, "find_block") /\ UNCHANGED frame
     ELSE Goto(t, "seek_block") /\ frame' = [frame EXCEPT ![t].tmp = 0]
  /\ UNCHANGED <<input, pass, order, result, todo, list>>

\* Second walk: edges that were added meanwhile, and free slots.
SeekBlock(t) ==
  /\ pc[t] = "seek_block"
  /\ \/ /\ NextUpdate(t, result) = None
        /\ Goto(t, "idle")
        /\ frame' = [frame EXCEPT ![t] = Idle]
     \/ /\ NextUpdate(t, result) # None /\ frame[t].tmp < Len(Blocks(t))
        /\ Goto(t, "seek")
        /\ EnterBlock(t, frame[t].tmp + 1)
     \/ /\ NextUpdate(t, result) # None /\ frame[t].tmp = Len(Blocks(t))
        /\ Goto(t, "grow")
        /\ UNCHANGED frame
  /\ UNCHANGED <<input, pass, order, result, todo, list>>

SeekScan(t) ==
  LET n == Slot(t).neighbor
      u == IF frame[t].k <= frame[t].endk THEN FindUpdates(t, n) ELSE None IN
  /\ pc[t] = "seek" /\ frame[t].k <= EBSize
  /\ IF u # None THEN StartUpdates(t, u, "seek")
     ELSE IF n = Blank \/ frame[t].k > frame[t].endk THEN Goto(t, "claim") /\ UNCHANGED frame
     ELSE NextSlot(t) /\ UNCHANGED pc
  /\ UNCHANGED <<input, pass, order, result, todo, list>>

SeekNext(t) ==
  /\ pc[t] = "seek" /\ frame[t].k > EBSize
  /\ Goto(t, "seek_block")
  /\ UNCHANGED <<input, pass, order, result, todo, list, frame>>

\* Variant of DoUpdate: a new edge is set by every update, not by the first.
DoUpdateCreates(t, f) ==
  LET id == order[f.u] IN
  /\ list' = [list EXCEPT ![f.v][f.tmp] = WriteBlock(@, f.k, id, f.mode)]
  /\ result' = [result EXCEPT ![id] = f.res]
  /\ IF MoreAfter(t, f.u)
     THEN /\ Goto(t, "update")
          /\ frame' = [frame EXCEPT ![t] = [f EXCEPT !.u = @ + 1, !.res = UPDATED]]
     ELSE IF f.scan = "seek" /\ NextUpdate(t, result') = None
     THEN Goto(t, "idle") /\ frame' = [frame EXCEPT ![t] = Idle]
     ELSE Goto(t, f.scan) /\ frame' = [frame EXCEPT ![t] = [f EXCEPT !.k = @ + 1]]
  /\ UNCHANGED <<input, pass, order, todo>>

\* One round of do_edge_updates with the local variables f; the walk goes on
\* behind the last update of the neighbour, or ends if no update is pending.
DoUpdate(t, f) ==
  LET id == order[f.u] IN
  /\ list' = [list EXCEPT ![f.v][f.tmp] = WriteBlock(@, f.k, id, f.mode)]
  /\ result' = [result EXCEPT ![id] = f.res]
  /\ IF MoreAfter(t, f.u)
     THEN /\ Goto(t, "update")
          /\ frame' = [frame EXCEPT ![t] = [f EXCEPT !.u = @ + 1, !.res = UPDATED,
                                                     !.mode = input.operation]]
     ELSE IF f.scan = "seek" /\ NextUpdate(t, result') = None
     THEN Goto(t, "idle") /\ frame' = [frame EXCEPT ![t] = Idle]
     ELSE Goto(t, f.scan) /\ frame' = [frame EXCEPT ![t] = [f EXCEPT !.k = @ + 1]]
  /\ UNCHANGED <<input, pass, order, todo>>

UpdateSlot(t) == pc[t] = "update" /\ DoUpdate(t, frame[t])

\* Variant of Claim: the slot is taken as it was seen without the lock.
ClaimBlind(t) ==
  /\ pc[t] = "claim"
  /\ DoUpdate(t, [frame[t] EXCEPT !.endk = Block(t).high, !.u = NextUpdate(t, result),
                                  !.res = ADDED, !.mode = "SET", !.scan = "seek"])

\* timeFirst is locked and the slot read again: it is free, holds an edge of
\* this range, or is another's.
Claim(t) ==
  LET high == Block(t).high
      free == Slot(t).neighbor = Blank \/ frame[t].k > high
      u == FindUpdates(t, Slot(t).neighbor)
      f == [frame[t] EXCEPT !.endk = high] IN
  /\ pc[t] = "claim"
  /\ \/ /\ free
        /\ DoUpdate(t, [f EXCEPT !.u = NextUpdate(t, result), !.res = ADDED,
                                 !.mode = "SET", !.scan = "seek"])
     \/ /\ ~free /\ u # None
        /\ frame' = [frame EXCEPT ![t] = [f EXCEPT !.u = u, !.res = Result(Slot(t)),
                                                   !.mode = input.operation, !.scan = "seek"]]
        /\ Goto(t, "update")
        /\ UNCHANGED <<input, pass, order, result, todo, list>>
     \/ /\ ~free /\ u = None
        /\ frame' = [frame EXCEPT ![t] = [f EXCEPT !.k = @ + 1]]
        /\ Goto(t, "seek")
        /\ UNCHANGED <<input, pass, order, result, todo, list>>

\* The updates of one neighbour, all into the first slot of a new block: the
\* last one's time, and its weight or the sum of the weights.
NewBlock(ids) ==
  LET weights == [i \in DOMAIN ids |-> Upd(ids[i]).weight] IN
  [high |-> 1,
   slot |-> [EmptyBlock.slot EXCEPT ![1] =
     Written(NewSlot, Neighbor(ids[1]), Dir,
             IF input.operation = "SET" THEN weights[Len(ids)]
             ELSE SumFunctionOnSet(weights, DOMAIN ids),
             Upd(ids[Len(ids)]).ts)]]

\* Variant of Grow: the cursor is not moved along, so that the link is never
\* that of the last block.
GrowAtFirst(t) ==
  LET v == frame[t].v
      u == NextUpdate(t, result) IN
  /\ pc[t] = "grow"
  /\ IF Blocks(t) = <<>>
     THEN /\ list' = [list EXCEPT ![v] = Append(@, NewBlock(<<order[u]>>))]
          /\ result' = [result EXCEPT ![order[u]] = ADDED]
     ELSE UNCHANGED <<list, result>>
  /\ Goto(t, "seek_block")
  /\ frame' = [frame EXCEPT ![t].tmp = 0]
  /\ UNCHANGED <<input, pass, order, todo>>

\* The link of the last block is locked.  If it is still zero a block is added
\* there with the next edge in it; the walk goes on with the block behind.
Grow(t) ==
  LET v == frame[t].v
      u == NextUpdate(t, result)
      run == {i \in u..frame[t].last : Neighbor(order[i]) = Neighbor(order[u])} IN
  /\ pc[t] = "grow"
  /\ IF frame[t].tmp = Len(Blocks(t))
     THEN /\ list' = [list EXCEPT ![v] = Append(@, NewBlock(SubSeq(order, u, Max(run))))]
          /\ result' = [x \in Ids |-> IF x = order[u] THEN ADDED
                                      ELSE IF \E i \in run : order[i] = x THEN UPDATED
                                      ELSE result[x]]
     ELSE UNCHANGED <<list, result>>
  /\ Goto(t, "seek_block")
  /\ UNCHANGED <<input, pass, order, todo, frame>>

Step(t) ==
  \/ TakeRange(t) \/ FindBlock(t) \/ FindScan(t) \/ FindNext(t)
  \/ SeekBlock(t) \/ SeekScan(t) \/ SeekNext(t)
  \/ UpdateSlot(t) \/ Claim(t) \/ Grow(t)

Next == BeginPass \/ \E t \in Threads : Step(t)

Spec == Init /\ [][Next]_vars

FairSpec == Spec /\ WF_vars(BeginPass) /\ \A t \in Threads : WF_vars(Step(t))

-----------------------------------------------------------------------------
(* Properties.                                                             *)

TypeOK ==
  /\ input \in Cases /\ pass \in 0..Len(Passes)
  /\ result \in [Ids -> {-1, 0, 1, ADDED, UPDATED}]
  /\ \A v \in Vertices : BlocksOK(list, v)
  /\ \A t \in Threads : pc[t] = "idle" <=> frame[t] = Idle

SameEdge(x, y) == Upd(x).src = Upd(y).src /\ Upd(x).dst = Upd(y).dst

\* find_updates takes the first update of an edge for all of them.  The server
\* marks an update whose name it cannot resolve, and leaves its vertex 0 or 1
\* (batch.cpp 84 and 99): if others of that edge are not marked some of both
\* kinds are made, and the edge may get two slots.  What follows is promised of
\* v and n if the marks of either edge between them are not mixed so, and no
\* earlier batch has left them two slots.
Unmixed(v, n) ==
  /\ OneSlot(input.list, v, n) /\ OneSlot(input.list, n, v)
  /\ \A x, y \in Ids : SameEdge(x, y) /\ {Upd(x).src, Upd(x).dst} = {v, n} =>
       (Upd(x).result = 0 <=> Upd(y).result = 0)

\* Ranges of one vertex that insert the same edge never give it two slots,
\* whatever slots and blocks they meet at (batch_insert.h 319 to 343, 350),
\* and whatever is done to mixed edges of the same vertex.
UniqueNeighbor == \A v, n \in Vertices : Unmixed(v, n) => OneSlot(list, v, n)

\* The assertions of clear_results and remap_results: no update is pending
\* when its pass is over.
AssertsHold ==
  AllIdle /\ pass > 0 => \A i \in DOMAIN order : result[order[i]] # PENDING

\* The lists are sound in every state (a slot above the high water mark is empty,
\* and no unmixed neighbour has two) and no update of any kind is pending when a
\* pass is over.
ListsOK == TypeOK /\ UniqueNeighbor /\ AssertsHold

\* The ways in which the updates store a directed edge from v to n: a batch
\* that makes edges undirected stores each forth and back, a self-loop twice.
Storing(v, n) ==
  {x \in Ids \X {"forth", "back"} :
     LET u == Upd(x[1]) IN
     /\ u.result = 0
     /\ \/ x[2] = "forth" /\ <<u.src, u.dst>> = <<v, n>>
        \/ x[2] = "back" /\ <<u.dst, u.src>> = <<v, n>> /\ ~input.directed}

\* The weight an edge from v to n starts from: its slot's, or none.  A free slot
\* keeps the weight of the edge it had, which is the new edge's start when the
\* edge's reverse took the slot before it.
Start(v, n) ==
  LET own == SlotIn(input.list, v, n)
      free == {s \in SlotsAt(input.list, v) : s.neighbor = Blank} IN
  {own.weight} \cup
  IF own.neighbor = Blank /\ Storing(n, v) # {} THEN {s.weight : s \in free} ELSE {}

\* When the batch is over both ends of its edges are stored, also where only one
\* was there before (deleteOlderThan), and no other edge has changed; weights
\* were added up, none lost or added twice, though threads share edges and the
\* edge's slot (the batch test, 208 to 240).
AddsUp ==
  Done => \A v, n \in Vertices : Unmixed(v, n) =>
    /\ IsEdge(list, v, n) <=> IsEdge(input.list, v, n) \/ Storing(v, n) # {}
    /\ "IN" \in SlotIn(list, n, v).dirs <=>
         "IN" \in SlotIn(input.list, n, v).dirs \/ Storing(v, n) # {}
    /\ input.operation = "INCR" /\ IsEdge(list, v, n) =>
         \E start \in Start(v, n) :
           SlotIn(list, v, n).weight =
             start + SumFunctionOnSet([x \in Storing(v, n) |-> Upd(x[1]).weight], Storing(v, n))
    /\ input.operation = "SET" /\ Storing(v, n) # {} =>
         \E x \in Storing(v, n) : SlotIn(list, v, n).weight = Upd(x[1]).weight

\* The end of an edge whose update comes last: its result is the one told.
LastSlot(g, v, n) == IF v < n THEN SlotIn(g, n, v) ELSE SlotIn(g, v, n)
LastDir(v, n) == IF v < n THEN "IN" ELSE "OUT"

\* That end was there before the batch.
WasThere(v, n) == LastDir(v, n) \in LastSlot(input.list, v, n).dirs

\* Its slot may be in use for the edge from n to v when the updates come to it.
Shared(v, n) ==
  \/ LastSlot(input.list, v, n).neighbor # Blank
  \/ ~(v < n) /\ Storing(n, v) # {}

\* A caller is told of every edge whose last end is new, by exactly one of its
\* updates whatever ranges share them (the batch test, 227 to 233), and of no
\* other edge.  If the slot is in use for the edge's reverse alone, the updates
\* of several ranges may all be reported: each has read the slot unlocked.
NewEdgesReported ==
  Done => \A v, n \in Vertices :
    LET us == Storing(v, n)
        told == {x \in us : Remapped(x[1]) = 1} IN
    input.directed /\ Unmixed(v, n) /\ us # {} =>
      /\ told = {} <=> WasThere(v, n)
      /\ ~WasThere(v, n) /\ ~Shared(v, n) => \E x \in told : told = {x}

\* The batch ends: no range waits or looks for ever for a place for its edges.
Terminates == <>Done
=============================================================================
