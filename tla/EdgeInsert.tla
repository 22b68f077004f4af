----------------------------- MODULE EdgeInsert -----------------------------
(***************************************************************************)
(* Concurrent insertion into the adjacency list of one vertex:             *)
(* stinger_update_directed_edge and update_edge_data_and_direction of      *)
(* stinger_core/src/stinger.c, executed by several threads at once.        *)
(*                                                                         *)
(* The list is a chain of edge blocks of EBSize slots.  A directed update  *)
(* first looks for the neighbour (the find_ steps), then looks again for   *)
(* it or for a free slot (the seek_ and claim_ steps), and at the end of   *)
(* the chain appends a block (the grow_ steps).  Whatever slot it ends on, *)
(* it writes there with the upd_ steps.                                    *)
(*                                                                         *)
(* Synchronisation is by full/empty words: a word that holds MARKER is     *)
(* empty and locked.  readfe takes the value and leaves MARKER, writeef    *)
(* refills an empty word, readff waits for a full one and writexf writes   *)
(* without looking.  weight locks the slot, timeFirst locks the claim of a *)
(* slot, smallStamp the block's stamps, and the link the end of the chain. *)
(*                                                                         *)
(* One action is one access to shared memory that another thread can       *)
(* observe.  Two vertices share only the pool and the edge type array,     *)
(* by atomic fetch-and-add, so a block is named here by its rank among the *)
(* blocks taken for this vertex, and one edge type is in use.              *)
(***************************************************************************)
EXTENDS Integers, Sequences, FiniteSets

CONSTANTS Threads,       \* the OpenMP threads that insert
          Vertices,      \* vertex ids that can be neighbours; 0 is one
          Ops,           \* the directed updates threads may be asked for
          OpsPerThread,  \* bound: updates per thread in a behaviour
          EBSize,        \* STINGER_EDGEBLOCKSIZE
          MaxBlocks,     \* bound: blocks the pool can hand to this list
          InitContents,  \* what earlier phases may have left in the first block
          OldWords,      \* the words and stamps they may have left with it
          INT64_MIN, INT64_MAX,
          MARKER         \* the value of an empty word

Blank == -1              \* a slot whose edge was deleted: negative neighbour

Directions == {"OUT", "IN"}

Blocks == 1..MaxBlocks
Indices == 0..EBSize - 1
Slots == Blocks \X Indices

\* Updates set these words and deletions leave them: a hole has them too.
OldType == [slot : [Indices -> [weight : Int, timeFirst : Int, timeRecent : Int]],
            smallStamp : Int, largeStamp : Int]

OpType == [dest : Vertices, dir : Directions, weight : Int, ts : Int,
           mode : {"SET", "INCR"}]

ASSUME ConstantsAssumption ==
  /\ Vertices \subseteq Nat /\ 0 \in Vertices
  /\ Ops \subseteq OpType /\ Ops # {}
  /\ OpsPerThread \in Nat
  /\ EBSize \in Nat \ {0}
  /\ MaxBlocks \in Nat \ {0}
  /\ INT64_MIN \in Int /\ INT64_MAX \in Int
  /\ MARKER \notin Int
  /\ \A c \in InitContents :
       /\ c \in Seq(Vertices \cup {Blank})
       /\ Len(c) <= EBSize
       /\ \A i, j \in DOMAIN c : c[i] = c[j] /\ c[i] # Blank => i = j
  /\ OldWords \subseteq OldType

VARIABLES
  link,        \* link[0]: the vertex's edges word; link[b]: next of block b
  edge,        \* edge[<<b, k>>]: slot k of block b
  eb,          \* eb[b]: numEdges, high and the stamps of block b
  vertex,      \* the vertex's inDegree, outDegree and degree
  ebpool_tail, \* the next block the pool hands out
  eta,         \* the edge type array: high and blocks
  pc, frame,   \* each thread's position and local variables
  done         \* each thread's completed updates with their results

shared == <<link, edge, eb, vertex, ebpool_tail, eta>>
vars == <<link, edge, eb, vertex, ebpool_tail, eta, pc, frame, done>>

Word == Int \cup {MARKER}

ZeroEdge == [neighbor |-> 0, dirs |-> {}, weight |-> 0,
             timeFirst |-> 0, timeRecent |-> 0]

EmptyBlock == [numEdges |-> 0, high |-> 0,
               smallStamp |-> INT64_MAX, largeStamp |-> INT64_MIN]

IdleFrame == [op |-> CHOOSE op \in Ops : TRUE, tmp |-> 0, k |-> 0, endk |-> 0,
              loc |-> 0, seen |-> 0, timefirst |-> 0, weight |-> 0,
              stamp |-> 0, place |-> 0, mode |-> "SET", then |-> "return",
              ret |-> 0]

-----------------------------------------------------------------------------
(* Initial states: an empty list, or one block left by earlier updates and *)
(* deletions.  A deletion clears the neighbour and the direction, and      *)
(* leaves the slot's weight and timestamps and the block's stamps.         *)

Filled(c) == {i \in DOMAIN c : c[i] # Blank}

InitEdge(c, old) ==
  [s \in Slots |->
     IF s[1] = 1 /\ s[2] < Len(c)
     THEN [neighbor |-> c[s[2] + 1],
           dirs |-> IF c[s[2] + 1] = Blank THEN {} ELSE {"OUT"},
           weight |-> old.slot[s[2]].weight,
           timeFirst |-> old.slot[s[2]].timeFirst,
           timeRecent |-> old.slot[s[2]].timeRecent]
     ELSE ZeroEdge]

InitBlock(c, old) ==
  [b \in Blocks |->
     IF b = 1 /\ c # <<>>
     THEN [numEdges |-> Cardinality(Filled(c)), high |-> Len(c),
           smallStamp |-> old.smallStamp, largeStamp |-> old.largeStamp]
     ELSE EmptyBlock]

InitWith(c, old) ==
  LET taken == IF c = <<>> THEN 0 ELSE 1 IN
  /\ link = [b \in 0..MaxBlocks |-> IF b = 0 THEN taken ELSE 0]
  /\ edge = InitEdge(c, old)
  /\ eb = InitBlock(c, old)
  /\ vertex = [inDegree |-> 0, outDegree |-> Cardinality(Filled(c)),
               degree |-> Cardinality(Filled(c))]
  /\ ebpool_tail = 1 + taken
  /\ eta = [high |-> taken,
            blocks |-> [i \in 0..MaxBlocks - 1 |-> IF i = 0 THEN taken ELSE 0]]
  /\ pc = [t \in Threads |-> "idle"]
  /\ frame = [t \in Threads |-> IdleFrame]
  /\ done = [t \in Threads |-> <<>>]

Init == \E c \in InitContents, old \in OldWords : InitWith(c, old)

-----------------------------------------------------------------------------
(* Local variables and control.                                            *)

Goto(t, l) == pc' = [pc EXCEPT ![t] = l]

Move(t, from, to) == pc[t] = from /\ Goto(t, to)

Dest(t) == frame[t].op.dest
Dir(t)  == frame[t].op.dir
Slot(t) == <<frame[t].tmp, frame[t].k>>

\* The update returns r to its caller and its local variables are gone.
Return(t, r) ==
  /\ done' = [done EXCEPT ![t] = Append(@, [op |-> frame[t].op, ret |-> r])]
  /\ frame' = [frame EXCEPT ![t] = IdleFrame]
  /\ Goto(t, "idle")

-----------------------------------------------------------------------------
(* Pass 1: look for the neighbour below each block's high water mark.      *)

Call(t) ==
  /\ Move(t, "idle", "etype_begin")
  /\ Len(done[t]) < OpsPerThread
  /\ \E op \in Ops : frame' = [frame EXCEPT ![t] = [IdleFrame EXCEPT !.op = op]]
  /\ UNCHANGED <<shared, done>>

EtypeBegin(t) ==
  /\ Move(t, "etype_begin", IF link[0] = 0 THEN "seek_first" ELSE "find_block")
  /\ link[0] # MARKER
  /\ frame' = [frame EXCEPT ![t].tmp = link[0], ![t].loc = 0]
  /\ UNCHANGED <<shared, done>>

FindBlock(t) ==
  /\ Move(t, "find_block", "find_scan")
  /\ frame' = [frame EXCEPT ![t].endk = eb[frame[t].tmp].high, ![t].k = 0]
  /\ UNCHANGED <<shared, done>>

FindScan(t) ==
  /\ pc[t] = "find_scan"
  /\ frame[t].k < frame[t].endk
  /\ IF edge[Slot(t)].neighbor = Dest(t)
     THEN Goto(t, "found") /\ UNCHANGED frame
     ELSE frame' = [frame EXCEPT ![t].k = @ + 1] /\ UNCHANGED pc
  /\ UNCHANGED <<shared, done>>

FindNext(t) ==
  LET next == link[frame[t].tmp] IN
  /\ Move(t, "find_scan", IF next = 0 THEN "seek_first" ELSE "find_block")
  /\ frame[t].k >= frame[t].endk
  /\ next # MARKER
  /\ frame' = [frame EXCEPT ![t].tmp = next]
  /\ UNCHANGED <<shared, done>>

\* The neighbour is in the slot: the result is 1 if the direction is new.
Found(t) ==
  /\ Move(t, "found", "upd_lock")
  /\ frame' = [frame EXCEPT
                 ![t].ret = IF Dir(t) \in edge[Slot(t)].dirs THEN 0 ELSE 1,
                 ![t].mode = frame[t].op.mode,
                 ![t].then = "return"]
  /\ UNCHANGED <<shared, done>>

-----------------------------------------------------------------------------
(* Pass 2: look again, this time also for a slot that is free.             *)

SeekFirst(t) ==
  LET first == link[frame[t].loc] IN
  /\ Move(t, "seek_first", IF first = 0 THEN "grow_lock" ELSE "seek_block")
  /\ first # MARKER
  /\ frame' = [frame EXCEPT ![t].tmp = first]
  /\ UNCHANGED <<shared, done>>

SeekBlock(t) ==
  /\ Move(t, "seek_block", "seek_scan")
  /\ frame' = [frame EXCEPT ![t].endk = eb[frame[t].tmp].high, ![t].k = 0]
  /\ UNCHANGED <<shared, done>>

\* Mutant: the second pass only looks for a free slot.
SeekScanFreeOnly(t) ==
  /\ pc[t] = "seek_scan"
  /\ frame[t].k < EBSize
  /\ IF edge[Slot(t)].neighbor = Blank \/ frame[t].k >= frame[t].endk
     THEN Goto(t, "claim_lock") /\ UNCHANGED frame
     ELSE frame' = [frame EXCEPT ![t].k = @ + 1] /\ UNCHANGED pc
  /\ UNCHANGED <<shared, done>>

SeekScan(t) ==
  LET myNeighbor == edge[Slot(t)].neighbor
      below == frame[t].k < frame[t].endk IN
  /\ pc[t] = "seek_scan"
  /\ frame[t].k < EBSize
  /\ \/ /\ myNeighbor = Dest(t) /\ below
        /\ Goto(t, "found")
        /\ UNCHANGED frame
     \/ /\ myNeighbor = Blank \/ ~below
        /\ Goto(t, "claim_lock")
        /\ UNCHANGED frame
     \/ /\ myNeighbor \notin {Blank, Dest(t)} /\ below
        /\ frame' = [frame EXCEPT ![t].k = @ + 1]
        /\ UNCHANGED pc
  /\ UNCHANGED <<shared, done>>

\* Mutant: loc is not moved along, so the end of the chain is never locked.
SeekNextKeepLoc(t) ==
  LET next == link[frame[t].tmp] IN
  /\ Move(t, "seek_scan", IF next = 0 THEN "grow_lock" ELSE "seek_block")
  /\ frame[t].k = EBSize
  /\ next # MARKER
  /\ frame' = [frame EXCEPT ![t].tmp = next]
  /\ UNCHANGED <<shared, done>>

SeekNext(t) ==
  LET next == link[frame[t].tmp] IN
  /\ Move(t, "seek_scan", IF next = 0 THEN "grow_lock" ELSE "seek_block")
  /\ frame[t].k = EBSize
  /\ next # MARKER
  /\ frame' = [frame EXCEPT ![t].loc = frame[t].tmp, ![t].tmp = next]
  /\ UNCHANGED <<shared, done>>

-----------------------------------------------------------------------------
(* A slot that looked free is claimed under its timeFirst word.            *)

\* Mutant: timeFirst is exchanged without waiting for it to be full.
ClaimLockNoWait(t) ==
  /\ Move(t, "claim_lock", "claim_read")
  /\ frame' = [frame EXCEPT ![t].timefirst = edge[Slot(t)].timeFirst]
  /\ edge' = [edge EXCEPT ![Slot(t)].timeFirst = MARKER]
  /\ UNCHANGED <<link, eb, vertex, ebpool_tail, eta, done>>

ClaimLock(t) ==
  /\ Move(t, "claim_lock", "claim_read")
  /\ edge[Slot(t)].timeFirst # MARKER
  /\ frame' = [frame EXCEPT ![t].timefirst = edge[Slot(t)].timeFirst]
  /\ edge' = [edge EXCEPT ![Slot(t)].timeFirst = MARKER]
  /\ UNCHANGED <<link, eb, vertex, ebpool_tail, eta, done>>

ClaimRead(t) ==
  /\ Move(t, "claim_read", "claim_check")
  /\ frame' = [frame EXCEPT ![t].seen = edge[Slot(t)].neighbor]
  /\ UNCHANGED <<shared, done>>

\* Mutant: the high water mark is not read again under the claim.
FreeStaleHigh(t) == frame[t].seen = Blank \/ frame[t].k >= frame[t].endk

Free(t) == frame[t].seen = Blank \/ frame[t].k >= eb[frame[t].tmp].high

\* Free: fill it.  Filled with this neighbour meanwhile: update it and report
\* 0.  Filled with another one: release and look further.
ClaimCheck(t) ==
  LET high == eb[frame[t].tmp].high IN
  /\ pc[t] = "claim_check"
  /\ \/ /\ Free(t)
        /\ frame' = [frame EXCEPT ![t].endk = high, ![t].mode = "SET",
                                  ![t].then = "return", ![t].ret = 1]
        /\ Goto(t, "upd_lock")
     \/ /\ ~Free(t) /\ frame[t].seen = Dest(t)
        /\ frame' = [frame EXCEPT ![t].endk = high, ![t].mode = frame[t].op.mode,
                                  ![t].then = "restore", ![t].ret = 0]
        /\ Goto(t, "upd_lock")
     \/ /\ ~Free(t) /\ frame[t].seen # Dest(t)
        /\ frame' = [frame EXCEPT ![t].endk = high]
        /\ Goto(t, "claim_release")
  /\ UNCHANGED <<shared, done>>

ClaimRelease(t) ==
  /\ Move(t, "claim_release", "seek_scan")
  /\ edge' = [edge EXCEPT ![Slot(t)].timeFirst = frame[t].timefirst]
  /\ frame' = [frame EXCEPT ![t].k = @ + 1]
  /\ UNCHANGED <<link, eb, vertex, ebpool_tail, eta, done>>

-----------------------------------------------------------------------------
(* update_edge_data_and_direction, for an insertion.                       *)

\* Mutant: readff instead of readfe, the weight stays full.
UpdLockReadFF(t) ==
  /\ Move(t, "upd_lock", "upd_test")
  /\ edge[Slot(t)].weight # MARKER
  /\ frame' = [frame EXCEPT ![t].weight = edge[Slot(t)].weight]
  /\ UNCHANGED <<shared, done>>

UpdLock(t) ==
  /\ Move(t, "upd_lock", "upd_test")
  /\ edge[Slot(t)].weight # MARKER
  /\ frame' = [frame EXCEPT ![t].weight = edge[Slot(t)].weight]
  /\ edge' = [edge EXCEPT ![Slot(t)].weight = MARKER]
  /\ UNCHANGED <<link, eb, vertex, ebpool_tail, eta, done>>

\* Only an OUT update changes the weight.
NewWeight(t) ==
  IF Dir(t) = "IN" THEN frame[t].weight
  ELSE IF frame[t].mode = "SET" THEN frame[t].op.weight
  ELSE frame[t].weight + frame[t].op.weight

\* Mutant: a blank slot below the high water mark is not taken for a new edge.
UpdTestHighOnly(t) ==
  /\ Move(t, "upd_test", IF frame[t].k >= eb[frame[t].tmp].high THEN "upd_write" ELSE "upd_dir")
  /\ UNCHANGED <<shared, frame, done>>

UpdTest(t) ==
  LET new == edge[Slot(t)].neighbor = Blank \/ frame[t].k >= eb[frame[t].tmp].high IN
  /\ Move(t, "upd_test", IF new THEN "upd_write" ELSE "upd_dir")
  /\ UNCHANGED <<shared, frame, done>>

UpdWrite(t) ==
  /\ Move(t, "upd_write", "upd_count")
  /\ edge' = [edge EXCEPT ![Slot(t)].neighbor = Dest(t), ![Slot(t)].dirs = {Dir(t)}]
  /\ UNCHANGED <<link, eb, vertex, ebpool_tail, eta, frame, done>>

CountDir(v, dir) ==
  IF dir = "OUT" THEN [v EXCEPT !.outDegree = @ + 1]
                 ELSE [v EXCEPT !.inDegree = @ + 1]

\* Three fetch-and-adds on words no insertion reads.
UpdCount(t) ==
  /\ Move(t, "upd_count", "upd_high")
  /\ eb' = [eb EXCEPT ![frame[t].tmp].numEdges = @ + 1]
  /\ vertex' = [CountDir(vertex, Dir(t)) EXCEPT !.degree = @ + 1]
  /\ UNCHANGED <<link, edge, ebpool_tail, eta, frame, done>>

\* Mutant: the high water mark follows the last insertion, also downwards.
UpdHighAlways(t) ==
  /\ Move(t, "upd_high", "upd_first")
  /\ eb' = [eb EXCEPT ![frame[t].tmp].high = frame[t].k + 1]
  /\ UNCHANGED <<link, edge, vertex, ebpool_tail, eta, frame, done>>

UpdHigh(t) ==
  /\ Move(t, "upd_high", "upd_first")
  /\ eb' = [eb EXCEPT ![frame[t].tmp].high =
                        IF frame[t].k >= @ THEN frame[t].k + 1 ELSE @]
  /\ UNCHANGED <<link, edge, vertex, ebpool_tail, eta, frame, done>>

\* After the direction is in place an OUT update goes on to the timestamps.
AfterDirection(t) == IF Dir(t) = "OUT" THEN "upd_stamp" ELSE "upd_unlock"

UpdFirst(t) ==
  /\ Move(t, "upd_first", AfterDirection(t))
  /\ edge' = [edge EXCEPT ![Slot(t)].timeFirst = frame[t].op.ts]
  /\ UNCHANGED <<link, eb, vertex, ebpool_tail, eta, frame, done>>

\* The compare-and-swap cannot fail: dirs is written under the weight lock.
UpdDir(t) ==
  /\ pc[t] = "upd_dir"
  /\ \/ /\ Dir(t) \in edge[Slot(t)].dirs
        /\ Goto(t, AfterDirection(t))
        /\ UNCHANGED <<edge, vertex>>
     \/ /\ Dir(t) \notin edge[Slot(t)].dirs /\ Dir(t) = "OUT"
        /\ edge' = [edge EXCEPT ![Slot(t)].dirs = @ \cup {"OUT"}]
        /\ Goto(t, "upd_newout")
        /\ UNCHANGED vertex
     \/ /\ Dir(t) \notin edge[Slot(t)].dirs /\ Dir(t) = "IN"
        /\ edge' = [edge EXCEPT ![Slot(t)].dirs = @ \cup {"IN"}]
        /\ vertex' = CountDir(vertex, "IN")
        /\ Goto(t, "upd_unlock")
  /\ UNCHANGED <<link, eb, ebpool_tail, eta, frame, done>>

\* writexf takes no notice of a thread that holds timeFirst.
UpdNewOut(t) ==
  /\ Move(t, "upd_newout", "upd_stamp")
  /\ edge' = [edge EXCEPT ![Slot(t)].timeFirst = frame[t].op.ts]
  /\ vertex' = CountDir(vertex, "OUT")
  /\ UNCHANGED <<link, eb, ebpool_tail, eta, frame, done>>

\* Two reads: each stamp only moves outwards, so an older one is as good.
UpdStamp(t) ==
  LET block == eb[frame[t].tmp]
      ts == frame[t].op.ts IN
  /\ pc[t] = "upd_stamp"
  /\ block.smallStamp # MARKER
  /\ Goto(t, IF ts < block.smallStamp \/ ts > block.largeStamp
             THEN "upd_stamp_lock" ELSE "upd_recent")
  /\ UNCHANGED <<shared, frame, done>>

UpdStampLock(t) ==
  /\ Move(t, "upd_stamp_lock", "upd_stamp_set")
  /\ eb[frame[t].tmp].smallStamp # MARKER
  /\ frame' = [frame EXCEPT ![t].stamp = eb[frame[t].tmp].smallStamp]
  /\ eb' = [eb EXCEPT ![frame[t].tmp].smallStamp = MARKER]
  /\ UNCHANGED <<link, edge, vertex, ebpool_tail, eta, done>>

UpdStampSet(t) ==
  LET ts == frame[t].op.ts IN
  /\ Move(t, "upd_stamp_set", "upd_recent")
  /\ eb' = [eb EXCEPT
              ![frame[t].tmp].largeStamp = IF ts > @ THEN ts ELSE @,
              ![frame[t].tmp].smallStamp =
                 IF ts < frame[t].stamp THEN ts ELSE frame[t].stamp]
  /\ UNCHANGED <<link, edge, vertex, ebpool_tail, eta, frame, done>>

UpdRecent(t) ==
  /\ Move(t, "upd_recent", "upd_unlock")
  /\ edge' = [edge EXCEPT ![Slot(t)].timeRecent = frame[t].op.ts]
  /\ UNCHANGED <<link, eb, vertex, ebpool_tail, eta, frame, done>>

UpdUnlock(t) ==
  /\ pc[t] = "upd_unlock"
  /\ edge' = [edge EXCEPT ![Slot(t)].weight = NewWeight(t)]
  /\ IF frame[t].then = "return"
     THEN Return(t, frame[t].ret)
     ELSE Goto(t, frame[t].then) /\ UNCHANGED <<frame, done>>
  /\ UNCHANGED <<link, eb, vertex, ebpool_tail, eta>>

UpdRestore(t) ==
  /\ pc[t] = "restore"
  /\ edge' = [edge EXCEPT ![Slot(t)].timeFirst = frame[t].timefirst]
  /\ Return(t, frame[t].ret)
  /\ UNCHANGED <<link, eb, vertex, ebpool_tail, eta>>

-----------------------------------------------------------------------------
(* Pass 3: append a block at the end of the chain, under the last link.    *)

GrowLock(t) ==
  /\ Move(t, "grow_lock", IF link[frame[t].loc] = 0 THEN "grow_new" ELSE "grow_retry")
  /\ link[frame[t].loc] # MARKER
  /\ frame' = [frame EXCEPT ![t].tmp = link[frame[t].loc]]
  /\ link' = [link EXCEPT ![frame[t].loc] = MARKER]
  /\ UNCHANGED <<edge, eb, vertex, ebpool_tail, eta, done>>

\* Another thread appended a block first.
GrowRetry(t) ==
  /\ Move(t, "grow_retry", "seek_first")
  /\ link' = [link EXCEPT ![frame[t].loc] = frame[t].tmp]
  /\ UNCHANGED <<edge, eb, vertex, ebpool_tail, eta, frame, done>>

\* new_eb clears the block.  An empty pool aborts the process: no step.
GrowNew(t) ==
  /\ Move(t, "grow_new", "upd_lock")
  /\ ebpool_tail <= MaxBlocks
  /\ ebpool_tail' = ebpool_tail + 1
  /\ eb' = [eb EXCEPT ![ebpool_tail] = EmptyBlock]
  /\ edge' = [s \in Slots |-> IF s[1] = ebpool_tail THEN ZeroEdge ELSE edge[s]]
  /\ frame' = [frame EXCEPT ![t].tmp = ebpool_tail, ![t].k = 0, ![t].mode = "SET",
                            ![t].then = "push_ebs", ![t].ret = 1]
  /\ UNCHANGED <<link, vertex, eta, done>>

PushEbs(t) ==
  /\ Move(t, "push_ebs", "push_block")
  /\ link' = [link EXCEPT ![frame[t].tmp] = 0]
  /\ eta' = [eta EXCEPT !.high = @ + 1]
  /\ frame' = [frame EXCEPT ![t].place = eta.high]
  /\ UNCHANGED <<edge, eb, vertex, ebpool_tail, done>>

PushBlock(t) ==
  /\ Move(t, "push_block", "grow_link")
  /\ eta' = [eta EXCEPT !.blocks[frame[t].place] = frame[t].tmp]
  /\ UNCHANGED <<link, edge, eb, vertex, ebpool_tail, frame, done>>

GrowLink(t) ==
  /\ pc[t] = "grow_link"
  /\ link' = [link EXCEPT ![frame[t].loc] = frame[t].tmp]
  /\ Return(t, frame[t].ret)
  /\ UNCHANGED <<edge, eb, vertex, ebpool_tail, eta>>

-----------------------------------------------------------------------------
Step(t) ==
  \/ EtypeBegin(t) \/ FindBlock(t) \/ FindScan(t) \/ FindNext(t) \/ Found(t)
  \/ SeekFirst(t) \/ SeekBlock(t) \/ SeekScan(t) \/ SeekNext(t)
  \/ ClaimLock(t) \/ ClaimRead(t) \/ ClaimCheck(t) \/ ClaimRelease(t)
  \/ UpdLock(t) \/ UpdTest(t) \/ UpdWrite(t) \/ UpdCount(t) \/ UpdHigh(t)
  \/ UpdFirst(t) \/ UpdDir(t) \/ UpdNewOut(t) \/ UpdStamp(t)
  \/ UpdStampLock(t) \/ UpdStampSet(t) \/ UpdRecent(t) \/ UpdUnlock(t)
  \/ UpdRestore(t) \/ GrowLock(t) \/ GrowRetry(t) \/ GrowNew(t)
  \/ PushEbs(t) \/ PushBlock(t) \/ GrowLink(t)

Quiescent == \A t \in Threads : pc[t] = "idle"

\* The parallel loop is over: every thread has made all its updates.
Finished ==
  /\ \A t \in Threads : pc[t] = "idle" /\ Len(done[t]) = OpsPerThread
  /\ UNCHANGED vars

Next == (\E t \in Threads : Call(t) \/ Step(t)) \/ Finished

Spec == Init /\ [][Next]_vars

\* Every thread is scheduled; a thread need not be given another update.
Fairness == \A t \in Threads : WF_vars(Step(t))

FairSpec == Spec /\ Fairness
-----------------------------------------------------------------------------
(* Properties.                                                             *)

Labels == {"idle", "etype_begin", "find_block", "find_scan", "found",
           "seek_first", "seek_block", "seek_scan", "claim_lock", "claim_read",
           "claim_check", "claim_release", "upd_lock", "upd_test", "upd_write",
           "upd_count", "upd_high", "upd_first", "upd_dir", "upd_newout",
           "upd_stamp", "upd_stamp_lock", "upd_stamp_set", "upd_recent",
           "upd_unlock", "restore", "grow_lock", "grow_retry", "grow_new",
           "push_ebs", "push_block", "grow_link"}

EdgeType == [neighbor : Vertices \cup {Blank}, dirs : SUBSET Directions,
             weight : Word, timeFirst : Word, timeRecent : Int]

BlockType == [numEdges : Nat, high : 0..EBSize, smallStamp : Word,
              largeStamp : Int]

FrameType == [op : OpType, tmp : 0..MaxBlocks, k : 0..EBSize, endk : 0..EBSize,
              loc : 0..MaxBlocks, seen : Vertices \cup {Blank}, timefirst : Int,
              weight : Int, stamp : Int, place : Nat, mode : {"SET", "INCR"},
              then : {"return", "restore", "push_ebs"}, ret : {0, 1}]

\* Every variable has its type: a word is an integer or MARKER, an index stays
\* in its block and no local variable ever takes the value MARKER.
TypeOK ==
  /\ link \in [0..MaxBlocks -> 0..MaxBlocks \cup {MARKER}]
  /\ edge \in [Slots -> EdgeType]
  /\ eb \in [Blocks -> BlockType]
  /\ vertex \in [inDegree : Nat, outDegree : Nat, degree : Nat]
  /\ ebpool_tail \in 1..MaxBlocks + 1
  /\ eta \in [high : Nat, blocks : [0..MaxBlocks - 1 -> 0..MaxBlocks]]
  /\ pc \in [Threads -> Labels]
  /\ frame \in [Threads -> FrameType]
  /\ done \in [Threads -> Seq([op : OpType, ret : {0, 1}])]

Occupied == {s \in Slots : edge[s].dirs # {}}

\* A vertex is in at most one slot of the list, at every moment: two threads
\* that insert the same new neighbour, in the same or opposite directions, end
\* on one slot, whichever of them claims it and however stale the high water
\* mark the other one read (the second search and the claim under timeFirst).
UniqueNeighbor ==
  \A s1, s2 \in Occupied : edge[s1].neighbor = edge[s2].neighbor => s1 = s2

Updating == {"upd_test", "upd_write", "upd_count", "upd_high", "upd_first",
             "upd_dir", "upd_newout", "upd_stamp", "upd_stamp_lock",
             "upd_stamp_set", "upd_recent", "upd_unlock"}

\* The weight word is the slot's lock: while a thread updates a slot the word
\* is empty and no other thread updates the same slot, and an empty word has
\* such a thread (update_edge_data_and_direction between readfe and writeef).
SlotLock ==
  /\ \A t \in Threads : pc[t] \in Updating => edge[Slot(t)].weight = MARKER
  /\ \A t1, t2 \in Threads :
       /\ t1 # t2
       /\ pc[t1] \in Updating
       /\ pc[t2] \in Updating
       => Slot(t1) # Slot(t2)
  /\ \A s \in Slots : edge[s].weight = MARKER =>
       \E t \in Threads : pc[t] \in Updating /\ Slot(t) = s

WithDir(d) == {s \in Occupied : d \in edge[s].dirs}
InBlock(b) == {s \in Occupied : s[1] = b}

\* What stinger_consistency_check and traversals by block rely on between
\* batches: the counters equal what the slots hold, slots at or above a block's
\* high water mark are untouched, every block taken from the pool is linked and
\* is in the edge type array once, and no word is left empty.
ConsistentAtRest == Quiescent =>
  /\ vertex = [outDegree |-> Cardinality(WithDir("OUT")),
               inDegree |-> Cardinality(WithDir("IN")),
               degree |-> Cardinality(Occupied)]
  /\ \A b \in Blocks : eb[b].numEdges = Cardinality(InBlock(b))
  /\ \A s \in Slots :
       /\ s[2] >= eb[s[1]].high => edge[s] = ZeroEdge
       /\ MARKER \notin {edge[s].weight, edge[s].timeFirst, eb[s[1]].smallStamp}
  /\ \A b \in 0..MaxBlocks : link[b] = IF b + 1 < ebpool_tail THEN b + 1 ELSE 0
  /\ {eta.blocks[i] : i \in 0..eta.high - 1} = 1..ebpool_tail - 1
  /\ eta.high = ebpool_tail - 1

\* Insertion only adds: a slot that holds a neighbour keeps it, directions and
\* the high water mark never go back, and a link, once set, is only ever locked
\* and put back.  The first search reads without locks and rests on this.
OnlyAdds == [][
  /\ \A s \in Occupied : /\ edge'[s].neighbor = edge[s].neighbor
                         /\ edge[s].dirs \subseteq edge'[s].dirs
  /\ \A b \in Blocks : b < ebpool_tail => eb'[b].high >= eb[b].high
  /\ \A b \in 0..MaxBlocks : link[b] \notin {0, MARKER} => link'[b] \in {link[b], MARKER}
  ]_vars

\* Every update that is called returns: no thread waits for ever on a word that
\* another one holds, through the spin loops of readfe, readff and writeef.
Returns == \A t \in Threads : pc[t] # "idle" ~> pc[t] = "idle"
=============================================================================
