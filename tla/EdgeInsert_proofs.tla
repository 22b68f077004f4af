-------------------------- MODULE EdgeInsert_proofs --------------------------
(***************************************************************************)
(* Theorems about EdgeInsert for any number of threads, vertices, updates, *)
(* blocks and slots, and any list it may begin with: types, the weight     *)
(* word as the lock of its slot (SlotLock), no vertex in two slots         *)
(* (UniqueNeighbor), nothing taken away (OnlyAdds), the counters right     *)
(* whenever no update is under way (ConsistentAtRest), and that concurrent *)
(* insertion implements AtomicAdjacency.                                   *)
(*                                                                         *)
(* The argument for UniqueNeighbor is about the order of the slots.  A     *)
(* thread in its second pass has seen every slot before its position       *)
(* filled with another neighbour, so it fills the first free slot of the   *)
(* list.  A slot filled behind a free one (a hole that a deletion left)    *)
(* was therefore there when the threads began, and the first pass has      *)
(* compared it.                                                            *)
(*                                                                         *)
(* A counter is behind by exactly the updates that have written a slot and *)
(* not yet counted it (CountInv).  What the abstract list shows of a slot  *)
(* is what the slot holds or, while a thread has its weight, what that     *)
(* thread found there and, once the direction is in place, is going to     *)
(* leave there; so only the two steps that put a direction in place change *)
(* it, both as the call asked for (UpdateInv).                             *)
(***************************************************************************)
EXTENDS EdgeInsertRefinement, FiniteSetTheorems, SequenceTheorems, TLAPS

InBlockLabels == Labels \ {"idle", "etype_begin", "seek_first", "grow_lock",
                           "grow_new", "grow_retry"}

AtSlotLabels == InBlockLabels \ {"find_block", "find_scan", "seek_block", "seek_scan"}

\* Cursors and links only name blocks the pool has handed out, and a thread
\* that reads or writes a slot has a real block and an index inside it.
Cursor(l, f, tail) == /\ f.tmp < tail
                      /\ l \in InBlockLabels => f.tmp # 0
                      /\ l \in AtSlotLabels => f.k < EBSize

CursorOK ==
  /\ \A b \in 0..MaxBlocks : link[b] # MARKER => link[b] < ebpool_tail
  /\ \A t \in Threads : Cursor(pc[t], frame[t], ebpool_tail)

TypeInv == TypeOK /\ CursorOK

LEMMA IdleFrameType == IdleFrame \in FrameType
<1>1. (CHOOSE op \in Ops : TRUE) \in OpType
  BY ConstantsAssumption
<1>2. 0 \in Vertices /\ EBSize \in Nat /\ MaxBlocks \in Nat
  BY ConstantsAssumption
<1> QED BY <1>1, <1>2 DEF IdleFrame, FrameType

LEMMA OldTypes ==
  ASSUME NEW old \in OldWords
  PROVE  /\ \A k \in Indices : /\ old.slot[k].weight \in Int /\ old.slot[k].timeFirst \in Int
                               /\ old.slot[k].timeRecent \in Int
         /\ old.smallStamp \in Int /\ old.largeStamp \in Int
BY ConstantsAssumption DEF OldType

LEMMA InitType == Init => TypeInv
<1> SUFFICES ASSUME NEW c \in InitContents, NEW old \in OldWords, InitWith(c, old) PROVE TypeInv
  BY DEF Init
<1> USE ConstantsAssumption
<1>0. /\ c \in Seq(Vertices \cup {Blank}) /\ Len(c) \in 0..EBSize
      /\ Cardinality(Filled(c)) \in Nat
  <2>1. DOMAIN c = 1..Len(c) /\ Len(c) \in Nat
    OBVIOUS
  <2>2. IsFiniteSet(1..Len(c))
    BY <2>1, FS_Interval
  <2>3. Filled(c) \subseteq 1..Len(c)
    BY <2>1 DEF Filled
  <2> QED BY <2>1, <2>2, <2>3, FS_Subset, FS_CardinalityType
<1>1. link \in [0..MaxBlocks -> 0..MaxBlocks \cup {MARKER}]
  BY DEF InitWith
<1>2. edge \in [Slots -> EdgeType]
  <2> SUFFICES ASSUME NEW s \in Slots PROVE InitEdge(c, old)[s] \in EdgeType
    BY DEF InitWith, InitEdge
  <2>1. CASE s[1] = 1 /\ s[2] < Len(c)
    <3>1. s[2] + 1 \in 1..Len(c)
      BY <1>0, <2>1 DEF Slots, Indices
    <3>2. c[s[2] + 1] \in Vertices \cup {Blank}
      BY <1>0, <3>1
    <3>3. /\ old.slot[s[2]].weight \in Int /\ old.slot[s[2]].timeFirst \in Int
          /\ old.slot[s[2]].timeRecent \in Int
      BY OldTypes DEF Slots
    <3> QED BY <2>1, <3>2, <3>3 DEF InitEdge, EdgeType, Directions, Word
  <2>2. CASE ~(s[1] = 1 /\ s[2] < Len(c))
    BY <2>2 DEF InitEdge, EdgeType, Directions, Word, ZeroEdge
  <2> QED BY <2>1, <2>2
<1>3. eb \in [Blocks -> BlockType]
  BY <1>0, OldTypes DEF InitWith, InitBlock, BlockType, EmptyBlock, Word
<1>4. vertex \in [inDegree : Nat, outDegree : Nat, degree : Nat]
  BY <1>0 DEF InitWith
<1>5. ebpool_tail \in 1..MaxBlocks + 1
  BY DEF InitWith
<1>6. eta \in [high : Nat, blocks : [0..MaxBlocks - 1 -> 0..MaxBlocks]]
  BY DEF InitWith
<1>7. pc \in [Threads -> Labels]
  BY DEF InitWith, Labels
<1>8. frame \in [Threads -> FrameType]
  BY IdleFrameType DEF InitWith
<1>9. done \in [Threads -> Seq([op : OpType, ret : {0, 1}])]
  BY DEF InitWith
<1>10. CursorOK
  BY DEF InitWith, CursorOK, Cursor, IdleFrame, InBlockLabels, AtSlotLabels
<1> QED BY <1>1, <1>2, <1>3, <1>4, <1>5, <1>6, <1>7, <1>8, <1>9, <1>10
        DEF TypeInv, TypeOK

(* What TypeInv says of the thread that takes a step.                      *)
LEMMA AtThread ==
  ASSUME TypeInv, NEW t \in Threads
  PROVE  /\ frame[t] \in FrameType /\ pc[t] \in Labels
         /\ frame \in [Threads -> FrameType] /\ pc \in [Threads -> Labels]
         /\ Cursor(pc[t], frame[t], ebpool_tail)
         /\ frame[t].op \in OpType /\ Dest(t) \in Vertices /\ Dir(t) \in Directions
         /\ link[frame[t].tmp] \in 0..MaxBlocks \cup {MARKER}
         /\ link[frame[t].loc] \in 0..MaxBlocks \cup {MARKER}
BY DEF TypeInv, TypeOK, CursorOK, FrameType, OpType, Dest, Dir

LEMMA AtBlock ==
  ASSUME TypeInv, NEW t \in Threads, pc[t] \in InBlockLabels
  PROVE  frame[t].tmp \in Blocks /\ eb[frame[t].tmp] \in BlockType
<1>1. frame[t].tmp \in Blocks
  BY AtThread, ConstantsAssumption DEF Cursor, FrameType, Blocks
<1> QED BY <1>1 DEF TypeInv, TypeOK

LEMMA AtSlot ==
  ASSUME TypeInv, NEW t \in Threads, pc[t] \in AtSlotLabels
  PROVE  Slot(t) \in Slots /\ edge[Slot(t)] \in EdgeType
<1>1. frame[t].tmp \in Blocks
  BY AtBlock DEF AtSlotLabels
<1>2. frame[t].k \in Indices
  BY AtThread, ConstantsAssumption DEF Cursor, FrameType, Indices
<1> QED BY <1>1, <1>2 DEF TypeInv, TypeOK, Slot, Slots

(* A step gives its thread a new label l and new local variables f.        *)
LEMMA Control ==
  ASSUME TypeInv, NEW t \in Threads, NEW l \in Labels, NEW f \in FrameType,
         pc' = [pc EXCEPT ![t] = l], frame' = [frame EXCEPT ![t] = f],
         ebpool_tail' \in Nat, ebpool_tail <= ebpool_tail',
         Cursor(l, f, ebpool_tail')
  PROVE  /\ pc' \in [Threads -> Labels] /\ frame' \in [Threads -> FrameType]
         /\ \A u \in Threads : Cursor(pc'[u], frame'[u], ebpool_tail')
<1>1. pc' \in [Threads -> Labels] /\ frame' \in [Threads -> FrameType]
  BY DEF TypeInv, TypeOK
<1>2. ASSUME NEW u \in Threads PROVE Cursor(pc'[u], frame'[u], ebpool_tail')
  <2>1. CASE u = t
    BY <2>1, AtThread DEF Cursor
  <2>2. CASE u # t
    <3>1. pc'[u] = pc[u] /\ frame'[u] = frame[u] /\ Cursor(pc[u], frame[u], ebpool_tail)
      BY <2>2 DEF TypeInv, TypeOK, CursorOK
    <3>2. frame[u].tmp \in Nat /\ ebpool_tail \in Nat
      BY AtThread, ConstantsAssumption DEF TypeInv, TypeOK, FrameType
    <3> QED BY <3>1, <3>2 DEF Cursor
  <2> QED BY <2>1, <2>2
<1> QED BY <1>1, <1>2

(* The part of TypeInv that is about shared memory and results.            *)
SharedOK ==
  /\ link \in [0..MaxBlocks -> 0..MaxBlocks \cup {MARKER}]
  /\ \A b \in 0..MaxBlocks : link[b] # MARKER => link[b] < ebpool_tail
  /\ edge \in [Slots -> EdgeType]
  /\ eb \in [Blocks -> BlockType]
  /\ vertex \in [inDegree : Nat, outDegree : Nat, degree : Nat]
  /\ ebpool_tail \in 1..MaxBlocks + 1
  /\ eta \in [high : Nat, blocks : [0..MaxBlocks - 1 -> 0..MaxBlocks]]
  /\ done \in [Threads -> Seq([op : OpType, ret : {0, 1}])]

(* A step whose writes keep the types keeps TypeInv.                       *)
LEMMA StepType ==
  ASSUME TypeInv, NEW t \in Threads, NEW l \in Labels, NEW f \in FrameType,
         pc' = [pc EXCEPT ![t] = l], frame' = [frame EXCEPT ![t] = f],
         SharedOK', ebpool_tail <= ebpool_tail', Cursor(l, f, ebpool_tail')
  PROVE  TypeInv'
<1>1. ebpool_tail' \in Nat
  BY ConstantsAssumption DEF SharedOK
<1>2. /\ pc' \in [Threads -> Labels] /\ frame' \in [Threads -> FrameType]
      /\ \A u \in Threads : Cursor(pc'[u], frame'[u], ebpool_tail')
  BY <1>1, Control
<1> QED BY <1>2 DEF TypeInv, TypeOK, CursorOK, SharedOK

(* A step that only moves its thread.                                      *)
LEMMA LocalStep ==
  ASSUME TypeInv, NEW t \in Threads, NEW l \in Labels, NEW f \in FrameType,
         pc' = [pc EXCEPT ![t] = l], frame' = [frame EXCEPT ![t] = f],
         Cursor(l, f, ebpool_tail), UNCHANGED <<shared, done>>
  PROVE  TypeInv'
<1>1. UNCHANGED <<link, edge, eb, vertex, ebpool_tail, eta, done>>
  BY DEF shared
<1>2. SharedOK'
  BY <1>1 DEF TypeInv, TypeOK, CursorOK, SharedOK
<1>3. ebpool_tail <= ebpool_tail' /\ Cursor(l, f, ebpool_tail')
  BY <1>1, ConstantsAssumption DEF TypeInv, TypeOK
<1> QED BY <1>2, <1>3, StepType

(* One write to a slot, and one to a block's counters.                     *)
LEMMA EdgeWrite ==
  ASSUME SharedOK, NEW s \in Slots, NEW e \in EdgeType, edge' = [edge EXCEPT ![s] = e],
         UNCHANGED <<link, eb, vertex, ebpool_tail, eta>>,
         done' \in [Threads -> Seq([op : OpType, ret : {0, 1}])]
  PROVE  SharedOK'
BY DEF SharedOK

LEMMA ReturnType ==
  ASSUME TypeInv, NEW t \in Threads, NEW r \in {0, 1}, Return(t, r)
  PROVE  done' \in [Threads -> Seq([op : OpType, ret : {0, 1}])]
<1>1. /\ done \in [Threads -> Seq([op : OpType, ret : {0, 1}])]
      /\ done' = [done EXCEPT ![t] = Append(done[t], [op |-> frame[t].op, ret |-> r])]
  BY DEF TypeInv, TypeOK, Return
<1>2. [op |-> frame[t].op, ret |-> r] \in [op : OpType, ret : {0, 1}]
  BY AtThread
<1>3. Append(done[t], [op |-> frame[t].op, ret |-> r]) \in Seq([op : OpType, ret : {0, 1}])
  <2> DEFINE R == [op : OpType, ret : {0, 1}]
             e == [op |-> frame[t].op, ret |-> r]
  <2>1. done[t] \in Seq(R) /\ e \in R
    BY <1>1, <1>2
  <2> HIDE DEF R, e
  <2>2. Append(done[t], e) \in Seq(R)
    BY <2>1, AppendProperties
  <2> QED BY <2>2 DEF R, e
<1> QED BY <1>1, <1>3

LEMMA CountDirType ==
  ASSUME NEW v \in [inDegree : Nat, outDegree : Nat, degree : Nat], NEW d
  PROVE  CountDir(v, d) \in [inDegree : Nat, outDegree : Nat, degree : Nat]
BY DEF CountDir

LEMMA EtypeBeginType == ASSUME TypeInv, NEW t \in Threads, EtypeBegin(t) PROVE TypeInv'
<1> DEFINE l == IF link[0] = 0 THEN "seek_first" ELSE "find_block"
           f == [frame[t] EXCEPT !.tmp = link[0], !.loc = 0]
<1>1. frame[t] \in FrameType /\ frame \in [Threads -> FrameType]
      /\ Cursor(pc[t], frame[t], ebpool_tail)
  BY AtThread
<1>2. link[0] \in 0..MaxBlocks /\ link[0] < ebpool_tail
  BY ConstantsAssumption DEF TypeInv, TypeOK, CursorOK, EtypeBegin
<1>3. 0 \in 0..MaxBlocks
  BY ConstantsAssumption
<1>4. f \in FrameType
  BY <1>1, <1>2, <1>3 DEF FrameType
<1>5. f.tmp = link[0] /\ f.k = frame[t].k
  BY <1>1, <1>2, <1>3 DEF FrameType
<1>6. l \in Labels /\ Cursor(l, f, ebpool_tail)
  BY <1>1, <1>2, <1>3, <1>5 DEF EtypeBegin, Move, Cursor, Labels, InBlockLabels, AtSlotLabels
<1>7. frame' = [frame EXCEPT ![t] = f] /\ pc' = [pc EXCEPT ![t] = l] /\ UNCHANGED <<shared, done>>
  BY <1>1 DEF EtypeBegin, Move, Goto
<1> QED BY <1>4, <1>6, <1>7, LocalStep


LEMMA FindBlockType == ASSUME TypeInv, NEW t \in Threads, FindBlock(t) PROVE TypeInv'
<1> DEFINE l == "find_scan"
           f == [frame[t] EXCEPT !.endk = eb[frame[t].tmp].high, !.k = 0]
<1>1. frame[t] \in FrameType /\ frame \in [Threads -> FrameType]
      /\ Cursor(pc[t], frame[t], ebpool_tail)
  BY AtThread
<1>2. eb[frame[t].tmp].high \in 0..EBSize /\ 0 \in 0..EBSize
  BY ConstantsAssumption, AtBlock DEF FindBlock, Move, Labels, InBlockLabels, AtSlotLabels, BlockType
<1>3. f \in FrameType
  BY <1>1, <1>2 DEF FrameType
<1>4. f.tmp = frame[t].tmp /\ f.k = 0
  BY <1>1, <1>2 DEF FrameType
<1>5. l \in Labels /\ Cursor(l, f, ebpool_tail)
  BY <1>1, <1>2, <1>4 DEF FindBlock, Move, Cursor, Labels, InBlockLabels, AtSlotLabels
<1>6. frame' = [frame EXCEPT ![t] = f] /\ pc' = [pc EXCEPT ![t] = l] /\ UNCHANGED <<shared, done>>
  BY <1>1 DEF FindBlock, Move, Goto
<1> QED BY <1>3, <1>5, <1>6, LocalStep


LEMMA FindNextType == ASSUME TypeInv, NEW t \in Threads, FindNext(t) PROVE TypeInv'
<1> DEFINE l == IF link[frame[t].tmp] = 0 THEN "seek_first" ELSE "find_block"
           f == [frame[t] EXCEPT !.tmp = link[frame[t].tmp]]
<1>1. frame[t] \in FrameType /\ frame \in [Threads -> FrameType]
      /\ Cursor(pc[t], frame[t], ebpool_tail)
  BY AtThread
<1>2. link[frame[t].tmp] \in 0..MaxBlocks /\ link[frame[t].tmp] < ebpool_tail
  BY AtThread DEF FindNext, TypeInv, CursorOK, FrameType
<1>3. f \in FrameType
  BY <1>1, <1>2 DEF FrameType
<1>4. f.tmp = link[frame[t].tmp] /\ f.k = frame[t].k
  BY <1>1, <1>2 DEF FrameType
<1>5. l \in Labels /\ Cursor(l, f, ebpool_tail)
  BY <1>1, <1>2, <1>4 DEF FindNext, Move, Cursor, Labels, InBlockLabels, AtSlotLabels
<1>6. frame' = [frame EXCEPT ![t] = f] /\ pc' = [pc EXCEPT ![t] = l] /\ UNCHANGED <<shared, done>>
  BY <1>1 DEF FindNext, Move, Goto
<1> QED BY <1>3, <1>5, <1>6, LocalStep


LEMMA FoundType == ASSUME TypeInv, NEW t \in Threads, Found(t) PROVE TypeInv'
<1> DEFINE l == "upd_lock"
           f == [frame[t] EXCEPT !.ret = IF Dir(t) \in edge[Slot(t)].dirs THEN 0 ELSE 1, !.mode = frame[t].op.mode, !.then = "return"]
<1>1. frame[t] \in FrameType /\ frame \in [Threads -> FrameType]
      /\ Cursor(pc[t], frame[t], ebpool_tail)
  BY AtThread
<1>2. frame[t].op.mode \in {"SET", "INCR"}
  BY AtThread DEF OpType
<1>3. f \in FrameType
  BY <1>1, <1>2 DEF FrameType
<1>4. f.tmp = frame[t].tmp /\ f.k = frame[t].k
  BY <1>1, <1>2 DEF FrameType
<1>5. l \in Labels /\ Cursor(l, f, ebpool_tail)
  BY <1>1, <1>2, <1>4 DEF Found, Move, Cursor, Labels, InBlockLabels, AtSlotLabels
<1>6. frame' = [frame EXCEPT ![t] = f] /\ pc' = [pc EXCEPT ![t] = l] /\ UNCHANGED <<shared, done>>
  BY <1>1 DEF Found, Move, Goto
<1> QED BY <1>3, <1>5, <1>6, LocalStep


LEMMA SeekFirstType == ASSUME TypeInv, NEW t \in Threads, SeekFirst(t) PROVE TypeInv'
<1> DEFINE l == IF link[frame[t].loc] = 0 THEN "grow_lock" ELSE "seek_block"
           f == [frame[t] EXCEPT !.tmp = link[frame[t].loc]]
<1>1. frame[t] \in FrameType /\ frame \in [Threads -> FrameType]
      /\ Cursor(pc[t], frame[t], ebpool_tail)
  BY AtThread
<1>2. link[frame[t].loc] \in 0..MaxBlocks /\ link[frame[t].loc] < ebpool_tail
  BY AtThread DEF SeekFirst, TypeInv, CursorOK, FrameType
<1>3. f \in FrameType
  BY <1>1, <1>2 DEF FrameType
<1>4. f.tmp = link[frame[t].loc] /\ f.k = frame[t].k
  BY <1>1, <1>2 DEF FrameType
<1>5. l \in Labels /\ Cursor(l, f, ebpool_tail)
  BY <1>1, <1>2, <1>4 DEF SeekFirst, Move, Cursor, Labels, InBlockLabels, AtSlotLabels
<1>6. frame' = [frame EXCEPT ![t] = f] /\ pc' = [pc EXCEPT ![t] = l] /\ UNCHANGED <<shared, done>>
  BY <1>1 DEF SeekFirst, Move, Goto
<1> QED BY <1>3, <1>5, <1>6, LocalStep


LEMMA SeekBlockType == ASSUME TypeInv, NEW t \in Threads, SeekBlock(t) PROVE TypeInv'
<1> DEFINE l == "seek_scan"
           f == [frame[t] EXCEPT !.endk = eb[frame[t].tmp].high, !.k = 0]
<1>1. frame[t] \in FrameType /\ frame \in [Threads -> FrameType]
      /\ Cursor(pc[t], frame[t], ebpool_tail)
  BY AtThread
<1>2. eb[frame[t].tmp].high \in 0..EBSize /\ 0 \in 0..EBSize
  BY ConstantsAssumption, AtBlock DEF SeekBlock, Move, Labels, InBlockLabels, AtSlotLabels, BlockType
<1>3. f \in FrameType
  BY <1>1, <1>2 DEF FrameType
<1>4. f.tmp = frame[t].tmp /\ f.k = 0
  BY <1>1, <1>2 DEF FrameType
<1>5. l \in Labels /\ Cursor(l, f, ebpool_tail)
  BY <1>1, <1>2, <1>4 DEF SeekBlock, Move, Cursor, Labels, InBlockLabels, AtSlotLabels
<1>6. frame' = [frame EXCEPT ![t] = f] /\ pc' = [pc EXCEPT ![t] = l] /\ UNCHANGED <<shared, done>>
  BY <1>1 DEF SeekBlock, Move, Goto
<1> QED BY <1>3, <1>5, <1>6, LocalStep


LEMMA SeekNextType == ASSUME TypeInv, NEW t \in Threads, SeekNext(t) PROVE TypeInv'
<1> DEFINE l == IF link[frame[t].tmp] = 0 THEN "grow_lock" ELSE "seek_block"
           f == [frame[t] EXCEPT !.loc = frame[t].tmp, !.tmp = link[frame[t].tmp]]
<1>1. frame[t] \in FrameType /\ frame \in [Threads -> FrameType]
      /\ Cursor(pc[t], frame[t], ebpool_tail)
  BY AtThread
<1>2. link[frame[t].tmp] \in 0..MaxBlocks /\ link[frame[t].tmp] < ebpool_tail
  BY AtThread DEF SeekNext, TypeInv, CursorOK, FrameType
<1>3. f \in FrameType
  BY <1>1, <1>2 DEF FrameType
<1>4. f.tmp = link[frame[t].tmp] /\ f.k = frame[t].k
  BY <1>1, <1>2 DEF FrameType
<1>5. l \in Labels /\ Cursor(l, f, ebpool_tail)
  BY <1>1, <1>2, <1>4 DEF SeekNext, Move, Cursor, Labels, InBlockLabels, AtSlotLabels
<1>6. frame' = [frame EXCEPT ![t] = f] /\ pc' = [pc EXCEPT ![t] = l] /\ UNCHANGED <<shared, done>>
  BY <1>1 DEF SeekNext, Move, Goto
<1> QED BY <1>3, <1>5, <1>6, LocalStep


LEMMA ClaimReadType == ASSUME TypeInv, NEW t \in Threads, ClaimRead(t) PROVE TypeInv'
<1> DEFINE l == "claim_check"
           f == [frame[t] EXCEPT !.seen = edge[Slot(t)].neighbor]
<1>1. frame[t] \in FrameType /\ frame \in [Threads -> FrameType]
      /\ Cursor(pc[t], frame[t], ebpool_tail)
  BY AtThread
<1>2. edge[Slot(t)].neighbor \in Vertices \cup {Blank}
  BY AtSlot DEF ClaimRead, Move, Labels, InBlockLabels, AtSlotLabels, EdgeType
<1>3. f \in FrameType
  BY <1>1, <1>2 DEF FrameType
<1>4. f.tmp = frame[t].tmp /\ f.k = frame[t].k
  BY <1>1, <1>2 DEF FrameType
<1>5. l \in Labels /\ Cursor(l, f, ebpool_tail)
  BY <1>1, <1>2, <1>4 DEF ClaimRead, Move, Cursor, Labels, InBlockLabels, AtSlotLabels
<1>6. frame' = [frame EXCEPT ![t] = f] /\ pc' = [pc EXCEPT ![t] = l] /\ UNCHANGED <<shared, done>>
  BY <1>1 DEF ClaimRead, Move, Goto
<1> QED BY <1>3, <1>5, <1>6, LocalStep


LEMMA UpdTestType == ASSUME TypeInv, NEW t \in Threads, UpdTest(t) PROVE TypeInv'
<1> DEFINE l == IF edge[Slot(t)].neighbor = Blank \/ frame[t].k >= eb[frame[t].tmp].high THEN "upd_write" ELSE "upd_dir"
           f == frame[t]
<1>1. frame[t] \in FrameType /\ frame \in [Threads -> FrameType]
      /\ Cursor(pc[t], frame[t], ebpool_tail)
  BY AtThread
<1>2. f \in FrameType
  BY <1>1
<1>3. l \in Labels /\ Cursor(l, f, ebpool_tail)
  BY <1>1, <1>2 DEF UpdTest, Move, Cursor, Labels, InBlockLabels, AtSlotLabels
<1>4. frame' = [frame EXCEPT ![t] = f] /\ pc' = [pc EXCEPT ![t] = l] /\ UNCHANGED <<shared, done>>
  BY <1>1 DEF UpdTest, Move, Goto
<1> QED BY <1>2, <1>3, <1>4, LocalStep


LEMMA UpdStampType == ASSUME TypeInv, NEW t \in Threads, UpdStamp(t) PROVE TypeInv'
<1> DEFINE l == IF frame[t].op.ts < eb[frame[t].tmp].smallStamp \/ frame[t].op.ts > eb[frame[t].tmp].largeStamp THEN "upd_stamp_lock" ELSE "upd_recent"
           f == frame[t]
<1>1. frame[t] \in FrameType /\ frame \in [Threads -> FrameType]
      /\ Cursor(pc[t], frame[t], ebpool_tail)
  BY AtThread
<1>2. f \in FrameType
  BY <1>1
<1>3. l \in Labels /\ Cursor(l, f, ebpool_tail)
  BY <1>1, <1>2 DEF UpdStamp, Move, Cursor, Labels, InBlockLabels, AtSlotLabels
<1>4. frame' = [frame EXCEPT ![t] = f] /\ pc' = [pc EXCEPT ![t] = l] /\ UNCHANGED <<shared, done>>
  BY <1>1 DEF UpdStamp, Move, Goto
<1> QED BY <1>2, <1>3, <1>4, LocalStep

LEMMA CallType == ASSUME TypeInv, NEW t \in Threads, Call(t) PROVE TypeInv'
<1>1. PICK op \in Ops : frame' = [frame EXCEPT ![t] = [IdleFrame EXCEPT !.op = op]]
  BY DEF Call
<1> DEFINE f == [IdleFrame EXCEPT !.op = op]
<1>2. op \in OpType
  BY ConstantsAssumption
<1>3. f \in FrameType
  BY <1>2, IdleFrameType DEF FrameType
<1>4. f.tmp = 0
  BY DEF IdleFrame
<1>5. ebpool_tail \in 1..MaxBlocks + 1
  BY DEF TypeInv, TypeOK
<1>6. "etype_begin" \in Labels /\ Cursor("etype_begin", f, ebpool_tail)
  BY <1>4, <1>5, ConstantsAssumption DEF Cursor, Labels, InBlockLabels, AtSlotLabels
<1>7. pc' = [pc EXCEPT ![t] = "etype_begin"] /\ UNCHANGED <<shared, done>>
  BY DEF Call, Move, Goto
<1> QED BY <1>1, <1>3, <1>6, <1>7, LocalStep


LEMMA EndkBound ==
  ASSUME TypeInv, NEW t \in Threads, frame[t].k < frame[t].endk
  PROVE  frame[t].k < EBSize /\ frame[t].k + 1 \in 0..EBSize
BY AtThread, ConstantsAssumption DEF FrameType

LEMMA FindScanType == ASSUME TypeInv, NEW t \in Threads, FindScan(t) PROVE TypeInv'
<1>1. /\ frame[t] \in FrameType /\ frame \in [Threads -> FrameType]
      /\ pc[t] = "find_scan" /\ pc \in [Threads -> Labels] /\ pc[t] \in Labels
      /\ Cursor(pc[t], frame[t], ebpool_tail)
      /\ EBSize \in Nat
  BY AtThread, ConstantsAssumption DEF FindScan
<1>2. CASE edge[Slot(t)].neighbor = Dest(t)
  <2> DEFINE f == frame[t]
  <2>1. frame[t].k < EBSize
    BY <1>2, <1>1, EndkBound DEF FindScan
  <2>2. f \in FrameType
    BY <1>1
  <2>3. "found" \in Labels /\ Cursor("found", f, ebpool_tail)
    BY <1>2, <1>1, <2>1, <2>2 DEF Cursor, FrameType, Labels, InBlockLabels, AtSlotLabels
  <2>4. frame' = [frame EXCEPT ![t] = f] /\ pc' = [pc EXCEPT ![t] = "found"] /\ UNCHANGED <<shared, done>>
    BY <1>2, <1>1 DEF FindScan, Goto
  <2> QED BY <2>2, <2>3, <2>4, LocalStep
<1>3. CASE edge[Slot(t)].neighbor # Dest(t)
  <2> DEFINE f == [frame[t] EXCEPT !.k = frame[t].k + 1]
  <2>1. frame[t].k + 1 \in 0..EBSize
    BY <1>3, <1>1, EndkBound DEF FindScan
  <2>2. f \in FrameType /\ f.tmp = frame[t].tmp /\ f.k = frame[t].k + 1
    BY <1>1, <2>1 DEF FrameType
  <2>3. "find_scan" \in Labels /\ Cursor("find_scan", f, ebpool_tail)
    BY <1>3, <1>1, <2>1, <2>2 DEF Cursor, FrameType, Labels, InBlockLabels, AtSlotLabels
  <2>4. frame' = [frame EXCEPT ![t] = f] /\ pc' = [pc EXCEPT ![t] = "find_scan"] /\ UNCHANGED <<shared, done>>
    BY <1>3, <1>1 DEF FindScan, Goto
  <2> QED BY <2>2, <2>3, <2>4, LocalStep
<1> QED BY <1>2, <1>3 DEF FindScan


LEMMA SeekScanType == ASSUME TypeInv, NEW t \in Threads, SeekScan(t) PROVE TypeInv'
<1>1. /\ frame[t] \in FrameType /\ frame \in [Threads -> FrameType]
      /\ pc[t] = "seek_scan" /\ pc \in [Threads -> Labels] /\ pc[t] \in Labels
      /\ Cursor(pc[t], frame[t], ebpool_tail)
      /\ frame[t].k < EBSize /\ frame[t].k \in Nat
      /\ EBSize \in Nat
  BY AtThread, ConstantsAssumption DEF SeekScan, FrameType
<1>2. CASE pc' = [pc EXCEPT ![t] = "found"] /\ frame' = frame
  <2> DEFINE f == frame[t]
  <2>1. frame[t].k < EBSize
    BY <1>1
  <2>2. f \in FrameType
    BY <1>1
  <2>3. "found" \in Labels /\ Cursor("found", f, ebpool_tail)
    BY <1>2, <1>1, <2>1, <2>2 DEF Cursor, FrameType, Labels, InBlockLabels, AtSlotLabels
  <2>4. frame' = [frame EXCEPT ![t] = f] /\ pc' = [pc EXCEPT ![t] = "found"] /\ UNCHANGED <<shared, done>>
    BY <1>2, <1>1 DEF SeekScan
  <2> QED BY <2>2, <2>3, <2>4, LocalStep
<1>3. CASE pc' = [pc EXCEPT ![t] = "claim_lock"] /\ frame' = frame
  <2> DEFINE f == frame[t]
  <2>1. frame[t].k < EBSize
    BY <1>1
  <2>2. f \in FrameType
    BY <1>1
  <2>3. "claim_lock" \in Labels /\ Cursor("claim_lock", f, ebpool_tail)
    BY <1>3, <1>1, <2>1, <2>2 DEF Cursor, FrameType, Labels, InBlockLabels, AtSlotLabels
  <2>4. frame' = [frame EXCEPT ![t] = f] /\ pc' = [pc EXCEPT ![t] = "claim_lock"] /\ UNCHANGED <<shared, done>>
    BY <1>3, <1>1 DEF SeekScan, Goto
  <2> QED BY <2>2, <2>3, <2>4, LocalStep
<1>4. CASE frame' = [frame EXCEPT ![t].k = @ + 1] /\ pc' = pc
  <2> DEFINE f == [frame[t] EXCEPT !.k = frame[t].k + 1]
  <2>1. frame[t].k + 1 \in 0..EBSize
    BY <1>1
  <2>2. f \in FrameType /\ f.tmp = frame[t].tmp /\ f.k = frame[t].k + 1
    BY <1>1, <2>1 DEF FrameType
  <2>3. "seek_scan" \in Labels /\ Cursor("seek_scan", f, ebpool_tail)
    BY <1>4, <1>1, <2>1, <2>2 DEF Cursor, FrameType, Labels, InBlockLabels, AtSlotLabels
  <2>4. frame' = [frame EXCEPT ![t] = f] /\ pc' = [pc EXCEPT ![t] = "seek_scan"] /\ UNCHANGED <<shared, done>>
    BY <1>4, <1>1 DEF SeekScan, Goto
  <2> QED BY <2>2, <2>3, <2>4, LocalStep
<1> QED BY <1>2, <1>3, <1>4 DEF SeekScan, Goto


LEMMA ClaimCheckType == ASSUME TypeInv, NEW t \in Threads, ClaimCheck(t) PROVE TypeInv'
<1>1. /\ frame[t] \in FrameType /\ frame \in [Threads -> FrameType]
      /\ pc[t] = "claim_check" /\ pc \in [Threads -> Labels] /\ pc[t] \in Labels
      /\ Cursor(pc[t], frame[t], ebpool_tail)
      /\ eb[frame[t].tmp].high \in 0..EBSize /\ frame[t].op.mode \in {"SET", "INCR"}
      /\ EBSize \in Nat
  BY AtThread, AtBlock, ConstantsAssumption DEF ClaimCheck, BlockType, OpType, Labels, InBlockLabels, AtSlotLabels
<1>2. CASE frame[t].seen = Blank \/ frame[t].k >= eb[frame[t].tmp].high
  <2> DEFINE f == [frame[t] EXCEPT !.endk = eb[frame[t].tmp].high, !.mode = "SET", !.then = "return", !.ret = 1]
  <2>1. f \in FrameType /\ f.tmp = frame[t].tmp /\ f.k = frame[t].k
    BY <1>1 DEF FrameType
  <2>2. "upd_lock" \in Labels /\ Cursor("upd_lock", f, ebpool_tail)
    BY <1>2, <1>1, <2>1 DEF Cursor, FrameType, Labels, InBlockLabels, AtSlotLabels
  <2>3. frame' = [frame EXCEPT ![t] = f] /\ pc' = [pc EXCEPT ![t] = "upd_lock"] /\ UNCHANGED <<shared, done>>
    BY <1>2, <1>1 DEF ClaimCheck, Free, Goto
  <2> QED BY <2>1, <2>2, <2>3, LocalStep
<1>3. CASE ~(frame[t].seen = Blank \/ frame[t].k >= eb[frame[t].tmp].high) /\ frame[t].seen = Dest(t)
  <2> DEFINE f == [frame[t] EXCEPT !.endk = eb[frame[t].tmp].high, !.mode = frame[t].op.mode, !.then = "restore", !.ret = 0]
  <2>1. f \in FrameType /\ f.tmp = frame[t].tmp /\ f.k = frame[t].k
    BY <1>1 DEF FrameType
  <2>2. "upd_lock" \in Labels /\ Cursor("upd_lock", f, ebpool_tail)
    BY <1>3, <1>1, <2>1 DEF Cursor, FrameType, Labels, InBlockLabels, AtSlotLabels
  <2>3. frame' = [frame EXCEPT ![t] = f] /\ pc' = [pc EXCEPT ![t] = "upd_lock"] /\ UNCHANGED <<shared, done>>
    BY <1>3, <1>1 DEF ClaimCheck, Free, Goto
  <2> QED BY <2>1, <2>2, <2>3, LocalStep
<1>4. CASE ~(frame[t].seen = Blank \/ frame[t].k >= eb[frame[t].tmp].high) /\ frame[t].seen # Dest(t)
  <2> DEFINE f == [frame[t] EXCEPT !.endk = eb[frame[t].tmp].high]
  <2>1. f \in FrameType /\ f.tmp = frame[t].tmp /\ f.k = frame[t].k
    BY <1>1 DEF FrameType
  <2>2. "claim_release" \in Labels /\ Cursor("claim_release", f, ebpool_tail)
    BY <1>4, <1>1, <2>1 DEF Cursor, FrameType, Labels, InBlockLabels, AtSlotLabels
  <2>3. frame' = [frame EXCEPT ![t] = f] /\ pc' = [pc EXCEPT ![t] = "claim_release"] /\ UNCHANGED <<shared, done>>
    BY <1>4, <1>1 DEF ClaimCheck, Free, Goto
  <2> QED BY <2>1, <2>2, <2>3, LocalStep
<1> QED BY <1>2, <1>3, <1>4

LEMMA ClaimLockType == ASSUME TypeInv, NEW t \in Threads, ClaimLock(t) PROVE TypeInv'
<1> DEFINE l == "claim_read"
           f == [frame[t] EXCEPT !.timefirst = edge[Slot(t)].timeFirst]
<1>1. /\ frame[t] \in FrameType /\ frame \in [Threads -> FrameType]
      /\ Cursor(pc[t], frame[t], ebpool_tail) /\ SharedOK
  BY AtThread DEF TypeInv, TypeOK, CursorOK, SharedOK
<1>2. Slot(t) \in Slots /\ edge[Slot(t)] \in EdgeType
  BY AtSlot DEF ClaimLock, Move, Labels, InBlockLabels, AtSlotLabels
<1>3. edge[Slot(t)].timeFirst \in Int
  BY <1>2 DEF ClaimLock, EdgeType, Word
<1>4. f \in FrameType
  BY <1>1, <1>2, <1>3 DEF FrameType
<1>5. f.tmp = frame[t].tmp /\ f.k = frame[t].k
  BY <1>1, <1>2, <1>3 DEF FrameType
<1>6. SharedOK'
  BY <1>1, <1>2, <1>3, ConstantsAssumption DEF ClaimLock, SharedOK, EdgeType, Word
<1>7. ebpool_tail <= ebpool_tail' /\ l \in Labels /\ Cursor(l, f, ebpool_tail')
  BY <1>1, <1>2, <1>3, <1>5, ConstantsAssumption DEF ClaimLock, Move, Cursor, SharedOK, Labels, InBlockLabels, AtSlotLabels, FrameType
<1>8. frame' = [frame EXCEPT ![t] = f] /\ pc' = [pc EXCEPT ![t] = l]
  BY <1>1 DEF ClaimLock, Move, Goto, Return
<1> QED BY <1>4, <1>6, <1>7, <1>8, StepType


LEMMA ClaimReleaseType == ASSUME TypeInv, NEW t \in Threads, ClaimRelease(t) PROVE TypeInv'
<1> DEFINE l == "seek_scan"
           f == [frame[t] EXCEPT !.k = frame[t].k + 1]
<1>1. /\ frame[t] \in FrameType /\ frame \in [Threads -> FrameType]
      /\ Cursor(pc[t], frame[t], ebpool_tail) /\ SharedOK
  BY AtThread DEF TypeInv, TypeOK, CursorOK, SharedOK
<1>2. Slot(t) \in Slots /\ edge[Slot(t)] \in EdgeType
  BY AtSlot DEF ClaimRelease, Move, Labels, InBlockLabels, AtSlotLabels
<1>3. frame[t].k + 1 \in 0..EBSize
  <2>1. pc[t] = "claim_release"
    BY DEF ClaimRelease, Move
  <2>2. frame[t].k < EBSize
    BY <1>1, <2>1 DEF Cursor, Labels, InBlockLabels, AtSlotLabels
  <2>3. frame[t].k \in 0..EBSize /\ EBSize \in Nat
    BY <1>1, ConstantsAssumption DEF FrameType
  <2> QED BY <2>2, <2>3
<1>4. frame[t].timefirst \in Int
  BY <1>1 DEF FrameType
<1>5. f \in FrameType
  BY <1>1, <1>2, <1>3, <1>4 DEF FrameType
<1>6. f.tmp = frame[t].tmp /\ f.k = frame[t].k + 1
  BY <1>1, <1>2, <1>3, <1>4 DEF FrameType
<1>7. SharedOK'
  BY <1>1, <1>2, <1>3, <1>4, ConstantsAssumption DEF ClaimRelease, SharedOK, EdgeType, Word
<1>8. ebpool_tail <= ebpool_tail' /\ l \in Labels /\ Cursor(l, f, ebpool_tail')
  BY <1>1, <1>2, <1>3, <1>4, <1>6, ConstantsAssumption DEF ClaimRelease, Move, Cursor, SharedOK, Labels, InBlockLabels, AtSlotLabels, FrameType
<1>9. frame' = [frame EXCEPT ![t] = f] /\ pc' = [pc EXCEPT ![t] = l]
  BY <1>1 DEF ClaimRelease, Move, Goto, Return
<1> QED BY <1>5, <1>7, <1>8, <1>9, StepType


LEMMA UpdLockType == ASSUME TypeInv, NEW t \in Threads, UpdLock(t) PROVE TypeInv'
<1> DEFINE l == "upd_test"
           f == [frame[t] EXCEPT !.weight = edge[Slot(t)].weight]
<1>1. /\ frame[t] \in FrameType /\ frame \in [Threads -> FrameType]
      /\ Cursor(pc[t], frame[t], ebpool_tail) /\ SharedOK
  BY AtThread DEF TypeInv, TypeOK, CursorOK, SharedOK
<1>2. Slot(t) \in Slots /\ edge[Slot(t)] \in EdgeType
  BY AtSlot DEF UpdLock, Move, Labels, InBlockLabels, AtSlotLabels
<1>3. edge[Slot(t)].weight \in Int
  BY <1>2 DEF UpdLock, EdgeType, Word
<1>4. f \in FrameType
  BY <1>1, <1>2, <1>3 DEF FrameType
<1>5. f.tmp = frame[t].tmp /\ f.k = frame[t].k
  BY <1>1, <1>2, <1>3 DEF FrameType
<1>6. SharedOK'
  BY <1>1, <1>2, <1>3, ConstantsAssumption DEF UpdLock, SharedOK, EdgeType, Word
<1>7. ebpool_tail <= ebpool_tail' /\ l \in Labels /\ Cursor(l, f, ebpool_tail')
  BY <1>1, <1>2, <1>3, <1>5, ConstantsAssumption DEF UpdLock, Move, Cursor, SharedOK, Labels, InBlockLabels, AtSlotLabels, FrameType
<1>8. frame' = [frame EXCEPT ![t] = f] /\ pc' = [pc EXCEPT ![t] = l]
  BY <1>1 DEF UpdLock, Move, Goto, Return
<1> QED BY <1>4, <1>6, <1>7, <1>8, StepType


LEMMA UpdWriteType == ASSUME TypeInv, NEW t \in Threads, UpdWrite(t) PROVE TypeInv'
<1> DEFINE l == "upd_count"
           f == frame[t]
<1>1. /\ frame[t] \in FrameType /\ frame \in [Threads -> FrameType]
      /\ Cursor(pc[t], frame[t], ebpool_tail) /\ SharedOK
  BY AtThread DEF TypeInv, TypeOK, CursorOK, SharedOK
<1>2. Slot(t) \in Slots /\ edge[Slot(t)] \in EdgeType
  BY AtSlot DEF UpdWrite, Move, Labels, InBlockLabels, AtSlotLabels
<1>3. Dest(t) \in Vertices /\ Dir(t) \in Directions /\ frame[t].op.ts \in Int /\ frame[t].op.weight \in Int
  BY AtThread DEF OpType
<1>4. f \in FrameType
  BY <1>1
<1>5. SharedOK'
  <2> DEFINE e == [edge[Slot(t)] EXCEPT !.neighbor = Dest(t), !.dirs = {Dir(t)}]
  <2>1. e \in EdgeType
    BY <1>2, <1>3 DEF EdgeType
  <2>2. edge' = [edge EXCEPT ![Slot(t)] = e]
    BY <1>1, <1>2 DEF UpdWrite, SharedOK
  <2> QED BY <1>1, <1>2, <2>1, <2>2, EdgeWrite DEF UpdWrite, SharedOK
<1>6. ebpool_tail <= ebpool_tail' /\ l \in Labels /\ Cursor(l, f, ebpool_tail')
  BY <1>1, <1>2, <1>3, <1>4, ConstantsAssumption DEF UpdWrite, Move, Cursor, SharedOK, Labels, InBlockLabels, AtSlotLabels, FrameType
<1>7. frame' = [frame EXCEPT ![t] = f] /\ pc' = [pc EXCEPT ![t] = l]
  BY <1>1 DEF UpdWrite, Move, Goto, Return
<1> QED BY <1>4, <1>5, <1>6, <1>7, StepType


LEMMA UpdCountType == ASSUME TypeInv, NEW t \in Threads, UpdCount(t) PROVE TypeInv'
<1> DEFINE l == "upd_high"
           f == frame[t]
<1>1. /\ frame[t] \in FrameType /\ frame \in [Threads -> FrameType]
      /\ Cursor(pc[t], frame[t], ebpool_tail) /\ SharedOK
  BY AtThread DEF TypeInv, TypeOK, CursorOK, SharedOK
<1>2. frame[t].tmp \in Blocks /\ eb[frame[t].tmp] \in BlockType
  BY AtBlock DEF UpdCount, Move, Labels, InBlockLabels, AtSlotLabels
<1>3. Dest(t) \in Vertices /\ Dir(t) \in Directions /\ frame[t].op.ts \in Int /\ frame[t].op.weight \in Int
  BY AtThread DEF OpType
<1>4. f \in FrameType
  BY <1>1
<1>5. SharedOK'
  <2>1. eb' \in [Blocks -> BlockType]
    <3> DEFINE e == [eb[frame[t].tmp] EXCEPT !.numEdges = eb[frame[t].tmp].numEdges + 1]
    <3>1. e \in BlockType
      BY <1>2 DEF BlockType
    <3>2. eb \in [Blocks -> BlockType] /\ eb' = [eb EXCEPT ![frame[t].tmp] = e]
      BY <1>1, <1>2 DEF UpdCount, SharedOK
    <3> QED BY <1>2, <3>1, <3>2
  <2>2. CountDir(vertex, Dir(t)) \in [inDegree : Nat, outDegree : Nat, degree : Nat]
    BY <1>1, CountDirType DEF SharedOK
  <2>3. vertex' \in [inDegree : Nat, outDegree : Nat, degree : Nat]
    BY <2>2 DEF UpdCount
  <2> QED BY <1>1, <2>1, <2>3 DEF UpdCount, SharedOK
<1>6. ebpool_tail <= ebpool_tail' /\ l \in Labels /\ Cursor(l, f, ebpool_tail')
  BY <1>1, <1>2, <1>3, <1>4, ConstantsAssumption DEF UpdCount, Move, Cursor, SharedOK, Labels, InBlockLabels, AtSlotLabels, FrameType
<1>7. frame' = [frame EXCEPT ![t] = f] /\ pc' = [pc EXCEPT ![t] = l]
  BY <1>1 DEF UpdCount, Move, Goto, Return
<1> QED BY <1>4, <1>5, <1>6, <1>7, StepType


LEMMA UpdHighType == ASSUME TypeInv, NEW t \in Threads, UpdHigh(t) PROVE TypeInv'
<1> DEFINE l == "upd_first"
           f == frame[t]
<1>1. /\ frame[t] \in FrameType /\ frame \in [Threads -> FrameType]
      /\ Cursor(pc[t], frame[t], ebpool_tail) /\ SharedOK
  BY AtThread DEF TypeInv, TypeOK, CursorOK, SharedOK
<1>2. frame[t].tmp \in Blocks /\ eb[frame[t].tmp] \in BlockType
  BY AtBlock DEF UpdHigh, Move, Labels, InBlockLabels, AtSlotLabels
<1>3. frame[t].k + 1 \in 0..EBSize
  BY <1>1, ConstantsAssumption, SMTT(40) DEF UpdHigh, Move, Cursor, FrameType, Labels, InBlockLabels, AtSlotLabels
<1>4. f \in FrameType
  BY <1>1
<1>5. SharedOK'
  BY <1>1, <1>2, <1>3, ConstantsAssumption DEF UpdHigh, SharedOK, BlockType, Word
<1>6. ebpool_tail <= ebpool_tail' /\ l \in Labels /\ Cursor(l, f, ebpool_tail')
  BY <1>1, <1>2, <1>3, <1>4, ConstantsAssumption DEF UpdHigh, Move, Cursor, SharedOK, Labels, InBlockLabels, AtSlotLabels, FrameType
<1>7. frame' = [frame EXCEPT ![t] = f] /\ pc' = [pc EXCEPT ![t] = l]
  BY <1>1 DEF UpdHigh, Move, Goto, Return
<1> QED BY <1>4, <1>5, <1>6, <1>7, StepType


LEMMA UpdFirstType == ASSUME TypeInv, NEW t \in Threads, UpdFirst(t) PROVE TypeInv'
<1> DEFINE l == AfterDirection(t)
           f == frame[t]
<1>1. /\ frame[t] \in FrameType /\ frame \in [Threads -> FrameType]
      /\ Cursor(pc[t], frame[t], ebpool_tail) /\ SharedOK
  BY AtThread DEF TypeInv, TypeOK, CursorOK, SharedOK
<1>2. Slot(t) \in Slots /\ edge[Slot(t)] \in EdgeType
  BY AtSlot DEF UpdFirst, Move, Labels, InBlockLabels, AtSlotLabels
<1>3. Dest(t) \in Vertices /\ Dir(t) \in Directions /\ frame[t].op.ts \in Int /\ frame[t].op.weight \in Int
  BY AtThread DEF OpType
<1>4. f \in FrameType
  BY <1>1
<1>5. SharedOK'
  BY <1>1, <1>2, <1>3, ConstantsAssumption DEF UpdFirst, SharedOK, EdgeType, Word
<1>6. ebpool_tail <= ebpool_tail' /\ l \in Labels /\ Cursor(l, f, ebpool_tail')
  BY <1>1, <1>2, <1>3, <1>4, ConstantsAssumption DEF UpdFirst, AfterDirection, Move, Cursor, SharedOK, Labels, InBlockLabels, AtSlotLabels, FrameType
<1>7. frame' = [frame EXCEPT ![t] = f] /\ pc' = [pc EXCEPT ![t] = l]
  BY <1>1 DEF UpdFirst, Move, Goto, Return
<1> QED BY <1>4, <1>5, <1>6, <1>7, StepType


LEMMA UpdNewOutType == ASSUME TypeInv, NEW t \in Threads, UpdNewOut(t) PROVE TypeInv'
<1> DEFINE l == "upd_stamp"
           f == frame[t]
<1>1. /\ frame[t] \in FrameType /\ frame \in [Threads -> FrameType]
      /\ Cursor(pc[t], frame[t], ebpool_tail) /\ SharedOK
  BY AtThread DEF TypeInv, TypeOK, CursorOK, SharedOK
<1>2. Slot(t) \in Slots /\ edge[Slot(t)] \in EdgeType
  BY AtSlot DEF UpdNewOut, Move, Labels, InBlockLabels, AtSlotLabels
<1>3. Dest(t) \in Vertices /\ Dir(t) \in Directions /\ frame[t].op.ts \in Int /\ frame[t].op.weight \in Int
  BY AtThread DEF OpType
<1>4. f \in FrameType
  BY <1>1
<1>5. SharedOK'
  <2>1. edge' \in [Slots -> EdgeType]
    BY <1>1, <1>2, <1>3 DEF UpdNewOut, SharedOK, EdgeType, Word
  <2>2. vertex' \in [inDegree : Nat, outDegree : Nat, degree : Nat]
    BY <1>1, CountDirType DEF UpdNewOut, SharedOK
  <2> QED BY <1>1, <2>1, <2>2 DEF UpdNewOut, SharedOK
<1>6. ebpool_tail <= ebpool_tail' /\ l \in Labels /\ Cursor(l, f, ebpool_tail')
  BY <1>1, <1>2, <1>3, <1>4, ConstantsAssumption DEF UpdNewOut, Move, Cursor, SharedOK, Labels, InBlockLabels, AtSlotLabels, FrameType
<1>7. frame' = [frame EXCEPT ![t] = f] /\ pc' = [pc EXCEPT ![t] = l]
  BY <1>1 DEF UpdNewOut, Move, Goto, Return
<1> QED BY <1>4, <1>5, <1>6, <1>7, StepType


LEMMA UpdStampLockType == ASSUME TypeInv, NEW t \in Threads, UpdStampLock(t) PROVE TypeInv'
<1> DEFINE l == "upd_stamp_set"
           f == [frame[t] EXCEPT !.stamp = eb[frame[t].tmp].smallStamp]
<1>1. /\ frame[t] \in FrameType /\ frame \in [Threads -> FrameType]
      /\ Cursor(pc[t], frame[t], ebpool_tail) /\ SharedOK
  BY AtThread DEF TypeInv, TypeOK, CursorOK, SharedOK
<1>2. frame[t].tmp \in Blocks /\ eb[frame[t].tmp] \in BlockType
  BY AtBlock DEF UpdStampLock, Move, Labels, InBlockLabels, AtSlotLabels
<1>3. eb[frame[t].tmp].smallStamp \in Int
  BY <1>2 DEF UpdStampLock, BlockType, Word
<1>4. f \in FrameType
  BY <1>1, <1>2, <1>3 DEF FrameType
<1>5. f.tmp = frame[t].tmp /\ f.k = frame[t].k
  BY <1>1, <1>2, <1>3 DEF FrameType
<1>6. SharedOK'
  BY <1>1, <1>2, <1>3, ConstantsAssumption DEF UpdStampLock, SharedOK, BlockType, Word
<1>7. ebpool_tail <= ebpool_tail' /\ l \in Labels /\ Cursor(l, f, ebpool_tail')
  BY <1>1, <1>2, <1>3, <1>5, ConstantsAssumption DEF UpdStampLock, Move, Cursor, SharedOK, Labels, InBlockLabels, AtSlotLabels, FrameType
<1>8. frame' = [frame EXCEPT ![t] = f] /\ pc' = [pc EXCEPT ![t] = l]
  BY <1>1 DEF UpdStampLock, Move, Goto, Return
<1> QED BY <1>4, <1>6, <1>7, <1>8, StepType


LEMMA UpdStampSetType == ASSUME TypeInv, NEW t \in Threads, UpdStampSet(t) PROVE TypeInv'
<1> DEFINE l == "upd_recent"
           f == frame[t]
<1>1. /\ frame[t] \in FrameType /\ frame \in [Threads -> FrameType]
      /\ Cursor(pc[t], frame[t], ebpool_tail) /\ SharedOK
  BY AtThread DEF TypeInv, TypeOK, CursorOK, SharedOK
<1>2. frame[t].tmp \in Blocks /\ eb[frame[t].tmp] \in BlockType
  BY AtBlock DEF UpdStampSet, Move, Labels, InBlockLabels, AtSlotLabels
<1>3. Dest(t) \in Vertices /\ Dir(t) \in Directions /\ frame[t].op.ts \in Int /\ frame[t].op.weight \in Int
  BY AtThread DEF OpType
<1>4. frame[t].stamp \in Int
  BY <1>1 DEF FrameType
<1>5. f \in FrameType
  BY <1>1
<1>6. SharedOK'
  BY <1>1, <1>2, <1>3, <1>4, ConstantsAssumption DEF UpdStampSet, SharedOK, BlockType, Word
<1>7. ebpool_tail <= ebpool_tail' /\ l \in Labels /\ Cursor(l, f, ebpool_tail')
  BY <1>1, <1>2, <1>3, <1>4, <1>5, ConstantsAssumption DEF UpdStampSet, Move, Cursor, SharedOK, Labels, InBlockLabels, AtSlotLabels, FrameType
<1>8. frame' = [frame EXCEPT ![t] = f] /\ pc' = [pc EXCEPT ![t] = l]
  BY <1>1 DEF UpdStampSet, Move, Goto, Return
<1> QED BY <1>5, <1>6, <1>7, <1>8, StepType


LEMMA UpdRecentType == ASSUME TypeInv, NEW t \in Threads, UpdRecent(t) PROVE TypeInv'
<1> DEFINE l == "upd_unlock"
           f == frame[t]
<1>1. /\ frame[t] \in FrameType /\ frame \in [Threads -> FrameType]
      /\ Cursor(pc[t], frame[t], ebpool_tail) /\ SharedOK
  BY AtThread DEF TypeInv, TypeOK, CursorOK, SharedOK
<1>2. Slot(t) \in Slots /\ edge[Slot(t)] \in EdgeType
  BY AtSlot DEF UpdRecent, Move, Labels, InBlockLabels, AtSlotLabels
<1>3. Dest(t) \in Vertices /\ Dir(t) \in Directions /\ frame[t].op.ts \in Int /\ frame[t].op.weight \in Int
  BY AtThread DEF OpType
<1>4. f \in FrameType
  BY <1>1
<1>5. SharedOK'
  BY <1>1, <1>2, <1>3, ConstantsAssumption DEF UpdRecent, SharedOK, EdgeType, Word
<1>6. ebpool_tail <= ebpool_tail' /\ l \in Labels /\ Cursor(l, f, ebpool_tail')
  BY <1>1, <1>2, <1>3, <1>4, ConstantsAssumption DEF UpdRecent, Move, Cursor, SharedOK, Labels, InBlockLabels, AtSlotLabels, FrameType
<1>7. frame' = [frame EXCEPT ![t] = f] /\ pc' = [pc EXCEPT ![t] = l]
  BY <1>1 DEF UpdRecent, Move, Goto, Return
<1> QED BY <1>4, <1>5, <1>6, <1>7, StepType


LEMMA UpdRestoreType == ASSUME TypeInv, NEW t \in Threads, UpdRestore(t) PROVE TypeInv'
<1> DEFINE l == "idle"
           f == IdleFrame
<1>1. /\ frame[t] \in FrameType /\ frame \in [Threads -> FrameType]
      /\ Cursor(pc[t], frame[t], ebpool_tail) /\ SharedOK
  BY AtThread DEF TypeInv, TypeOK, CursorOK, SharedOK
<1>2. Slot(t) \in Slots /\ edge[Slot(t)] \in EdgeType
  BY AtSlot DEF UpdRestore, Move, Labels, InBlockLabels, AtSlotLabels
<1>3. frame[t].timefirst \in Int
  BY <1>1 DEF FrameType
<1>4. frame[t].ret \in {0, 1}
  BY <1>1 DEF FrameType
<1>5. f \in FrameType
  BY IdleFrameType
<1>6. f.tmp = 0
  BY DEF IdleFrame
<1>7. SharedOK'
  <2> DEFINE e == [edge[Slot(t)] EXCEPT !.timeFirst = frame[t].timefirst]
  <2>1. e \in EdgeType
    BY <1>2, <1>3 DEF EdgeType, Word
  <2>2. edge' = [edge EXCEPT ![Slot(t)] = e]
    BY <1>1, <1>2 DEF UpdRestore, SharedOK
  <2>3. done' \in [Threads -> Seq([op : OpType, ret : {0, 1}])]
    BY <1>4, ReturnType DEF UpdRestore
  <2> QED BY <1>1, <1>2, <2>1, <2>2, <2>3, EdgeWrite DEF UpdRestore
<1>8. ebpool_tail <= ebpool_tail' /\ l \in Labels /\ Cursor(l, f, ebpool_tail')
  BY <1>1, <1>6, ConstantsAssumption DEF UpdRestore, Cursor, SharedOK, Labels, InBlockLabels, AtSlotLabels
<1>9. frame' = [frame EXCEPT ![t] = f] /\ pc' = [pc EXCEPT ![t] = l]
  BY <1>1 DEF UpdRestore, Move, Goto, Return
<1> QED BY <1>5, <1>7, <1>8, <1>9, StepType


LEMMA GrowLockType == ASSUME TypeInv, NEW t \in Threads, GrowLock(t) PROVE TypeInv'
<1> DEFINE l == IF link[frame[t].loc] = 0 THEN "grow_new" ELSE "grow_retry"
           f == [frame[t] EXCEPT !.tmp = link[frame[t].loc]]
<1>1. /\ frame[t] \in FrameType /\ frame \in [Threads -> FrameType]
      /\ Cursor(pc[t], frame[t], ebpool_tail) /\ SharedOK
  BY AtThread DEF TypeInv, TypeOK, CursorOK, SharedOK
<1>2. link[frame[t].loc] \in 0..MaxBlocks /\ link[frame[t].loc] < ebpool_tail
  BY AtThread DEF GrowLock, TypeInv, CursorOK, FrameType
<1>3. f \in FrameType
  BY <1>1, <1>2 DEF FrameType
<1>4. f.tmp = link[frame[t].loc] /\ f.k = frame[t].k
  BY <1>1, <1>2 DEF FrameType
<1>5. SharedOK'
  BY <1>1, <1>2, ConstantsAssumption DEF GrowLock, SharedOK
<1>6. ebpool_tail <= ebpool_tail' /\ l \in Labels /\ Cursor(l, f, ebpool_tail')
  BY <1>1, <1>2, <1>4, ConstantsAssumption DEF GrowLock, Move, Cursor, SharedOK, Labels, InBlockLabels, AtSlotLabels, FrameType
<1>7. frame' = [frame EXCEPT ![t] = f] /\ pc' = [pc EXCEPT ![t] = l]
  BY <1>1 DEF GrowLock, Move, Goto, Return
<1> QED BY <1>3, <1>5, <1>6, <1>7, StepType


LEMMA GrowRetryType == ASSUME TypeInv, NEW t \in Threads, GrowRetry(t) PROVE TypeInv'
<1> DEFINE l == "seek_first"
           f == frame[t]
<1>1. /\ frame[t] \in FrameType /\ frame \in [Threads -> FrameType]
      /\ Cursor(pc[t], frame[t], ebpool_tail) /\ SharedOK
  BY AtThread DEF TypeInv, TypeOK, CursorOK, SharedOK
<1>2. frame[t].tmp \in 0..MaxBlocks /\ frame[t].tmp < ebpool_tail
  BY <1>1 DEF FrameType, Cursor
<1>3. f \in FrameType
  BY <1>1
<1>4. SharedOK'
  BY <1>1, <1>2, ConstantsAssumption DEF GrowRetry, SharedOK
<1>5. ebpool_tail <= ebpool_tail' /\ l \in Labels /\ Cursor(l, f, ebpool_tail')
  BY <1>1, <1>2, <1>3, ConstantsAssumption DEF GrowRetry, Move, Cursor, SharedOK, Labels, InBlockLabels, AtSlotLabels, FrameType
<1>6. frame' = [frame EXCEPT ![t] = f] /\ pc' = [pc EXCEPT ![t] = l]
  BY <1>1 DEF GrowRetry, Move, Goto, Return
<1> QED BY <1>3, <1>4, <1>5, <1>6, StepType


LEMMA GrowNewType == ASSUME TypeInv, NEW t \in Threads, GrowNew(t) PROVE TypeInv'
<1> DEFINE l == "upd_lock"
           f == [frame[t] EXCEPT !.tmp = ebpool_tail, !.k = 0, !.mode = "SET", !.then = "push_ebs", !.ret = 1]
<1>1. /\ frame[t] \in FrameType /\ frame \in [Threads -> FrameType]
      /\ Cursor(pc[t], frame[t], ebpool_tail) /\ SharedOK
  BY AtThread DEF TypeInv, TypeOK, CursorOK, SharedOK
<1>2. ebpool_tail \in Blocks /\ ebpool_tail \in 0..MaxBlocks /\ 0 \in 0..EBSize
  BY <1>1, ConstantsAssumption DEF GrowNew, SharedOK, Blocks
<1>3. ZeroEdge \in EdgeType /\ EmptyBlock \in BlockType
  BY ConstantsAssumption DEF ZeroEdge, EmptyBlock, EdgeType, BlockType, Word, Directions
<1>4. f \in FrameType
  BY <1>1, <1>2, <1>3 DEF FrameType
<1>5. f.tmp = ebpool_tail /\ f.k = 0
  BY <1>1, <1>2, <1>3 DEF FrameType
<1>6. SharedOK'
  <2>1. edge' \in [Slots -> EdgeType]
    BY <1>1, <1>3 DEF GrowNew, SharedOK
  <2>2. eb' \in [Blocks -> BlockType]
    BY <1>1, <1>3 DEF GrowNew, SharedOK
  <2>3. /\ ebpool_tail' \in 1..MaxBlocks + 1
        /\ \A b \in 0..MaxBlocks : link'[b] # MARKER => link'[b] < ebpool_tail'
    BY <1>1, ConstantsAssumption, SMTT(40) DEF GrowNew, SharedOK
  <2> QED BY <1>1, <2>1, <2>2, <2>3 DEF GrowNew, SharedOK
<1>7. ebpool_tail <= ebpool_tail' /\ l \in Labels /\ Cursor(l, f, ebpool_tail')
  <2>1. ebpool_tail \in Nat \ {0} /\ ebpool_tail' = ebpool_tail + 1 /\ 0 < EBSize
    <3>1. ebpool_tail \in 1..MaxBlocks + 1
      BY <1>1 DEF SharedOK
    <3>2. ebpool_tail' = ebpool_tail + 1
      BY <1>1 DEF GrowNew
    <3>3. MaxBlocks \in Nat /\ 0 < EBSize
      BY ConstantsAssumption
    <3> QED BY <3>1, <3>2, <3>3
  <2> QED BY <1>5, <2>1 DEF Cursor, Labels, InBlockLabels, AtSlotLabels
<1>8. frame' = [frame EXCEPT ![t] = f] /\ pc' = [pc EXCEPT ![t] = l]
  BY <1>1 DEF GrowNew, Move, Goto, Return
<1> QED BY <1>4, <1>6, <1>7, <1>8, StepType


LEMMA PushEbsType == ASSUME TypeInv, NEW t \in Threads, PushEbs(t) PROVE TypeInv'
<1> DEFINE l == "push_block"
           f == [frame[t] EXCEPT !.place = eta.high]
<1>1. /\ frame[t] \in FrameType /\ frame \in [Threads -> FrameType]
      /\ Cursor(pc[t], frame[t], ebpool_tail) /\ SharedOK
  BY AtThread DEF TypeInv, TypeOK, CursorOK, SharedOK
<1>2. eta.high \in Nat
  BY <1>1 DEF SharedOK
<1>3. f \in FrameType
  BY <1>1, <1>2 DEF FrameType
<1>4. f.tmp = frame[t].tmp /\ f.k = frame[t].k
  BY <1>1, <1>2 DEF FrameType
<1>5. SharedOK'
  <2>1. frame[t].tmp \in 0..MaxBlocks /\ 0 \in 0..MaxBlocks /\ 0 < ebpool_tail
    BY <1>1, ConstantsAssumption DEF SharedOK, FrameType
  <2>2. link' \in [0..MaxBlocks -> 0..MaxBlocks \cup {MARKER}]
    BY <1>1, <2>1 DEF PushEbs, SharedOK
  <2>3. \A b \in 0..MaxBlocks : link'[b] # MARKER => link'[b] < ebpool_tail
    BY <1>1, <2>1 DEF PushEbs, SharedOK
  <2>4. eta' \in [high : Nat, blocks : [0..MaxBlocks - 1 -> 0..MaxBlocks]]
    <3>1. eta \in [high : Nat, blocks : [0..MaxBlocks - 1 -> 0..MaxBlocks]]
          /\ eta' = [eta EXCEPT !.high = eta.high + 1]
      BY <1>1 DEF PushEbs, SharedOK
    <3>2. eta.high + 1 \in Nat
      BY <1>2
    <3> QED BY <3>1, <3>2
  <2> QED BY <1>1, <2>2, <2>3, <2>4 DEF PushEbs, SharedOK
<1>6. ebpool_tail <= ebpool_tail' /\ l \in Labels /\ Cursor(l, f, ebpool_tail')
  BY <1>1, <1>2, <1>4, ConstantsAssumption DEF PushEbs, Move, Cursor, SharedOK, Labels, InBlockLabels, AtSlotLabels, FrameType
<1>7. frame' = [frame EXCEPT ![t] = f] /\ pc' = [pc EXCEPT ![t] = l]
  BY <1>1 DEF PushEbs, Move, Goto, Return
<1> QED BY <1>3, <1>5, <1>6, <1>7, StepType


LEMMA PushBlockType == ASSUME TypeInv, NEW t \in Threads, PushBlock(t) PROVE TypeInv'
<1> DEFINE l == "grow_link"
           f == frame[t]
<1>1. /\ frame[t] \in FrameType /\ frame \in [Threads -> FrameType]
      /\ Cursor(pc[t], frame[t], ebpool_tail) /\ SharedOK
  BY AtThread DEF TypeInv, TypeOK, CursorOK, SharedOK
<1>2. frame[t].tmp \in 0..MaxBlocks
  BY <1>1 DEF FrameType
<1>3. f \in FrameType
  BY <1>1
<1>4. SharedOK'
  BY <1>1, <1>2, ConstantsAssumption DEF PushBlock, SharedOK
<1>5. ebpool_tail <= ebpool_tail' /\ l \in Labels /\ Cursor(l, f, ebpool_tail')
  BY <1>1, <1>2, <1>3, ConstantsAssumption DEF PushBlock, Move, Cursor, SharedOK, Labels, InBlockLabels, AtSlotLabels, FrameType
<1>6. frame' = [frame EXCEPT ![t] = f] /\ pc' = [pc EXCEPT ![t] = l]
  BY <1>1 DEF PushBlock, Move, Goto, Return
<1> QED BY <1>3, <1>4, <1>5, <1>6, StepType


LEMMA GrowLinkType == ASSUME TypeInv, NEW t \in Threads, GrowLink(t) PROVE TypeInv'
<1> DEFINE l == "idle"
           f == IdleFrame
<1>1. /\ frame[t] \in FrameType /\ frame \in [Threads -> FrameType]
      /\ Cursor(pc[t], frame[t], ebpool_tail) /\ SharedOK
  BY AtThread DEF TypeInv, TypeOK, CursorOK, SharedOK
<1>2. frame[t].tmp \in 0..MaxBlocks /\ frame[t].tmp < ebpool_tail
  BY <1>1 DEF FrameType, Cursor
<1>3. frame[t].ret \in {0, 1}
  BY <1>1 DEF FrameType
<1>4. f \in FrameType
  BY IdleFrameType
<1>5. f.tmp = 0
  BY DEF IdleFrame
<1>6. SharedOK'
  <2>1. done' \in [Threads -> Seq([op : OpType, ret : {0, 1}])]
    BY <1>3, ReturnType DEF GrowLink
  <2> QED BY <1>1, <1>2, <2>1 DEF GrowLink, SharedOK
<1>7. ebpool_tail <= ebpool_tail' /\ l \in Labels /\ Cursor(l, f, ebpool_tail')
  BY <1>1, <1>5, ConstantsAssumption DEF GrowLink, Cursor, SharedOK, Labels, InBlockLabels, AtSlotLabels
<1>8. frame' = [frame EXCEPT ![t] = f] /\ pc' = [pc EXCEPT ![t] = l]
  BY <1>1 DEF GrowLink, Move, Goto, Return
<1> QED BY <1>4, <1>6, <1>7, <1>8, StepType

LEMMA NewWeightType ==
  ASSUME TypeInv, NEW t \in Threads
  PROVE  NewWeight(t) \in Int
<1>1. frame[t].weight \in Int /\ frame[t].op.weight \in Int
  BY AtThread DEF FrameType, OpType
<1> QED BY <1>1 DEF NewWeight

LEMMA UpdDirType == ASSUME TypeInv, NEW t \in Threads, UpdDir(t) PROVE TypeInv'
<1> DEFINE f == frame[t]
<1>1. /\ frame[t] \in FrameType /\ frame \in [Threads -> FrameType] /\ frame' = frame
      /\ pc[t] = "upd_dir" /\ Cursor(pc[t], frame[t], ebpool_tail) /\ SharedOK
  BY AtThread DEF TypeInv, TypeOK, CursorOK, SharedOK, UpdDir
<1>2. Slot(t) \in Slots /\ edge[Slot(t)] \in EdgeType
  BY <1>1, AtSlot DEF Labels, InBlockLabels, AtSlotLabels
<1>3. PICK l \in {"upd_stamp", "upd_unlock", "upd_newout"} : pc' = [pc EXCEPT ![t] = l]
  BY DEF UpdDir, AfterDirection, Goto
<1>4. edge' \in [Slots -> EdgeType]
  <2>1. edge[Slot(t)].dirs \cup {"OUT"} \in SUBSET Directions
        /\ edge[Slot(t)].dirs \cup {"IN"} \in SUBSET Directions
    BY <1>2 DEF EdgeType, Directions
  <2> DEFINE e(d) == [edge[Slot(t)] EXCEPT !.dirs = edge[Slot(t)].dirs \cup {d}]
  <2>2. e("OUT") \in EdgeType /\ e("IN") \in EdgeType
    BY <1>2, <2>1 DEF EdgeType
  <2>3. edge \in [Slots -> EdgeType]
    BY <1>1 DEF SharedOK
  <2>4. \/ edge' = edge
        \/ edge' = [edge EXCEPT ![Slot(t)] = e("OUT")]
        \/ edge' = [edge EXCEPT ![Slot(t)] = e("IN")]
    BY <1>2, <2>3 DEF UpdDir
  <2> QED BY <1>2, <2>2, <2>3, <2>4
<1>5. vertex' \in [inDegree : Nat, outDegree : Nat, degree : Nat]
  BY <1>1, CountDirType DEF UpdDir, SharedOK
<1>6. SharedOK' /\ ebpool_tail <= ebpool_tail'
  <2>1. UNCHANGED <<link, eb, ebpool_tail, eta, done>>
    BY DEF UpdDir
  <2>2. ebpool_tail \in Nat
    BY <1>1, ConstantsAssumption DEF SharedOK
  <2>3. SharedOK'
    BY <1>1, <1>4, <1>5, <2>1 DEF SharedOK
  <2> QED BY <2>1, <2>2, <2>3
<1>7. l \in Labels /\ Cursor(l, f, ebpool_tail')
  BY <1>1, <1>3 DEF UpdDir, Cursor, Labels, InBlockLabels, AtSlotLabels
<1>8. frame' = [frame EXCEPT ![t] = f]
  BY <1>1
<1> QED BY <1>1, <1>3, <1>6, <1>7, <1>8, StepType

LEMMA UpdUnlockType == ASSUME TypeInv, NEW t \in Threads, UpdUnlock(t) PROVE TypeInv'
<1>1. /\ frame[t] \in FrameType /\ frame \in [Threads -> FrameType]
      /\ done \in [Threads -> Seq([op : OpType, ret : {0, 1}])]
      /\ pc[t] = "upd_unlock" /\ Cursor(pc[t], frame[t], ebpool_tail) /\ SharedOK
  BY AtThread DEF TypeInv, TypeOK, CursorOK, SharedOK, UpdUnlock
<1>2. Slot(t) \in Slots /\ edge[Slot(t)] \in EdgeType
  BY <1>1, AtSlot DEF Labels, InBlockLabels, AtSlotLabels
<1>3. ASSUME done' \in [Threads -> Seq([op : OpType, ret : {0, 1}])]
      PROVE  SharedOK' /\ ebpool_tail <= ebpool_tail' /\ ebpool_tail' = ebpool_tail
             /\ 0 < ebpool_tail
  <2> DEFINE e == [edge[Slot(t)] EXCEPT !.weight = NewWeight(t)]
  <2>1. e \in EdgeType
    BY <1>2, NewWeightType DEF EdgeType, Word
  <2>2. edge' = [edge EXCEPT ![Slot(t)] = e]
    BY <1>1, <1>2 DEF UpdUnlock, SharedOK
  <2>3. SharedOK'
    BY <1>1, <1>2, <1>3, <2>1, <2>2, EdgeWrite DEF UpdUnlock
  <2>4. ebpool_tail' = ebpool_tail
    BY DEF UpdUnlock
  <2>5. ebpool_tail \in Nat /\ 0 < ebpool_tail
    BY <1>1, ConstantsAssumption DEF SharedOK
  <2> QED BY <2>3, <2>4, <2>5
<1>4. CASE frame[t].then = "return"
  <2>1. done' \in [Threads -> Seq([op : OpType, ret : {0, 1}])]
    BY <1>1, <1>4, ReturnType DEF UpdUnlock, FrameType
  <2>2. IdleFrame.tmp = 0
    BY DEF IdleFrame
  <2>3. "idle" \in Labels /\ Cursor("idle", IdleFrame, ebpool_tail')
    BY <1>3, <2>1, <2>2 DEF Cursor, Labels, InBlockLabels, AtSlotLabels
  <2>4. frame' = [frame EXCEPT ![t] = IdleFrame] /\ pc' = [pc EXCEPT ![t] = "idle"]
    BY <1>4 DEF UpdUnlock, Return, Goto
  <2> QED BY <1>3, <2>1, <2>3, <2>4, IdleFrameType, StepType
<1>5. CASE frame[t].then # "return"
  <2> DEFINE l == frame[t].then
             f == frame[t]
  <2>1. done' = done /\ frame' = [frame EXCEPT ![t] = f] /\ pc' = [pc EXCEPT ![t] = l]
    BY <1>1, <1>5 DEF UpdUnlock, Goto
  <2>2. l \in {"restore", "push_ebs"}
    BY <1>1, <1>5 DEF FrameType
  <2>3. l \in Labels /\ Cursor(l, f, ebpool_tail)
    BY <1>1, <2>2 DEF Cursor, Labels, InBlockLabels, AtSlotLabels
  <2> QED BY <1>1, <1>3, <2>1, <2>3, StepType
<1> QED BY <1>4, <1>5

-----------------------------------------------------------------------------
LEMMA NextType == TypeInv /\ [Next]_vars => TypeInv'
<1> SUFFICES ASSUME TypeInv, [Next]_vars PROVE TypeInv'
  OBVIOUS
<1>1. CASE UNCHANGED vars
  BY <1>1 DEF vars, TypeInv, TypeOK, CursorOK
<1>2. ASSUME NEW t \in Threads, Call(t) PROVE TypeInv'
  BY <1>2, CallType
<1>3. ASSUME NEW t \in Threads, Step(t) PROVE TypeInv'
  BY <1>3, EtypeBeginType, FindBlockType, FindScanType, FindNextType, FoundType,
     SeekFirstType, SeekBlockType, SeekScanType, SeekNextType, ClaimLockType,
     ClaimReadType, ClaimCheckType, ClaimReleaseType, UpdLockType, UpdTestType,
     UpdWriteType, UpdCountType, UpdHighType, UpdFirstType, UpdDirType,
     UpdNewOutType, UpdStampType, UpdStampLockType, UpdStampSetType,
     UpdRecentType, UpdUnlockType, UpdRestoreType, GrowLockType, GrowRetryType,
     GrowNewType, PushEbsType, PushBlockType, GrowLinkType DEF Step
<1> QED BY <1>1, <1>2, <1>3 DEF Next, Finished

(* Cursors stay inside blocks the pool handed out, in every behaviour.     *)
THEOREM TypeInvariant == Spec => []TypeInv
BY InitType, NextType, PTL DEF Spec

(* Every word and local variable keeps its type: no index leaves its block *)
(* and no thread ever computes with the value of an empty word.            *)
THEOREM TypeCorrect == Spec => []TypeOK
<1>1. TypeInv => TypeOK
  BY DEF TypeInv
<1> QED BY <1>1, TypeInvariant, PTL

-----------------------------------------------------------------------------
(* The weight word locks the slot.                                         *)

(* A step of t that writes no weight, and neither starts nor ends an       *)
(* update nor, within one, moves to another slot.                          *)
LEMMA LockUntouched ==
  ASSUME TypeInv, SlotLock, NEW t \in Threads,
         \A u \in Threads \ {t} : pc'[u] = pc[u] /\ frame'[u] = frame[u],
         pc'[t] \in Updating <=> pc[t] \in Updating,
         pc[t] \in Updating => frame'[t].tmp = frame[t].tmp /\ frame'[t].k = frame[t].k,
         \A s \in Slots : edge'[s].weight = edge[s].weight
  PROVE  SlotLock'
<1>1. \A u \in Threads : /\ pc'[u] \in Updating <=> pc[u] \in Updating
                         /\ pc[u] \in Updating => Slot(u)' = Slot(u)
  BY DEF Slot
<1>2. \A u \in Threads : pc[u] \in Updating => Slot(u) \in Slots
  BY AtSlot DEF Updating, Labels, InBlockLabels, AtSlotLabels
<1> QED BY <1>1, <1>2 DEF SlotLock

(* What every step of t leaves alone.                                      *)
LEMMA Others ==
  ASSUME TypeInv, NEW t \in Threads, Call(t) \/ Step(t)
  PROVE  \A u \in Threads \ {t} : pc'[u] = pc[u] /\ frame'[u] = frame[u]
<1>1. pc \in [Threads -> Labels] /\ frame \in [Threads -> FrameType]
  BY DEF TypeInv, TypeOK
<1>2. CASE Call(t)
  BY <1>1, <1>2 DEF Call, Move, Goto
<1>3. CASE \/ EtypeBegin(t) \/ FindBlock(t) \/ FindScan(t) \/ FindNext(t) \/ Found(t)
           \/ SeekFirst(t) \/ SeekBlock(t) \/ SeekScan(t) \/ SeekNext(t)
  BY <1>1, <1>3 DEF EtypeBegin, FindBlock, FindScan, FindNext, Found, SeekFirst,
     SeekBlock, SeekScan, SeekNext, Move, Goto
<1>4. CASE \/ ClaimLock(t) \/ ClaimRead(t) \/ ClaimCheck(t) \/ ClaimRelease(t)
           \/ UpdLock(t) \/ UpdTest(t) \/ UpdWrite(t) \/ UpdCount(t) \/ UpdHigh(t)
  BY <1>1, <1>4 DEF ClaimLock, ClaimRead, ClaimCheck, ClaimRelease, UpdLock,
     UpdTest, UpdWrite, UpdCount, UpdHigh, Move, Goto
<1>5. CASE \/ UpdFirst(t) \/ UpdDir(t) \/ UpdNewOut(t) \/ UpdStamp(t)
           \/ UpdStampLock(t) \/ UpdStampSet(t) \/ UpdRecent(t) \/ UpdUnlock(t)
           \/ UpdRestore(t)
  BY <1>1, <1>5 DEF UpdFirst, UpdDir, UpdNewOut, UpdStamp, UpdStampLock,
     UpdStampSet, UpdRecent, UpdUnlock, UpdRestore, Return, Move, Goto
<1>6. CASE \/ GrowLock(t) \/ GrowRetry(t) \/ GrowNew(t)
           \/ PushEbs(t) \/ PushBlock(t) \/ GrowLink(t)
  BY <1>1, <1>6 DEF GrowLock, GrowRetry, GrowNew, PushEbs, PushBlock, GrowLink,
     Return, Move, Goto
<1> QED BY <1>2, <1>3, <1>4, <1>5, <1>6 DEF Step

(* The steps before and after an update of a slot, but GrowNew.            *)
LEMMA OutsideLock ==
  ASSUME TypeInv, SlotLock, NEW t \in Threads,
         \/ Call(t) \/ EtypeBegin(t) \/ FindBlock(t) \/ FindScan(t) \/ FindNext(t)
         \/ Found(t) \/ SeekFirst(t) \/ SeekBlock(t) \/ SeekScan(t) \/ SeekNext(t)
         \/ ClaimLock(t) \/ ClaimRead(t) \/ ClaimCheck(t) \/ ClaimRelease(t)
         \/ UpdRestore(t) \/ GrowLock(t) \/ GrowRetry(t) \/ PushEbs(t)
         \/ PushBlock(t) \/ GrowLink(t)
  PROVE  SlotLock'
<1>1. pc \in [Threads -> Labels] /\ edge \in [Slots -> EdgeType]
  BY DEF TypeInv, TypeOK
<1>2. pc[t] \notin Updating /\ pc'[t] \notin Updating
  <2>1. CASE \/ Call(t) \/ EtypeBegin(t) \/ FindBlock(t) \/ FindScan(t) \/ FindNext(t)
             \/ Found(t) \/ SeekFirst(t) \/ SeekBlock(t) \/ SeekScan(t) \/ SeekNext(t)
    BY <1>1, <2>1 DEF Call, EtypeBegin, FindBlock, FindScan, FindNext, Found,
       SeekFirst, SeekBlock, SeekScan, SeekNext, Move, Goto, Updating
  <2>2. CASE \/ ClaimLock(t) \/ ClaimRead(t) \/ ClaimCheck(t) \/ ClaimRelease(t)
             \/ UpdRestore(t) \/ GrowLock(t) \/ GrowRetry(t) \/ PushEbs(t)
             \/ PushBlock(t) \/ GrowLink(t)
    BY <1>1, <2>2 DEF ClaimLock, ClaimRead, ClaimCheck, ClaimRelease, UpdRestore,
       GrowLock, GrowRetry, PushEbs, PushBlock, GrowLink, Return, Move, Goto, Updating
  <2> QED BY <2>1, <2>2
<1>3. \/ edge' = edge
      \/ \E w : edge' = [edge EXCEPT ![Slot(t)].timeFirst = w]
  BY DEF Call, EtypeBegin, FindBlock, FindScan, FindNext, Found, SeekFirst, SeekBlock,
     SeekScan, SeekNext, ClaimLock, ClaimRead, ClaimCheck, ClaimRelease, UpdRestore,
     GrowLock, GrowRetry, PushEbs, PushBlock, GrowLink, shared
<1>4. \A s \in Slots : edge'[s].weight = edge[s].weight
  BY <1>1, <1>3 DEF EdgeType
<1>5. Call(t) \/ Step(t)
  BY DEF Step
<1> QED BY <1>2, <1>4, <1>5, Others, LockUntouched

(* The steps of an update between its lock and its unlock.                 *)
LEMMA InsideLock ==
  ASSUME TypeInv, SlotLock, NEW t \in Threads,
         \/ UpdTest(t) \/ UpdWrite(t) \/ UpdCount(t) \/ UpdHigh(t) \/ UpdFirst(t)
         \/ UpdDir(t) \/ UpdNewOut(t) \/ UpdStamp(t) \/ UpdStampLock(t)
         \/ UpdStampSet(t) \/ UpdRecent(t)
  PROVE  SlotLock'
<1>1. /\ pc \in [Threads -> Labels] /\ edge \in [Slots -> EdgeType]
      /\ frame \in [Threads -> FrameType] /\ frame[t] \in FrameType
  BY DEF TypeInv, TypeOK
<1>2. pc[t] \in Updating /\ pc'[t] \in Updating
  BY <1>1 DEF UpdTest, UpdWrite, UpdCount, UpdHigh, UpdFirst, UpdDir, UpdNewOut,
     UpdStamp, UpdStampLock, UpdStampSet, UpdRecent, AfterDirection, Move, Goto, Updating
<1>3. frame' = frame \/ \E w : frame' = [frame EXCEPT ![t].stamp = w]
  BY DEF UpdTest, UpdWrite, UpdCount, UpdHigh, UpdFirst, UpdDir, UpdNewOut,
     UpdStamp, UpdStampLock, UpdStampSet, UpdRecent
<1>4. frame'[t].tmp = frame[t].tmp /\ frame'[t].k = frame[t].k
  BY <1>1, <1>3 DEF FrameType
<1>5. \A s \in Slots : edge'[s].weight = edge[s].weight
  <2>1. CASE UpdTest(t) \/ UpdCount(t) \/ UpdHigh(t) \/ UpdStamp(t) \/ UpdStampLock(t)
             \/ UpdStampSet(t)
    BY <2>1 DEF UpdTest, UpdCount, UpdHigh, UpdStamp, UpdStampLock, UpdStampSet, shared
  <2>2. CASE UpdWrite(t)
    BY <1>1, <2>2 DEF UpdWrite, EdgeType
  <2>3. CASE UpdFirst(t) \/ UpdNewOut(t) \/ UpdRecent(t)
    BY <1>1, <2>3 DEF UpdFirst, UpdNewOut, UpdRecent, EdgeType
  <2>4. CASE UpdDir(t)
    BY <1>1, <2>4 DEF UpdDir, EdgeType
  <2> QED BY <2>1, <2>2, <2>3, <2>4
<1>6. Call(t) \/ Step(t)
  BY DEF Step
<1> QED BY <1>2, <1>4, <1>5, <1>6, Others, LockUntouched

LEMMA UpdatingSlot ==
  ASSUME TypeInv, NEW u \in Threads, pc[u] \in Updating
  PROVE  Slot(u) \in Slots
BY AtSlot DEF Updating, Labels, InBlockLabels, AtSlotLabels

LEMMA UpdLockLock ==
  ASSUME TypeInv, SlotLock, NEW t \in Threads, UpdLock(t) PROVE SlotLock'
<1>1. /\ pc \in [Threads -> Labels] /\ edge \in [Slots -> EdgeType]
      /\ frame \in [Threads -> FrameType] /\ frame[t] \in FrameType
  BY DEF TypeInv, TypeOK
<1>2. Slot(t) \in Slots /\ edge[Slot(t)].weight # MARKER
  BY AtSlot DEF UpdLock, Move, Labels, InBlockLabels, AtSlotLabels
<1>3. pc[t] \notin Updating /\ pc'[t] \in Updating
  BY <1>1 DEF UpdLock, Move, Goto, Updating
<1>4. \A u \in Threads \ {t} : pc'[u] = pc[u] /\ frame'[u] = frame[u]
  BY Others DEF Step
<1>5. frame'[t].tmp = frame[t].tmp /\ frame'[t].k = frame[t].k
  BY <1>1 DEF UpdLock, FrameType
<1>6. \A u \in Threads : Slot(u)' = Slot(u)
  BY <1>4, <1>5 DEF Slot
<1>7. /\ edge'[Slot(t)].weight = MARKER
      /\ \A s \in Slots \ {Slot(t)} : edge'[s].weight = edge[s].weight
  BY <1>1, <1>2 DEF UpdLock, EdgeType
<1>8. \A u \in Threads : pc[u] \in Updating => Slot(u) \in Slots
  BY UpdatingSlot
<1>9. \A u \in Threads : pc[u] \in Updating => Slot(u) # Slot(t)
  BY <1>2 DEF SlotLock
<1> QED
  <2>1. \A u \in Threads : pc'[u] \in Updating => edge'[Slot(u)'].weight = MARKER
    BY <1>4, <1>6, <1>7, <1>8, <1>9 DEF SlotLock
  <2>2. \A u, v \in Threads :
          u # v /\ pc'[u] \in Updating /\ pc'[v] \in Updating => Slot(u)' # Slot(v)'
    BY <1>4, <1>6, <1>9 DEF SlotLock
  <2>3. \A s \in Slots : edge'[s].weight = MARKER =>
          \E u \in Threads : pc'[u] \in Updating /\ Slot(u)' = s
    BY <1>3, <1>4, <1>6, <1>7 DEF SlotLock
  <2> QED BY <2>1, <2>2, <2>3 DEF SlotLock

LEMMA UpdUnlockLock ==
  ASSUME TypeInv, SlotLock, NEW t \in Threads, UpdUnlock(t) PROVE SlotLock'
<1>1. /\ pc \in [Threads -> Labels] /\ edge \in [Slots -> EdgeType]
      /\ frame \in [Threads -> FrameType] /\ frame[t] \in FrameType
  BY DEF TypeInv, TypeOK
<1>2. pc[t] \in Updating /\ pc'[t] \notin Updating
  BY <1>1 DEF UpdUnlock, Return, Goto, Updating, FrameType
<1>3. Slot(t) \in Slots
  BY <1>2, UpdatingSlot
<1>4. \A u \in Threads \ {t} : pc'[u] = pc[u] /\ frame'[u] = frame[u]
  BY Others DEF Step
<1>5. \A u \in Threads \ {t} : Slot(u)' = Slot(u)
  BY <1>4 DEF Slot
<1>6. /\ edge'[Slot(t)].weight # MARKER
      /\ \A s \in Slots \ {Slot(t)} : edge'[s].weight = edge[s].weight
  BY <1>1, <1>3, NewWeightType, ConstantsAssumption DEF UpdUnlock, EdgeType
<1>7. \A u \in Threads : pc[u] \in Updating => Slot(u) \in Slots
  BY UpdatingSlot
<1>8. \A u \in Threads \ {t} : pc[u] \in Updating => Slot(u) # Slot(t)
  BY <1>2 DEF SlotLock
<1> QED
  <2>1. \A u \in Threads : pc'[u] \in Updating => edge'[Slot(u)'].weight = MARKER
    BY <1>2, <1>4, <1>5, <1>6, <1>7, <1>8 DEF SlotLock
  <2>2. \A u, v \in Threads :
          u # v /\ pc'[u] \in Updating /\ pc'[v] \in Updating => Slot(u)' # Slot(v)'
    BY <1>2, <1>4, <1>5 DEF SlotLock
  <2>3. \A s \in Slots : edge'[s].weight = MARKER =>
          \E u \in Threads : pc'[u] \in Updating /\ Slot(u)' = s
    BY <1>4, <1>5, <1>6 DEF SlotLock
  <2> QED BY <2>1, <2>2, <2>3 DEF SlotLock

(* The block new_eb clears is one no thread's cursor has reached.          *)
LEMMA GrowNewLock ==
  ASSUME TypeInv, SlotLock, NEW t \in Threads, GrowNew(t) PROVE SlotLock'
<1>1. /\ pc \in [Threads -> Labels] /\ edge \in [Slots -> EdgeType]
      /\ frame \in [Threads -> FrameType] /\ ebpool_tail \in Nat
  BY ConstantsAssumption DEF TypeInv, TypeOK
<1>2. pc[t] \notin Updating /\ pc'[t] \notin Updating
  BY <1>1 DEF GrowNew, Move, Goto, Updating
<1>3. \A u \in Threads \ {t} : pc'[u] = pc[u] /\ frame'[u] = frame[u]
  BY Others DEF Step
<1>4. \A u \in Threads \ {t} : Slot(u)' = Slot(u)
  BY <1>3 DEF Slot
<1>5. \A s \in Slots : edge'[s] = IF s[1] = ebpool_tail THEN ZeroEdge ELSE edge[s]
  BY DEF GrowNew
<1>6. \A u \in Threads : pc[u] \in Updating => Slot(u) \in Slots
  BY UpdatingSlot
<1>7. \A u \in Threads : Slot(u)[1] # ebpool_tail
  <2> SUFFICES ASSUME NEW u \in Threads PROVE frame[u].tmp # ebpool_tail
    BY DEF Slot
  <2>1. frame[u].tmp < ebpool_tail /\ frame[u].tmp \in Nat
    BY AtThread, ConstantsAssumption DEF Cursor, FrameType
  <2> QED BY <1>1, <2>1
<1>8. ZeroEdge.weight # MARKER
  BY ConstantsAssumption DEF ZeroEdge
<1> QED
  <2>1. \A u \in Threads : pc'[u] \in Updating => edge'[Slot(u)'].weight = MARKER
    BY <1>2, <1>3, <1>4, <1>5, <1>6, <1>7 DEF SlotLock
  <2>2. \A u, v \in Threads :
          u # v /\ pc'[u] \in Updating /\ pc'[v] \in Updating => Slot(u)' # Slot(v)'
    BY <1>2, <1>3, <1>4 DEF SlotLock
  <2>3. \A s \in Slots : edge'[s].weight = MARKER =>
          \E u \in Threads : pc'[u] \in Updating /\ Slot(u)' = s
    BY <1>2, <1>3, <1>4, <1>5, <1>8 DEF SlotLock
  <2> QED BY <2>1, <2>2, <2>3 DEF SlotLock

LEMMA InitLock == Init => SlotLock
<1> SUFFICES ASSUME NEW c \in InitContents, NEW old \in OldWords, InitWith(c, old) PROVE SlotLock
  BY DEF Init
<1>1. \A t \in Threads : pc[t] = "idle"
  BY DEF InitWith
<1>2. \A s \in Slots : edge[s].weight \in Int
  BY OldTypes DEF InitWith, InitEdge, ZeroEdge, Slots
<1>3. MARKER \notin Int
  BY ConstantsAssumption
<1> QED BY <1>1, <1>2, <1>3 DEF SlotLock, Updating

(* While a thread is between readfe and writeef of a slot's weight no      *)
(* other thread is, at the same slot, and the word is empty just then.     *)
THEOREM SlotLockHolds == Spec => []SlotLock
<1>1. TypeInv /\ SlotLock /\ [Next]_vars => SlotLock'
  <2> SUFFICES ASSUME TypeInv, SlotLock, [Next]_vars PROVE SlotLock'
    OBVIOUS
  <2>1. CASE UNCHANGED vars
    BY <2>1 DEF vars, SlotLock, Slot
  <2>2. ASSUME NEW t \in Threads, Call(t) \/ Step(t) PROVE SlotLock'
    BY <2>2, OutsideLock, InsideLock, UpdLockLock, UpdUnlockLock, GrowNewLock DEF Step
  <2> QED BY <2>1, <2>2 DEF Next, Finished
<1> QED BY <1>1, InitLock, TypeInvariant, PTL DEF Spec

-----------------------------------------------------------------------------
(* The chain of blocks, and who holds the lock of a link.                  *)

GrowLabels == Updating \cup {"upd_lock", "push_ebs", "push_block", "grow_link"}

Growing(t) == frame[t].then = "push_ebs"

HoldsLink(t) == pc[t] \in {"grow_new", "grow_retry"} \/ Growing(t)

\* A link names the next block; only the last block of the chain has none.
ChainOK ==
  \A b \in 0..MaxBlocks :
    /\ link[b] \in {0, b + 1, MARKER}
    /\ link[b] = 0 => b >= ebpool_tail - 1
    /\ b >= ebpool_tail => link[b] = 0

\* What the pool has not handed out is as new_eb leaves it.
Untouched ==
  \A b \in Blocks : b >= ebpool_tail =>
    /\ eb[b] = EmptyBlock
    /\ \A k \in Indices : edge[<<b, k>>] = ZeroEdge

\* Where a thread is in the chain.
PlaceOK(t) ==
  /\ frame[t].loc < ebpool_tail
  /\ pc[t] \in {"seek_block", "seek_scan", "claim_lock", "claim_read", "claim_check",
                "claim_release", "grow_retry"} => frame[t].tmp = frame[t].loc + 1
  /\ pc[t] \in {"find_block", "find_scan"} => frame[t].loc = 0
  /\ pc[t] = "grow_new" => frame[t].loc = ebpool_tail - 1
  /\ pc[t] \in {"push_ebs", "push_block", "grow_link"} => Growing(t)
  /\ Growing(t) => /\ pc[t] \in GrowLabels
                   /\ frame[t].tmp = frame[t].loc + 1
                   /\ frame[t].tmp = ebpool_tail - 1
                   /\ link[frame[t].tmp] = 0
                   /\ \A u \in Threads \ {t} : /\ frame[u].tmp < frame[t].tmp
                                               /\ frame[u].loc < frame[t].tmp

\* The end of the chain is locked by the thread that appends to it.
LinkLock ==
  /\ \A t \in Threads : HoldsLink(t) => link[frame[t].loc] = MARKER
  /\ \A t, u \in Threads :
       t # u /\ HoldsLink(t) /\ HoldsLink(u) => frame[t].loc # frame[u].loc

LinkInv == ChainOK /\ Untouched /\ LinkLock /\ \A t \in Threads : PlaceOK(t)

-----------------------------------------------------------------------------
(* The slots.                                                              *)

\* Filled, and below the high water mark.
Complete(s) == edge[s].dirs # {} /\ s[2] < eb[s[1]].high

Before(p, s) == p[1] < s[1] \/ (p[1] = s[1] /\ p[2] < s[2])

\* A slot filled although one before it is free.
Old(s) == edge[s].dirs # {} /\ \E p \in Slots : edge[p].dirs = {} /\ Before(p, s)

\* Slots between the first write and the high water mark belong to a thread
\* that fills them.
SlotsOK ==
  \A s \in Slots :
    /\ edge[s].dirs # {} => edge[s].neighbor # Blank
    /\ s[2] < eb[s[1]].high /\ edge[s].neighbor # Blank => edge[s].dirs # {}
    /\ s[2] >= eb[s[1]].high /\ edge[s].dirs # {} =>
         \E t \in Threads : pc[t] \in {"upd_count", "upd_high"} /\ Slot(t) = s

\* Slots filled behind free ones are of the first block, and linked.
OldOK ==
  \A s \in Slots : Old(s) => s[1] = 1 /\ link[0] # 0 /\ s[2] < eb[1].high

\* The blocks t has left behind in its second pass, and the slots of the
\* present one, hold other neighbours.
PassedBlocks(t) ==
  \A s \in Slots : s[1] <= frame[t].loc =>
    edge[s].dirs # {} /\ edge[s].neighbor # Dest(t)

PassedSlots(t) ==
  \A s \in Slots : s[1] = frame[t].tmp /\ s[2] < frame[t].k =>
    edge[s].dirs # {} /\ edge[s].neighbor # Dest(t)

Passed(t) == frame[t].tmp = frame[t].loc + 1 /\ PassedBlocks(t) /\ PassedSlots(t)

\* The first pass of t has compared all slots filled behind free ones.
NoOld(t) == \A s \in Slots : Old(s) => edge[s].neighbor # Dest(t)

\* The slot holds the neighbour t inserts, and a slot t may fill with it.
Settled(t) == Complete(Slot(t)) /\ edge[Slot(t)].neighbor = Dest(t)
Fillable(t) == edge[Slot(t)].dirs = {} /\ Passed(t) /\ NoOld(t)

ScanningOK(t) == frame[t].endk <= eb[frame[t].tmp].high

SettledLabels == {"found", "upd_first", "upd_dir", "upd_newout", "upd_stamp",
                   "upd_stamp_lock", "upd_stamp_set", "upd_recent", "upd_unlock",
                   "restore"}

SearchOK(t) ==
  /\ pc[t] = "find_block" /\ frame[t].tmp # 1 => NoOld(t)
  /\ pc[t] = "find_scan" =>
       /\ ScanningOK(t)
       /\ \A s \in Slots : Old(s) =>
            /\ frame[t].tmp # 1 \/ s[2] < frame[t].k => edge[s].neighbor # Dest(t)
            /\ frame[t].tmp = 1 => s[2] < frame[t].endk
  /\ pc[t] \in {"seek_first", "grow_lock", "grow_retry", "grow_new", "seek_block"} =>
       PassedBlocks(t) /\ NoOld(t)
  /\ pc[t] \in {"seek_scan", "claim_lock", "claim_read", "claim_check"} =>
       Passed(t) /\ NoOld(t) /\ ScanningOK(t)
  /\ pc[t] = "claim_check" => frame[t].seen = edge[Slot(t)].neighbor
  /\ pc[t] = "claim_release" =>
       /\ Passed(t) /\ NoOld(t) /\ ScanningOK(t)
       /\ Complete(Slot(t)) /\ edge[Slot(t)].neighbor # Dest(t)

UpdateOK(t) ==
  /\ pc[t] \in {"upd_lock", "upd_test"} => Settled(t) \/ Fillable(t)
  /\ pc[t] = "upd_write" => Fillable(t)
  /\ pc[t] \in {"upd_count", "upd_high"} =>
       edge[Slot(t)].dirs # {} /\ edge[Slot(t)].neighbor = Dest(t) /\ Passed(t)
  /\ pc[t] \in SettledLabels => Settled(t)

\* The claim under timeFirst excludes others, as long as the slot is not filled.
Claiming == {"claim_read", "claim_check", "claim_release", "upd_lock", "upd_test",
             "upd_write", "upd_count", "upd_high"}

ClaimLockOK ==
  /\ \A t \in Threads : pc[t] \in Claiming /\ ~Complete(Slot(t)) =>
       Growing(t) \/ edge[Slot(t)].timeFirst = MARKER
  /\ \A t, u \in Threads :
       t # u /\ pc[t] \in Claiming /\ pc[u] \in Claiming /\ Slot(t) = Slot(u) =>
         Complete(Slot(t))

SlotInv == /\ SlotsOK /\ OldOK /\ ClaimLockOK /\ UniqueNeighbor
           /\ \A t \in Threads : SearchOK(t) /\ UpdateOK(t)

-----------------------------------------------------------------------------
(* What the steps do to the chain and to a thread's place in it.           *)

LEMMA Frames ==
  ASSUME TypeInv
  PROVE  /\ MaxBlocks \in Nat \ {0} /\ EBSize \in Nat \ {0} /\ MARKER \notin Int
         /\ pc \in [Threads -> Labels] /\ frame \in [Threads -> FrameType]
         /\ link \in [0..MaxBlocks -> 0..MaxBlocks \cup {MARKER}]
         /\ edge \in [Slots -> EdgeType] /\ eb \in [Blocks -> BlockType]
         /\ ebpool_tail \in 1..MaxBlocks + 1 /\ ebpool_tail \in Nat
         /\ \A t \in Threads : /\ frame[t].tmp \in 0..MaxBlocks /\ frame[t].tmp < ebpool_tail
                              /\ frame[t].loc \in 0..MaxBlocks
         /\ \A b \in 0..MaxBlocks : link[b] # MARKER => link[b] < ebpool_tail
<1>1. MaxBlocks \in Nat \ {0} /\ EBSize \in Nat \ {0} /\ MARKER \notin Int
  BY ConstantsAssumption
<1>2. /\ pc \in [Threads -> Labels] /\ frame \in [Threads -> FrameType]
      /\ link \in [0..MaxBlocks -> 0..MaxBlocks \cup {MARKER}]
      /\ edge \in [Slots -> EdgeType] /\ eb \in [Blocks -> BlockType]
      /\ ebpool_tail \in 1..MaxBlocks + 1
      /\ \A b \in 0..MaxBlocks : link[b] # MARKER => link[b] < ebpool_tail
  BY DEF TypeInv, TypeOK, CursorOK
<1>3. ASSUME NEW t \in Threads
      PROVE  /\ frame[t].tmp \in 0..MaxBlocks /\ frame[t].tmp < ebpool_tail
             /\ frame[t].loc \in 0..MaxBlocks
  BY AtThread DEF Cursor, FrameType
<1> QED BY <1>1, <1>2, <1>3

\* The steps that leave their thread where it is in the chain.
Stays(t) ==
  \/ FindBlock(t) \/ FindScan(t) \/ Found(t) \/ SeekBlock(t) \/ SeekScan(t)
  \/ ClaimLock(t) \/ ClaimRead(t) \/ ClaimCheck(t) \/ ClaimRelease(t)
  \/ UpdLock(t) \/ UpdTest(t) \/ UpdWrite(t) \/ UpdCount(t) \/ UpdHigh(t)
  \/ UpdFirst(t) \/ UpdDir(t) \/ UpdNewOut(t) \/ UpdStamp(t)
  \/ UpdStampLock(t) \/ UpdStampSet(t) \/ UpdRecent(t) \/ PushBlock(t)

\* What the second look under the lock leaves of its thread's variables.
LEMMA CheckFrame ==
  ASSUME frame \in [Threads -> FrameType], NEW t \in Threads, ClaimCheck(t)
  PROVE  /\ frame'[t].op = frame[t].op /\ frame'[t].tmp = frame[t].tmp
         /\ frame'[t].loc = frame[t].loc /\ frame'[t].k = frame[t].k
         /\ frame'[t].endk = eb[frame[t].tmp].high
         /\ frame'[t].then \in {"return", "restore", frame[t].then}
<1> DEFINE Kept == /\ frame'[t].op = frame[t].op /\ frame'[t].tmp = frame[t].tmp
                   /\ frame'[t].loc = frame[t].loc /\ frame'[t].k = frame[t].k
                   /\ frame'[t].endk = eb[frame[t].tmp].high
                   /\ frame'[t].then \in {"return", "restore", frame[t].then}
<1>1. ASSUME NEW m, NEW n \in {"return", "restore"}, NEW r,
             frame' = [frame EXCEPT ![t].endk = eb[frame[t].tmp].high, ![t].mode = m,
                                    ![t].then = n, ![t].ret = r]
      PROVE  Kept
  BY <1>1 DEF FrameType
<1>2. CASE Free(t)
  <2>1. frame' = [frame EXCEPT ![t].endk = eb[frame[t].tmp].high, ![t].mode = "SET",
                               ![t].then = "return", ![t].ret = 1]
    BY <1>2, Zenon DEF ClaimCheck
  <2> QED BY <1>1, <2>1
<1>3. CASE ~Free(t) /\ frame[t].seen = Dest(t)
  <2>1. frame' = [frame EXCEPT ![t].endk = eb[frame[t].tmp].high, ![t].mode = frame[t].op.mode,
                               ![t].then = "restore", ![t].ret = 0]
    BY <1>3, Zenon DEF ClaimCheck
  <2> QED BY <1>1, <2>1
<1>4. CASE ~Free(t) /\ frame[t].seen # Dest(t)
  <2>1. frame' = [frame EXCEPT ![t].endk = eb[frame[t].tmp].high]
    BY <1>4, Zenon DEF ClaimCheck
  <2> QED BY <2>1 DEF FrameType
<1> QED BY <1>2, <1>3, <1>4

LEMMA StaysInPlace ==
  ASSUME TypeInv, NEW t \in Threads, Stays(t)
  PROVE  /\ frame'[t].tmp = frame[t].tmp /\ frame'[t].loc = frame[t].loc
         /\ frame'[t].then = frame[t].then \/ frame'[t].then \in {"return", "restore"}
         /\ link' = link /\ ebpool_tail' = ebpool_tail
<1>1. frame \in [Threads -> FrameType] /\ frame[t] \in FrameType
  BY Frames
<1>2. CASE FindBlock(t) \/ FindScan(t) \/ Found(t) \/ SeekBlock(t) \/ SeekScan(t)
           \/ ClaimLock(t) \/ ClaimRead(t)
  BY <1>1, <1>2 DEF FindBlock, FindScan, Found, SeekBlock, SeekScan, ClaimLock,
     ClaimRead, FrameType, shared
<1>3. CASE ClaimRelease(t) \/ UpdLock(t) \/ UpdStampLock(t)
  BY <1>1, <1>3 DEF ClaimRelease, UpdLock, UpdStampLock, FrameType
<1>5. CASE ClaimCheck(t)
  <2>1. link' = link /\ ebpool_tail' = ebpool_tail
    BY <1>5 DEF ClaimCheck, shared
  <2> QED BY <1>1, <1>5, <2>1, CheckFrame
<1>4. CASE \/ UpdTest(t) \/ UpdWrite(t) \/ UpdCount(t) \/ UpdHigh(t) \/ UpdFirst(t)
           \/ UpdDir(t) \/ UpdNewOut(t) \/ UpdStamp(t) \/ UpdStampSet(t)
           \/ UpdRecent(t) \/ PushBlock(t)
  BY <1>4 DEF UpdTest, UpdWrite, UpdCount, UpdHigh, UpdFirst, UpdDir, UpdNewOut,
     UpdStamp, UpdStampSet, UpdRecent, PushBlock, shared
<1> QED BY <1>2, <1>3, <1>4, <1>5 DEF Stays

LEMMA StaysLabel ==
  ASSUME TypeInv, NEW t \in Threads, Stays(t)
  PROVE  /\ pc'[t] \in {"find_scan", "found"} => pc[t] \in {"find_block", "find_scan", "seek_scan"}
         /\ pc'[t] = "find_scan" => pc[t] \in {"find_block", "find_scan"}
         /\ pc'[t] \in {"seek_scan", "claim_lock", "claim_read", "claim_check", "claim_release"} =>
              pc[t] \in {"seek_block", "seek_scan", "claim_lock", "claim_read", "claim_check",
                        "claim_release"}
         /\ pc'[t] \in Updating \cup {"upd_lock"} => pc[t] \in Updating \cup {"upd_lock", "claim_check", "found"}
         /\ pc'[t] = "grow_link" => pc[t] = "push_block"
         /\ pc'[t] \in {"find_scan", "found", "seek_scan", "claim_lock", "claim_read",
                       "claim_check", "claim_release", "upd_lock", "grow_link"} \cup Updating
         /\ pc[t] \in {"find_block", "find_scan", "found", "seek_block", "seek_scan",
              "claim_lock", "claim_read", "claim_check", "claim_release", "upd_lock",
              "push_block"} \cup Updating
         /\ frame[t].then # frame'[t].then => pc[t] \in {"found", "claim_check"}
         /\ pc[t] \in GrowLabels => pc'[t] \in GrowLabels
<1>1. pc \in [Threads -> Labels] /\ frame \in [Threads -> FrameType] /\ frame[t] \in FrameType
  BY Frames
<1>2. CASE FindBlock(t) \/ FindScan(t) \/ Found(t) \/ SeekBlock(t) \/ SeekScan(t)
  BY <1>1, <1>2 DEF FindBlock, FindScan, Found, SeekBlock, SeekScan, Move, Goto, Updating,
     FrameType, GrowLabels
<1>3. CASE ClaimLock(t) \/ ClaimRead(t) \/ ClaimRelease(t)
  BY <1>1, <1>3 DEF ClaimLock, ClaimRead, ClaimRelease, Move, Goto, Updating,
     FrameType, GrowLabels
<1>6. CASE ClaimCheck(t)
  <2>1. pc[t] = "claim_check" /\ pc'[t] \in {"upd_lock", "claim_release"}
    BY <1>1, <1>6 DEF ClaimCheck, Goto
  <2> QED BY <2>1 DEF Updating, GrowLabels
<1>4. CASE UpdLock(t) \/ UpdTest(t) \/ UpdWrite(t) \/ UpdCount(t) \/ UpdHigh(t)
           \/ UpdFirst(t)
  BY <1>1, <1>4 DEF UpdLock, UpdTest, UpdWrite, UpdCount, UpdHigh, UpdFirst,
     AfterDirection, Move, Goto, Updating, FrameType, GrowLabels
<1>5. CASE UpdDir(t) \/ UpdNewOut(t) \/ UpdStamp(t)
           \/ UpdStampLock(t) \/ UpdStampSet(t) \/ UpdRecent(t) \/ PushBlock(t)
  BY <1>1, <1>5 DEF UpdDir, UpdNewOut, UpdStamp, UpdStampLock, UpdStampSet, UpdRecent,
     PushBlock, AfterDirection, Move, Goto, Updating, FrameType, GrowLabels
<1> QED BY <1>2, <1>3, <1>4, <1>5, <1>6 DEF Stays

-----------------------------------------------------------------------------
(* The places of the other threads, and of the thread that takes a step.   *)

\* Another thread reaches the next block, goes back to the start or ends.
LEMMA PlaceOthers ==
  ASSUME TypeInv, LinkInv, NEW t \in Threads,
         \A u \in Threads \ {t} : pc'[u] = pc[u] /\ frame'[u] = frame[u],
         ebpool_tail' = ebpool_tail,
         \A b \in 0..MaxBlocks \ {frame[t].loc} : link'[b] = link[b],
         frame'[t].loc \in {0, frame[t].loc, frame[t].tmp},
         \/ frame'[t].tmp \in {0, frame[t].tmp}
         \/ \E b \in 0..MaxBlocks : link[b] # MARKER /\ frame'[t].tmp = link[b]
  PROVE  \A u \in Threads \ {t} : PlaceOK(u)'
<1> SUFFICES ASSUME NEW u \in Threads \ {t} PROVE PlaceOK(u)'
  OBVIOUS
<1>1. pc'[u] = pc[u] /\ frame'[u] = frame[u] /\ PlaceOK(u)
  BY DEF LinkInv
<1>2. /\ frame[t].tmp \in Nat /\ frame[t].loc \in Nat /\ frame[u].tmp \in 0..MaxBlocks
      /\ frame[u].loc \in Nat /\ ebpool_tail \in Nat
  BY Frames
<1>3. ASSUME Growing(u)
      PROVE  /\ link'[frame[u].tmp] = 0
             /\ \A v \in Threads \ {u} : /\ frame'[v].tmp < frame[u].tmp
                                         /\ frame'[v].loc < frame[u].tmp
  <2>1. /\ frame[u].tmp = frame[u].loc + 1 /\ frame[u].tmp = ebpool_tail - 1
        /\ link[frame[u].tmp] = 0
        /\ \A v \in Threads \ {u} : frame[v].tmp < frame[u].tmp /\ frame[v].loc < frame[u].tmp
    BY <1>1, <1>3 DEF PlaceOK
  <2>2. link[frame[u].loc] = MARKER
    BY <1>3 DEF LinkInv, LinkLock, HoldsLink
  <2>3. frame[t].loc # frame[u].tmp
    BY <1>2, <2>1
  <2>4. link'[frame[u].tmp] = 0
    BY <1>2, <2>1, <2>3
  <2>5. frame'[t].loc < frame[u].tmp
    BY <1>2, <2>1
  <2>6. frame'[t].tmp < frame[u].tmp
    <3>1. CASE frame'[t].tmp \in {0, frame[t].tmp}
      BY <1>2, <2>1, <3>1
    <3>2. ASSUME NEW b \in 0..MaxBlocks, link[b] # MARKER, frame'[t].tmp = link[b]
          PROVE  frame'[t].tmp < frame[u].tmp
      <4>1. link[b] \in {0, b + 1} /\ link[b] < ebpool_tail
        BY <3>2, Frames DEF LinkInv, ChainOK
      <4>2. b # frame[u].loc
        BY <2>2, <3>2
      <4> QED BY <1>2, <2>1, <3>2, <4>1, <4>2
    <3> QED BY <3>1, <3>2
  <2> QED BY <2>1, <2>4, <2>5, <2>6
<1> QED BY <1>1, <1>3 DEF PlaceOK, Growing

LEMMA PlaceStays ==
  ASSUME TypeInv, LinkInv, NEW t \in Threads, Stays(t)
  PROVE  \A u \in Threads : PlaceOK(u)'
<1>1. \A u \in Threads \ {t} : pc'[u] = pc[u] /\ frame'[u] = frame[u]
  BY Others DEF Stays, Step
<1>2. \A u \in Threads \ {t} : PlaceOK(u)'
  BY <1>1, StaysInPlace, PlaceOthers
<1>3. PlaceOK(t)
  BY DEF LinkInv
<1>4. Growing(t)' => Growing(t)
  BY StaysInPlace DEF Growing
<1>5. Growing(t) => pc[t] \in GrowLabels
  BY <1>3 DEF PlaceOK
<1>6. /\ pc'[t] \in {"seek_block", "seek_scan", "claim_lock", "claim_read", "claim_check",
                    "claim_release", "grow_retry"} => frame[t].tmp = frame[t].loc + 1
      /\ pc'[t] \in {"find_block", "find_scan"} => frame[t].loc = 0
      /\ pc'[t] # "grow_new"
      /\ pc'[t] \in {"push_ebs", "push_block", "grow_link"} => Growing(t)'
  <2>1. pc'[t] \notin {"seek_block", "grow_retry", "find_block", "grow_new", "push_ebs", "push_block"}
    BY StaysLabel DEF Updating
  <2>2. pc'[t] = "grow_link" => Growing(t)'
    BY <1>3, StaysLabel DEF PlaceOK, Growing
  <2> QED BY <1>3, <2>1, <2>2, StaysLabel DEF PlaceOK
<1>7. Growing(t)' => pc'[t] \in GrowLabels
  BY <1>4, <1>5, StaysLabel
<1>8. Growing(t)' => link[frame[t].tmp] = 0 /\ frame[t].tmp = frame[t].loc + 1
                     /\ frame[t].tmp = ebpool_tail - 1
                     /\ \A u \in Threads \ {t} : /\ frame[u].tmp < frame[t].tmp
                                                 /\ frame[u].loc < frame[t].tmp
  BY <1>3, <1>4 DEF PlaceOK
<1>9. frame[t].loc < ebpool_tail
  BY <1>3 DEF PlaceOK
<1>10. PlaceOK(t)'
  BY <1>1, <1>6, <1>7, <1>8, <1>9, StaysInPlace DEF PlaceOK
<1> QED BY <1>2, <1>10

\* The locks of links, when no thread takes one.
LEMMA LinkLockKept ==
  ASSUME LinkInv, NEW t \in Threads,
         \A u \in Threads \ {t} : pc'[u] = pc[u] /\ frame'[u] = frame[u],
         HoldsLink(t)' => HoldsLink(t) /\ frame'[t].loc = frame[t].loc,
         \/ link' = link
         \/ /\ HoldsLink(t) /\ ~HoldsLink(t)'
            /\ \A b \in 0..MaxBlocks \ {frame[t].loc} : link'[b] = link[b],
         \A u \in Threads : frame[u].loc \in 0..MaxBlocks
  PROVE  LinkLock'
<1>1. \A u \in Threads \ {t} : (HoldsLink(u)' <=> HoldsLink(u)) /\ frame'[u].loc = frame[u].loc
  BY DEF HoldsLink, Growing
<1>2. \A u, v \in Threads :
        u # v /\ HoldsLink(u) /\ HoldsLink(v) => frame[u].loc # frame[v].loc
  BY DEF LinkInv, LinkLock
<1>3. \A u \in Threads : HoldsLink(u) => link[frame[u].loc] = MARKER
  BY DEF LinkInv, LinkLock
<1>4. \A u \in Threads : HoldsLink(u)' => link'[frame'[u].loc] = MARKER
  <2>1. CASE link' = link
    BY <1>1, <1>3, <2>1
  <2>2. CASE /\ HoldsLink(t) /\ ~HoldsLink(t)'
             /\ \A b \in 0..MaxBlocks \ {frame[t].loc} : link'[b] = link[b]
    BY <1>1, <1>2, <1>3, <2>2
  <2> QED BY <2>1, <2>2
<1>5. \A u, v \in Threads :
        u # v /\ HoldsLink(u)' /\ HoldsLink(v)' => frame'[u].loc # frame'[v].loc
  BY <1>1, <1>2
<1> QED BY <1>4, <1>5 DEF LinkLock

\* A step writes at most to its thread's slot and block.
LEMMA UntouchedKept ==
  ASSUME TypeInv, LinkInv, NEW t \in Threads, ebpool_tail' = ebpool_tail,
         \A b \in Blocks \ {frame[t].tmp} : eb'[b] = eb[b],
         \A s \in Slots \ {Slot(t)} : edge'[s] = edge[s]
  PROVE  Untouched'
<1>1. frame[t].tmp < ebpool_tail
  BY Frames
<1>2. ASSUME NEW b \in Blocks, b >= ebpool_tail
      PROVE  eb'[b] = EmptyBlock /\ \A k \in Indices : edge'[<<b, k>>] = ZeroEdge
  <2>1. b # frame[t].tmp
    BY <1>1, <1>2, Frames DEF Blocks
  <2>2. \A k \in Indices : <<b, k>> \in Slots \ {Slot(t)}
    BY <2>1 DEF Slots, Slot
  <2> QED BY <1>2, <2>1, <2>2 DEF LinkInv, Untouched
<1> QED BY <1>2 DEF Untouched

LEMMA StaysWrites ==
  ASSUME TypeInv, NEW t \in Threads, Stays(t)
  PROVE  /\ \A b \in Blocks \ {frame[t].tmp} : eb'[b] = eb[b]
         /\ \A s \in Slots \ {Slot(t)} : edge'[s] = edge[s]
<1>1. /\ edge \in [Slots -> EdgeType] /\ eb \in [Blocks -> BlockType]
  BY Frames
<1>2. CASE FindBlock(t) \/ FindScan(t) \/ Found(t) \/ SeekBlock(t) \/ SeekScan(t)
           \/ ClaimRead(t) \/ ClaimCheck(t) \/ UpdTest(t) \/ UpdStamp(t) \/ PushBlock(t)
  BY <1>2 DEF FindBlock, FindScan, Found, SeekBlock, SeekScan, ClaimRead, ClaimCheck,
     UpdTest, UpdStamp, PushBlock, shared
<1>3. CASE ClaimLock(t) \/ ClaimRelease(t) \/ UpdLock(t) \/ UpdWrite(t) \/ UpdFirst(t)
           \/ UpdNewOut(t) \/ UpdRecent(t) \/ UpdDir(t)
  BY <1>1, <1>3 DEF ClaimLock, ClaimRelease, UpdLock, UpdWrite, UpdFirst, UpdNewOut,
     UpdRecent, UpdDir
<1>4. CASE UpdCount(t) \/ UpdHigh(t) \/ UpdStampLock(t) \/ UpdStampSet(t)
  BY <1>1, <1>4 DEF UpdCount, UpdHigh, UpdStampLock, UpdStampSet
<1> QED BY <1>2, <1>3, <1>4 DEF Stays

LEMMA StaysLink ==
  ASSUME TypeInv, LinkInv, NEW t \in Threads, Stays(t) PROVE LinkInv'
<1>1. \A u \in Threads \ {t} : pc'[u] = pc[u] /\ frame'[u] = frame[u]
  BY Others DEF Stays, Step
<1>2. ChainOK'
  BY StaysInPlace DEF LinkInv, ChainOK
<1>3. Untouched'
  BY StaysInPlace, StaysWrites, UntouchedKept
<1>4. HoldsLink(t)' => HoldsLink(t) /\ frame'[t].loc = frame[t].loc
  BY StaysInPlace, StaysLabel DEF HoldsLink, Growing, Updating
<1>5. LinkLock'
  BY <1>1, <1>4, StaysInPlace, LinkLockKept, Frames
<1> QED BY <1>2, <1>3, <1>5, PlaceStays DEF LinkInv

\* A call begins, or goes on to the next block.
Moves(t) == Call(t) \/ EtypeBegin(t) \/ FindNext(t) \/ SeekFirst(t) \/ SeekNext(t)

LEMMA MovesEffect ==
  ASSUME TypeInv, LinkInv, NEW t \in Threads, Moves(t)
  PROVE  /\ UNCHANGED <<link, edge, eb, ebpool_tail>>
         /\ frame'[t].loc \in {0, frame[t].loc, frame[t].tmp}
         /\ \/ frame'[t].tmp \in {0, frame[t].tmp}
            \/ \E b \in 0..MaxBlocks : link[b] # MARKER /\ frame'[t].tmp = link[b]
         /\ frame'[t].then \in {"return", frame[t].then}
         /\ ~Growing(t) /\ ~Growing(t)'
         /\ pc'[t] \in {"etype_begin", "find_block", "seek_first", "seek_block", "grow_lock"}
         /\ pc'[t] = "find_block" => frame'[t].loc = 0
         /\ pc'[t] = "seek_block" => frame'[t].tmp = frame'[t].loc + 1
<1>1. /\ pc \in [Threads -> Labels] /\ frame \in [Threads -> FrameType]
      /\ frame[t] \in FrameType /\ frame[t].tmp \in 0..MaxBlocks /\ frame[t].loc \in 0..MaxBlocks
      /\ 0 \in 0..MaxBlocks
  BY Frames
<1>2. PlaceOK(t)
  BY DEF LinkInv
<1>3. CASE Call(t)
  <2>1. IdleFrame.tmp = 0 /\ IdleFrame.loc = 0 /\ IdleFrame.then = "return"
    BY DEF IdleFrame
  <2>2. \E op \in Ops : frame'[t] = [IdleFrame EXCEPT !.op = op]
    BY <1>1, <1>3 DEF Call
  <2>3. frame'[t].tmp = 0 /\ frame'[t].loc = 0 /\ frame'[t].then = "return"
    BY <2>1, <2>2 DEF IdleFrame
  <2>4. ~Growing(t)
    BY <1>2, <1>3 DEF PlaceOK, GrowLabels, Updating, Call, Move
  <2> QED BY <1>1, <1>3, <2>3, <2>4 DEF Call, Move, Goto, shared, Growing
<1>4. CASE EtypeBegin(t)
  <2>1. /\ frame'[t].tmp = link[0] /\ frame'[t].loc = 0 /\ frame'[t].then = frame[t].then
        /\ link[0] # MARKER
    BY <1>1, <1>4 DEF EtypeBegin, FrameType
  <2>2. ~Growing(t)
    BY <1>2, <1>4 DEF PlaceOK, GrowLabels, Updating, EtypeBegin, Move
  <2> QED BY <1>1, <1>4, <2>1, <2>2 DEF EtypeBegin, Move, Goto, shared, Growing
<1>5. CASE FindNext(t)
  <2>1. /\ frame'[t].tmp = link[frame[t].tmp] /\ frame'[t].loc = frame[t].loc
        /\ frame'[t].then = frame[t].then /\ link[frame[t].tmp] # MARKER
    BY <1>1, <1>5 DEF FindNext, FrameType
  <2>2. ~Growing(t) /\ frame[t].loc = 0
    BY <1>2, <1>5 DEF PlaceOK, GrowLabels, Updating, FindNext, Move
  <2> QED BY <1>1, <1>5, <2>1, <2>2 DEF FindNext, Move, Goto, shared, Growing
<1>6. CASE SeekFirst(t)
  <2>1. /\ frame'[t].tmp = link[frame[t].loc] /\ frame'[t].loc = frame[t].loc
        /\ frame'[t].then = frame[t].then /\ link[frame[t].loc] # MARKER
    BY <1>1, <1>6 DEF SeekFirst, FrameType
  <2>2. ~Growing(t)
    BY <1>2, <1>6 DEF PlaceOK, GrowLabels, Updating, SeekFirst, Move
  <2>3. link[frame[t].loc] \in {0, frame[t].loc + 1}
    BY <1>1, <2>1 DEF LinkInv, ChainOK
  <2> QED BY <1>1, <1>6, <2>1, <2>2, <2>3 DEF SeekFirst, Move, Goto, shared, Growing
<1>7. CASE SeekNext(t)
  <2>1. /\ frame'[t].tmp = link[frame[t].tmp] /\ frame'[t].loc = frame[t].tmp
        /\ frame'[t].then = frame[t].then /\ link[frame[t].tmp] # MARKER
    BY <1>1, <1>7 DEF SeekNext, FrameType
  <2>2. ~Growing(t)
    BY <1>2, <1>7 DEF PlaceOK, GrowLabels, Updating, SeekNext, Move
  <2>3. link[frame[t].tmp] \in {0, frame[t].tmp + 1}
    BY <1>1, <2>1 DEF LinkInv, ChainOK
  <2> QED BY <1>1, <1>7, <2>1, <2>2, <2>3 DEF SeekNext, Move, Goto, shared, Growing
<1> QED BY <1>3, <1>4, <1>5, <1>6, <1>7 DEF Moves

LEMMA MovesLink ==
  ASSUME TypeInv, LinkInv, NEW t \in Threads, Moves(t) PROVE LinkInv'
<1>1. \A u \in Threads \ {t} : pc'[u] = pc[u] /\ frame'[u] = frame[u]
  BY Others DEF Moves, Step
<1>2. ChainOK' /\ Untouched'
  BY MovesEffect DEF LinkInv, ChainOK, Untouched
<1>3. ~HoldsLink(t)'
  BY MovesEffect DEF HoldsLink
<1>4. LinkLock'
  BY <1>1, <1>3, MovesEffect, LinkLockKept, Frames
<1>5. \A u \in Threads \ {t} : PlaceOK(u)'
  BY <1>1, MovesEffect, PlaceOthers
<1>6. PlaceOK(t)'
  <2>1. frame'[t].loc < ebpool_tail'
    <3>1. frame[t].loc < ebpool_tail
      BY DEF LinkInv, PlaceOK
    <3>2. /\ frame[t].tmp < ebpool_tail /\ ebpool_tail \in 1..MaxBlocks + 1
          /\ MaxBlocks \in Nat \ {0}
      BY Frames
    <3>3. ebpool_tail' = ebpool_tail /\ frame'[t].loc \in {0, frame[t].loc, frame[t].tmp}
      BY MovesEffect
    <3> QED BY <3>1, <3>2, <3>3
  <2> QED BY <2>1, MovesEffect DEF PlaceOK
<1> QED BY <1>2, <1>4, <1>5, <1>6 DEF LinkInv

\* An update ends, or goes on to undo its claim or to link its block.
LEMMA EndsLink ==
  ASSUME TypeInv, LinkInv, NEW t \in Threads, UpdUnlock(t) \/ UpdRestore(t) PROVE LinkInv'
<1>1. \A u \in Threads \ {t} : pc'[u] = pc[u] /\ frame'[u] = frame[u]
  BY Others DEF Step
<1>2. /\ pc \in [Threads -> Labels] /\ frame \in [Threads -> FrameType]
      /\ frame[t] \in FrameType /\ edge \in [Slots -> EdgeType]
  BY Frames
<1>3. PlaceOK(t)
  BY DEF LinkInv
<1>4. UNCHANGED <<link, eb, ebpool_tail>> /\ \A s \in Slots \ {Slot(t)} : edge'[s] = edge[s]
  BY <1>2 DEF UpdUnlock, UpdRestore
<1>5. \/ pc'[t] = "idle" /\ frame'[t].tmp = 0 /\ frame'[t].loc = 0 /\ ~Growing(t)'
      \/ pc'[t] = frame[t].then /\ frame'[t] = frame[t]
         /\ frame[t].then \in {"restore", "push_ebs"}
  BY <1>2 DEF UpdUnlock, UpdRestore, Return, Goto, IdleFrame, FrameType, Growing
<1>6. ChainOK'
  BY <1>4 DEF LinkInv, ChainOK
<1>7. Untouched'
  BY <1>4, UntouchedKept
<1>8. HoldsLink(t)' => HoldsLink(t) /\ frame'[t].loc = frame[t].loc
  BY <1>5 DEF HoldsLink, Growing
<1>9. LinkLock'
  BY <1>1, <1>4, <1>8, LinkLockKept, Frames
<1>10. \A u \in Threads \ {t} : PlaceOK(u)'
  BY <1>1, <1>4, <1>5, PlaceOthers
<1>11. PlaceOK(t)'
  <2>1. CASE pc'[t] = "idle" /\ frame'[t].tmp = 0 /\ frame'[t].loc = 0 /\ ~Growing(t)'
    BY <1>4, <2>1, Frames DEF PlaceOK
  <2>2. CASE pc'[t] = frame[t].then /\ frame'[t] = frame[t]
             /\ frame[t].then \in {"restore", "push_ebs"}
    <3>1. Growing(t)' <=> Growing(t)
      BY <2>2 DEF Growing
    <3>2. pc'[t] = "push_ebs" <=> Growing(t)
      BY <2>2 DEF Growing
    <3> QED BY <1>1, <1>3, <1>4, <2>2, <3>1, <3>2 DEF PlaceOK, GrowLabels
  <2> QED BY <1>5, <2>1, <2>2
<1> QED BY <1>6, <1>7, <1>9, <1>10, <1>11 DEF LinkInv

LEMMA GrowLockLink ==
  ASSUME TypeInv, LinkInv, NEW t \in Threads, GrowLock(t) PROVE LinkInv'
<1>1. \A u \in Threads \ {t} : pc'[u] = pc[u] /\ frame'[u] = frame[u]
  BY Others DEF Step
<1>2. /\ pc \in [Threads -> Labels] /\ frame \in [Threads -> FrameType]
      /\ frame[t] \in FrameType /\ frame[t].loc \in 0..MaxBlocks
      /\ link \in [0..MaxBlocks -> 0..MaxBlocks \cup {MARKER}] /\ ebpool_tail \in Nat
      /\ MARKER # 0
  BY Frames
<1>3. PlaceOK(t)
  BY DEF LinkInv
<1>4. /\ pc[t] = "grow_lock" /\ link[frame[t].loc] # MARKER
      /\ link' = [link EXCEPT ![frame[t].loc] = MARKER]
      /\ UNCHANGED <<edge, eb, ebpool_tail>>
      /\ frame'[t].tmp = link[frame[t].loc] /\ frame'[t].loc = frame[t].loc
      /\ frame'[t].then = frame[t].then
      /\ pc'[t] = IF link[frame[t].loc] = 0 THEN "grow_new" ELSE "grow_retry"
  BY <1>2 DEF GrowLock, Move, Goto, FrameType
<1>5. ChainOK'
  <2>1. ~(frame[t].loc >= ebpool_tail)
    BY <1>2, <1>3 DEF PlaceOK
  <2> QED BY <1>2, <1>4, <2>1 DEF LinkInv, ChainOK
<1>6. Untouched'
  BY <1>4 DEF LinkInv, Untouched
<1>7. ~Growing(t) /\ ~Growing(t)'
  BY <1>3, <1>4 DEF PlaceOK, GrowLabels, Updating, Growing
<1>8. LinkLock'
  <2>1. \A u \in Threads \ {t} : /\ HoldsLink(u)' <=> HoldsLink(u)
                                 /\ frame'[u].loc = frame[u].loc /\ frame[u].loc \in 0..MaxBlocks
    BY <1>1, Frames DEF HoldsLink, Growing
  <2>2. \A u \in Threads \ {t} : HoldsLink(u) => frame[u].loc # frame[t].loc
    BY <1>4 DEF LinkInv, LinkLock
  <2>3. \A u \in Threads : HoldsLink(u)' => link'[frame'[u].loc] = MARKER
    BY <1>2, <1>4, <2>1 DEF LinkInv, LinkLock
  <2>4. \A u, v \in Threads :
          u # v /\ HoldsLink(u)' /\ HoldsLink(v)' => frame'[u].loc # frame'[v].loc
    BY <1>4, <2>1, <2>2 DEF LinkInv, LinkLock
  <2> QED BY <2>3, <2>4 DEF LinkLock
<1>9. \A u \in Threads \ {t} : PlaceOK(u)'
  BY <1>1, <1>2, <1>4, PlaceOthers
<1>10. PlaceOK(t)'
  <2>1. link[frame[t].loc] \in {0, frame[t].loc + 1}
        /\ (link[frame[t].loc] = 0 => frame[t].loc >= ebpool_tail - 1)
    BY <1>2, <1>4 DEF LinkInv, ChainOK
  <2>2. link[frame[t].loc] = 0 => frame[t].loc = ebpool_tail - 1
    BY <1>2, <1>3, <2>1 DEF PlaceOK
  <2> QED BY <1>2, <1>3, <1>4, <1>7, <2>1, <2>2 DEF PlaceOK
<1> QED BY <1>5, <1>6, <1>8, <1>9, <1>10 DEF LinkInv

LEMMA GrowRetryLink ==
  ASSUME TypeInv, LinkInv, NEW t \in Threads, GrowRetry(t) PROVE LinkInv'
<1>1. \A u \in Threads \ {t} : pc'[u] = pc[u] /\ frame'[u] = frame[u]
  BY Others DEF Step
<1>2. /\ pc \in [Threads -> Labels] /\ frame[t].loc \in 0..MaxBlocks
      /\ frame[t].tmp \in 0..MaxBlocks /\ frame[t].tmp < ebpool_tail
      /\ link \in [0..MaxBlocks -> 0..MaxBlocks \cup {MARKER}] /\ ebpool_tail \in Nat
  BY Frames
<1>3. PlaceOK(t)
  BY DEF LinkInv
<1>4. /\ pc[t] = "grow_retry" /\ pc'[t] = "seek_first" /\ frame' = frame
      /\ link' = [link EXCEPT ![frame[t].loc] = frame[t].tmp]
      /\ UNCHANGED <<edge, eb, ebpool_tail>>
  BY <1>2 DEF GrowRetry, Move, Goto
<1>5. frame[t].tmp = frame[t].loc + 1 /\ ~Growing(t) /\ ~Growing(t)'
  BY <1>3, <1>4 DEF PlaceOK, GrowLabels, Updating, Growing
<1>6. ChainOK'
  <2>1. frame[t].tmp # 0 /\ frame[t].loc < ebpool_tail
    BY <1>2, <1>3, <1>5 DEF PlaceOK
  <2> QED BY <1>2, <1>4, <1>5, <2>1 DEF LinkInv, ChainOK
<1>7. Untouched'
  BY <1>4 DEF LinkInv, Untouched
<1>8. LinkLock'
  <2>1. HoldsLink(t) /\ ~HoldsLink(t)'
    BY <1>4, <1>5 DEF HoldsLink
  <2> QED BY <1>1, <1>2, <1>4, <2>1, LinkLockKept, Frames
<1>9. \A u \in Threads \ {t} : PlaceOK(u)'
  BY <1>1, <1>2, <1>4, PlaceOthers
<1>10. PlaceOK(t)'
  BY <1>3, <1>4, <1>5 DEF PlaceOK
<1> QED BY <1>6, <1>7, <1>8, <1>9, <1>10 DEF LinkInv

\* The block that the pool hands out is as new_eb leaves it already.
LEMMA GrowNewLink ==
  ASSUME TypeInv, LinkInv, NEW t \in Threads, GrowNew(t)
  PROVE  LinkInv' /\ edge' = edge /\ eb' = eb /\ \A u \in Threads \ {t} : ~Growing(u)
<1>1. \A u \in Threads \ {t} : pc'[u] = pc[u] /\ frame'[u] = frame[u]
  BY Others DEF Step
<1>2. /\ pc \in [Threads -> Labels] /\ frame \in [Threads -> FrameType]
      /\ frame[t] \in FrameType /\ frame[t].loc \in 0..MaxBlocks
      /\ link \in [0..MaxBlocks -> 0..MaxBlocks \cup {MARKER}] /\ ebpool_tail \in Nat
      /\ edge \in [Slots -> EdgeType] /\ eb \in [Blocks -> BlockType] /\ MaxBlocks \in Nat
      /\ \A u \in Threads : /\ frame[u].tmp \in 0..MaxBlocks /\ frame[u].tmp < ebpool_tail
                            /\ frame[u].loc \in 0..MaxBlocks
  BY Frames
<1>3. PlaceOK(t) /\ \A u \in Threads : PlaceOK(u) /\ frame[u].loc < ebpool_tail
  BY DEF LinkInv, PlaceOK
<1>4. /\ pc[t] = "grow_new" /\ pc'[t] = "upd_lock" /\ ebpool_tail \in Blocks
      /\ ebpool_tail' = ebpool_tail + 1 /\ link' = link
      /\ frame'[t].tmp = ebpool_tail /\ frame'[t].loc = frame[t].loc
      /\ frame'[t].then = "push_ebs"
  <2>1. ebpool_tail \in 1..MaxBlocks
    BY Frames DEF GrowNew
  <2> QED BY <1>2, <2>1 DEF GrowNew, Move, Goto, FrameType, Blocks
<1>5. frame[t].loc = ebpool_tail - 1 /\ ~Growing(t) /\ Growing(t)'
  BY <1>3, <1>4 DEF PlaceOK, GrowLabels, Updating, Growing
<1>6. edge' = edge /\ eb' = eb
  <2>1. eb[ebpool_tail] = EmptyBlock /\ \A k \in Indices : edge[<<ebpool_tail, k>>] = ZeroEdge
    BY <1>2, <1>4 DEF LinkInv, Untouched
  <2>2. eb' = eb
    BY <1>2, <1>4, <2>1 DEF GrowNew
  <2>3. \A s \in Slots : s[1] = ebpool_tail => edge[s] = ZeroEdge
    BY <2>1 DEF Slots
  <2>4. edge' = [s \in Slots |-> edge[s]]
    BY <2>3 DEF GrowNew
  <2> QED BY <1>2, <2>2, <2>4
<1>7. \A u \in Threads \ {t} : ~Growing(u)
  BY <1>2, <1>3, <1>5 DEF PlaceOK
<1>8. ChainOK'
  <2>1. link[frame[t].loc] = MARKER
    BY <1>4 DEF LinkInv, LinkLock, HoldsLink
  <2>2. \A b \in 0..MaxBlocks : link[b] = 0 => b >= ebpool_tail
    BY <1>2, <1>5, <2>1, Frames DEF LinkInv, ChainOK
  <2> QED BY <1>2, <1>4, <2>2 DEF LinkInv, ChainOK
<1>9. Untouched'
  BY <1>2, <1>4, <1>6 DEF LinkInv, Untouched, Blocks
<1>10. LinkLock'
  <2>1. HoldsLink(t)
    BY <1>4 DEF HoldsLink
  <2> QED BY <1>1, <1>2, <1>4, <2>1, LinkLockKept
<1>11. \A u \in Threads \ {t} : PlaceOK(u)'
  <2> SUFFICES ASSUME NEW u \in Threads \ {t} PROVE PlaceOK(u)'
    OBVIOUS
  <2>1. ~Growing(u) /\ ~Growing(u)' /\ pc'[u] = pc[u] /\ frame'[u] = frame[u]
    BY <1>1, <1>7 DEF Growing
  <2>2. pc[u] # "grow_new"
    <3>1. SUFFICES ASSUME pc[u] = "grow_new" PROVE FALSE
      OBVIOUS
    <3>2. HoldsLink(u) /\ HoldsLink(t) /\ frame[u].loc = frame[t].loc
      BY <1>3, <1>4, <1>5, <3>1 DEF HoldsLink, PlaceOK
    <3> QED BY <3>2 DEF LinkInv, LinkLock
  <2> QED BY <1>2, <1>3, <1>4, <2>1, <2>2 DEF PlaceOK
<1>12. PlaceOK(t)'
  <2>1. link[ebpool_tail] = 0
    BY <1>2, <1>4 DEF LinkInv, ChainOK, Blocks
  <2>2. \A u \in Threads \ {t} : frame'[u].tmp < ebpool_tail /\ frame'[u].loc < ebpool_tail
    BY <1>1, <1>2, <1>3
  <2> QED BY <1>2, <1>4, <1>5, <2>1, <2>2 DEF PlaceOK, GrowLabels
<1> QED BY <1>6, <1>7, <1>8, <1>9, <1>10, <1>11, <1>12 DEF LinkInv

LEMMA PushEbsLink ==
  ASSUME TypeInv, LinkInv, NEW t \in Threads, PushEbs(t)
  PROVE  LinkInv' /\ link' = link
<1>1. \A u \in Threads \ {t} : pc'[u] = pc[u] /\ frame'[u] = frame[u]
  BY Others DEF Step
<1>2. /\ pc \in [Threads -> Labels] /\ frame \in [Threads -> FrameType]
      /\ frame[t] \in FrameType /\ frame[t].loc \in 0..MaxBlocks /\ frame[t].tmp \in 0..MaxBlocks
      /\ link \in [0..MaxBlocks -> 0..MaxBlocks \cup {MARKER}]
  BY Frames
<1>3. PlaceOK(t)
  BY DEF LinkInv
<1>4. /\ pc[t] = "push_ebs" /\ pc'[t] = "push_block"
      /\ link' = [link EXCEPT ![frame[t].tmp] = 0]
      /\ UNCHANGED <<edge, eb, ebpool_tail>>
      /\ frame'[t].tmp = frame[t].tmp /\ frame'[t].loc = frame[t].loc
      /\ frame'[t].then = frame[t].then
  BY <1>2 DEF PushEbs, Move, Goto, FrameType
<1>5. Growing(t) /\ Growing(t)' /\ link' = link
  BY <1>2, <1>3, <1>4 DEF PlaceOK, Growing
<1>6. ChainOK' /\ Untouched'
  BY <1>4, <1>5 DEF LinkInv, ChainOK, Untouched
<1>7. LinkLock'
  <2>1. HoldsLink(t)
    BY <1>5 DEF HoldsLink
  <2> QED BY <1>1, <1>2, <1>4, <1>5, <2>1, LinkLockKept, Frames
<1>8. \A u \in Threads \ {t} : PlaceOK(u)'
  BY <1>1, <1>4, <1>5, PlaceOthers
<1>9. PlaceOK(t)'
  BY <1>1, <1>3, <1>4, <1>5 DEF PlaceOK, GrowLabels
<1> QED BY <1>5, <1>6, <1>7, <1>8, <1>9 DEF LinkInv

LEMMA GrowLinkLink ==
  ASSUME TypeInv, LinkInv, NEW t \in Threads, GrowLink(t) PROVE LinkInv'
<1>1. \A u \in Threads \ {t} : pc'[u] = pc[u] /\ frame'[u] = frame[u]
  BY Others DEF Step
<1>2. /\ pc \in [Threads -> Labels] /\ frame \in [Threads -> FrameType]
      /\ frame[t].loc \in 0..MaxBlocks
      /\ frame[t].tmp \in 0..MaxBlocks /\ frame[t].tmp < ebpool_tail
      /\ link \in [0..MaxBlocks -> 0..MaxBlocks \cup {MARKER}] /\ ebpool_tail \in Nat
  BY Frames
<1>3. PlaceOK(t)
  BY DEF LinkInv
<1>4. /\ pc[t] = "grow_link" /\ pc'[t] = "idle"
      /\ link' = [link EXCEPT ![frame[t].loc] = frame[t].tmp]
      /\ UNCHANGED <<edge, eb, ebpool_tail>>
      /\ frame'[t].tmp = 0 /\ frame'[t].loc = 0 /\ ~Growing(t)'
  BY <1>2 DEF GrowLink, Return, Goto, IdleFrame, Growing
<1>5. frame[t].tmp = frame[t].loc + 1 /\ Growing(t)
  BY <1>3, <1>4 DEF PlaceOK
<1>6. ChainOK'
  <2>1. frame[t].tmp # 0 /\ frame[t].loc < ebpool_tail
    BY <1>2, <1>3, <1>5 DEF PlaceOK
  <2> QED BY <1>2, <1>4, <1>5, <2>1 DEF LinkInv, ChainOK
<1>7. Untouched'
  BY <1>4 DEF LinkInv, Untouched
<1>8. LinkLock'
  <2>1. HoldsLink(t) /\ ~HoldsLink(t)'
    BY <1>4, <1>5 DEF HoldsLink
  <2> QED BY <1>1, <1>2, <1>4, <2>1, LinkLockKept, Frames
<1>9. \A u \in Threads \ {t} : PlaceOK(u)'
  BY <1>1, <1>2, <1>4, PlaceOthers
<1>10. PlaceOK(t)'
  BY <1>4, Frames DEF PlaceOK
<1> QED BY <1>6, <1>7, <1>8, <1>9, <1>10 DEF LinkInv

LEMMA InitLink == Init => LinkInv
<1> SUFFICES ASSUME NEW c \in InitContents, NEW old \in OldWords, InitWith(c, old) PROVE LinkInv
  BY DEF Init
<1> USE ConstantsAssumption
<1> DEFINE taken == IF c = <<>> THEN 0 ELSE 1
<1>1. /\ link = [b \in 0..MaxBlocks |-> IF b = 0 THEN taken ELSE 0] /\ ebpool_tail = 1 + taken
      /\ \A t \in Threads : pc[t] = "idle" /\ frame[t] = IdleFrame
      /\ edge = InitEdge(c, old) /\ eb = InitBlock(c, old)
  BY DEF InitWith
<1>2. IdleFrame.loc = 0 /\ IdleFrame.then = "return"
  BY DEF IdleFrame
<1>3. taken \in {0, 1} /\ (taken = 0 <=> c = <<>>) /\ MARKER # 0 /\ MARKER # 1
  OBVIOUS
<1> HIDE DEF taken
<1>4. ChainOK
  BY <1>1, <1>3 DEF ChainOK
<1>5. Untouched
  <2>1. c = <<>> => Len(c) = 0
    OBVIOUS
  <2> QED BY <1>1, <1>3, <2>1 DEF Untouched, InitEdge, InitBlock, Blocks, Slots, Indices
<1>6. \A t \in Threads : ~HoldsLink(t) /\ ~Growing(t)
  BY <1>1, <1>2 DEF HoldsLink, Growing
<1>7. LinkLock
  BY <1>6 DEF LinkLock
<1>8. \A t \in Threads : PlaceOK(t)
  BY <1>1, <1>2, <1>3, <1>6 DEF PlaceOK
<1> QED BY <1>4, <1>5, <1>7, <1>8 DEF LinkInv

LEMMA NextLink == TypeInv /\ LinkInv /\ [Next]_vars => LinkInv'
<1> SUFFICES ASSUME TypeInv, LinkInv, [Next]_vars PROVE LinkInv'
  OBVIOUS
<1>1. CASE UNCHANGED vars
  BY <1>1 DEF vars, LinkInv, ChainOK, Untouched, LinkLock, PlaceOK, HoldsLink, Growing
<1>2. ASSUME NEW t \in Threads, Call(t) \/ Step(t) PROVE LinkInv'
  BY <1>2, StaysLink, MovesLink, EndsLink, GrowLockLink, GrowRetryLink, GrowNewLink,
     PushEbsLink, GrowLinkLink DEF Step, Stays, Moves
<1> QED BY <1>1, <1>2 DEF Next, Finished

\* The chain is always the blocks in the order they were taken, and one thread
\* at a time is at its end.
THEOREM LinkInvariant == Spec => []LinkInv
BY InitLink, NextLink, TypeInvariant, PTL DEF Spec

-----------------------------------------------------------------------------
(* What the steps do to the slots.                                         *)

\* Nothing is filled and no high water mark moves.
Quiet ==
  /\ \A s \in Slots : /\ edge'[s].neighbor = edge[s].neighbor
                      /\ edge'[s].dirs = {} <=> edge[s].dirs = {}
  /\ \A b \in Blocks : eb'[b].high = eb[b].high

\* Filled slots stay as they are, high water marks rise, and no slot is filled
\* behind a free one.
Grows ==
  /\ \A s \in Slots : edge[s].dirs # {} =>
       edge'[s].dirs # {} /\ edge'[s].neighbor = edge[s].neighbor
  /\ \A s \in Slots : Old(s)' => Old(s)
  /\ \A b \in Blocks : eb'[b].high >= eb[b].high

LEMMA SlotTypes ==
  ASSUME TypeInv
  PROVE  /\ \A s \in Slots : s[1] \in Blocks /\ s[2] \in 0..EBSize - 1 /\ s = <<s[1], s[2]>>
         /\ \A b \in Blocks : eb[b].high \in 0..EBSize
         /\ \A t \in Threads : pc[t] \in AtSlotLabels => Slot(t) \in Slots
         /\ \A t \in Threads : Dest(t) # Blank
         /\ EBSize \in Nat
<1>1. \A b \in Blocks : eb[b].high \in 0..EBSize
  BY Frames DEF BlockType
<1>2. \A t \in Threads : pc[t] \in AtSlotLabels => Slot(t) \in Slots
  BY AtSlot
<1>3. \A t \in Threads : Dest(t) # Blank
  BY AtThread, ConstantsAssumption DEF Blank
<1> QED BY <1>1, <1>2, <1>3, Frames DEF Slots, Indices

LEMMA QuietGrows ==
  ASSUME TypeInv, Quiet PROVE Grows
<1>1. \A s \in Slots : Old(s)' => Old(s)
  BY DEF Quiet, Old
<1>2. \A b \in Blocks : eb'[b].high >= eb[b].high
  BY SlotTypes DEF Quiet
<1> QED BY <1>1, <1>2 DEF Quiet, Grows

LEMMA QuietSteps ==
  ASSUME TypeInv, LinkInv, SlotInv, NEW t \in Threads, Call(t) \/ Step(t),
         pc[t] \notin {"upd_write", "upd_high"}
  PROVE  Quiet
<1>1. /\ edge \in [Slots -> EdgeType] /\ eb \in [Blocks -> BlockType]
  BY Frames
<1>2. CASE Moves(t)
  BY <1>2, MovesEffect DEF Quiet
<1>3. CASE FindBlock(t) \/ FindScan(t) \/ Found(t) \/ SeekBlock(t) \/ SeekScan(t)
           \/ ClaimRead(t) \/ ClaimCheck(t) \/ UpdTest(t) \/ UpdStamp(t) \/ PushBlock(t)
           \/ GrowLock(t) \/ GrowRetry(t) \/ PushEbs(t) \/ GrowLink(t)
  BY <1>3 DEF FindBlock, FindScan, Found, SeekBlock, SeekScan, ClaimRead, ClaimCheck,
     UpdTest, UpdStamp, PushBlock, GrowLock, GrowRetry, PushEbs, GrowLink, shared, Quiet
<1>4. CASE ClaimLock(t) \/ ClaimRelease(t) \/ UpdLock(t) \/ UpdFirst(t)
           \/ UpdNewOut(t) \/ UpdRecent(t) \/ UpdUnlock(t) \/ UpdRestore(t)
  BY <1>1, <1>4 DEF ClaimLock, ClaimRelease, UpdLock, UpdFirst, UpdNewOut,
     UpdRecent, UpdUnlock, UpdRestore, Quiet, EdgeType
<1>5. CASE UpdDir(t)
  <2>1. edge[Slot(t)].dirs # {}
    BY <1>5 DEF UpdDir, SlotInv, UpdateOK, SettledLabels, Settled, Complete
  <2> QED BY <1>1, <1>5, <2>1 DEF UpdDir, Quiet, EdgeType
<1>6. CASE UpdCount(t) \/ UpdStampLock(t) \/ UpdStampSet(t)
  BY <1>1, <1>6, SMTT(40) DEF UpdCount, UpdStampLock, UpdStampSet, Quiet, BlockType
<1>7. CASE GrowNew(t)
  BY <1>7, GrowNewLink DEF Quiet
<1>8. ~UpdWrite(t) /\ ~UpdHigh(t)
  BY DEF UpdWrite, UpdHigh, Move
<1> QED BY <1>2, <1>3, <1>4, <1>5, <1>6, <1>7, <1>8 DEF Step, Moves

\* The slot that is written is the first free one.
LEMMA WriteEffect ==
  ASSUME TypeInv, LinkInv, SlotInv, NEW t \in Threads, UpdWrite(t)
  PROVE  /\ pc[t] = "upd_write" /\ pc'[t] = "upd_count" /\ frame' = frame
         /\ Slot(t) \in Slots /\ Fillable(t)
         /\ edge'[Slot(t)].neighbor = Dest(t) /\ edge'[Slot(t)].dirs # {}
         /\ \A s \in Slots : s # Slot(t) => edge'[s] = edge[s]
         /\ \A s \in Slots : edge'[s].timeFirst = edge[s].timeFirst
         /\ eb' = eb /\ link' = link
         /\ \A s \in Slots : Before(s, Slot(t)) => edge[s].dirs # {} /\ edge[s].neighbor # Dest(t)
         /\ Grows
<1>1. /\ edge \in [Slots -> EdgeType] /\ pc \in [Threads -> Labels]
  BY Frames
<1>2. pc[t] = "upd_write" /\ pc'[t] = "upd_count" /\ frame' = frame /\ eb' = eb /\ link' = link
  BY <1>1 DEF UpdWrite, Move, Goto
<1>3. Slot(t) \in Slots
  BY <1>2, SlotTypes DEF AtSlotLabels, InBlockLabels, Labels
<1>4. Fillable(t)
  BY <1>2 DEF SlotInv, UpdateOK
<1>5. /\ edge'[Slot(t)].neighbor = Dest(t) /\ edge'[Slot(t)].dirs # {}
      /\ \A s \in Slots : s # Slot(t) => edge'[s] = edge[s]
      /\ \A s \in Slots : edge'[s].timeFirst = edge[s].timeFirst
  BY <1>1, <1>3 DEF UpdWrite, EdgeType
<1>6. \A s \in Slots : Before(s, Slot(t)) => edge[s].dirs # {} /\ edge[s].neighbor # Dest(t)
  <2> SUFFICES ASSUME NEW s \in Slots, Before(s, Slot(t))
               PROVE  edge[s].dirs # {} /\ edge[s].neighbor # Dest(t)
    OBVIOUS
  <2>1. s[1] \in Nat /\ Slot(t)[1] = frame[t].tmp /\ Slot(t)[2] = frame[t].k
    BY SlotTypes, Frames DEF Slot, Blocks
  <2>2. CASE s[1] = frame[t].tmp
    BY <1>4, <2>1, <2>2, Frames DEF Before, Fillable, Passed, PassedSlots
  <2>3. CASE s[1] < frame[t].tmp /\ frame[t].tmp = frame[t].loc + 1
    BY <1>4, <2>1, <2>3, Frames DEF Fillable, Passed, PassedBlocks
  <2>4. frame[t].tmp = frame[t].loc + 1
    BY <1>4 DEF Fillable, Passed
  <2> QED BY <2>1, <2>2, <2>3, <2>4 DEF Before
<1>7. Grows
  <2>1. ASSUME NEW s \in Slots, Old(s)' PROVE Old(s)
    <3>1. PICK p \in Slots : edge'[p].dirs = {} /\ Before(p, s)
      BY <2>1 DEF Old, Before
    <3>2. edge[p].dirs = {}
      BY <1>5, <3>1
    <3>3. s # Slot(t)
      BY <1>5, <1>6, <3>1, <3>2
    <3> QED BY <1>5, <2>1, <3>1, <3>2, <3>3 DEF Old
  <2>2. \A b \in Blocks : eb'[b].high >= eb[b].high
    BY <1>2, SlotTypes
  <2> QED BY <1>4, <1>5, <2>1, <2>2 DEF Grows, Fillable
<1> QED BY <1>2, <1>3, <1>4, <1>5, <1>6, <1>7

LEMMA HighEffect ==
  ASSUME TypeInv, LinkInv, SlotInv, NEW t \in Threads, UpdHigh(t)
  PROVE  /\ pc[t] = "upd_high" /\ pc'[t] = "upd_first" /\ frame' = frame
         /\ Slot(t) \in Slots /\ edge' = edge /\ link' = link
         /\ \A b \in Blocks : b # frame[t].tmp => eb'[b] = eb[b]
         /\ eb'[frame[t].tmp].high = IF frame[t].k >= eb[frame[t].tmp].high
                                     THEN frame[t].k + 1 ELSE eb[frame[t].tmp].high
         /\ frame[t].tmp \in Blocks /\ frame[t].k \in Nat
         /\ Grows
<1>1. /\ pc \in [Threads -> Labels] /\ eb \in [Blocks -> BlockType]
  BY Frames
<1>2. pc[t] = "upd_high" /\ pc'[t] = "upd_first" /\ frame' = frame /\ edge' = edge /\ link' = link
  BY <1>1 DEF UpdHigh, Move, Goto
<1>3. Slot(t) \in Slots /\ frame[t].tmp \in Blocks /\ frame[t].k \in Nat
  BY <1>2, SlotTypes DEF AtSlotLabels, InBlockLabels, Labels, Slot, Slots, Indices
<1>4. /\ \A b \in Blocks : b # frame[t].tmp => eb'[b] = eb[b]
      /\ eb'[frame[t].tmp].high = IF frame[t].k >= eb[frame[t].tmp].high
                                  THEN frame[t].k + 1 ELSE eb[frame[t].tmp].high
  BY <1>1, <1>3 DEF UpdHigh, BlockType
<1>5. \A b \in Blocks : eb'[b].high >= eb[b].high
  BY <1>3, <1>4, SlotTypes
<1>6. \A s \in Slots : Old(s)' => Old(s)
  BY <1>2 DEF Old, Before
<1>7. Grows
  BY <1>2, <1>5, <1>6 DEF Grows
<1> QED BY <1>2, <1>3, <1>4, <1>7

\* A label says which step its thread takes.
LEMMA StepAtWrite ==
  ASSUME NEW t \in Threads, Call(t) \/ Step(t), pc[t] = "upd_write" PROVE UpdWrite(t)
BY DEF Call, Step, Move, EtypeBegin, FindBlock, FindScan, FindNext, Found,
  SeekFirst, SeekBlock, SeekScan, SeekNext, ClaimLock, ClaimRead, ClaimCheck,
  ClaimRelease, UpdLock, UpdTest, UpdCount, UpdHigh, UpdFirst, UpdDir,
  UpdNewOut, UpdStamp, UpdStampLock, UpdStampSet, UpdRecent, UpdUnlock, UpdRestore,
  GrowLock, GrowRetry, GrowNew, PushEbs, PushBlock, GrowLink

LEMMA StepAtCount ==
  ASSUME NEW t \in Threads, Call(t) \/ Step(t), pc[t] = "upd_count" PROVE UpdCount(t)
BY DEF Call, Step, Move, EtypeBegin, FindBlock, FindScan, FindNext, Found,
  SeekFirst, SeekBlock, SeekScan, SeekNext, ClaimLock, ClaimRead, ClaimCheck,
  ClaimRelease, UpdLock, UpdTest, UpdWrite, UpdHigh, UpdFirst, UpdDir,
  UpdNewOut, UpdStamp, UpdStampLock, UpdStampSet, UpdRecent, UpdUnlock, UpdRestore,
  GrowLock, GrowRetry, GrowNew, PushEbs, PushBlock, GrowLink

LEMMA StepAtHigh ==
  ASSUME NEW t \in Threads, Call(t) \/ Step(t), pc[t] = "upd_high" PROVE UpdHigh(t)
BY DEF Call, Step, Move, EtypeBegin, FindBlock, FindScan, FindNext, Found,
  SeekFirst, SeekBlock, SeekScan, SeekNext, ClaimLock, ClaimRead, ClaimCheck,
  ClaimRelease, UpdLock, UpdTest, UpdWrite, UpdCount, UpdFirst, UpdDir,
  UpdNewOut, UpdStamp, UpdStampLock, UpdStampSet, UpdRecent, UpdUnlock, UpdRestore,
  GrowLock, GrowRetry, GrowNew, PushEbs, PushBlock, GrowLink

LEMMA StepGrows ==
  ASSUME TypeInv, LinkInv, SlotInv, NEW t \in Threads, Call(t) \/ Step(t)
  PROVE  Grows
BY QuietSteps, QuietGrows, StepAtWrite, WriteEffect, StepAtHigh, HighEffect

LEMMA HighTypes ==
  ASSUME TypeInv, TypeInv'
  PROVE  \A b \in Blocks : eb[b].high \in Int /\ eb'[b].high \in Int
<1>1. eb \in [Blocks -> BlockType] /\ eb' \in [Blocks -> BlockType] /\ EBSize \in Nat
  BY Frames DEF TypeInv, TypeOK
<1> QED BY <1>1 DEF BlockType

LEMMA CompleteKept ==
  ASSUME TypeInv, TypeInv', Grows, NEW s \in Slots, Complete(s)
  PROVE  Complete(s)' /\ edge'[s].neighbor = edge[s].neighbor
<1>1. s[1] \in Blocks /\ s[2] \in Int
  BY SlotTypes
<1>2. eb[s[1]].high \in Int /\ eb'[s[1]].high \in Int
  BY <1>1, HighTypes
<1> QED BY <1>1, <1>2 DEF Grows, Complete

\* What a thread knows of the slots stays true while it is at its place.
LEMMA KnowledgeKept ==
  ASSUME TypeInv, TypeInv', Grows, NEW u \in Threads,
         frame'[u].loc = frame[u].loc, frame'[u].tmp = frame[u].tmp,
         frame'[u].k = frame[u].k, frame'[u].op = frame[u].op
  PROVE  /\ PassedBlocks(u) => PassedBlocks(u)'
         /\ PassedSlots(u) => PassedSlots(u)'
         /\ Passed(u) => Passed(u)'
         /\ NoOld(u) => NoOld(u)'
         /\ Slot(u)' = Slot(u) /\ Dest(u)' = Dest(u)
         /\ Slot(u) \in Slots /\ Settled(u) => Settled(u)'
<1>1. Slot(u)' = Slot(u) /\ Dest(u)' = Dest(u)
  BY DEF Slot, Dest
<1>2. PassedBlocks(u) => PassedBlocks(u)'
  BY <1>1 DEF Grows, PassedBlocks
<1>3. PassedSlots(u) => PassedSlots(u)'
  BY <1>1 DEF Grows, PassedSlots
<1>4. NoOld(u) => NoOld(u)'
  <2> SUFFICES ASSUME NoOld(u), NEW s \in Slots, Old(s)' PROVE edge'[s].neighbor # Dest(u)
    BY <1>1 DEF NoOld
  <2>1. Old(s)
    BY DEF Grows
  <2>2. edge[s].dirs # {} /\ edge[s].neighbor # Dest(u)
    BY <2>1 DEF Old, NoOld
  <2> QED BY <2>2 DEF Grows
<1>5. Slot(u) \in Slots /\ Settled(u) => Settled(u)'
  BY <1>1, CompleteKept DEF Settled
<1> QED BY <1>1, <1>2, <1>3, <1>4, <1>5 DEF Passed

LEMMA EndkKept ==
  ASSUME TypeInv, TypeInv', Grows, NEW u \in Threads, frame[u].tmp \in Blocks,
         frame'[u].tmp = frame[u].tmp, frame'[u].endk = frame[u].endk, ScanningOK(u)
  PROVE  ScanningOK(u)'
<1>1. eb[frame[u].tmp].high \in Int /\ eb'[frame[u].tmp].high \in Int
  BY HighTypes
<1>2. frame[u].endk \in Int
  BY AtThread, Frames DEF FrameType
<1> QED BY <1>1, <1>2 DEF Grows, ScanningOK

\* The other threads.
LEMMA OthersKnow ==
  ASSUME TypeInv, TypeInv', LinkInv, SlotInv, Grows, NEW u \in Threads,
         pc'[u] = pc[u], frame'[u] = frame[u],
         pc[u] \in {"claim_check", "upd_lock", "upd_test", "upd_write"} =>
           /\ edge'[Slot(u)].neighbor = edge[Slot(u)].neighbor
           /\ edge[Slot(u)].dirs = {} => edge'[Slot(u)].dirs = {}
  PROVE  SearchOK(u)' /\ UpdateOK(u)'
<1>1. SearchOK(u) /\ UpdateOK(u)
  BY DEF SlotInv
<1>2. /\ PassedBlocks(u) => PassedBlocks(u)'
      /\ Passed(u) => Passed(u)'
      /\ NoOld(u) => NoOld(u)'
      /\ Slot(u)' = Slot(u) /\ Dest(u)' = Dest(u)
      /\ Slot(u) \in Slots /\ Settled(u) => Settled(u)'
  BY KnowledgeKept
<1>3. pc[u] \in AtSlotLabels => Slot(u) \in Slots
  BY SlotTypes
<1>4. pc[u] \in InBlockLabels /\ ScanningOK(u) => ScanningOK(u)'
  BY AtBlock, EndkKept
<1>5. ASSUME pc[u] = "find_scan"
      PROVE  \A s \in Slots : Old(s)' =>
            /\ frame[u].tmp # 1 \/ s[2] < frame[u].k => edge'[s].neighbor # Dest(u)
            /\ frame[u].tmp = 1 => s[2] < frame[u].endk
  <2> SUFFICES ASSUME NEW s \in Slots, Old(s)'
               PROVE  /\ frame[u].tmp # 1 \/ s[2] < frame[u].k => edge'[s].neighbor # Dest(u)
                      /\ frame[u].tmp = 1 => s[2] < frame[u].endk
    OBVIOUS
  <2>1. Old(s) /\ edge[s].dirs # {}
    BY DEF Grows, Old
  <2>2. edge'[s].neighbor = edge[s].neighbor
    BY <2>1 DEF Grows
  <2> QED BY <1>1, <1>5, <2>1, <2>2 DEF SearchOK
<1>6. SearchOK(u)'
  <2>1. pc[u] = "claim_release" => Complete(Slot(u))' /\ edge'[Slot(u)].neighbor # Dest(u)
    <3> SUFFICES ASSUME pc[u] = "claim_release"
                 PROVE  Complete(Slot(u))' /\ edge'[Slot(u)].neighbor # Dest(u)
      OBVIOUS
    <3>1. Slot(u) \in Slots
      BY <1>3 DEF AtSlotLabels, InBlockLabels, Labels
    <3>2. Complete(Slot(u)) /\ edge[Slot(u)].neighbor # Dest(u)
      BY <1>1 DEF SearchOK
    <3>3. ASSUME NEW s \in Slots, s = Slot(u)
          PROVE  Complete(s)' /\ edge'[s].neighbor # Dest(u)
      BY <3>2, <3>3, CompleteKept
    <3> QED BY <1>2, <3>1, <3>3 DEF Complete
  <2>2. pc[u] = "claim_check" => frame[u].seen = edge'[Slot(u)].neighbor
    BY <1>1 DEF SearchOK
  <2>3. pc[u] = "find_block" /\ frame[u].tmp # 1 => NoOld(u)'
    BY <1>1, <1>2 DEF SearchOK
  <2>4. pc[u] = "find_scan" => ScanningOK(u)'
    BY <1>1, <1>4 DEF SearchOK, InBlockLabels, Labels
  <2>5. pc[u] \in {"seek_first", "grow_lock", "grow_retry", "grow_new", "seek_block"} =>
          PassedBlocks(u)' /\ NoOld(u)'
    BY <1>1, <1>2 DEF SearchOK
  <2>6. pc[u] \in {"seek_scan", "claim_lock", "claim_read", "claim_check", "claim_release"} =>
          Passed(u)' /\ NoOld(u)' /\ ScanningOK(u)'
    BY <1>1, <1>2, <1>4 DEF SearchOK, InBlockLabels, Labels
  <2> QED BY <1>2, <1>5, <2>1, <2>2, <2>3, <2>4, <2>5, <2>6 DEF SearchOK
<1>7. UpdateOK(u)'
  <2>1. pc[u] \in {"upd_lock", "upd_test", "upd_write"} /\ Fillable(u) => Fillable(u)'
    BY <1>2 DEF Fillable
  <2>2. pc[u] \in {"upd_lock", "upd_test", "upd_count", "upd_high"} \cup SettledLabels =>
          Slot(u) \in Slots
    BY <1>3 DEF AtSlotLabels, InBlockLabels, Labels, SettledLabels
  <2>3. pc[u] \in {"upd_count", "upd_high"} =>
          edge'[Slot(u)].dirs # {} /\ edge'[Slot(u)].neighbor = Dest(u) /\ Passed(u)'
    BY <1>1, <1>2, <2>2 DEF UpdateOK, Grows
  <2> QED BY <1>1, <1>2, <2>1, <2>2, <2>3 DEF UpdateOK
<1> QED BY <1>6, <1>7

LEMMA OtherThreads ==
  ASSUME TypeInv, TypeInv', LinkInv, SlotInv, NEW t \in Threads, Call(t) \/ Step(t)
  PROVE  \A u \in Threads \ {t} : SearchOK(u)' /\ UpdateOK(u)'
<1> SUFFICES ASSUME NEW u \in Threads \ {t} PROVE SearchOK(u)' /\ UpdateOK(u)'
  OBVIOUS
<1>1. pc'[u] = pc[u] /\ frame'[u] = frame[u] /\ Grows
  BY Others, StepGrows
<1>2. ASSUME pc[u] \in {"claim_check", "upd_lock", "upd_test", "upd_write"}
      PROVE  /\ edge'[Slot(u)].neighbor = edge[Slot(u)].neighbor
             /\ edge[Slot(u)].dirs = {} => edge'[Slot(u)].dirs = {}
  <2>1. Slot(u) \in Slots /\ pc[u] \in Claiming
    BY <1>2, SlotTypes DEF AtSlotLabels, InBlockLabels, Labels, Claiming
  <2>2. CASE pc[t] \notin {"upd_write", "upd_high"}
    BY <2>1, <2>2, QuietSteps DEF Quiet
  <2>3. CASE UpdHigh(t)
    BY <2>3, HighEffect
  <2>4. CASE UpdWrite(t)
    <3>1. pc[t] \in Claiming /\ edge[Slot(t)].dirs = {}
      BY <2>4, WriteEffect DEF Claiming, Fillable
    <3>2. Slot(u) # Slot(t)
      BY <2>1, <3>1 DEF SlotInv, ClaimLockOK, Complete
    <3> QED BY <2>1, <2>4, <3>2, WriteEffect
  <2>5. pc[t] = "upd_write" => UpdWrite(t)
    BY StepAtWrite
  <2>6. pc[t] = "upd_high" => UpdHigh(t)
    BY StepAtHigh
  <2> QED BY <2>2, <2>3, <2>4, <2>5, <2>6
<1> QED BY <1>1, <1>2, OthersKnow

-----------------------------------------------------------------------------
(* The slots and the high water marks.                                     *)

LEMMA SlotsKept ==
  ASSUME TypeInv, TypeInv', LinkInv, SlotInv, NEW t \in Threads, Call(t) \/ Step(t)
  PROVE  SlotsOK'
<1>1. /\ \A u \in Threads \ {t} : pc'[u] = pc[u] /\ Slot(u)' = Slot(u)
      /\ SlotsOK /\ Grows
  BY Others, StepGrows DEF SlotInv, Slot
<1>2. \A s \in Slots : /\ s[1] \in Blocks /\ s[2] \in Int /\ eb[s[1]].high \in Int
                       /\ eb'[s[1]].high \in Int
  BY SlotTypes, HighTypes
<1>3. CASE pc[t] \notin {"upd_write", "upd_high"}
  <2>1. Quiet
    BY <1>3, QuietSteps
  <2>2. pc[t] = "upd_count" => pc'[t] = "upd_high" /\ Slot(t)' = Slot(t)
    <3>1. pc[t] = "upd_count" => UpdCount(t)
      BY StepAtCount
    <3>2. UpdCount(t) => pc'[t] = "upd_high" /\ Slot(t)' = Slot(t)
      BY Frames DEF UpdCount, Move, Goto, Slot
    <3> QED BY <3>1, <3>2
  <2>3. ASSUME NEW s \in Slots, s[2] >= eb'[s[1]].high, edge'[s].dirs # {}
        PROVE  \E u \in Threads : pc'[u] \in {"upd_count", "upd_high"} /\ Slot(u)' = s
    <3>1. PICK u \in Threads : pc[u] \in {"upd_count", "upd_high"} /\ Slot(u) = s
      BY <1>1, <1>2, <2>1, <2>3 DEF Quiet, SlotsOK
    <3> QED BY <1>1, <1>3, <2>2, <3>1
  <2> QED BY <1>1, <1>2, <2>1, <2>3 DEF Quiet, SlotsOK
<1>4. CASE UpdWrite(t)
  <2>1. /\ pc'[t] = "upd_count" /\ Slot(t)' = Slot(t)
        /\ edge'[Slot(t)].neighbor # Blank /\ edge'[Slot(t)].dirs # {}
        /\ \A s \in Slots : s # Slot(t) => edge'[s] = edge[s]
        /\ eb' = eb /\ pc[t] = "upd_write"
    BY <1>4, WriteEffect, SlotTypes DEF Slot
  <2>2. ASSUME NEW s \in Slots, s[2] >= eb'[s[1]].high, edge'[s].dirs # {}
        PROVE  \E u \in Threads : pc'[u] \in {"upd_count", "upd_high"} /\ Slot(u)' = s
    <3>1. CASE s = Slot(t)
      BY <2>1, <3>1
    <3>2. CASE s # Slot(t)
      <4>1. PICK u \in Threads : pc[u] \in {"upd_count", "upd_high"} /\ Slot(u) = s
        BY <1>1, <2>1, <2>2, <3>2 DEF SlotsOK
      <4> QED BY <1>1, <2>1, <4>1
    <3> QED BY <3>1, <3>2
  <2> QED BY <1>1, <2>1, <2>2 DEF SlotsOK
<1>5. CASE UpdHigh(t)
  <2>1. /\ edge' = edge /\ pc[t] = "upd_high" /\ frame' = frame
        /\ \A b \in Blocks : b # frame[t].tmp => eb'[b] = eb[b]
        /\ eb'[frame[t].tmp].high = IF frame[t].k >= eb[frame[t].tmp].high
                                    THEN frame[t].k + 1 ELSE eb[frame[t].tmp].high
        /\ frame[t].tmp \in Blocks /\ frame[t].k \in Nat
    BY <1>5, HighEffect
  <2>2. edge[Slot(t)].dirs # {} /\ PassedSlots(t)
    BY <2>1 DEF SlotInv, UpdateOK, Passed
  <2>3. ASSUME NEW s \in Slots, s[2] < eb'[s[1]].high, edge[s].neighbor # Blank
        PROVE  edge[s].dirs # {}
    <3>1. CASE s[2] < eb[s[1]].high
      BY <1>1, <2>3, <3>1 DEF SlotsOK
    <3>2. CASE s[1] = frame[t].tmp /\ s[2] < frame[t].k
      BY <2>2, <3>2 DEF PassedSlots
    <3>3. CASE s[1] = frame[t].tmp /\ s[2] = frame[t].k
      <4>1. s = Slot(t)
        BY <3>3, SlotTypes DEF Slot
      <4> QED BY <2>2, <4>1
    <3> QED BY <1>2, <2>1, <2>3, <3>1, <3>2, <3>3
  <2>4. ASSUME NEW s \in Slots, s[2] >= eb'[s[1]].high, edge[s].dirs # {}
        PROVE  \E u \in Threads : pc'[u] \in {"upd_count", "upd_high"} /\ Slot(u)' = s
    <3>1. s[2] >= eb[s[1]].high
      BY <1>1, <1>2, <2>4 DEF Grows
    <3>2. PICK u \in Threads : pc[u] \in {"upd_count", "upd_high"} /\ Slot(u) = s
      BY <1>1, <2>4, <3>1 DEF SlotsOK
    <3>3. u # t
      <4>1. s = Slot(t) => s[1] = frame[t].tmp /\ s[2] = frame[t].k
        BY DEF Slot
      <4>2. s = Slot(t) => s[2] < eb'[s[1]].high
        BY <1>2, <2>1, <4>1
      <4> QED BY <1>2, <2>4, <3>2, <4>2
    <3> QED BY <1>1, <3>2, <3>3
  <2> QED BY <1>1, <2>1, <2>3, <2>4 DEF SlotsOK
<1> QED BY <1>3, <1>4, <1>5, StepAtWrite, StepAtHigh

LEMMA LinkStarted ==
  ASSUME TypeInv, LinkInv, NEW t \in Threads, Call(t) \/ Step(t), link[0] # 0
  PROVE  link'[0] # 0
<1>1. CASE Stays(t)
  BY <1>1, StaysInPlace
<1>2. CASE Moves(t)
  BY <1>2, MovesEffect
<1>3. CASE UpdUnlock(t) \/ UpdRestore(t) \/ GrowNew(t)
  BY <1>3 DEF UpdUnlock, UpdRestore, GrowNew
<1>4. CASE PushEbs(t)
  BY <1>4, PushEbsLink
<1>5. CASE GrowLock(t)
  BY <1>5, Frames DEF GrowLock
<1>6. CASE GrowRetry(t) \/ GrowLink(t)
  <2>0. /\ link' = [link EXCEPT ![frame[t].loc] = frame[t].tmp]
        /\ 0 \in 0..MaxBlocks /\ link \in [0..MaxBlocks -> 0..MaxBlocks \cup {MARKER}]
    BY <1>6, Frames DEF GrowRetry, GrowLink
  <2>1. frame[t].tmp = frame[t].loc + 1
    BY <1>6 DEF LinkInv, PlaceOK, GrowRetry, GrowLink, Move
  <2>2. frame[t].tmp # 0
    BY <2>1, Frames
  <2> QED BY <2>0, <2>2
<1> QED BY <1>1, <1>2, <1>3, <1>4, <1>5, <1>6 DEF Step, Stays, Moves

LEMMA OldKept ==
  ASSUME TypeInv, TypeInv', LinkInv, SlotInv, NEW t \in Threads, Call(t) \/ Step(t)
  PROVE  OldOK'
<1> SUFFICES ASSUME NEW s \in Slots, Old(s)'
             PROVE  s[1] = 1 /\ link'[0] # 0 /\ s[2] < eb'[1].high
  BY DEF OldOK
<1>1. Grows
  BY StepGrows
<1>2. Old(s)
  BY <1>1 DEF Grows
<1>3. s[1] = 1 /\ link[0] # 0 /\ s[2] < eb[1].high
  BY <1>2 DEF SlotInv, OldOK
<1>4. 1 \in Blocks /\ eb[1].high \in Int /\ eb'[1].high \in Int /\ s[2] \in Int
  BY <1>3, SlotTypes, HighTypes
<1>5. eb'[1].high >= eb[1].high
  BY <1>1, <1>4 DEF Grows
<1> QED BY <1>3, <1>4, <1>5, LinkStarted

LEMMA UniqueKept ==
  ASSUME TypeInv, LinkInv, SlotInv, NEW t \in Threads, Call(t) \/ Step(t)
  PROVE  UniqueNeighbor'
<1>1. \A s1, s2 \in Slots : edge[s1].dirs # {} /\ edge[s2].dirs # {}
                            /\ edge[s1].neighbor = edge[s2].neighbor => s1 = s2
  BY DEF SlotInv, UniqueNeighbor, Occupied
<1>2. \A s1, s2 \in Slots : edge'[s1].dirs # {} /\ edge'[s2].dirs # {}
                            /\ edge'[s1].neighbor = edge'[s2].neighbor => s1 = s2
  <2>1. CASE pc[t] \notin {"upd_write", "upd_high"}
    BY <1>1, <2>1, QuietSteps DEF Quiet
  <2>2. CASE UpdHigh(t)
    BY <1>1, <2>2, HighEffect
  <2>3. CASE UpdWrite(t)
    <3>1. /\ edge'[Slot(t)].neighbor = Dest(t) /\ Slot(t) \in Slots
          /\ \A s \in Slots : s # Slot(t) => edge'[s] = edge[s]
          /\ \A s \in Slots : Before(s, Slot(t)) => edge[s].neighbor # Dest(t)
          /\ edge[Slot(t)].dirs = {} /\ NoOld(t)
      BY <2>3, WriteEffect DEF Fillable
    <3>2. ASSUME NEW s \in Slots, s # Slot(t), edge[s].dirs # {}
          PROVE  edge[s].neighbor # Dest(t)
      <4>1. CASE Before(s, Slot(t))
        BY <3>1, <4>1
      <4>2. CASE Before(Slot(t), s)
        <5>1. Old(s)
          BY <3>1, <3>2, <4>2 DEF Old
        <5> QED BY <3>1, <5>1 DEF NoOld
      <4>3. Before(s, Slot(t)) \/ Before(Slot(t), s)
        BY <3>1, <3>2, SlotTypes DEF Before, Blocks
      <4> QED BY <4>1, <4>2, <4>3
    <3> QED BY <1>1, <3>1, <3>2
  <2> QED BY <2>1, <2>2, <2>3, StepAtWrite, StepAtHigh
<1> QED BY <1>2 DEF UniqueNeighbor, Occupied

-----------------------------------------------------------------------------
(* Claims.                                                                 *)

LEMMA ClaimingSlot ==
  ASSUME TypeInv, NEW u \in Threads, pc[u] \in Claiming PROVE Slot(u) \in Slots
BY SlotTypes DEF Claiming, AtSlotLabels, InBlockLabels, Labels

LEMMA ClaimKept ==
  ASSUME TypeInv, TypeInv', LinkInv, SlotInv, NEW t \in Threads, Call(t) \/ Step(t),
         pc'[t] \in Claiming =>
           /\ Slot(t)' = Slot(t) /\ Slot(t) \in Slots
           /\ \/ Complete(Slot(t))
              \/ pc[t] \in Claiming /\ (Growing(t) => Growing(t)'),
         \A s \in Slots : \/ edge'[s].timeFirst \in {edge[s].timeFirst, MARKER}
                          \/ Complete(s)
  PROVE  ClaimLockOK'
<1>1. /\ \A u \in Threads \ {t} : pc'[u] = pc[u] /\ Slot(u)' = Slot(u) /\ (Growing(u)' <=> Growing(u))
      /\ Grows
  BY Others, StepGrows DEF Slot, Growing
<1>2. \A s \in Slots : Complete(s) => Complete(s)'
  BY <1>1, CompleteKept
<1>3. \A u \in Threads : pc[u] \in Claiming => Slot(u) \in Slots
  BY ClaimingSlot
<1>4. \A u \in Threads : pc'[u] \in Claiming =>
        /\ Slot(u)' = Slot(u) /\ Slot(u) \in Slots
        /\ \/ Complete(Slot(u))
           \/ pc[u] \in Claiming /\ (Growing(u) => Growing(u)')
  BY <1>1, <1>3
<1>5. ASSUME NEW u \in Threads, pc'[u] \in Claiming, ~Complete(Slot(u))'
      PROVE  Growing(u)' \/ edge'[Slot(u)].timeFirst = MARKER
  <2>1. Slot(u)' = Slot(u) /\ Slot(u) \in Slots /\ ~Complete(Slot(u))
    BY <1>2, <1>4, <1>5 DEF Complete
  <2>2. pc[u] \in Claiming /\ (Growing(u) => Growing(u)')
    BY <1>4, <1>5, <2>1
  <2>3. Growing(u) \/ edge[Slot(u)].timeFirst = MARKER
    BY <2>1, <2>2 DEF SlotInv, ClaimLockOK
  <2> QED BY <2>1, <2>2, <2>3
<1>6. ASSUME NEW u \in Threads, NEW v \in Threads, u # v,
             pc'[u] \in Claiming, pc'[v] \in Claiming, Slot(u)' = Slot(v)'
      PROVE  Complete(Slot(u))'
  <2>1. Slot(u)' = Slot(u) /\ Slot(v)' = Slot(v) /\ Slot(u) = Slot(v) /\ Slot(u) \in Slots
    BY <1>4, <1>6
  <2>2. Complete(Slot(u))
    BY <1>4, <1>6, <2>1 DEF SlotInv, ClaimLockOK
  <2>3. ASSUME NEW s \in Slots, s = Slot(u) PROVE Complete(s)'
    BY <1>2, <2>2, <2>3
  <2> QED BY <2>1, <2>3 DEF Complete
<1> QED BY <1>4, <1>5, <1>6 DEF ClaimLockOK

LEMMA ClaimLockClaims ==
  ASSUME TypeInv, TypeInv', LinkInv, SlotInv, NEW t \in Threads, ClaimLock(t)
  PROVE  ClaimLockOK'
<1>1. /\ \A u \in Threads \ {t} : pc'[u] = pc[u] /\ Slot(u)' = Slot(u) /\ (Growing(u)' <=> Growing(u))
      /\ Grows
  BY Others, StepGrows DEF Slot, Growing, Step
<1>2. /\ pc[t] = "claim_lock" /\ edge[Slot(t)].timeFirst # MARKER
      /\ Slot(t) \in Slots /\ Slot(t)' = Slot(t)
      /\ edge' = [edge EXCEPT ![Slot(t)].timeFirst = MARKER] /\ eb' = eb
  <2>1. pc[t] = "claim_lock" /\ edge[Slot(t)].timeFirst # MARKER /\ eb' = eb
        /\ edge' = [edge EXCEPT ![Slot(t)].timeFirst = MARKER]
    BY DEF ClaimLock, Move
  <2>2. Slot(t) \in Slots
    BY <2>1, SlotTypes DEF AtSlotLabels, InBlockLabels, Labels
  <2>3. Slot(t)' = Slot(t)
    BY StaysInPlace, Frames DEF Stays, ClaimLock, Slot, FrameType
  <2> QED BY <2>1, <2>2, <2>3
<1>3. /\ \A s \in Slots : edge'[s].dirs = edge[s].dirs
      /\ \A s \in Slots : edge'[s].timeFirst = IF s = Slot(t) THEN MARKER ELSE edge[s].timeFirst
  BY <1>2, Frames DEF EdgeType
<1>4. \A s \in Slots : Complete(s)' <=> Complete(s)
  BY <1>2, <1>3 DEF Complete
<1>5. \A u \in Threads : pc[u] \in Claiming => Slot(u) \in Slots
  BY ClaimingSlot
<1>6. ASSUME NEW u \in Threads \ {t}, pc[u] \in Claiming, Slot(u) = Slot(t)
      PROVE  Complete(Slot(t))
  <2>1. ~Growing(u)
    <3>1. frame[u].tmp = frame[t].tmp
      BY <1>6 DEF Slot
    <3> QED BY <3>1, Frames DEF LinkInv, PlaceOK
  <2> QED BY <1>2, <1>6, <2>1 DEF SlotInv, ClaimLockOK
<1>7. ASSUME NEW u \in Threads, pc'[u] \in Claiming, ~Complete(Slot(u))'
      PROVE  Growing(u)' \/ edge'[Slot(u)].timeFirst = MARKER
  <2>1. CASE u = t
    BY <1>2, <1>3, <2>1
  <2>2. CASE u # t
    <3>1. pc[u] \in Claiming /\ Slot(u)' = Slot(u) /\ Slot(u) \in Slots /\ ~Complete(Slot(u))
      BY <1>1, <1>2, <1>3, <1>5, <1>7, <2>2 DEF Complete
    <3> QED BY <1>1, <1>3, <2>2, <3>1 DEF SlotInv, ClaimLockOK
  <2> QED BY <2>1, <2>2
<1>8. ASSUME NEW u \in Threads, NEW v \in Threads, u # v,
             pc'[u] \in Claiming, pc'[v] \in Claiming, Slot(u)' = Slot(v)'
      PROVE  Complete(Slot(u))'
  <2>1. Slot(u)' = Slot(u) /\ Slot(v)' = Slot(v) /\ Slot(u) \in Slots
    BY <1>1, <1>2, <1>5, <1>8
  <2>2. Complete(Slot(u))
    <3>1. CASE u = t
      BY <1>1, <1>6, <1>8, <2>1, <3>1
    <3>2. CASE v = t
      BY <1>1, <1>6, <1>8, <2>1, <3>2
    <3>3. CASE u # t /\ v # t
      BY <1>1, <1>8, <2>1, <3>3 DEF SlotInv, ClaimLockOK
    <3> QED BY <3>1, <3>2, <3>3
  <2>3. ASSUME NEW s \in Slots, s = Slot(u) PROVE Complete(s)'
    BY <1>4, <2>2, <2>3
  <2> QED BY <2>1, <2>3 DEF Complete
<1>9. \A u \in Threads : pc'[u] \in Claiming => Slot(u)' = Slot(u)
  BY <1>1, <1>2
<1> QED BY <1>7, <1>8, <1>9 DEF ClaimLockOK

LEMMA GrowNewClaims ==
  ASSUME TypeInv, TypeInv', LinkInv, SlotInv, NEW t \in Threads, GrowNew(t)
  PROVE  ClaimLockOK'
<1>1. \A u \in Threads \ {t} : pc'[u] = pc[u] /\ Slot(u)' = Slot(u) /\ (Growing(u)' <=> Growing(u))
  BY Others DEF Slot, Growing, Step
<1>2. edge' = edge /\ eb' = eb
  BY GrowNewLink
<1>3. Slot(t)'[1] = ebpool_tail /\ Growing(t)'
  BY Frames DEF GrowNew, Slot, Growing, FrameType
<1>4. \A u \in Threads \ {t} : Slot(u) # Slot(t)'
  <2>1. \A u \in Threads : Slot(u)[1] = frame[u].tmp /\ frame[u].tmp < ebpool_tail
                           /\ frame[u].tmp \in Nat /\ ebpool_tail \in Nat
    BY Frames DEF Slot
  <2> QED BY <1>3, <2>1
<1>5. \A u \in Threads \ {t} : Complete(Slot(u))' <=> Complete(Slot(u))
  BY <1>1, <1>2 DEF Complete
<1> QED BY <1>1, <1>2, <1>3, <1>4, <1>5 DEF SlotInv, ClaimLockOK

LEMMA ClaimsKept ==
  ASSUME TypeInv, TypeInv', LinkInv, SlotInv, NEW t \in Threads, Call(t) \/ Step(t)
  PROVE  ClaimLockOK'
<1>0. /\ pc \in [Threads -> Labels] /\ frame \in [Threads -> FrameType]
      /\ edge \in [Slots -> EdgeType]
  BY Frames
<1>1. CASE Moves(t)
  BY <1>1, MovesEffect, ClaimKept DEF Claiming
<1>2. CASE UpdUnlock(t) \/ UpdRestore(t)
  <2>1. pc[t] \in SettledLabels /\ pc'[t] \in {"idle", "restore", "push_ebs"}
    BY <1>0, <1>2 DEF UpdUnlock, UpdRestore, Return, Goto, SettledLabels, FrameType
  <2>2. Complete(Slot(t)) /\ Slot(t) \in Slots
    BY <2>1, SlotTypes DEF SlotInv, UpdateOK, Settled, SettledLabels, AtSlotLabels,
       InBlockLabels, Labels
  <2>3. \A s \in Slots : \/ edge'[s].timeFirst \in {edge[s].timeFirst, MARKER}
                         \/ Complete(s)
    BY <1>0, <1>2, <2>2 DEF UpdUnlock, UpdRestore, EdgeType
  <2> QED BY <2>1, <2>3, ClaimKept DEF Claiming
<1>3. CASE GrowLock(t) \/ GrowRetry(t) \/ PushEbs(t) \/ GrowLink(t)
  <2>1. pc'[t] \notin Claiming /\ edge' = edge
    BY <1>0, <1>3 DEF GrowLock, GrowRetry, PushEbs, GrowLink, Return, Move, Goto, Claiming
  <2> QED BY <2>1, ClaimKept
<1>4. CASE Stays(t) /\ ~ClaimLock(t)
  <2>1. \A s \in Slots : \/ edge'[s].timeFirst \in {edge[s].timeFirst, MARKER}
                         \/ Complete(s)
    <3>1. CASE ClaimRelease(t) \/ UpdFirst(t) \/ UpdNewOut(t)
      <4>1. Complete(Slot(t))
        BY <3>1 DEF ClaimRelease, UpdFirst, UpdNewOut, Move, SlotInv, SearchOK, UpdateOK,
           SettledLabels, Settled
      <4> QED BY <1>0, <3>1, <4>1 DEF ClaimRelease, UpdFirst, UpdNewOut, EdgeType
    <3>2. CASE UpdLock(t) \/ UpdWrite(t) \/ UpdDir(t) \/ UpdRecent(t)
      BY <1>0, <3>2 DEF UpdLock, UpdWrite, UpdDir, UpdRecent, EdgeType
    <3>3. CASE \/ FindBlock(t) \/ FindScan(t) \/ Found(t) \/ SeekBlock(t) \/ SeekScan(t)
               \/ ClaimRead(t) \/ ClaimCheck(t) \/ UpdTest(t) \/ UpdStamp(t) \/ PushBlock(t)
               \/ UpdCount(t) \/ UpdHigh(t) \/ UpdStampLock(t) \/ UpdStampSet(t)
      BY <3>3 DEF FindBlock, FindScan, Found, SeekBlock, SeekScan, ClaimRead, ClaimCheck,
         UpdTest, UpdStamp, PushBlock, UpdCount, UpdHigh, UpdStampLock, UpdStampSet, shared
    <3> QED BY <1>4, <3>1, <3>2, <3>3 DEF Stays
  <2>2. ASSUME pc'[t] \in Claiming
        PROVE  /\ Slot(t)' = Slot(t) /\ Slot(t) \in Slots
               /\ \/ Complete(Slot(t))
                  \/ pc[t] \in Claiming /\ (Growing(t) => Growing(t)')
    <3>1. CASE Found(t)
      <4>1. pc[t] = "found" /\ Slot(t)' = Slot(t)
        BY <1>0, <3>1 DEF Found, Move, Slot, FrameType
      <4>2. Slot(t) \in Slots
        BY <4>1, SlotTypes DEF AtSlotLabels, InBlockLabels, Labels
      <4> QED BY <4>1, <4>2 DEF SlotInv, UpdateOK, SettledLabels, Settled
    <3>2. CASE ClaimCheck(t)
      <4>1. pc[t] = "claim_check" /\ Slot(t)' = Slot(t)
        BY <1>0, <3>2 DEF ClaimCheck, Slot, FrameType
      <4>2. ~Growing(t)
        BY <4>1 DEF LinkInv, PlaceOK, GrowLabels, Updating
      <4> QED BY <4>1, <4>2, ClaimingSlot DEF Claiming
    <3>3. CASE ClaimRead(t) \/ UpdLock(t) \/ UpdTest(t) \/ UpdWrite(t) \/ UpdCount(t)
      <4>1. pc[t] \in Claiming /\ frame'[t].tmp = frame[t].tmp /\ frame'[t].k = frame[t].k
            /\ frame'[t].then = frame[t].then
        BY <1>0, <3>3 DEF ClaimRead, UpdLock, UpdTest, UpdWrite, UpdCount, Move, Claiming, FrameType
      <4> QED BY <4>1, ClaimingSlot DEF Slot, Growing
    <3>4. CASE \/ FindBlock(t) \/ FindScan(t) \/ SeekBlock(t) \/ SeekScan(t)
               \/ ClaimRelease(t) \/ PushBlock(t) \/ UpdHigh(t)
      BY <1>0, <2>2, <3>4 DEF FindBlock, FindScan, SeekBlock, SeekScan, ClaimRelease,
         PushBlock, UpdHigh, Move, Goto, Claiming
    <3>5. CASE \/ UpdFirst(t) \/ UpdDir(t) \/ UpdNewOut(t) \/ UpdStamp(t)
               \/ UpdStampLock(t) \/ UpdStampSet(t) \/ UpdRecent(t)
      BY <1>0, <2>2, <3>5 DEF UpdFirst, UpdDir, UpdNewOut, UpdStamp, UpdStampLock,
         UpdStampSet, UpdRecent, AfterDirection, Move, Goto, Claiming
    <3> QED BY <1>4, <3>1, <3>2, <3>3, <3>4, <3>5 DEF Stays
  <2> QED BY <2>1, <2>2, ClaimKept
<1> QED BY <1>1, <1>2, <1>3, <1>4, ClaimLockClaims, GrowNewClaims DEF Step, Stays, Moves

-----------------------------------------------------------------------------
(* The thread that takes the step.                                         *)

LEMMA OpKept ==
  ASSUME Grows, NEW t \in Threads, frame'[t].op = frame[t].op
  PROVE  /\ Dest(t)' = Dest(t)
         /\ NoOld(t) => NoOld(t)'
         /\ frame'[t].loc = frame[t].loc /\ PassedBlocks(t) => PassedBlocks(t)'
<1>1. Dest(t)' = Dest(t)
  BY DEF Dest
<1>2. NoOld(t) => NoOld(t)'
  <2> SUFFICES ASSUME NoOld(t), NEW s \in Slots, Old(s)' PROVE edge'[s].neighbor # Dest(t)
    BY <1>1 DEF NoOld
  <2>1. Old(s)
    BY DEF Grows
  <2>2. edge[s].dirs # {} /\ edge[s].neighbor # Dest(t)
    BY <2>1 DEF Old, NoOld
  <2> QED BY <2>2 DEF Grows
<1>3. frame'[t].loc = frame[t].loc /\ PassedBlocks(t) => PassedBlocks(t)'
  BY <1>1 DEF Grows, PassedBlocks
<1> QED BY <1>1, <1>2, <1>3

\* Labels at which nothing is claimed of the slots.
LEMMA OwnRest ==
  ASSUME NEW t \in Threads,
         pc'[t] \in {"idle", "etype_begin", "push_ebs", "push_block", "grow_link"}
  PROVE  SearchOK(t)' /\ UpdateOK(t)'
BY DEF SearchOK, UpdateOK, SettledLabels

LEMMA OwnSettled ==
  ASSUME TypeInv, TypeInv', SlotInv, Grows, NEW t \in Threads, pc[t] \in SettledLabels,
         pc'[t] \in SettledLabels \cup {"upd_lock"},
         frame'[t].loc = frame[t].loc, frame'[t].tmp = frame[t].tmp,
         frame'[t].k = frame[t].k, frame'[t].op = frame[t].op
  PROVE  SearchOK(t)' /\ UpdateOK(t)'
<1>1. Slot(t) \in Slots
  BY SlotTypes DEF SettledLabels, AtSlotLabels, InBlockLabels, Labels
<1>2. Settled(t)
  BY DEF SlotInv, UpdateOK
<1>3. Settled(t)'
  BY <1>1, <1>2, KnowledgeKept
<1> QED BY <1>3 DEF SearchOK, UpdateOK, SettledLabels

LEMMA SettledSteps ==
  ASSUME TypeInv, TypeInv', LinkInv, SlotInv, NEW t \in Threads,
         \/ Found(t) \/ UpdFirst(t) \/ UpdDir(t) \/ UpdNewOut(t) \/ UpdStamp(t)
         \/ UpdStampLock(t) \/ UpdStampSet(t) \/ UpdRecent(t) \/ UpdUnlock(t) \/ UpdRestore(t)
  PROVE  SearchOK(t)' /\ UpdateOK(t)'
<1>0. pc \in [Threads -> Labels] /\ frame \in [Threads -> FrameType] /\ frame[t] \in FrameType
  BY Frames
<1>1. Grows
  BY StepGrows DEF Step
<1>2. CASE Found(t)
  <2>1. /\ pc[t] \in SettledLabels /\ pc'[t] \in SettledLabels \cup {"upd_lock"}
        /\ frame'[t].loc = frame[t].loc /\ frame'[t].tmp = frame[t].tmp
        /\ frame'[t].k = frame[t].k /\ frame'[t].op = frame[t].op
    BY <1>0, <1>2 DEF Found, Move, Goto, SettledLabels, FrameType
  <2> QED BY <1>1, <2>1, OwnSettled
<1>3. CASE \/ UpdFirst(t) \/ UpdDir(t) \/ UpdNewOut(t) \/ UpdStamp(t)
           \/ UpdStampSet(t) \/ UpdRecent(t)
  <2>1. pc[t] \in SettledLabels /\ pc'[t] \in SettledLabels \cup {"upd_lock"} /\ frame' = frame
    BY <1>0, <1>3 DEF UpdFirst, UpdDir, UpdNewOut, UpdStamp, UpdStampSet, UpdRecent, AfterDirection,
       Move, Goto, SettledLabels
  <2> QED BY <1>1, <2>1, OwnSettled
<1>4. CASE UpdStampLock(t)
  <2>1. /\ pc[t] \in SettledLabels /\ pc'[t] \in SettledLabels \cup {"upd_lock"}
        /\ frame'[t].loc = frame[t].loc /\ frame'[t].tmp = frame[t].tmp
        /\ frame'[t].k = frame[t].k /\ frame'[t].op = frame[t].op
    BY <1>0, <1>4 DEF UpdStampLock, Move, Goto, SettledLabels, FrameType
  <2> QED BY <1>1, <2>1, OwnSettled
<1>5. CASE UpdUnlock(t) /\ frame[t].then = "restore"
  <2>1. pc[t] \in SettledLabels /\ pc'[t] \in SettledLabels \cup {"upd_lock"} /\ frame' = frame
    BY <1>0, <1>5 DEF UpdUnlock, Goto, SettledLabels
  <2> QED BY <1>1, <2>1, OwnSettled
<1>6. CASE (UpdUnlock(t) /\ frame[t].then # "restore") \/ UpdRestore(t)
  <2>1. pc'[t] \in {"idle", "push_ebs"}
    BY <1>0, <1>6 DEF UpdUnlock, UpdRestore, Return, Goto, FrameType
  <2> QED BY <2>1, OwnRest
<1> QED BY <1>2, <1>3, <1>4, <1>5, <1>6

\* The update of a slot, up to the new high water mark.
LEMMA WriteSteps ==
  ASSUME TypeInv, TypeInv', LinkInv, SlotInv, NEW t \in Threads,
         UpdLock(t) \/ UpdTest(t) \/ UpdWrite(t) \/ UpdCount(t) \/ UpdHigh(t)
  PROVE  SearchOK(t)' /\ UpdateOK(t)'
<1>0. /\ pc \in [Threads -> Labels] /\ frame \in [Threads -> FrameType] /\ frame[t] \in FrameType
      /\ edge \in [Slots -> EdgeType] /\ eb \in [Blocks -> BlockType]
  BY Frames
<1>1. Grows
  BY StepGrows DEF Step
<1>2. /\ pc[t] \in {"upd_lock", "upd_test", "upd_write", "upd_count", "upd_high"}
      /\ frame'[t].loc = frame[t].loc /\ frame'[t].tmp = frame[t].tmp
      /\ frame'[t].k = frame[t].k /\ frame'[t].op = frame[t].op
  BY <1>0 DEF UpdLock, UpdTest, UpdWrite, UpdCount, UpdHigh, Move, FrameType
<1>3. Slot(t) \in Slots /\ frame[t].tmp \in Blocks /\ frame[t].k \in Nat
  BY <1>2, SlotTypes DEF AtSlotLabels, InBlockLabels, Labels, Slot, Slots, Indices
<1>4. /\ Passed(t) => Passed(t)'
      /\ NoOld(t) => NoOld(t)'
      /\ Slot(t)' = Slot(t) /\ Dest(t)' = Dest(t)
      /\ Settled(t) => Settled(t)'
  BY <1>1, <1>2, <1>3, KnowledgeKept
<1>5. UpdateOK(t) /\ SlotsOK
  BY DEF SlotInv
<1>6. CASE UpdLock(t)
  <2>1. pc[t] = "upd_lock" /\ pc'[t] = "upd_test" /\ edge'[Slot(t)].dirs = edge[Slot(t)].dirs
    BY <1>0, <1>3, <1>6 DEF UpdLock, Move, Goto, EdgeType
  <2>2. Settled(t)' \/ Fillable(t)'
    BY <1>4, <1>5, <2>1 DEF UpdateOK, Fillable
  <2> QED BY <2>1, <2>2 DEF SearchOK, UpdateOK, SettledLabels
<1>7. CASE UpdTest(t)
  <2>1. /\ pc[t] = "upd_test" /\ edge' = edge
        /\ pc'[t] = IF edge[Slot(t)].neighbor = Blank \/ frame[t].k >= eb[frame[t].tmp].high
                    THEN "upd_write" ELSE "upd_dir"
    BY <1>0, <1>7 DEF UpdTest, Move, Goto, shared
  <2>2. Settled(t) \/ Fillable(t)
    BY <1>5, <2>1 DEF UpdateOK
  <2>3. Slot(t)[1] = frame[t].tmp /\ Slot(t)[2] = frame[t].k
    BY DEF Slot
  <2>4. eb[frame[t].tmp].high \in Nat
    BY <1>3, SlotTypes
  <2>5. CASE edge[Slot(t)].neighbor = Blank \/ frame[t].k >= eb[frame[t].tmp].high
    <3>1. ~Settled(t)
      BY <1>3, <1>5, <2>3, <2>4, <2>5 DEF Settled, Complete, SlotsOK
    <3>2. Fillable(t)'
      BY <1>4, <2>1, <2>2, <3>1 DEF Fillable
    <3> QED BY <2>1, <2>5, <3>2 DEF SearchOK, UpdateOK, SettledLabels
  <2>6. CASE ~(edge[Slot(t)].neighbor = Blank \/ frame[t].k >= eb[frame[t].tmp].high)
    <3>1. ~Fillable(t)
      BY <1>3, <1>5, <2>3, <2>4, <2>6 DEF Fillable, SlotsOK
    <3> QED BY <1>4, <2>1, <2>2, <2>6, <3>1 DEF SearchOK, UpdateOK, SettledLabels
  <2> QED BY <2>5, <2>6
<1>8. CASE UpdWrite(t)
  <2>1. /\ pc[t] = "upd_write" /\ pc'[t] = "upd_count" /\ Fillable(t)
        /\ edge'[Slot(t)].neighbor = Dest(t) /\ edge'[Slot(t)].dirs # {}
    BY <1>8, WriteEffect
  <2> QED BY <1>4, <2>1 DEF SearchOK, UpdateOK, SettledLabels, Fillable
<1>9. CASE UpdCount(t)
  <2>1. pc[t] = "upd_count" /\ pc'[t] = "upd_high" /\ edge' = edge
    BY <1>0, <1>9 DEF UpdCount, Move, Goto
  <2> QED BY <1>4, <1>5, <2>1 DEF SearchOK, UpdateOK, SettledLabels
<1>10. CASE UpdHigh(t)
  <2>1. /\ pc[t] = "upd_high" /\ pc'[t] = "upd_first" /\ edge' = edge /\ frame' = frame
        /\ eb'[frame[t].tmp].high = IF frame[t].k >= eb[frame[t].tmp].high
                                    THEN frame[t].k + 1 ELSE eb[frame[t].tmp].high
    BY <1>10, HighEffect
  <2>2. edge[Slot(t)].dirs # {} /\ edge[Slot(t)].neighbor = Dest(t)
    BY <1>5, <2>1 DEF UpdateOK
  <2>3. frame[t].k < eb'[frame[t].tmp].high
    BY <1>3, <2>1, SlotTypes
  <2>4. Settled(t)'
    BY <1>4, <2>1, <2>2, <2>3 DEF Settled, Complete, Slot
  <2> QED BY <2>1, <2>4 DEF SearchOK, UpdateOK, SettledLabels
<1> QED BY <1>6, <1>7, <1>8, <1>9, <1>10

\* A slot below the high water mark that holds a neighbour is complete.
LEMMA BelowHigh ==
  ASSUME TypeInv, SlotInv, NEW t \in Threads, Slot(t) \in Slots,
         frame[t].k < eb[frame[t].tmp].high, edge[Slot(t)].neighbor # Blank
  PROVE  Complete(Slot(t))
BY DEF SlotInv, SlotsOK, Complete, Slot

\* The first pass.
LEMMA FindSteps ==
  ASSUME TypeInv, TypeInv', LinkInv, SlotInv, NEW t \in Threads,
         EtypeBegin(t) \/ FindBlock(t) \/ FindScan(t) \/ FindNext(t)
  PROVE  SearchOK(t)' /\ UpdateOK(t)'
<1>0. /\ pc \in [Threads -> Labels] /\ frame \in [Threads -> FrameType] /\ frame[t] \in FrameType
  BY Frames
<1>1. edge' = edge /\ eb' = eb /\ link' = link /\ frame'[t].op = frame[t].op /\ Dest(t)' = Dest(t)
  BY <1>0 DEF EtypeBegin, FindBlock, FindScan, FindNext, shared, FrameType, Dest
<1>2. SearchOK(t) /\ SlotsOK /\ OldOK /\ PlaceOK(t)
  BY DEF SlotInv, LinkInv
<1>3. \A s \in Slots : Old(s)' <=> Old(s)
  BY <1>1 DEF Old, Before
<1>4. frame[t].k \in 0..EBSize /\ frame[t].endk \in 0..EBSize /\ EBSize \in Nat
  BY <1>0, Frames DEF FrameType
<1>5. CASE EtypeBegin(t)
  <2>1. /\ pc[t] = "etype_begin" /\ link[0] # MARKER
        /\ pc'[t] = IF link[0] = 0 THEN "seek_first" ELSE "find_block"
        /\ frame'[t].tmp = link[0] /\ frame'[t].loc = 0
    BY <1>0, <1>5 DEF EtypeBegin, Move, Goto, FrameType
  <2>2. CASE link[0] = 0
    <3>1. NoOld(t)'
      BY <1>1, <1>2, <1>3, <2>2 DEF OldOK, NoOld
    <3>2. PassedBlocks(t)'
      BY <2>1 DEF PassedBlocks, Slots, Blocks
    <3> QED BY <2>1, <2>2, <3>1, <3>2 DEF SearchOK, UpdateOK, SettledLabels
  <2>3. CASE link[0] # 0
    <3>1. link[0] = 1
      BY <2>1, <2>3, Frames DEF LinkInv, ChainOK
    <3> QED BY <2>1, <2>3, <3>1 DEF SearchOK, UpdateOK, SettledLabels
  <2> QED BY <2>2, <2>3
<1>6. CASE FindBlock(t)
  <2>1. /\ pc[t] = "find_block" /\ pc'[t] = "find_scan"
        /\ frame'[t].tmp = frame[t].tmp /\ frame'[t].endk = eb[frame[t].tmp].high
        /\ frame'[t].k = 0
    BY <1>0, <1>6 DEF FindBlock, Move, Goto, FrameType
  <2>2. ScanningOK(t)'
    <3>1. frame[t].tmp \in Blocks
      BY <2>1, AtBlock DEF InBlockLabels, Labels
    <3> QED BY <1>1, <2>1, <3>1, SlotTypes DEF ScanningOK
  <2>3. ASSUME NEW s \in Slots, Old(s)
        PROVE  /\ frame[t].tmp # 1 \/ s[2] < 0 => edge[s].neighbor # Dest(t)
               /\ frame[t].tmp = 1 => s[2] < eb[frame[t].tmp].high
    <3>1. s[2] \in 0..EBSize - 1
      BY SlotTypes
    <3> QED BY <1>2, <1>4, <2>1, <2>3, <3>1 DEF SearchOK, NoOld, OldOK
  <2> QED BY <1>1, <1>3, <2>1, <2>2, <2>3 DEF SearchOK, UpdateOK, SettledLabels
<1>7. CASE FindScan(t)
  <2>1. /\ pc[t] = "find_scan" /\ frame[t].k < frame[t].endk
        /\ frame'[t].tmp = frame[t].tmp /\ frame'[t].endk = frame[t].endk
    BY <1>0, <1>7 DEF FindScan, FrameType
  <2>2. frame[t].tmp \in Blocks
    BY <2>1, AtBlock DEF InBlockLabels, Labels
  <2>3. /\ ScanningOK(t)
        /\ \A s \in Slots : Old(s) =>
             /\ frame[t].tmp # 1 \/ s[2] < frame[t].k => edge[s].neighbor # Dest(t)
             /\ frame[t].tmp = 1 => s[2] < frame[t].endk
    BY <1>2, <2>1 DEF SearchOK
  <2>4. frame[t].k < eb[frame[t].tmp].high
    BY <1>4, <2>1, <2>2, <2>3, SlotTypes DEF ScanningOK
  <2>5. Slot(t) \in Slots
    BY <1>4, <2>1, <2>2 DEF Slot, Slots, Indices
  <2>6. CASE edge[Slot(t)].neighbor = Dest(t)
    <3>1. pc'[t] = "found" /\ frame' = frame
      BY <1>0, <1>7, <2>6 DEF FindScan, Goto
    <3>2. Settled(t)
      BY <2>4, <2>5, <2>6, BelowHigh, SlotTypes DEF Settled
    <3>3. Settled(t)'
      BY <1>1, <3>1, <3>2 DEF Settled, Complete, Slot
    <3> QED BY <3>1, <3>3 DEF SearchOK, UpdateOK, SettledLabels
  <2>7. CASE edge[Slot(t)].neighbor # Dest(t)
    <3>1. pc'[t] = "find_scan" /\ frame'[t].k = frame[t].k + 1
      BY <1>0, <1>7, <2>7 DEF FindScan, FrameType
    <3>2. ScanningOK(t)'
      BY <1>1, <2>1, <2>3 DEF ScanningOK
    <3>3. ASSUME NEW s \in Slots, Old(s)
          PROVE  /\ frame[t].tmp # 1 \/ s[2] < frame[t].k + 1 => edge[s].neighbor # Dest(t)
                 /\ frame[t].tmp = 1 => s[2] < frame[t].endk
      <4>1. s[1] = 1 /\ s[2] \in 0..EBSize - 1 /\ s = <<s[1], s[2]>>
        BY <1>2, <3>3, SlotTypes DEF OldOK
      <4>2. frame[t].tmp = 1 /\ s[2] = frame[t].k => s = Slot(t)
        BY <4>1 DEF Slot
      <4> QED BY <1>4, <2>3, <2>7, <3>3, <4>1, <4>2
    <3> QED BY <1>1, <1>3, <2>1, <3>1, <3>2, <3>3 DEF SearchOK, UpdateOK, SettledLabels
  <2> QED BY <2>6, <2>7
<1>8. CASE FindNext(t)
  <2>1. /\ pc[t] = "find_scan" /\ frame[t].k >= frame[t].endk
        /\ pc'[t] \in {"seek_first", "find_block"} /\ frame'[t].loc = frame[t].loc
    BY <1>0, <1>8 DEF FindNext, Move, Goto, FrameType
  <2>2. NoOld(t)
    <3> SUFFICES ASSUME NEW s \in Slots, Old(s) PROVE edge[s].neighbor # Dest(t)
      BY DEF NoOld
    <3>1. s[2] \in 0..EBSize - 1
      BY SlotTypes
    <3> QED BY <1>2, <1>4, <2>1, <3>1 DEF SearchOK
  <2>3. NoOld(t)'
    BY <1>1, <1>3, <2>2 DEF NoOld
  <2>4. PassedBlocks(t)'
    BY <1>2, <2>1 DEF PlaceOK, PassedBlocks, Slots, Blocks
  <2> QED BY <2>1, <2>3, <2>4 DEF SearchOK, UpdateOK, SettledLabels
<1> QED BY <1>5, <1>6, <1>7, <1>8

\* The second pass.
LEMMA SeekSteps ==
  ASSUME TypeInv, TypeInv', LinkInv, SlotInv, NEW t \in Threads,
         SeekFirst(t) \/ SeekBlock(t) \/ SeekScan(t) \/ SeekNext(t)
  PROVE  SearchOK(t)' /\ UpdateOK(t)'
<1>0. /\ pc \in [Threads -> Labels] /\ frame \in [Threads -> FrameType] /\ frame[t] \in FrameType
  BY Frames
<1>1. edge' = edge /\ eb' = eb /\ link' = link /\ frame'[t].op = frame[t].op /\ Dest(t)' = Dest(t)
  BY <1>0 DEF SeekFirst, SeekBlock, SeekScan, SeekNext, shared, FrameType, Dest
<1>2. SearchOK(t) /\ SlotsOK /\ PlaceOK(t)
  BY DEF SlotInv, LinkInv
<1>3. NoOld(t) => NoOld(t)'
  BY <1>1 DEF Old, Before, NoOld
<1>4. /\ frame[t].k \in 0..EBSize /\ frame[t].endk \in 0..EBSize /\ EBSize \in Nat
      /\ frame[t].tmp \in Nat /\ frame[t].loc \in Nat
  BY <1>0, Frames DEF FrameType
<1>5. CASE SeekFirst(t)
  <2>1. /\ pc[t] = "seek_first" /\ pc'[t] \in {"grow_lock", "seek_block"}
        /\ frame'[t].loc = frame[t].loc
    BY <1>0, <1>5 DEF SeekFirst, Move, Goto, FrameType
  <2>2. PassedBlocks(t)'
    BY <1>1, <1>2, <2>1 DEF SearchOK, PassedBlocks
  <2> QED BY <1>2, <1>3, <2>1, <2>2 DEF SearchOK, UpdateOK, SettledLabels
<1>6. CASE SeekBlock(t)
  <2>1. /\ pc[t] = "seek_block" /\ pc'[t] = "seek_scan" /\ frame'[t].loc = frame[t].loc
        /\ frame'[t].tmp = frame[t].tmp /\ frame'[t].endk = eb[frame[t].tmp].high
        /\ frame'[t].k = 0
    BY <1>0, <1>6 DEF SeekBlock, Move, Goto, FrameType
  <2>2. ScanningOK(t)'
    <3>1. frame[t].tmp \in Blocks
      BY <2>1, AtBlock DEF InBlockLabels, Labels
    <3> QED BY <1>1, <2>1, <3>1, SlotTypes DEF ScanningOK
  <2>3. PassedBlocks(t)'
    BY <1>1, <1>2, <2>1 DEF SearchOK, PassedBlocks
  <2>4. PassedSlots(t)'
    BY <2>1 DEF PassedSlots, Slots, Indices
  <2>5. Passed(t)'
    BY <1>2, <2>1, <2>3, <2>4 DEF PlaceOK, Passed
  <2> QED BY <1>2, <1>3, <2>1, <2>2, <2>5 DEF SearchOK, UpdateOK, SettledLabels
<1>7. CASE SeekScan(t)
  <2>1. /\ pc[t] = "seek_scan" /\ frame'[t].loc = frame[t].loc /\ frame[t].k < EBSize
        /\ frame'[t].tmp = frame[t].tmp /\ frame'[t].endk = frame[t].endk
    BY <1>0, <1>7 DEF SeekScan, FrameType
  <2>2. frame[t].tmp \in Blocks
    BY <2>1, AtBlock DEF InBlockLabels, Labels
  <2>3. Passed(t) /\ NoOld(t) /\ ScanningOK(t)
    BY <1>2, <2>1 DEF SearchOK
  <2>4. frame[t].k < frame[t].endk => frame[t].k < eb[frame[t].tmp].high
    BY <1>4, <2>2, <2>3, SlotTypes DEF ScanningOK
  <2>5. Slot(t) \in Slots
    BY <1>4, <2>1, <2>2 DEF Slot, Slots, Indices
  <2>6. CASE edge[Slot(t)].neighbor = Dest(t) /\ frame[t].k < frame[t].endk
    <3>1. pc'[t] = "found" /\ frame' = frame
      BY <1>0, <1>7, <2>6, SlotTypes DEF SeekScan, Goto
    <3>2. Settled(t)
      BY <2>4, <2>5, <2>6, BelowHigh, SlotTypes DEF Settled
    <3>3. Settled(t)'
      BY <1>1, <3>1, <3>2 DEF Settled, Complete, Slot
    <3> QED BY <3>1, <3>3 DEF SearchOK, UpdateOK, SettledLabels
  <2>7. CASE edge[Slot(t)].neighbor = Blank \/ ~(frame[t].k < frame[t].endk)
    <3>1. pc'[t] = "claim_lock" /\ frame' = frame
      BY <1>0, <1>7, <2>7, SlotTypes DEF SeekScan, Goto
    <3>2. Passed(t)' /\ ScanningOK(t)'
      BY <1>1, <2>3, <3>1 DEF Passed, PassedBlocks, PassedSlots, ScanningOK
    <3> QED BY <1>3, <2>3, <3>1, <3>2 DEF SearchOK, UpdateOK, SettledLabels
  <2>8. CASE edge[Slot(t)].neighbor \notin {Blank, Dest(t)} /\ frame[t].k < frame[t].endk
    <3>1. pc'[t] = "seek_scan" /\ frame'[t].k = frame[t].k + 1
      BY <1>0, <1>7, <2>8 DEF SeekScan, FrameType
    <3>2. Complete(Slot(t))
      BY <2>4, <2>5, <2>8, BelowHigh
    <3>3. ASSUME NEW s \in Slots, s[1] = frame[t].tmp, s[2] < frame[t].k + 1
          PROVE  edge[s].dirs # {} /\ edge[s].neighbor # Dest(t)
      <4>1. s[2] \in 0..EBSize - 1 /\ (s[2] = frame[t].k => s = Slot(t))
        BY <3>3, SlotTypes DEF Slot
      <4> QED BY <1>4, <2>3, <2>8, <3>2, <3>3, <4>1 DEF Passed, PassedSlots, Complete
    <3>4. Passed(t)' /\ ScanningOK(t)'
      BY <1>1, <2>1, <2>3, <3>1, <3>3 DEF Passed, PassedBlocks, PassedSlots, ScanningOK
    <3> QED BY <1>3, <2>3, <3>1, <3>4 DEF SearchOK, UpdateOK, SettledLabels
  <2> QED BY <2>6, <2>7, <2>8
<1>8. CASE SeekNext(t)
  <2>1. /\ pc[t] = "seek_scan" /\ pc'[t] \in {"grow_lock", "seek_block"}
        /\ frame[t].k = EBSize /\ frame'[t].loc = frame[t].tmp
    BY <1>0, <1>8 DEF SeekNext, Move, Goto, FrameType
  <2>2. Passed(t) /\ NoOld(t)
    BY <1>2, <2>1 DEF SearchOK
  <2>3. ASSUME NEW s \in Slots, s[1] <= frame[t].tmp
        PROVE  edge[s].dirs # {} /\ edge[s].neighbor # Dest(t)
    <3>1. s[1] \in Nat /\ s[2] \in 0..EBSize - 1
      BY SlotTypes DEF Blocks
    <3>2. s[1] = frame[t].tmp \/ s[1] <= frame[t].loc
      BY <1>4, <2>2, <2>3, <3>1 DEF Passed
    <3> QED BY <1>4, <2>1, <2>2, <3>1, <3>2 DEF Passed, PassedBlocks, PassedSlots
  <2>4. PassedBlocks(t)'
    BY <1>1, <2>1, <2>3 DEF PassedBlocks
  <2> QED BY <1>3, <2>1, <2>2, <2>4 DEF SearchOK, UpdateOK, SettledLabels
<1> QED BY <1>5, <1>6, <1>7, <1>8

\* The claim: under it a slot that looks free is free.
LEMMA ClaimedFree ==
  ASSUME TypeInv, SlotInv, NEW t \in Threads, pc[t] = "claim_check", Free(t)
  PROVE  edge[Slot(t)].dirs = {}
<1>1. Slot(t) \in Slots /\ frame[t].tmp \in Blocks /\ frame[t].k \in Nat
  BY SlotTypes DEF AtSlotLabels, InBlockLabels, Labels, Slot, Slots, Indices
<1>2. eb[frame[t].tmp].high \in Nat /\ Slot(t)[1] = frame[t].tmp /\ Slot(t)[2] = frame[t].k
  BY <1>1, SlotTypes DEF Slot
<1>3. CASE edge[Slot(t)].neighbor = Blank
  BY <1>1, <1>3 DEF SlotInv, SlotsOK
<1>4. CASE frame[t].k >= eb[frame[t].tmp].high
  <2> SUFFICES ASSUME edge[Slot(t)].dirs # {} PROVE FALSE
    OBVIOUS
  <2>1. PICK u \in Threads : pc[u] \in {"upd_count", "upd_high"} /\ Slot(u) = Slot(t)
    BY <1>1, <1>2, <1>4 DEF SlotInv, SlotsOK
  <2>2. Complete(Slot(t))
    BY <2>1 DEF SlotInv, ClaimLockOK, Claiming
  <2> QED BY <1>1, <1>2, <1>4, <2>2 DEF Complete
<1> QED BY <1>3, <1>4 DEF Free, SlotInv, SearchOK

LEMMA ClaimSteps ==
  ASSUME TypeInv, TypeInv', LinkInv, SlotInv, NEW t \in Threads,
         ClaimLock(t) \/ ClaimRead(t) \/ ClaimCheck(t) \/ ClaimRelease(t)
  PROVE  SearchOK(t)' /\ UpdateOK(t)'
<1>0. /\ pc \in [Threads -> Labels] /\ frame \in [Threads -> FrameType] /\ frame[t] \in FrameType
      /\ edge \in [Slots -> EdgeType]
  BY Frames
<1>1. /\ pc[t] \in {"claim_lock", "claim_read", "claim_check", "claim_release"}
      /\ frame'[t].op = frame[t].op /\ frame'[t].tmp = frame[t].tmp
      /\ frame'[t].loc = frame[t].loc
      /\ Dest(t)' = Dest(t) /\ eb' = eb
  <2>1. CASE ClaimLock(t) \/ ClaimRead(t) \/ ClaimRelease(t)
    BY <1>0, <2>1 DEF ClaimLock, ClaimRead, ClaimRelease, Move, shared, FrameType, Dest
  <2>2. CASE ClaimCheck(t)
    <3>1. pc[t] = "claim_check" /\ eb' = eb
      BY <2>2 DEF ClaimCheck, shared
    <3> QED BY <1>0, <2>2, <3>1, CheckFrame DEF Dest
  <2> QED BY <2>1, <2>2
<1>2. Slot(t) \in Slots /\ frame[t].tmp \in Blocks /\ frame[t].k \in Nat /\ frame[t].k < EBSize
  BY <1>1, SlotTypes DEF AtSlotLabels, InBlockLabels, Labels, Slot, Slots, Indices
<1>3. \A s \in Slots : edge'[s].dirs = edge[s].dirs /\ edge'[s].neighbor = edge[s].neighbor
  <2>1. CASE ClaimRead(t) \/ ClaimCheck(t)
    BY <2>1 DEF ClaimRead, ClaimCheck, shared
  <2>2. CASE ClaimLock(t) \/ ClaimRelease(t)
    BY <1>0, <2>2 DEF ClaimLock, ClaimRelease, EdgeType
  <2> QED BY <2>1, <2>2
<1>4. SearchOK(t) /\ Passed(t) /\ NoOld(t) /\ ScanningOK(t)
  BY <1>1 DEF SlotInv, SearchOK
<1>5. NoOld(t)' /\ PassedBlocks(t)'
  BY <1>1, <1>3, <1>4 DEF NoOld, Old, Before, Passed, PassedBlocks
<1>6. frame'[t].k = frame[t].k => Passed(t)' /\ Slot(t)' = Slot(t)
  BY <1>1, <1>3, <1>4, <1>5 DEF Passed, PassedSlots, Slot
<1>7. CASE ClaimLock(t)
  <2>1. pc'[t] = "claim_read" /\ frame'[t].k = frame[t].k /\ frame'[t].endk = frame[t].endk
    BY <1>0, <1>7 DEF ClaimLock, Move, Goto, FrameType
  <2>2. ScanningOK(t)'
    BY <1>1, <1>4, <2>1 DEF ScanningOK
  <2> QED BY <1>5, <1>6, <2>1, <2>2 DEF SearchOK, UpdateOK, SettledLabels
<1>8. CASE ClaimRead(t)
  <2>1. /\ pc'[t] = "claim_check" /\ frame'[t].k = frame[t].k /\ frame'[t].endk = frame[t].endk
        /\ frame'[t].seen = edge[Slot(t)].neighbor /\ edge' = edge
    BY <1>0, <1>8 DEF ClaimRead, Move, Goto, FrameType, shared
  <2>2. ScanningOK(t)'
    BY <1>1, <1>4, <2>1 DEF ScanningOK
  <2> QED BY <1>5, <1>6, <2>1, <2>2 DEF SearchOK, UpdateOK, SettledLabels
<1>9. CASE ClaimCheck(t)
  <2>1. /\ pc[t] = "claim_check" /\ frame'[t].k = frame[t].k /\ edge' = edge
        /\ frame'[t].endk = eb[frame[t].tmp].high
    <3>1. pc[t] = "claim_check" /\ edge' = edge
      BY <1>9 DEF ClaimCheck, shared
    <3> QED BY <1>0, <1>9, <3>1, CheckFrame
  <2>2. frame[t].seen = edge[Slot(t)].neighbor
    BY <1>4, <2>1 DEF SearchOK
  <2>3. ScanningOK(t)'
    BY <1>1, <1>2, <2>1, SlotTypes DEF ScanningOK
  <2>4. CASE Free(t)
    <3>1. pc'[t] = "upd_lock"
      BY <1>0, <1>9, <2>4 DEF ClaimCheck, Goto
    <3>2. Fillable(t)'
      BY <1>5, <1>6, <2>1, <2>4, ClaimedFree DEF Fillable
    <3> QED BY <3>1, <3>2 DEF SearchOK, UpdateOK, SettledLabels
  <2>5. CASE ~Free(t)
    <3>1. edge[Slot(t)].neighbor # Blank /\ frame[t].k < eb[frame[t].tmp].high
      BY <1>2, <2>2, <2>5, SlotTypes DEF Free
    <3>2. Complete(Slot(t))
      BY <1>2, <3>1, BelowHigh
    <3>3. Complete(Slot(t))'
      BY <1>1, <1>6, <2>1, <3>2 DEF Complete
    <3>4. CASE frame[t].seen = Dest(t)
      <4>1. pc'[t] = "upd_lock"
        BY <1>0, <1>9, <2>5, <3>4 DEF ClaimCheck, Goto
      <4>2. Settled(t)'
        BY <1>1, <1>6, <2>1, <2>2, <3>3, <3>4 DEF Settled
      <4> QED BY <4>1, <4>2 DEF SearchOK, UpdateOK, SettledLabels
    <3>5. CASE frame[t].seen # Dest(t)
      <4>1. pc'[t] = "claim_release"
        BY <1>0, <1>9, <2>5, <3>5 DEF ClaimCheck, Goto
      <4>2. edge'[Slot(t)].neighbor # Dest(t)
        BY <2>1, <2>2, <3>5
      <4> QED BY <1>1, <1>5, <1>6, <2>1, <2>3, <3>3, <4>1, <4>2
              DEF SearchOK, UpdateOK, SettledLabels
    <3> QED BY <3>4, <3>5
  <2> QED BY <2>4, <2>5
<1>10. CASE ClaimRelease(t)
  <2>1. /\ pc[t] = "claim_release" /\ pc'[t] = "seek_scan" /\ frame'[t].k = frame[t].k + 1
        /\ frame'[t].endk = frame[t].endk
    BY <1>0, <1>10 DEF ClaimRelease, Move, Goto, FrameType
  <2>2. ScanningOK(t)'
    BY <1>1, <1>4, <2>1 DEF ScanningOK
  <2>3. Complete(Slot(t)) /\ edge[Slot(t)].neighbor # Dest(t)
    BY <1>4, <2>1 DEF SearchOK
  <2>4. ASSUME NEW s \in Slots, s[1] = frame[t].tmp, s[2] < frame[t].k + 1
        PROVE  edge[s].dirs # {} /\ edge[s].neighbor # Dest(t)
    <3>1. s[2] \in 0..EBSize - 1 /\ (s[2] = frame[t].k => s = Slot(t))
      BY <2>4, SlotTypes DEF Slot
    <3> QED BY <1>2, <1>4, <2>3, <2>4, <3>1 DEF Passed, PassedSlots, Complete
  <2>5. PassedSlots(t)'
    BY <1>1, <1>3, <2>1, <2>4 DEF PassedSlots
  <2>6. Passed(t)'
    BY <1>1, <1>4, <1>5, <2>5 DEF Passed
  <2> QED BY <1>5, <2>1, <2>2, <2>6 DEF SearchOK, UpdateOK, SettledLabels
<1> QED BY <1>7, <1>8, <1>9, <1>10

\* The third pass.
LEMMA GrowSteps ==
  ASSUME TypeInv, TypeInv', LinkInv, SlotInv, NEW t \in Threads,
         GrowLock(t) \/ GrowRetry(t) \/ GrowNew(t)
  PROVE  SearchOK(t)' /\ UpdateOK(t)'
<1>0. /\ pc \in [Threads -> Labels] /\ frame \in [Threads -> FrameType] /\ frame[t] \in FrameType
  BY Frames
<1>1. /\ pc[t] \in {"grow_lock", "grow_retry", "grow_new"}
      /\ frame'[t].op = frame[t].op /\ frame'[t].loc = frame[t].loc
  BY <1>0 DEF GrowLock, GrowRetry, GrowNew, Move, FrameType
<1>2. edge' = edge /\ eb' = eb
  BY GrowNewLink DEF GrowLock, GrowRetry
<1>3. NoOld(t) /\ PassedBlocks(t)
  BY <1>1 DEF SlotInv, SearchOK
<1>4. NoOld(t)' /\ PassedBlocks(t)'
  BY <1>1, <1>2, <1>3 DEF NoOld, Old, Before, PassedBlocks, Dest
<1>5. CASE GrowLock(t) \/ GrowRetry(t)
  <2>1. pc'[t] \in {"grow_new", "grow_retry", "seek_first"}
    BY <1>0, <1>5 DEF GrowLock, GrowRetry, Move, Goto
  <2> QED BY <1>4, <2>1 DEF SearchOK, UpdateOK, SettledLabels
<1>6. CASE GrowNew(t)
  <2>1. /\ pc[t] = "grow_new" /\ pc'[t] = "upd_lock" /\ frame'[t].tmp = ebpool_tail
        /\ frame'[t].k = 0 /\ ebpool_tail <= MaxBlocks
    BY <1>0, <1>6 DEF GrowNew, Move, Goto, FrameType
  <2>2. frame[t].loc = ebpool_tail - 1
    BY <2>1 DEF LinkInv, PlaceOK
  <2>3. ebpool_tail \in Blocks /\ 0 \in Indices
    BY <2>1, Frames DEF Blocks, Indices
  <2>4. edge[<<ebpool_tail, 0>>].dirs = {}
    BY <2>3, Frames DEF LinkInv, Untouched, ZeroEdge
  <2>5. PassedSlots(t)'
    BY <2>1 DEF PassedSlots, Slots, Indices
  <2>6. Passed(t)'
    BY <1>1, <1>4, <2>1, <2>2, <2>5, Frames DEF Passed
  <2>7. Fillable(t)'
    BY <1>2, <1>4, <2>1, <2>4, <2>6 DEF Fillable, Slot
  <2> QED BY <2>1, <2>7 DEF SearchOK, UpdateOK, SettledLabels
<1> QED BY <1>5, <1>6

LEMMA OwnThread ==
  ASSUME TypeInv, TypeInv', LinkInv, SlotInv, NEW t \in Threads, Call(t) \/ Step(t)
  PROVE  SearchOK(t)' /\ UpdateOK(t)'
<1>1. CASE Call(t) \/ PushEbs(t) \/ PushBlock(t) \/ GrowLink(t)
  <2>1. pc'[t] \in {"idle", "etype_begin", "push_ebs", "push_block", "grow_link"}
    BY <1>1, Frames DEF Call, PushEbs, PushBlock, GrowLink, Return, Move, Goto
  <2> QED BY <2>1, OwnRest
<1> QED BY <1>1, FindSteps, SeekSteps, ClaimSteps, WriteSteps, SettledSteps, GrowSteps DEF Step

-----------------------------------------------------------------------------
(* The theorems.                                                           *)

LEMMA InitSlots == Init => SlotInv
<1> SUFFICES ASSUME NEW c \in InitContents, NEW old \in OldWords, InitWith(c, old) PROVE SlotInv
  BY DEF Init
<1> USE ConstantsAssumption
<1>1. /\ c \in Seq(Vertices \cup {Blank}) /\ Len(c) \in 0..EBSize
      /\ \A i, j \in DOMAIN c : c[i] = c[j] /\ c[i] # Blank => i = j
      /\ DOMAIN c = 1..Len(c)
  OBVIOUS
<1>2. \A s \in Slots : /\ s[1] \in Blocks /\ s[2] \in 0..EBSize - 1 /\ s = <<s[1], s[2]>>
  BY DEF Slots, Indices
<1>3. \A s \in Slots : edge[s] = InitEdge(c, old)[s]
  BY DEF InitWith
<1>4. ASSUME NEW s \in Slots, s[1] = 1 /\ s[2] < Len(c)
      PROVE  /\ s[2] + 1 \in DOMAIN c /\ edge[s].neighbor = c[s[2] + 1]
             /\ edge[s].dirs # {} <=> edge[s].neighbor # Blank
  <2>1. edge[s] = [neighbor |-> c[s[2] + 1],
                   dirs |-> IF c[s[2] + 1] = Blank THEN {} ELSE {"OUT"},
                   weight |-> old.slot[s[2]].weight,
                   timeFirst |-> old.slot[s[2]].timeFirst,
                   timeRecent |-> old.slot[s[2]].timeRecent]
    BY <1>3, <1>4 DEF InitEdge
  <2>2. s[2] + 1 \in DOMAIN c
    BY <1>1, <1>2, <1>4
  <2> QED BY <2>1, <2>2
<1>5. ASSUME NEW s \in Slots, ~(s[1] = 1 /\ s[2] < Len(c))
      PROVE  edge[s].dirs = {}
  <2>1. edge[s] = ZeroEdge
    BY <1>3, <1>5 DEF InitEdge
  <2> QED BY <2>1 DEF ZeroEdge
<1>6. \A b \in Blocks : eb[b].high = IF b = 1 THEN Len(c) ELSE 0
  <2>1. Len(<<>>) = 0
    OBVIOUS
  <2>2. CASE c = <<>>
    BY <2>1, <2>2 DEF InitWith, InitBlock, EmptyBlock
  <2>3. CASE c # <<>>
    BY <2>3 DEF InitWith, InitBlock, EmptyBlock
  <2> QED BY <2>2, <2>3
<1>7. \A s \in Slots : s[2] < eb[s[1]].high <=> s[1] = 1 /\ s[2] < Len(c)
  BY <1>1, <1>2, <1>6
<1>8. SlotsOK
  BY <1>1, <1>2, <1>4, <1>5, <1>6, <1>7 DEF SlotsOK
<1>9. OldOK
  <2> SUFFICES ASSUME NEW s \in Slots, edge[s].dirs # {}
               PROVE  s[1] = 1 /\ link[0] # 0 /\ s[2] < eb[1].high
    BY DEF OldOK, Old
  <2>1. s[1] = 1 /\ s[2] < Len(c)
    BY <1>5
  <2>2. c # <<>>
    BY <1>2, <2>1
  <2>3. link[0] = 1
    BY <2>2 DEF InitWith
  <2> QED BY <1>7, <2>1, <2>3
<1>10. UniqueNeighbor
  <2> SUFFICES ASSUME NEW s1 \in Slots, NEW s2 \in Slots, edge[s1].dirs # {}, edge[s2].dirs # {},
                      edge[s1].neighbor = edge[s2].neighbor
               PROVE  s1 = s2
    BY DEF UniqueNeighbor, Occupied
  <2>1. /\ s1[1] = 1 /\ s2[1] = 1 /\ s1[2] < Len(c) /\ s2[2] < Len(c)
    BY <1>5
  <2>2. s1[2] + 1 = s2[2] + 1
    BY <1>1, <1>4, <2>1
  <2> QED BY <1>2, <2>1, <2>2
<1>11. \A t \in Threads : pc[t] = "idle"
  BY DEF InitWith
<1>12. ClaimLockOK /\ \A t \in Threads : SearchOK(t) /\ UpdateOK(t)
  BY <1>11 DEF ClaimLockOK, Claiming, SearchOK, UpdateOK, SettledLabels
<1> QED BY <1>8, <1>9, <1>10, <1>12 DEF SlotInv

LEMMA NextSlots == TypeInv /\ TypeInv' /\ LinkInv /\ SlotInv /\ [Next]_vars => SlotInv'
<1> SUFFICES ASSUME TypeInv, TypeInv', LinkInv, SlotInv, [Next]_vars PROVE SlotInv'
  OBVIOUS
<1>1. CASE UNCHANGED vars
  <2>1. link' = link /\ edge' = edge /\ eb' = eb /\ pc' = pc /\ frame' = frame
    BY <1>1 DEF vars
  <2>2. SlotsOK' /\ OldOK' /\ UniqueNeighbor'
    BY <2>1 DEF SlotInv, SlotsOK, OldOK, Old, Before, UniqueNeighbor, Occupied, Slot
  <2>3. ClaimLockOK'
    BY <2>1 DEF SlotInv, ClaimLockOK, Complete, Growing, Slot
  <2>4. ASSUME NEW t \in Threads PROVE SearchOK(t)' /\ UpdateOK(t)'
    <3>1. Grows
      BY <2>1, SlotTypes DEF Grows, Old, Before
    <3> QED BY <2>1, <3>1, OthersKnow
  <2> QED BY <2>2, <2>3, <2>4 DEF SlotInv
<1>2. ASSUME NEW t \in Threads, Call(t) \/ Step(t) PROVE SlotInv'
  <2>1. \A u \in Threads : SearchOK(u)' /\ UpdateOK(u)'
    BY <1>2, OtherThreads, OwnThread
  <2> QED BY <1>2, <2>1, SlotsKept, OldKept, ClaimsKept, UniqueKept DEF SlotInv
<1> QED BY <1>1, <1>2 DEF Next, Finished

\* What is behind the two searches and the claim: a slot is filled only when all
\* before it are, and one thread at a time fills it.
THEOREM SlotInvariant == Spec => []SlotInv
BY InitSlots, NextSlots, TypeInvariant, LinkInvariant, PTL DEF Spec

\* No vertex is ever in two slots of the list, whatever threads insert it and
\* in whichever directions.
THEOREM UniqueNeighborHolds == Spec => []UniqueNeighbor
BY SlotInvariant, PTL DEF SlotInv

-----------------------------------------------------------------------------
(* Nothing is taken away.                                                  *)

AddsToSlots == \A s \in Occupied : /\ edge'[s].neighbor = edge[s].neighbor
                                   /\ edge[s].dirs \subseteq edge'[s].dirs

AddsToHigh == \A b \in Blocks : b < ebpool_tail => eb'[b].high >= eb[b].high

AddsToLinks == \A b \in 0..MaxBlocks : link[b] \notin {0, MARKER} => link'[b] \in {link[b], MARKER}

LEMMA DirsKept ==
  ASSUME TypeInv, LinkInv, SlotInv, NEW t \in Threads, Call(t) \/ Step(t)
  PROVE  \A s \in Occupied : edge[s].dirs \subseteq edge'[s].dirs
<1>0. edge \in [Slots -> EdgeType]
  BY Frames
<1>1. CASE UpdWrite(t)
  BY <1>1, WriteEffect DEF Fillable, Occupied
<1>2. CASE UpdDir(t)
  BY <1>0, <1>2 DEF UpdDir, EdgeType, Occupied
<1>3. CASE GrowNew(t)
  BY <1>3, GrowNewLink
<1>4. CASE Moves(t)
  BY <1>4, MovesEffect
<1>5. CASE \/ FindBlock(t) \/ FindScan(t) \/ Found(t) \/ SeekBlock(t) \/ SeekScan(t)
           \/ ClaimRead(t) \/ ClaimCheck(t) \/ UpdTest(t) \/ UpdStamp(t) \/ PushBlock(t)
           \/ UpdCount(t) \/ UpdHigh(t) \/ UpdStampLock(t) \/ UpdStampSet(t)
           \/ GrowLock(t) \/ GrowRetry(t) \/ PushEbs(t) \/ GrowLink(t)
  BY <1>5 DEF FindBlock, FindScan, Found, SeekBlock, SeekScan, ClaimRead, ClaimCheck, UpdTest,
     UpdStamp, PushBlock, UpdCount, UpdHigh, UpdStampLock, UpdStampSet, GrowLock, GrowRetry,
     PushEbs, GrowLink, shared
<1>6. CASE ClaimLock(t) \/ ClaimRelease(t) \/ UpdLock(t) \/ UpdFirst(t)
           \/ UpdNewOut(t) \/ UpdRecent(t) \/ UpdUnlock(t) \/ UpdRestore(t)
  BY <1>0, <1>6 DEF ClaimLock, ClaimRelease, UpdLock, UpdFirst, UpdNewOut,
     UpdRecent, UpdUnlock, UpdRestore, EdgeType, Occupied
<1> QED BY <1>1, <1>2, <1>3, <1>4, <1>5, <1>6 DEF Step, Moves

LEMMA LinksKept ==
  ASSUME TypeInv, LinkInv, NEW t \in Threads, Call(t) \/ Step(t)
  PROVE  AddsToLinks
<1>1. CASE Stays(t)
  BY <1>1, StaysInPlace DEF AddsToLinks
<1>2. CASE Moves(t)
  BY <1>2, MovesEffect DEF AddsToLinks
<1>3. CASE UpdUnlock(t) \/ UpdRestore(t) \/ GrowNew(t)
  BY <1>3 DEF UpdUnlock, UpdRestore, GrowNew, AddsToLinks
<1>4. CASE PushEbs(t)
  BY <1>4, PushEbsLink DEF AddsToLinks
<1>5. CASE GrowLock(t)
  BY <1>5, Frames DEF GrowLock, AddsToLinks
<1>6. CASE GrowRetry(t) \/ GrowLink(t)
  <2>1. /\ link' = [link EXCEPT ![frame[t].loc] = frame[t].tmp]
        /\ link \in [0..MaxBlocks -> 0..MaxBlocks \cup {MARKER}]
    BY <1>6, Frames DEF GrowRetry, GrowLink
  <2>2. HoldsLink(t)
    BY <1>6 DEF GrowRetry, GrowLink, Move, HoldsLink, LinkInv, PlaceOK
  <2>3. link[frame[t].loc] = MARKER
    BY <2>2 DEF LinkInv, LinkLock
  <2> QED BY <2>1, <2>3 DEF AddsToLinks
<1> QED BY <1>1, <1>2, <1>3, <1>4, <1>5, <1>6 DEF Step, Stays, Moves

LEMMA NextAdds ==
  TypeInv /\ LinkInv /\ SlotInv /\ [Next]_vars
    => [AddsToSlots /\ AddsToHigh /\ AddsToLinks]_vars
<1> SUFFICES ASSUME TypeInv, LinkInv, SlotInv, NEW t \in Threads, Call(t) \/ Step(t)
             PROVE  AddsToSlots /\ AddsToHigh /\ AddsToLinks
  BY DEF Next, Finished
<1>1. AddsToSlots /\ AddsToHigh
  BY DirsKept, StepGrows DEF AddsToSlots, AddsToHigh, Grows, Occupied
<1> QED BY <1>1, LinksKept

\* No step takes back a neighbour, a direction, a high water mark or a link, so
\* what the first search has read without a lock stays true.
THEOREM OnlyAddsHolds == Spec => OnlyAdds
<1>1. [][AddsToSlots /\ AddsToHigh /\ AddsToLinks]_vars => OnlyAdds
  BY PTL DEF OnlyAdds, AddsToSlots, AddsToHigh, AddsToLinks
<1> QED BY <1>1, NextAdds, TypeInvariant, LinkInvariant, SlotInvariant, PTL DEF Spec

-----------------------------------------------------------------------------
(* Counters, words and the edge type array while updates are under way.    *)

\* Some thread at one of the labels L has the slot s in hand.
InHand(s, L) == \E t \in Threads : pc[t] \in L /\ Slot(t) = s

\* A direction is in place before the counters follow.
Uncounted(d) == IF d = "OUT" THEN {"upd_count", "upd_newout"} ELSE {"upd_count"}

CountedDir(d) == {s \in Slots : d \in edge[s].dirs /\ ~InHand(s, Uncounted(d))}
Counted == {s \in Slots : edge[s].dirs # {} /\ ~InHand(s, {"upd_count"})}
CountedIn(b) == {s \in Counted : s[1] = b}

CountsOK ==
  /\ vertex.outDegree = Cardinality(CountedDir("OUT"))
  /\ vertex.inDegree = Cardinality(CountedDir("IN"))
  /\ vertex.degree = Cardinality(Counted)
  /\ \A b \in Blocks : eb[b].numEdges = Cardinality(CountedIn(b))

\* What a thread that has yet to count has written.
WrittenOK(t) ==
  /\ pc[t] = "upd_count" => edge[Slot(t)].dirs = {Dir(t)}
  /\ pc[t] = "upd_newout" => Dir(t) = "OUT" /\ "OUT" \in edge[Slot(t)].dirs

\* The slot is as new_eb left it until a thread claims it.
CleanOK ==
  \A s \in Slots : s[2] >= eb[s[1]].high => edge[s] = ZeroEdge \/ InHand(s, Claiming)

\* A thread that is still to refill the timeFirst word it found.
HoldsTime(t) ==
  \/ pc[t] \in {"claim_read", "claim_check", "claim_release", "upd_write", "upd_count",
                "upd_high", "upd_first"}
  \/ pc[t] \in {"upd_lock", "upd_test"} /\ edge[Slot(t)].dirs = {}
  \/ frame[t].then = "restore"

ThenOK(t) == /\ frame[t].then = "restore" => pc[t] \in Updating \cup {"upd_lock", "restore"}
             /\ pc[t] = "restore" => frame[t].then = "restore"

\* Every empty word has a thread that is going to refill it.
TimeHeld == \A s \in Slots : edge[s].timeFirst = MARKER =>
              \E t \in Threads : HoldsTime(t) /\ Slot(t) = s
StampHeld == \A b \in Blocks : eb[b].smallStamp = MARKER =>
               \E t \in Threads : pc[t] = "upd_stamp_set" /\ frame[t].tmp = b
LinkHeld == \A b \in 0..MaxBlocks : link[b] = MARKER =>
              \E t \in Threads : HoldsLink(t) /\ frame[t].loc = b

\* One thread at a time appends a block, so the blocks are in the edge type array in
\* the order of the chain.
Unlisted(t) == Growing(t) /\ pc[t] \notin {"push_block", "grow_link"}

EtaOK ==
  /\ (\E t \in Threads : Unlisted(t)) => eta.high = ebpool_tail - 2
  /\ (\A t \in Threads : ~Unlisted(t)) => eta.high = ebpool_tail - 1
  /\ \A t \in Threads : pc[t] = "push_block" => frame[t].place = frame[t].tmp - 1
  /\ \A i \in 0..MaxBlocks - 1 : i < eta.high =>
       \/ eta.blocks[i] = i + 1
       \/ \E t \in Threads : pc[t] = "push_block" /\ frame[t].place = i

CountInv == /\ CountsOK /\ CleanOK /\ TimeHeld /\ StampHeld /\ LinkHeld /\ EtaOK
            /\ \A t \in Threads : WrittenOK(t) /\ ThenOK(t)

-----------------------------------------------------------------------------
(* Counting.                                                               *)

LEMMA FiniteSlots ==
  ASSUME NEW S \in SUBSET Slots
  PROVE  IsFiniteSet(S) /\ Cardinality(S) \in Nat
<1>1. IsFiniteSet(Blocks) /\ IsFiniteSet(Indices)
  <2>1. MaxBlocks \in Int /\ EBSize - 1 \in Int
    BY ConstantsAssumption
  <2> QED BY <2>1, FS_Interval DEF Blocks, Indices
<1>2. IsFiniteSet(Slots)
  BY <1>1, FS_Product DEF Slots
<1> QED BY <1>2, FS_Subset, FS_CardinalityType

LEMMA OneMore ==
  ASSUME NEW S \in SUBSET Slots, NEW T, NEW s \in Slots, s \notin S, T = S \cup {s}
  PROVE  Cardinality(T) = Cardinality(S) + 1
BY FiniteSlots, FS_AddElement

LEMMA InHandKept ==
  ASSUME TypeInv, NEW t \in Threads, Call(t) \/ Step(t), NEW L, pc[t] \notin L, pc'[t] \notin L
  PROVE  \A s : InHand(s, L)' <=> InHand(s, L)
<1>1. \A u \in Threads \ {t} : pc'[u] = pc[u] /\ Slot(u)' = Slot(u)
  BY Others DEF Slot
<1> QED BY <1>1 DEF InHand

\* Nobody else has the slot of an updating thread in hand.
LEMMA Alone ==
  ASSUME TypeInv, SlotLock, NEW t \in Threads, Call(t) \/ Step(t), pc[t] \in Updating,
         NEW L \in SUBSET Updating
  PROVE  /\ InHand(Slot(t), L) <=> pc[t] \in L
         /\ Slot(t)' = Slot(t) => (InHand(Slot(t), L)' <=> pc'[t] \in L)
         /\ Slot(t)' = Slot(t) => \A s : s # Slot(t) => (InHand(s, L)' <=> InHand(s, L))
<1>1. \A u \in Threads \ {t} : pc'[u] = pc[u] /\ Slot(u)' = Slot(u)
  BY Others DEF Slot
<1>2. \A u \in Threads \ {t} : pc[u] \in Updating => Slot(u) # Slot(t)
  BY DEF SlotLock
<1> QED BY <1>1, <1>2 DEF InHand

\* The step neither counts nor does what has to be counted.
Steady(t) ==
  /\ vertex' = vertex
  /\ \A s \in Slots : edge'[s].dirs = edge[s].dirs
  /\ \A b \in Blocks : eb'[b].numEdges = eb[b].numEdges
  /\ pc[t] \notin {"upd_count", "upd_newout"} /\ pc'[t] \notin {"upd_count", "upd_newout"}

LEMMA SteadySteps ==
  ASSUME TypeInv, LinkInv, SlotInv, NEW t \in Threads, Call(t) \/ Step(t),
         pc[t] \notin {"upd_write", "upd_count", "upd_dir", "upd_newout"}
  PROVE  Steady(t)
<1>1. /\ edge \in [Slots -> EdgeType] /\ eb \in [Blocks -> BlockType] /\ pc \in [Threads -> Labels]
      /\ frame[t] \in FrameType
  BY Frames
<1>2. CASE Call(t) \/ EtypeBegin(t) \/ FindNext(t) \/ SeekFirst(t) \/ SeekNext(t)
  BY <1>1, <1>2 DEF Call, EtypeBegin, FindNext, SeekFirst, SeekNext, Move, Goto, shared, Steady
<1>3. CASE FindBlock(t) \/ FindScan(t) \/ Found(t) \/ SeekBlock(t) \/ SeekScan(t)
           \/ ClaimRead(t) \/ ClaimCheck(t) \/ UpdTest(t) \/ UpdStamp(t) \/ PushBlock(t)
  BY <1>1, <1>3 DEF FindBlock, FindScan, Found, SeekBlock, SeekScan, ClaimRead, ClaimCheck,
     UpdTest, UpdStamp, PushBlock, Move, Goto, shared, Steady
<1>4. CASE GrowLock(t) \/ GrowRetry(t) \/ PushEbs(t) \/ GrowLink(t)
  BY <1>1, <1>4 DEF GrowLock, GrowRetry, PushEbs, GrowLink, Return, Move, Goto, Steady
<1>5. CASE ClaimLock(t) \/ ClaimRelease(t) \/ UpdLock(t) \/ UpdFirst(t) \/ UpdRecent(t)
  BY <1>1, <1>5 DEF ClaimLock, ClaimRelease, UpdLock, UpdFirst, UpdRecent, AfterDirection,
     Move, Goto, Steady, EdgeType
<1>6. CASE UpdUnlock(t) \/ UpdRestore(t)
  <2>1. UNCHANGED <<eb, vertex>> /\ \A s \in Slots : edge'[s].dirs = edge[s].dirs
    BY <1>1, <1>6 DEF UpdUnlock, UpdRestore, EdgeType
  <2>2. /\ pc[t] \in {"upd_unlock", "restore"}
        /\ pc' = [pc EXCEPT ![t] = "idle"] \/ pc' = [pc EXCEPT ![t] = frame[t].then]
    BY <1>6 DEF UpdUnlock, UpdRestore, Return, Goto
  <2>3. frame[t].then \in {"return", "restore", "push_ebs"}
    BY <1>1 DEF FrameType
  <2> QED BY <1>1, <2>1, <2>2, <2>3 DEF Steady
<1>7. CASE UpdHigh(t) \/ UpdStampLock(t) \/ UpdStampSet(t)
  BY <1>1, <1>7 DEF UpdHigh, UpdStampLock, UpdStampSet, Move, Goto, Steady, BlockType
<1>8. CASE GrowNew(t)
  BY <1>1, <1>8, GrowNewLink DEF GrowNew, Move, Goto, Steady
<1>9. ~UpdWrite(t) /\ ~UpdCount(t) /\ ~UpdDir(t) /\ ~UpdNewOut(t)
  BY DEF UpdWrite, UpdCount, UpdDir, UpdNewOut, Move
<1> QED BY <1>2, <1>3, <1>4, <1>5, <1>6, <1>7, <1>8, <1>9 DEF Step

LEMMA CountsSame ==
  ASSUME CountsOK, vertex' = vertex, \A b \in Blocks : eb'[b].numEdges = eb[b].numEdges,
         CountedDir("OUT")' = CountedDir("OUT"), CountedDir("IN")' = CountedDir("IN"),
         Counted' = Counted
  PROVE  CountsOK'
<1>1. \A b \in Blocks : CountedIn(b)' = CountedIn(b)
  BY DEF CountedIn
<1> QED BY <1>1 DEF CountsOK

LEMMA SteadyCounts ==
  ASSUME TypeInv, CountsOK, NEW t \in Threads, Call(t) \/ Step(t), Steady(t)
  PROVE  CountsOK'
<1>1. \A s : /\ InHand(s, {"upd_count"})' <=> InHand(s, {"upd_count"})
             /\ InHand(s, {"upd_count", "upd_newout"})' <=> InHand(s, {"upd_count", "upd_newout"})
  BY InHandKept DEF Steady
<1>2. CountedDir("OUT")' = CountedDir("OUT") /\ CountedDir("IN")' = CountedDir("IN")
  BY <1>1 DEF CountedDir, Uncounted, Steady
<1>3. Counted' = Counted
  BY <1>1 DEF Counted, Steady
<1> QED BY <1>2, <1>3, CountsSame DEF Steady

\* A new edge is written to a free slot and counted later.
LEMMA WriteCounts ==
  ASSUME TypeInv, LinkInv, SlotLock, SlotInv, CountsOK, NEW t \in Threads, UpdWrite(t)
  PROVE  CountsOK'
<1>1. /\ pc[t] = "upd_write" /\ pc'[t] = "upd_count" /\ Slot(t)' = Slot(t)
      /\ Slot(t) \in Slots /\ edge[Slot(t)].dirs = {}
      /\ \A s \in Slots : s # Slot(t) => edge'[s] = edge[s]
      /\ eb' = eb /\ vertex' = vertex
  BY WriteEffect DEF Fillable, Slot, UpdWrite
<1>2. ASSUME NEW L \in SUBSET Updating, "upd_count" \in L
      PROVE  /\ InHand(Slot(t), L)'
             /\ \A s \in Slots : s # Slot(t) => (InHand(s, L)' <=> InHand(s, L))
  BY <1>1, <1>2, Alone DEF Step, Updating
<1>3. {"upd_count"} \in SUBSET Updating /\ {"upd_count", "upd_newout"} \in SUBSET Updating
  BY DEF Updating
<1>4. \A d \in Directions : Uncounted(d) \in SUBSET Updating /\ "upd_count" \in Uncounted(d)
  BY <1>3 DEF Uncounted
<1>5. ASSUME NEW d \in Directions PROVE CountedDir(d)' = CountedDir(d)
  BY <1>1, <1>2, <1>4 DEF CountedDir
<1>6. Counted' = Counted
  BY <1>1, <1>2, <1>3 DEF Counted
<1> QED BY <1>1, <1>5, <1>6, CountsSame DEF Directions

LEMMA CountCounts ==
  ASSUME TypeInv, LinkInv, SlotLock, SlotInv, CountsOK, NEW t \in Threads, UpdCount(t), WrittenOK(t)
  PROVE  CountsOK'
<1>1. /\ pc[t] = "upd_count" /\ pc'[t] = "upd_high" /\ Slot(t)' = Slot(t) /\ edge' = edge
      /\ edge[Slot(t)].dirs = {Dir(t)} /\ Dir(t) \in Directions
      /\ eb' = [eb EXCEPT ![frame[t].tmp].numEdges = @ + 1]
      /\ vertex' = [CountDir(vertex, Dir(t)) EXCEPT !.degree = @ + 1]
  BY AtThread, Frames DEF UpdCount, Move, Goto, WrittenOK, Slot
<1>2. Slot(t) \in Slots /\ frame[t].tmp \in Blocks /\ Slot(t)[1] = frame[t].tmp
  BY <1>1, SlotTypes, UpdatingSlot DEF Updating, Slot
<1>3. /\ \A L \in SUBSET Updating : \A s \in Slots : s # Slot(t) => (InHand(s, L)' <=> InHand(s, L))
      /\ \A L \in SUBSET Updating : InHand(Slot(t), L) <=> pc[t] \in L
      /\ \A L \in SUBSET Updating : InHand(Slot(t), L)' <=> pc'[t] \in L
  BY <1>1, Alone DEF Step, Updating
<1>4. {"upd_count"} \in SUBSET Updating /\ {"upd_count", "upd_newout"} \in SUBSET Updating
  BY DEF Updating
<1>5. \A d \in Directions : Uncounted(d) \in SUBSET Updating /\ "upd_count" \in Uncounted(d)
                            /\ "upd_high" \notin Uncounted(d)
  BY <1>4 DEF Uncounted
<1>6. ASSUME NEW d \in Directions
      PROVE  Cardinality(CountedDir(d))' = Cardinality(CountedDir(d)) + (IF d = Dir(t) THEN 1 ELSE 0)
  <2>1. CASE d # Dir(t)
    <3>1. CountedDir(d)' = CountedDir(d) /\ CountedDir(d) \in SUBSET Slots
      BY <1>1, <1>3, <1>5, <2>1 DEF CountedDir
    <3> QED BY <2>1, <3>1, FiniteSlots
  <2>2. CASE d = Dir(t)
    <3>1. CountedDir(d)' = CountedDir(d) \cup {Slot(t)}
      BY <1>1, <1>2, <1>3, <1>5, <2>2 DEF CountedDir
    <3>2. Slot(t) \notin CountedDir(d) /\ CountedDir(d) \in SUBSET Slots
      BY <1>1, <1>3, <1>5 DEF CountedDir
    <3> QED BY <1>2, <2>2, <3>1, <3>2, OneMore
  <2> QED BY <2>1, <2>2
<1>7. Counted' = Counted \cup {Slot(t)} /\ Slot(t) \notin Counted /\ Counted \in SUBSET Slots
  BY <1>1, <1>2, <1>3, <1>4 DEF Counted
<1>8. ASSUME NEW b \in Blocks
      PROVE  Cardinality(CountedIn(b))' = Cardinality(CountedIn(b)) + (IF b = frame[t].tmp THEN 1 ELSE 0)
  <2>1. CASE b # frame[t].tmp
    <3>1. CountedIn(b)' = CountedIn(b) /\ CountedIn(b) \in SUBSET Slots
      BY <1>2, <1>7, <2>1 DEF CountedIn
    <3> QED BY <2>1, <3>1, FiniteSlots
  <2>2. CASE b = frame[t].tmp
    <3>1. /\ CountedIn(b)' = CountedIn(b) \cup {Slot(t)}
          /\ Slot(t) \notin CountedIn(b) /\ CountedIn(b) \in SUBSET Slots
      BY <1>2, <1>7, <2>2 DEF CountedIn
    <3> QED BY <1>2, <2>2, <3>1, OneMore
  <2> QED BY <2>1, <2>2
<1>9. \A b \in Blocks : eb'[b].numEdges = eb[b].numEdges + (IF b = frame[t].tmp THEN 1 ELSE 0)
  BY <1>1, Frames DEF BlockType
<1>10. vertex \in [inDegree : Nat, outDegree : Nat, degree : Nat]
  BY DEF TypeInv, TypeOK
<1>11. /\ vertex'.outDegree = vertex.outDegree + (IF "OUT" = Dir(t) THEN 1 ELSE 0)
       /\ vertex'.inDegree = vertex.inDegree + (IF "IN" = Dir(t) THEN 1 ELSE 0)
       /\ vertex'.degree = vertex.degree + 1
  BY <1>1, <1>10 DEF CountDir, Directions
<1>12. Cardinality(Counted)' = Cardinality(Counted) + 1
  BY <1>2, <1>7, OneMore
<1>13. "OUT" \in Directions /\ "IN" \in Directions
  BY DEF Directions
<1> QED BY <1>6, <1>8, <1>9, <1>11, <1>12, <1>13 DEF CountsOK

\* A direction is added to a slot that has one: to count or, for OUT, later.
LEMMA DirCounts ==
  ASSUME TypeInv, LinkInv, SlotLock, SlotInv, CountsOK, NEW t \in Threads, UpdDir(t)
  PROVE  CountsOK'
<1>0. edge \in [Slots -> EdgeType] /\ pc \in [Threads -> Labels]
  BY Frames
<1>1. /\ pc[t] = "upd_dir" /\ Slot(t)' = Slot(t) /\ eb' = eb
      /\ Dir(t) \in Directions
  BY AtThread DEF UpdDir, Slot
<1>2. Slot(t) \in Slots /\ edge[Slot(t)].dirs # {}
  BY <1>1, UpdatingSlot DEF Updating, SlotInv, UpdateOK, SettledLabels, Settled, Complete
<1>3. /\ \A L \in SUBSET Updating : \A s \in Slots : s # Slot(t) => (InHand(s, L)' <=> InHand(s, L))
      /\ \A L \in SUBSET Updating : InHand(Slot(t), L) <=> pc[t] \in L
      /\ \A L \in SUBSET Updating : InHand(Slot(t), L)' <=> pc'[t] \in L
  BY <1>1, Alone DEF Step, Updating
<1>4. {"upd_count"} \in SUBSET Updating /\ {"upd_count", "upd_newout"} \in SUBSET Updating
  BY DEF Updating
<1>5. Uncounted("OUT") = {"upd_count", "upd_newout"} /\ Uncounted("IN") = {"upd_count"}
  BY DEF Uncounted
<1>6. CASE Dir(t) \in edge[Slot(t)].dirs
  <2>1. Steady(t)
    BY <1>0, <1>1, <1>6 DEF UpdDir, AfterDirection, Goto, Steady
  <2> QED BY <2>1, SteadyCounts DEF Step
<1>7. CASE Dir(t) \notin edge[Slot(t)].dirs /\ Dir(t) = "OUT"
  <2>1. /\ edge' = [edge EXCEPT ![Slot(t)].dirs = @ \cup {"OUT"}]
        /\ pc'[t] = "upd_newout" /\ vertex' = vertex
    BY <1>0, <1>7 DEF UpdDir, Goto
  <2>2. /\ \A s \in Slots : s # Slot(t) => edge'[s] = edge[s]
        /\ edge'[Slot(t)].dirs = edge[Slot(t)].dirs \cup {"OUT"}
    BY <1>0, <1>2, <2>1 DEF EdgeType
  <2>3. CountedDir("OUT")' = CountedDir("OUT")
    BY <1>1, <1>3, <1>4, <1>5, <1>7, <2>1, <2>2 DEF CountedDir
  <2>4. CountedDir("IN")' = CountedDir("IN")
    BY <1>1, <1>3, <1>4, <1>5, <2>1, <2>2 DEF CountedDir
  <2>5. Counted' = Counted
    BY <1>1, <1>2, <1>3, <1>4, <2>1, <2>2 DEF Counted
  <2> QED BY <1>1, <2>1, <2>3, <2>4, <2>5, CountsSame
<1>8. CASE Dir(t) \notin edge[Slot(t)].dirs /\ Dir(t) = "IN"
  <2>1. /\ edge' = [edge EXCEPT ![Slot(t)].dirs = @ \cup {"IN"}]
        /\ pc'[t] = "upd_unlock" /\ vertex' = CountDir(vertex, "IN")
    BY <1>0, <1>8 DEF UpdDir, Goto
  <2>2. /\ \A s \in Slots : s # Slot(t) => edge'[s] = edge[s]
        /\ edge'[Slot(t)].dirs = edge[Slot(t)].dirs \cup {"IN"}
    BY <1>0, <1>2, <2>1 DEF EdgeType
  <2>3. CountedDir("OUT")' = CountedDir("OUT")
    BY <1>1, <1>3, <1>4, <1>5, <2>1, <2>2 DEF CountedDir
  <2>4. /\ CountedDir("IN")' = CountedDir("IN") \cup {Slot(t)}
        /\ Slot(t) \notin CountedDir("IN") /\ CountedDir("IN") \in SUBSET Slots
    BY <1>1, <1>2, <1>3, <1>4, <1>5, <1>8, <2>1, <2>2 DEF CountedDir
  <2>5. Counted' = Counted
    BY <1>1, <1>2, <1>3, <1>4, <2>1, <2>2 DEF Counted
  <2>6. \A b \in Blocks : CountedIn(b)' = CountedIn(b)
    BY <2>5 DEF CountedIn
  <2>7. vertex \in [inDegree : Nat, outDegree : Nat, degree : Nat]
    BY DEF TypeInv, TypeOK
  <2>8. vertex'.outDegree = vertex.outDegree /\ vertex'.inDegree = vertex.inDegree + 1
        /\ vertex'.degree = vertex.degree
    BY <2>1, <2>7 DEF CountDir
  <2>9. Cardinality(CountedDir("IN"))' = Cardinality(CountedDir("IN")) + 1
    BY <1>2, <2>4, OneMore
  <2> QED BY <1>1, <2>3, <2>5, <2>6, <2>8, <2>9 DEF CountsOK
<1> QED BY <1>1, <1>6, <1>7, <1>8 DEF Directions

LEMMA NewOutCounts ==
  ASSUME TypeInv, LinkInv, SlotLock, SlotInv, CountsOK, NEW t \in Threads, UpdNewOut(t), WrittenOK(t)
  PROVE  CountsOK'
<1>0. edge \in [Slots -> EdgeType] /\ pc \in [Threads -> Labels]
  BY Frames
<1>1. /\ pc[t] = "upd_newout" /\ pc'[t] = "upd_stamp" /\ Slot(t)' = Slot(t) /\ eb' = eb
      /\ "OUT" \in edge[Slot(t)].dirs /\ vertex' = CountDir(vertex, "OUT")
  BY <1>0 DEF UpdNewOut, Move, Goto, Slot, WrittenOK
<1>2. Slot(t) \in Slots
  BY <1>1, UpdatingSlot DEF Updating
<1>3. /\ \A L \in SUBSET Updating : \A s \in Slots : s # Slot(t) => (InHand(s, L)' <=> InHand(s, L))
      /\ \A L \in SUBSET Updating : InHand(Slot(t), L) <=> pc[t] \in L
      /\ \A L \in SUBSET Updating : InHand(Slot(t), L)' <=> pc'[t] \in L
  BY <1>1, Alone DEF Step, Updating
<1>4. {"upd_count"} \in SUBSET Updating /\ {"upd_count", "upd_newout"} \in SUBSET Updating
  BY DEF Updating
<1>5. Uncounted("OUT") = {"upd_count", "upd_newout"} /\ Uncounted("IN") = {"upd_count"}
  BY DEF Uncounted
<1>6. \A s \in Slots : edge'[s].dirs = edge[s].dirs
  BY <1>0, <1>2 DEF UpdNewOut, EdgeType
<1>7. /\ CountedDir("OUT")' = CountedDir("OUT") \cup {Slot(t)}
      /\ Slot(t) \notin CountedDir("OUT") /\ CountedDir("OUT") \in SUBSET Slots
  BY <1>1, <1>2, <1>3, <1>4, <1>5, <1>6 DEF CountedDir
<1>8. CountedDir("IN")' = CountedDir("IN")
  BY <1>1, <1>3, <1>4, <1>5, <1>6 DEF CountedDir
<1>9. Counted' = Counted
  BY <1>1, <1>3, <1>4, <1>6 DEF Counted
<1>10. \A b \in Blocks : CountedIn(b)' = CountedIn(b)
  BY <1>9 DEF CountedIn
<1>11. vertex \in [inDegree : Nat, outDegree : Nat, degree : Nat]
  BY DEF TypeInv, TypeOK
<1>12. /\ vertex'.outDegree = vertex.outDegree + 1 /\ vertex'.inDegree = vertex.inDegree
       /\ vertex'.degree = vertex.degree
  BY <1>1, <1>11 DEF CountDir
<1>13. Cardinality(CountedDir("OUT"))' = Cardinality(CountedDir("OUT")) + 1
  BY <1>2, <1>7, OneMore
<1> QED BY <1>1, <1>8, <1>9, <1>10, <1>12, <1>13 DEF CountsOK

LEMMA StepAtDir ==
  ASSUME NEW t \in Threads, Call(t) \/ Step(t), pc[t] = "upd_dir" PROVE UpdDir(t)
BY DEF Call, Step, Move, EtypeBegin, FindBlock, FindScan, FindNext, Found,
  SeekFirst, SeekBlock, SeekScan, SeekNext, ClaimLock, ClaimRead, ClaimCheck,
  ClaimRelease, UpdLock, UpdTest, UpdWrite, UpdCount, UpdHigh, UpdFirst,
  UpdNewOut, UpdStamp, UpdStampLock, UpdStampSet, UpdRecent, UpdUnlock, UpdRestore,
  GrowLock, GrowRetry, GrowNew, PushEbs, PushBlock, GrowLink

LEMMA StepAtNewOut ==
  ASSUME NEW t \in Threads, Call(t) \/ Step(t), pc[t] = "upd_newout" PROVE UpdNewOut(t)
BY DEF Call, Step, Move, EtypeBegin, FindBlock, FindScan, FindNext, Found,
  SeekFirst, SeekBlock, SeekScan, SeekNext, ClaimLock, ClaimRead, ClaimCheck,
  ClaimRelease, UpdLock, UpdTest, UpdWrite, UpdCount, UpdHigh, UpdFirst, UpdDir,
  UpdStamp, UpdStampLock, UpdStampSet, UpdRecent, UpdUnlock, UpdRestore,
  GrowLock, GrowRetry, GrowNew, PushEbs, PushBlock, GrowLink

LEMMA StepCounts ==
  ASSUME TypeInv, LinkInv, SlotLock, SlotInv, CountsOK, NEW t \in Threads, Call(t) \/ Step(t),
         WrittenOK(t)
  PROVE  CountsOK'
<1>1. CASE pc[t] \notin {"upd_write", "upd_count", "upd_dir", "upd_newout"}
  BY <1>1, SteadySteps, SteadyCounts
<1>2. CASE pc[t] \in {"upd_write", "upd_count", "upd_dir", "upd_newout"}
  BY <1>2, StepAtWrite, StepAtCount, StepAtDir, StepAtNewOut, WriteCounts, CountCounts,
     DirCounts, NewOutCounts
<1> QED BY <1>1, <1>2

-----------------------------------------------------------------------------
(* What a thread has written and not yet counted.                          *)

LEMMA WrittenKept ==
  ASSUME TypeInv, LinkInv, SlotLock, SlotInv, NEW t \in Threads, Call(t) \/ Step(t),
         \A u \in Threads : WrittenOK(u)
  PROVE  \A u \in Threads : WrittenOK(u)'
<1>0. edge \in [Slots -> EdgeType] /\ pc \in [Threads -> Labels]
  BY Frames
<1>1. \A u \in Threads \ {t} : pc'[u] = pc[u] /\ frame'[u] = frame[u] /\ Slot(u)' = Slot(u)
                               /\ Dir(u)' = Dir(u)
  BY Others DEF Slot, Dir
<1>2. CASE pc[t] \notin {"upd_write", "upd_count", "upd_dir", "upd_newout"}
  <2>1. Steady(t)
    BY <1>2, SteadySteps
  <2>2. \A u \in Threads : pc[u] \in {"upd_count", "upd_newout"} => Slot(u) \in Slots
    BY UpdatingSlot DEF Updating
  <2> QED BY <1>1, <2>1, <2>2 DEF Steady, WrittenOK
<1>3. ASSUME pc[t] \in Updating, Slot(t)' = Slot(t), Dir(t)' = Dir(t),
             \A s \in Slots : s # Slot(t) => edge'[s] = edge[s], WrittenOK(t)'
      PROVE  \A u \in Threads : WrittenOK(u)'
  <2>1. ASSUME NEW u \in Threads \ {t}, pc[u] \in {"upd_count", "upd_newout"}
        PROVE  edge'[Slot(u)] = edge[Slot(u)]
    <3>1. pc[u] \in Updating /\ Slot(u) \in Slots /\ Slot(u) # Slot(t)
      BY <1>3, <2>1, UpdatingSlot DEF Updating, SlotLock
    <3> QED BY <1>3, <3>1
  <2> QED BY <1>1, <1>3, <2>1 DEF WrittenOK
<1>4. CASE UpdWrite(t)
  <2>1. pc[t] = "upd_write" /\ Slot(t)' = Slot(t) /\ Slot(t) \in Slots /\ Dir(t)' = Dir(t)
        /\ pc'[t] = "upd_count" /\ \A s \in Slots : s # Slot(t) => edge'[s] = edge[s]
    BY <1>4, WriteEffect DEF Slot, Dir
  <2>2. edge'[Slot(t)].dirs = {Dir(t)}
    BY <1>0, <1>4, <2>1 DEF UpdWrite, EdgeType
  <2> QED BY <1>3, <2>1, <2>2 DEF WrittenOK, Updating
<1>5. CASE UpdDir(t)
  <2>1. /\ pc[t] = "upd_dir" /\ Slot(t)' = Slot(t) /\ Dir(t)' = Dir(t) /\ Slot(t) \in Slots
        /\ pc'[t] \in {"upd_newout", "upd_stamp", "upd_unlock"}
    BY <1>0, <1>5, UpdatingSlot DEF UpdDir, Slot, Dir, Goto, Updating, AfterDirection
  <2>2. \A s \in Slots : s # Slot(t) => edge'[s] = edge[s]
    BY <1>0, <1>5 DEF UpdDir
  <2>3. pc'[t] = "upd_newout" => Dir(t) = "OUT" /\ "OUT" \in edge'[Slot(t)].dirs
    BY <1>0, <1>5, <2>1 DEF UpdDir, Goto, AfterDirection, EdgeType
  <2> QED BY <1>3, <2>1, <2>2, <2>3 DEF WrittenOK, Updating
<1>6. CASE UpdCount(t) \/ UpdNewOut(t)
  <2>1. /\ pc[t] \in {"upd_count", "upd_newout"} /\ pc'[t] \in {"upd_high", "upd_stamp"}
        /\ Slot(t)' = Slot(t) /\ Dir(t)' = Dir(t)
    BY <1>0, <1>6 DEF UpdCount, UpdNewOut, Slot, Dir, Move, Goto
  <2>2. \A s \in Slots : s # Slot(t) => edge'[s] = edge[s]
    BY <1>0, <1>6 DEF UpdCount, UpdNewOut
  <2> QED BY <1>3, <2>1, <2>2 DEF WrittenOK, Updating
<1> QED BY <1>2, <1>4, <1>5, <1>6, StepAtWrite, StepAtCount, StepAtDir, StepAtNewOut

LEMMA StayingFrame ==
  ASSUME TypeInv, NEW t \in Threads,
         \/ UpdLock(t) \/ UpdTest(t) \/ UpdWrite(t) \/ UpdCount(t) \/ UpdHigh(t) \/ UpdFirst(t)
         \/ UpdDir(t) \/ UpdNewOut(t) \/ UpdStamp(t) \/ UpdStampLock(t) \/ UpdStampSet(t)
         \/ UpdRecent(t) \/ ClaimLock(t) \/ ClaimRead(t)
  PROVE  /\ frame'[t].then = frame[t].then /\ frame'[t].op = frame[t].op
         /\ Slot(t)' = Slot(t)
<1>0. frame \in [Threads -> FrameType] /\ frame[t] \in FrameType
  BY Frames
<1>1. CASE UpdTest(t) \/ UpdWrite(t) \/ UpdCount(t) \/ UpdHigh(t) \/ UpdFirst(t)
  BY <1>1 DEF UpdTest, UpdWrite, UpdCount, UpdHigh, UpdFirst, Slot
<1>2. CASE UpdDir(t) \/ UpdNewOut(t) \/ UpdStamp(t) \/ UpdStampSet(t) \/ UpdRecent(t)
  BY <1>2 DEF UpdDir, UpdNewOut, UpdStamp, UpdStampSet, UpdRecent, Slot
<1>3. CASE UpdLock(t) \/ UpdStampLock(t)
  BY <1>0, <1>3 DEF UpdLock, UpdStampLock, FrameType, Slot
<1>4. CASE ClaimLock(t) \/ ClaimRead(t)
  BY <1>0, <1>4 DEF ClaimLock, ClaimRead, FrameType, Slot
<1> QED BY <1>1, <1>2, <1>3, <1>4

-----------------------------------------------------------------------------
(* Slots above the high water mark.                                        *)

\* A slot above the high water mark is only written by the thread that claims
\* it, and that thread does not leave it there.
LEMMA OwnSlot ==
  ASSUME TypeInv, TypeInv', LinkInv, SlotInv, NEW t \in Threads, Call(t) \/ Step(t),
         NEW s \in Slots, s[2] >= eb'[s[1]].high
  PROVE  /\ edge'[s] = edge[s] \/ (s = Slot(t) /\ pc'[t] \in Claiming /\ Slot(t)' = s)
         /\ pc[t] \in Claiming /\ s = Slot(t) => pc'[t] \in Claiming /\ Slot(t)' = s
<1>0. /\ edge \in [Slots -> EdgeType] /\ pc \in [Threads -> Labels]
      /\ frame \in [Threads -> FrameType] /\ frame[t] \in FrameType
      /\ eb \in [Blocks -> BlockType]
  BY Frames
<1>1. /\ s[1] \in Blocks /\ s[2] \in Int /\ eb[s[1]].high \in Int /\ eb'[s[1]].high \in Int
      /\ eb'[s[1]].high >= eb[s[1]].high
  BY SlotTypes, HighTypes, StepGrows DEF Grows
<1>2. s[2] >= eb[s[1]].high
  BY <1>1
<1>3. CASE \/ Call(t) \/ EtypeBegin(t) \/ FindBlock(t) \/ FindScan(t) \/ FindNext(t) \/ Found(t)
           \/ SeekFirst(t) \/ SeekBlock(t) \/ SeekScan(t) \/ SeekNext(t) \/ GrowLock(t)
           \/ GrowRetry(t) \/ PushEbs(t) \/ PushBlock(t) \/ GrowLink(t)
  BY <1>3 DEF Call, EtypeBegin, FindBlock, FindScan, FindNext, Found, SeekFirst, SeekBlock,
     SeekScan, SeekNext, GrowLock, GrowRetry, PushEbs, PushBlock, GrowLink, Move, shared,
     Claiming
<1>4. CASE GrowNew(t)
  BY <1>4, GrowNewLink DEF GrowNew, Move, Claiming
<1>5. CASE ClaimLock(t) \/ ClaimRead(t) \/ ClaimCheck(t) \/ UpdLock(t) \/ UpdWrite(t) \/ UpdCount(t)
  <2>1. \A r \in Slots : r # Slot(t) => edge'[r] = edge[r]
    BY <1>0, <1>5 DEF ClaimLock, ClaimRead, ClaimCheck, UpdLock, UpdWrite, UpdCount, shared
  <2>2. Slot(t)' = Slot(t)
    <3>1. CASE ClaimCheck(t)
      BY <1>0, <3>1, CheckFrame DEF Slot
    <3> QED BY <1>5, <3>1, StayingFrame
  <2>3. pc'[t] \in {"claim_read", "claim_check", "claim_release", "upd_lock", "upd_test",
                    "upd_count", "upd_high"}
    BY <1>0, <1>5 DEF ClaimLock, ClaimRead, ClaimCheck, UpdLock, UpdWrite, UpdCount, Move, Goto
  <2> QED BY <2>1, <2>2, <2>3 DEF Claiming
<1>6. CASE \/ ClaimRelease(t) \/ UpdFirst(t) \/ UpdDir(t) \/ UpdNewOut(t) \/ UpdStamp(t)
           \/ UpdStampLock(t) \/ UpdStampSet(t) \/ UpdRecent(t) \/ UpdUnlock(t) \/ UpdRestore(t)
  <2>1. pc[t] \in SettledLabels \cup {"claim_release"}
    BY <1>6 DEF ClaimRelease, UpdFirst, UpdDir, UpdNewOut, UpdStamp, UpdStampLock, UpdStampSet,
       UpdRecent, UpdUnlock, UpdRestore, Move, SettledLabels
  <2>2. Complete(Slot(t))
    BY <2>1 DEF SlotInv, UpdateOK, SearchOK, Settled
  <2>3. s # Slot(t)
    BY <1>1, <1>2, <2>2 DEF Complete
  <2>4. edge'[s] = edge[s]
    BY <1>0, <1>6, <2>3 DEF ClaimRelease, UpdFirst, UpdDir, UpdNewOut, UpdStamp, UpdStampLock,
       UpdStampSet, UpdRecent, UpdUnlock, UpdRestore, shared
  <2> QED BY <2>3, <2>4
<1>7. CASE UpdTest(t)
  <2>1. edge' = edge /\ frame' = frame /\ Slot(t)' = Slot(t)
    BY <1>7 DEF UpdTest, shared, Slot
  <2>2. s = Slot(t) => pc'[t] = "upd_write"
    BY <1>0, <1>2, <1>7 DEF UpdTest, Move, Goto, Slot
  <2> QED BY <2>1, <2>2 DEF Claiming
<1>8. CASE UpdHigh(t)
  <2>1. /\ edge' = edge /\ frame[t].tmp \in Blocks /\ frame[t].k \in Nat
        /\ eb'[frame[t].tmp].high = IF frame[t].k >= eb[frame[t].tmp].high
                                    THEN frame[t].k + 1 ELSE eb[frame[t].tmp].high
    BY <1>8, HighEffect
  <2>2. s # Slot(t)
    BY <1>1, <2>1 DEF Slot
  <2> QED BY <2>1, <2>2
<1> QED BY <1>3, <1>4, <1>5, <1>6, <1>7, <1>8 DEF Step

LEMMA CleanKept ==
  ASSUME TypeInv, TypeInv', LinkInv, SlotInv, CleanOK, NEW t \in Threads, Call(t) \/ Step(t)
  PROVE  CleanOK'
<1> SUFFICES ASSUME NEW s \in Slots, s[2] >= eb'[s[1]].high
             PROVE  edge'[s] = ZeroEdge \/ InHand(s, Claiming)'
  BY DEF CleanOK
<1>1. \A u \in Threads \ {t} : pc'[u] = pc[u] /\ Slot(u)' = Slot(u)
  BY Others DEF Slot
<1>2. /\ edge'[s] = edge[s] \/ (pc'[t] \in Claiming /\ Slot(t)' = s)
      /\ pc[t] \in Claiming /\ s = Slot(t) => pc'[t] \in Claiming /\ Slot(t)' = s
  BY OwnSlot
<1>3. s[2] >= eb[s[1]].high
  BY SlotTypes, HighTypes, StepGrows DEF Grows
<1>4. edge[s] = ZeroEdge \/ InHand(s, Claiming)
  BY <1>3 DEF CleanOK
<1> QED BY <1>1, <1>2, <1>4 DEF InHand

-----------------------------------------------------------------------------
(* Every empty word has a thread that is going to refill it.               *)

\* The steps outside of a claim and of an update.
Searches(t) ==
  \/ Call(t) \/ EtypeBegin(t) \/ FindBlock(t) \/ FindScan(t) \/ FindNext(t) \/ Found(t)
  \/ SeekFirst(t) \/ SeekBlock(t) \/ SeekScan(t) \/ SeekNext(t) \/ GrowLock(t)
  \/ GrowRetry(t) \/ GrowNew(t) \/ PushEbs(t) \/ PushBlock(t) \/ GrowLink(t)

LEMMA SearchesEffect ==
  ASSUME TypeInv, LinkInv, NEW t \in Threads, Searches(t), ThenOK(t)
  PROVE  /\ edge' = edge /\ eb' = eb /\ frame[t].then # "restore" /\ frame'[t].then # "restore"
         /\ pc[t] \notin Claiming \cup Updating \cup {"restore"} /\ pc'[t] \notin {"restore", "upd_stamp_set"}
<1>0. /\ pc \in [Threads -> Labels] /\ frame \in [Threads -> FrameType] /\ frame[t] \in FrameType
  BY Frames
<1>1. edge' = edge /\ eb' = eb
  BY GrowNewLink DEF Searches, Call, EtypeBegin, FindBlock, FindScan, FindNext, Found, SeekFirst,
     SeekBlock, SeekScan, SeekNext, GrowLock, GrowRetry, PushEbs, PushBlock, GrowLink, shared
<1>2. pc[t] \notin Claiming \cup Updating \cup {"restore"}
  BY DEF Searches, Call, EtypeBegin, FindBlock, FindScan, FindNext, Found, SeekFirst, SeekBlock,
     SeekScan, SeekNext, GrowLock, GrowRetry, GrowNew, PushEbs, PushBlock, GrowLink, Move,
     Claiming, Updating
<1>3. pc'[t] \notin {"restore", "upd_stamp_set"}
  <2>1. CASE Call(t) \/ EtypeBegin(t) \/ FindBlock(t) \/ FindScan(t) \/ FindNext(t) \/ Found(t)
             \/ SeekFirst(t) \/ SeekBlock(t) \/ SeekScan(t) \/ SeekNext(t)
    BY <1>0, <2>1 DEF Call, EtypeBegin, FindBlock, FindScan, FindNext, Found, SeekFirst,
       SeekBlock, SeekScan, SeekNext, Move, Goto
  <2>2. CASE GrowLock(t) \/ GrowRetry(t) \/ GrowNew(t) \/ PushEbs(t) \/ PushBlock(t) \/ GrowLink(t)
    BY <1>0, <2>2 DEF GrowLock, GrowRetry, GrowNew, PushEbs, PushBlock, GrowLink, Return, Move, Goto
  <2> QED BY <2>1, <2>2 DEF Searches
<1>4. frame[t].then # "restore"
  BY <1>2 DEF ThenOK, Claiming
<1>5. frame'[t].then # "restore"
  <2>1. CASE Call(t) \/ EtypeBegin(t) \/ FindNext(t) \/ SeekFirst(t) \/ SeekNext(t)
    BY <1>4, <2>1, MovesEffect DEF Moves
  <2>2. CASE FindBlock(t) \/ FindScan(t) \/ Found(t) \/ SeekBlock(t) \/ SeekScan(t)
    BY <1>0, <1>4, <2>2 DEF FindBlock, FindScan, Found, SeekBlock, SeekScan, FrameType
  <2>3. CASE GrowLock(t) \/ GrowRetry(t) \/ GrowNew(t) \/ PushEbs(t) \/ PushBlock(t) \/ GrowLink(t)
    BY <1>0, <1>4, <2>3 DEF GrowLock, GrowRetry, GrowNew, PushEbs, PushBlock, GrowLink, Return,
       IdleFrame, FrameType
  <2> QED BY <2>1, <2>2, <2>3 DEF Searches
<1> QED BY <1>1, <1>2, <1>3, <1>4, <1>5

LEMMA ThenKept ==
  ASSUME TypeInv, LinkInv, NEW t \in Threads, Call(t) \/ Step(t), \A u \in Threads : ThenOK(u)
  PROVE  \A u \in Threads : ThenOK(u)'
<1>0. /\ pc \in [Threads -> Labels] /\ frame \in [Threads -> FrameType] /\ frame[t] \in FrameType
  BY Frames
<1>1. \A u \in Threads \ {t} : pc'[u] = pc[u] /\ frame'[u] = frame[u]
  BY Others
<1> SUFFICES ThenOK(t)'
  BY <1>1 DEF ThenOK
<1>2. CASE Searches(t)
  BY <1>2, SearchesEffect DEF ThenOK
<1>3. CASE \/ UpdLock(t) \/ UpdTest(t) \/ UpdWrite(t) \/ UpdCount(t) \/ UpdHigh(t) \/ UpdFirst(t)
           \/ UpdDir(t) \/ UpdNewOut(t) \/ UpdStamp(t) \/ UpdStampLock(t) \/ UpdStampSet(t)
           \/ UpdRecent(t)
  <2>1. pc'[t] \in Updating
    BY <1>0, <1>3 DEF UpdLock, UpdTest, UpdWrite, UpdCount, UpdHigh, UpdFirst, UpdDir, UpdNewOut,
       UpdStamp, UpdStampLock, UpdStampSet, UpdRecent, AfterDirection, Move, Goto, Updating
  <2> QED BY <1>3, <2>1, StayingFrame DEF ThenOK, Updating
<1>4. CASE ClaimLock(t) \/ ClaimRead(t) \/ ClaimRelease(t)
  <2>1. /\ pc[t] \in {"claim_lock", "claim_read", "claim_release"}
        /\ pc'[t] \in {"claim_read", "claim_check", "seek_scan"}
    BY <1>0, <1>4 DEF ClaimLock, ClaimRead, ClaimRelease, Move, Goto
  <2>2. frame'[t].then = frame[t].then
    BY <1>0, <1>4 DEF ClaimLock, ClaimRead, ClaimRelease, FrameType
  <2> QED BY <2>1, <2>2 DEF ThenOK, Updating
<1>5. CASE ClaimCheck(t)
  <2>1. pc[t] = "claim_check" /\ pc'[t] \in {"upd_lock", "claim_release"}
    BY <1>0, <1>5 DEF ClaimCheck, Goto
  <2>2. frame[t].then # "restore"
    BY <2>1 DEF ThenOK, Updating
  <2>3. pc'[t] = "claim_release" => frame' = [frame EXCEPT ![t].endk = eb[frame[t].tmp].high]
    BY <1>0, <1>5 DEF ClaimCheck, Goto
  <2>4. pc'[t] = "claim_release" => frame'[t].then = frame[t].then
    BY <1>0, <2>3 DEF FrameType
  <2> QED BY <2>1, <2>2, <2>4 DEF ThenOK
<1>6. CASE UpdUnlock(t) \/ UpdRestore(t)
  <2>1. \/ pc'[t] = "idle" /\ frame'[t].then = "return"
        \/ pc'[t] = frame[t].then /\ frame'[t] = frame[t] /\ frame[t].then \in {"restore", "push_ebs"}
    BY <1>0, <1>6 DEF UpdUnlock, UpdRestore, Return, Goto, IdleFrame, FrameType
  <2> QED BY <2>1 DEF ThenOK
<1> QED BY <1>2, <1>3, <1>4, <1>5, <1>6 DEF Step, Searches

LEMMA OwnTime ==
  ASSUME TypeInv, LinkInv, SlotInv, NEW t \in Threads, Call(t) \/ Step(t), ThenOK(t),
         NEW s \in Slots, edge'[s].timeFirst = MARKER
  PROVE  /\ edge[s].timeFirst = MARKER \/ (HoldsTime(t)' /\ Slot(t)' = s)
         /\ HoldsTime(t) /\ Slot(t) = s => HoldsTime(t)' /\ Slot(t)' = s
<1>0. /\ edge \in [Slots -> EdgeType] /\ pc \in [Threads -> Labels]
      /\ frame \in [Threads -> FrameType] /\ frame[t] \in FrameType
      /\ MARKER \notin Int
  BY Frames
<1>1. CASE Searches(t)
  BY <1>1, SearchesEffect DEF HoldsTime, Claiming, Updating
<1>2. CASE ClaimLock(t)
  <2>1. /\ pc'[t] = "claim_read" /\ Slot(t)' = Slot(t)
        /\ \A r \in Slots : r # Slot(t) => edge'[r] = edge[r]
    BY <1>0, <1>2, StayingFrame DEF ClaimLock, Move, Goto
  <2> QED BY <2>1 DEF HoldsTime
<1>3. CASE ClaimRead(t)
  BY <1>0, <1>3, StayingFrame DEF ClaimRead, Move, Goto, shared, HoldsTime
<1>4. CASE ClaimCheck(t)
  <2>1. edge' = edge /\ pc[t] = "claim_check" /\ Slot(t)' = Slot(t)
    BY <1>0, <1>4, CheckFrame DEF ClaimCheck, shared, Slot
  <2>2. \/ Free(t) /\ pc'[t] = "upd_lock"
        \/ pc'[t] = "upd_lock" /\ frame'[t].then = "restore"
        \/ pc'[t] = "claim_release"
    <3>1. CASE Free(t)
      <4>1. pc' = [pc EXCEPT ![t] = "upd_lock"]
        BY <1>4, <3>1, Zenon DEF ClaimCheck, Goto
      <4> QED BY <1>0, <3>1, <4>1
    <3>2. CASE ~Free(t) /\ frame[t].seen = Dest(t)
      <4>1. /\ pc' = [pc EXCEPT ![t] = "upd_lock"]
            /\ frame' = [frame EXCEPT ![t].endk = eb[frame[t].tmp].high,
                                      ![t].mode = frame[t].op.mode,
                                      ![t].then = "restore", ![t].ret = 0]
        BY <1>4, <3>2, Zenon DEF ClaimCheck, Goto
      <4>2. frame'[t].then = "restore"
        BY <1>0, <4>1 DEF FrameType
      <4> QED BY <1>0, <4>1, <4>2
    <3>3. CASE ~Free(t) /\ frame[t].seen # Dest(t)
      <4>1. pc' = [pc EXCEPT ![t] = "claim_release"]
        BY <1>4, <3>3, Zenon DEF ClaimCheck, Goto
      <4> QED BY <1>0, <4>1
    <3> QED BY <3>1, <3>2, <3>3
  <2>3. Free(t) => edge[Slot(t)].dirs = {}
    BY <2>1, ClaimedFree
  <2> QED BY <2>1, <2>2, <2>3 DEF HoldsTime
<1>5. CASE ClaimRelease(t) \/ UpdFirst(t) \/ UpdNewOut(t) \/ UpdRestore(t)
  <2>1. frame[t].timefirst # MARKER /\ frame[t].op.ts # MARKER
    BY <1>0 DEF FrameType, OpType
  <2>2. \/ edge' = [edge EXCEPT ![Slot(t)].timeFirst = frame[t].timefirst]
        \/ edge' = [edge EXCEPT ![Slot(t)].timeFirst = frame[t].op.ts]
    BY <1>5 DEF ClaimRelease, UpdFirst, UpdNewOut, UpdRestore
  <2>3. s # Slot(t) /\ edge'[s] = edge[s]
    BY <1>0, <2>1, <2>2 DEF EdgeType
  <2> QED BY <2>3
<1>6. CASE UpdLock(t)
  <2>1. /\ pc[t] = "upd_lock" /\ pc'[t] = "upd_test" /\ Slot(t)' = Slot(t)
        /\ frame'[t].then = frame[t].then
    BY <1>0, <1>6, StayingFrame DEF UpdLock, Move, Goto
  <2>2. edge'[s].timeFirst = edge[s].timeFirst /\ edge'[s].dirs = edge[s].dirs
    BY <1>0, <1>6 DEF UpdLock, EdgeType
  <2> QED BY <2>1, <2>2 DEF HoldsTime
<1>7. CASE UpdTest(t)
  <2>1. /\ pc[t] = "upd_test" /\ Slot(t)' = Slot(t) /\ edge' = edge
        /\ frame'[t].then = frame[t].then
    BY <1>7, StayingFrame DEF UpdTest, Move, shared
  <2>2. /\ edge[Slot(t)].neighbor = Blank \/ frame[t].k >= eb[frame[t].tmp].high =>
             pc'[t] = "upd_write"
    BY <1>0, <1>7 DEF UpdTest, Move, Goto
  <2>3. edge[Slot(t)].dirs = {} => pc'[t] = "upd_write"
    <3>1. Slot(t) \in Slots /\ frame[t].tmp \in Blocks /\ frame[t].k \in Int
      BY <2>1, SlotTypes DEF AtSlotLabels, InBlockLabels, Labels, Slot, Slots, Indices
    <3>2. eb[frame[t].tmp].high \in Int /\ Slot(t)[1] = frame[t].tmp /\ Slot(t)[2] = frame[t].k
      BY <3>1, SlotTypes DEF Slot
    <3> QED BY <2>2, <3>1, <3>2 DEF SlotInv, SlotsOK
  <2> QED BY <2>1, <2>3 DEF HoldsTime
<1>8. CASE UpdWrite(t) \/ UpdCount(t) \/ UpdHigh(t)
  <2>1. pc'[t] \in {"upd_count", "upd_high", "upd_first"} /\ Slot(t)' = Slot(t)
    BY <1>0, <1>8, StayingFrame DEF UpdWrite, UpdCount, UpdHigh, Move, Goto
  <2>2. edge'[s].timeFirst = edge[s].timeFirst
    BY <1>0, <1>8 DEF UpdWrite, UpdCount, UpdHigh, EdgeType
  <2> QED BY <2>1, <2>2 DEF HoldsTime
<1>9. CASE UpdDir(t) \/ UpdStamp(t) \/ UpdStampLock(t) \/ UpdStampSet(t) \/ UpdRecent(t)
  <2>1. /\ Slot(t)' = Slot(t) /\ frame'[t].then = frame[t].then
        /\ pc[t] \in {"upd_dir", "upd_stamp", "upd_stamp_lock", "upd_stamp_set", "upd_recent"}
    BY <1>9, StayingFrame DEF UpdDir, UpdStamp, UpdStampLock, UpdStampSet, UpdRecent, Move
  <2>2. edge'[s].timeFirst = edge[s].timeFirst
    BY <1>0, <1>9 DEF UpdDir, UpdStamp, UpdStampLock, UpdStampSet, UpdRecent, EdgeType, shared
  <2> QED BY <2>1, <2>2 DEF HoldsTime
<1>10. CASE UpdUnlock(t)
  <2>1. pc[t] = "upd_unlock" /\ edge'[s].timeFirst = edge[s].timeFirst
    BY <1>0, <1>10 DEF UpdUnlock, EdgeType
  <2>2. frame[t].then = "restore" => frame' = frame
    BY <1>10 DEF UpdUnlock
  <2> QED BY <2>1, <2>2 DEF HoldsTime, Slot
<1> QED BY <1>1, <1>2, <1>3, <1>4, <1>5, <1>6, <1>7, <1>8, <1>9, <1>10 DEF Step, Searches

\* Nobody fills the slot another thread has claimed to fill.
\* A slot somebody has claimed is not filled by another thread.
LEMMA UnfilledKept ==
  ASSUME TypeInv, LinkInv, SlotInv, NEW t \in Threads, Call(t) \/ Step(t),
         NEW u \in Threads \ {t}, pc[u] \in {"upd_lock", "upd_test", "upd_write"},
         edge[Slot(u)].dirs = {}
  PROVE  edge'[Slot(u)].dirs = {}
<1>1. Slot(u) \in Slots /\ pc[u] \in Claiming
  BY SlotTypes DEF AtSlotLabels, InBlockLabels, Labels, Claiming
<1>2. CASE pc[t] \notin {"upd_write", "upd_high"}
  BY <1>1, <1>2, QuietSteps DEF Quiet
<1>3. CASE UpdHigh(t)
  BY <1>3, HighEffect
<1>4. CASE UpdWrite(t)
  <2>1. pc[t] \in Claiming /\ edge[Slot(t)].dirs = {}
    BY <1>4, WriteEffect DEF Claiming, Fillable
  <2>2. Slot(u) # Slot(t)
    BY <1>1, <2>1 DEF SlotInv, ClaimLockOK, Complete
  <2> QED BY <1>1, <1>4, <2>2, WriteEffect
<1> QED BY <1>2, <1>3, <1>4, StepAtWrite, StepAtHigh

LEMMA OthersHold ==
  ASSUME TypeInv, LinkInv, SlotInv, NEW t \in Threads, Call(t) \/ Step(t),
         NEW u \in Threads \ {t}, HoldsTime(u)
  PROVE  HoldsTime(u)' /\ Slot(u)' = Slot(u)
<1>1. pc'[u] = pc[u] /\ frame'[u] = frame[u] /\ Slot(u)' = Slot(u)
  BY Others DEF Slot
<1>2. ASSUME pc[u] \in {"upd_lock", "upd_test"}, edge[Slot(u)].dirs = {}
      PROVE  edge'[Slot(u)].dirs = {}
  BY <1>2, UnfilledKept
<1> QED BY <1>1, <1>2 DEF HoldsTime

LEMMA TimeKept ==
  ASSUME TypeInv, LinkInv, SlotInv, TimeHeld, NEW t \in Threads, Call(t) \/ Step(t), ThenOK(t)
  PROVE  TimeHeld'
<1> SUFFICES ASSUME NEW s \in Slots, edge'[s].timeFirst = MARKER
             PROVE  \E u \in Threads : HoldsTime(u)' /\ Slot(u)' = s
  BY DEF TimeHeld
<1>1. CASE edge[s].timeFirst # MARKER
  BY <1>1, OwnTime
<1>2. CASE edge[s].timeFirst = MARKER
  <2>1. PICK u \in Threads : HoldsTime(u) /\ Slot(u) = s
    BY <1>2 DEF TimeHeld
  <2> QED BY <2>1, OwnTime, OthersHold
<1> QED BY <1>1, <1>2

LEMMA StampKept ==
  ASSUME TypeInv, LinkInv, StampHeld, NEW t \in Threads, Call(t) \/ Step(t)
  PROVE  StampHeld'
<1> SUFFICES ASSUME NEW b \in Blocks, eb'[b].smallStamp = MARKER
             PROVE  \E u \in Threads : pc'[u] = "upd_stamp_set" /\ frame'[u].tmp = b
  BY DEF StampHeld
<1>0. /\ eb \in [Blocks -> BlockType] /\ pc \in [Threads -> Labels]
      /\ frame \in [Threads -> FrameType] /\ frame[t] \in FrameType /\ MARKER \notin Int
  BY Frames
<1>1. \A u \in Threads \ {t} : pc'[u] = pc[u] /\ frame'[u] = frame[u]
  BY Others
<1>2. CASE UpdStampLock(t)
  <2>1. /\ pc[t] = "upd_stamp_lock" /\ pc'[t] = "upd_stamp_set" /\ frame'[t].tmp = frame[t].tmp
        /\ b # frame[t].tmp => eb'[b] = eb[b]
    BY <1>0, <1>2 DEF UpdStampLock, Move, Goto, FrameType
  <2> QED BY <1>1, <2>1 DEF StampHeld
<1>3. CASE UpdStampSet(t)
  <2>1. frame[t].op.ts \in Int /\ frame[t].stamp \in Int
    BY <1>0 DEF FrameType, OpType
  <2>2. b # frame[t].tmp /\ eb'[b] = eb[b]
    BY <1>0, <1>3, <2>1 DEF UpdStampSet, BlockType
  <2> QED BY <1>1, <2>2 DEF StampHeld
<1>4. CASE ~UpdStampLock(t) /\ ~UpdStampSet(t)
  <2>1. eb'[b].smallStamp = eb[b].smallStamp
    <3>1. CASE UpdCount(t) \/ UpdHigh(t)
      BY <1>0, <3>1 DEF UpdCount, UpdHigh, BlockType
    <3>2. CASE GrowNew(t)
      BY <3>2, GrowNewLink
    <3>3. CASE \/ Call(t) \/ EtypeBegin(t) \/ FindBlock(t) \/ FindScan(t) \/ FindNext(t) \/ Found(t)
               \/ SeekFirst(t) \/ SeekBlock(t) \/ SeekScan(t) \/ SeekNext(t) \/ GrowLock(t)
               \/ GrowRetry(t) \/ PushEbs(t) \/ PushBlock(t) \/ GrowLink(t)
      BY <3>3 DEF Call, EtypeBegin, FindBlock, FindScan, FindNext, Found, SeekFirst,
         SeekBlock, SeekScan, SeekNext, GrowLock, GrowRetry, PushEbs, PushBlock, GrowLink, shared
    <3>4. CASE \/ ClaimLock(t) \/ ClaimRead(t) \/ ClaimCheck(t) \/ ClaimRelease(t) \/ UpdLock(t)
               \/ UpdTest(t) \/ UpdWrite(t) \/ UpdFirst(t) \/ UpdDir(t) \/ UpdNewOut(t)
               \/ UpdStamp(t) \/ UpdRecent(t) \/ UpdUnlock(t) \/ UpdRestore(t)
      BY <3>4 DEF ClaimLock, ClaimRead, ClaimCheck, ClaimRelease, UpdLock, UpdTest, UpdWrite,
         UpdFirst, UpdDir, UpdNewOut, UpdStamp, UpdRecent, UpdUnlock, UpdRestore, shared
    <3> QED BY <1>4, <3>1, <3>2, <3>3, <3>4 DEF Step
  <2>2. pc[t] # "upd_stamp_set"
    BY <1>4 DEF Call, Step, Move, EtypeBegin, FindBlock, FindScan, FindNext, Found,
       SeekFirst, SeekBlock, SeekScan, SeekNext, ClaimLock, ClaimRead, ClaimCheck,
       ClaimRelease, UpdLock, UpdTest, UpdWrite, UpdCount, UpdHigh, UpdFirst, UpdDir,
       UpdNewOut, UpdStamp, UpdRecent, UpdUnlock, UpdRestore,
       GrowLock, GrowRetry, GrowNew, PushEbs, PushBlock, GrowLink
  <2> QED BY <1>1, <2>1, <2>2 DEF StampHeld
<1> QED BY <1>2, <1>3, <1>4

\* A thread takes a new block, and keeps it until the block is in the chain.
LEMMA GrowingKept ==
  ASSUME TypeInv, LinkInv, NEW t \in Threads, Call(t) \/ Step(t), ~GrowNew(t), ~GrowLink(t)
  PROVE  /\ Growing(t)' <=> Growing(t)
         /\ Growing(t) => frame'[t].tmp = frame[t].tmp /\ frame'[t].loc = frame[t].loc
<1>0. /\ pc \in [Threads -> Labels] /\ frame \in [Threads -> FrameType] /\ frame[t] \in FrameType
  BY Frames
<1>1. Growing(t) => pc[t] \in GrowLabels
  BY DEF LinkInv, PlaceOK
<1>2. CASE Stays(t)
  BY <1>1, <1>2, StaysInPlace, StaysLabel DEF Growing, GrowLabels, Updating
<1>3. CASE Moves(t)
  BY <1>3, MovesEffect
<1>4. CASE UpdUnlock(t)
  BY <1>0, <1>4 DEF UpdUnlock, Return, IdleFrame, FrameType, Growing
<1>5. CASE UpdRestore(t) \/ GrowLock(t) \/ GrowRetry(t)
  <2>1. pc[t] \notin GrowLabels
    BY <1>5 DEF UpdRestore, GrowLock, GrowRetry, Move, GrowLabels, Updating
  <2>2. frame'[t].then \in {"return", frame[t].then}
    BY <1>0, <1>5 DEF UpdRestore, GrowLock, GrowRetry, Return, IdleFrame, FrameType
  <2> QED BY <1>1, <2>1, <2>2 DEF Growing
<1>6. CASE PushEbs(t)
  BY <1>0, <1>6 DEF PushEbs, FrameType, Growing
<1> QED BY <1>2, <1>3, <1>4, <1>5, <1>6 DEF Step, Stays, Moves

LEMMA LinkHeldKept ==
  ASSUME TypeInv, LinkInv, LinkHeld, NEW t \in Threads, Call(t) \/ Step(t)
  PROVE  LinkHeld'
<1> SUFFICES ASSUME NEW b \in 0..MaxBlocks, link'[b] = MARKER
             PROVE  \E u \in Threads : HoldsLink(u)' /\ frame'[u].loc = b
  BY DEF LinkHeld
<1>0. /\ pc \in [Threads -> Labels] /\ frame \in [Threads -> FrameType] /\ frame[t] \in FrameType
      /\ link \in [0..MaxBlocks -> 0..MaxBlocks \cup {MARKER}] /\ MARKER \notin Int
      /\ frame[t].tmp \in 0..MaxBlocks /\ frame[t].loc \in 0..MaxBlocks /\ MaxBlocks \in Nat
  BY Frames
<1>1. \A u \in Threads \ {t} : /\ pc'[u] = pc[u] /\ frame'[u] = frame[u]
                               /\ HoldsLink(u)' <=> HoldsLink(u)
  BY Others DEF HoldsLink, Growing
<1>2. ASSUME link[b] = MARKER, HoldsLink(t) /\ frame[t].loc = b =>
                                 HoldsLink(t)' /\ frame'[t].loc = b
      PROVE  \E u \in Threads : HoldsLink(u)' /\ frame'[u].loc = b
  BY <1>1, <1>2 DEF LinkHeld
<1>3. CASE Stays(t) \/ Moves(t) \/ UpdUnlock(t) \/ UpdRestore(t) \/ PushEbs(t)
  <2>1. link' = link
    BY <1>3, StaysInPlace, MovesEffect, PushEbsLink DEF UpdUnlock, UpdRestore
  <2>2. pc[t] \notin {"grow_new", "grow_retry"} /\ ~GrowNew(t) /\ ~GrowLink(t)
    <3>1. CASE Stays(t)
      BY <3>1, StaysLabel DEF Updating, GrowNew, GrowLink, Move
    <3>2. CASE Moves(t) \/ UpdUnlock(t) \/ UpdRestore(t) \/ PushEbs(t)
      BY <3>2 DEF Moves, Call, EtypeBegin, FindNext, SeekFirst, SeekNext, UpdUnlock, UpdRestore,
         PushEbs, GrowNew, GrowLink, Move
    <3> QED BY <1>3, <3>1, <3>2
  <2> QED BY <1>2, <2>1, <2>2, GrowingKept DEF HoldsLink
<1>4. CASE GrowLock(t)
  <2>1. /\ pc'[t] \in {"grow_new", "grow_retry"} /\ frame'[t].loc = frame[t].loc
        /\ b # frame[t].loc => link'[b] = link[b]
    BY <1>0, <1>4 DEF GrowLock, Move, Goto, FrameType
  <2> QED BY <1>1, <2>1 DEF LinkHeld, HoldsLink
<1>5. CASE GrowRetry(t) \/ GrowLink(t)
  <2>1. link' = [link EXCEPT ![frame[t].loc] = frame[t].tmp]
    BY <1>5 DEF GrowRetry, GrowLink
  <2>2. b # frame[t].loc /\ link[b] = MARKER
    BY <1>0, <2>1
  <2> QED BY <1>2, <2>2
<1>6. CASE GrowNew(t)
  <2>1. link' = link /\ frame'[t].loc = frame[t].loc /\ Growing(t)'
    BY <1>0, <1>6 DEF GrowNew, FrameType, Growing
  <2> QED BY <1>2, <2>1 DEF HoldsLink
<1> QED BY <1>3, <1>4, <1>5, <1>6 DEF Step, Stays, Moves

-----------------------------------------------------------------------------
(* The edge type array.                                                    *)

\* Blocks are appended one at a time.
LEMMA OneGrows ==
  ASSUME TypeInv, LinkInv, NEW t \in Threads, NEW u \in Threads, Growing(t), Growing(u)
  PROVE  t = u
BY Frames DEF LinkInv, PlaceOK

LEMMA EtaKept ==
  ASSUME TypeInv, LinkInv, EtaOK, NEW t \in Threads, Call(t) \/ Step(t)
  PROVE  EtaOK'
<1>0. /\ pc \in [Threads -> Labels] /\ frame \in [Threads -> FrameType] /\ frame[t] \in FrameType
      /\ frame[t].tmp \in 0..MaxBlocks /\ frame[t].loc \in 0..MaxBlocks /\ MaxBlocks \in Nat
      /\ ebpool_tail \in Nat /\ ebpool_tail >= 1
      /\ eta \in [high : Nat, blocks : [0..MaxBlocks - 1 -> 0..MaxBlocks]]
  <2>1. eta \in [high : Nat, blocks : [0..MaxBlocks - 1 -> 0..MaxBlocks]]
    BY DEF TypeInv, TypeOK
  <2>2. ebpool_tail >= 1
    BY Frames
  <2> QED BY <2>1, <2>2, Frames
<1>1. \A u \in Threads \ {t} : /\ pc'[u] = pc[u] /\ frame'[u] = frame[u]
                               /\ Growing(u)' <=> Growing(u)
                               /\ Unlisted(u)' <=> Unlisted(u)
  BY Others DEF Growing, Unlisted
<1>2. /\ PlaceOK(t) /\ \A u \in Threads : pc[u] = "push_block" => Growing(u)
  BY DEF LinkInv, PlaceOK
<1>3. CASE GrowNew(t)
  <2>1. /\ \A u \in Threads \ {t} : ~Growing(u)
    BY <1>3, GrowNewLink
  <2>2. /\ pc[t] = "grow_new" /\ pc'[t] = "upd_lock" /\ ebpool_tail' = ebpool_tail + 1
        /\ eta' = eta /\ Growing(t)'
    BY <1>0, <1>3 DEF GrowNew, Move, Goto, Growing, FrameType
  <2>3. ~Growing(t)
    BY <1>2, <2>2 DEF PlaceOK, GrowLabels, Updating
  <2>4. eta.high = ebpool_tail - 1 /\ \A u \in Threads : pc[u] # "push_block"
    BY <1>2, <2>1, <2>3 DEF EtaOK, Unlisted
  <2>5. Unlisted(t)' /\ \A u \in Threads : pc'[u] # "push_block"
    BY <1>1, <2>2, <2>4 DEF Unlisted
  <2>6. eta'.high = ebpool_tail' - 2
    BY <1>0, <2>2, <2>4
  <2>7. \A i \in 0..MaxBlocks - 1 : i < eta'.high => eta'.blocks[i] = i + 1
    BY <2>2, <2>4 DEF EtaOK
  <2> QED BY <2>5, <2>6, <2>7 DEF EtaOK
<1>4. CASE PushEbs(t)
  <2>1. /\ pc[t] = "push_ebs" /\ pc'[t] = "push_block" /\ ebpool_tail' = ebpool_tail
        /\ eta' = [eta EXCEPT !.high = @ + 1] /\ frame'[t].place = eta.high
        /\ frame'[t].tmp = frame[t].tmp /\ frame'[t].then = frame[t].then
    BY <1>0, <1>4 DEF PushEbs, Move, Goto, FrameType
  <2>2. Growing(t) /\ Unlisted(t) /\ frame[t].tmp = ebpool_tail - 1
    BY <1>2, <2>1 DEF PlaceOK, Unlisted
  <2>3. eta.high = ebpool_tail - 2 /\ eta'.high = ebpool_tail - 1 /\ eta'.blocks = eta.blocks
    BY <1>0, <2>1, <2>2 DEF EtaOK
  <2>4. \A u \in Threads \ {t} : ~Growing(u) /\ pc[u] # "push_block"
    BY <1>2, <2>2, OneGrows
  <2>5. \A u \in Threads : ~Unlisted(u)'
    BY <1>1, <2>1, <2>4 DEF Unlisted
  <2>6. \A u \in Threads : pc'[u] = "push_block" => frame'[u].place = frame'[u].tmp - 1
    BY <1>0, <1>1, <2>1, <2>2, <2>3, <2>4
  <2>7. ASSUME NEW i \in 0..MaxBlocks - 1, i < eta'.high
        PROVE  \/ eta'.blocks[i] = i + 1
               \/ \E u \in Threads : pc'[u] = "push_block" /\ frame'[u].place = i
    <3>1. CASE i = eta.high
      BY <2>1, <3>1
    <3>2. CASE i < eta.high
      <4>1. \A u \in Threads : pc[u] # "push_block"
        BY <2>1, <2>4
      <4> QED BY <2>3, <3>2, <4>1 DEF EtaOK
    <3> QED BY <1>0, <2>3, <2>7, <3>1, <3>2
  <2> QED BY <2>1, <2>3, <2>5, <2>6, <2>7 DEF EtaOK
<1>5. CASE PushBlock(t)
  <2>1. /\ pc[t] = "push_block" /\ pc'[t] = "grow_link" /\ ebpool_tail' = ebpool_tail
        /\ eta' = [eta EXCEPT !.blocks[frame[t].place] = frame[t].tmp] /\ frame' = frame
    BY <1>0, <1>5 DEF PushBlock, Move, Goto
  <2>2. Growing(t) /\ ~Unlisted(t) /\ frame[t].place = frame[t].tmp - 1
    BY <1>2, <2>1 DEF PlaceOK, Unlisted, EtaOK
  <2>3. \A u \in Threads \ {t} : ~Growing(u) /\ pc[u] # "push_block" /\ ~Unlisted(u)
    BY <1>2, <2>2, OneGrows DEF Unlisted
  <2>4. eta.high = ebpool_tail - 1
    BY <2>2, <2>3 DEF EtaOK
  <2>5. /\ \A u \in Threads : ~Unlisted(u)'
        /\ \A u \in Threads : pc'[u] # "push_block"
    BY <1>1, <2>1, <2>3 DEF Unlisted
  <2>6. ASSUME NEW i \in 0..MaxBlocks - 1, i < eta'.high
        PROVE  eta'.blocks[i] = i + 1
    <3>1. eta'.blocks = [eta.blocks EXCEPT ![frame[t].place] = frame[t].tmp] /\ eta'.high = eta.high
      BY <1>0, <2>1
    <3>2. eta.blocks \in [0..MaxBlocks - 1 -> 0..MaxBlocks]
      BY <1>0
    <3>3. CASE i = frame[t].place
      BY <1>0, <2>2, <3>1, <3>2, <3>3
    <3>4. CASE i # frame[t].place
      <4>1. eta.blocks[i] = i + 1
        BY <2>3, <2>6, <3>1, <3>4 DEF EtaOK
      <4> QED BY <3>1, <3>2, <3>4, <4>1
    <3> QED BY <3>3, <3>4
  <2> QED BY <1>0, <2>1, <2>4, <2>5, <2>6 DEF EtaOK
<1>6. ASSUME ~GrowNew(t), ~PushEbs(t), ~PushBlock(t)
      PROVE  EtaOK'
  <2>1. eta' = eta /\ ebpool_tail' = ebpool_tail
    <3>1. CASE Stays(t)
      BY <1>6, <3>1 DEF Stays, FindBlock, FindScan, Found, SeekBlock, SeekScan, ClaimLock, ClaimRead,
         ClaimCheck, ClaimRelease, UpdLock, UpdTest, UpdWrite, UpdCount, UpdHigh, UpdFirst, UpdDir,
         UpdNewOut, UpdStamp, UpdStampLock, UpdStampSet, UpdRecent, shared
    <3>2. CASE Moves(t) \/ UpdUnlock(t) \/ UpdRestore(t) \/ GrowLock(t) \/ GrowRetry(t) \/ GrowLink(t)
      BY <3>2 DEF Moves, Call, EtypeBegin, FindNext, SeekFirst, SeekNext, UpdUnlock, UpdRestore,
         GrowLock, GrowRetry, GrowLink, shared
    <3> QED BY <1>6, <3>1, <3>2 DEF Step, Stays, Moves
  <2>2. pc[t] # "push_block" /\ pc'[t] # "push_block"
    <3>1. CASE Stays(t)
      <4>1. pc'[t] # "push_block"
        BY <3>1, StaysLabel DEF Updating
      <4>2. pc[t] # "push_block"
        BY <1>6, <3>1 DEF Stays, FindBlock, FindScan, Found, SeekBlock, SeekScan,
           ClaimLock, ClaimRead, ClaimCheck, ClaimRelease, UpdLock, UpdTest, UpdWrite, UpdCount,
           UpdHigh, UpdFirst, UpdDir, UpdNewOut, UpdStamp, UpdStampLock, UpdStampSet, UpdRecent, Move
      <4> QED BY <4>1, <4>2
    <3>2. CASE Moves(t) \/ GrowLock(t) \/ GrowRetry(t) \/ GrowLink(t)
      BY <1>0, <3>2 DEF Moves, Call, EtypeBegin, FindNext, SeekFirst, SeekNext, Return,
         GrowLock, GrowRetry, GrowLink, Move, Goto
    <3>3. CASE UpdUnlock(t) \/ UpdRestore(t)
      BY <1>0, <3>3 DEF UpdUnlock, UpdRestore, Return, Goto, FrameType
    <3> QED BY <1>6, <3>1, <3>2, <3>3 DEF Step, Stays, Moves
  <2>3. Unlisted(t)' <=> Unlisted(t)
    <3>1. CASE GrowLink(t)
      BY <1>0, <3>1 DEF GrowLink, Move, Return, Unlisted, Growing, IdleFrame
    <3>2. CASE ~GrowLink(t)
      <4>1. Growing(t)' <=> Growing(t)
        BY <1>6, <3>2, GrowingKept
      <4>2. pc'[t] # "grow_link"
        <5>1. CASE Stays(t)
          BY <2>2, <5>1, StaysLabel
        <5>2. CASE Moves(t) \/ GrowLock(t) \/ GrowRetry(t)
          BY <1>0, <5>2 DEF Moves, Call, EtypeBegin, FindNext, SeekFirst, SeekNext,
             GrowLock, GrowRetry, Move, Goto
        <5>3. CASE UpdUnlock(t) \/ UpdRestore(t)
          BY <1>0, <5>3 DEF UpdUnlock, UpdRestore, Return, Goto, FrameType
        <5> QED BY <1>6, <3>2, <5>1, <5>2, <5>3 DEF Step, Stays, Moves
      <4>3. pc[t] # "grow_link"
        BY <3>2 DEF Call, Step, Move, EtypeBegin, FindBlock, FindScan, FindNext, Found,
           SeekFirst, SeekBlock, SeekScan, SeekNext, ClaimLock, ClaimRead, ClaimCheck,
           ClaimRelease, UpdLock, UpdTest, UpdWrite, UpdCount, UpdHigh, UpdFirst, UpdDir,
           UpdNewOut, UpdStamp, UpdStampLock, UpdStampSet, UpdRecent, UpdUnlock, UpdRestore,
           GrowLock, GrowRetry, GrowNew, PushEbs, PushBlock
      <4> QED BY <2>2, <4>1, <4>2, <4>3 DEF Unlisted
    <3> QED BY <3>1, <3>2
  <2> QED BY <1>1, <2>1, <2>2, <2>3 DEF EtaOK
<1> QED BY <1>3, <1>4, <1>5, <1>6

-----------------------------------------------------------------------------
(* The counting invariant.                                                 *)

LEMMA InitCounts == Init => CountInv
<1> SUFFICES ASSUME NEW c \in InitContents, NEW old \in OldWords, InitWith(c, old) PROVE CountInv
  BY DEF Init
<1> USE ConstantsAssumption
<1> DEFINE n == Cardinality(Filled(c))
<1> DEFINE W == {s \in Slots : edge[s].dirs # {}}
<1>1. /\ c \in Seq(Vertices \cup {Blank}) /\ Len(c) \in 0..EBSize /\ DOMAIN c = 1..Len(c)
      /\ (c = <<>> <=> Len(c) = 0)
  OBVIOUS
<1>2. \A t \in Threads : pc[t] = "idle" /\ frame[t].then = "return"
  BY DEF InitWith, IdleFrame
<1>3. \A s : ~InHand(s, {"upd_count"}) /\ ~InHand(s, {"upd_count", "upd_newout"})
  BY <1>2 DEF InHand
<1>4. \A s \in Slots : /\ s[1] \in Blocks /\ s[2] \in 0..EBSize - 1 /\ s = <<s[1], s[2]>>
  BY DEF Slots, Indices
<1>5. ASSUME NEW s \in Slots, s[1] = 1, s[2] < Len(c)
      PROVE  /\ edge[s].dirs = IF s[2] + 1 \in Filled(c) THEN {"OUT"} ELSE {}
             /\ edge[s].timeFirst \in Int
  <2>1. edge[s] = [neighbor |-> c[s[2] + 1],
                   dirs |-> IF c[s[2] + 1] = Blank THEN {} ELSE {"OUT"},
                   weight |-> old.slot[s[2]].weight,
                   timeFirst |-> old.slot[s[2]].timeFirst,
                   timeRecent |-> old.slot[s[2]].timeRecent]
    BY <1>5 DEF InitWith, InitEdge
  <2>2. s[2] + 1 \in DOMAIN c
    BY <1>1, <1>4, <1>5
  <2>3. old.slot[s[2]].timeFirst \in Int
    BY OldTypes DEF Slots
  <2> QED BY <2>1, <2>2, <2>3 DEF Filled
<1>6. ASSUME NEW s \in Slots, ~(s[1] = 1 /\ s[2] < Len(c))
      PROVE  edge[s] = ZeroEdge
  BY <1>6 DEF InitWith, InitEdge
<1>7. \A s \in Slots : edge[s].dirs = IF s[1] = 1 /\ s[2] + 1 \in Filled(c) THEN {"OUT"} ELSE {}
  <2> HIDE DEF n, W
  <2> SUFFICES ASSUME NEW s \in Slots
               PROVE  edge[s].dirs = IF s[1] = 1 /\ s[2] + 1 \in Filled(c) THEN {"OUT"} ELSE {}
    OBVIOUS
  <2>1. CASE s[1] = 1 /\ s[2] < Len(c)
    BY <1>5, <2>1
  <2>2. CASE ~(s[1] = 1 /\ s[2] < Len(c))
    <3>1. edge[s].dirs = {}
      BY <1>6, <2>2 DEF ZeroEdge
    <3>2. \A i \in Filled(c) : i \in 1..Len(c)
      BY <1>1 DEF Filled
    <3>3. s[1] # 1 \/ s[2] + 1 \notin Filled(c)
      BY <1>1, <1>4, <2>2, <3>2
    <3> QED BY <3>1, <3>3
  <2> QED BY <2>1, <2>2
<1>8. Cardinality(W) = n
  <2> DEFINE at == [i \in Filled(c) |-> <<1, i - 1>>]
  <2>1. \A i \in Filled(c) : i \in Nat /\ i >= 1 /\ i - 1 \in Indices /\ 1 \in Blocks
    BY <1>1 DEF Filled, Indices, Blocks
  <2>2. \A i \in Filled(c) : <<1, i - 1>> \in W
    <3> SUFFICES ASSUME NEW i \in Filled(c) PROVE <<1, i - 1>> \in W
      OBVIOUS
    <3>1. <<1, i - 1>> \in Slots
      BY <2>1 DEF Slots
    <3>2. i - 1 + 1 = i
      BY <2>1
    <3> QED BY <1>7, <3>1, <3>2
  <2>3. \A s \in W : s[1] = 1 /\ s[2] + 1 \in Filled(c) /\ s = <<1, (s[2] + 1) - 1>>
    <3> SUFFICES ASSUME NEW s \in W
                 PROVE  s[1] = 1 /\ s[2] + 1 \in Filled(c) /\ s = <<1, (s[2] + 1) - 1>>
      OBVIOUS
    <3>1. s[1] = 1 /\ s[2] + 1 \in Filled(c)
      BY <1>7
    <3>2. s = <<s[1], s[2]>> /\ s[2] \in Int
      BY <1>4
    <3> QED BY <3>1, <3>2
  <2>4. at \in Bijection(Filled(c), W)
    <3>1. at \in [Filled(c) -> W]
      BY <2>2
    <3>2. \A i, j \in Filled(c) : at[i] = at[j] => i = j
      BY <2>1
    <3>3. \A s \in W : \E i \in Filled(c) : at[i] = s
      BY <2>3
    <3> HIDE DEF W, at
    <3> QED BY <3>1, <3>2, <3>3 DEF Bijection, Injection, Surjection, IsInjective
  <2>5. IsFiniteSet(Filled(c))
    <3>1. IsFiniteSet(1..Len(c))
      BY <1>1, FS_Interval
    <3> QED BY <1>1, <3>1, FS_Subset DEF Filled
  <2> HIDE DEF at, W
  <2> QED BY <2>4, <2>5, FS_Bijection DEF ExistsBijection
<1>9. CountsOK
  <2>1. CountedDir("OUT") = W /\ Counted = W /\ CountedDir("IN") = {}
    BY <1>3, <1>7 DEF CountedDir, Counted, Uncounted
  <2>2. vertex = [inDegree |-> 0, outDegree |-> n, degree |-> n]
    BY DEF InitWith
  <2>3. Cardinality({}) = 0
    BY FS_EmptySet
  <2>4. CountedIn(1) = W
    BY <1>7, <2>1 DEF CountedIn
  <2>5. \A b \in Blocks : b # 1 => CountedIn(b) = {}
    BY <1>7, <2>1 DEF CountedIn
  <2>6. c = <<>> => n = 0
    BY <1>1, <2>3 DEF Filled
  <2>7. \A b \in Blocks : eb[b].numEdges = IF b = 1 THEN n ELSE 0
    BY <2>6 DEF InitWith, InitBlock, EmptyBlock
  <2> HIDE DEF W, n
  <2> QED BY <1>8, <2>1, <2>2, <2>3, <2>4, <2>5, <2>7 DEF CountsOK
<1>10. CleanOK
  <2>1. \A b \in Blocks : eb[b].high = IF b = 1 THEN Len(c) ELSE 0
    BY <1>1 DEF InitWith, InitBlock, EmptyBlock
  <2>2. ASSUME NEW s \in Slots, s[2] >= eb[s[1]].high PROVE ~(s[1] = 1 /\ s[2] < Len(c))
    BY <1>1, <1>4, <2>1, <2>2
  <2> QED BY <1>6, <2>2 DEF CleanOK
<1>11. TimeHeld
  <2>1. \A s \in Slots : edge[s].timeFirst \in Int
    BY <1>5, <1>6 DEF ZeroEdge
  <2> QED BY <2>1 DEF TimeHeld
<1>12. StampHeld
  <2>1. \A b \in Blocks : eb[b].smallStamp \in Int
    BY OldTypes DEF InitWith, InitBlock, EmptyBlock
  <2> QED BY <2>1 DEF StampHeld
<1>13. LinkHeld
  <2>1. \A b \in 0..MaxBlocks : link[b] \in {0, 1}
    BY DEF InitWith
  <2> QED BY <2>1 DEF LinkHeld
<1>14. EtaOK
  <2>1. \A t \in Threads : ~Unlisted(t) /\ pc[t] # "push_block"
    BY <1>2 DEF Unlisted, Growing
  <2>2. /\ eta.high \in {0, 1} /\ eta.high = ebpool_tail - 1
        /\ \A i \in 0..MaxBlocks - 1 : eta.blocks[i] = IF i = 0 THEN eta.high ELSE 0
    BY DEF InitWith
  <2> QED BY <2>1, <2>2 DEF EtaOK
<1>15. \A t \in Threads : WrittenOK(t) /\ ThenOK(t)
  BY <1>2 DEF WrittenOK, ThenOK
<1> QED BY <1>9, <1>10, <1>11, <1>12, <1>13, <1>14, <1>15 DEF CountInv

LEMMA NextCounts ==
  TypeInv /\ TypeInv' /\ LinkInv /\ SlotLock /\ SlotInv /\ CountInv /\ [Next]_vars => CountInv'
<1> SUFFICES ASSUME TypeInv, TypeInv', LinkInv, SlotLock, SlotInv, CountInv, [Next]_vars
             PROVE  CountInv'
  OBVIOUS
<1>1. CASE UNCHANGED vars
  <2>1. CountsOK'
    BY <1>1 DEF vars, CountInv, CountsOK, CountedDir, Counted, CountedIn, InHand, Slot
  <2>2. CleanOK' /\ TimeHeld' /\ StampHeld' /\ LinkHeld'
    BY <1>1 DEF vars, CountInv, CleanOK, TimeHeld, StampHeld, LinkHeld, InHand, Slot, HoldsTime,
       HoldsLink, Growing
  <2>3. EtaOK' /\ \A t \in Threads : WrittenOK(t)' /\ ThenOK(t)'
    BY <1>1 DEF vars, CountInv, EtaOK, WrittenOK, ThenOK, Unlisted, Growing, Slot, Dir
  <2> QED BY <2>1, <2>2, <2>3 DEF CountInv
<1>2. ASSUME NEW t \in Threads, Call(t) \/ Step(t) PROVE CountInv'
  <2>1. /\ CountsOK /\ CleanOK /\ TimeHeld /\ StampHeld /\ LinkHeld /\ EtaOK
        /\ \A u \in Threads : WrittenOK(u) /\ ThenOK(u)
    BY DEF CountInv
  <2>2. CountsOK'
    BY <1>2, <2>1, StepCounts
  <2>3. CleanOK'
    BY <1>2, <2>1, CleanKept
  <2>4. TimeHeld'
    BY <1>2, <2>1, TimeKept
  <2>5. StampHeld' /\ LinkHeld'
    BY <1>2, <2>1, StampKept, LinkHeldKept
  <2>6. EtaOK'
    BY <1>2, <2>1, EtaKept
  <2>7. \A u \in Threads : WrittenOK(u)'
    BY <1>2, <2>1, WrittenKept
  <2>8. \A u \in Threads : ThenOK(u)'
    BY <1>2, <2>1, ThenKept
  <2> QED BY <2>2, <2>3, <2>4, <2>5, <2>6, <2>7, <2>8 DEF CountInv
<1> QED BY <1>1, <1>2 DEF Next, Finished

\* The counters, the words and the edge type array agree with the slots, up to what
\* the threads inside an update have yet to do.
THEOREM CountInvariant == Spec => []CountInv
BY InitCounts, NextCounts, TypeInvariant, LinkInvariant, SlotLockHolds, SlotInvariant, PTL DEF Spec

\* Nobody has anything in hand when all threads are idle.
LEMMA AtRest ==
  ASSUME TypeInv, LinkInv, SlotLock, CountInv, Quiescent
  PROVE  /\ vertex = [outDegree |-> Cardinality(WithDir("OUT")),
                      inDegree |-> Cardinality(WithDir("IN")),
                      degree |-> Cardinality(Occupied)]
         /\ \A b \in Blocks : eb[b].numEdges = Cardinality(InBlock(b))
         /\ \A s \in Slots :
              /\ s[2] >= eb[s[1]].high => edge[s] = ZeroEdge
              /\ MARKER \notin {edge[s].weight, edge[s].timeFirst, eb[s[1]].smallStamp}
         /\ \A b \in 0..MaxBlocks : link[b] = IF b + 1 < ebpool_tail THEN b + 1 ELSE 0
         /\ {eta.blocks[i] : i \in 0..eta.high - 1} = 1..ebpool_tail - 1
         /\ eta.high = ebpool_tail - 1
<1>0. /\ \A t \in Threads : pc[t] = "idle"
      /\ CountsOK /\ CleanOK /\ TimeHeld /\ StampHeld /\ LinkHeld /\ EtaOK
      /\ \A t \in Threads : PlaceOK(t) /\ ThenOK(t)
  BY DEF Quiescent, CountInv, LinkInv
<1>1. \A s : /\ ~InHand(s, {"upd_count"}) /\ ~InHand(s, {"upd_count", "upd_newout"})
             /\ ~InHand(s, Claiming)
  BY <1>0 DEF InHand, Claiming
<1>2. CountedDir("OUT") = WithDir("OUT") /\ CountedDir("IN") = WithDir("IN") /\ Counted = Occupied
  BY <1>1 DEF CountedDir, Counted, Uncounted, WithDir, Occupied
<1>3. \A b \in Blocks : CountedIn(b) = InBlock(b)
  BY <1>2 DEF CountedIn, InBlock
<1>4. \A t \in Threads : ~HoldsTime(t) /\ ~HoldsLink(t) /\ ~Growing(t)
  <2>1. \A t \in Threads : frame[t].then # "restore" /\ ~Growing(t)
    BY <1>0 DEF ThenOK, PlaceOK, GrowLabels, Updating
  <2> QED BY <1>0, <2>1 DEF HoldsTime, HoldsLink
<1>5. vertex = [outDegree |-> Cardinality(WithDir("OUT")),
                inDegree |-> Cardinality(WithDir("IN")),
                degree |-> Cardinality(Occupied)]
  <2>1. vertex \in [inDegree : Nat, outDegree : Nat, degree : Nat]
    BY DEF TypeInv, TypeOK
  <2> QED BY <1>0, <1>2, <2>1 DEF CountsOK
<1>6. \A b \in Blocks : eb[b].numEdges = Cardinality(InBlock(b))
  BY <1>0, <1>3 DEF CountsOK
<1>7. ASSUME NEW s \in Slots
      PROVE  /\ s[2] >= eb[s[1]].high => edge[s] = ZeroEdge
             /\ MARKER \notin {edge[s].weight, edge[s].timeFirst, eb[s[1]].smallStamp}
  <2>1. s[1] \in Blocks
    BY DEF Slots
  <2>2. edge[s].weight # MARKER
    BY <1>0 DEF SlotLock, Updating
  <2>3. edge[s].timeFirst # MARKER
    BY <1>0, <1>4 DEF TimeHeld
  <2>4. eb[s[1]].smallStamp # MARKER
    BY <1>0, <2>1 DEF StampHeld
  <2> QED BY <1>0, <1>1, <2>2, <2>3, <2>4 DEF CleanOK
<1>8. \A b \in 0..MaxBlocks : link[b] = IF b + 1 < ebpool_tail THEN b + 1 ELSE 0
  <2>1. \A b \in 0..MaxBlocks : link[b] # MARKER
    BY <1>0, <1>4 DEF LinkHeld
  <2>2. \A b \in 0..MaxBlocks : link[b] < ebpool_tail
    BY <2>1 DEF TypeInv, CursorOK
  <2>3. \A b \in 0..MaxBlocks : link[b] \in {0, b + 1} /\ (link[b] = 0 => b >= ebpool_tail - 1)
    BY <2>1 DEF LinkInv, ChainOK
  <2>4. ebpool_tail \in Nat /\ MaxBlocks \in Nat
    BY Frames
  <2> QED BY <2>2, <2>3, <2>4
<1>9. eta.high = ebpool_tail - 1
  BY <1>0, <1>4 DEF EtaOK, Unlisted
<1>10. {eta.blocks[i] : i \in 0..eta.high - 1} = 1..ebpool_tail - 1
  <2>1. ebpool_tail \in 1..MaxBlocks + 1 /\ MaxBlocks \in Nat
    BY Frames
  <2>2. \A i \in 0..eta.high - 1 : eta.blocks[i] = i + 1
    <3> SUFFICES ASSUME NEW i \in 0..eta.high - 1 PROVE eta.blocks[i] = i + 1
      OBVIOUS
    <3>1. i \in 0..MaxBlocks - 1 /\ i < eta.high
      BY <1>9, <2>1
    <3> QED BY <1>0, <3>1 DEF EtaOK
  <2>3. \A b \in 1..ebpool_tail - 1 : b - 1 \in 0..eta.high - 1 /\ eta.blocks[b - 1] = b
    BY <1>9, <2>1, <2>2
  <2>4. \A i \in 0..eta.high - 1 : eta.blocks[i] \in 1..ebpool_tail - 1
    BY <1>9, <2>1, <2>2
  <2> QED BY <2>3, <2>4
<1> QED BY <1>5, <1>6, <1>7, <1>8, <1>9, <1>10

\* Between batches, when no update is under way, the counters equal what the slots hold,
\* no slot above a high water mark was written, every block is linked and is in the edge
\* type array once, and no word was left empty, however the updates were interleaved.
THEOREM ConsistentAtRestHolds == Spec => []ConsistentAtRest
<1>1. TypeInv /\ LinkInv /\ SlotLock /\ CountInv => ConsistentAtRest
  BY AtRest DEF ConsistentAtRest
<1> QED BY <1>1, TypeInvariant, LinkInvariant, SlotLockHolds, CountInvariant, PTL

-----------------------------------------------------------------------------
(* What a step writes to the slots.                                        *)

\* Only in its own slot, the direction and the neighbour in one step each, the
\* weight when it locks and unlocks it.
SlotWrites(t) ==
  \A s \in Slots :
    /\ s # Slot(t) => edge'[s] = edge[s]
    /\ pc[t] \notin {"upd_write", "upd_dir"} =>
         edge'[s].dirs = edge[s].dirs /\ edge'[s].neighbor = edge[s].neighbor
    /\ pc[t] \notin {"upd_lock", "upd_unlock"} => edge'[s].weight = edge[s].weight
    /\ pc[t] # "upd_recent" => edge'[s].timeRecent = edge[s].timeRecent

LEMMA Writes ==
  ASSUME TypeInv, LinkInv, NEW t \in Threads, Call(t) \/ Step(t)
  PROVE  SlotWrites(t)
<1>0. edge \in [Slots -> EdgeType]
  BY Frames
<1>1. CASE edge' = edge
  BY <1>1 DEF SlotWrites
<1>2. CASE UpdWrite(t)
  BY <1>0, <1>2 DEF UpdWrite, Move, SlotWrites, EdgeType
<1>3. CASE UpdDir(t)
  BY <1>0, <1>3 DEF UpdDir, SlotWrites, EdgeType
<1>4. CASE ClaimLock(t) \/ ClaimRelease(t) \/ UpdFirst(t) \/ UpdNewOut(t) \/ UpdRestore(t)
  BY <1>0, <1>4 DEF ClaimLock, ClaimRelease, UpdFirst, UpdNewOut, UpdRestore, SlotWrites, EdgeType
<1>5. CASE UpdLock(t) \/ UpdUnlock(t) \/ UpdRecent(t)
  BY <1>0, <1>5 DEF UpdLock, UpdUnlock, UpdRecent, Move, SlotWrites, EdgeType
<1>6. CASE GrowNew(t)
  BY <1>1, <1>6, GrowNewLink
<1>7. CASE Moves(t)
  BY <1>1, <1>7, MovesEffect
<1>8. CASE \/ FindBlock(t) \/ FindScan(t) \/ Found(t) \/ SeekBlock(t) \/ SeekScan(t)
           \/ ClaimRead(t) \/ ClaimCheck(t) \/ UpdTest(t) \/ UpdStamp(t) \/ PushBlock(t)
           \/ UpdCount(t) \/ UpdHigh(t) \/ UpdStampLock(t) \/ UpdStampSet(t)
           \/ GrowLock(t) \/ GrowRetry(t) \/ PushEbs(t) \/ GrowLink(t)
  <2>1. edge' = edge
    BY <1>8 DEF FindBlock, FindScan, Found, SeekBlock, SeekScan, ClaimRead, ClaimCheck, UpdTest,
       UpdStamp, PushBlock, UpdCount, UpdHigh, UpdStampLock, UpdStampSet, GrowLock, GrowRetry,
       PushEbs, GrowLink, shared
  <2> QED BY <1>1, <2>1
<1> QED BY <1>2, <1>3, <1>4, <1>5, <1>6, <1>7, <1>8 DEF Step, Moves

-----------------------------------------------------------------------------
(* The mode of an update, and what the slot it takes holds.                *)

\* A slot without an edge has the words that were left in it, or a thread has
\* taken it.
UnsetOK ==
  \A s \in Slots : edge[s].dirs = {} /\ edge[s].weight # MARKER =>
    WordsOf(edge[s]) \in Unset

\* What was left in the slot t has taken: the weight as t found it.
Leftover(t) == [weight |-> frame[t].weight, recent |-> edge[Slot(t)].timeRecent]

\* A new edge is written with SET whatever the call asked for, a known one as the
\* call asked for; only OUT updates go on to the timestamps.
ModeOK(t) ==
  /\ pc[t] \in {"upd_lock", "upd_test"} =>
       frame[t].mode = IF edge[Slot(t)].dirs = {} THEN "SET" ELSE frame[t].op.mode
  /\ pc[t] = "upd_write" => frame[t].mode = "SET"
  /\ pc[t] = "upd_dir" => frame[t].mode = frame[t].op.mode
  /\ pc[t] \in {"upd_test", "upd_write"} /\ edge[Slot(t)].dirs = {} => Leftover(t) \in Unset
  /\ pc[t] \in {"upd_newout", "upd_stamp", "upd_stamp_lock", "upd_stamp_set", "upd_recent"} =>
       Dir(t) = "OUT"
  /\ pc[t] = "upd_unlock" /\ Dir(t) = "OUT" => edge[Slot(t)].timeRecent = frame[t].op.ts

UpdateInv == UnsetOK /\ \A t \in Threads : ModeOK(t)

LEMMA UnsetSame == Unset' = Unset
BY DEF Unset, WordsOf, InitEdge, ZeroEdge

LEMMA InitUpdate == Init => UpdateInv
<1> SUFFICES ASSUME NEW c \in InitContents, NEW old \in OldWords, InitWith(c, old) PROVE UpdateInv
  BY DEF Init
<1>1. \A t \in Threads : pc[t] = "idle"
  BY DEF InitWith
<1>2. \A t \in Threads : ModeOK(t)
  BY <1>1 DEF ModeOK
<1>3. ASSUME NEW s \in Slots, edge[s].dirs = {}
      PROVE  WordsOf(edge[s]) \in Unset
  <2>1. edge = InitEdge(c, old)
    BY DEF InitWith
  <2> DEFINE Holes(c1, old1) ==
         {WordsOf(InitEdge(c1, old1)[r]) : r \in {q \in Slots : InitEdge(c1, old1)[q].dirs = {}}}
  <2>2. WordsOf(edge[s]) \in Holes(c, old)
    BY <1>3, <2>1
  <2>3. Unset = {WordsOf(ZeroEdge)} \cup UNION {Holes(c1, old1) : c1 \in InitContents, old1 \in OldWords}
    BY DEF Unset
  <2> HIDE DEF Holes
  <2> QED BY <2>2, <2>3
<1> QED BY <1>2, <1>3 DEF UpdateInv, UnsetOK

\* Whoever takes a slot without an edge fills it before it lets go of the weight.
LEMMA UnsetKept ==
  ASSUME TypeInv, LinkInv, SlotInv, UnsetOK, NEW t \in Threads, Call(t) \/ Step(t)
  PROVE  UnsetOK'
<1> SUFFICES ASSUME NEW s \in Slots, edge'[s].dirs = {}, edge'[s].weight # MARKER
             PROVE  /\ edge[s].weight # MARKER /\ edge'[s].weight = edge[s].weight
                    /\ edge'[s].timeRecent = edge[s].timeRecent
  <2>1. Unset' = Unset
    BY UnsetSame
  <2>2. \A s \in Slots : edge'[s].dirs = {} => edge[s].dirs = {}
    BY DirsKept DEF Occupied
  <2> QED BY <2>1, <2>2 DEF UnsetOK, WordsOf
<1>0. edge \in [Slots -> EdgeType]
  BY Frames
<1>1. SlotWrites(t)
  BY Writes
<1>2. edge[s].dirs = {}
  BY DirsKept DEF Occupied
<1>4. CASE pc[t] \notin {"upd_lock", "upd_unlock", "upd_recent"}
  BY <1>1, <1>4 DEF SlotWrites
<1>5. CASE pc[t] \in {"upd_unlock", "upd_recent"}
  <2>1. s # Slot(t)
    BY <1>2, <1>5 DEF SlotInv, UpdateOK, SettledLabels, Settled, Complete
  <2> QED BY <1>1, <2>1 DEF SlotWrites
<1>6. CASE pc[t] = "upd_lock"
  <2>1. UpdLock(t)
    BY <1>6 DEF Call, Step, Move, EtypeBegin, FindBlock, FindScan, FindNext, Found,
       SeekFirst, SeekBlock, SeekScan, SeekNext, ClaimLock, ClaimRead, ClaimCheck,
       ClaimRelease, UpdTest, UpdWrite, UpdCount, UpdHigh, UpdFirst, UpdDir,
       UpdNewOut, UpdStamp, UpdStampLock, UpdStampSet, UpdRecent, UpdUnlock, UpdRestore,
       GrowLock, GrowRetry, GrowNew, PushEbs, PushBlock, GrowLink
  <2>2. edge'[s].weight \in {edge[s].weight, MARKER}
    BY <1>0, <2>1 DEF UpdLock, EdgeType
  <2>3. edge'[s].timeRecent = edge[s].timeRecent
    BY <1>1, <1>6 DEF SlotWrites
  <2> QED BY <2>2, <2>3
<1> QED BY <1>4, <1>5, <1>6

LEMMA OthersMode ==
  ASSUME TypeInv, LinkInv, SlotLock, SlotInv, NEW t \in Threads, Call(t) \/ Step(t),
         NEW u \in Threads \ {t}, ModeOK(u)
  PROVE  ModeOK(u)'
<1>1. pc'[u] = pc[u] /\ frame'[u] = frame[u] /\ Slot(u)' = Slot(u) /\ Dir(u)' = Dir(u)
  BY Others DEF Slot, Dir
<1>2. ASSUME pc[u] \in {"upd_lock", "upd_test", "upd_write"}
      PROVE  edge'[Slot(u)].dirs = {} <=> edge[Slot(u)].dirs = {}
  <2>1. Slot(u) \in Slots
    BY <1>2, SlotTypes DEF AtSlotLabels, InBlockLabels, Labels
  <2> QED BY <1>2, <2>1, UnfilledKept, DirsKept DEF Occupied
<1>3. ASSUME pc[u] \in {"upd_unlock", "upd_test", "upd_write"}
      PROVE  edge'[Slot(u)].timeRecent = edge[Slot(u)].timeRecent
  <2>1. Slot(u) \in Slots
    BY <1>3, UpdatingSlot DEF Updating
  <2>2. pc[t] = "upd_recent" => Slot(u) # Slot(t)
    BY <1>3 DEF SlotLock, Updating
  <2> QED BY <2>1, <2>2, Writes DEF SlotWrites
<1>4. pc[u] \in {"upd_test", "upd_write"} => Leftover(u)' = Leftover(u)
  BY <1>1, <1>3 DEF Leftover
<1>5. Unset' = Unset
  BY UnsetSame
<1> QED BY <1>1, <1>2, <1>3, <1>4, <1>5 DEF ModeOK

\* How a thread comes to the slot it updates.
LEMMA StartsMode ==
  ASSUME TypeInv, LinkInv, SlotInv, NEW t \in Threads, Found(t) \/ ClaimCheck(t) \/ GrowNew(t)
  PROVE  ModeOK(t)'
<1>0. /\ pc \in [Threads -> Labels] /\ frame \in [Threads -> FrameType] /\ frame[t] \in FrameType
  BY Frames
<1>1. CASE Found(t)
  <2>1. /\ pc[t] = "found" /\ pc'[t] = "upd_lock" /\ edge' = edge /\ Slot(t)' = Slot(t)
        /\ frame'[t].mode = frame'[t].op.mode
    BY <1>0, <1>1 DEF Found, Move, Goto, shared, Slot, FrameType
  <2>2. edge[Slot(t)].dirs # {}
    BY <2>1 DEF SlotInv, UpdateOK, SettledLabels, Settled, Complete
  <2> QED BY <2>1, <2>2 DEF ModeOK
<1>2. CASE ClaimCheck(t)
  <2>1. pc[t] = "claim_check" /\ edge' = edge /\ Slot(t)' = Slot(t) /\ Slot(t) \in Slots
    BY <1>0, <1>2, CheckFrame, SlotTypes DEF ClaimCheck, shared, Slot, AtSlotLabels, InBlockLabels, Labels
  <2>2. CASE Free(t)
    <3>1. pc'[t] = "upd_lock" /\ frame'[t].mode = "SET"
      <4>1. /\ pc' = [pc EXCEPT ![t] = "upd_lock"]
            /\ frame' = [frame EXCEPT ![t].endk = eb[frame[t].tmp].high, ![t].mode = "SET",
                                      ![t].then = "return", ![t].ret = 1]
        BY <1>2, <2>2 DEF ClaimCheck, Goto
      <4> QED BY <1>0, <4>1 DEF FrameType
    <3>2. edge[Slot(t)].dirs = {}
      BY <2>1, <2>2, ClaimedFree
    <3> QED BY <2>1, <3>1, <3>2 DEF ModeOK
  <2>3. CASE ~Free(t) /\ frame[t].seen = Dest(t)
    <3>1. pc'[t] = "upd_lock" /\ frame'[t].mode = frame'[t].op.mode
      <4>1. /\ pc' = [pc EXCEPT ![t] = "upd_lock"]
            /\ frame' = [frame EXCEPT ![t].endk = eb[frame[t].tmp].high,
                                      ![t].mode = frame[t].op.mode,
                                      ![t].then = "restore", ![t].ret = 0]
        BY <1>2, <2>3 DEF ClaimCheck, Goto
      <4>2. frame'[t].op = frame[t].op
        BY <1>0, <1>2, CheckFrame
      <4>3. frame'[t].mode = frame[t].op.mode
        BY <1>0, <4>1 DEF FrameType
      <4> QED BY <1>0, <4>1, <4>2, <4>3
    <3>2. frame[t].seen = edge[Slot(t)].neighbor /\ frame[t].k < eb[frame[t].tmp].high
      <4>1. frame[t].k \in Int /\ eb[frame[t].tmp].high \in Int
        BY <2>1, AtThread, AtBlock DEF FrameType, BlockType, InBlockLabels, Labels
      <4> QED BY <2>1, <2>3, <4>1 DEF SlotInv, SearchOK, Free
    <3>3. edge[Slot(t)].dirs # {}
      <4>1. Slot(t)[1] = frame[t].tmp /\ Slot(t)[2] = frame[t].k
        BY DEF Slot
      <4> QED BY <2>1, <2>3, <3>2, <4>1 DEF SlotInv, SlotsOK, Free
    <3> QED BY <2>1, <3>1, <3>3 DEF ModeOK
  <2>4. CASE ~Free(t) /\ frame[t].seen # Dest(t)
    <3>1. pc'[t] = "claim_release"
      BY <1>0, <1>2, <2>4 DEF ClaimCheck, Goto
    <3> QED BY <3>1 DEF ModeOK
  <2> QED BY <2>2, <2>3, <2>4
<1>3. CASE GrowNew(t)
  <2>1. /\ pc'[t] = "upd_lock" /\ frame'[t].mode = "SET" /\ Slot(t)' = <<ebpool_tail, 0>>
        /\ ebpool_tail \in Blocks
    BY <1>0, <1>3, Frames DEF GrowNew, Move, Goto, FrameType, Slot, Blocks
  <2>2. edge'[<<ebpool_tail, 0>>] = ZeroEdge
    BY <1>3, <2>1, Frames DEF GrowNew, Slots, Indices
  <2> QED BY <2>1, <2>2 DEF ModeOK, ZeroEdge
<1> QED BY <1>1, <1>2, <1>3

LEMMA OwnMode ==
  ASSUME TypeInv, LinkInv, SlotLock, SlotInv, UpdateInv, NEW t \in Threads, Call(t) \/ Step(t)
  PROVE  ModeOK(t)'
<1>0. /\ pc \in [Threads -> Labels] /\ frame \in [Threads -> FrameType] /\ frame[t] \in FrameType
      /\ edge \in [Slots -> EdgeType]
  BY Frames
<1>1. UnsetOK /\ ModeOK(t)
  BY DEF UpdateInv
<1>2. CASE Found(t) \/ ClaimCheck(t) \/ GrowNew(t)
  BY <1>2, StartsMode
<1>3. CASE UpdLock(t)
  <2>1. /\ pc[t] = "upd_lock" /\ pc'[t] = "upd_test" /\ Slot(t)' = Slot(t) /\ Slot(t) \in Slots
        /\ frame'[t].mode = frame[t].mode /\ frame'[t].op = frame[t].op
        /\ frame'[t].weight = edge[Slot(t)].weight /\ edge[Slot(t)].weight # MARKER
    BY <1>0, <1>3, SlotTypes DEF UpdLock, Move, Goto, Slot, FrameType, AtSlotLabels, InBlockLabels, Labels
  <2>2. /\ edge'[Slot(t)].dirs = edge[Slot(t)].dirs
        /\ edge'[Slot(t)].timeRecent = edge[Slot(t)].timeRecent
    BY <2>1, Writes DEF SlotWrites
  <2>3. edge[Slot(t)].dirs = {} => Leftover(t)' \in Unset
    BY <1>1, <2>1, <2>2 DEF UnsetOK, WordsOf, Leftover
  <2> QED BY <1>1, <2>1, <2>2, <2>3, UnsetSame DEF ModeOK
<1>4. CASE UpdTest(t)
  <2>1. /\ pc[t] = "upd_test" /\ frame' = frame /\ edge' = edge /\ Slot(t)' = Slot(t)
        /\ pc'[t] = IF edge[Slot(t)].neighbor = Blank \/ frame[t].k >= eb[frame[t].tmp].high
                    THEN "upd_write" ELSE "upd_dir"
    BY <1>0, <1>4 DEF UpdTest, Move, Goto, shared, Slot
  <2>2. /\ Slot(t) \in Slots /\ Slot(t)[1] = frame[t].tmp /\ Slot(t)[2] = frame[t].k
        /\ frame[t].k \in Int /\ eb[frame[t].tmp].high \in Int /\ Dest(t) # Blank
    BY <2>1, SlotTypes, AtThread, AtBlock
       DEF FrameType, BlockType, AtSlotLabels, InBlockLabels, Labels, Slot
  <2>3. Settled(t) \/ Fillable(t)
    BY <2>1 DEF SlotInv, UpdateOK
  <2>4. pc'[t] = "upd_write" => edge[Slot(t)].dirs = {}
    BY <2>1, <2>2, <2>3 DEF Settled, Complete, Fillable
  <2>5. pc'[t] = "upd_dir" => edge[Slot(t)].dirs # {}
    BY <2>1, <2>2 DEF SlotInv, SlotsOK
  <2>6. pc'[t] = "upd_write" => Leftover(t)' \in Unset'
    <3>1. Leftover(t)' = Leftover(t)
      BY <2>1 DEF Leftover
    <3> QED BY <1>1, <2>1, <2>4, <3>1, UnsetSame DEF ModeOK
  <2> QED BY <1>1, <2>1, <2>4, <2>5, <2>6 DEF ModeOK
<1>5. CASE UpdDir(t)
  <2>1. /\ pc[t] = "upd_dir" /\ frame' = frame /\ Dir(t)' = Dir(t) /\ Dir(t) \in Directions
        /\ pc'[t] \in {"upd_newout", "upd_stamp", "upd_unlock"}
        /\ pc'[t] # "upd_unlock" => Dir(t) = "OUT"
        /\ pc'[t] = "upd_unlock" => Dir(t) # "OUT"
    BY <1>0, <1>5, AtThread DEF UpdDir, Goto, Dir, AfterDirection, Directions
  <2> QED BY <2>1 DEF ModeOK
<1>6. CASE UpdFirst(t)
  <2>1. /\ Dir(t)' = Dir(t)
        /\ pc'[t] = IF Dir(t) = "OUT" THEN "upd_stamp" ELSE "upd_unlock"
    BY <1>0, <1>6 DEF UpdFirst, Move, Goto, Dir, AfterDirection
  <2> QED BY <2>1 DEF ModeOK
<1>7. CASE UpdNewOut(t) \/ UpdStamp(t) \/ UpdStampSet(t)
  <2>1. /\ pc[t] \in {"upd_newout", "upd_stamp", "upd_stamp_set"} /\ Dir(t)' = Dir(t)
        /\ pc'[t] \in {"upd_stamp", "upd_stamp_lock", "upd_recent"}
    BY <1>0, <1>7 DEF UpdNewOut, UpdStamp, UpdStampSet, Move, Goto, Dir
  <2> QED BY <1>1, <2>1 DEF ModeOK
<1>8. CASE UpdStampLock(t)
  <2>1. /\ pc[t] = "upd_stamp_lock" /\ Dir(t)' = Dir(t) /\ pc'[t] = "upd_stamp_set"
    BY <1>0, <1>8 DEF UpdStampLock, Move, Goto, Dir, FrameType
  <2> QED BY <1>1, <2>1 DEF ModeOK
<1>9. CASE UpdRecent(t)
  <2>1. /\ pc[t] = "upd_recent" /\ pc'[t] = "upd_unlock" /\ frame' = frame /\ Slot(t)' = Slot(t)
        /\ edge' = [edge EXCEPT ![Slot(t)].timeRecent = frame[t].op.ts]
    BY <1>0, <1>9 DEF UpdRecent, Move, Goto, Slot
  <2>2. Slot(t) \in Slots
    BY <2>1, UpdatingSlot DEF Updating
  <2>3. edge'[Slot(t)].timeRecent = frame'[t].op.ts
    BY <1>0, <2>1, <2>2 DEF EdgeType
  <2> QED BY <2>1, <2>3 DEF ModeOK
<1>10. CASE pc'[t] \notin {"upd_lock", "upd_test", "upd_write", "upd_dir", "upd_newout", "upd_stamp",
                           "upd_stamp_lock", "upd_stamp_set", "upd_recent", "upd_unlock"}
  BY <1>10 DEF ModeOK
<1>11. CASE Moves(t)
  BY <1>10, <1>11, MovesEffect
<1>12. CASE \/ FindBlock(t) \/ FindScan(t) \/ SeekBlock(t) \/ SeekScan(t) \/ ClaimLock(t)
            \/ ClaimRead(t) \/ ClaimRelease(t) \/ UpdWrite(t) \/ UpdCount(t) \/ UpdHigh(t)
            \/ PushBlock(t)
  BY <1>0, <1>10, <1>12 DEF FindBlock, FindScan, SeekBlock, SeekScan, ClaimLock, ClaimRead,
     ClaimRelease, UpdWrite, UpdCount, UpdHigh, PushBlock, Move, Goto
<1>13. CASE UpdUnlock(t) \/ UpdRestore(t)
  BY <1>0, <1>10, <1>13 DEF UpdUnlock, UpdRestore, Return, Goto, FrameType
<1>14. CASE GrowLock(t) \/ GrowRetry(t) \/ PushEbs(t) \/ GrowLink(t)
  BY <1>0, <1>10, <1>14 DEF GrowLock, GrowRetry, PushEbs, GrowLink, Return, Move, Goto
<1> QED BY <1>2, <1>3, <1>4, <1>5, <1>6, <1>7, <1>8, <1>9, <1>11, <1>12, <1>13, <1>14
        DEF Step, Moves

LEMMA NextUpdate ==
  TypeInv /\ LinkInv /\ SlotLock /\ SlotInv /\ UpdateInv /\ [Next]_vars => UpdateInv'
<1> SUFFICES ASSUME TypeInv, LinkInv, SlotLock, SlotInv, UpdateInv, [Next]_vars PROVE UpdateInv'
  OBVIOUS
<1>1. CASE UNCHANGED vars
  <2>1. edge' = edge /\ pc' = pc /\ frame' = frame
    BY <1>1 DEF vars
  <2>2. UnsetOK'
    BY <2>1, UnsetSame DEF UpdateInv, UnsetOK, WordsOf
  <2>3. ASSUME NEW u \in Threads PROVE ModeOK(u)'
    <3>1. Leftover(u)' = Leftover(u) /\ Slot(u)' = Slot(u) /\ Dir(u)' = Dir(u)
      BY <2>1 DEF Leftover, Slot, Dir
    <3> QED BY <2>1, <3>1, UnsetSame DEF UpdateInv, ModeOK
  <2> QED BY <2>2, <2>3 DEF UpdateInv
<1>2. ASSUME NEW t \in Threads, Call(t) \/ Step(t) PROVE UpdateInv'
  <2>1. UnsetOK'
    BY <1>2, UnsetKept DEF UpdateInv
  <2>2. \A u \in Threads : ModeOK(u)'
    BY <1>2, OwnMode, OthersMode DEF UpdateInv
  <2> QED BY <2>1, <2>2 DEF UpdateInv
<1> QED BY <1>1, <1>2 DEF Next, Finished

\* Every update writes its slot as its call asked for, and a slot without an edge
\* has the words that were left in it.
THEOREM UpdateInvariant == Spec => []UpdateInv
BY InitUpdate, NextUpdate, TypeInvariant, LinkInvariant, SlotLockHolds, SlotInvariant, PTL DEF Spec

-----------------------------------------------------------------------------
(* The abstract adjacency list.                                            *)

\* A slot as the abstract list shows it, as it is when nobody updates it, and as
\* t shows the slot it updates.
View(s) == [dirs |-> edge[s].dirs, weight |-> ShownWeight(s), recent |-> ShownRecent(s)]

Plain(s) == [dirs |-> edge[s].dirs, weight |-> edge[s].weight, recent |-> edge[s].timeRecent]

Held(t) ==
  [dirs |-> edge[Slot(t)].dirs,
   weight |-> IF InEffect(t) THEN NewWeight(t) ELSE frame[t].weight,
   recent |-> IF InEffect(t) /\ Dir(t) = "OUT" THEN frame[t].op.ts ELSE edge[Slot(t)].timeRecent]

Shown ==
  /\ adjBar = [v \in Vertices |-> adjBar[v]]
  /\ \A s \in Occupied : edge[s].neighbor \in Vertices => adjBar[edge[s].neighbor] = View(s)
  /\ \A v \in Vertices : (\A s \in Occupied : edge[s].neighbor # v) => adjBar[v] = NoEdge
  /\ \A s \in Slots : edge[s].weight # MARKER => View(s) = Plain(s)
  /\ \A t \in Threads : pc[t] \in Updating => View(Slot(t)) = Held(t)

LEMMA ShownIs == SlotLock /\ UniqueNeighbor => Shown
<1> SUFFICES ASSUME SlotLock, UniqueNeighbor PROVE Shown
  OBVIOUS
<1>1. adjBar = [v \in Vertices |-> adjBar[v]]
  BY DEF adjBar
<1>2. ASSUME NEW s \in Occupied, edge[s].neighbor \in Vertices
      PROVE  adjBar[edge[s].neighbor] = View(s)
  <2>1. SlotOf(edge[s].neighbor) = s
    <3>1. SlotOf(edge[s].neighbor) \in Occupied /\ edge[SlotOf(edge[s].neighbor)].neighbor = edge[s].neighbor
      BY DEF SlotOf
    <3> QED BY <3>1 DEF UniqueNeighbor
  <2>2. adjBar[edge[s].neighbor] = View(SlotOf(edge[s].neighbor))
    BY <1>2 DEF adjBar, View
  <2> QED BY <2>1, <2>2
<1>3. \A v \in Vertices : (\A s \in Occupied : edge[s].neighbor # v) => adjBar[v] = NoEdge
  BY DEF adjBar
<1>4. \A s \in Slots : edge[s].weight # MARKER => View(s) = Plain(s)
  BY DEF View, Plain, ShownWeight, ShownRecent
<1>5. ASSUME NEW t \in Threads, pc[t] \in Updating
      PROVE  View(Slot(t)) = Held(t)
  <2>1. Holder(Slot(t)) = t
    <3>1. /\ Holder(Slot(t)) \in Threads /\ pc[Holder(Slot(t))] \in Updating
          /\ Slot(Holder(Slot(t))) = Slot(t)
      BY <1>5 DEF Holder
    <3> QED BY <1>5, <3>1 DEF SlotLock
  <2>2. edge[Slot(t)].weight = MARKER
    BY <1>5 DEF SlotLock
  <2> QED BY <2>1, <2>2 DEF View, Held, ShownWeight, ShownRecent
<1> QED BY <1>1, <1>2, <1>3, <1>4, <1>5 DEF Shown

LEMMA ShownIsNext == SlotLock' /\ UniqueNeighbor' => Shown'
BY ShownIs, PTL

LEMMA OwnHeld ==
  ASSUME TypeInv, NEW t \in Threads, Call(t) \/ Step(t), pc[t] \in Updating,
         pc'[t] \in Updating, pc[t] \notin {"upd_write", "upd_dir"}, LinkInv, ModeOK(t)
  PROVE  Held(t)' = Held(t) /\ Slot(t)' = Slot(t)
<1>0. /\ pc \in [Threads -> Labels] /\ frame \in [Threads -> FrameType] /\ frame[t] \in FrameType
      /\ edge \in [Slots -> EdgeType] /\ Slot(t) \in Slots
  BY Frames, UpdatingSlot
<1>1. /\ UpdTest(t) \/ UpdCount(t) \/ UpdHigh(t) \/ UpdFirst(t) \/ UpdNewOut(t) \/ UpdStamp(t)
         \/ UpdStampLock(t) \/ UpdStampSet(t) \/ UpdRecent(t)
  BY <1>0 DEF Call, Step, Move, Updating, EtypeBegin, FindBlock, FindScan, FindNext, Found,
       SeekFirst, SeekBlock, SeekScan, SeekNext, ClaimLock, ClaimRead, ClaimCheck,
       ClaimRelease, UpdLock, UpdWrite, UpdDir, UpdUnlock, UpdRestore,
       GrowLock, GrowRetry, GrowNew, PushEbs, PushBlock, GrowLink, Return, Goto, FrameType
<1>2. /\ Slot(t)' = Slot(t) /\ frame'[t].op = frame[t].op /\ frame'[t].mode = frame[t].mode
      /\ frame'[t].weight = frame[t].weight
  BY <1>0, <1>1 DEF UpdTest, UpdCount, UpdHigh, UpdFirst, UpdNewOut, UpdStamp, UpdStampLock,
     UpdStampSet, UpdRecent, shared, Slot, FrameType
<1>3. InEffect(t)' <=> InEffect(t)
  <2>1. CASE UpdTest(t)
    BY <1>0, <2>1 DEF UpdTest, Move, Goto, InEffect, BeforeEffect, Updating
  <2>2. CASE UpdCount(t) \/ UpdHigh(t) \/ UpdFirst(t) \/ UpdNewOut(t) \/ UpdStamp(t)
             \/ UpdStampLock(t) \/ UpdStampSet(t) \/ UpdRecent(t)
    BY <1>0, <2>2 DEF UpdCount, UpdHigh, UpdFirst, UpdNewOut, UpdStamp, UpdStampLock,
       UpdStampSet, UpdRecent, Move, Goto, AfterDirection, InEffect, BeforeEffect, Updating
  <2> QED BY <1>1, <2>1, <2>2
<1>4. NewWeight(t)' = NewWeight(t) /\ Dir(t)' = Dir(t)
  BY <1>2 DEF NewWeight, Dir
<1>5. edge'[Slot(t)].dirs = edge[Slot(t)].dirs
  BY <1>0, Writes DEF SlotWrites
<1>6. edge'[Slot(t)].timeRecent = edge[Slot(t)].timeRecent \/ (InEffect(t) /\ Dir(t) = "OUT")
  <2>1. pc[t] = "upd_recent" => InEffect(t) /\ Dir(t) = "OUT"
    BY DEF ModeOK, InEffect, BeforeEffect, Updating
  <2> QED BY <1>0, <2>1, Writes DEF SlotWrites
<1> QED BY <1>2, <1>3, <1>4, <1>5, <1>6 DEF Held

LEMMA OthersHeld ==
  ASSUME TypeInv, LinkInv, SlotLock, NEW t \in Threads, Call(t) \/ Step(t),
         pc[t] \notin {"upd_write", "upd_dir"}, NEW u \in Threads \ {t}, pc[u] \in Updating
  PROVE  Held(u)' = Held(u) /\ Slot(u)' = Slot(u) /\ pc'[u] = pc[u]
<1>1. pc'[u] = pc[u] /\ frame'[u] = frame[u] /\ Slot(u)' = Slot(u) /\ Dir(u)' = Dir(u)
  BY Others DEF Slot, Dir
<1>2. NewWeight(u)' = NewWeight(u) /\ (InEffect(u)' <=> InEffect(u))
  BY <1>1 DEF NewWeight, InEffect
<1>3. Slot(u) \in Slots
  BY UpdatingSlot
<1>4. pc[t] = "upd_recent" => Slot(t) # Slot(u)
  BY DEF SlotLock, Updating
<1>5. /\ edge'[Slot(u)].dirs = edge[Slot(u)].dirs
      /\ edge'[Slot(u)].timeRecent = edge[Slot(u)].timeRecent
  BY <1>3, <1>4, Writes DEF SlotWrites
<1> QED BY <1>1, <1>2, <1>5 DEF Held

\* A thread takes a slot, or lets it go.
LEMMA LockShows ==
  ASSUME TypeInv, LinkInv, NEW t \in Threads, UpdLock(t)
  PROVE  /\ Slot(t)' = Slot(t) /\ pc'[t] \in Updating /\ Held(t)' = Plain(Slot(t))
<1>0. /\ pc \in [Threads -> Labels] /\ frame \in [Threads -> FrameType] /\ frame[t] \in FrameType
  BY Frames
<1>1. /\ pc[t] = "upd_lock" /\ pc'[t] = "upd_test" /\ Slot(t)' = Slot(t)
      /\ frame'[t].weight = edge[Slot(t)].weight
  BY <1>0 DEF UpdLock, Move, Goto, Slot, FrameType
<1>2. Slot(t) \in Slots
  BY <1>1, SlotTypes DEF AtSlotLabels, InBlockLabels, Labels
<1>3. ~InEffect(t)'
  BY <1>1 DEF InEffect, BeforeEffect, Updating
<1>4. edge'[Slot(t)].dirs = edge[Slot(t)].dirs /\ edge'[Slot(t)].timeRecent = edge[Slot(t)].timeRecent
  BY <1>1, <1>2, Writes DEF SlotWrites, Step
<1> QED BY <1>1, <1>3, <1>4 DEF Held, Plain, Updating

LEMMA UnlockShows ==
  ASSUME TypeInv, LinkInv, NEW t \in Threads, UpdUnlock(t), ModeOK(t)
  PROVE  \A s \in Slots : s = Slot(t) => edge'[s].weight # MARKER /\ Plain(s)' = Held(t)
<1>0. edge \in [Slots -> EdgeType]
  BY Frames
<1>1. pc[t] = "upd_unlock" /\ edge' = [edge EXCEPT ![Slot(t)].weight = NewWeight(t)]
  BY DEF UpdUnlock
<1>2. Slot(t) \in Slots
  BY <1>1, UpdatingSlot DEF Updating
<1>3. /\ edge'[Slot(t)].weight = NewWeight(t) /\ edge'[Slot(t)].dirs = edge[Slot(t)].dirs
      /\ edge'[Slot(t)].timeRecent = edge[Slot(t)].timeRecent
  BY <1>0, <1>1, <1>2 DEF EdgeType
<1>4. NewWeight(t) # MARKER
  BY NewWeightType, ConstantsAssumption
<1>5. InEffect(t)
  BY <1>1 DEF InEffect, BeforeEffect, Updating
<1>6. Dir(t) = "OUT" => edge[Slot(t)].timeRecent = frame[t].op.ts
  BY <1>1 DEF ModeOK
<1> QED BY <1>3, <1>4, <1>5, <1>6 DEF Held, Plain

LEMMA StepAtUpdLock ==
  ASSUME NEW t \in Threads, Call(t) \/ Step(t), pc[t] = "upd_lock" PROVE UpdLock(t)
BY DEF Call, Step, Move, EtypeBegin, FindBlock, FindScan, FindNext, Found,
  SeekFirst, SeekBlock, SeekScan, SeekNext, ClaimLock, ClaimRead, ClaimCheck,
  ClaimRelease, UpdTest, UpdWrite, UpdCount, UpdHigh, UpdFirst, UpdDir,
  UpdNewOut, UpdStamp, UpdStampLock, UpdStampSet, UpdRecent, UpdUnlock, UpdRestore,
  GrowLock, GrowRetry, GrowNew, PushEbs, PushBlock, GrowLink

\* An updating thread lets go of its slot only in UpdUnlock.
LEMMA LetsGo ==
  ASSUME TypeInv, NEW t \in Threads, Call(t) \/ Step(t), pc[t] \in Updating, pc'[t] \notin Updating
  PROVE  UpdUnlock(t)
<1>1. pc \in [Threads -> Labels]
  BY Frames
<1>2. \/ UpdTest(t) \/ UpdWrite(t) \/ UpdCount(t) \/ UpdHigh(t) \/ UpdFirst(t) \/ UpdDir(t)
      \/ UpdNewOut(t) \/ UpdStamp(t) \/ UpdStampLock(t) \/ UpdStampSet(t) \/ UpdRecent(t)
      \/ UpdUnlock(t)
  BY DEF Call, Step, Move, Updating, EtypeBegin, FindBlock, FindScan, FindNext, Found,
     SeekFirst, SeekBlock, SeekScan, SeekNext, ClaimLock, ClaimRead, ClaimCheck,
     ClaimRelease, UpdLock, UpdRestore, GrowLock, GrowRetry, GrowNew, PushEbs, PushBlock, GrowLink
<1> QED BY <1>1, <1>2 DEF UpdTest, UpdWrite, UpdCount, UpdHigh, UpdFirst, UpdDir, UpdNewOut,
    UpdStamp, UpdStampLock, UpdStampSet, UpdRecent, Move, Goto, AfterDirection, Updating

\* Apart from the two steps that take effect, no step changes what is shown.
LEMMA ViewKept ==
  ASSUME TypeInv, LinkInv, SlotLock, UniqueNeighbor, UpdateInv, SlotLock', UniqueNeighbor',
         NEW t \in Threads, Call(t) \/ Step(t), pc[t] \notin {"upd_write", "upd_dir"},
         NEW s \in Slots
  PROVE  View(s)' = View(s)
<1>0. Shown /\ Shown' /\ SlotWrites(t) /\ ModeOK(t)
  BY ShownIs, ShownIsNext, Writes DEF UpdateInv
<1>1. ASSUME NEW u \in Threads \ {t}, pc[u] \in Updating, Slot(u) = s
      PROVE  View(s)' = View(s)
  <2>1. Held(u)' = Held(u) /\ Slot(u)' = Slot(u) /\ pc'[u] \in Updating
    BY <1>1, OthersHeld
  <2> QED BY <1>0, <1>1, <2>1 DEF Shown
<1>2. CASE pc[t] \in Updating /\ Slot(t) = s
  <2>1. CASE pc'[t] \in Updating
    <3>1. Held(t)' = Held(t) /\ Slot(t)' = Slot(t)
      BY <1>0, <1>2, <2>1, OwnHeld
    <3> QED BY <1>0, <1>2, <2>1, <3>1 DEF Shown
  <2>2. CASE pc'[t] \notin Updating
    <3>1. edge'[s].weight # MARKER /\ Plain(s)' = Held(t)
      BY <1>0, <1>2, <2>2, LetsGo, UnlockShows
    <3> QED BY <1>0, <1>2, <3>1 DEF Shown
  <2> QED BY <2>1, <2>2
<1>3. CASE \A u \in Threads : ~(pc[u] \in Updating /\ Slot(u) = s)
  <2>1. edge[s].weight # MARKER /\ View(s) = Plain(s)
    BY <1>0, <1>3 DEF SlotLock, Shown
  <2>2. CASE pc[t] = "upd_lock" /\ Slot(t) = s
    BY <1>0, <2>1, <2>2, StepAtUpdLock, LockShows DEF Shown
  <2>3. CASE ~(pc[t] = "upd_lock" /\ Slot(t) = s)
    <3>1. pc[t] \in {"upd_lock", "upd_unlock", "upd_recent"} => s # Slot(t)
      BY <1>3, <2>3 DEF Updating
    <3>2. /\ edge'[s].dirs = edge[s].dirs /\ edge'[s].weight = edge[s].weight
          /\ edge'[s].timeRecent = edge[s].timeRecent
      BY <1>0, <3>1 DEF SlotWrites
    <3> QED BY <1>0, <2>1, <3>2 DEF Shown, Plain
  <2> QED BY <2>2, <2>3
<1> QED BY <1>1, <1>2, <1>3

LEMMA AdjKept ==
  ASSUME TypeInv, LinkInv, SlotLock, UniqueNeighbor, UpdateInv, SlotLock', UniqueNeighbor',
         NEW t \in Threads, Call(t) \/ Step(t), pc[t] \notin {"upd_write", "upd_dir"}
  PROVE  adjBar' = adjBar
<1>0. Shown /\ Shown'
  BY ShownIs, ShownIsNext
<1>1. \A s \in Slots : edge'[s].dirs = edge[s].dirs /\ edge'[s].neighbor = edge[s].neighbor
  BY Writes DEF SlotWrites
<1>2. Occupied' = Occupied
  BY <1>1 DEF Occupied
<1>3. ASSUME NEW v \in Vertices PROVE adjBar'[v] = adjBar[v]
  <2>1. CASE \E s \in Occupied : edge[s].neighbor = v
    <3>1. PICK s \in Occupied : edge[s].neighbor = v
      BY <2>1
    <3>2. s \in Slots /\ View(s)' = View(s)
      BY ViewKept DEF Occupied
    <3> QED BY <1>0, <1>1, <1>2, <3>1, <3>2 DEF Shown
  <2>2. CASE \A s \in Occupied : edge[s].neighbor # v
    <3>1. \A s \in Occupied' : edge'[s].neighbor # v
      BY <1>1, <1>2, <2>2 DEF Occupied
    <3>2. NoEdge' = NoEdge
      BY DEF NoEdge
    <3> QED BY <1>0, <2>2, <3>1, <3>2 DEF Shown
  <2> QED BY <2>1, <2>2
<1> QED BY <1>0, <1>3 DEF Shown

-----------------------------------------------------------------------------
(* The abstract calls.                                                     *)

CallOf(t) ==
  IF pc[t] = "idle" THEN [phase |-> "idle"]
  ELSE [phase |-> IF InEffect(t) THEN "applied" ELSE "called", op |-> frame[t].op]

LEMMA CallsMove ==
  ASSUME TypeInv, NEW t \in Threads, Call(t) \/ Step(t)
  PROVE  /\ callBar[t] = CallOf(t)
         /\ callBar' = [callBar EXCEPT ![t] = CallOf(t)']
<1>1. \A w \in Threads : callBar[w] = CallOf(w) /\ callBar'[w] = CallOf(w)'
  BY DEF callBar, CallOf
<1>2. \A w \in Threads \ {t} : CallOf(w)' = CallOf(w)
  BY Others DEF CallOf, InEffect
<1>3. callBar' = [w \in Threads |-> callBar'[w]] /\ callBar = [w \in Threads |-> callBar[w]]
  BY DEF callBar
<1> QED BY <1>1, <1>2, <1>3

\* Inside an update the operation stays, and the labels in effect follow each other.
LEMMA Inside ==
  ASSUME TypeInv, LinkInv, NEW t \in Threads, Call(t) \/ Step(t), pc[t] # "idle", pc'[t] # "idle"
  PROVE  /\ frame'[t].op = frame[t].op
         /\ pc[t] \in {"upd_write", "upd_dir"} => ~InEffect(t) /\ InEffect(t)'
         /\ pc[t] \notin {"upd_write", "upd_dir"} => (InEffect(t)' <=> InEffect(t))
<1>0. /\ pc \in [Threads -> Labels] /\ frame \in [Threads -> FrameType] /\ frame[t] \in FrameType
      /\ frame[t].then \in {"return", "restore", "push_ebs"}
  BY Frames DEF FrameType
<1>1. CASE EtypeBegin(t) \/ FindNext(t) \/ SeekFirst(t) \/ SeekNext(t)
  BY <1>0, <1>1 DEF EtypeBegin, FindNext, SeekFirst, SeekNext, Move, Goto, InEffect, BeforeEffect,
     Updating, FrameType
<1>2. CASE FindBlock(t) \/ FindScan(t) \/ Found(t) \/ SeekBlock(t) \/ SeekScan(t)
  BY <1>0, <1>2 DEF FindBlock, FindScan, Found, SeekBlock, SeekScan, Move, Goto, InEffect,
     BeforeEffect, Updating, FrameType
<1>3. CASE ClaimLock(t) \/ ClaimRead(t) \/ ClaimRelease(t)
  BY <1>0, <1>3 DEF ClaimLock, ClaimRead, ClaimRelease, Move, Goto, InEffect, BeforeEffect,
     Updating, FrameType
<1>4. CASE ClaimCheck(t)
  <2>1. frame'[t].op = frame[t].op
    BY <1>0, <1>4, CheckFrame
  <2>2. pc[t] = "claim_check" /\ pc'[t] \in {"upd_lock", "claim_release"}
    BY <1>0, <1>4 DEF ClaimCheck, Goto
  <2> QED BY <2>1, <2>2 DEF InEffect, BeforeEffect, Updating
<1>5. CASE UpdLock(t) \/ UpdTest(t) \/ UpdWrite(t) \/ UpdCount(t) \/ UpdHigh(t)
  BY <1>0, <1>5 DEF UpdLock, UpdTest, UpdWrite, UpdCount, UpdHigh, Move, Goto, InEffect,
     BeforeEffect, Updating, FrameType, shared
<1>6. CASE UpdFirst(t) \/ UpdDir(t) \/ UpdNewOut(t) \/ UpdStamp(t)
  BY <1>0, <1>6 DEF UpdFirst, UpdDir, UpdNewOut, UpdStamp, Move, Goto, InEffect, BeforeEffect,
     Updating, AfterDirection, shared
<1>7. CASE UpdStampLock(t) \/ UpdStampSet(t) \/ UpdRecent(t)
  BY <1>0, <1>7 DEF UpdStampLock, UpdStampSet, UpdRecent, Move, Goto, InEffect, BeforeEffect,
     Updating, FrameType
<1>8. CASE UpdUnlock(t)
  <2>1. frame[t].then # "return"
    BY <1>0, <1>8 DEF UpdUnlock, Return, Goto
  <2>2. pc[t] = "upd_unlock" /\ frame' = frame /\ pc'[t] = frame[t].then
    BY <1>0, <1>8, <2>1 DEF UpdUnlock, Goto
  <2> QED BY <1>0, <2>1, <2>2 DEF InEffect, BeforeEffect, Updating
<1>9. CASE UpdRestore(t) \/ GrowLink(t)
  BY <1>0, <1>9 DEF UpdRestore, GrowLink, Return, Goto, Move
<1>10. CASE GrowLock(t) \/ GrowRetry(t) \/ GrowNew(t) \/ PushEbs(t) \/ PushBlock(t)
  BY <1>0, <1>10 DEF GrowLock, GrowRetry, GrowNew, PushEbs, PushBlock, Move, Goto, InEffect,
     BeforeEffect, Updating, FrameType
<1>11. ~Call(t)
  BY DEF Call, Move
<1> QED BY <1>1, <1>2, <1>3, <1>4, <1>5, <1>6, <1>7, <1>8, <1>9, <1>10, <1>11 DEF Step

LEMMA InvokeMaps ==
  ASSUME TypeInv, NEW t \in Threads, Call(t) \/ Step(t), pc[t] = "idle", adjBar' = adjBar
  PROVE  Abstract!Invoke(t)
<1>0. /\ pc \in [Threads -> Labels] /\ frame \in [Threads -> FrameType]
  BY Frames
<1>1. Call(t)
  BY DEF Step, Move, EtypeBegin, FindBlock, FindScan, FindNext, Found,
     SeekFirst, SeekBlock, SeekScan, SeekNext, ClaimLock, ClaimRead, ClaimCheck,
     ClaimRelease, UpdLock, UpdTest, UpdWrite, UpdCount, UpdHigh, UpdFirst, UpdDir,
     UpdNewOut, UpdStamp, UpdStampLock, UpdStampSet, UpdRecent, UpdUnlock, UpdRestore,
     GrowLock, GrowRetry, GrowNew, PushEbs, PushBlock, GrowLink
<1>2. PICK op \in Ops : frame' = [frame EXCEPT ![t] = [IdleFrame EXCEPT !.op = op]]
  BY <1>1 DEF Call
<1>3. frame'[t].op = op
  BY <1>0, <1>2, IdleFrameType DEF FrameType
<1>4. pc'[t] = "etype_begin"
  BY <1>0, <1>1 DEF Call, Move, Goto
<1>5. CallOf(t) = [phase |-> "idle"] /\ CallOf(t)' = [phase |-> "called", op |-> op]
  BY <1>3, <1>4 DEF CallOf, InEffect, BeforeEffect, Updating
<1>6. callBar[t] = [phase |-> "idle"] /\ callBar' = [callBar EXCEPT ![t] = [phase |-> "called", op |-> op]]
  BY <1>5, CallsMove
<1> QED BY <1>6 DEF Abstract!Invoke, Abstract!Idle

LEMMA ReturnMaps ==
  ASSUME TypeInv, NEW t \in Threads, Call(t) \/ Step(t), pc[t] # "idle", pc'[t] = "idle",
         adjBar' = adjBar
  PROVE  Abstract!Return(t)
<1>0. /\ pc \in [Threads -> Labels] /\ frame \in [Threads -> FrameType] /\ frame[t] \in FrameType
  BY Frames
<1>1. UpdUnlock(t) \/ UpdRestore(t) \/ GrowLink(t)
  BY <1>0 DEF Call, Step, Move, Goto, EtypeBegin, FindBlock, FindScan, FindNext, Found,
     SeekFirst, SeekBlock, SeekScan, SeekNext, ClaimLock, ClaimRead, ClaimCheck,
     ClaimRelease, UpdLock, UpdTest, UpdWrite, UpdCount, UpdHigh, UpdFirst, UpdDir,
     UpdNewOut, UpdStamp, UpdStampLock, UpdStampSet, UpdRecent, AfterDirection,
     GrowLock, GrowRetry, GrowNew, PushEbs, PushBlock
<1>2. pc[t] \in {"upd_unlock", "restore", "grow_link"}
  BY <1>1 DEF UpdUnlock, UpdRestore, GrowLink
<1>3. CallOf(t) = [phase |-> "applied", op |-> frame[t].op] /\ CallOf(t)' = [phase |-> "idle"]
  BY <1>2 DEF CallOf, InEffect, BeforeEffect, Updating
<1> QED BY <1>3, CallsMove DEF Abstract!Return, Abstract!Idle

-----------------------------------------------------------------------------
(* The two steps that take effect.                                         *)

\* The abstract list changes where t's update goes, and nowhere else.
LEMMA EffectMaps ==
  ASSUME TypeInv, LinkInv, NEW t \in Threads, Call(t) \/ Step(t),
         pc[t] \in {"upd_write", "upd_dir"}, pc'[t] # "idle",
         NEW w \in Unset, Shown, Shown',
         adjBar'[Dest(t)] = Abstract!After(adjBar[Dest(t)], frame[t].op, w),
         \A v \in Vertices \ {Dest(t)} : adjBar'[v] = adjBar[v]
  PROVE  Abstract!Apply(t)
<1>1. /\ frame'[t].op = frame[t].op /\ ~InEffect(t) /\ InEffect(t)' /\ pc[t] # "idle"
  BY Inside
<1>2. /\ CallOf(t) = [phase |-> "called", op |-> frame[t].op]
      /\ CallOf(t)' = [phase |-> "applied", op |-> frame[t].op]
  BY <1>1 DEF CallOf
<1>3. /\ callBar[t] = [phase |-> "called", op |-> frame[t].op]
      /\ callBar' = [callBar EXCEPT ![t].phase = "applied"]
  BY <1>2, CallsMove
<1>4. adjBar' = [adjBar EXCEPT ![Dest(t)] = Abstract!After(@, frame[t].op, w)]
  <2>1. /\ adjBar' = [v \in Vertices |-> adjBar'[v]] /\ adjBar = [v \in Vertices |-> adjBar[v]]
    BY DEF Shown
  <2> QED BY <2>1
<1>5. callBar[t].op.dest = Dest(t) /\ callBar[t].op = frame[t].op /\ callBar[t].phase = "called"
  BY <1>3 DEF Dest
<1> QED BY <1>3, <1>4, <1>5 DEF Abstract!Apply

\* Neither step moves another thread's slot.
LEMMA ElsewhereKept ==
  ASSUME TypeInv, LinkInv, SlotLock, UniqueNeighbor, SlotLock', UniqueNeighbor',
         NEW t \in Threads, Call(t) \/ Step(t), pc[t] \in {"upd_write", "upd_dir"},
         Slot(t)' = Slot(t), pc'[t] \in Updating, NEW s \in Slots, s # Slot(t)
  PROVE  View(s)' = View(s) /\ edge'[s] = edge[s]
<1>0. Shown /\ Shown'
  BY ShownIs, ShownIsNext
<1>1. edge'[s] = edge[s]
  BY Writes DEF SlotWrites
<1>2. ASSUME NEW u \in Threads \ {t}, pc[u] \in Updating, Slot(u) = s
      PROVE  View(s)' = View(s)
  <2>1. pc'[u] = pc[u] /\ frame'[u] = frame[u] /\ Slot(u)' = Slot(u) /\ Dir(u)' = Dir(u)
    BY Others DEF Slot, Dir
  <2>2. NewWeight(u)' = NewWeight(u) /\ (InEffect(u)' <=> InEffect(u))
    BY <2>1 DEF NewWeight, InEffect
  <2>3. Held(u)' = Held(u)
    BY <1>1, <1>2, <2>1, <2>2 DEF Held
  <2> QED BY <1>0, <1>2, <2>1, <2>3 DEF Shown
<1>3. CASE \A u \in Threads : ~(pc[u] \in Updating /\ Slot(u) = s)
  <2>1. edge[s].weight # MARKER
    BY <1>3 DEF SlotLock
  <2> QED BY <1>0, <1>1, <2>1 DEF Shown, Plain
<1> QED BY <1>1, <1>2, <1>3

\* The slots t's step leaves alone, and the vertices it is not about.
Elsewhere(t) ==
  \A s \in Slots : s # Slot(t) => View(s)' = View(s) /\ edge'[s] = edge[s]

LEMMA OtherDests ==
  ASSUME Shown, Shown', NEW t \in Threads, Elsewhere(t), edge'[Slot(t)].neighbor = Dest(t),
         edge[Slot(t)].dirs = {} \/ edge[Slot(t)].neighbor = Dest(t),
         NEW v \in Vertices \ {Dest(t)}
  PROVE  adjBar'[v] = adjBar[v]
<1>1. CASE \E s \in Occupied : edge[s].neighbor = v
  <2>1. PICK s \in Occupied : edge[s].neighbor = v
    BY <1>1
  <2>2. s \in Slots /\ s # Slot(t)
    BY <2>1 DEF Occupied
  <2>3. s \in Occupied' /\ edge'[s].neighbor = v /\ View(s)' = View(s)
    BY <2>1, <2>2 DEF Elsewhere, Occupied
  <2> QED BY <2>1, <2>3 DEF Shown
<1>2. CASE \A s \in Occupied : edge[s].neighbor # v
  <2>1. ASSUME NEW s \in Occupied' PROVE edge'[s].neighbor # v
    <3>1. s \in Slots
      BY DEF Occupied
    <3>2. s # Slot(t) => s \in Occupied /\ edge'[s] = edge[s]
      BY <3>1 DEF Elsewhere, Occupied
    <3> QED BY <1>2, <3>2
  <2>2. NoEdge' = NoEdge
    BY DEF NoEdge
  <2> QED BY <1>2, <2>1, <2>2 DEF Shown
<1> QED BY <1>1, <1>2

LEMMA WriteMaps ==
  ASSUME TypeInv, LinkInv, SlotLock, SlotInv, UpdateInv, SlotLock', UniqueNeighbor',
         NEW t \in Threads, UpdWrite(t)
  PROVE  Abstract!Apply(t)
<1>0. /\ Shown /\ Shown' /\ UniqueNeighbor /\ ModeOK(t) /\ edge \in [Slots -> EdgeType]
      /\ frame[t] \in FrameType /\ frame[t].op \in OpType /\ Dest(t) \in Vertices
      /\ Dir(t) \in Directions
  BY ShownIs, ShownIsNext, Frames, AtThread DEF SlotInv, UpdateInv
<1>1. /\ pc[t] = "upd_write" /\ pc'[t] = "upd_count" /\ frame' = frame /\ Slot(t) \in Slots
      /\ Slot(t)' = Slot(t) /\ edge[Slot(t)].dirs = {}
      /\ edge' = [edge EXCEPT ![Slot(t)].neighbor = Dest(t), ![Slot(t)].dirs = {Dir(t)}]
  BY WriteEffect DEF UpdWrite, Fillable, Slot
<1>2. /\ edge'[Slot(t)].neighbor = Dest(t) /\ edge'[Slot(t)].dirs = {Dir(t)}
      /\ edge'[Slot(t)].timeRecent = edge[Slot(t)].timeRecent
  BY <1>0, <1>1 DEF EdgeType
<1>3. frame[t].mode = "SET" /\ Leftover(t) \in Unset
  BY <1>0, <1>1 DEF ModeOK, UpdateInv
<1>4. Elsewhere(t)
  BY <1>0, <1>1, ElsewhereKept DEF Step, Updating, Elsewhere
<1>5. Slot(t) \in Occupied' /\ Slot(t) \notin Occupied
      /\ \A s \in Slots : s # Slot(t) => (s \in Occupied' <=> s \in Occupied)
  BY <1>1, <1>2, <1>4 DEF Occupied, Elsewhere
<1>6. \A s \in Occupied : edge[s].neighbor # Dest(t)
  <2> SUFFICES ASSUME NEW s \in Occupied, edge[s].neighbor = Dest(t) PROVE FALSE
    OBVIOUS
  <2>1. s \in Slots /\ s # Slot(t)
    BY <1>5 DEF Occupied
  <2>2. s \in Occupied' /\ edge'[s].neighbor = Dest(t)
    BY <1>4, <1>5, <2>1 DEF Elsewhere
  <2> QED BY <1>2, <1>5, <2>1, <2>2 DEF UniqueNeighbor
<1>7. adjBar[Dest(t)] = NoEdge
  BY <1>0, <1>6 DEF Shown
<1>8. adjBar'[Dest(t)] = Held(t)'
  <2>1. adjBar'[Dest(t)] = View(Slot(t))'
    BY <1>0, <1>1, <1>2, <1>5 DEF Shown
  <2> QED BY <1>0, <1>1, <2>1 DEF Shown, Updating
<1>9. adjBar'[Dest(t)] = Abstract!After(adjBar[Dest(t)], frame[t].op, Leftover(t))
  <2>1. InEffect(t)' /\ Dir(t)' = Dir(t) /\ NewWeight(t)' = NewWeight(t)
    BY <1>1 DEF InEffect, BeforeEffect, Updating, Dir, NewWeight
  <2>2. Held(t)' = [dirs |-> {Dir(t)}, weight |-> NewWeight(t),
                    recent |-> IF Dir(t) = "OUT" THEN frame[t].op.ts
                               ELSE edge[Slot(t)].timeRecent]
    BY <1>1, <1>2, <1>3, <2>1 DEF Held
  <2>3. NewWeight(t) = IF Dir(t) = "IN" THEN frame[t].weight ELSE frame[t].op.weight
    BY <1>3 DEF NewWeight
  <2>4. frame[t].op.weight \in Int /\ frame[t].op.mode \in {"SET", "INCR"}
    BY <1>0 DEF OpType
  <2>5. 0 + frame[t].op.weight = frame[t].op.weight
    BY <2>4
  <2>6. Dir(t) = frame[t].op.dir /\ Dir(t) \in {"OUT", "IN"} /\ {} \cup {Dir(t)} = {Dir(t)}
    BY <1>0 DEF Dir, Directions
  <2>7. CASE Dir(t) = "IN"
    BY <1>7, <1>8, <2>2, <2>3, <2>6, <2>7 DEF NoEdge, Abstract!After, Leftover
  <2>8. CASE Dir(t) = "OUT"
    BY <1>7, <1>8, <2>2, <2>3, <2>5, <2>6, <2>8 DEF NoEdge, Abstract!After
  <2> QED BY <2>6, <2>7, <2>8
<1>10. \A v \in Vertices \ {Dest(t)} : adjBar'[v] = adjBar[v]
  BY <1>0, <1>1, <1>2, <1>4, OtherDests
<1> QED BY <1>0, <1>1, <1>3, <1>9, <1>10, EffectMaps DEF Step

\* What the step that adds a direction to an edge does to its slot.
LEMMA DirEffect ==
  ASSUME TypeInv, LinkInv, SlotInv, UpdateInv, NEW t \in Threads, UpdDir(t)
  PROVE  /\ pc[t] = "upd_dir" /\ frame' = frame /\ Slot(t)' = Slot(t) /\ Slot(t) \in Slots
         /\ pc'[t] \in {"upd_newout", "upd_stamp", "upd_unlock"}
         /\ edge[Slot(t)].dirs # {} /\ edge[Slot(t)].neighbor = Dest(t)
         /\ frame[t].mode = frame[t].op.mode /\ Dir(t) \in {"OUT", "IN"}
         /\ edge'[Slot(t)].dirs = edge[Slot(t)].dirs \cup {Dir(t)}
         /\ edge'[Slot(t)].neighbor = Dest(t)
         /\ edge'[Slot(t)].timeRecent = edge[Slot(t)].timeRecent
<1>0. /\ edge \in [Slots -> EdgeType] /\ pc \in [Threads -> Labels]
      /\ frame[t].op \in OpType /\ UpdateOK(t) /\ ModeOK(t)
  BY Frames, AtThread DEF SlotInv, UpdateInv
<1>1. pc[t] = "upd_dir" /\ frame' = frame /\ Slot(t)' = Slot(t)
  BY DEF UpdDir, Slot
<1>2. Slot(t) \in Slots
  BY <1>1, UpdatingSlot DEF Updating
<1>3. /\ edge[Slot(t)].dirs # {} /\ edge[Slot(t)].neighbor = Dest(t)
      /\ frame[t].mode = frame[t].op.mode
  BY <1>0, <1>1 DEF UpdateOK, SettledLabels, Settled, Complete, ModeOK
<1>4. Dir(t) \in {"OUT", "IN"}
  BY <1>0 DEF OpType, Directions, Dir
<1>5. pc'[t] \in {"upd_newout", "upd_stamp", "upd_unlock"}
  BY <1>0, <1>4 DEF UpdDir, Goto, AfterDirection
<1>6. \/ Dir(t) \in edge[Slot(t)].dirs /\ edge' = edge
      \/ edge' = [edge EXCEPT ![Slot(t)].dirs = @ \cup {Dir(t)}]
  BY <1>4 DEF UpdDir
<1>7. /\ edge'[Slot(t)].dirs = edge[Slot(t)].dirs \cup {Dir(t)}
      /\ edge'[Slot(t)].neighbor = edge[Slot(t)].neighbor
      /\ edge'[Slot(t)].timeRecent = edge[Slot(t)].timeRecent
  <2>1. CASE Dir(t) \in edge[Slot(t)].dirs /\ edge' = edge
    BY <2>1
  <2>2. CASE edge' = [edge EXCEPT ![Slot(t)].dirs = @ \cup {Dir(t)}]
    BY <1>0, <1>2, <2>2 DEF EdgeType
  <2> QED BY <1>6, <2>1, <2>2
<1> QED BY <1>1, <1>2, <1>3, <1>4, <1>5, <1>7

LEMMA DirMaps ==
  ASSUME TypeInv, LinkInv, SlotLock, SlotInv, UpdateInv, SlotLock', UniqueNeighbor',
         NEW t \in Threads, UpdDir(t)
  PROVE  Abstract!Apply(t)
<1>0. /\ Shown /\ Shown' /\ UniqueNeighbor /\ Dest(t) \in Vertices
  BY ShownIs, ShownIsNext, AtThread DEF SlotInv, OpType, Dest
<1>1. /\ pc[t] = "upd_dir" /\ frame' = frame /\ Slot(t)' = Slot(t) /\ Slot(t) \in Slots
      /\ pc'[t] \in {"upd_newout", "upd_stamp", "upd_unlock"}
  BY DirEffect
<1>2. /\ edge[Slot(t)].dirs # {} /\ edge[Slot(t)].neighbor = Dest(t)
      /\ frame[t].mode = frame[t].op.mode /\ Dir(t) \in {"OUT", "IN"}
      /\ edge'[Slot(t)].dirs = edge[Slot(t)].dirs \cup {Dir(t)}
      /\ edge'[Slot(t)].neighbor = Dest(t)
      /\ edge'[Slot(t)].timeRecent = edge[Slot(t)].timeRecent
  BY DirEffect
<1>3. Elsewhere(t)
  BY <1>0, <1>1, ElsewhereKept DEF Step, Updating, Elsewhere
<1>4. adjBar[Dest(t)] = Held(t)
  <2>1. Slot(t) \in Occupied
    BY <1>1, <1>2 DEF Occupied
  <2>2. adjBar[Dest(t)] = View(Slot(t))
    BY <1>0, <1>2, <2>1 DEF Shown
  <2> QED BY <1>0, <1>1, <2>2 DEF Shown, Updating
<1>5. adjBar'[Dest(t)] = Held(t)'
  <2>1. Slot(t) \in Occupied'
    BY <1>1, <1>2 DEF Occupied
  <2>2. adjBar'[Dest(t)] = View(Slot(t))'
    BY <1>0, <1>1, <1>2, <2>1 DEF Shown
  <2> QED BY <1>0, <1>1, <2>2 DEF Shown, Updating
<1>6. WordsOf(ZeroEdge) \in Unset
  BY DEF Unset
<1>7. adjBar'[Dest(t)] = Abstract!After(adjBar[Dest(t)], frame[t].op, WordsOf(ZeroEdge))
  <2>1. ~InEffect(t) /\ InEffect(t)' /\ Dir(t)' = Dir(t) /\ NewWeight(t)' = NewWeight(t)
    BY <1>1 DEF InEffect, BeforeEffect, Updating, Dir, NewWeight
  <2>2. Held(t) = [dirs |-> edge[Slot(t)].dirs, weight |-> frame[t].weight,
                   recent |-> edge[Slot(t)].timeRecent]
    BY <2>1 DEF Held
  <2>3. Held(t)' = [dirs |-> edge[Slot(t)].dirs \cup {Dir(t)}, weight |-> NewWeight(t),
                    recent |-> IF Dir(t) = "OUT" THEN frame[t].op.ts
                               ELSE edge[Slot(t)].timeRecent]
    BY <1>1, <1>2, <2>1 DEF Held
  <2>4. Dir(t) = frame[t].op.dir
    BY DEF Dir
  <2>5. CASE Dir(t) = "IN"
    <3>1. NewWeight(t) = frame[t].weight
      BY <2>5 DEF NewWeight
    <3>2. Held(t)' = [dirs |-> Held(t).dirs \cup {"IN"}, weight |-> Held(t).weight,
                      recent |-> Held(t).recent]
      BY <2>2, <2>3, <2>5, <3>1
    <3>3. Held(t).dirs # {}
      BY <1>2, <2>2
    <3> QED BY <1>4, <1>5, <2>4, <2>5, <3>2, <3>3 DEF Abstract!After
  <2>6. CASE Dir(t) = "OUT"
    <3>1. NewWeight(t) = IF frame[t].op.mode = "SET" THEN frame[t].op.weight
                         ELSE frame[t].weight + frame[t].op.weight
      BY <1>2, <2>6 DEF NewWeight
    <3>2. Held(t)' = [dirs |-> Held(t).dirs \cup {"OUT"},
                      weight |-> IF frame[t].op.mode = "SET" THEN frame[t].op.weight
                                 ELSE Held(t).weight + frame[t].op.weight,
                      recent |-> frame[t].op.ts]
      BY <2>2, <2>3, <2>6, <3>1
    <3> QED BY <1>4, <1>5, <2>4, <2>6, <3>2 DEF Abstract!After
  <2> QED BY <1>2, <2>5, <2>6
<1>8. \A v \in Vertices \ {Dest(t)} : adjBar'[v] = adjBar[v]
  BY <1>0, <1>2, <1>3, OtherDests
<1> QED BY <1>0, <1>1, <1>6, <1>7, <1>8, EffectMaps DEF Step

-----------------------------------------------------------------------------
(* The refinement.                                                         *)

LEMMA InitMaps == Init => Abstract!Init
<1> SUFFICES ASSUME NEW c \in InitContents, NEW old \in OldWords, InitWith(c, old) PROVE Abstract!Init
  BY DEF Init
<1>0. Init
  BY DEF Init
<1>1. Shown
  BY <1>0, InitSlots, InitLock, ShownIs DEF SlotInv
<1>2. /\ c \in Seq(Vertices \cup {Blank}) /\ Len(c) \in Nat /\ DOMAIN c = 1..Len(c)
      /\ Len(c) <= EBSize /\ EBSize \in Nat \ {0} /\ MaxBlocks \in Nat \ {0} /\ MARKER \notin Int
      /\ Vertices \subseteq Nat
      /\ \A i, j \in DOMAIN c : c[i] = c[j] /\ c[i] # Blank => i = j
  BY ConstantsAssumption
<1>3. edge = InitEdge(c, old) /\ \A t \in Threads : pc[t] = "idle"
  BY DEF InitWith
<1>4. \A s \in Slots : edge[s].weight # MARKER
  BY <1>2, <1>3, OldTypes DEF InitEdge, ZeroEdge, Slots
<1> DEFINE Entry(k) == [dirs |-> {"OUT"}, weight |-> old.slot[k].weight,
                      recent |-> old.slot[k].timeRecent]
<1>5. ASSUME NEW s \in Occupied
      PROVE  /\ s \in Slots /\ s[2] \in Indices /\ s[2] < Len(c) /\ s[2] + 1 \in DOMAIN c
             /\ c[s[2] + 1] # Blank /\ edge[s].neighbor = c[s[2] + 1]
             /\ Plain(s) = Entry(s[2])
  <2>1. s \in Slots /\ edge[s].dirs # {} /\ s[2] \in Indices
    BY DEF Occupied, Slots
  <2>2. s[1] = 1 /\ s[2] < Len(c)
    BY <1>3, <2>1 DEF InitEdge, ZeroEdge
  <2>3. edge[s] = [neighbor |-> c[s[2] + 1],
                   dirs |-> IF c[s[2] + 1] = Blank THEN {} ELSE {"OUT"},
                   weight |-> old.slot[s[2]].weight,
                   timeFirst |-> old.slot[s[2]].timeFirst,
                   timeRecent |-> old.slot[s[2]].timeRecent]
    BY <1>3, <2>1, <2>2 DEF InitEdge
  <2>4. s[2] + 1 \in DOMAIN c
    BY <1>2, <2>1, <2>2 DEF Indices
  <2>5. c[s[2] + 1] # Blank /\ edge[s].dirs = {"OUT"}
    BY <2>1, <2>3
  <2> QED BY <2>1, <2>2, <2>3, <2>4, <2>5 DEF Plain
<1>6. ASSUME NEW k \in Indices, k < Len(c), c[k + 1] \in Vertices
      PROVE  \E s \in Occupied : edge[s].neighbor = c[k + 1]
  <2>1. <<1, k>> \in Slots
    BY <1>2 DEF Slots, Blocks
  <2>2. c[k + 1] # Blank
    BY <1>2, <1>6 DEF Blank
  <2>3. edge[<<1, k>>].neighbor = c[k + 1] /\ edge[<<1, k>>].dirs = {"OUT"}
    BY <1>3, <1>6, <2>1, <2>2 DEF InitEdge
  <2> QED BY <2>1, <2>3 DEF Occupied
<1> DEFINE At(v) == CHOOSE k \in Indices : k < Len(c) /\ c[k + 1] = v
<1>7. ASSUME NEW v \in Vertices
      PROVE  adjBar[v] = IF \E k \in Indices : k < Len(c) /\ c[k + 1] = v
                         THEN Entry(At(v)) ELSE NoEdge
  <2>1. CASE \E k \in Indices : k < Len(c) /\ c[k + 1] = v
    <3>1. PICK s \in Occupied : edge[s].neighbor = v
      BY <1>6, <2>1
    <3>2. adjBar[v] = View(s) /\ View(s) = Plain(s)
      BY <1>1, <1>4, <1>5, <3>1 DEF Shown
    <3>3. PICK k \in Indices : k = At(v) /\ k < Len(c) /\ c[k + 1] = v
      BY <2>1
    <3>4. k + 1 \in DOMAIN c /\ k \in Int /\ s[2] \in Int
      BY <1>2, <1>5, <3>1, <3>3 DEF Indices
    <3>5. k + 1 = s[2] + 1
      BY <1>2, <1>5, <3>1, <3>3, <3>4
    <3>6. k = s[2]
      BY <3>4, <3>5
    <3> HIDE DEF Entry, At
    <3> QED BY <1>5, <2>1, <3>1, <3>2, <3>3, <3>6
  <2>2. CASE ~\E k \in Indices : k < Len(c) /\ c[k + 1] = v
    <3>1. \A s \in Occupied : edge[s].neighbor # v
      BY <1>5, <2>2
    <3> HIDE DEF Entry, At
    <3> QED BY <1>1, <2>2, <3>1 DEF Shown
  <2> QED BY <2>1, <2>2
<1>8. adjBar \in InitialAdj
  <2>1. adjBar = [v \in Vertices |->
                    IF \E k \in Indices : k < Len(c) /\ c[k + 1] = v
                    THEN Entry(At(v)) ELSE NoEdge]
    BY <1>1, <1>7 DEF Shown
  <2> DEFINE Adj(c1, old1) ==
         [v \in Vertices |->
            IF \E k \in Indices : k < Len(c1) /\ c1[k + 1] = v
            THEN LET k == CHOOSE k \in Indices : k < Len(c1) /\ c1[k + 1] = v IN
                 [dirs |-> {"OUT"}, weight |-> old1.slot[k].weight,
                  recent |-> old1.slot[k].timeRecent]
            ELSE NoEdge]
  <2>2. InitialAdj = {Adj(c1, old1) : c1 \in InitContents, old1 \in OldWords}
    BY DEF InitialAdj
  <2>3. adjBar = Adj(c, old)
    BY <2>1
  <2> HIDE DEF Adj
  <2> QED BY <2>2, <2>3
<1>9. callBar = [t \in Threads |-> [phase |-> "idle"]]
  BY <1>3 DEF callBar
<1> QED BY <1>8, <1>9 DEF Abstract!Init, Abstract!Idle

\* Every step of the concurrent insertion is a step of the abstract list or none.
LEMMA StepMaps ==
  ASSUME TypeInv, LinkInv, SlotLock, SlotInv, UpdateInv, SlotLock', UniqueNeighbor',
         NEW t \in Threads, Call(t) \/ Step(t)
  PROVE  \/ \E u \in Threads : Abstract!Invoke(u) \/ Abstract!Apply(u) \/ Abstract!Return(u)
         \/ UNCHANGED Abstract!vars
<1>0. UniqueNeighbor
  BY DEF SlotInv
<1>1. pc[t] \notin {"upd_write", "upd_dir"} => adjBar' = adjBar
  BY <1>0, AdjKept
<1>2. CASE pc[t] = "idle"
  BY <1>1, <1>2, InvokeMaps
<1>3. CASE pc[t] = "upd_write"
  BY <1>3, StepAtWrite, WriteMaps
<1>4. CASE pc[t] = "upd_dir"
  BY <1>4, StepAtDir, DirMaps
<1>5. CASE pc[t] \notin {"idle", "upd_write", "upd_dir"} /\ pc'[t] = "idle"
  BY <1>1, <1>5, ReturnMaps
<1>6. CASE pc[t] \notin {"idle", "upd_write", "upd_dir"} /\ pc'[t] # "idle"
  <2>1. frame'[t].op = frame[t].op /\ (InEffect(t)' <=> InEffect(t))
    BY <1>6, Inside
  <2>2. CallOf(t)' = CallOf(t)
    BY <1>6, <2>1 DEF CallOf
  <2>3. callBar' = callBar
    <3>1. callBar[t] = CallOf(t) /\ callBar' = [callBar EXCEPT ![t] = CallOf(t)']
      BY CallsMove
    <3>2. callBar = [w \in Threads |-> callBar[w]]
      BY DEF callBar
    <3> QED BY <2>2, <3>1, <3>2
  <2> QED BY <1>1, <1>6, <2>3 DEF Abstract!vars
<1> QED BY <1>2, <1>3, <1>4, <1>5, <1>6

Mapped == TypeInv /\ LinkInv /\ SlotLock /\ SlotInv /\ UpdateInv

\* Concurrent insertion is linearizable: under every schedule, for any number of
\* threads, each directed update acts as if it were made at once between its call
\* and its return, so none is lost or counted twice (the safety part of
\* ImplementsAtomic; update_edge_data_and_direction under the weight lock).
THEOREM UpdatesAreAtomic == Spec => Abstract!Safety
<1>1. Init => Abstract!Init
  BY InitMaps
<1>2. Spec => []Mapped
  BY TypeInvariant, LinkInvariant, SlotLockHolds, SlotInvariant, UpdateInvariant, PTL DEF Mapped
<1>3. Mapped /\ Mapped' /\ [Next]_vars => [Abstract!Next]_Abstract!vars
  <2>1. ASSUME Mapped, Mapped', Next PROVE Abstract!Next \/ UNCHANGED Abstract!vars
    <3>1. CASE Finished
      BY <3>1 DEF Finished, vars, Abstract!vars, adjBar, callBar, SlotOf, Occupied,
         ShownWeight, ShownRecent, Holder, InEffect, NewWeight, Slot, Dir, NoEdge
    <3>2. CASE \E t \in Threads : Call(t) \/ Step(t)
      BY <2>1, <3>2, StepMaps DEF Mapped, SlotInv, Abstract!Next
    <3> QED BY <2>1, <3>1, <3>2 DEF Next
  <2>2. UNCHANGED vars => UNCHANGED Abstract!vars
    BY DEF vars, Abstract!vars, adjBar, callBar, SlotOf, Occupied, ShownWeight, ShownRecent,
       Holder, InEffect, NewWeight, Slot, Dir, NoEdge
  <2> QED BY <2>1, <2>2
<1> QED BY <1>1, <1>2, <1>3, PTL DEF Spec, Abstract!Safety
=============================================================================
