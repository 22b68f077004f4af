----------------------------- MODULE EdgeRemove -----------------------------
(***************************************************************************)
(* Concurrent removal of directed edges: stinger_remove_edge and           *)
(* stinger_remove_edge_pair of stinger_core/src/stinger.c, called by the   *)
(* threads of the parallel loop over a batch's deletions (process_deletions*)
(* of server/src/batch.cpp) and of the test racing_deletions.              *)
(*                                                                         *)
(* A directed edge has a slot at each end: the OUT direction in the list   *)
(* of its source and the IN direction in the list of its destination.  A   *)
(* removal locks both weight words, that of the smaller vertex first, and  *)
(* then takes the two directions away.                                     *)
(*                                                                         *)
(* A list has at most one slot for a neighbour (EdgeInsert!UniqueNeighbor) *)
(* and no slot is reused while a batch's deletions run, so a search is one *)
(* read of that slot.  A slot without a direction is blank.                *)
(***************************************************************************)
EXTENDS Integers, Sequences, FiniteSets

CONSTANTS Threads,        \* the OpenMP threads that remove
          Vertices,
          Ops,            \* removals: from, to and whether of both directions
          RemovalsPerThread, \* bound: removals per thread in a behaviour
          Graphs          \* the out and the in ends of edges the batch may find

ASSUME RemovalAssumption ==
  /\ Vertices \subseteq Nat /\ IsFiniteSet(Vertices)
  /\ Ops \subseteq [from : Vertices, to : Vertices, pair : BOOLEAN]
  /\ Ops # {}
  /\ RemovalsPerThread \in Nat
  /\ Graphs \subseteq [out : SUBSET (Vertices \X Vertices),
                       in : SUBSET (Vertices \X Vertices)]

VARIABLES
  dirs,      \* dirs[<<v, n>>]: the directions in the slot of v for neighbour n
  locked,    \* the slots whose weight word is empty
  numEdges,  \* numEdges[v]: the slots in use, counted by v's blocks
  vertex,    \* vertex[v]: inDegree, outDegree and degree
  pc, frame, \* each thread's position and local variables
  done       \* each thread's completed removals with their results

vars == <<dirs, locked, numEdges, vertex, pc, frame, done>>

SlotNames == Vertices \X Vertices

\* An edge may have one end only: deleteOlderThan takes the ends one at a time,
\* and a graph loaded in CSR form has the ends its caller lists.
EndsIn(g, v, n) == (IF <<v, n>> \in g.out THEN {"OUT"} ELSE {})
                   \cup (IF <<n, v>> \in g.in THEN {"IN"} ELSE {})

SlotsWith(D, v, d) == {n \in Vertices : d \in D[<<v, n>>]}
SlotsOf(D, v) == {n \in Vertices : D[<<v, n>>] # {}}

Counters(D, v) == [outDegree |-> Cardinality(SlotsWith(D, v, "OUT")),
                   inDegree |-> Cardinality(SlotsWith(D, v, "IN")),
                   degree |-> Cardinality(SlotsOf(D, v))]

IdleFrame == [op |-> CHOOSE op \in Ops : TRUE, from |-> 0, to |-> 0,
              side |-> "forward", rtn |-> 0]

Init ==
  /\ \E g \in Graphs : dirs = [s \in SlotNames |-> EndsIn(g, s[1], s[2])]
  /\ locked = {}
  /\ numEdges = [v \in Vertices |-> Cardinality(SlotsOf(dirs, v))]
  /\ vertex = [v \in Vertices |-> Counters(dirs, v)]
  /\ pc = [t \in Threads |-> "idle"]
  /\ frame = [t \in Threads |-> IdleFrame]
  /\ done = [t \in Threads |-> <<>>]

-----------------------------------------------------------------------------
Goto(t, l) == pc' = [pc EXCEPT ![t] = l]

Move(t, from, to) == pc[t] = from /\ Goto(t, to)

\* The slot and the direction of each side of the edge being removed.
Slot(t, side) == IF side = "forward" THEN <<frame[t].from, frame[t].to>>
                                     ELSE <<frame[t].to, frame[t].from>>

Direction(side) == IF side = "forward" THEN "OUT" ELSE "IN"

Other(side) == IF side = "forward" THEN "back" ELSE "forward"

\* Mutant: the search takes a slot of the neighbour whatever its direction.
PresentEitherWay(t, side) == dirs[Slot(t, side)] # {}

Present(t, side) == Direction(side) \in dirs[Slot(t, side)]

\* lock_backedge_first: the side of the smaller vertex is locked first.
FirstSide(from, to) == IF from > to THEN "back" ELSE "forward"

OnFirst(t) == frame[t].side = FirstSide(frame[t].from, frame[t].to)

Start(t, op, from, to, rtn) ==
  /\ frame' = [frame EXCEPT ![t] = [op |-> op, from |-> from, to |-> to,
                                    side |-> FirstSide(from, to), rtn |-> rtn]]
  /\ Goto(t, "seek")

\* stinger_remove_edge returns r.  A pair goes on to the reverse edge, and its
\* result is -1 unless both edges were removed.
Return(t, r) ==
  LET op == frame[t].op IN
  IF op.pair /\ frame[t].rtn = 0
  THEN /\ frame' = [frame EXCEPT ![t].rtn = r]
       /\ Goto(t, "reverse")
       /\ UNCHANGED done
  ELSE /\ done' = [done EXCEPT ![t] = Append(@, [op |-> op, ret |->
                     IF ~op.pair THEN r
                     ELSE IF frame[t].rtn < 0 \/ r < 0 THEN -1 ELSE 3])]
       /\ frame' = [frame EXCEPT ![t] = IdleFrame]
       /\ Goto(t, "idle")

Call(t) ==
  /\ pc[t] = "idle"
  /\ Len(done[t]) < RemovalsPerThread
  /\ \E op \in Ops : Start(t, op, op.from, op.to, 0)
  /\ UNCHANGED <<dirs, locked, numEdges, vertex, done>>

Reverse(t) ==
  /\ pc[t] = "reverse"
  /\ LET op == frame[t].op IN Start(t, op, op.to, op.from, frame[t].rtn)
  /\ UNCHANGED <<dirs, locked, numEdges, vertex, done>>

\* Mutant: the search starts again until the edge is there.
SeekSpin(t) ==
  /\ Move(t, "seek", IF Present(t, frame[t].side) THEN "lock"
                     ELSE IF OnFirst(t) THEN "seek" ELSE "fail_first")
  /\ UNCHANGED <<dirs, locked, numEdges, vertex, frame, done>>

\* The search for this side: without it the first lock, if any, is released.
Seek(t) ==
  /\ Move(t, "seek", IF Present(t, frame[t].side) THEN "lock"
                     ELSE IF OnFirst(t) THEN "missing" ELSE "fail_first")
  /\ UNCHANGED <<dirs, locked, numEdges, vertex, frame, done>>

Missing(t) ==
  /\ pc[t] = "missing"
  /\ Return(t, -1)
  /\ UNCHANGED <<dirs, locked, numEdges, vertex>>

\* Mutant: the weight is exchanged without waiting for it to be full.
LockNoWait(t) ==
  /\ Move(t, "lock", "check")
  /\ locked' = locked \cup {Slot(t, frame[t].side)}
  /\ UNCHANGED <<dirs, numEdges, vertex, frame, done>>

\* readfe of the slot's weight.
Lock(t) ==
  /\ Move(t, "lock", "check")
  /\ Slot(t, frame[t].side) \notin locked
  /\ locked' = locked \cup {Slot(t, frame[t].side)}
  /\ UNCHANGED <<dirs, numEdges, vertex, frame, done>>

\* The slot is looked at again under its lock.
Check(t) ==
  /\ pc[t] = "check"
  /\ \/ /\ Present(t, frame[t].side) /\ OnFirst(t)
        /\ frame' = [frame EXCEPT ![t].side = Other(@)]
        /\ Goto(t, "seek")
     \/ /\ Present(t, frame[t].side) /\ ~OnFirst(t)
        /\ Goto(t, "remove_forward")
        /\ UNCHANGED frame
     \/ /\ ~Present(t, frame[t].side)
        /\ Goto(t, "fail")
        /\ UNCHANGED frame
  /\ UNCHANGED <<dirs, locked, numEdges, vertex, done>>

\* writeef of the weight of the side just locked, then of the first one.
Fail(t) ==
  /\ Move(t, "fail", IF OnFirst(t) THEN "missing" ELSE "fail_first")
  /\ locked' = locked \ {Slot(t, frame[t].side)}
  /\ UNCHANGED <<dirs, numEdges, vertex, frame, done>>

FailFirst(t) ==
  /\ pc[t] = "fail_first"
  /\ locked' = locked \ {Slot(t, Other(frame[t].side))}
  /\ Return(t, -1)
  /\ UNCHANGED <<dirs, numEdges, vertex>>

\* Mutant: the loss of an incoming edge is counted as that of an outgoing one.
CountedSwapped(v, d, left) ==
  [outDegree |-> v.outDegree - (IF d = "IN" THEN 1 ELSE 0),
   inDegree |-> v.inDegree - (IF d = "OUT" THEN 1 ELSE 0),
   degree |-> v.degree - (IF left = {} THEN 1 ELSE 0)]

Counted(v, d, left) ==
  [outDegree |-> v.outDegree - (IF d = "OUT" THEN 1 ELSE 0),
   inDegree |-> v.inDegree - (IF d = "IN" THEN 1 ELSE 0),
   degree |-> v.degree - (IF left = {} THEN 1 ELSE 0)]

\* The deleting branch of update_edge_data_and_direction: nothing is done to a
\* slot that is already blank, and a slot without direction becomes blank.
TakeAway(t, side) ==
  LET s == Slot(t, side)
      left == dirs[s] \ {Direction(side)} IN
  IF dirs[s] = {} THEN UNCHANGED <<dirs, numEdges, vertex>>
  ELSE /\ dirs' = [dirs EXCEPT ![s] = left]
       /\ numEdges' = [numEdges EXCEPT ![s[1]] = IF left = {} THEN @ - 1 ELSE @]
       /\ vertex' = [vertex EXCEPT ![s[1]] = Counted(@, Direction(side), left)]

RemoveForward(t) ==
  /\ Move(t, "remove_forward", "remove_back")
  /\ TakeAway(t, "forward")
  /\ UNCHANGED <<locked, frame, done>>

RemoveBack(t) ==
  /\ Move(t, "remove_back", "unlock_second")
  /\ TakeAway(t, "back")
  /\ UNCHANGED <<locked, frame, done>>

\* The locks are released in the opposite order.
UnlockSecond(t) ==
  /\ Move(t, "unlock_second", "unlock_first")
  /\ locked' = locked \ {Slot(t, frame[t].side)}
  /\ UNCHANGED <<dirs, numEdges, vertex, frame, done>>

UnlockFirst(t) ==
  /\ pc[t] = "unlock_first"
  /\ locked' = locked \ {Slot(t, Other(frame[t].side))}
  /\ Return(t, 1)
  /\ UNCHANGED <<dirs, numEdges, vertex>>

-----------------------------------------------------------------------------
Step(t) ==
  \/ Reverse(t) \/ Seek(t) \/ Missing(t) \/ Lock(t) \/ Check(t) \/ Fail(t) \/ FailFirst(t)
  \/ RemoveForward(t) \/ RemoveBack(t) \/ UnlockSecond(t) \/ UnlockFirst(t)

\* The parallel loop is over.
Finished ==
  /\ \A t \in Threads : pc[t] = "idle" /\ Len(done[t]) = RemovalsPerThread
  /\ UNCHANGED vars

Next == (\E t \in Threads : Call(t) \/ Step(t)) \/ Finished

Spec == Init /\ [][Next]_vars

\* Every thread is scheduled until its removal returns.
Fairness == \A t \in Threads : WF_vars(Step(t))

FairSpec == Spec /\ Fairness
-----------------------------------------------------------------------------
(* Properties.                                                             *)

\* Every variable has its type; no counter is ever decremented below zero.
TypeOK ==
  /\ dirs \in [SlotNames -> SUBSET {"OUT", "IN"}]
  /\ locked \subseteq SlotNames
  /\ numEdges \in [Vertices -> Nat]
  /\ vertex \in [Vertices -> [outDegree : Nat, inDegree : Nat, degree : Nat]]
  /\ pc \in [Threads -> {"idle", "reverse", "seek", "missing", "lock", "check", "fail", "fail_first",
                         "remove_forward", "remove_back", "unlock_second",
                         "unlock_first"}]
  /\ DOMAIN frame = Threads
  /\ DOMAIN done = Threads

\* An edge of which a batch may find one end.
HalfEdge(u, v) == \E g \in Graphs : (<<u, v>> \in g.out) # (<<u, v>> \in g.in)

\* The two locks make the removal of both directions one step to every other
\* removal: an edge that had both ends or none and whose ends now disagree is in
\* the hands of a thread that holds both of its slots (between the two updates
\* of removeEdges).
EndsAgree ==
  \A u, v \in Vertices :
    ~HalfEdge(u, v) /\ ("OUT" \in dirs[<<u, v>>]) # ("IN" \in dirs[<<v, u>>]) =>
      \E t \in Threads : /\ pc[t] = "remove_back"
                         /\ frame[t].from = u /\ frame[t].to = v
                         /\ {<<u, v>>, <<v, u>>} \subseteq locked

\* What stinger_consistency_check verifies after the loop: the degree counters
\* and numEdges equal what the slots hold, and no weight word is left empty,
\* whoever removed which direction of a slot in which order.
ConsistentAtRest == (\A t \in Threads : pc[t] = "idle") =>
  /\ locked = {}
  /\ \A v \in Vertices : /\ vertex[v] = Counters(dirs, v)
                         /\ numEdges[v] = Cardinality(SlotsOf(dirs, v))

\* Slots, locks and counters have their types, no counter ever falls below zero,
\* and they agree when the loop is over.
CountsOK == TypeOK /\ ConsistentAtRest

\* Every removal returns: the order of the two locks rules out that removals of
\* edges in opposite directions wait for each other.
Returns == \A t \in Threads : pc[t] # "idle" ~> pc[t] = "idle"

-----------------------------------------------------------------------------
(* Implementation of AtomicRemoval.  A removal takes effect when it takes  *)
(* the OUT direction away, and a failing one when it finds a side missing. *)

Found == {"remove_back", "unlock_second", "unlock_first"}

callBar ==
  [t \in Threads |->
     IF pc[t] \in {"idle", "reverse"} THEN [phase |-> "idle"]
     ELSE IF pc[t] \in Found
     THEN [phase |-> "removed", edge |-> <<frame[t].from, frame[t].to>>, ret |-> 1]
     ELSE IF pc[t] \in {"fail", "fail_first", "missing"}
     THEN [phase |-> "removed", edge |-> <<frame[t].from, frame[t].to>>, ret |-> -1]
     ELSE [phase |-> "called", edge |-> <<frame[t].from, frame[t].to>>]]

\* An edge is there as long as a removal can find both of its ends.
graphBar == {s \in SlotNames : "OUT" \in dirs[s] /\ "IN" \in dirs[<<s[2], s[1]>>]}

Abstract == INSTANCE AtomicRemoval
              WITH graph <- graphBar, call <- callBar, Graphs <- {g.out \cap g.in : g \in Graphs}

\* Removals are linearizable with their results: each acts as if made at once,
\* of the threads that remove the same edge exactly one is told so, and an edge
\* with one end only is not found.
ImplementsAtomicRemoval == Abstract!Spec
=============================================================================
