------------------------ MODULE EdgeInsertRefinement ------------------------
(***************************************************************************)
(* EdgeInsert implements AtomicAdjacency.  An update takes effect in the   *)
(* step that puts its direction in place (UpdWrite or UpdDir).  From then  *)
(* until the weight lock is released the slot is seen with the weight and  *)
(* the timestamp the thread is about to write; before it, with the weight  *)
(* the thread found.  A hole that is reused by an IN update shows the      *)
(* weight and the timestamp the deleted edge left in it.                   *)
(***************************************************************************)
EXTENDS EdgeInsert

BeforeEffect == {"upd_test", "upd_write", "upd_dir"}

InEffect(t) ==
  \/ pc[t] \in Updating \ BeforeEffect
  \/ pc[t] \in {"restore", "push_ebs", "push_block", "grow_link"}

Holder(s) == CHOOSE t \in Threads : pc[t] \in Updating /\ Slot(t) = s

ShownWeight(s) ==
  LET t == Holder(s) IN
  IF edge[s].weight # MARKER THEN edge[s].weight
  ELSE IF InEffect(t) THEN NewWeight(t) ELSE frame[t].weight

ShownRecent(s) ==
  LET t == Holder(s) IN
  IF edge[s].weight = MARKER /\ InEffect(t) /\ Dir(t) = "OUT"
  THEN frame[t].op.ts ELSE edge[s].timeRecent

SlotOf(v) == CHOOSE s \in Occupied : edge[s].neighbor = v

NoEdge == [dirs |-> {}, weight |-> 0, recent |-> 0]

adjBar ==
  [v \in Vertices |->
     IF \E s \in Occupied : edge[s].neighbor = v
     THEN [dirs |-> edge[SlotOf(v)].dirs, weight |-> ShownWeight(SlotOf(v)),
           recent |-> ShownRecent(SlotOf(v))]
     ELSE NoEdge]

callBar ==
  [t \in Threads |->
     IF pc[t] = "idle" THEN [phase |-> "idle"]
     ELSE [phase |-> IF InEffect(t) THEN "applied" ELSE "called",
           op |-> frame[t].op]]

InitialAdj ==
  {[v \in Vertices |->
      IF \E k \in Indices : k < Len(c) /\ c[k + 1] = v
      THEN LET k == CHOOSE k \in Indices : k < Len(c) /\ c[k + 1] = v IN
           [dirs |-> {"OUT"}, weight |-> old.slot[k].weight,
            recent |-> old.slot[k].timeRecent]
      ELSE NoEdge] : c \in InitContents, old \in OldWords}

WordsOf(e) == [weight |-> e.weight, recent |-> e.timeRecent]

\* What new_eb leaves in the words of a slot, and what a deleted edge left there.
Unset == {WordsOf(ZeroEdge)} \cup
         UNION {{WordsOf(InitEdge(c, old)[s]) : s \in {r \in Slots : InitEdge(c, old)[r].dirs = {}}} :
                c \in InitContents, old \in OldWords}

Abstract == INSTANCE AtomicAdjacency WITH adj <- adjBar, call <- callBar

\* Concurrent insertion is linearizable and every update returns: the threads'
\* directed updates act as if each were made at once, so no weight increment,
\* direction or recent timestamp is lost or counted twice under any schedule.
ImplementsAtomic == Abstract!Spec
=============================================================================
