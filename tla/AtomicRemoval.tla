---------------------------- MODULE AtomicRemoval ----------------------------
(***************************************************************************)
(* What stinger_remove_edge promises to the threads of a parallel loop     *)
(* over deletions: each directed edge is removed at once, and of the       *)
(* threads that ask for the same edge one is told that it removed it.      *)
(***************************************************************************)
EXTENDS Integers

CONSTANTS Threads, Vertices, Graphs

VARIABLES graph,   \* the directed edges there are
          call     \* call[t]: the removal thread t is in, with its result

vars == <<graph, call>>

Idle == [phase |-> "idle"]

Init == graph \in Graphs /\ call = [t \in Threads |-> Idle]

Invoke(t) ==
  /\ call[t] = Idle
  /\ \E e \in Vertices \X Vertices :
       call' = [call EXCEPT ![t] = [phase |-> "called", edge |-> e]]
  /\ UNCHANGED graph

Remove(t) ==
  /\ call[t].phase = "called"
  /\ call' = [call EXCEPT ![t] =
                [phase |-> "removed", edge |-> call[t].edge,
                 ret |-> IF call[t].edge \in graph THEN 1 ELSE -1]]
  /\ graph' = graph \ {call[t].edge}

Return(t) ==
  /\ call[t].phase = "removed"
  /\ call' = [call EXCEPT ![t] = Idle]
  /\ UNCHANGED graph

Next == \E t \in Threads : Invoke(t) \/ Remove(t) \/ Return(t)

Safety == Init /\ [][Next]_vars

Spec == Safety /\ \A t \in Threads : WF_vars(Remove(t)) /\ WF_vars(Return(t))
=============================================================================
