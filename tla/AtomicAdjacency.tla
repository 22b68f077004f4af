--------------------------- MODULE AtomicAdjacency ---------------------------
(***************************************************************************)
(* What a vertex's adjacency list promises to the threads that insert into *)
(* it: each directed update takes effect at once, at some moment between   *)
(* its call and its return.  It adds its direction, an OUT update also     *)
(* sets the weight or adds to it, and records its timestamp.  The weight   *)
(* and the timestamp of an edge that only IN updates made are those of the *)
(* slot it took, a deleted edge's or zero.  The result of an update is not *)
(* part of the promise.                                                    *)
(***************************************************************************)
EXTENDS Integers

CONSTANTS Threads, Vertices, Ops, InitialAdj,
          Unset     \* the weight and timestamp a slot with no edge may have

Idle == [phase |-> "idle"]

VARIABLES adj,    \* adj[v]: directions, weight and recent timestamp
          call    \* call[t]: the update thread t is in, and its phase

vars == <<adj, call>>

Init == /\ adj \in InitialAdj
        /\ call = [t \in Threads |-> Idle]

Invoke(t) ==
  /\ call[t] = Idle
  /\ \E op \in Ops : call' = [call EXCEPT ![t] = [phase |-> "called", op |-> op]]
  /\ UNCHANGED adj

\* The edge after op: a new edge takes the weight as it is, in either mode, and
\* the words u of its slot if op does not set them.
After(e, op, u) ==
  [dirs |-> e.dirs \cup {op.dir},
   weight |-> IF op.dir = "IN" THEN IF e.dirs = {} THEN u.weight ELSE e.weight
              ELSE IF op.mode = "SET" THEN op.weight ELSE e.weight + op.weight,
   recent |-> IF op.dir = "IN" THEN IF e.dirs = {} THEN u.recent ELSE e.recent
              ELSE op.ts]

Apply(t) ==
  /\ call[t].phase = "called"
  /\ \E u \in Unset : adj' = [adj EXCEPT ![call[t].op.dest] = After(@, call[t].op, u)]
  /\ call' = [call EXCEPT ![t].phase = "applied"]

Return(t) ==
  /\ call[t].phase = "applied"
  /\ call' = [call EXCEPT ![t] = Idle]
  /\ UNCHANGED adj

Next == \E t \in Threads : Invoke(t) \/ Apply(t) \/ Return(t)

Safety == Init /\ [][Next]_vars

Spec == Safety /\ \A t \in Threads : WF_vars(Apply(t)) /\ WF_vars(Return(t))
=============================================================================
