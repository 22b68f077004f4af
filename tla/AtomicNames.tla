----------------------------- MODULE AtomicNames -----------------------------
(***************************************************************************)
(* What a table of names promises to the threads that share it: each call  *)
(* takes effect at once, between its start and its return.  A creation     *)
(* gives a name that has no type one that no other name has, and a name    *)
(* keeps its type for good.                                                *)
(***************************************************************************)
EXTENDS Integers, FiniteSets

CONSTANTS Threads, Names, MaxTypes, INT64_MAX

NoType == -1

Idle == [phase |-> "idle"]

VARIABLES type,   \* type[n]: the number name n stands for, or NoType
          call    \* call[t]: the call thread t is in, and its answer

vars == <<type, call>>

Init == /\ type = [n \in Names |-> NoType]
        /\ call = [t \in Threads |-> Idle]

Invoke(t) ==
  /\ call[t] = Idle
  /\ \E op \in {"create", "lookup"}, n \in Names :
       call' = [call EXCEPT ![t] = [phase |-> "called", op |-> op, name |-> n]]
  /\ UNCHANGED type

Called(t, op) == call[t].phase = "called" /\ call[t].op = op

Answer(t, ret, out) ==
  call' = [call EXCEPT ![t] = [phase |-> "answered", op |-> @.op, name |-> @.name,
                               ret |-> ret, out |-> out]]

Create(t) ==
  /\ Called(t, "create")
  /\ type[call[t].name] = NoType
  /\ \E k \in 0..MaxTypes-1 :
       /\ \A n \in Names : type[n] # k
       /\ type' = [type EXCEPT ![call[t].name] = k]
       /\ Answer(t, 1, k)

Find(t) ==
  /\ call[t].phase = "called"
  /\ type[call[t].name] # NoType
  /\ Answer(t, 0, type[call[t].name])
  /\ UNCHANGED type

Miss(t) ==
  /\ Called(t, "lookup")
  /\ type[call[t].name] = NoType
  /\ Answer(t, -1, NoType)
  /\ UNCHANGED type

\* The names that have a type, and those that other threads are creating.
InUse(t) == {n \in Names : type[n] # NoType}
            \cup {call[u].name : u \in {v \in Threads \ {t} : Called(v, "create")}}

\* A creation is refused when no type is left.
Refuse(t) ==
  /\ Called(t, "create")
  /\ type[call[t].name] = NoType
  /\ Cardinality(InUse(t)) >= MaxTypes
  /\ Answer(t, -1, NoType)
  /\ UNCHANGED type

\* The room for the strings can be short as soon as one type is left.
NoRoom(t) ==
  /\ Called(t, "create")
  /\ type[call[t].name] = NoType
  /\ Cardinality(InUse(t)) >= MaxTypes - 1
  /\ Answer(t, -1, INT64_MAX)
  /\ UNCHANGED type

Return(t) == /\ call[t].phase = "answered"
             /\ call' = [call EXCEPT ![t] = Idle]
             /\ UNCHANGED type

Next == \E t \in Threads : \/ Invoke(t) \/ Create(t) \/ Find(t)
                           \/ Miss(t) \/ Refuse(t) \/ NoRoom(t) \/ Return(t)

Spec == Init /\ [][Next]_vars
=============================================================================
