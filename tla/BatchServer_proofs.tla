------------------------- MODULE BatchServer_proofs -------------------------
(***************************************************************************)
(* Theorems about BatchServer for any number of streams and batches and    *)
(* any STINGER_MAX_BATCHES.                                                *)
(***************************************************************************)
EXTENDS BatchServer, FiniteSetTheorems, SequenceTheorems, TLAPS

-----------------------------------------------------------------------------
(* Types, and what the threads hold.                                       *)

Positions == {"recv", "check", "enqueue", "push", "after", "exit"}

Types ==
  /\ pc \in [Streams -> Positions]
  /\ batch \in [Streams -> Batches \cup {NoBatch}]
  /\ nfail \in [Streams -> 0..3]
  /\ sent \in [Streams -> 0..Messages]
  /\ batch_lock \in Streams \cup {NoOne, "loop"}
  /\ batches \in Seq(Batches) /\ processed \in Seq(Batches)
  /\ loop \in {"wait", "pop", "process", "delete"} /\ cur \in Batches \cup {NoBatch}
  /\ freed \subseteq Batches /\ dropped \subseteq Batches

\* A stream holds the batch it received last, and whoever has the lock finds
\* the queue as it was when it took it, or longer.
HoldsOK ==
  /\ \A s \in Streams : pc[s] \in {"check", "enqueue", "push", "after"} =>
       batch[s] \in Batches /\ batch[s].from = s /\ batch[s].seq = sent[s]
  /\ \A s \in Streams : pc[s] # "exit" => nfail[s] <= 2
  /\ \A s \in Streams : pc[s] = "push" => batch_lock = s
  /\ loop = "pop" => batch_lock = "loop" /\ batches # <<>>
  /\ loop \in {"process", "delete"} => cur \in Batches

TypeInv == Types /\ HoldsOK

LEMMA InitTypes == Init => TypeInv
<1> SUFFICES ASSUME Init PROVE TypeInv
  OBVIOUS
<1> USE BatchServerAssumption DEF Init
<1>1. Types
  BY DEF Types, Positions
<1>2. HoldsOK
  BY DEF HoldsOK
<1> QED BY <1>1, <1>2 DEF TypeInv

LEMMA StreamTypes ==
  ASSUME TypeInv, NEW s \in Streams,
         RecvBatch(s) \/ RecvEmpty(s) \/ RecvFail(s) \/ StreamStep(s)
  PROVE  TypeInv'
<1> USE BatchServerAssumption DEF TypeInv
<1>1. CASE RecvBatch(s)
  <2>1. sent[s] + 1 \in 1..Messages
    BY <1>1 DEF RecvBatch, Types
  <2>2. PICK k \in BOOLEAN :
          batch' = [batch EXCEPT ![s] = [from |-> s, seq |-> sent[s] + 1, keep_alive |-> k]]
    BY <1>1 DEF RecvBatch
  <2>3. [from |-> s, seq |-> sent[s] + 1, keep_alive |-> k] \in Batches
    BY <2>1 DEF Batches
  <2>4. Types'
    BY <1>1, <2>1, <2>2, <2>3 DEF RecvBatch, Goto, Types, Positions
  <2>5. HoldsOK'
    BY <1>1, <2>1, <2>2, <2>3 DEF RecvBatch, Goto, Types, HoldsOK
  <2> QED BY <2>4, <2>5
<1>2. CASE RecvEmpty(s)
  <2>1. Types'
    BY <1>2 DEF RecvEmpty, Goto, Types, Positions
  <2>2. HoldsOK'
    BY <1>2 DEF RecvEmpty, Goto, Types, HoldsOK
  <2> QED BY <2>1, <2>2
<1>3. CASE RecvFail(s)
  <2>1. nfail[s] \in 0..2
    BY <1>3 DEF RecvFail, Types, HoldsOK
  <2>2. Types'
    BY <1>3, <2>1 DEF RecvFail, Goto, Types, Positions
  <2>3. ASSUME NEW u \in Streams, u # s PROVE pc'[u] = pc[u] /\ nfail'[u] = nfail[u]
    BY <1>3, <2>3 DEF RecvFail, Goto, Types
  <2>4. pc'[s] \in {"recv", "exit"} /\ (pc'[s] = "recv" => nfail'[s] <= 2)
    BY <1>3, <2>1 DEF RecvFail, Goto, Types
  <2>5. HoldsOK'
    BY <1>3, <2>3, <2>4 DEF RecvFail, HoldsOK
  <2> QED BY <2>2, <2>5
<1>4. CASE Check(s)
  <2>1. batch[s] \in Batches
    BY <1>4 DEF Check, HoldsOK
  <2>2. /\ pc' \in {[pc EXCEPT ![s] = "recv"], [pc EXCEPT ![s] = "enqueue"]}
        /\ dropped' \in {dropped, dropped \cup {batch[s]}}
        /\ freed' \in {freed, freed \cup {batch[s]}}
        /\ UNCHANGED <<batch, nfail, sent, batch_lock, batches, loop, cur, processed>>
        /\ pc[s] = "check"
    BY <1>4 DEF Check, Delete, Goto
  <2>3. nfail[s] <= 2
    BY <2>2 DEF HoldsOK
  <2>4. Types'
    BY <2>1, <2>2 DEF Types, Positions
  <2>5. HoldsOK'
    BY <2>2, <2>3 DEF Types, HoldsOK
  <2> QED BY <2>4, <2>5
<1>5. CASE Lock(s)
  <2>1. Types'
    BY <1>5 DEF Lock, Goto, Types, Positions
  <2>2. HoldsOK'
    BY <1>5 DEF Lock, Goto, Types, HoldsOK
  <2> QED BY <2>1, <2>2
<1>6. CASE Push(s)
  <2>1. batch[s] \in Batches /\ batch_lock = s
    BY <1>6 DEF Push, HoldsOK
  <2>2. batches' \in Seq(Batches) /\ batches' # <<>>
    BY <1>6, <2>1, SMTT(40) DEF Push, Types
  <2>4. Types'
    BY <1>6, <2>2 DEF Push, Goto, Types, Positions
  <2>3. HoldsOK'
    BY <1>6, <2>1, <2>2 DEF Push, Goto, Types, HoldsOK
  <2> QED BY <2>3, <2>4
<1>7. CASE After(s)
  <2>1. batch[s] \in Batches
    BY <1>7 DEF After, HoldsOK
  <2>2. /\ pc' \in {pc, [pc EXCEPT ![s] = "recv"], [pc EXCEPT ![s] = "exit"]}
        /\ freed' \in {freed, freed \cup {batch[s]}}
        /\ UNCHANGED <<batch, nfail, sent, batch_lock, batches, loop, cur, processed, dropped>>
        /\ pc[s] = "after"
    BY <1>7 DEF After, Delete, Goto
  <2>3. Types'
    BY <2>1, <2>2 DEF Types, Positions
  <2>4. nfail[s] <= 2
    BY <2>2 DEF HoldsOK
  <2>5. HoldsOK'
    <3>1. CASE pc' = pc
      BY <2>2, <3>1 DEF HoldsOK
    <3>2. CASE pc' = [pc EXCEPT ![s] = "recv"]
      BY <2>2, <2>4, <3>2 DEF Types, HoldsOK
    <3>3. CASE pc' = [pc EXCEPT ![s] = "exit"]
      BY <2>2, <3>3 DEF Types, HoldsOK
    <3> QED BY <2>2, <3>1, <3>2, <3>3
  <2> QED BY <2>3, <2>5
<1> QED BY <1>1, <1>2, <1>3, <1>4, <1>5, <1>6, <1>7 DEF StreamStep

LEMMA LoopTypes == ASSUME TypeInv, LoopStep PROVE TypeInv'
<1> USE BatchServerAssumption DEF TypeInv
<1>1. CASE LoopLock
  BY <1>1 DEF LoopLock, Types, HoldsOK, stream
<1>2. CASE LoopPop
  <2>1. batches # <<>> /\ batch_lock = "loop"
    BY <1>2 DEF LoopPop, HoldsOK
  <2>2. Head(batches) \in Batches /\ Tail(batches) \in Seq(Batches)
    BY <2>1 DEF Types
  <2>3. Types'
    BY <1>2, <2>2 DEF LoopPop, Types, stream
  <2>4. HoldsOK'
    BY <1>2, <2>1, <2>2 DEF LoopPop, HoldsOK, stream
  <2> QED BY <2>3, <2>4
<1>3. CASE LoopProcess
  <2>1. cur \in Batches
    BY <1>3 DEF LoopProcess, HoldsOK
  <2>2. Types'
    BY <1>3, <2>1 DEF LoopProcess, Types, stream
  <2>3. HoldsOK'
    BY <1>3, <2>1 DEF LoopProcess, HoldsOK, stream
  <2> QED BY <2>2, <2>3
<1>4. CASE LoopDelete
  <2>1. cur \in Batches
    BY <1>4 DEF LoopDelete, HoldsOK
  <2>2. Types'
    BY <1>4, <2>1 DEF LoopDelete, Delete, Types, stream
  <2>3. HoldsOK'
    BY <1>4 DEF LoopDelete, HoldsOK, stream
  <2> QED BY <2>2, <2>3
<1> QED BY <1>1, <1>2, <1>3, <1>4 DEF LoopStep

LEMMA NextTypes == TypeInv /\ [Next]_vars => TypeInv'
<1>1. TypeInv /\ UNCHANGED vars => TypeInv'
  BY DEF vars, stream, TypeInv, Types, HoldsOK
<1> QED BY <1>1, StreamTypes, LoopTypes DEF Next

\* Batches, queue and threads keep their types, the queue is never popped empty,
\* and only the thread that has the lock changes it.
THEOREM TypeInvariant == Spec => []TypeInv
BY InitTypes, NextTypes, PTL DEF Spec

-----------------------------------------------------------------------------
(* The length of the queue.                                                *)

\* Streams that have found the queue short enough and have not pushed yet.
Waiting == {s \in Streams : pc[s] \in {"enqueue", "push"}}

Bound ==
  ~torn => Len(batches) + Cardinality(Waiting) <= STINGER_MAX_BATCHES + Cardinality(Streams) - 1

LEMMA WaitingTypes ==
  /\ IsFiniteSet(Waiting) /\ Cardinality(Waiting) \in Nat
  /\ Cardinality(Waiting) <= Cardinality(Streams) /\ Cardinality(Streams) \in Nat
<1>1. Waiting \subseteq Streams /\ IsFiniteSet(Streams)
  BY BatchServerAssumption DEF Waiting
<1> QED BY <1>1, FS_Subset, FS_CardinalityType

LEMMA InitBound == Init => Bound
<1> SUFFICES ASSUME Init PROVE Bound
  OBVIOUS
<1>1. Waiting = {} /\ Len(batches) = 0
  BY DEF Init, Waiting
<1>2. Cardinality(Waiting) = 0
  BY <1>1, FS_EmptySet
<1> QED BY <1>1, <1>2, WaitingTypes, BatchServerAssumption DEF Bound

LEMMA BoundKept ==
  ASSUME TypeInv, Bound, torn' = torn, Waiting' = Waiting, Len(batches') <= Len(batches),
         Len(batches') \in Nat
  PROVE  Bound'
<1>1. Len(batches) \in Nat
  BY DEF TypeInv, Types
<1> QED BY <1>1, WaitingTypes, BatchServerAssumption DEF Bound

LEMMA NextBound == TypeInv /\ TypeInv' /\ Bound /\ [Next]_vars => Bound'
<1> SUFFICES ASSUME TypeInv, TypeInv', Bound, [Next]_vars PROVE Bound'
  OBVIOUS
<1>1. /\ Len(batches) \in Nat /\ Len(batches') \in Nat
      /\ pc \in [Streams -> Positions] /\ pc' \in [Streams -> Positions]
      /\ batches \in Seq(Batches)
  BY DEF TypeInv, Types
<1>2. CASE UNCHANGED vars
  BY <1>1, <1>2, BoundKept DEF vars, stream, Waiting
<1>3. CASE LoopStep
  <2>1. Waiting' = Waiting /\ torn' = torn
    BY <1>3 DEF LoopStep, LoopLock, LoopPop, LoopProcess, LoopDelete, stream, Waiting
  <2>2. Len(batches') <= Len(batches)
    <3>1. CASE LoopPop
      <4>1. batches # <<>> /\ batches' = Tail(batches)
        BY <3>1 DEF LoopPop, TypeInv, HoldsOK
      <4> QED BY <1>1, <4>1
    <3>2. CASE ~LoopPop
      BY <1>1, <1>3, <3>2 DEF LoopStep, LoopLock, LoopProcess, LoopDelete
    <3> QED BY <3>1, <3>2
  <2> QED BY <1>1, <2>1, <2>2, BoundKept
<1>4. ASSUME NEW s \in Streams,
             RecvBatch(s) \/ RecvEmpty(s) \/ RecvFail(s) \/ Lock(s) \/ After(s)
      PROVE  Bound'
  <2>1. torn' = torn /\ batches' = batches
    BY <1>4 DEF RecvBatch, RecvEmpty, RecvFail, Lock, After
  <2>2. /\ pc[s] \in {"enqueue", "push"} <=> pc'[s] \in {"enqueue", "push"}
        /\ \A u \in Streams \ {s} : pc'[u] = pc[u]
    BY <1>1, <1>4 DEF RecvBatch, RecvEmpty, RecvFail, Lock, After, Goto
  <2>3. Waiting' = Waiting
    BY <2>2 DEF Waiting
  <2> QED BY <1>1, <2>1, <2>3, BoundKept
<1>5. ASSUME NEW s \in Streams, Check(s) PROVE Bound'
  <2>1. torn' = torn /\ batches' = batches
    BY <1>5 DEF Check
  <2>2. CASE pc' = [pc EXCEPT ![s] = "recv"]
    <3>1. Waiting' = Waiting
      BY <1>1, <1>5, <2>2 DEF Check, Waiting
    <3> QED BY <1>1, <2>1, <3>1, BoundKept
  <2>3. CASE pc' # [pc EXCEPT ![s] = "recv"] /\ ~torn
    <3>1. ~Full
      BY <1>5, <2>3 DEF Check, SeesFull, Goto
    <3>2. Cardinality(Waiting)' <= Cardinality(Streams)' /\ Cardinality(Waiting)' \in Nat
          /\ Cardinality(Streams)' \in Nat
      <4>1. Waiting' \subseteq Streams /\ IsFiniteSet(Streams)
        BY BatchServerAssumption DEF Waiting
      <4> QED BY <4>1, FS_Subset, FS_CardinalityType
    <3> QED BY <1>1, <2>1, <3>1, <3>2, BatchServerAssumption DEF Full, Bound
  <2> QED BY <2>1, <2>2, <2>3 DEF Bound
<1>6. ASSUME NEW s \in Streams, Push(s) PROVE Bound'
  <2>1. /\ torn' = torn /\ pc[s] = "push" /\ batches' = Append(batches, batch[s])
        /\ pc' = [pc EXCEPT ![s] = "after"]
    BY <1>6 DEF Push, Goto
  <2>2. Len(batches') = Len(batches) + 1
    BY <1>1, <2>1
  <2>3. s \in Waiting /\ Waiting' = Waiting \ {s}
    BY <1>1, <2>1 DEF Waiting
  <2>4. Cardinality(Waiting') = Cardinality(Waiting) - 1
    BY <2>3, WaitingTypes, FS_RemoveElement
  <2> QED BY <1>1, <2>1, <2>2, <2>4, WaitingTypes, BatchServerAssumption DEF Bound
<1> QED BY <1>2, <1>3, <1>4, <1>5, <1>6 DEF Next, StreamStep

-----------------------------------------------------------------------------
(* The line of batches: processed ones, the one with the process loop and  *)
(* the queue.  Every step leaves it as it is, but for Push.                *)

WithLoop == IF loop = "process" THEN 1 ELSE 0

LineLen == Len(processed) + WithLoop + Len(batches)

Line == [j \in 1..LineLen |->
           IF j <= Len(processed) THEN processed[j]
           ELSE IF j <= Len(processed) + WithLoop THEN cur
           ELSE batches[j - Len(processed) - WithLoop]]

LEMMA LineTypes ==
  ASSUME TypeInv
  PROVE  /\ Len(processed) \in Nat /\ WithLoop \in {0, 1} /\ Len(batches) \in Nat
         /\ LineLen \in Nat /\ DOMAIN Line = 1..LineLen
         /\ \A j \in 1..LineLen : Line[j] \in Batches
<1>1. /\ Len(processed) \in Nat /\ WithLoop \in {0, 1} /\ Len(batches) \in Nat
      /\ batches \in Seq(Batches) /\ processed \in Seq(Batches)
      /\ WithLoop = 1 => cur \in Batches
  BY DEF TypeInv, Types, HoldsOK, WithLoop
<1>2. LineLen \in Nat /\ DOMAIN Line = 1..LineLen
  BY <1>1 DEF LineLen, Line
<1>3. ASSUME NEW j \in 1..LineLen PROVE Line[j] \in Batches
  <2>1. CASE j <= Len(processed)
    BY <1>1, <2>1 DEF Line
  <2>2. CASE j > Len(processed) /\ j <= Len(processed) + WithLoop
    BY <1>1, <2>2 DEF Line
  <2>3. CASE j > Len(processed) + WithLoop
    <3>1. j - Len(processed) - WithLoop \in 1..Len(batches)
      BY <1>1, <2>3 DEF LineLen
    <3> QED BY <1>1, <2>3, <3>1 DEF Line
  <2> QED BY <1>1, <2>1, <2>2, <2>3
<1> QED BY <1>1, <1>2, <1>3

LEMMA LineKept ==
  ASSUME TypeInv, UNCHANGED <<processed, loop, cur, batches>>
  PROVE  Line' = Line
BY DEF Line, LineLen, WithLoop

LEMMA LoopLine == ASSUME TypeInv, LoopStep PROVE Line' = Line /\ LineLen' = LineLen
<1>1. batches \in Seq(Batches) /\ processed \in Seq(Batches)
  BY DEF TypeInv, Types
<1>2. CASE LoopLock
  BY <1>2 DEF LoopLock, Line, LineLen, WithLoop
<1>3. CASE LoopPop
  <2>1. /\ batches # <<>> /\ batches' = Tail(batches) /\ cur' = Head(batches)
        /\ WithLoop = 0 /\ WithLoop' = 1 /\ processed' = processed
    BY <1>3 DEF LoopPop, TypeInv, HoldsOK, WithLoop
  <2>2. /\ Len(batches') = Len(batches) - 1 /\ Len(batches) \in Nat /\ Head(batches) = batches[1]
        /\ \A k \in 1..Len(batches) - 1 : batches'[k] = batches[k + 1]
    BY <1>1, <2>1
  <2>3. LineLen' = LineLen
    BY <1>1, <2>1, <2>2 DEF LineLen
  <2>4. ASSUME NEW j \in 1..LineLen PROVE Line'[j] = Line[j]
    <3>1. CASE j <= Len(processed)
      BY <1>1, <2>1, <2>3, <3>1 DEF Line
    <3>2. CASE j = Len(processed) + 1
      BY <1>1, <2>1, <2>2, <2>3, <3>2 DEF Line
    <3>3. CASE j > Len(processed) + 1
      <4>1. j - Len(processed) - 1 \in 1..Len(batches) - 1
        BY <1>1, <2>1, <2>2, <3>3 DEF LineLen
      <4>2. batches'[j - Len(processed) - 1] = batches[j - Len(processed)]
        BY <1>1, <2>2, <4>1
      <4>3. Line'[j] = batches'[j - Len(processed) - 1]
        <5>1. Line'[j] = batches'[j - Len(processed') - WithLoop']
          <6>1. j \in 1..LineLen' /\ ~(j <= Len(processed')) /\ ~(j <= Len(processed') + WithLoop')
            BY <1>1, <2>1, <2>3, <3>3
          <6> QED BY <6>1 DEF Line
        <5> QED BY <2>1, <5>1
      <4>4. Line[j] = batches[j - Len(processed)]
        <5>1. j - Len(processed) - 0 = j - Len(processed)
          BY <1>1
        <5> QED BY <1>1, <2>1, <3>3, <5>1 DEF Line
      <4> QED BY <4>2, <4>3, <4>4
    <3> QED BY <1>1, <3>1, <3>2, <3>3
  <2> QED BY <2>3, <2>4 DEF Line
<1>4. CASE LoopProcess
  <2>1. /\ processed' = Append(processed, cur) /\ cur' = cur /\ batches' = batches
        /\ WithLoop = 1 /\ WithLoop' = 0 /\ cur \in Batches
    BY <1>4 DEF LoopProcess, TypeInv, HoldsOK, WithLoop
  <2>2. /\ Len(processed') = Len(processed) + 1 /\ processed'[Len(processed) + 1] = cur
        /\ \A k \in 1..Len(processed) : processed'[k] = processed[k]
        /\ Len(processed) \in Nat /\ Len(batches) \in Nat
    BY <1>1, <2>1
  <2>3. LineLen' = LineLen
    BY <2>1, <2>2 DEF LineLen
  <2>4. ASSUME NEW j \in 1..LineLen PROVE Line'[j] = Line[j]
    BY <2>1, <2>2, <2>3 DEF Line
  <2> QED BY <2>3, <2>4 DEF Line
<1>5. CASE LoopDelete
  <2>1. WithLoop = 0 /\ WithLoop' = 0 /\ processed' = processed /\ batches' = batches
    BY <1>5 DEF LoopDelete, WithLoop
  <2>2. LineLen' = LineLen
    BY <2>1 DEF LineLen
  <2>3. ASSUME NEW j \in 1..LineLen PROVE Line'[j] = Line[j]
    BY <1>1, <2>1, <2>2 DEF Line
  <2> QED BY <2>2, <2>3 DEF Line
<1> QED BY <1>2, <1>3, <1>4, <1>5 DEF LoopStep

LEMMA PushLine ==
  ASSUME TypeInv, NEW s \in Streams, Push(s)
  PROVE  /\ LineLen' = LineLen + 1 /\ DOMAIN Line' = 1..LineLen + 1
         /\ Line'[LineLen + 1] = batch[s]
         /\ \A j \in 1..LineLen : Line'[j] = Line[j]
<1>1. batches \in Seq(Batches) /\ processed \in Seq(Batches) /\ batch[s] \in Batches
  BY DEF TypeInv, Types, HoldsOK, Push
<1>2. /\ batches' = Append(batches, batch[s]) /\ processed' = processed /\ cur' = cur
      /\ WithLoop' = WithLoop /\ WithLoop \in {0, 1}
  BY DEF Push, WithLoop
<1>3. /\ Len(batches') = Len(batches) + 1 /\ batches'[Len(batches) + 1] = batch[s]
      /\ \A k \in 1..Len(batches) : batches'[k] = batches[k]
      /\ Len(processed) \in Nat /\ Len(batches) \in Nat
  BY <1>1, <1>2
<1>4. LineLen' = LineLen + 1 /\ LineLen \in Nat
  BY <1>2, <1>3 DEF LineLen
<1>5. Line'[LineLen + 1] = batch[s]
  <2>1. LineLen + 1 - Len(processed) - WithLoop = Len(batches) + 1
    BY <1>2, <1>3 DEF LineLen
  <2>2. ~(LineLen + 1 <= Len(processed)) /\ ~(LineLen + 1 <= Len(processed) + WithLoop)
    BY <1>2, <1>3 DEF LineLen
  <2> QED BY <1>2, <1>3, <1>4, <2>1, <2>2 DEF Line
<1>6. ASSUME NEW j \in 1..LineLen PROVE Line'[j] = Line[j]
  <2>1. CASE j <= Len(processed) + WithLoop
    BY <1>2, <1>3, <1>4, <2>1 DEF Line
  <2>2. CASE j > Len(processed) + WithLoop
    <3>1. j - Len(processed) - WithLoop \in 1..Len(batches)
      BY <1>2, <1>3, <2>2 DEF LineLen
    <3> QED BY <1>2, <1>3, <1>4, <2>2, <3>1 DEF Line
  <2> QED BY <1>2, <1>3, <2>1, <2>2
<1> QED BY <1>4, <1>5, <1>6 DEF Line

-----------------------------------------------------------------------------
(* Where the batches of a stream are.                                      *)

InHand(s) == pc[s] \in {"check", "enqueue", "push"}

\* b was received, and its stream does not hold it.
Given(b) == b.seq <= sent[b.from] /\ (InHand(b.from) => b.seq < sent[b.from])

Same(b, c) == b.from = c.from /\ b.seq = c.seq

InLine(s, i) == \E j \in 1..LineLen : Line[j].from = s /\ Line[j].seq = i
InDropped(s, i) == \E b \in dropped : b.from = s /\ b.seq = i

LineOK ==
  /\ \A i, j \in 1..LineLen : i < j /\ Line[i].from = Line[j].from => Line[i].seq < Line[j].seq
  /\ \A j \in 1..LineLen : Given(Line[j])
  /\ \A b \in dropped : Given(b) /\ \A j \in 1..LineLen : ~Same(b, Line[j])
  /\ \A s \in Streams : \A i \in 1..sent[s] :
       (InHand(s) /\ i = sent[s]) \/ InLine(s, i) \/ InDropped(s, i)

LEMMA InitLine == Init => LineOK
<1> SUFFICES ASSUME Init PROVE LineOK
  OBVIOUS
<1>1. LineLen = 0
  BY DEF Init, LineLen, WithLoop
<1>2. dropped = {} /\ \A s \in Streams : sent[s] = 0
  BY DEF Init
<1> QED BY <1>1, <1>2 DEF LineOK

\* Steps after which the streams hold what they held, or a new batch.
LEMMA LineOKKept ==
  ASSUME TypeInv, LineOK, Line' = Line, LineLen' = LineLen, dropped' = dropped,
         \A s \in Streams : /\ sent'[s] = sent[s] \/ (sent'[s] = sent[s] + 1 /\ InHand(s)' /\ ~InHand(s))
                            /\ sent'[s] = sent[s] => (InHand(s)' <=> InHand(s))
  PROVE  LineOK'
<1>1. /\ \A s \in Streams : sent[s] \in Nat
      /\ \A b \in dropped : b.from \in Streams /\ b.seq \in Nat
      /\ \A j \in 1..LineLen : Line[j].from \in Streams /\ Line[j].seq \in Nat
  BY LineTypes, BatchServerAssumption, SMTT(40) DEF TypeInv, Types, Batches
<1>2. \A b : b.from \in Streams /\ b.seq \in Nat /\ Given(b) => Given(b)'
  BY <1>1 DEF Given
<1>3. \A j \in 1..LineLen : Given(Line[j])'
  BY <1>1, <1>2 DEF LineOK
<1>4. \A b \in dropped : Given(b)'
  BY <1>1, <1>2 DEF LineOK
<1>5. \A s \in Streams : \A i \in 1..sent'[s] :
        (InHand(s)' /\ i = sent'[s]) \/ InLine(s, i) \/ InDropped(s, i)
  BY <1>1 DEF LineOK
<1> QED BY <1>3, <1>4, <1>5 DEF LineOK, InLine, InDropped, Given, Same

LEMMA CheckLine ==
  ASSUME TypeInv, LineOK, NEW s \in Streams, Check(s)
  PROVE  LineOK'
<1>1. /\ pc[s] = "check" /\ pc \in [Streams -> Positions] /\ batch[s] \in Batches
      /\ batch[s].from = s /\ batch[s].seq = sent[s]
      /\ \A u \in Streams : sent[u] \in Nat
  BY BatchServerAssumption DEF TypeInv, Types, HoldsOK, Check
<1>2. Line' = Line /\ LineLen' = LineLen /\ sent' = sent
  BY LineKept DEF Check, LineLen, WithLoop
<1>3. CASE pc' = [pc EXCEPT ![s] = "enqueue"]
  <2>1. dropped' = dropped
    BY <1>1, <1>3 DEF Check, Goto
  <2> QED BY <1>1, <1>2, <1>3, <2>1, LineOKKept DEF InHand
<1>4. CASE pc' = [pc EXCEPT ![s] = "recv"] /\ dropped' = dropped \cup {batch[s]}
  <2>1. ~InHand(s)' /\ InHand(s) /\ \A u \in Streams \ {s} : InHand(u)' <=> InHand(u)
    BY <1>1, <1>4 DEF InHand
  <2>2. /\ \A b \in dropped : b.from \in Streams
        /\ \A j \in 1..LineLen : Line[j].from \in Streams /\ Line[j].seq \in Nat
    BY LineTypes DEF TypeInv, Types, Batches
  <2>3. \A b : b.from \in Streams /\ Given(b) => Given(b)'
    BY <1>2, <2>1 DEF Given
  <2>4. \A b : b = batch[s] => Given(b)'
    BY <1>1, <1>2, <2>1 DEF Given
  <2>5. \A j \in 1..LineLen : ~Same(batch[s], Line[j])
    BY <1>1, <2>1, <2>2 DEF LineOK, Given, Same
  <2>6. \A u \in Streams : \A i \in 1..sent[u] :
          (InHand(u)' /\ i = sent[u]) \/ InLine(u, i) \/ InDropped(u, i)'
    BY <1>1, <1>4, <2>1 DEF LineOK, InDropped
  <2>7. \A j \in 1..LineLen : Given(Line[j])'
    BY <1>2, <2>2, <2>3 DEF LineOK, Given
  <2>8. \A b \in dropped' : Given(b)' /\ \A j \in 1..LineLen : ~Same(b, Line[j])
    BY <1>4, <2>2, <2>3, <2>4, <2>5 DEF LineOK
  <2> QED BY <1>2, <2>6, <2>7, <2>8 DEF LineOK, InLine, InDropped, Given, Same
<1> QED BY <1>3, <1>4 DEF Check, Goto

LEMMA PushLineOK ==
  ASSUME TypeInv, LineOK, NEW s \in Streams, Push(s)
  PROVE  LineOK'
<1>1. /\ pc[s] = "push" /\ pc' = [pc EXCEPT ![s] = "after"] /\ pc \in [Streams -> Positions]
      /\ batch[s] \in Batches /\ batch[s].from = s /\ batch[s].seq = sent[s]
      /\ sent' = sent /\ dropped' = dropped /\ \A u \in Streams : sent[u] \in Nat
  BY BatchServerAssumption DEF TypeInv, Types, HoldsOK, Push, Goto
<1>2. ~InHand(s)' /\ InHand(s) /\ \A u \in Streams \ {s} : InHand(u)' <=> InHand(u)
  BY <1>1 DEF InHand
<1>3. /\ LineLen' = LineLen + 1 /\ Line'[LineLen + 1] = batch[s] /\ LineLen \in Nat
      /\ \A j \in 1..LineLen : Line'[j] = Line[j]
  BY PushLine, LineTypes
<1>4. /\ \A b \in dropped : b.from \in Streams /\ b.seq \in Nat
      /\ \A j \in 1..LineLen : Line[j].from \in Streams /\ Line[j].seq \in Nat
  BY LineTypes DEF TypeInv, Types, Batches
<1>5. \A b : b.from \in Streams /\ Given(b) => Given(b)'
  BY <1>1, <1>2 DEF Given
<1>6. \A j \in 1..LineLen : Line[j].from = s => Line[j].seq < sent[s]
  BY <1>1, <1>2 DEF LineOK, Given
<1>7. \A i, j \in 1..LineLen + 1 : i < j /\ Line'[i].from = Line'[j].from =>
        Line'[i].seq < Line'[j].seq
  <2> SUFFICES ASSUME NEW i \in 1..LineLen + 1, NEW j \in 1..LineLen + 1, i < j,
                      Line'[i].from = Line'[j].from
               PROVE  Line'[i].seq < Line'[j].seq
    OBVIOUS
  <2>1. i \in 1..LineLen /\ Line'[i] = Line[i]
    BY <1>3
  <2>2. CASE j = LineLen + 1
    BY <1>1, <1>3, <1>6, <2>1, <2>2
  <2>3. CASE j # LineLen + 1
    <3>1. j \in 1..LineLen /\ Line'[j] = Line[j]
      BY <1>3, <2>3
    <3> QED BY <2>1, <3>1 DEF LineOK
  <2> QED BY <2>2, <2>3
<1>8. \A j \in 1..LineLen + 1 : Given(Line[j])' 
  <2> SUFFICES ASSUME NEW j \in 1..LineLen + 1 PROVE Given(Line[j])'
    OBVIOUS
  <2>1. CASE j = LineLen + 1
    BY <1>1, <1>2, <1>3, <2>1 DEF Given
  <2>2. CASE j # LineLen + 1
    <3>1. j \in 1..LineLen /\ Line'[j] = Line[j]
      BY <1>3, <2>2
    <3>2. Given(Line[j]) /\ Line[j].from \in Streams
      BY <1>4, <3>1 DEF LineOK
    <3> QED BY <1>1, <1>2, <3>1, <3>2 DEF Given
  <2> QED BY <2>1, <2>2
<1>9. ASSUME NEW b \in dropped
      PROVE  Given(b)' /\ \A j \in 1..LineLen + 1 : ~Same(b, Line'[j])
  <2>1. Given(b) /\ Given(b)'
    BY <1>4, <1>5 DEF LineOK
  <2>2. ~Same(b, Line'[LineLen + 1])
    BY <1>1, <1>2, <1>3, <1>4, <2>1 DEF Given, Same
  <2>3. \A j \in 1..LineLen : ~Same(b, Line'[j])
    BY <1>3 DEF LineOK
  <2>4. \A j \in 1..LineLen + 1 : j = LineLen + 1 \/ j \in 1..LineLen
    BY <1>3
  <2> QED BY <2>1, <2>2, <2>3, <2>4
<1>10. ASSUME NEW u \in Streams, NEW i \in 1..sent[u]
       PROVE  (InHand(u)' /\ i = sent[u]) \/ InLine(u, i)' \/ InDropped(u, i)'
  <2>1. InDropped(u, i) => InDropped(u, i)'
    BY <1>1 DEF InDropped
  <2>2. InLine(u, i) => InLine(u, i)'
    BY <1>3 DEF InLine
  <2>3. CASE u = s /\ i = sent[s]
    <3>1. LineLen + 1 \in 1..LineLen' /\ Line'[LineLen + 1].from = s /\ Line'[LineLen + 1].seq = sent[s]
      BY <1>1, <1>3
    <3> QED BY <2>3, <3>1 DEF InLine
  <2> QED BY <1>2, <2>1, <2>2, <2>3 DEF LineOK
<1> QED BY <1>1, <1>3, <1>7, <1>8, <1>9, <1>10 DEF LineOK, Same

LEMMA NextLine == TypeInv /\ LineOK /\ [Next]_vars => LineOK'
<1> SUFFICES ASSUME TypeInv, LineOK, [Next]_vars PROVE LineOK'
  OBVIOUS
<1>1. /\ pc \in [Streams -> Positions] /\ sent \in [Streams -> 0..Messages]
      /\ Messages \in Nat
  BY BatchServerAssumption DEF TypeInv, Types
<1>2. CASE UNCHANGED vars
  <2>1. Line' = Line /\ LineLen' = LineLen /\ dropped' = dropped /\ pc' = pc /\ sent' = sent
    BY <1>2 DEF vars, stream, Line, LineLen, WithLoop
  <2> QED BY <2>1, LineOKKept DEF InHand
<1>3. CASE LoopStep
  <2>1. dropped' = dropped /\ pc' = pc /\ sent' = sent
    BY <1>3 DEF LoopStep, LoopLock, LoopPop, LoopProcess, LoopDelete, stream
  <2>2. Line' = Line /\ LineLen' = LineLen
    BY <1>3, LoopLine
  <2> QED BY <2>1, <2>2, LineOKKept DEF InHand
<1>4. ASSUME NEW s \in Streams, RecvBatch(s) \/ RecvEmpty(s) \/ RecvFail(s) \/ Lock(s) \/ After(s)
      PROVE  LineOK'
  <2>1. Line' = Line /\ LineLen' = LineLen /\ dropped' = dropped
    BY <1>4, LineKept DEF RecvBatch, RecvEmpty, RecvFail, Lock, After, LineLen, WithLoop
  <2>2. /\ \A u \in Streams \ {s} : sent'[u] = sent[u] /\ (InHand(u)' <=> InHand(u))
        /\ \/ sent'[s] = sent[s] /\ (InHand(s)' <=> InHand(s))
           \/ sent'[s] = sent[s] + 1 /\ InHand(s)' /\ ~InHand(s)
    BY <1>1, <1>4 DEF RecvBatch, RecvEmpty, RecvFail, Lock, After, Goto, InHand
  <2> QED BY <1>1, <2>1, <2>2, LineOKKept
<1> QED BY <1>2, <1>3, <1>4, CheckLine, PushLineOK DEF Next, StreamStep

-----------------------------------------------------------------------------
(* The line and the places of the batches.                                 *)

LEMMA OnLine ==
  ASSUME TypeInv
  PROVE  LET on == processed \o (IF loop = "process" THEN <<cur>> ELSE <<>>) \o batches
         IN  DOMAIN on = 1..LineLen /\ \A j \in 1..LineLen : on[j] = Line[j]
<1> DEFINE mid == IF loop = "process" THEN <<cur>> ELSE <<>>
           front == processed \o mid
           on == front \o batches
<1>1. /\ batches \in Seq(Batches) /\ processed \in Seq(Batches) /\ mid \in Seq(Batches)
      /\ Len(mid) = WithLoop /\ (WithLoop = 1 => mid[1] = cur)
      /\ WithLoop \in {0, 1} /\ Len(processed) \in Nat /\ Len(batches) \in Nat
  BY DEF TypeInv, Types, HoldsOK, WithLoop
<1> HIDE DEF mid
<1>2. /\ front \in Seq(Batches) /\ Len(front) = Len(processed) + WithLoop
      /\ \A j \in 1..Len(processed) : front[j] = processed[j]
      /\ WithLoop = 1 => front[Len(processed) + 1] = cur
  BY <1>1
<1> HIDE DEF front
<1>3. on \in Seq(Batches) /\ Len(on) = LineLen /\ DOMAIN on = 1..LineLen
  <2>1. on \in Seq(Batches) /\ Len(on) = Len(front) + Len(batches)
    <3>1. front \in Seq(Batches) /\ batches \in Seq(Batches)
      BY <1>1, <1>2
    <3> HIDE DEF on
    <3>2. on = front \o batches
      BY DEF on
    <3> QED BY <3>1, <3>2
  <2>2. Len(on) = LineLen
    BY <1>2, <2>1 DEF LineLen
  <2> QED BY <2>1, <2>2
<1>4. ASSUME NEW j \in 1..LineLen PROVE on[j] = Line[j]
  <2>1. CASE j <= Len(processed)
    <3>1. on[j] = front[j]
      BY <1>1, <1>2, <1>3, <2>1
    <3> QED BY <1>1, <1>2, <2>1, <3>1 DEF Line
  <2>2. CASE j > Len(processed) /\ j <= Len(processed) + WithLoop
    <3>1. on[j] = front[j] /\ j = Len(processed) + 1 /\ WithLoop = 1
      BY <1>1, <1>2, <1>3, <2>2
    <3> QED BY <1>1, <1>2, <2>2, <3>1 DEF Line
  <2>3. CASE j > Len(processed) + WithLoop
    <3>1. on[j] = batches[j - Len(front)] /\ j - Len(front) = j - Len(processed) - WithLoop
      BY <1>1, <1>2, <1>3, <2>3 DEF LineLen
    <3> QED BY <1>1, <2>3, <3>1, SMTT(40) DEF Line
  <2> QED BY <1>1, <1>3, <2>1, <2>2, <2>3, LineTypes
<1> QED BY <1>3, <1>4 DEF mid, front

\* What Places is made of.
LEMMA PlacesOf ==
  ASSUME TypeInv, NEW s \in Streams, NEW i \in Nat, NEW p
  PROVE  p \in Places(s, i) <=>
           \/ p = <<"stream">> /\ InHand(s) /\ i = sent[s]
           \/ \E k \in 1..Len(batches) :
                p = <<"queue", k>> /\ batches[k].from = s /\ batches[k].seq = i
           \/ p = <<"loop">> /\ loop = "process" /\ cur.from = s /\ cur.seq = i
           \/ \E k \in 1..Len(processed) :
                p = <<"processed", k>> /\ processed[k].from = s /\ processed[k].seq = i
           \/ p = <<"dropped">> /\ InDropped(s, i)
<1>1. DOMAIN batches = 1..Len(batches) /\ DOMAIN processed = 1..Len(processed)
  BY DEF TypeInv, Types
<1>2. \A u \in Streams : InHand(u) => batch[u].from = u /\ batch[u].seq = sent[u]
  BY DEF TypeInv, HoldsOK, InHand
<1>3. (\E u \in Streams : InHand(u) /\ batch[u].from = s /\ batch[u].seq = i) <=>
        InHand(s) /\ i = sent[s]
  BY <1>2
<1>4. p \in Places(s, i) <=>
           \/ p = <<"stream">> /\ \E u \in Streams : InHand(u) /\ batch[u].from = s /\ batch[u].seq = i
           \/ \E k \in DOMAIN batches :
                p = <<"queue", k>> /\ batches[k].from = s /\ batches[k].seq = i
           \/ p = <<"loop">> /\ loop = "process" /\ cur.from = s /\ cur.seq = i
           \/ \E k \in DOMAIN processed :
                p = <<"processed", k>> /\ processed[k].from = s /\ processed[k].seq = i
           \/ p = <<"dropped">> /\ InDropped(s, i)
  BY DEF Places, InHand, InDropped
<1> QED BY <1>1, <1>3, <1>4

\* The place of the batch at position j of the line.
PlaceAt(j) == IF j <= Len(processed) THEN <<"processed", j>>
              ELSE IF j <= Len(processed) + WithLoop THEN <<"loop">>
              ELSE <<"queue", j - Len(processed) - WithLoop>>

LEMMA LinePlaces ==
  ASSUME TypeInv, NEW s \in Streams, NEW i \in Nat, NEW p
  PROVE  p \in Places(s, i) <=>
           \/ p = <<"stream">> /\ InHand(s) /\ i = sent[s]
           \/ \E j \in 1..LineLen : p = PlaceAt(j) /\ Line[j].from = s /\ Line[j].seq = i
           \/ p = <<"dropped">> /\ InDropped(s, i)
<1>1. Len(processed) \in Nat /\ WithLoop \in {0, 1} /\ Len(batches) \in Nat
  BY LineTypes
<1>2. ASSUME NEW j \in 1..LineLen, Line[j].from = s, Line[j].seq = i
      PROVE  PlaceAt(j) \in Places(s, i)
  <2>1. CASE j <= Len(processed)
    <3>1. PlaceAt(j) = <<"processed", j>> /\ Line[j] = processed[j] /\ j \in 1..Len(processed)
      BY <1>1, <2>1 DEF PlaceAt, Line
    <3> QED BY <1>2, <3>1, PlacesOf
  <2>2. CASE j > Len(processed) /\ j <= Len(processed) + WithLoop
    <3>1. PlaceAt(j) = <<"loop">> /\ Line[j] = cur /\ loop = "process"
      BY <1>1, <2>2 DEF PlaceAt, Line, WithLoop
    <3> QED BY <1>2, <3>1, PlacesOf
  <2>3. CASE j > Len(processed) + WithLoop
    <3> DEFINE k == j - Len(processed) - WithLoop
    <3>1. PlaceAt(j) = <<"queue", k>> /\ Line[j] = batches[k] /\ k \in 1..Len(batches)
      BY <1>1, <2>3 DEF PlaceAt, Line, LineLen
    <3> QED BY <1>2, <3>1, PlacesOf
  <2> QED BY <1>1, <2>1, <2>2, <2>3
<1>3. ASSUME NEW k \in 1..Len(batches), batches[k].from = s, batches[k].seq = i
      PROVE  \E j \in 1..LineLen : <<"queue", k>> = PlaceAt(j) /\ Line[j].from = s /\ Line[j].seq = i
  <2> DEFINE j == Len(processed) + WithLoop + k
  <2>1. /\ j \in 1..LineLen /\ ~(j <= Len(processed)) /\ ~(j <= Len(processed) + WithLoop)
        /\ j - Len(processed) - WithLoop = k
    BY <1>1 DEF LineLen
  <2>2. PlaceAt(j) = <<"queue", k>> /\ Line[j] = batches[k]
    BY <2>1 DEF PlaceAt, Line
  <2> QED BY <1>3, <2>1, <2>2
<1>4. ASSUME NEW k \in 1..Len(processed), processed[k].from = s, processed[k].seq = i
      PROVE  \E j \in 1..LineLen : <<"processed", k>> = PlaceAt(j) /\ Line[j].from = s /\ Line[j].seq = i
  <2>1. k \in 1..LineLen /\ PlaceAt(k) = <<"processed", k>> /\ Line[k] = processed[k]
    BY <1>1 DEF PlaceAt, Line, LineLen
  <2> QED BY <1>4, <2>1
<1>5. ASSUME loop = "process", cur.from = s, cur.seq = i
      PROVE  \E j \in 1..LineLen : <<"loop">> = PlaceAt(j) /\ Line[j].from = s /\ Line[j].seq = i
  <2> DEFINE j == Len(processed) + 1
  <2>1. j \in 1..LineLen /\ PlaceAt(j) = <<"loop">> /\ Line[j] = cur
    BY <1>1, <1>5 DEF PlaceAt, Line, LineLen, WithLoop
  <2> QED BY <1>5, <2>1
<1>6. ASSUME p \in Places(s, i)
      PROVE  \/ p = <<"stream">> /\ InHand(s) /\ i = sent[s]
             \/ \E j \in 1..LineLen : p = PlaceAt(j) /\ Line[j].from = s /\ Line[j].seq = i
             \/ p = <<"dropped">> /\ InDropped(s, i)
  <2>1. \/ p = <<"stream">> /\ InHand(s) /\ i = sent[s]
        \/ \E k \in 1..Len(batches) :
             p = <<"queue", k>> /\ batches[k].from = s /\ batches[k].seq = i
        \/ p = <<"loop">> /\ loop = "process" /\ cur.from = s /\ cur.seq = i
        \/ \E k \in 1..Len(processed) :
             p = <<"processed", k>> /\ processed[k].from = s /\ processed[k].seq = i
        \/ p = <<"dropped">> /\ InDropped(s, i)
    BY <1>6, PlacesOf
  <2> QED BY <1>3, <1>4, <1>5, <2>1
<1>7. \/ p = <<"stream">> /\ InHand(s) /\ i = sent[s]
      \/ p = <<"dropped">> /\ InDropped(s, i)
      => p \in Places(s, i)
  BY PlacesOf
<1> QED BY <1>2, <1>6, <1>7

LEMMA OnePlace == TypeInv /\ LineOK => EveryBatchOnce
<1> SUFFICES ASSUME TypeInv, LineOK, NEW s \in Streams, NEW i \in 1..sent[s]
             PROVE  Cardinality(Places(s, i)) = 1
  BY DEF EveryBatchOnce
<1>1. /\ sent[s] \in Nat /\ i \in Nat /\ LineLen \in Nat
      /\ \A j \in 1..LineLen : Line[j].seq \in Nat
  BY LineTypes, BatchServerAssumption, SMTT(40) DEF TypeInv, Types, Batches
<1>2. \E p : p \in Places(s, i)
  <2>1. (InHand(s) /\ i = sent[s]) \/ InLine(s, i) \/ InDropped(s, i)
    BY DEF LineOK
  <2> QED BY <1>1, <2>1, LinePlaces DEF InLine
<1>3. ASSUME InHand(s) /\ i = sent[s] PROVE ~InLine(s, i) /\ ~InDropped(s, i)
  BY <1>1, <1>3 DEF LineOK, Given, InLine, InDropped
<1>4. ASSUME InLine(s, i) PROVE ~InDropped(s, i)
  BY <1>4 DEF LineOK, InLine, InDropped, Same
<1>5. ASSUME NEW j \in 1..LineLen, NEW k \in 1..LineLen,
             Line[j].from = s, Line[j].seq = i, Line[k].from = s, Line[k].seq = i
      PROVE  j = k
  <2>1. ~(j < k) /\ ~(k < j)
    BY <1>1, <1>5 DEF LineOK
  <2> QED BY <1>1, <2>1
<1>6. ASSUME NEW p \in Places(s, i), NEW q \in Places(s, i) PROVE p = q
  <2>1. \/ p = <<"stream">> /\ InHand(s) /\ i = sent[s]
        \/ \E j \in 1..LineLen : p = PlaceAt(j) /\ Line[j].from = s /\ Line[j].seq = i
        \/ p = <<"dropped">> /\ InDropped(s, i)
    BY <1>1, LinePlaces
  <2>2. \/ q = <<"stream">> /\ InHand(s) /\ i = sent[s]
        \/ \E j \in 1..LineLen : q = PlaceAt(j) /\ Line[j].from = s /\ Line[j].seq = i
        \/ q = <<"dropped">> /\ InDropped(s, i)
    BY <1>1, LinePlaces
  <2>3. CASE InHand(s) /\ i = sent[s]
    BY <1>3, <2>1, <2>2, <2>3 DEF InLine
  <2>4. CASE InLine(s, i)
    <3>1. ~(InHand(s) /\ i = sent[s]) /\ ~InDropped(s, i)
      BY <1>3, <1>4, <2>4
    <3> QED BY <1>5, <2>1, <2>2, <3>1
  <2>5. CASE InDropped(s, i)
    <3>1. ~(InHand(s) /\ i = sent[s]) /\ ~InLine(s, i)
      BY <1>3, <1>4, <2>5
    <3> QED BY <2>1, <2>2, <3>1 DEF InLine
  <2> QED BY <2>1, <2>3, <2>4, <2>5 DEF InLine
<1>7. \E p : Places(s, i) = {p}
  BY <1>2, <1>6
<1> QED BY <1>7, FS_Singleton

LEMMA OrderOnLine == TypeInv /\ LineOK => InStreamOrder
<1> SUFFICES ASSUME TypeInv, LineOK PROVE InStreamOrder
  OBVIOUS
<1> DEFINE on == processed \o (IF loop = "process" THEN <<cur>> ELSE <<>>) \o batches
<1>1. DOMAIN on = 1..LineLen /\ \A j \in 1..LineLen : on[j] = Line[j]
  BY OnLine
<1> HIDE DEF on
<1>2. \A i, j \in DOMAIN on : i < j /\ on[i].from = on[j].from => on[i].seq < on[j].seq
  BY <1>1 DEF LineOK
<1> QED BY <1>2 DEF InStreamOrder, on

-----------------------------------------------------------------------------
(* The theorems.                                                           *)

\* Where every batch is, and in which order: what QueueOK and InStreamOrder
\* follow from.
THEOREM LineInvariant == Spec => []LineOK
BY InitLine, NextLine, TypeInvariant, PTL DEF Spec

\* The queue keeps its types, is never longer than the bound and what other
\* streams may add to it, and every batch received is in one place: with its
\* stream, in the queue, with the process loop, processed or dropped.
THEOREM QueueHolds == Spec => []QueueOK
<1>1. TypeInv => TypeOK
  BY DEF TypeInv, Types, TypeOK, Positions
<1>2. TypeInv /\ Bound => QueueBound
  <2> SUFFICES ASSUME TypeInv, Bound PROVE QueueBound
    OBVIOUS
  <2>1. Len(batches) \in Nat
    BY DEF TypeInv, Types
  <2> QED BY <2>1, WaitingTypes, BatchServerAssumption DEF Bound, QueueBound
<1>3. Spec => []Bound
  BY InitBound, NextBound, TypeInvariant, PTL DEF Spec
<1>4. TypeInv /\ Bound /\ LineOK => QueueOK
  BY <1>1, <1>2, OnePlace DEF QueueOK
<1> QED BY <1>3, <1>4, TypeInvariant, LineInvariant, PTL

\* The process loop gets the batches of each stream in the order the stream
\* received them, whatever other streams send and whichever are dropped.
THEOREM InStreamOrderHolds == Spec => []InStreamOrder
BY OrderOnLine, TypeInvariant, LineInvariant, PTL
=============================================================================
