----------------------------- MODULE BatchServer -----------------------------
(***************************************************************************)
(* The queue of batches between the stream threads of batch_server.cpp and *)
(* the process loop of alg_handling.cpp, whose passes over a batch are the *)
(* module AlgServer and one step here.  A stream thread still uses a batch *)
(* after it gave it away, and may delete it; the loop deletes every batch. *)
(* Once a thread uses a deleted batch anything may happen: the model stops *)
(* with "undefined" set.                                                   *)
(***************************************************************************)
EXTENDS Integers, SequencesExt, FiniteSetsExt

CONSTANTS
  Streams,
  STINGER_MAX_BATCHES,
  Messages,       \* batches each stream sends: a bound of the model
  NoOne

ASSUME BatchServerAssumption ==
  /\ STINGER_MAX_BATCHES \in Nat \ {0} /\ Messages \in Nat
  /\ IsFiniteSet(Streams)
  /\ NoOne \notin Streams \cup {"loop"} /\ "loop" \notin Streams

VARIABLES
  torn,        \* is the size read while the deque changes a wrong one?
  pc, batch,   \* each stream thread's position, and the batch it handles
  nfail, sent, \* failures in a row, and batches received, of each stream
  batch_lock,  \* NoOne or the thread that emptied the word
  batches,     \* the queue
  loop, cur,   \* the process loop's position and batch
  freed,       \* deleted batches
  dropped,     \* the batches S->dropped_batches counts
  processed,   \* the batches the loop has processed, in order
  undefined    \* a deleted batch was used

stream == <<pc, batch, nfail, sent>>
vars == <<torn, stream, batch_lock, batches, loop, cur, freed, dropped, processed, undefined>>

NoBatch == [from |-> NoOne, seq |-> 0, keep_alive |-> TRUE]

Init ==
  /\ torn \in BOOLEAN
  /\ pc = [s \in Streams |-> "recv"] /\ batch = [s \in Streams |-> NoBatch]
  /\ nfail = [s \in Streams |-> 0] /\ sent = [s \in Streams |-> 0]
  /\ batch_lock = NoOne /\ batches = <<>>
  /\ loop = "wait" /\ cur = NoBatch
  /\ freed = {} /\ dropped = {} /\ processed = <<>>
  /\ undefined = FALSE

Goto(s, to) == pc' = [pc EXCEPT ![s] = to]

Delete(b) == freed' = freed \cup {b} /\ undefined' = (b \in freed)

RecvBatch(s) ==
  /\ pc[s] = "recv" /\ sent[s] < Messages
  /\ sent' = [sent EXCEPT ![s] = @ + 1]
  /\ nfail' = [nfail EXCEPT ![s] = 0]
  /\ \E k \in BOOLEAN :
       batch' = [batch EXCEPT ![s] = [from |-> s, seq |-> sent[s] + 1, keep_alive |-> k]]
  /\ Goto(s, "check")
  /\ UNCHANGED <<torn, batch_lock, batches, loop, cur, freed, dropped, processed, undefined>>

\* A batch without insertions and deletions is not enqueued.
RecvEmpty(s) ==
  /\ pc[s] = "recv"
  /\ nfail' = [nfail EXCEPT ![s] = 0]
  /\ \E k \in BOOLEAN : Goto(s, IF k THEN "recv" ELSE "exit")
  /\ UNCHANGED <<torn, batch, sent, batch_lock, batches, loop, cur, freed, dropped,
                 processed, undefined>>

\* The connection is closed, or the message is no batch.
RecvFail(s) ==
  /\ pc[s] = "recv"
  /\ nfail' = [nfail EXCEPT ![s] = @ + 1]
  /\ Goto(s, IF nfail[s] + 1 > 2 THEN "exit" ELSE "recv")
  /\ UNCHANGED <<torn, batch, sent, batch_lock, batches, loop, cur, freed, dropped,
                 processed, undefined>>

Full == Len(batches) >= STINGER_MAX_BATCHES

\* get_queue_size takes no lock: what it returns while a push or pop is under
\* way may be anything.
SeesFull(s) == IF torn /\ batch_lock # NoOne THEN BOOLEAN ELSE {Full}

\* Variant of Check: a batch that is dropped is enqueued all the same.
CheckFallsThrough(s) ==
  /\ pc[s] = "check"
  /\ \E full \in SeesFull(s) :
       dropped' = IF full THEN dropped \cup {batch[s]} ELSE dropped
  /\ Goto(s, "enqueue")
  /\ UNCHANGED <<torn, batch, nfail, sent, batch_lock, batches, loop, cur, freed,
                 processed, undefined>>

Check(s) ==
  /\ pc[s] = "check"
  /\ \E full \in SeesFull(s) :
       IF full
       THEN /\ dropped' = dropped \cup {batch[s]}
            /\ Delete(batch[s])
            /\ Goto(s, "recv")
       ELSE /\ Goto(s, "enqueue")
            /\ UNCHANGED <<dropped, freed, undefined>>
  /\ UNCHANGED <<torn, batch, nfail, sent, batch_lock, batches, loop, cur, processed>>

Lock(s) ==
  /\ pc[s] = "enqueue" /\ batch_lock = NoOne
  /\ batch_lock' = s
  /\ Goto(s, "push")
  /\ UNCHANGED <<torn, batch, nfail, sent, batches, loop, cur, freed, dropped, processed, undefined>>

\* Variant of Push: as if the queue were a stack.
PushFront(s) ==
  /\ pc[s] = "push"
  /\ batches' = <<batch[s]>> \o batches
  /\ batch_lock' = NoOne
  /\ Goto(s, "after")
  /\ UNCHANGED <<torn, batch, nfail, sent, loop, cur, freed, dropped, processed, undefined>>

Push(s) ==
  /\ pc[s] = "push"
  /\ batches' = Append(batches, batch[s])
  /\ batch_lock' = NoOne
  /\ Goto(s, "after")
  /\ UNCHANGED <<torn, batch, nfail, sent, loop, cur, freed, dropped, processed, undefined>>

\* The batch is in the queue, with the loop, or gone; it is asked whether it was
\* the stream's last one, and deleted if so.
After(s) ==
  /\ pc[s] = "after"
  /\ IF batch[s] \in freed
     THEN undefined' = TRUE /\ UNCHANGED <<pc, freed>>
     ELSE IF batch[s].keep_alive
     THEN Goto(s, "recv") /\ UNCHANGED <<freed, undefined>>
     ELSE Goto(s, "exit") /\ Delete(batch[s])
  /\ UNCHANGED <<torn, batch, nfail, sent, batch_lock, batches, loop, cur, dropped, processed>>

\* dequeue_batch; an empty queue is looked at again 100 us later.
LoopLock ==
  /\ loop = "wait" /\ batch_lock = NoOne /\ batches # <<>>
  /\ batch_lock' = "loop"
  /\ loop' = "pop"
  /\ UNCHANGED <<torn, stream, batches, cur, freed, dropped, processed, undefined>>

\* Variant of LoopPop: the lock is kept.
LoopPopKeep ==
  /\ loop = "pop"
  /\ cur' = Head(batches) /\ batches' = Tail(batches)
  /\ loop' = "process"
  /\ UNCHANGED <<torn, stream, batch_lock, freed, dropped, processed, undefined>>

LoopPop ==
  /\ loop = "pop"
  /\ cur' = Head(batches) /\ batches' = Tail(batches)
  /\ batch_lock' = NoOne
  /\ loop' = "process"
  /\ UNCHANGED <<torn, stream, freed, dropped, processed, undefined>>

\* The passes over the batch (AlgServer).
LoopProcess ==
  /\ loop = "process"
  /\ processed' = Append(processed, cur)
  /\ undefined' = (cur \in freed)
  /\ loop' = "delete"
  /\ UNCHANGED <<torn, stream, batch_lock, batches, cur, freed, dropped>>

LoopDelete ==
  /\ loop = "delete"
  /\ Delete(cur)
  /\ cur' = NoBatch
  /\ loop' = "wait"
  /\ UNCHANGED <<torn, stream, batch_lock, batches, dropped, processed>>

StreamStep(s) == Check(s) \/ Lock(s) \/ Push(s) \/ After(s)

LoopStep == LoopLock \/ LoopPop \/ LoopProcess \/ LoopDelete

Next == /\ ~undefined
        /\ \/ LoopStep
           \/ \E s \in Streams : \/ RecvBatch(s) \/ RecvEmpty(s) \/ RecvFail(s)
                                 \/ StreamStep(s)

Spec == Init /\ [][Next]_vars

\* The threads run.  Clients need not send anything.
FairSpec == /\ Spec
            /\ WF_vars(~undefined /\ LoopStep)
            /\ \A s \in Streams : WF_vars(~undefined /\ StreamStep(s))
-----------------------------------------------------------------------------
Batches == [from : Streams, seq : 1..Messages, keep_alive : BOOLEAN]

TypeOK ==
  /\ \A s \in Streams :
       /\ pc[s] \in {"recv", "check", "enqueue", "push", "after", "exit"}
       /\ batch[s] \in Batches \cup {NoBatch}
       /\ nfail[s] \in 0..3 /\ sent[s] \in 0..Messages
  /\ batch_lock \in Streams \cup {NoOne, "loop"}
  /\ batches \in Seq(Batches) /\ processed \in Seq(Batches)
  /\ loop \in {"wait", "pop", "process", "delete"} /\ cur \in Batches \cup {NoBatch}
  /\ freed \subseteq Batches /\ dropped \subseteq Batches

\* Where the ith batch of stream s is.
Places(s, i) ==
  LET Is(b) == b.from = s /\ b.seq = i IN
  {<<"stream">> : x \in {u \in Streams : pc[u] \in {"check", "enqueue", "push"} /\ Is(batch[u])}}
  \cup {<<"queue", k>> : k \in {j \in DOMAIN batches : Is(batches[j])}}
  \cup {<<"loop">> : x \in {l \in {loop} : l = "process" /\ Is(cur)}}
  \cup {<<"processed", k>> : k \in {j \in DOMAIN processed : Is(processed[j])}}
  \cup {<<"dropped">> : x \in {b \in dropped : Is(b)}}

\* No batch is lost or processed twice between the streams and the process
\* loop, and dropped_batches counts the ones that were dropped and no other.
EveryBatchOnce ==
  \A s \in Streams : \A i \in 1..sent[s] : Cardinality(Places(s, i)) = 1

\* The batches of a stream reach the graph in the order it sent them, however
\* many streams there are and whichever batches are dropped.
InStreamOrder ==
  LET on == processed \o (IF loop = "process" THEN <<cur>> ELSE <<>>) \o batches IN
  \A i, j \in DOMAIN on : i < j /\ on[i].from = on[j].from => on[i].seq < on[j].seq

\* The size is looked at before the lock is taken, so the queue exceeds
\* STINGER_MAX_BATCHES, but only by one for each other stream.
QueueBound ==
  ~torn => Len(batches) <= STINGER_MAX_BATCHES + Cardinality(Streams) - 1

\* The queue: its types, its length and every batch of the streams in one place.
QueueOK == TypeOK /\ QueueBound /\ EveryBatchOnce

\* Every batch received is processed or dropped, if no deleted one is used.
EveryBatchHandled ==
  \A s \in Streams, i \in 1..Messages :
    sent[s] >= i ~> \/ undefined
                    \/ \E b \in dropped \cup ToSet(processed) : b.from = s /\ b.seq = i
=============================================================================
