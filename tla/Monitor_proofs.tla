--------------------------- MODULE Monitor_proofs ---------------------------
(***************************************************************************)
(* Theorems about Monitor for any number of monitor processes, names and   *)
(* readers and whichever of the processes die.                             *)
(***************************************************************************)
EXTENDS Monitor, FiniteSetTheorems, SequenceTheorems, TLAPS

-----------------------------------------------------------------------------
(* Types, with those of the variables TypeOK leaves out.                   *)

Types ==
  /\ TypeOK
  /\ index \in Nat \ {0} /\ stop \in Nat
  /\ cur \in Conns \cup {None}
  /\ copy \in [Readers -> Versions \cup {None}]

LEMMA RemovedAt ==
  ASSUME NEW S, NEW s \in Seq(S), NEW i \in 1 .. Len(s)
  PROVE  /\ RemoveAt(s, i) \in Seq(S)
         /\ Len(RemoveAt(s, i)) = Len(s) - 1
         /\ \A j \in 1 .. Len(s) - 1 :
              RemoveAt(s, i)[j] = IF j < i THEN s[j] ELSE s[j + 1]
<1> DEFINE before == SubSeq(s, 1, i - 1)
           after  == SubSeq(s, i + 1, Len(s))
<1>1. Len(s) \in Nat /\ \A j \in 1 .. Len(s) : s[j] \in S
  OBVIOUS
<1>2. /\ before \in Seq(S) /\ Len(before) = i - 1
      /\ \A j \in 1 .. i - 1 : before[j] = s[j]
  <2>1. \A j \in 1 .. i - 1 : s[j] \in S
    BY <1>1
  <2> QED BY <1>1, <2>1, SubSeqProperties
<1>3. /\ after \in Seq(S) /\ Len(after) = Len(s) - i
      /\ \A j \in 1 .. Len(s) - i : after[j] = s[i + j]
  <2>1. \A j \in i + 1 .. Len(s) : s[j] \in S
    BY <1>1
  <2>2. /\ after \in Seq(S) /\ Len(after) = IF i + 1 <= Len(s) THEN Len(s) - (i + 1) + 1 ELSE 0
        /\ \A j \in 1 .. Len(s) - (i + 1) + 1 : after[j] = s[i + 1 + j - 1]
    BY <1>1, <2>1, SubSeqProperties
  <2> QED BY <1>1, <2>2
<1> HIDE DEF before, after
<1>4. RemoveAt(s, i) = before \o after
  BY DEF RemoveAt, before, after
<1>5. /\ before \o after \in Seq(S)
      /\ Len(before \o after) = Len(s) - 1
      /\ \A j \in 1 .. Len(s) - 1 :
           (before \o after)[j] = IF j <= i - 1 THEN before[j] ELSE after[j - (i - 1)]
  <2>1. /\ before \o after \in Seq(S)
        /\ Len(before \o after) = Len(before) + Len(after)
        /\ \A j \in 1 .. Len(before) + Len(after) :
             (before \o after)[j] = IF j <= Len(before) THEN before[j] ELSE after[j - Len(before)]
    BY <1>2, <1>3, ConcatProperties
  <2>2. Len(before) + Len(after) = Len(s) - 1
    BY <1>1, <1>2, <1>3
  <2> QED BY <1>2, <2>1, <2>2
<1>6. ASSUME NEW j \in 1 .. Len(s) - 1
      PROVE  RemoveAt(s, i)[j] = IF j < i THEN s[j] ELSE s[j + 1]
  <2>1. CASE j < i
    BY <1>1, <1>2, <1>4, <1>5, <2>1
  <2>2. CASE ~(j < i)
    <3>1. /\ j - (i - 1) \in 1 .. Len(s) - i /\ i + (j - (i - 1)) = j + 1
          /\ ~(j <= i - 1)
      BY <1>1, <2>2
    <3>2. (before \o after)[j] = after[j - (i - 1)]
      BY <1>5, <3>1
    <3>3. after[j - (i - 1)] = s[j + 1]
      BY <1>3, <3>1
    <3> QED BY <1>4, <2>2, <3>2, <3>3
  <2> QED BY <2>1, <2>2
<1> QED BY <1>4, <1>5, <1>6

\* What the removal of a monitor does to the vector.
LEMMA Erased ==
  ASSUME Types, NEW c \in Conns, DeleteMon(c)
  PROVE  \/ monitors' = monitors /\ shifted' = shifted
         \/ /\ shifted' = (shifted \/ InPasses)
            /\ \E i \in 1 .. Len(monitors) : monitors' = RemoveAt(monitors, i)
<1>1. monitors \in Seq(Conns)
  BY DEF Types, TypeOK
<1>2. DOMAIN monitors = 1 .. Len(monitors)
  BY <1>1
<1> QED BY <1>2, Zenon DEF DeleteMon

LEMMA InitTypes == Init => Types
<1> SUFFICES ASSUME Init PROVE Types
  OBVIOUS
<1> USE MonitorAssumption DEF Init
<1>1. 0 \in Versions /\ version \in Versions
  BY DEF Versions
<1>2. \A f \in {stinger, mapped} : f \in [Conns -> Versions \cup {None}]
  OBVIOUS
<1>3. \A f \in {waiting, sync_lock} : f \in [Conns -> Nat]
  OBVIOUS
<1>4. monitors \in Seq(Conns) /\ alive \subseteq Conns
  OBVIOUS
<1>5. /\ name \in Namings /\ monitor_map \in [MonNames -> Conns \cup {None}]
      /\ pc \in [Conns -> {"connect", "has", "delete", "erase", "add", "first", "first_update",
                           "send_begin", "await_begin", "map", "sync", "send_end", "update",
                           "await_end"}]
      /\ request \in [Conns -> {"none", "BEGIN_UPDATE", "END_UPDATE"}]
      /\ reply \in [Conns -> Versions \cup {None}]
      /\ mon_state \in [Conns -> {"READY", "PERFORMING", "ERROR"}]
      /\ freed \subseteq Conns /\ shifted \in BOOLEAN
  OBVIOUS
<1>6. /\ rpc \in [Readers -> {"idle", "sem_wait", "lock", "reading"}]
      /\ loop \in {"dequeue", "begin", "begin_wait", "end", "end_wait", "crashed"}
      /\ index \in Nat \ {0} /\ stop \in Nat /\ cur \in Conns \cup {None}
      /\ copy \in [Readers -> Versions \cup {None}]
  OBVIOUS
<1> HIDE DEF Init
<1> QED BY <1>1, <1>2, <1>3, <1>4, <1>5, <1>6 DEF Types, TypeOK

LEMMA RegisterTypes ==
  ASSUME Types, NEW c \in Conns, Connect(c) \/ Register(c)
  PROVE  Types'
<1> USE MonitorAssumption
<1>1. CASE Connect(c)
  BY <1>1 DEF Connect, Goto, Types, TypeOK, Versions, server, registry, client, reader
<1>2. CASE HasMon(c, "has", "delete") \/ HasMon(c, "delete", "erase")
  <2>1. \E to \in {"delete", "erase", "add"} : pc' = [pc EXCEPT ![c] = to]
    BY <1>2 DEF HasMon, Goto
  <2> QED BY <1>2, <2>1 DEF HasMon, Types, TypeOK, Versions, server, registry, client, reader
<1>3. CASE DeleteMon(c)
  <2>1. monitors' \in Seq(Conns)
    <3>1. monitors \in Seq(Conns)
      BY DEF Types, TypeOK
    <3> QED BY <1>3, <3>1, Erased, RemovedAt
  <2>2. name[c] \in MonNames /\ monitor_map \in [MonNames -> Conns \cup {None}]
    BY DEF Types, TypeOK
  <2>3. freed' \subseteq Conns /\ monitor_map' \in [MonNames -> Conns \cup {None}]
    BY <1>3, <2>2 DEF DeleteMon, Types, TypeOK
  <2>4. shifted' \in BOOLEAN
    BY <1>3, Erased DEF Types, TypeOK, InPasses
  <2> QED BY <1>3, <2>1, <2>3, <2>4 DEF DeleteMon, Goto, Types, TypeOK, Versions, server, client, reader
<1>4. CASE AddMon(c)
  BY <1>4 DEF AddMon, Goto, Types, TypeOK, Versions, server, client, reader
<1> QED BY <1>1, <1>2, <1>3, <1>4 DEF Register

LEMMA LoopTypes == ASSUME Types, Loop PROVE Types'
<1> USE MonitorAssumption
<1>1. CASE ApplyBatch
  <2>1. Len(monitors) \in Nat /\ version' \in Versions
    BY <1>1 DEF ApplyBatch, Types, TypeOK, Versions
  <2> QED BY <1>1, <2>1 DEF ApplyBatch, Types, TypeOK, Versions, registry, client, reader
<1>2. CASE Crash
  BY <1>2 DEF Crash, Types, TypeOK, Versions, registry, client, reader
<1>3. CASE NextPass
  BY <1>3 DEF NextPass, Types, TypeOK, Versions, registry, client, reader
<1>4. ASSUME NEW pass \in {"begin", "end"}, NEW state, GetMon(pass, state)
      PROVE  Types'
  <2>1. WaitOf(pass) \in {"begin_wait", "end_wait"}
    BY DEF WaitOf
  <2>2. index \in DOMAIN monitors /\ monitors \in Seq(Conns)
    BY <1>4 DEF GetMon, Undefined, Types, TypeOK
  <2>3. monitors[index] \in Conns
    BY <2>2
  <2>4. /\ loop' \in {"begin", "end", "begin_wait", "end_wait"}
        /\ cur' \in Conns \cup {None} /\ index' \in {index, index + 1}
    BY <1>4, <2>1, <2>3 DEF GetMon
  <2>5. index' \in Nat \ {0}
    BY <2>4 DEF Types
  <2> QED BY <1>4, <2>4, <2>5 DEF GetMon, Types, TypeOK, Versions, registry, client, reader
<1>5. ASSUME NEW pass \in {"begin", "end"}, NEW message,
             NEW state \in {"READY", "PERFORMING"}, Serve(pass, message, state)
      PROVE  Types'
  <2>1. /\ mon_state' \in [Conns -> {"READY", "PERFORMING", "ERROR"}]
        /\ reply' \in [Conns -> Versions \cup {None}]
        /\ request' \in [Conns -> {"none", "BEGIN_UPDATE", "END_UPDATE"}]
    BY <1>5 DEF Serve, Types, TypeOK
  <2>2. index' \in Nat \ {0} /\ loop' \in {"begin", "end"} /\ cur' \in Conns \cup {None}
    BY <1>5 DEF Serve, Types
  <2> QED BY <1>5, <2>1, <2>2 DEF Serve, Types, TypeOK, Versions, client, reader
<1>6. CASE GetMon("begin", "READY") \/ GetMon("end", "PERFORMING")
  BY <1>4, <1>6
<1>7. CASE \/ Serve("begin", "BEGIN_UPDATE", "PERFORMING")
           \/ Serve("end", "END_UPDATE", "READY")
  BY <1>5, <1>7
<1> QED BY <1>1, <1>2, <1>3, <1>6, <1>7 DEF Loop

LEMMA HandlerTypes ==
  ASSUME Types, NEW c \in Conns, Handler(c) \/ Die(c)
  PROVE  Types'
<1> USE MonitorAssumption
<1> DEFINE Positions ==
      {"connect", "has", "delete", "erase", "add", "first", "first_update", "send_begin",
       "await_begin", "map", "sync", "send_end", "update", "await_end"}
<1>1. ASSUME NEW from, NEW to \in Positions, Map(c, from, to)
      PROVE  Types'
  BY <1>1, SMTT(40) DEF Map, Goto, Types, TypeOK, Versions, server, registry, reader
<1>2. ASSUME NEW from, NEW to \in Positions, NEW message \in {"BEGIN_UPDATE", "END_UPDATE"},
             Send(c, from, message, to)
      PROVE  Types'
  BY <1>2 DEF Send, Goto, Types, TypeOK, Versions, server, registry, client, reader
<1>3. ASSUME NEW from, NEW to \in Positions, Receive(c, from, to)
      PROVE  Types'
  BY <1>3 DEF Receive, Goto, Types, TypeOK, Versions, server, registry, client, reader
<1>4. ASSUME NEW from, NEW to \in Positions, UpdateAlgs(c, from, to)
      PROVE  Types'
  BY <1>4 DEF UpdateAlgs, Goto, Types, TypeOK, Versions, server, registry, reader
<1>5. CASE Sync(c)
  BY <1>5 DEF Sync, Goto, Types, TypeOK, Versions, server, registry, reader
<1>6. CASE Die(c)
  <2>1. /\ rpc' \in [Readers -> {"idle", "sem_wait", "lock", "reading"}]
        /\ copy' \in [Readers -> Versions \cup {None}]
    BY <1>6 DEF Die, Types, TypeOK
  <2> QED BY <1>6, <2>1 DEF Die, Types, TypeOK, Versions, server, registry
<1> QED BY <1>1, <1>2, <1>3, <1>4, <1>5, <1>6 DEF Handler

LEMMA ReaderTypes ==
  ASSUME Types, NEW r \in Readers,
         WaitForSync(r) \/ SemWait(r) \/ ReadLock(r) \/ ReadUnlock(r)
  PROVE  Types'
<1> USE MonitorAssumption
<1> Home[r] \in Conns
  OBVIOUS
<1>1. CASE WaitForSync(r)
  BY <1>1 DEF WaitForSync, Read, Types, TypeOK, Versions, server, registry
<1>2. CASE SemWait(r)
  BY <1>2 DEF SemWait, Read, Types, TypeOK, Versions, server, registry
<1>3. CASE ReadLock(r)
  BY <1>3 DEF ReadLock, Read, Types, TypeOK, Versions, server, registry, client
<1>4. CASE ReadUnlock(r)
  BY <1>4 DEF ReadUnlock, Read, Types, TypeOK, Versions, server, registry, client
<1> QED BY <1>1, <1>2, <1>3, <1>4

LEMMA StepTypes == Types /\ [Next]_vars => Types'
<1>1. CASE UNCHANGED vars
  BY <1>1 DEF Types, TypeOK, vars, server, registry, client, reader
<1> QED BY <1>1, LoopTypes, RegisterTypes, HandlerTypes, ReaderTypes DEF Next

\* The types hold for every value of the constants: the vector of monitors never
\* holds a null entry and no counter of the readers goes below zero.
THEOREM TypesHold == Spec => []Types
<1> QED BY InitTypes, StepTypes, PTL DEF Spec

-----------------------------------------------------------------------------
(* What handler thread and readers share in a process.                     *)

InSemWait(c) == {r \in ReadersOf(c) : rpc[r] = "sem_wait"}

LEMMA Finite == \A c \in Conns : IsFiniteSet(InSemWait(c))
<1> SUFFICES ASSUME NEW c \in Conns PROVE IsFiniteSet(InSemWait(c))
  OBVIOUS
<1>1. InSemWait(c) \in SUBSET Readers
  BY DEF InSemWait, ReadersOf
<1> QED BY <1>1, MonitorAssumption, FS_Subset

ReadersInv == Types /\ ReadersOK

LEMMA InitReaders == Init => ReadersInv
<1> SUFFICES ASSUME Init PROVE ReadersInv
  OBVIOUS
<1>1. Types
  BY InitTypes
<1>2. ASSUME NEW c \in alive
      PROVE  Cardinality(InSemWait(c)) = waiting[c] + sync_lock[c]
  <2>1. InSemWait(c) = {} /\ c \in Conns
    BY <1>1 DEF Init, InSemWait, ReadersOf, Types, TypeOK
  <2>2. waiting[c] = 0 /\ sync_lock[c] = 0
    BY <2>1 DEF Init
  <2> QED BY <2>1, <2>2, FS_EmptySet
<1>3. MappingStays
  BY DEF Init, MappingStays
<1> QED BY <1>1, <1>2, <1>3 DEF ReadersInv, ReadersOK, WaitersCounted, InSemWait, Types

\* A step that leaves the readers, the count and the semaphore alone.
LEMMA CountStays ==
  ASSUME ReadersInv, rpc' = rpc, waiting' = waiting, sync_lock' = sync_lock, alive' = alive
  PROVE  WaitersCounted'
BY DEF ReadersInv, ReadersOK, WaitersCounted, ReadersOf

LEMMA ReaderSteps ==
  ASSUME ReadersInv, NEW r \in Readers,
         WaitForSync(r) \/ SemWait(r) \/ ReadLock(r) \/ ReadUnlock(r)
  PROVE  WaitersCounted' /\ MappingStays'
<1> USE MonitorAssumption DEF ReadersInv, ReadersOK
<1>1. MappingStays'
  BY DEF WaitForSync, SemWait, ReadLock, ReadUnlock, Read, client, MappingStays, Types, TypeOK
<1>2. /\ Home[r] \in Conns /\ Home[r] \in alive /\ alive' = alive
      /\ rpc \in [Readers -> {"idle", "sem_wait", "lock", "reading"}]
      /\ waiting \in [Conns -> Nat] /\ sync_lock \in [Conns -> Nat]
      /\ alive \subseteq Conns
  BY DEF WaitForSync, SemWait, ReadLock, ReadUnlock, Read, Types, TypeOK
<1>3. \A c \in alive : Cardinality(InSemWait(c)) = waiting[c] + sync_lock[c]
  BY DEF WaitersCounted, InSemWait
<1>4. ASSUME NEW c \in alive
      PROVE  Cardinality(InSemWait(c)') = waiting'[c] + sync_lock'[c]
  <2>1. IsFiniteSet(InSemWait(c)) /\ Cardinality(InSemWait(c)) \in Nat
    BY <1>2, Finite, FS_CardinalityType
  <2>2. CASE WaitForSync(r) /\ Home[r] = c
    <3>1. InSemWait(c)' = InSemWait(c) \cup {r} /\ r \notin InSemWait(c)
      BY <1>2, <2>2 DEF WaitForSync, Read, InSemWait, ReadersOf
    <3>2. waiting'[c] = waiting[c] + 1 /\ sync_lock'[c] = sync_lock[c]
      BY <1>2, <2>2 DEF WaitForSync
    <3>3. Cardinality(InSemWait(c)') = Cardinality(InSemWait(c)) + 1
      BY <2>1, <3>1, FS_AddElement
    <3> QED BY <1>2, <1>3, <3>2, <3>3
  <2>3. CASE SemWait(r) /\ Home[r] = c
    <3>1. InSemWait(c)' = InSemWait(c) \ {r} /\ r \in InSemWait(c)
      BY <1>2, <2>3 DEF SemWait, Read, InSemWait, ReadersOf
    <3>2. waiting'[c] = waiting[c] /\ sync_lock'[c] = sync_lock[c] - 1
      BY <1>2, <2>3 DEF SemWait
    <3>3. Cardinality(InSemWait(c)') = Cardinality(InSemWait(c)) - 1
      BY <2>1, <3>1, FS_RemoveElement
    <3> QED BY <1>2, <1>3, <3>2, <3>3
  <2>4. CASE Home[r] # c \/ ReadLock(r) \/ ReadUnlock(r)
    <3>1. InSemWait(c)' = InSemWait(c)
      BY <1>2, <2>4 DEF WaitForSync, SemWait, ReadLock, ReadUnlock, Read, InSemWait, ReadersOf
    <3>2. waiting'[c] = waiting[c] /\ sync_lock'[c] = sync_lock[c]
      BY <1>2, <2>4 DEF WaitForSync, SemWait, ReadLock, ReadUnlock, Read, client
    <3> QED BY <1>3, <3>1, <3>2
  <2> QED BY <2>2, <2>3, <2>4
<1>5. WaitersCounted'
  BY <1>2, <1>4 DEF WaitersCounted, InSemWait
<1> QED BY <1>1, <1>5

LEMMA HandlerReaders ==
  ASSUME ReadersInv, NEW c \in Conns, Handler(c) \/ Die(c)
  PROVE  WaitersCounted' /\ MappingStays'
<1> USE MonitorAssumption DEF ReadersInv, ReadersOK
<1>1. CASE Sync(c)
  <2>1. \A d \in alive : d \in Conns /\ waiting'[d] + sync_lock'[d] = waiting[d] + sync_lock[d]
    BY <1>1 DEF Sync, Types, TypeOK
  <2>2. rpc' = rpc /\ alive' = alive /\ copy' = copy /\ stinger' = stinger
    BY <1>1 DEF Sync, reader
  <2> QED BY <2>1, <2>2 DEF WaitersCounted, MappingStays, ReadersOf
<1>2. ASSUME NEW from, NEW to, UpdateAlgs(c, from, to)
      PROVE  WaitersCounted' /\ MappingStays'
  <2>1. WaitersCounted'
    BY <1>2, CountStays DEF UpdateAlgs, reader
  <2>2. MappingStays'
    BY <1>2 DEF UpdateAlgs, reader, MappingStays, ReadersOf, Types, TypeOK
  <2> QED BY <2>1, <2>2
<1>3. CASE Die(c)
  <2>1. MappingStays'
    BY <1>3 DEF Die, MappingStays, ReadersOf, Types, TypeOK
  <2>2. ASSUME NEW d \in alive'
        PROVE  Cardinality(InSemWait(d)') = waiting'[d] + sync_lock'[d]
    <3>1. d \in alive /\ d # c /\ d \in Conns
      BY <1>3, <2>2 DEF Die, Types, TypeOK
    <3>2. InSemWait(d)' = InSemWait(d)
      BY <1>3, <3>1 DEF Die, InSemWait, ReadersOf, Types, TypeOK
    <3>3. waiting'[d] = waiting[d] /\ sync_lock'[d] = sync_lock[d]
      BY <1>3, <3>1 DEF Die, Types, TypeOK
    <3> QED BY <3>1, <3>2, <3>3 DEF WaitersCounted, InSemWait
  <2> QED BY <2>1, <2>2 DEF WaitersCounted, InSemWait
<1>4. ASSUME NEW from, NEW to, NEW message,
             Map(c, from, to) \/ Send(c, from, message, to) \/ Receive(c, from, to)
      PROVE  WaitersCounted' /\ MappingStays'
  <2>1. /\ rpc' = rpc /\ alive' = alive /\ copy' = copy /\ stinger' = stinger
        /\ waiting' = waiting /\ sync_lock' = sync_lock
    BY <1>4 DEF Map, Send, Receive, client, reader
  <2> QED BY <2>1, CountStays DEF MappingStays
<1> QED BY <1>1, <1>2, <1>3, <1>4 DEF Handler

\* For any number of processes and readers and whichever of them die: every
\* waiting reader is counted or has a token, so that sync never loses a wake-up,
\* and no mapping is unmapped under a reader (wait_for_sync, sync and update_algs
\* of stinger_mon.cpp).
THEOREM ReadersHold == Spec => []ReadersOK
<1>1. ReadersInv /\ [Next]_vars => ReadersInv'
  <2> SUFFICES ASSUME ReadersInv, [Next]_vars PROVE ReadersInv'
    OBVIOUS
  <2>1. Types' /\ TypeOK'
    BY StepTypes DEF ReadersInv, Types
  <2>2. WaitersCounted' /\ MappingStays'
    <3>1. CASE \/ UNCHANGED vars \/ Loop
               \/ \E c \in Conns : Connect(c) \/ Register(c)
      <4>1. /\ rpc' = rpc /\ alive' = alive /\ copy' = copy /\ stinger' = stinger
            /\ waiting' = waiting /\ sync_lock' = sync_lock
        BY <3>1 DEF vars, server, registry, client, reader, Loop, ApplyBatch, Crash, NextPass,
                    GetMon, Serve, Connect, Register, HasMon, DeleteMon, AddMon
      <4> QED BY <4>1, CountStays DEF ReadersInv, ReadersOK, MappingStays
    <3>2. CASE \E c \in Conns : Handler(c) \/ Die(c)
      BY <3>2, HandlerReaders
    <3>3. CASE \E r \in Readers : WaitForSync(r) \/ SemWait(r) \/ ReadLock(r) \/ ReadUnlock(r)
      BY <3>3, ReaderSteps
    <3> QED BY <3>1, <3>2, <3>3 DEF Next
  <2> QED BY <2>1, <2>2 DEF ReadersInv, ReadersOK
<1>2. ReadersInv => ReadersOK
  BY DEF ReadersInv
<1> QED BY <1>1, <1>2, InitReaders, PTL DEF Spec

-----------------------------------------------------------------------------
(* The protocol of a monitor and the passes of the process loop, so long   *)
(* as no monitor is erased in front of the loop.                           *)

Unregistered == {"connect", "has", "delete", "erase", "add"}

\* A monitor is registered once, after the steps that precede its registration.
RegisteredOK ==
  /\ \A i \in 1 .. Len(monitors) : pc[monitors[i]] \notin Unregistered
  /\ \A i, j \in 1 .. Len(monitors) : monitors[i] = monitors[j] => i = j

\* Where the loop is, and which monitors are between their two requests.
PassOK ==
  /\ loop = "dequeue" => stop = 0
  /\ stop <= Len(monitors)
  /\ loop \in {"begin_wait", "end_wait"} => index <= stop /\ cur = monitors[index]
  /\ loop = "begin_wait" => mon_state[cur] = "READY"
  /\ loop = "end_wait" => mon_state[cur] = "PERFORMING"
  /\ \A c \in Conns : mon_state[c] = "PERFORMING" =>
       /\ InPasses
       /\ \E i \in 1 .. stop :
            /\ monitors[i] = c
            /\ IF loop \in {"begin", "begin_wait"} THEN i < index ELSE index <= i

\* What is under way on the sockets of a live monitor, by the state the server
\* has of it, and which graph it has mapped.
Quiet(c) == request[c] = "none" /\ reply[c] = None
Sent(c, message) == request[c] = message /\ reply[c] = None
Answered(c) == request[c] = "none" /\ reply[c] # None

ProtocolOK ==
  \A c \in alive :
    /\ pc[c] \in Unregistered \cup {"first", "first_update", "send_begin"} =>
         Quiet(c) /\ mon_state[c] = "READY"
    /\ pc[c] = "await_begin" =>
         \/ Sent(c, "BEGIN_UPDATE") /\ mon_state[c] = "READY"
         \/ Answered(c) /\ mon_state[c] = "PERFORMING"
    /\ pc[c] \in {"map", "sync", "send_end"} => Quiet(c) /\ mon_state[c] = "PERFORMING"
    /\ pc[c] \in {"update", "await_end"} =>
         \/ Sent(c, "END_UPDATE") /\ mon_state[c] = "PERFORMING"
         \/ Answered(c) /\ mon_state[c] = "READY"
    /\ pc[c] \in {"sync", "send_end"} => mapped[c] = version
    /\ mon_state[c] = "PERFORMING" =>
         /\ pc[c] = "update" => mapped[c] = version
         /\ pc[c] = "await_end" => stinger[c] = version

\* The monitor has been through both passes of this batch.
Had(c) ==
  /\ mon_state[c] = "READY"
  /\ \/ pc[c] = "update" /\ mapped[c] = version
     \/ pc[c] \in {"await_end", "send_begin", "await_begin"} /\ stinger[c] = version

\* The monitors the loop has been at, and those it has yet to come to.
ServedOK ==
  \A i \in 1 .. stop : monitors[i] \in alive =>
    /\ loop \in {"begin", "begin_wait"} /\ i < index => mon_state[monitors[i]] = "PERFORMING"
    /\ loop \in {"end", "end_wait"} /\ index <= i => mon_state[monitors[i]] = "PERFORMING"
    /\ loop \in {"end", "end_wait"} /\ i < index => Had(monitors[i])

Steady == ~shifted /\ loop # "crashed"
PassInv == Types /\ RegisteredOK /\ (Steady => PassOK /\ ProtocolOK /\ ServedOK)

LEMMA InitPass == Init => PassInv
<1> SUFFICES ASSUME Init PROVE PassInv
  OBVIOUS
<1> USE MonitorAssumption
<1>1. Types
  BY InitTypes
<1>2. RegisteredOK
  BY DEF Init, RegisteredOK
<1>3. PassOK /\ ServedOK
  BY DEF Init, PassOK, ServedOK
<1>4. ProtocolOK
  BY <1>1 DEF Init, ProtocolOK, Quiet, Unregistered, Types, TypeOK
<1> QED BY <1>1, <1>2, <1>3, <1>4 DEF PassInv

\* The steps of a process and of its connection thread leave the vector alone,
\* apart from the registration, and none of its entries goes back.
LEMMA RegisteredStays ==
  ASSUME PassInv, [Next]_vars
  PROVE  RegisteredOK'
<1>1. /\ monitors \in Seq(Conns) /\ Len(monitors) \in Nat
      /\ \A i \in 1 .. Len(monitors) : monitors[i] \in Conns
      /\ pc \in [Conns -> {"connect", "has", "delete", "erase", "add", "first", "first_update",
                           "send_begin", "await_begin", "map", "sync", "send_end", "update",
                           "await_end"}]
  BY DEF PassInv, Types, TypeOK
<1>2. RegisteredOK
  BY DEF PassInv
<1>3. ASSUME monitors' = monitors,
             \A c \in Conns : pc[c] \notin Unregistered => pc'[c] \notin Unregistered
      PROVE  RegisteredOK'
  BY <1>1, <1>2, <1>3 DEF RegisteredOK
<1>4. CASE UNCHANGED vars \/ Loop
  <2>1. monitors' = monitors /\ pc' = pc
    BY <1>4 DEF vars, registry, Loop, ApplyBatch, Crash, NextPass, GetMon, Serve
  <2> QED BY <1>3, <2>1
<1>5. ASSUME NEW r \in Readers, WaitForSync(r) \/ SemWait(r) \/ ReadLock(r) \/ ReadUnlock(r)
      PROVE  RegisteredOK'
  <2>1. monitors' = monitors /\ pc' = pc
    BY <1>5 DEF registry, WaitForSync, SemWait, ReadLock, ReadUnlock
  <2> QED BY <1>3, <2>1
<1>6. ASSUME NEW c \in Conns, Handler(c) \/ Die(c) \/ Connect(c)
      PROVE  RegisteredOK'
  <2>1. monitors' = monitors
    BY <1>6 DEF registry, Handler, Map, Send, Receive, Sync, UpdateAlgs, Die, Connect
  <2>2. \/ pc' = pc
        \/ pc[c] = "connect" /\ pc' = [pc EXCEPT ![c] = "has"]
        \/ \E to \in {"first_update", "send_begin", "await_begin", "map", "sync", "send_end",
                      "update", "await_end"} : pc' = [pc EXCEPT ![c] = to]
    <3>1. CASE Die(c) \/ Connect(c)
      <4>1. CASE Die(c)
        BY <4>1 DEF Die
      <4>2. CASE Connect(c)
        BY <4>2 DEF Connect, Goto
      <4> QED BY <3>1, <4>1, <4>2
    <3>2. CASE Handler(c)
      BY <3>2 DEF Handler, Map, Send, Receive, Sync, UpdateAlgs, Goto
    <3> QED BY <1>6, <3>1, <3>2
  <2>3. \A d \in Conns : pc[d] \notin Unregistered => pc'[d] \notin Unregistered
    BY <1>1, <2>2 DEF Unregistered
  <2> QED BY <1>3, <2>1, <2>3
<1>7. ASSUME NEW c \in Conns, Register(c)
      PROVE  RegisteredOK'
  <2>1. CASE HasMon(c, "has", "delete") \/ HasMon(c, "delete", "erase")
    <3>1. monitors' = monitors /\ pc[c] \in {"has", "delete"}
      BY <2>1 DEF registry, HasMon, Goto
    <3>2. \E to : pc' = [pc EXCEPT ![c] = to]
      BY <2>1 DEF HasMon, Goto
    <3>3. \A d \in Conns : pc[d] \notin Unregistered => pc'[d] \notin Unregistered
      BY <1>1, <3>1, <3>2 DEF Unregistered
    <3> QED BY <1>3, <3>1, <3>3
  <2>2. CASE DeleteMon(c)
    <3>1. pc[c] = "erase" /\ pc' = [pc EXCEPT ![c] = "add"]
      BY <2>2 DEF DeleteMon, Goto
    <3>2. \A d \in Conns : pc[d] \notin Unregistered => pc'[d] \notin Unregistered
      BY <1>1, <3>1 DEF Unregistered
    <3>3. ASSUME NEW i \in 1 .. Len(monitors), monitors' = RemoveAt(monitors, i)
          PROVE  RegisteredOK'
      <4>1. /\ Len(monitors') = Len(monitors) - 1
            /\ \A j \in 1 .. Len(monitors) - 1 :
                 monitors'[j] = IF j < i THEN monitors[j] ELSE monitors[j + 1]
        BY <1>1, <3>3, RemovedAt
      <4>2. \A j \in 1 .. Len(monitors') : pc'[monitors'[j]] \notin Unregistered
        BY <1>1, <1>2, <3>2, <4>1 DEF RegisteredOK
      <4>3. \A j, k \in 1 .. Len(monitors') : monitors'[j] = monitors'[k] => j = k
        BY <1>1, <1>2, <4>1 DEF RegisteredOK
      <4> QED BY <4>2, <4>3 DEF RegisteredOK
    <3> QED BY <1>3, <2>2, <3>2, <3>3, Erased DEF PassInv
  <2>3. CASE AddMon(c)
    <3>1. pc[c] = "add" /\ pc' = [pc EXCEPT ![c] = "first"] /\ monitors' = Append(monitors, c)
      BY <2>3 DEF AddMon, Goto
    <3>2. /\ Len(monitors') = Len(monitors) + 1 /\ monitors'[Len(monitors) + 1] = c
          /\ \A j \in 1 .. Len(monitors) : monitors'[j] = monitors[j]
      BY <1>1, <3>1, AppendProperties
    <3>3. \A j \in 1 .. Len(monitors) : monitors[j] # c
      BY <1>2, <3>1 DEF RegisteredOK, Unregistered
    <3>4. \A j \in 1 .. Len(monitors') : pc'[monitors'[j]] \notin Unregistered
      <4>1. \A d \in Conns : pc[d] \notin Unregistered => pc'[d] \notin Unregistered
        BY <1>1, <3>1 DEF Unregistered
      <4>2. pc'[c] \notin Unregistered
        BY <1>1, <3>1 DEF Unregistered
      <4>3. \A j \in 1 .. Len(monitors') : j \in 1 .. Len(monitors) \/ j = Len(monitors) + 1
        BY <1>1, <3>2
      <4> QED BY <1>1, <1>2, <3>2, <4>1, <4>2, <4>3 DEF RegisteredOK
    <3>5. \A j, k \in 1 .. Len(monitors') : monitors'[j] = monitors'[k] => j = k
      <4>1. \A j \in 1 .. Len(monitors') : j \in 1 .. Len(monitors) \/ j = Len(monitors) + 1
        BY <1>1, <3>2
      <4> QED BY <1>2, <3>2, <3>3, <4>1 DEF RegisteredOK
    <3> QED BY <3>4, <3>5 DEF RegisteredOK
  <2> QED BY <1>7, <2>1, <2>2, <2>3 DEF Register
<1> QED BY <1>4, <1>5, <1>6, <1>7 DEF Next

\* A step of the readers, of registration before the vector is changed, or none
\* at all changes nothing the passes depend on.
LEMMA PassStays ==
  ASSUME PassInv, Steady,
         \/ UNCHANGED vars
         \/ \E r \in Readers : WaitForSync(r) \/ SemWait(r) \/ ReadLock(r) \/ ReadUnlock(r)
         \/ \E c \in Conns : \/ Connect(c) \/ HasMon(c, "has", "delete")
                             \/ HasMon(c, "delete", "erase")
  PROVE  PassOK' /\ ProtocolOK' /\ ServedOK'
<1>1. /\ \A i \in 1 .. Len(monitors) : monitors[i] \in Conns
      /\ pc \in [Conns -> {"connect", "has", "delete", "erase", "add", "first", "first_update",
                           "send_begin", "await_begin", "map", "sync", "send_end", "update",
                           "await_end"}]
      /\ alive \subseteq Conns /\ Len(monitors) \in Nat /\ stop \in Nat
  BY DEF PassInv, Types, TypeOK
<1>2. /\ alive' = alive /\ request' = request /\ reply' = reply /\ monitors' = monitors
      /\ mon_state' = mon_state /\ mapped' = mapped /\ stinger' = stinger
      /\ version' = version /\ loop' = loop /\ index' = index /\ stop' = stop /\ cur' = cur
  BY DEF vars, server, registry, client, reader, WaitForSync, SemWait, ReadLock, ReadUnlock,
         Connect, HasMon
<1>3. \/ pc' = pc
      \/ \E c \in Conns : pc[c] \in Unregistered /\ \E to \in Unregistered : pc' = [pc EXCEPT ![c] = to]
  BY DEF vars, WaitForSync, SemWait, ReadLock, ReadUnlock, Connect, HasMon, Goto, Unregistered
<1>4. ASSUME NEW d \in Conns
      PROVE  pc'[d] = pc[d] \/ {pc[d], pc'[d]} \subseteq Unregistered
  <2>1. ASSUME NEW c \in Conns, pc[c] \in Unregistered,
               NEW to \in Unregistered, pc' = [pc EXCEPT ![c] = to]
        PROVE  pc'[d] = pc[d] \/ {pc[d], pc'[d]} \subseteq Unregistered
    <3>1. pc'[d] = IF d = c THEN to ELSE pc[d]
      BY <1>1, <2>1
    <3> QED BY <2>1, <3>1
  <2> QED BY <1>3, <2>1
<1>5. RegisteredOK /\ PassOK /\ ProtocolOK /\ ServedOK
  BY DEF PassInv
<1>6. PassOK'
  BY <1>2, <1>5 DEF PassOK, InPasses
<1>7. ProtocolOK'
  BY <1>1, <1>2, <1>4, <1>5 DEF ProtocolOK, Unregistered, Quiet, Sent, Answered
<1>8. ASSUME NEW i \in 1 .. stop, monitors[i] \in alive
      PROVE  Had(monitors[i]) => Had(monitors[i])'
  BY <1>1, <1>2, <1>4, <1>8 DEF Had, Unregistered
<1>9. ServedOK'
  BY <1>2, <1>5, <1>8 DEF ServedOK
<1> QED BY <1>6, <1>7, <1>9

\* A monitor that registers comes after those the passes go through.
LEMMA PassAdd ==
  ASSUME PassInv, Steady, NEW c \in Conns, AddMon(c)
  PROVE  PassOK' /\ ProtocolOK' /\ ServedOK'
<1>1. /\ monitors \in Seq(Conns) /\ \A i \in 1 .. Len(monitors) : monitors[i] \in Conns
      /\ pc \in [Conns -> {"connect", "has", "delete", "erase", "add", "first", "first_update",
                           "send_begin", "await_begin", "map", "sync", "send_end", "update",
                           "await_end"}]
      /\ alive \subseteq Conns /\ Len(monitors) \in Nat /\ stop \in Nat /\ index \in Nat \ {0}
  BY DEF PassInv, Types, TypeOK
<1>2. /\ alive' = alive /\ request' = request /\ reply' = reply
      /\ mon_state' = mon_state /\ mapped' = mapped /\ stinger' = stinger
      /\ version' = version /\ loop' = loop /\ index' = index /\ stop' = stop /\ cur' = cur
      /\ monitors' = Append(monitors, c)
      /\ pc[c] = "add" /\ pc' = [pc EXCEPT ![c] = "first"]
  BY DEF AddMon, Goto, server, client
<1>3. /\ Len(monitors') = Len(monitors) + 1
      /\ \A j \in 1 .. Len(monitors) : monitors'[j] = monitors[j] /\ monitors[j] # c
  BY <1>1, <1>2, AppendProperties DEF PassInv, RegisteredOK, Unregistered
<1>4. RegisteredOK /\ PassOK /\ ProtocolOK /\ ServedOK
  BY DEF PassInv
<1>5. stop <= Len(monitors)
  BY <1>4 DEF PassOK
<1>6. \A j \in 1 .. stop : j \in 1 .. Len(monitors) /\ monitors'[j] = monitors[j] /\ monitors[j] # c
  BY <1>1, <1>3, <1>5
<1>7. PassOK'
  <2>1. loop \in {"begin_wait", "end_wait"} => index <= stop /\ cur = monitors[index] /\ index \in 1 .. stop
    BY <1>1, <1>4 DEF PassOK
  <2>2. loop' \in {"begin_wait", "end_wait"} => index' <= stop' /\ cur' = monitors'[index']
    BY <1>2, <1>6, <2>1
  <2>3. stop' <= Len(monitors')
    BY <1>1, <1>2, <1>3, <1>5
  <2> QED BY <1>2, <1>4, <1>6, <2>2, <2>3 DEF PassOK, InPasses
<1>8. ProtocolOK'
  <2>1. \A d \in Conns : pc'[d] = IF d = c THEN "first" ELSE pc[d]
    BY <1>1, <1>2
  <2> QED BY <1>1, <1>2, <1>4, <2>1 DEF ProtocolOK, Unregistered, Quiet, Sent, Answered
<1>9. \A i \in 1 .. stop : pc'[monitors[i]] = pc[monitors[i]]
  BY <1>1, <1>2, <1>6
<1>10. ServedOK'
  BY <1>2, <1>4, <1>6, <1>9 DEF ServedOK, Had
<1> QED BY <1>7, <1>8, <1>10

\* The removal of a monitor outside the passes finds no other at work.
LEMMA PassDelete ==
  ASSUME PassInv, Steady, Steady', NEW c \in Conns, DeleteMon(c)
  PROVE  PassOK' /\ ProtocolOK' /\ ServedOK'
<1>1. /\ monitors \in Seq(Conns) /\ \A i \in 1 .. Len(monitors) : monitors[i] \in Conns
      /\ pc \in [Conns -> {"connect", "has", "delete", "erase", "add", "first", "first_update",
                           "send_begin", "await_begin", "map", "sync", "send_end", "update",
                           "await_end"}]
      /\ loop \in {"dequeue", "begin", "begin_wait", "end", "end_wait", "crashed"}
      /\ alive \subseteq Conns /\ Len(monitors) \in Nat /\ stop \in Nat /\ index \in Nat \ {0}
      /\ shifted \in BOOLEAN
  BY DEF PassInv, Types, TypeOK
<1>2. /\ alive' = alive /\ request' = request /\ reply' = reply
      /\ mon_state' = mon_state /\ mapped' = mapped /\ stinger' = stinger
      /\ version' = version /\ loop' = loop /\ index' = index /\ stop' = stop /\ cur' = cur
      /\ pc[c] = "erase" /\ pc' = [pc EXCEPT ![c] = "add"]
  BY DEF DeleteMon, Goto, server, client
<1>3. RegisteredOK /\ PassOK /\ ProtocolOK /\ ServedOK
  BY DEF PassInv
<1>4. \A d \in Conns : pc'[d] = IF d = c THEN "add" ELSE pc[d]
  BY <1>1, <1>2
<1>5. ProtocolOK'
  BY <1>1, <1>2, <1>3, <1>4 DEF ProtocolOK, Unregistered, Quiet, Sent, Answered
<1>6. CASE monitors' = monitors
  <2>1. PassOK'
    BY <1>2, <1>3, <1>6 DEF PassOK, InPasses
  <2>2. ASSUME NEW i \in 1 .. stop
        PROVE  pc'[monitors[i]] = pc[monitors[i]]
    <3>1. i \in 1 .. Len(monitors) /\ monitors[i] \in Conns
      BY <1>1, <1>3 DEF PassOK
    <3> QED BY <1>2, <1>3, <1>4, <3>1 DEF RegisteredOK, Unregistered
  <2>3. ServedOK'
    BY <1>2, <1>3, <1>6, <2>2 DEF ServedOK, Had
  <2> QED BY <1>5, <2>1, <2>3
<1>7. CASE \E i \in 1 .. Len(monitors) : monitors' = RemoveAt(monitors, i) /\ ~InPasses
  <2>1. loop = "dequeue" /\ stop = 0
    BY <1>1, <1>3, <1>7 DEF PassOK, InPasses, Steady
  <2>2. Len(monitors') \in Nat
    BY <1>1, <1>7, RemovedAt
  <2>3. PassOK'
    BY <1>2, <1>3, <2>1, <2>2 DEF PassOK, InPasses
  <2>4. ServedOK'
    BY <1>2, <2>1 DEF ServedOK
  <2> QED BY <1>5, <2>3, <2>4
<1>8. shifted' = FALSE
  BY <1>1 DEF Steady, DeleteMon
<1> QED BY <1>6, <1>7, <1>8, Erased DEF PassInv

-----------------------------------------------------------------------------
\* The process loop.
LEMMA PassLoop ==
  ASSUME PassInv, Steady, Loop, Steady'
  PROVE  PassOK' /\ ProtocolOK' /\ ServedOK'
<1> USE MonitorAssumption
<1>1. /\ monitors \in Seq(Conns) /\ \A i \in 1 .. Len(monitors) : monitors[i] \in Conns
      /\ DOMAIN monitors = 1 .. Len(monitors)
      /\ pc \in [Conns -> {"connect", "has", "delete", "erase", "add", "first", "first_update",
                           "send_begin", "await_begin", "map", "sync", "send_end", "update",
                           "await_end"}]
      /\ loop \in {"dequeue", "begin", "begin_wait", "end", "end_wait", "crashed"}
      /\ alive \subseteq Conns /\ Len(monitors) \in Nat /\ stop \in Nat /\ index \in Nat \ {0}
      /\ mon_state \in [Conns -> {"READY", "PERFORMING", "ERROR"}]
      /\ request \in [Conns -> {"none", "BEGIN_UPDATE", "END_UPDATE"}]
      /\ reply \in [Conns -> Versions \cup {None}] /\ version \in Versions
  BY DEF PassInv, Types, TypeOK
<1>2. RegisteredOK /\ PassOK /\ ProtocolOK /\ ServedOK
  BY DEF PassInv
<1>3. \A c \in alive : c \in Conns /\ mon_state[c] \in {"READY", "PERFORMING"}
  BY <1>1, <1>2 DEF ProtocolOK, Unregistered
<1>4. pc' = pc /\ alive' = alive /\ monitors' = monitors /\ mapped' = mapped /\ stinger' = stinger
  BY DEF Loop, ApplyBatch, Crash, NextPass, GetMon, Serve, registry, client
<1>5. CASE ApplyBatch
  <2>1. /\ loop = "dequeue" /\ loop' = "begin" /\ index' = 1 /\ stop' = Len(monitors)
        /\ mon_state' = mon_state /\ request' = request /\ reply' = reply /\ cur' = cur
    BY <1>5 DEF ApplyBatch, registry
  <2>2. \A c \in Conns : mon_state[c] # "PERFORMING"
    BY <1>2, <2>1 DEF PassOK, InPasses
  <2>3. PassOK'
    BY <1>1, <1>4, <2>1, <2>2 DEF PassOK
  <2>4. ProtocolOK'
    BY <1>1, <1>2, <1>4, <2>1, <2>2 DEF ProtocolOK, Quiet, Sent, Answered
  <2>5. ServedOK'
    BY <1>1, <2>1 DEF ServedOK
  <2> QED BY <2>3, <2>4, <2>5
<1>6. CASE NextPass
  <2>1. /\ loop \in {"begin", "end"} /\ index > stop /\ index' = 1 /\ version' = version
        /\ loop' = IF loop = "begin" THEN "end" ELSE "dequeue"
        /\ stop' = IF loop = "begin" THEN stop ELSE 0
        /\ mon_state' = mon_state /\ request' = request /\ reply' = reply /\ cur' = cur
    BY <1>6 DEF NextPass, registry
  <2>2. \A i \in 1 .. stop : i < index
    BY <1>1, <2>1
  <2>3. loop = "end" => \A c \in Conns : mon_state[c] # "PERFORMING"
    BY <1>1, <1>2, <2>1, <2>2 DEF PassOK
  <2>4. PassOK'
    BY <1>1, <1>2, <1>4, <2>1, <2>3 DEF PassOK, InPasses
  <2>5. ProtocolOK'
    BY <1>1, <1>2, <1>4, <2>1 DEF ProtocolOK, Quiet, Sent, Answered
  <2>6. ServedOK'
    BY <1>1, <1>2, <1>4, <2>1, <2>2 DEF ServedOK
  <2> QED BY <2>4, <2>5, <2>6
<1>7. ASSUME NEW pass, NEW state, GetMon(pass, state),
             \/ pass = "begin" /\ state = "READY"
             \/ pass = "end" /\ state = "PERFORMING"
      PROVE  PassOK' /\ ProtocolOK' /\ ServedOK'
  <2>1. /\ loop = pass /\ index <= stop /\ index \in 1 .. Len(monitors) /\ stop' = stop
        /\ mon_state' = mon_state /\ request' = request /\ reply' = reply /\ version' = version
    BY <1>1, <1>7 DEF GetMon, Undefined, registry
  <2>2. ProtocolOK'
    BY <1>1, <1>2, <1>4, <2>1 DEF ProtocolOK, Quiet, Sent, Answered
  <2>3. CASE mon_state[monitors[index]] = state
    <3>1. /\ cur' = monitors[index] /\ index' = index
          /\ \/ loop' = "begin_wait" /\ pass = "begin"
             \/ loop' = "end_wait" /\ pass = "end"
      BY <1>7, <2>3 DEF GetMon, WaitOf
    <3>2. PassOK'
      BY <1>2, <1>4, <1>7, <2>1, <2>3, <3>1 DEF PassOK, InPasses
    <3>3. ServedOK'
      BY <1>2, <1>4, <1>7, <2>1, <3>1 DEF ServedOK, Had
    <3> QED BY <2>2, <3>2, <3>3
  <2>4. CASE mon_state[monitors[index]] # state
    <3>1. loop' = pass /\ cur' = None /\ index' = index + 1
      BY <1>7, <2>4 DEF GetMon
    <3>2. \A i \in 1 .. stop : /\ i < index' <=> i < index \/ i = index
                               /\ index' <= i <=> index <= i /\ i # index
      BY <1>1, <3>1
    <3>3. PassOK'
      BY <1>2, <1>4, <1>7, <2>1, <2>4, <3>1, <3>2 DEF PassOK, InPasses
    <3>4. monitors[index] \in alive => mon_state[monitors[index]] = "PERFORMING" /\ pass = "begin"
      <4>1. index \in 1 .. stop /\ index <= index
        BY <1>1, <2>1
      <4> QED BY <1>2, <1>3, <1>7, <2>1, <2>4, <4>1 DEF ServedOK
    <3>5. ServedOK'
      BY <1>2, <1>4, <1>7, <2>1, <3>1, <3>2, <3>4 DEF ServedOK, Had
    <3> QED BY <2>2, <3>3, <3>5
  <2> QED BY <2>3, <2>4
<1>8. ASSUME NEW pass, NEW message, NEW state, Serve(pass, message, state),
             \/ pass = "begin" /\ message = "BEGIN_UPDATE" /\ state = "PERFORMING"
             \/ pass = "end" /\ message = "END_UPDATE" /\ state = "READY"
      PROVE  PassOK' /\ ProtocolOK' /\ ServedOK'
  <2>1. /\ \/ loop = "begin_wait" /\ pass = "begin"
           \/ loop = "end_wait" /\ pass = "end"
        /\ loop' = pass /\ index' = index + 1 /\ cur' = None /\ stop' = stop
        /\ version' = version /\ CanBeRead(cur)
    BY <1>8 DEF Serve, WaitOf
  <2>2. /\ index \in 1 .. stop /\ index \in 1 .. Len(monitors) /\ cur = monitors[index]
        /\ cur \in Conns
        /\ mon_state[cur] = IF pass = "begin" THEN "READY" ELSE "PERFORMING"
    BY <1>1, <1>2, <2>1 DEF PassOK
  <2>3. /\ \A c \in Conns : c # cur => /\ mon_state'[c] = mon_state[c]
                                       /\ request'[c] = request[c] /\ reply'[c] = reply[c]
        /\ mon_state'[cur] = IF request[cur] = message THEN state ELSE "ERROR"
        /\ reply'[cur] = IF request[cur] = message THEN version ELSE reply[cur]
        /\ request'[cur] = "none"
    BY <1>1, <1>8, <2>2 DEF Serve
  <2>4. cur \in alive => /\ request[cur] = message
                         /\ pass = "begin" => pc[cur] = "await_begin"
                         /\ pass = "end" => pc[cur] \in {"update", "await_end"}
    <3>1. cur \in alive => request[cur] # "none"
      BY <2>1 DEF CanBeRead
    <3> QED BY <1>1, <1>2, <1>8, <2>2, <3>1 DEF ProtocolOK, Unregistered, Quiet, Sent, Answered
  <2>5. version # None
    BY <1>1, MonitorAssumption DEF Versions
  <2>6. \A i \in 1 .. stop : /\ i < index' <=> i < index \/ i = index
                             /\ index' <= i <=> index <= i /\ i # index
                             /\ monitors[i] = cur <=> i = index
    BY <1>1, <1>2, <2>1, <2>2 DEF RegisteredOK, PassOK
  <2>7. PassOK'
    <3>1. stop' <= Len(monitors') /\ loop' # "dequeue" /\ InPasses'
      BY <1>2, <1>4, <1>8, <2>1 DEF PassOK, InPasses
    <3>2. ASSUME NEW c \in Conns, mon_state'[c] = "PERFORMING"
          PROVE  \E i \in 1 .. stop' :
                   /\ monitors'[i] = c
                   /\ IF loop' \in {"begin", "begin_wait"} THEN i < index' ELSE index' <= i
      <4>1. CASE c # cur
        <5>1. PICK i \in 1 .. stop :
                /\ monitors[i] = c
                /\ IF loop \in {"begin", "begin_wait"} THEN i < index ELSE index <= i
          BY <1>2, <2>3, <3>2, <4>1 DEF PassOK
        <5> QED BY <1>4, <1>8, <2>1, <2>6, <4>1, <5>1
      <4>2. CASE c = cur
        <5>1. pass = "begin"
          BY <1>8, <2>3, <3>2, <4>2
        <5> QED BY <1>4, <2>1, <2>2, <2>6, <4>2, <5>1
      <4> QED BY <4>1, <4>2
    <3>3. loop' \notin {"begin_wait", "end_wait"}
      BY <1>8, <2>1
    <3> QED BY <3>1, <3>2, <3>3 DEF PassOK
  <2>8. ProtocolOK'
    <3>1. ASSUME NEW c \in alive, c # cur
          PROVE  /\ mon_state'[c] = mon_state[c] /\ pc'[c] = pc[c] /\ mapped'[c] = mapped[c]
                 /\ stinger'[c] = stinger[c] /\ request'[c] = request[c] /\ reply'[c] = reply[c]
      BY <1>3, <1>4, <2>3, <3>1
    <3>2. cur \in alive => /\ mon_state'[cur] = state /\ request'[cur] = "none"
                           /\ reply'[cur] = version /\ pc'[cur] = pc[cur]
      BY <1>4, <2>3, <2>4
    <3>3. ASSUME NEW c, c = cur, c \in alive
          PROVE  /\ mon_state'[c] = state /\ request'[c] = "none" /\ reply'[c] = version
                 /\ pass = "begin" => pc'[c] = "await_begin" /\ state = "PERFORMING"
                 /\ pass = "end" => pc'[c] \in {"update", "await_end"} /\ state = "READY"
      BY <1>8, <2>4, <3>2, <3>3
    <3>4. pass \in {"begin", "end"}
      BY <1>8
    <3> QED BY <1>2, <1>4, <2>1, <2>5, <3>1, <3>3, <3>4
            DEF ProtocolOK, Unregistered, Quiet, Sent, Answered
  <2>9. ServedOK'
    <3>1. ASSUME NEW i \in 1 .. stop, i # index, monitors[i] \in alive
          PROVE  mon_state'[monitors[i]] = mon_state[monitors[i]]
      BY <1>3, <2>3, <2>6, <3>1
    <3>2. cur \in alive => /\ mon_state'[cur] = state
                           /\ pass = "end" => \/ pc[cur] = "update" /\ mapped[cur] = version
                                              \/ pc[cur] = "await_end" /\ stinger[cur] = version
      BY <1>2, <2>2, <2>3, <2>4 DEF ProtocolOK
    <3>3. ASSUME NEW i \in 1 .. stop', monitors'[i] \in alive', i # index
          PROVE  /\ pass = "begin" /\ i < index' => mon_state'[monitors'[i]] = "PERFORMING"
                 /\ pass = "end" /\ index' <= i => mon_state'[monitors'[i]] = "PERFORMING"
                 /\ pass = "end" /\ i < index' => Had(monitors[i])
      BY <1>2, <1>4, <2>1, <2>6, <3>1, <3>3 DEF ServedOK
    <3>4. ASSUME cur \in alive
          PROVE  /\ pass = "begin" => mon_state'[cur] = "PERFORMING"
                 /\ pass = "end" =>
                      /\ mon_state'[cur] = "READY"
                      /\ \/ pc'[cur] = "update" /\ mapped'[cur] = version'
                         \/ pc'[cur] = "await_end" /\ stinger'[cur] = version'
      BY <1>4, <1>8, <2>1, <3>2, <3>4
    <3>5. ASSUME NEW i \in 1 .. stop, i # index, monitors[i] \in alive, pass = "end", i < index'
          PROVE  /\ mon_state'[monitors[i]] = "READY"
                 /\ \/ pc'[monitors[i]] = "update" /\ mapped'[monitors[i]] = version'
                    \/ /\ pc'[monitors[i]] \in {"await_end", "send_begin", "await_begin"}
                       /\ stinger'[monitors[i]] = version'
      BY <1>4, <2>1, <3>1, <3>3, <3>5 DEF Had
    <3>6. ASSUME NEW i \in 1 .. stop, monitors[i] \in alive, NEW d, d = monitors'[i]
          PROVE  /\ pass = "begin" /\ i < index' => mon_state'[d] = "PERFORMING"
                 /\ pass = "end" /\ index' <= i => mon_state'[d] = "PERFORMING"
                 /\ pass = "end" /\ i < index' => Had(d)'
      <4>1. CASE i # index
        <5>1. i \in 1 .. stop' /\ monitors'[i] \in alive' /\ d = monitors[i]
          BY <1>4, <2>1, <3>6
        <5> QED BY <3>3, <3>5, <3>6, <4>1, <5>1 DEF Had
      <4>2. CASE i = index
        <5>1. d = cur /\ d \in alive /\ i < index'
          BY <1>4, <2>2, <2>6, <3>6, <4>2
        <5>2. ~(index' <= i)
          BY <1>1, <2>1, <4>2
        <5> QED BY <3>4, <5>1, <5>2 DEF Had
      <4> QED BY <4>1, <4>2
    <3>7. \A i \in 1 .. stop' : i \in 1 .. stop /\ (monitors'[i] \in alive' => monitors[i] \in alive)
      BY <1>4, <2>1
    <3>8. (loop' = "begin" /\ pass = "begin") \/ (loop' = "end" /\ pass = "end")
      BY <1>8, <2>1
    <3> QED BY <3>6, <3>7, <3>8 DEF ServedOK
  <2> QED BY <2>7, <2>8, <2>9
<1>9. ~Crash
  BY DEF Crash, Steady
<1> QED BY <1>5, <1>6, <1>7, <1>8, <1>9 DEF Loop

-----------------------------------------------------------------------------
\* A step of the handler thread changes what is known of its own process only.
LEMMA PassHandler ==
  ASSUME PassInv, Steady, NEW c \in Conns, Handler(c) \/ Die(c)
  PROVE  PassOK' /\ ProtocolOK' /\ ServedOK'
<1> USE MonitorAssumption
<1>1. /\ \A i \in 1 .. Len(monitors) : monitors[i] \in Conns
      /\ pc \in [Conns -> {"connect", "has", "delete", "erase", "add", "first", "first_update",
                           "send_begin", "await_begin", "map", "sync", "send_end", "update",
                           "await_end"}]
      /\ alive \subseteq Conns /\ Len(monitors) \in Nat /\ stop \in Nat /\ index \in Nat \ {0}
      /\ mon_state \in [Conns -> {"READY", "PERFORMING", "ERROR"}]
      /\ request \in [Conns -> {"none", "BEGIN_UPDATE", "END_UPDATE"}]
      /\ reply \in [Conns -> Versions \cup {None}]
      /\ mapped \in [Conns -> Versions \cup {None}] /\ stinger \in [Conns -> Versions \cup {None}]
  BY DEF PassInv, Types, TypeOK
<1>2. RegisteredOK /\ PassOK /\ ProtocolOK /\ ServedOK
  BY DEF PassInv
<1>3. /\ monitors' = monitors /\ mon_state' = mon_state /\ version' = version
      /\ loop' = loop /\ index' = index /\ stop' = stop /\ cur' = cur /\ alive' \subseteq alive
  <2>1. CASE Handler(c)
    BY <2>1 DEF Handler, Map, Send, Receive, Sync, UpdateAlgs, server, registry
  <2>2. CASE Die(c)
    BY <2>2 DEF Die, server, registry
  <2> QED BY <2>1, <2>2
<1>4. PassOK'
  BY <1>2, <1>3 DEF PassOK, InPasses
<1> DEFINE Same(d) == /\ pc'[d] = pc[d] /\ request'[d] = request[d] /\ reply'[d] = reply[d]
                      /\ mapped'[d] = mapped[d] /\ stinger'[d] = stinger[d]
<1>5. ASSUME NEW d \in alive', d # c PROVE Same(d)
  <2>1. d \in Conns
    BY <1>1, <1>3, <1>5
  <2>2. CASE Handler(c)
    BY <1>1, <1>5, <2>1, <2>2 DEF Handler, Map, Send, Receive, Sync, UpdateAlgs, Goto, client
  <2>3. CASE Die(c)
    BY <1>1, <1>5, <2>1, <2>3 DEF Die
  <2> QED BY <2>2, <2>3
\* What the protocol says of one process.
<1> DEFINE P == /\ pc[c] \in Unregistered \cup {"first", "first_update", "send_begin"} =>
                     Quiet(c) /\ mon_state[c] = "READY"
                /\ pc[c] = "await_begin" =>
                     \/ Sent(c, "BEGIN_UPDATE") /\ mon_state[c] = "READY"
                     \/ Answered(c) /\ mon_state[c] = "PERFORMING"
                /\ pc[c] \in {"map", "sync", "send_end"} =>
                     Quiet(c) /\ mon_state[c] = "PERFORMING"
                /\ pc[c] \in {"update", "await_end"} =>
                     \/ Sent(c, "END_UPDATE") /\ mon_state[c] = "PERFORMING"
                     \/ Answered(c) /\ mon_state[c] = "READY"
                /\ pc[c] \in {"sync", "send_end"} => mapped[c] = version
                /\ mon_state[c] = "PERFORMING" =>
                     /\ pc[c] = "update" => mapped[c] = version
                     /\ pc[c] = "await_end" => stinger[c] = version
<1>6. c \in alive => P
  BY <1>2 DEF ProtocolOK
<1>7. c \in alive' => P' /\ (Had(c) => Had(c)')
  <2> SUFFICES ASSUME c \in alive' PROVE P' /\ (Had(c) => Had(c)')
    OBVIOUS
  <2>1. c \in alive /\ P
    BY <1>3, <1>6
  <2> USE DEF Unregistered, Quiet, Sent, Answered, Had, Goto
  <2>2. CASE Map(c, "first", "first_update") \/ Map(c, "map", "sync")
    <3>1. /\ mapped'[c] = version /\ stinger'[c] = stinger[c]
          /\ request'[c] = request[c] /\ reply'[c] = reply[c]
      BY <1>1, <2>2 DEF Map
    <3>2. \/ pc[c] = "first" /\ pc'[c] = "first_update"
          \/ pc[c] = "map" /\ pc'[c] = "sync"
      BY <1>1, <2>2 DEF Map
    <3> QED BY <1>3, <2>1, <3>1, <3>2
  <2>3. CASE UpdateAlgs(c, "first_update", "send_begin") \/ UpdateAlgs(c, "update", "await_end")
    <3>1. stinger'[c] = mapped[c] /\ request'[c] = request[c] /\ reply'[c] = reply[c]
      BY <1>1, <2>3 DEF UpdateAlgs
    <3>2. \/ pc[c] = "first_update" /\ pc'[c] = "send_begin"
          \/ pc[c] = "update" /\ pc'[c] = "await_end"
      BY <1>1, <2>3 DEF UpdateAlgs
    <3> QED BY <1>3, <2>1, <3>1, <3>2
  <2>4. CASE Send(c, "send_begin", "BEGIN_UPDATE", "await_begin")
    <3>1. /\ request'[c] = "BEGIN_UPDATE" /\ reply'[c] = reply[c]
          /\ mapped'[c] = mapped[c] /\ stinger'[c] = stinger[c]
          /\ pc[c] = "send_begin" /\ pc'[c] = "await_begin"
      BY <1>1, <2>4 DEF Send, client
    <3> QED BY <1>3, <2>1, <3>1
  <2>5. CASE Send(c, "send_end", "END_UPDATE", "update")
    <3>1. /\ request'[c] = "END_UPDATE" /\ reply'[c] = reply[c]
          /\ mapped'[c] = mapped[c] /\ stinger'[c] = stinger[c]
          /\ pc[c] = "send_end" /\ pc'[c] = "update"
      BY <1>1, <2>5 DEF Send, client
    <3> QED BY <1>3, <2>1, <3>1
  <2>6. CASE Receive(c, "await_begin", "map") \/ Receive(c, "await_end", "send_begin")
    <3>1. /\ reply[c] # None /\ reply'[c] = None /\ request'[c] = request[c]
          /\ mapped'[c] = mapped[c] /\ stinger'[c] = stinger[c]
      BY <1>1, <2>6 DEF Receive, client
    <3>2. \/ pc[c] = "await_begin" /\ pc'[c] = "map"
          \/ pc[c] = "await_end" /\ pc'[c] = "send_begin"
      BY <1>1, <2>6 DEF Receive
    <3> QED BY <1>3, <2>1, <3>1, <3>2
  <2>7. CASE Sync(c)
    <3>1. /\ request'[c] = request[c] /\ reply'[c] = reply[c]
          /\ mapped'[c] = mapped[c] /\ stinger'[c] = stinger[c]
          /\ pc[c] = "sync" /\ pc'[c] = "send_end"
      BY <1>1, <2>7 DEF Sync
    <3> QED BY <1>3, <2>1, <3>1
  <2>8. ~Die(c)
    BY DEF Die
  <2> QED BY <2>2, <2>3, <2>4, <2>5, <2>6, <2>7, <2>8 DEF Handler
<1>8. ProtocolOK'
  <2>1. \A d \in alive' : d # c => d \in alive /\ Same(d)
    BY <1>3, <1>5
  <2> QED BY <1>2, <1>3, <1>7, <2>1 DEF ProtocolOK, Quiet, Sent, Answered
<1>9. ServedOK'
  <2>1. ASSUME NEW i \in 1 .. stop, monitors[i] \in alive', NEW d, d = monitors[i]
        PROVE  Had(d) => Had(d)'
    <3>1. CASE d = c
      BY <1>7, <2>1, <3>1 DEF Had
    <3>2. CASE d # c
      BY <1>3, <1>5, <2>1, <3>2 DEF Had
    <3> QED BY <3>1, <3>2
  <2> QED BY <1>2, <1>3, <2>1 DEF ServedOK
<1> QED BY <1>4, <1>8, <1>9

LEMMA InductivePass == PassInv /\ [Next]_vars => PassInv'
<1> SUFFICES ASSUME PassInv, [Next]_vars PROVE PassInv'
  OBVIOUS
<1>1. Types'
  BY StepTypes DEF PassInv
<1>2. Steady' => Steady
  <2>1. CASE \/ UNCHANGED vars
             \/ \E r \in Readers : WaitForSync(r) \/ SemWait(r) \/ ReadLock(r) \/ ReadUnlock(r)
    BY <2>1 DEF Steady, vars, server, registry, WaitForSync, SemWait, ReadLock, ReadUnlock
  <2>2. CASE \E c \in Conns : Connect(c) \/ HasMon(c, "has", "delete")
                              \/ HasMon(c, "delete", "erase") \/ AddMon(c)
    BY <2>2 DEF Steady, server, registry, Connect, HasMon, AddMon
  <2>3. CASE \E c \in Conns : DeleteMon(c)
    <3>1. loop' = loop /\ (shifted' = shifted \/ shifted' = (shifted \/ InPasses))
      BY <2>3 DEF DeleteMon, server
    <3> QED BY <3>1 DEF Steady
  <2>4. CASE \E c \in Conns : Handler(c) \/ Die(c)
    BY <2>4 DEF Steady, Handler, Map, Send, Receive, Sync, UpdateAlgs, Die, server, registry
  <2>5. CASE Loop
    <3>1. shifted' = shifted
      BY <2>5 DEF Loop, ApplyBatch, Crash, NextPass, GetMon, Serve, registry
    <3>2. loop = "crashed" => loop' = "crashed"
      BY <2>5 DEF Loop, ApplyBatch, Crash, NextPass, GetMon, Serve, WaitOf, Undefined
    <3> QED BY <3>1, <3>2 DEF Steady
  <2> QED BY <2>1, <2>2, <2>3, <2>4, <2>5 DEF Next, Register
<1>3. ASSUME Steady'
      PROVE  PassOK' /\ ProtocolOK' /\ ServedOK'
  <2>1. CASE Loop
    BY <1>2, <1>3, <2>1, PassLoop
  <2>2. CASE \E c \in Conns : Handler(c) \/ Die(c)
    BY <1>2, <1>3, <2>2, PassHandler
  <2>3. CASE \E c \in Conns : DeleteMon(c)
    BY <1>2, <1>3, <2>3, PassDelete
  <2>4. CASE \E c \in Conns : AddMon(c)
    BY <1>2, <1>3, <2>4, PassAdd
  <2>5. CASE \/ UNCHANGED vars
             \/ \E r \in Readers : WaitForSync(r) \/ SemWait(r) \/ ReadLock(r) \/ ReadUnlock(r)
             \/ \E c \in Conns : \/ Connect(c) \/ HasMon(c, "has", "delete")
                                 \/ HasMon(c, "delete", "erase")
    BY <1>2, <1>3, <2>5, PassStays
  <2> QED BY <2>1, <2>2, <2>3, <2>4, <2>5 DEF Next, Register
<1> QED BY <1>1, <1>3, RegisteredStays DEF PassInv

\* The inductive form: the position of the loop, the state the server has of each
\* live monitor, the messages on its sockets and what it has mapped agree, so
\* long as no monitor was erased in front of the loop.
THEOREM PassInvariant == Spec => []PassInv
<1> QED BY InitPass, InductivePass, PTL DEF Spec

\* For any number of monitors, whichever die: a monitor maps the graph, and tells
\* its readers of it, only while the loop waits for it, and what it mapped is
\* the batch it was sent (mon_handler of mon_handling.cpp against the passes of
\* process_loop_handler).
THEOREM StaticWhileMappedHolds == Spec => []StaticWhileMapped
<1>1. PassInv => StaticWhileMapped
  <2> SUFFICES ASSUME PassInv, Steady PROVE StaticWhileMapped
    BY DEF Steady, StaticWhileMapped
  <2>1. PassOK /\ ProtocolOK /\ alive \subseteq Conns
    BY DEF PassInv, Types, TypeOK
  <2> QED BY <2>1 DEF PassOK, ProtocolOK, StaticWhileMapped
<1> QED BY <1>1, PassInvariant, PTL

\* For any number of monitors, whichever die: when the passes end every live
\* monitor that was counted at the start of the batch has had it.
THEOREM EveryBatchSeenHolds == Spec => EveryBatchSeen
<1> DEFINE Ended == loop = "end" /\ loop' = "dequeue" /\ ~shifted
           SeenBy == \A i \in 1 .. stop : monitors[i] \in alive =>
                       /\ version \in {mapped[monitors[i]], stinger[monitors[i]]}
                       /\ mon_state[monitors[i]] = "READY"
<1>1. ASSUME PassInv, [Next]_vars, Ended PROVE SeenBy
  <2>1. index > stop /\ index \in Nat /\ stop \in Nat
    <3>1. CASE Loop
      BY <1>1, <3>1 DEF Loop, ApplyBatch, Crash, NextPass, GetMon, Serve, WaitOf, PassInv, Types
    <3>2. loop' = loop \/ Loop
      BY <1>1 DEF Next, vars, server, Connect, Register, HasMon, DeleteMon, AddMon, Handler, Map,
                  Send, Receive, Sync, UpdateAlgs, Die, WaitForSync, SemWait, ReadLock, ReadUnlock
    <3> QED BY <1>1, <3>1, <3>2
  <2>2. \A i \in 1 .. stop : i < index
    BY <2>1
  <2>3. ServedOK /\ loop = "end"
    BY <1>1 DEF PassInv, Steady
  <2> QED BY <2>2, <2>3 DEF ServedOK, Had
<1>2. PassInv /\ [Next]_vars => [Ended => SeenBy]_vars
  BY <1>1
<1> QED BY <1>2, PassInvariant, PTL DEF Spec, EveryBatchSeen
=============================================================================
