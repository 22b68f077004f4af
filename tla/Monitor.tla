------------------------------ MODULE Monitor ------------------------------
(***************************************************************************)
(* Monitors of the streaming server, on both sides of their sockets.       *)
(*                                                                         *)
(* Server: a thread per connection registers a monitor (handle_mon of      *)
(* alg_handling.cpp); at the end of a batch the process loop sends it to   *)
(* every monitor and waits until each has mapped the graph.  Client: the   *)
(* handler thread of mon_handling.cpp follows that protocol and publishes  *)
(* each mapping in StingerMon, from which the readers of the process take  *)
(* it under a read lock, usually after wait_for_sync.                      *)
(*                                                                         *)
(* A monitor process may die at any time and another of its name register. *)
(* A request and its reply are never both under way, so that each direction*)
(* of a socket holds one message at most; a process that died is at end of *)
(* file once its last request is read.  The time-outs of the server are    *)
(* never advanced by the code.                                             *)
(***************************************************************************)
EXTENDS Integers, Sequences, FiniteSets, SequencesExt

CONSTANTS Conns,     \* connections of monitor processes, one for each process
          MonNames, Namings, \* the names they may have, and which has which
          Readers, Home,     \* Home[r]: the process reader r is a thread of
          Started,   \* which of the processes are started in a behaviour
          Mortal,    \* the processes that may die
          Batches,   \* bound: batches are counted modulo this number
          None

ASSUME MonitorAssumption ==
  /\ Namings \subseteq [Conns -> MonNames]
  /\ Home \in [Readers -> Conns]
  /\ Batches \in Nat /\ Batches > 1 /\ Mortal \subseteq Conns
  /\ Started \subseteq SUBSET Conns
  /\ None \notin Conns \cup (0 .. Batches - 1) /\ IsFiniteSet(Readers)

VARIABLES
  name,      \* name[c]: mon_name of the process on connection c
  alive,     \* the processes that have not died
  pc,        \* each handler thread, or the connection thread that answers it
  request, reply, \* the message under way in each direction of a socket
  version,   \* the number of the batch the graph contains
  loop, index, stop, cur, \* the process loop and its local variables
  monitors, monitor_map, mon_state, \* of StingerServerState
  freed,     \* the monitor states that were deleted
  shifted,   \* a monitor was removed while the loop went through them
  stinger,   \* stinger[c]: the batch StingerMon's mapping was made in, or None
  mapped,    \* mapped[c]: the batch of the mapping yet to be published
  waiting, sync_lock, \* of StingerMon: the waiting readers, the semaphore
  rpc, copy  \* each reader and the mapping it uses

server == <<version, loop, index, stop, cur>>
registry == <<monitors, monitor_map, mon_state, freed, shifted>>
client == <<stinger, mapped, waiting, sync_lock>>
reader == <<rpc, copy>>
vars == <<name, alive, pc, request, reply, server, registry, client, reader>>

Init ==
  /\ name \in Namings
  /\ alive \in Started
  /\ pc = [c \in Conns |-> "connect"]
  /\ request = [c \in Conns |-> "none"]
  /\ reply = [c \in Conns |-> None]
  /\ version = 0
  /\ loop = "dequeue" /\ index = 1 /\ stop = 0 /\ cur = None
  /\ monitors = <<>>
  /\ monitor_map = [n \in MonNames |-> None]
  /\ mon_state = [c \in Conns |-> "READY"]
  /\ freed = {} /\ shifted = FALSE
  /\ stinger = [c \in Conns |-> None] /\ mapped = [c \in Conns |-> None]
  /\ waiting = [c \in Conns |-> 0] /\ sync_lock = [c \in Conns |-> 0]
  /\ rpc = [r \in Readers |-> "idle"] /\ copy = [r \in Readers |-> None]

Goto(c, from, to) == pc[c] = from /\ pc' = [pc EXCEPT ![c] = to]

-----------------------------------------------------------------------------
(* Registration: a step of the process, then those of its connection       *)
(* thread in the server, which a death of the process does not stop.       *)

Connect(c) ==
  /\ c \in alive /\ Goto(c, "connect", "has")
  /\ UNCHANGED <<name, alive, request, reply, server, registry, client, reader>>

\* has_mon, of handle_mon and again of delete_mon.
HasMon(c, from, to) ==
  /\ Goto(c, from, IF monitor_map[name[c]] # None THEN to ELSE "add")
  /\ UNCHANGED <<name, alive, request, reply, server, registry, client, reader>>

InPasses == loop \in {"begin", "begin_wait", "end", "end_wait"}

\* The first monitor of the name is erased, the last to register is deleted.
DeleteMon(c) ==
  /\ Goto(c, "erase", "add")
  /\ LET same == {i \in DOMAIN monitors : name[monitors[i]] = name[c]} IN
     IF same = {}
     THEN UNCHANGED <<monitors, shifted>>
     ELSE /\ \E i \in same : /\ \A j \in same : i <= j
                            /\ monitors' = RemoveAt(monitors, i)
          /\ shifted' = (shifted \/ InPasses)
  /\ freed' = freed \cup ({monitor_map[name[c]]} \ {None})
  /\ monitor_map' = [monitor_map EXCEPT ![name[c]] = None]
  /\ UNCHANGED <<name, alive, request, reply, server, mon_state, client, reader>>

\* add_mon, the reply and the first mapping, which no pass of the loop protects.
AddMon(c) ==
  /\ Goto(c, "add", "first")
  /\ monitors' = Append(monitors, c)
  /\ monitor_map' = [monitor_map EXCEPT ![name[c]] = c]
  /\ UNCHANGED <<name, alive, request, reply, server, mon_state, freed, shifted, client, reader>>

-----------------------------------------------------------------------------
(* The process loop.                                                       *)

\* The batch is taken from the queue and applied, the algorithms have their
\* passes; then the monitors are counted.
ApplyBatch ==
  /\ loop = "dequeue"
  /\ version' = (version + 1) % Batches
  /\ loop' = "begin" /\ index' = 1 /\ stop' = Len(monitors)
  /\ UNCHANGED <<cur, name, alive, pc, request, reply, registry, client, reader>>

\* Where the loop waits for the monitor that a pass has come to.
WaitOf(pass) == IF pass = "begin" THEN "begin_wait" ELSE "end_wait"

\* get_mon past the end of the vector is undefined, and so is any use of a state
\* that was deleted: nothing is said of what follows.
Undefined ==
  \/ loop \in {"begin", "end"} /\ index <= stop
       /\ ~(index \in DOMAIN monitors /\ monitors[index] \notin freed)
  \/ loop \in {"begin_wait", "end_wait"} /\ cur \in freed

Crash ==
  /\ Undefined
  /\ loop' = "crashed"
  /\ UNCHANGED <<version, index, stop, cur, name, alive, pc, request, reply, registry, client, reader>>

\* get_mon(cur_mon_index), in the pass of the state it serves.
GetMon(pass, state) ==
  /\ loop = pass /\ index <= stop /\ ~Undefined
  /\ IF mon_state[monitors[index]] = state
     THEN loop' = WaitOf(pass) /\ cur' = monitors[index] /\ index' = index
     ELSE loop' = pass /\ cur' = None /\ index' = index + 1
  /\ UNCHANGED <<version, stop, name, alive, pc, request, reply, registry, client, reader>>

CanBeRead(c) == request[c] # "none" \/ c \notin alive

\* Mutant: a monitor that has nothing to say yet is passed over.
ServePolls(pass, message, state) ==
  /\ loop = WaitOf(pass) /\ ~Undefined
  /\ mon_state' = [mon_state EXCEPT ![cur] = IF request[cur] = message THEN state ELSE @]
  /\ reply' = [reply EXCEPT ![cur] = IF request[cur] = message THEN version ELSE @]
  /\ request' = [request EXCEPT ![cur] = "none"]
  /\ loop' = pass /\ index' = index + 1 /\ cur' = None
  /\ UNCHANGED <<version, stop, name, alive, pc, monitors, monitor_map, freed,
                 shifted, client, reader>>

\* Mutant: the end of file of a process that died is not noticed.
ServeOnlyMessages(pass, message, state) ==
  /\ loop = WaitOf(pass) /\ ~Undefined /\ request[cur] # "none"
  /\ mon_state' = [mon_state EXCEPT ![cur] = IF request[cur] = message THEN state ELSE "ERROR"]
  /\ reply' = [reply EXCEPT ![cur] = IF request[cur] = message THEN version ELSE @]
  /\ request' = [request EXCEPT ![cur] = "none"]
  /\ loop' = pass /\ index' = index + 1 /\ cur' = None
  /\ UNCHANGED <<version, stop, name, alive, pc, monitors, monitor_map, freed,
                 shifted, client, reader>>

\* The wait for a message of the monitor and the answer.  A message other than
\* the one expected, or the end of file, is an error.
Serve(pass, message, state) ==
  /\ loop = WaitOf(pass) /\ ~Undefined /\ CanBeRead(cur)
  /\ mon_state' = [mon_state EXCEPT ![cur] = IF request[cur] = message THEN state ELSE "ERROR"]
  /\ reply' = [reply EXCEPT ![cur] = IF request[cur] = message THEN version ELSE @]
  /\ request' = [request EXCEPT ![cur] = "none"]
  /\ loop' = pass /\ index' = index + 1 /\ cur' = None
  /\ UNCHANGED <<version, stop, name, alive, pc, monitors, monitor_map, freed,
                 shifted, client, reader>>

NextPass ==
  /\ index > stop /\ loop \in {"begin", "end"}
  /\ loop' = IF loop = "begin" THEN "end" ELSE "dequeue"
  /\ index' = 1 /\ stop' = IF loop = "begin" THEN stop ELSE 0
  /\ UNCHANGED <<version, cur, name, alive, pc, request, reply, registry, client, reader>>

Loop ==
  \/ ApplyBatch \/ Crash \/ NextPass
  \/ GetMon("begin", "READY") \/ Serve("begin", "BEGIN_UPDATE", "PERFORMING")
  \/ GetMon("end", "PERFORMING") \/ Serve("end", "END_UPDATE", "READY")

-----------------------------------------------------------------------------
(* The handler thread of a monitor process.                                *)

\* map_update: the graph is mapped as it is now.
Map(c, from, to) ==
  /\ c \in alive /\ Goto(c, from, to)
  /\ mapped' = [mapped EXCEPT ![c] = version]
  /\ UNCHANGED <<name, alive, request, reply, server, registry, stinger, waiting, sync_lock, reader>>

Send(c, from, message, to) ==
  /\ c \in alive /\ Goto(c, from, to)
  /\ request' = [request EXCEPT ![c] = message]
  /\ UNCHANGED <<name, alive, reply, server, registry, client, reader>>

Receive(c, from, to) ==
  /\ c \in alive /\ Goto(c, from, to) /\ reply[c] # None
  /\ reply' = [reply EXCEPT ![c] = None]
  /\ UNCHANGED <<name, alive, request, server, registry, client, reader>>

\* Mutant: the number of the waiting readers is not reset.
SyncKeepsCount(c) ==
  /\ c \in alive /\ Goto(c, "sync", "send_end")
  /\ sync_lock' = [sync_lock EXCEPT ![c] = @ + waiting[c]]
  /\ UNCHANGED <<name, alive, request, reply, server, registry, stinger, mapped, waiting, reader>>

\* Mutant: one of the waiting readers is woken.
SyncWakesOne(c) ==
  /\ c \in alive /\ Goto(c, "sync", "send_end")
  /\ sync_lock' = [sync_lock EXCEPT ![c] = IF waiting[c] > 0 THEN @ + 1 ELSE @]
  /\ waiting' = [waiting EXCEPT ![c] = 0]
  /\ UNCHANGED <<name, alive, request, reply, server, registry, stinger, mapped, reader>>

\* sync, under wait_lock.
Sync(c) ==
  /\ c \in alive /\ Goto(c, "sync", "send_end")
  /\ sync_lock' = [sync_lock EXCEPT ![c] = @ + waiting[c]]
  /\ waiting' = [waiting EXCEPT ![c] = 0]
  /\ UNCHANGED <<name, alive, request, reply, server, registry, stinger, mapped, reader>>

ReadersOf(c) == {r \in Readers : Home[r] = c}

\* update_algs: the old mapping is unmapped under the write lock.
UpdateAlgs(c, from, to) ==
  /\ c \in alive /\ Goto(c, from, to)
  /\ \A r \in ReadersOf(c) : rpc[r] # "reading"
  /\ stinger' = [stinger EXCEPT ![c] = mapped[c]]
  /\ mapped' = [mapped EXCEPT ![c] = None]
  /\ UNCHANGED <<name, alive, request, reply, server, registry, waiting, sync_lock, reader>>

Handler(c) ==
  \/ Map(c, "first", "first_update") \/ UpdateAlgs(c, "first_update", "send_begin")
  \/ Send(c, "send_begin", "BEGIN_UPDATE", "await_begin") \/ Receive(c, "await_begin", "map")
  \/ Map(c, "map", "sync") \/ Sync(c) \/ Send(c, "send_end", "END_UPDATE", "update")
  \/ UpdateAlgs(c, "update", "await_end") \/ Receive(c, "await_end", "send_begin")

Die(c) ==
  /\ c \in alive /\ c \in Mortal /\ pc[c] # "connect"
  /\ alive' = alive \ {c}
  /\ reply' = [reply EXCEPT ![c] = None]
  /\ mapped' = [mapped EXCEPT ![c] = None] /\ stinger' = [stinger EXCEPT ![c] = None]
  /\ waiting' = [waiting EXCEPT ![c] = 0] /\ sync_lock' = [sync_lock EXCEPT ![c] = 0]
  /\ rpc' = [r \in Readers |-> IF r \in ReadersOf(c) THEN "idle" ELSE rpc[r]]
  /\ copy' = [r \in Readers |-> IF r \in ReadersOf(c) THEN None ELSE copy[r]]
  /\ UNCHANGED <<name, pc, request, server, registry>>

-----------------------------------------------------------------------------
(* A reader: wait_for_sync, then the mapping under the read lock.          *)

Read(r, from, to) == Home[r] \in alive /\ rpc[r] = from /\ rpc' = [rpc EXCEPT ![r] = to]

\* The count, under wait_lock.
WaitForSync(r) ==
  /\ Read(r, "idle", "sem_wait")
  /\ waiting' = [waiting EXCEPT ![Home[r]] = @ + 1]
  /\ UNCHANGED <<name, alive, pc, request, reply, server, registry, stinger, mapped, sync_lock, copy>>

\* The semaphore: the reader that gets a token need not be the one counted.
SemWait(r) ==
  /\ Read(r, "sem_wait", "lock") /\ sync_lock[Home[r]] > 0
  /\ sync_lock' = [sync_lock EXCEPT ![Home[r]] = @ - 1]
  /\ UNCHANGED <<name, alive, pc, request, reply, server, registry, stinger, mapped, waiting, copy>>

ReadLock(r) ==
  /\ Read(r, "lock", "reading")
  /\ copy' = [copy EXCEPT ![r] = stinger[Home[r]]]
  /\ UNCHANGED <<name, alive, pc, request, reply, server, registry, client>>

ReadUnlock(r) ==
  /\ Read(r, "reading", "idle")
  /\ copy' = [copy EXCEPT ![r] = None]
  /\ UNCHANGED <<name, alive, pc, request, reply, server, registry, client>>

-----------------------------------------------------------------------------
Register(c) ==
  HasMon(c, "has", "delete") \/ HasMon(c, "delete", "erase") \/ DeleteMon(c) \/ AddMon(c)

Next ==
  \/ Loop
  \/ \E c \in Conns : Connect(c) \/ Register(c) \/ Handler(c) \/ Die(c)
  \/ \E r \in Readers : WaitForSync(r) \/ SemWait(r) \/ ReadLock(r) \/ ReadUnlock(r)

Spec == Init /\ [][Next]_vars

\* Batches keep coming and every thread is scheduled.  The semaphore and the
\* write lock are handed to a thread that asks for them again and again.
Fairness ==
  /\ WF_vars(Loop)
  /\ \A c \in Conns : SF_vars(Register(c) \/ Handler(c))
  /\ \A r \in Readers : SF_vars(SemWait(r) \/ ReadLock(r) \/ ReadUnlock(r))

FairSpec == Spec /\ Fairness

-----------------------------------------------------------------------------
(* Properties.                                                             *)

Versions == 0 .. Batches - 1

TypeOK ==
  /\ name \in Namings /\ alive \subseteq Conns
  /\ pc \in [Conns -> {"connect", "has", "delete", "erase", "add", "first", "first_update",
                       "send_begin", "await_begin", "map", "sync", "send_end", "update", "await_end"}]
  /\ request \in [Conns -> {"none", "BEGIN_UPDATE", "END_UPDATE"}]
  /\ reply \in [Conns -> Versions \cup {None}]
  /\ version \in Versions
  /\ loop \in {"dequeue", "begin", "begin_wait", "end", "end_wait", "crashed"}
  /\ monitors \in Seq(Conns) /\ monitor_map \in [MonNames -> Conns \cup {None}]
  /\ mon_state \in [Conns -> {"READY", "PERFORMING", "ERROR"}]
  /\ freed \subseteq Conns /\ shifted \in BOOLEAN
  /\ \A f \in {stinger, mapped} : f \in [Conns -> Versions \cup {None}]
  /\ \A f \in {waiting, sync_lock} : f \in [Conns -> Nat]
  /\ rpc \in [Readers -> {"idle", "sem_wait", "lock", "reading"}]

\* No update is lost between wait_for_sync and sync: every reader in sem_wait is
\* counted or has a token waiting for it, and there are no others, whoever takes
\* whose token.
WaitersCounted ==
  \A c \in alive :
    Cardinality({r \in ReadersOf(c) : rpc[r] = "sem_wait"}) = waiting[c] + sync_lock[c]

\* A reader's mapping is not unmapped while it reads.
MappingStays == \A r \in Readers : rpc[r] = "reading" => copy[r] = stinger[Home[r]]

\* What handler thread and readers share in a process is sound in every state.
ReadersOK == TypeOK /\ WaitersCounted /\ MappingStays

\* From the reply to BEGIN_UPDATE until END_UPDATE is sent the server waits for
\* the monitor: the graph it maps, and its waiting readers are told of, is that
\* of the batch it was sent and does not change, whichever processes die; unless
\* a monitor that registers again shifts the others under the loop.
StaticWhileMapped ==
  ~shifted /\ loop # "crashed" =>
    \A c \in alive :
      /\ pc[c] \in {"map", "sync", "send_end"} => InPasses /\ mon_state[c] = "PERFORMING"
      /\ pc[c] \in {"sync", "send_end"} => mapped[c] = version

\* Every live monitor that was registered when its batch was counted has had it
\* by the end of the passes, under the same condition.
EveryBatchSeen ==
  [][loop = "end" /\ loop' = "dequeue" /\ ~shifted =>
       \A i \in 1 .. stop : monitors[i] \in alive =>
         /\ version \in {mapped[monitors[i]], stinger[monitors[i]]}
         /\ mon_state[monitors[i]] = "READY"]_vars

\* The passes end whichever monitors die, come or are slow.
PassesEnd == InPasses ~> loop \in {"dequeue", "crashed"}

\* As long as batches come, wait_for_sync returns in a live and registered
\* process although other readers may take the token meant for it.
WaitReturns ==
  \A r \in Readers :
    rpc[r] = "sem_wait" ~> \/ rpc[r] # "sem_wait"
                           \/ loop = "crashed" \/ monitor_map[name[Home[r]]] # Home[r]
=============================================================================
