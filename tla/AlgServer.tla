------------------------------ MODULE AlgServer ------------------------------
(***************************************************************************)
(* The STINGER server and its algorithms: the process loop that takes one  *)
(* batch after another through initialisation, preprocessing, the update   *)
(* of the graph and postprocessing (process_loop_handler), the connection  *)
(* threads that register algorithms meanwhile (handle_alg), the registry   *)
(* they share (stinger_server_state.cpp) and the client side of the        *)
(* protocol (stinger_alg.cpp).                                             *)
(*                                                                         *)
(* Levels and indexes count from 1.  The timeouts of the loop are left     *)
(* out: their counters are never advanced in the code.  An access to freed *)
(* or missing memory (Undefined) is never made: the model stops before it. *)
(***************************************************************************)
EXTENDS Naturals, Sequences, FiniteSets, SequencesExt

CONSTANTS Algs,
          NoAlg,
          NumBatches, \* bound: batches the streams send
          Scenarios   \* see ScenarioType

\* What the environment does in a run: the name each process registers (that
\* of some process), the names it declares as its dependencies, how often it
\* may be started, which processes may die, and whether registrations come only
\* between batches.
ScenarioType == [name : [Algs -> Algs], deps : [Algs -> SUBSET Algs],
                 starts : [Algs -> Nat], mortal : SUBSET Algs, between : BOOLEAN]

ASSUME AlgServerAssumption ==
  /\ NumBatches \in Nat /\ IsFiniteSet(Algs) /\ NoAlg \notin Algs
  /\ Scenarios \subseteq ScenarioType

VARIABLES
  scenario,
  alg_tree,  \* alg_tree[l]: the algorithms at level l
  alg_map,   \* alg_map[n]: the algorithm registered under the name n
  state,     \* state[a]: the state in a's StingerAlgState, or "none"
  level,     \* level[a]: the level a was given
  open,      \* open[a]: the process behind the registered socket lives
  conn,      \* conn[a]: where the connection thread serving a stands
  call,      \* call[a]: the stinger_alg call a's process makes next or is in
  waiting,   \* waiting[a]: a's process is in recv_message
  starts,    \* starts[a]: how often a's process may still be started
  to_server, to_alg, \* the message in the socket of a, each way
  got,       \* got[a]: the batches of a's last pre- and postprocessing
  joined,    \* joined[a]: the batch in progress, or the last, when a was added
  cut,       \* history: the algorithms that add_alg cut off the tree
  contested, \* history: the names two threads were registering at once
  srv,       \* the process loop
  batch,     \* number of the batch in progress
  graph      \* number of batches applied to the graph

tree_vars == <<alg_tree, alg_map, level, joined, cut, contested>>
client_vars == <<call, waiting, starts, got>>
vars == <<scenario, tree_vars, state, open, conn, client_vars, to_server,
          to_alg, srv, batch, graph>>

-----------------------------------------------------------------------------
(* The protocol.                                                           *)

Actions == {"begin_init", "end_init", "begin_pre", "end_pre", "begin_post", "end_post"}
BeginActions == {"begin_pre", "begin_post"}

\* The order in which an algorithm makes its calls.
NextCall ==
  [c \in Actions \cup {"register"} |->
     CASE c = "register" -> "begin_init"
       [] c = "begin_init" -> "end_init"
       [] c = "end_init" -> "begin_pre"
       [] c = "begin_pre" -> "end_pre"
       [] c = "end_pre" -> "begin_post"
       [] c = "begin_post" -> "end_post"
       [] c = "end_post" -> "begin_pre"]

\* What the loop does with an algorithm: in a pass, from a state, it waits
\* for an action and goes on to a state.
Exchange(pass, from, action, to, refuses) ==
  [pass |-> pass, from |-> from, action |-> action, to |-> to, refuses |-> refuses]

\* Variant of Exchanges: the end of preprocessing makes ready for another.
ExchangesNoPost ==
  {Exchange("init", "READY_INIT", "begin_init", "PERFORMING_INIT", TRUE),
   Exchange("init", "PERFORMING_INIT", "end_init", "READY_PRE", TRUE),
   Exchange("begin_pre", "READY_PRE", "begin_pre", "PERFORMING_PRE", TRUE),
   Exchange("end_pre", "PERFORMING_PRE", "end_pre", "READY_PRE", FALSE),
   Exchange("begin_post", "READY_POST", "begin_post", "PERFORMING_POST", TRUE),
   Exchange("end_post", "PERFORMING_POST", "end_post", "READY_PRE", TRUE)}

Exchanges ==
  {Exchange("init", "READY_INIT", "begin_init", "PERFORMING_INIT", TRUE),
   Exchange("init", "PERFORMING_INIT", "end_init", "READY_PRE", TRUE),
   Exchange("begin_pre", "READY_PRE", "begin_pre", "PERFORMING_PRE", TRUE),
   Exchange("end_pre", "PERFORMING_PRE", "end_pre", "READY_POST", FALSE),
   Exchange("begin_post", "READY_POST", "begin_post", "PERFORMING_POST", TRUE),
   Exchange("end_post", "PERFORMING_POST", "end_post", "READY_PRE", TRUE)}

\* The states before DONE in the order of alg_state.
Working == {e.from : e \in Exchanges}

NoMessage == "none"
Reply(r, b) == [result |-> r, batch |-> b]
NoReply == Reply("none", 0)

Answer(a, reply) == to_alg' = IF open[a] THEN [to_alg EXCEPT ![a] = reply] ELSE to_alg

-----------------------------------------------------------------------------
(* The registry.                                                           *)

Registered == {a \in Algs : state[a] # "none"}

Resize(tree, n) == [l \in 1 .. n |-> IF l <= Len(tree) THEN tree[l] ELSE <<>>]

\* alg_tree.resize(level + 1) and push_back: resize also cuts the tree off.
AddToTree(tree, l, a) == [Resize(tree, l) EXCEPT ![l] = Append(@, a)]

\* Variant of EraseFromTree: only the map forgets the algorithm.
EraseNothing(tree, n) == tree

\* The places of a level that delete_alg erases: having erased one it goes on
\* behind the next, so that of a run of equal names every second one stays.
Erased(row, n) ==
  LET found == {i \in DOMAIN row : scenario.name[row[i]] = n}
  IN {i \in found : \E j \in 1 .. i : j .. i \subseteq found /\ j - 1 \notin found /\ (i - j) % 2 = 0}

\* What is left of a sequence without some of its places.
Without(row, gone) ==
  [k \in 1 .. Len(row) - Cardinality(gone) |->
     row[CHOOSE i \in DOMAIN row \ gone : i = k + Cardinality(gone \cap (1 .. i))]]

EraseFromTree(tree, n) == [l \in DOMAIN tree |-> Without(tree[l], Erased(tree[l], n))]

-----------------------------------------------------------------------------

AtRest == srv.pc = "dequeue"

Init ==
  /\ scenario \in Scenarios
  /\ alg_tree = <<>>
  /\ alg_map = [n \in Algs |-> NoAlg]
  /\ cut = {} /\ contested = {}
  /\ state = [a \in Algs |-> "none"]
  /\ level = [a \in Algs |-> 0]
  /\ open = [a \in Algs |-> FALSE]
  /\ conn = [a \in Algs |-> "none"]
  /\ call = [a \in Algs |-> "none"]
  /\ waiting = [a \in Algs |-> FALSE]
  /\ starts = scenario.starts
  /\ to_server = [a \in Algs |-> NoMessage]
  /\ to_alg = [a \in Algs |-> NoReply]
  /\ got = [a \in Algs |-> [begin_pre |-> 0, begin_post |-> 0]]
  /\ joined = [a \in Algs |-> 0]
  /\ srv = [pc |-> "dequeue", pass |-> "init", level |-> 1, index |-> 1,
            stop_level |-> 0, stop_index |-> 0, cur |-> NoAlg]
  /\ batch = 0
  /\ graph = 0

-----------------------------------------------------------------------------
(* Connection threads: handle_alg.                                         *)

\* A process connects and sends REGISTER_ALG; the accepting thread starts a
\* connection thread for it.
Connect(a) ==
  /\ call[a] = "none" /\ conn[a] = "none" /\ starts[a] > 0
  /\ scenario.between => AtRest
  /\ starts' = [starts EXCEPT ![a] = @ - 1]
  /\ call' = [call EXCEPT ![a] = "register"]
  /\ waiting' = [waiting EXCEPT ![a] = TRUE]
  /\ conn' = [conn EXCEPT ![a] = "has_alg"]
  /\ got' = [got EXCEPT ![a] = [begin_pre |-> 0, begin_post |-> 0]]
  /\ UNCHANGED <<scenario, tree_vars, state, open, to_server, to_alg, srv, batch, graph>>

\* To a process that registers, over the socket it has just opened.
AnswerRegistration(a, reply) ==
  to_alg' = IF call[a] = "register" THEN [to_alg EXCEPT ![a] = reply] ELSE to_alg

Name(a) == scenario.name[a]

\* has_alg, delete_alg and add_alg hold the lock one after the other: a second
\* thread that passes the check of its name before the first is done contests it.
PassCheck(a, next) ==
  /\ conn' = [conn EXCEPT ![a] = next]
  /\ contested' =
       IF \E b \in Algs \ {a} : Name(b) = Name(a) /\ conn[b] \in {"delete", "deps", "add"}
         THEN contested \cup {Name(a)} ELSE contested

HasAlg(a) ==
  /\ conn[a] = "has_alg"
  /\ \/ alg_map[Name(a)] = NoAlg /\ PassCheck(a, "deps")
     \/ /\ alg_map[Name(a)] # NoAlg
        /\ conn' = [conn EXCEPT ![a] = "check"]
        /\ UNCHANGED contested
  /\ UNCHANGED <<scenario, alg_tree, alg_map, level, joined, cut, state, open, client_vars,
                 to_server, to_alg, srv, batch, graph>>

\* The name is refused while an algorithm of that name works.
CheckAlg(a) ==
  LET known == alg_map[Name(a)] IN
  /\ conn[a] = "check" /\ known # NoAlg
  /\ \/ /\ state[known] \in Working
        /\ conn' = [conn EXCEPT ![a] = "none"]
        /\ AnswerRegistration(a, Reply("failure", 0))
        /\ UNCHANGED contested
     \/ /\ state[known] \notin Working
        /\ PassCheck(a, "delete")
        /\ UNCHANGED to_alg
  /\ UNCHANGED <<scenario, alg_tree, alg_map, level, joined, cut, state, open, client_vars,
                 to_server, srv, batch, graph>>

\* Every entry of that name leaves the tree, and the state the map has is freed.
DeleteAlg(a) ==
  LET known == alg_map[Name(a)] IN
  /\ conn[a] = "delete"
  /\ conn' = [conn EXCEPT ![a] = "deps"]
  /\ IF known = NoAlg
       THEN UNCHANGED <<alg_tree, alg_map, cut, state, to_server>>
       ELSE /\ alg_tree' = EraseFromTree(alg_tree, Name(a))
            /\ alg_map' = [alg_map EXCEPT ![Name(a)] = NoAlg]
            /\ cut' = cut \ {known}
            /\ state' = [state EXCEPT ![known] = "none"]
            /\ to_server' = [to_server EXCEPT ![known] = NoMessage]
  /\ UNCHANGED <<scenario, level, joined, contested, open, client_vars, to_alg, srv, batch, graph>>

\* has_alg and get_alg of each dependency, in one step: a dependency that another
\* thread replaces between the two is left out.
DepsRegistered(a) == \A n \in scenario.deps[a] : alg_map[n] # NoAlg

\* Variant of ResolveDeps: the level of the highest dependency.
ResolveDepsSameLevel(a) ==
  /\ conn[a] = "deps" /\ DepsRegistered(a)
  /\ \E l \in 1 .. Cardinality(Algs) :
       /\ \A n \in scenario.deps[a] : level[alg_map[n]] <= l
       /\ l = 1 \/ \E n \in scenario.deps[a] : level[alg_map[n]] = l
       /\ level' = [level EXCEPT ![a] = l]
  /\ conn' = [conn EXCEPT ![a] = "add"]
  /\ UNCHANGED <<scenario, alg_tree, alg_map, joined, cut, contested, state, open, client_vars,
                 to_server, to_alg, srv, batch, graph>>

\* One level above the highest dependency.  When a dependency is missing the
\* thread ends without an answer: the failure it prepares is never sent.
ResolveDeps(a) ==
  /\ conn[a] = "deps"
  /\ \/ /\ DepsRegistered(a)
        /\ \E l \in 1 .. Cardinality(Algs) :
             /\ \A n \in scenario.deps[a] : level[alg_map[n]] < l
             /\ l = 1 \/ \E n \in scenario.deps[a] : level[alg_map[n]] = l - 1
             /\ level' = [level EXCEPT ![a] = l]
        /\ conn' = [conn EXCEPT ![a] = "add"]
     \/ /\ ~ DepsRegistered(a)
        /\ conn' = [conn EXCEPT ![a] = "none"]
        /\ UNCHANGED level
  /\ UNCHANGED <<scenario, alg_tree, alg_map, joined, cut, contested, state, open, client_vars,
                 to_server, to_alg, srv, batch, graph>>

AddAlg(a) ==
  /\ conn[a] = "add"
  /\ alg_tree' = AddToTree(alg_tree, level[a], a)
  /\ alg_map' = [alg_map EXCEPT ![Name(a)] = a]
  /\ cut' = (cut \cup {b \in Registered : level[b] > level[a]}) \ {a}
  /\ state' = [state EXCEPT ![a] = "READY_INIT"]
  /\ joined' = [joined EXCEPT ![a] = batch]
  /\ open' = [open EXCEPT ![a] = call[a] = "register"]
  /\ conn' = [conn EXCEPT ![a] = "none"]
  /\ to_server' = [to_server EXCEPT ![a] = NoMessage]
  /\ AnswerRegistration(a, Reply("success", 0))
  /\ UNCHANGED <<scenario, level, contested, client_vars, srv, batch, graph>>

-----------------------------------------------------------------------------
(* Algorithm processes: stinger_alg.cpp.                                   *)

\* The process has finished what it computes before this call.
Send(a) ==
  /\ call[a] \in Actions /\ ~ waiting[a]
  /\ to_server' = [to_server EXCEPT ![a] = call[a]]
  /\ waiting' = [waiting EXCEPT ![a] = TRUE]
  /\ UNCHANGED <<scenario, tree_vars, state, open, conn, call, starts, got, to_alg, srv, batch, graph>>

Receive(a) ==
  /\ waiting[a] /\ to_alg[a] # NoReply
  /\ waiting' = [waiting EXCEPT ![a] = FALSE]
  /\ to_alg' = [to_alg EXCEPT ![a] = NoReply]
  /\ call' = [call EXCEPT ![a] = IF to_alg[a].result = "success" THEN NextCall[@] ELSE "none"]
  /\ got' = IF call[a] \in BeginActions
              THEN [got EXCEPT ![a][call[a]] = to_alg[a].batch] ELSE got
  /\ UNCHANGED <<scenario, tree_vars, state, open, conn, starts, to_server, srv, batch, graph>>

\* The process dies; what it has sent can still be read from its socket.
Crash(a) ==
  /\ a \in scenario.mortal /\ call[a] # "none"
  /\ call' = [call EXCEPT ![a] = "none"]
  /\ waiting' = [waiting EXCEPT ![a] = FALSE]
  /\ to_alg' = [to_alg EXCEPT ![a] = NoReply]
  /\ open' = [open EXCEPT ![a] = FALSE]
  /\ UNCHANGED <<scenario, tree_vars, state, conn, starts, got, to_server, srv, batch, graph>>

-----------------------------------------------------------------------------
(* The process loop.                                                       *)

others == <<scenario, tree_vars, open, conn, client_vars>>
unhandled == <<state, to_server, to_alg>>

StartPasses(pass) ==
  srv' = [srv EXCEPT !.pc = "level", !.pass = pass, !.level = 1,
                     !.stop_level = Len(alg_tree)]

\* Takes the next batch and, with it, the number of levels.  When
\* registrations come between batches, the streams wait for them to end.
DequeueBatch ==
  /\ AtRest /\ batch < NumBatches
  /\ scenario.between => \A a \in Algs : conn[a] = "none"
  /\ batch' = batch + 1
  /\ StartPasses("init")
  /\ UNCHANGED <<others, unhandled, graph>>

\* Variant of ReadNumAlgs: one too few.
ReadOneTooFew ==
  /\ srv.pc = "level" /\ srv.level <= srv.stop_level
  /\ srv' = [srv EXCEPT !.pc = "alg", !.index = 1, !.stop_index = Len(alg_tree[srv.level]) - 1]
  /\ UNCHANGED <<others, unhandled, batch, graph>>

\* get_num_algs(level), once for both loops over a level.  Here and in GetAlg
\* an index off the end would be undefined; LoopWithinTree says where it is not.
ReadNumAlgs ==
  /\ srv.pc = "level" /\ srv.level <= srv.stop_level
  /\ srv.level <= Len(alg_tree)
  /\ srv' = [srv EXCEPT !.pc = "alg", !.index = 1, !.stop_index = Len(alg_tree[srv.level])]
  /\ UNCHANGED <<others, unhandled, batch, graph>>

\* get_alg(level, index): the loop keeps the pointer while it handles a.
GetAlg ==
  /\ srv.pc = "alg" /\ srv.index <= srv.stop_index
  /\ srv.level <= Len(alg_tree) /\ srv.index <= Len(alg_tree[srv.level])
  /\ state[alg_tree[srv.level][srv.index]] # "none"
  /\ srv' = [srv EXCEPT !.pc = "handle", !.cur = alg_tree[srv.level][srv.index]]
  /\ UNCHANGED <<others, unhandled, batch, graph>>

NextIndex == [srv EXCEPT !.pc = "alg", !.index = @ + 1, !.cur = NoAlg]

Due == {e \in Exchanges : e.pass = srv.pass /\ e.from = state[srv.cur]}

\* The algorithm has nothing to do in this pass.
Skip ==
  /\ srv.pc = "handle" /\ Due = {} /\ state[srv.cur] # "none"
  /\ srv' = NextIndex
  /\ UNCHANGED <<others, unhandled, batch, graph>>

\* Variant of Handle: a failed read is tried again.
HandleRetry(e) ==
  LET a == srv.cur
  IN /\ srv.pc = "handle" /\ e \in Due
     /\ to_server[a] # NoMessage \/ ~ open[a]
     /\ IF to_server[a] = NoMessage
          THEN UNCHANGED <<state, to_server, to_alg, srv>>
          ELSE /\ state' = [state EXCEPT ![a] = e.to]
               /\ to_server' = [to_server EXCEPT ![a] = NoMessage]
               /\ Answer(a, Reply("success", IF e.action \in BeginActions THEN batch ELSE 0))
               /\ srv' = IF e.to = "PERFORMING_INIT" THEN srv ELSE NextIndex
     /\ UNCHANGED <<others, batch, graph>>

\* Waits until the socket can be read.  The end of a dead process's stream
\* and any message but the expected one put the algorithm in error.  After
\* BEGIN_INIT the loop stays with the algorithm until END_INIT.
Handle(e) ==
  LET a == srv.cur
      msg == to_server[a]
      ok == msg = e.action
  IN /\ srv.pc = "handle" /\ e \in Due
     /\ msg # NoMessage \/ ~ open[a]
     /\ state' = [state EXCEPT ![a] = IF ok THEN e.to ELSE "ERROR"]
     /\ to_server' = [to_server EXCEPT ![a] = NoMessage]
     /\ IF ok \/ e.refuses
          THEN Answer(a, Reply(IF ok THEN "success" ELSE "failure",
                               IF e.action \in BeginActions THEN batch ELSE 0))
          ELSE UNCHANGED to_alg
     /\ srv' = IF ok /\ e.to = "PERFORMING_INIT" THEN srv ELSE NextIndex
     /\ UNCHANGED <<others, batch, graph>>

NextLevel(pass) == [srv EXCEPT !.pc = "level", !.pass = pass, !.level = @ + 1]

\* Variant of EndLevel: the ends of a phase are awaited in no loop.
EndLevelNoWait ==
  /\ srv.pc = "alg" /\ srv.index > srv.stop_index
  /\ srv' = NextLevel(srv.pass)
  /\ UNCHANGED <<others, unhandled, batch, graph>>

\* After the loop that begins a phase comes the one that ends it, over as
\* many algorithms, then the next level.
EndLevel ==
  /\ srv.pc = "alg" /\ srv.index > srv.stop_index
  /\ srv' = CASE srv.pass = "begin_pre"  -> [srv EXCEPT !.pass = "end_pre", !.index = 1]
              [] srv.pass = "begin_post" -> [srv EXCEPT !.pass = "end_post", !.index = 1]
              [] srv.pass = "end_pre"    -> NextLevel("begin_pre")
              [] srv.pass = "end_post"   -> NextLevel("begin_post")
              [] srv.pass = "init"       -> NextLevel("init")
  /\ UNCHANGED <<others, unhandled, batch, graph>>

LastLevelDone(pass) == srv.pc = "level" /\ srv.level > srv.stop_level /\ srv.pass = pass

EndInit ==
  /\ LastLevelDone("init")
  /\ StartPasses("begin_pre")
  /\ UNCHANGED <<others, unhandled, batch, graph>>

\* process_batch, then the number of levels is read again.
UpdateGraph ==
  /\ LastLevelDone("begin_pre")
  /\ graph' = graph + 1
  /\ StartPasses("begin_post")
  /\ UNCHANGED <<others, unhandled, batch>>

EndBatch ==
  /\ LastLevelDone("begin_post")
  /\ srv' = [srv EXCEPT !.pc = "dequeue", !.pass = "init", !.level = 1, !.index = 1,
                        !.stop_level = 0, !.stop_index = 0]
  /\ UNCHANGED <<others, unhandled, batch, graph>>

\* What comes next uses the null pointer that get_alg returns when the algorithm
\* was deleted after has_alg, or a StingerAlgState that delete_alg has freed.
Undefined ==
  \/ \E a \in Algs : conn[a] = "check" /\ alg_map[Name(a)] = NoAlg
  \/ /\ srv.pc = "alg" /\ srv.index <= srv.stop_index
     /\ srv.level <= Len(alg_tree) /\ srv.index <= Len(alg_tree[srv.level])
     /\ state[alg_tree[srv.level][srv.index]] = "none"
  \/ srv.pc = "handle" /\ state[srv.cur] = "none"

\* The streams send no more batches, or the behaviour is undefined.
NoMoreBatches == ((AtRest /\ batch = NumBatches) \/ Undefined) /\ UNCHANGED vars

-----------------------------------------------------------------------------

Connection(a) == HasAlg(a) \/ CheckAlg(a) \/ DeleteAlg(a) \/ ResolveDeps(a) \/ AddAlg(a)

ProcessLoop ==
  \/ DequeueBatch \/ ReadNumAlgs \/ GetAlg \/ Skip \/ EndLevel
  \/ EndInit \/ UpdateGraph \/ EndBatch
  \/ \E e \in Exchanges : Handle(e)

Next ==
  \/ \E a \in Algs : Connect(a) \/ Connection(a) \/ Send(a) \/ Receive(a) \/ Crash(a)
  \/ ProcessLoop
  \/ NoMoreBatches

\* The threads of the server run, and an algorithm that lives ends its
\* computations and reads its answers; nobody has to connect or to die.
Fairness ==
  /\ WF_vars(ProcessLoop)
  /\ \A a \in Algs : WF_vars(Connection(a)) /\ WF_vars(Send(a)) /\ WF_vars(Receive(a))

Spec == Init /\ [][Next]_vars /\ Fairness

-----------------------------------------------------------------------------
(* Properties.                                                             *)

ConnStates == {"none", "has_alg", "check", "delete", "deps", "add"}

\* What an algorithm may suffer that the code does not guard against: it was
\* cut off the tree, or two threads were registering its name at once.
Lost(a) == a \in cut \/ Name(a) \in contested

Passes == {e.pass : e \in Exchanges}

SrvType ==
  [pc : {"dequeue", "level", "alg", "handle"}, pass : Passes, level : Nat,
   index : Nat, stop_level : Nat, stop_index : Nat, cur : Algs \cup {NoAlg}]

\* Every variable has its type, and a process that makes a protocol call is
\* the one behind its registration, unless its name is contested.
TypeOK ==
  /\ scenario \in Scenarios
  /\ alg_tree \in Seq(Seq(Algs))
  /\ alg_map \in [Algs -> Algs \cup {NoAlg}]
  /\ cut \subseteq Registered /\ contested \subseteq Algs
  /\ state \in [Algs -> Working \cup {"none", "ERROR"}]
  /\ level \in [Algs -> 0 .. Cardinality(Algs)]
  /\ open \in [Algs -> BOOLEAN] /\ waiting \in [Algs -> BOOLEAN]
  /\ conn \in [Algs -> ConnStates]
  /\ call \in [Algs -> Actions \cup {"none", "register"}]
  /\ starts \in [Algs -> Nat]
  /\ to_server \in [Algs -> Actions \cup {NoMessage}]
  /\ to_alg \in [Algs -> [result : {"none", "success", "failure"}, batch : 0 .. NumBatches]]
  /\ joined \in [Algs -> 0 .. batch]
  /\ got \in [Algs -> [BeginActions -> 0 .. NumBatches]]
  /\ srv \in SrvType
  /\ batch \in 0 .. NumBatches /\ graph \in 0 .. batch
  /\ \A a \in Algs : call[a] \in Actions /\ Name(a) \notin contested =>
                      open[a] /\ state[a] # "none"

Occurrences(a) ==
  {p \in UNION {{l} \X DOMAIN alg_tree[l] : l \in DOMAIN alg_tree} : alg_tree[p[1]][p[2]] = a}

\* The tree holds every registered algorithm once, at its level, and nothing
\* else: otherwise the process loop never serves it, or serves it twice or after
\* it was freed.  Missing are those that a registration at a lower level cut
\* off (add_alg's resize), and nobody else; of a name two threads registered at
\* once nothing is promised, but other names do not suffer from it.
TreeIsRegistry ==
  \A a \in Algs : Name(a) \notin contested =>
    IF a \in Registered \ cut
      THEN /\ Cardinality(Occurrences(a)) = 1
           /\ \A p \in Occurrences(a) : p[1] = level[a]
      ELSE Occurrences(a) = {}

\* The counts the loop has read stay within the tree it indexes (get_num_algs,
\* get_alg): registrations that come while it runs and only add to the tree make
\* no access run off the end.  One that cuts the tree off or deletes an entry would;
\* in scenarios that have such, registrations come between batches.
LoopWithinTree ==
  /\ srv.pc = "level" /\ srv.level <= srv.stop_level => srv.level <= Len(alg_tree)
  /\ srv.pc = "alg" /\ srv.index <= srv.stop_index =>
       srv.level <= Len(alg_tree) /\ srv.index <= Len(alg_tree[srv.level])

\* The registry, and the counts the loop has of it, with cuts and contested
\* names told apart.
RegistryOK == TypeOK /\ TreeIsRegistry /\ LoopWithinTree

\* "Between the time that this returns and the time that *end_init is called,
\* the STINGER structure is guaranteed to be static", likewise for the other
\* phases: an algorithm that computes sees the graph before its batch in
\* preprocessing and with its batch in postprocessing, however the deaths of
\* others and late registrations interleave with the loop.
ComputesOnStaticGraph ==
  \A a \in Algs : ~ waiting[a] =>
    /\ call[a] = "end_init" => graph = batch - 1
    /\ call[a] = "end_pre"  => got[a].begin_pre = batch /\ graph = batch - 1
    /\ call[a] = "end_post" => /\ got[a].begin_post = got[a].begin_pre
                               /\ got[a].begin_post = batch /\ graph = batch

\* "specified algorithms are guaranteed to complete the preprocessing phase
\* before this algorithm begins preprocessing (and similar for
\* postprocessing)": unless the dependency is in error.
DependenciesFirst ==
  \A a \in Algs : \A n \in scenario.deps[a] :
    /\ state[a] = "PERFORMING_PRE" =>
         alg_map[n] # NoAlg /\ state[alg_map[n]] \in {"READY_POST", "ERROR"}
    /\ state[a] = "PERFORMING_POST" =>
         alg_map[n] # NoAlg /\ state[alg_map[n]] \in {"READY_PRE", "ERROR"}

\* The server and the processes agree on the next call: it puts no algorithm
\* in error whose process lives.
OnlyTheDeadFail == \A a \in Algs : state[a] = "ERROR" => ~ open[a]

\* "Client algorithms will receive these batches of updates in a synchronous
\* manner": when the server waits for a batch, every algorithm has processed
\* the last one, before and after the update, unless it has died or joined
\* while that batch was in progress.  Those that are lost to the tree are not
\* among them.
EveryBatchSeen ==
  AtRest => \A a \in {b \in Registered : ~ Lost(b)} :
    CASE state[a] = "READY_INIT" -> joined[a] = batch
      [] state[a] = "READY_PRE"  -> open[a] => got[a] = [begin_pre |-> batch, begin_post |-> batch]
      [] state[a] = "ERROR"      -> TRUE
      [] OTHER -> FALSE

\* Every batch comes to its end: neither the death of an algorithm in any
\* phase nor a registration stops the process loop.
BatchFinishes == srv.pc # "dequeue" ~> srv.pc = "dequeue" \/ Undefined
=============================================================================
