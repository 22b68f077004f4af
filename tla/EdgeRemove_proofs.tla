-------------------------- MODULE EdgeRemove_proofs --------------------------
(***************************************************************************)
(* Theorems about EdgeRemove for any number of threads and removals, any   *)
(* finite set of vertices, and graphs whose edges have both ends or one.   *)
(***************************************************************************)
EXTENDS EdgeRemove, FiniteSetTheorems, TLAPS

Sides == {"forward", "back"}

Labels == {"idle", "reverse", "seek", "missing", "lock", "check", "fail",
           "fail_first", "remove_forward", "remove_back", "unlock_second",
           "unlock_first"}

BusyLabels == Labels \ {"idle", "reverse"}

FrameType == [op : Ops, from : Nat, to : Nat, side : Sides, rtn : Int]

ControlType ==
  /\ dirs \in [SlotNames -> SUBSET {"OUT", "IN"}]
  /\ pc \in [Threads -> Labels]
  /\ frame \in [Threads -> FrameType]
  /\ \A t \in Threads : pc[t] \in BusyLabels => frame[t].from \in Vertices /\ frame[t].to \in Vertices

-----------------------------------------------------------------------------
(* Which slots a thread with the label l and the local variables f holds.  *)

SideSlot(f, side) == IF side = "forward" THEN <<f.from, f.to>> ELSE <<f.to, f.from>>

First(f) == SideSlot(f, FirstSide(f.from, f.to))
Second(f) == SideSlot(f, Other(FirstSide(f.from, f.to)))

AtFirst(f) == f.side = FirstSide(f.from, f.to)

\* Both sides have been searched for, or the second is.
LateLabels == {"fail_first", "remove_forward", "remove_back", "unlock_second", "unlock_first"}

HoldsFirst(l, f) == \/ l \in LateLabels \cup {"check", "fail"}
                    \/ l \in {"seek", "lock"} /\ ~AtFirst(f)

HoldsSecond(l, f) == \/ l \in {"remove_forward", "remove_back", "unlock_second"}
                     \/ l \in {"check", "fail"} /\ ~AtFirst(f)

Held(l, f) == {s \in {First(f), Second(f)} : \/ s = First(f) /\ HoldsFirst(l, f)
                                             \/ s = Second(f) /\ HoldsSecond(l, f)}

\* A thread is at its second side when it should be, its two slots differ, and
\* what it has found under its locks is still there.
Found1(f, D) == Direction(Other(f.side)) \in D[First(f)]

ThreadOK(l, f, D) ==
  /\ l \in LateLabels => ~AtFirst(f)
  /\ HoldsSecond(l, f) => First(f) # Second(f)
  /\ (l \in {"seek", "lock", "check"} /\ ~AtFirst(f)) => Found1(f, D)
  /\ l = "remove_forward" => "OUT" \in D[SideSlot(f, "forward")]
  /\ l = "remove_back" => "OUT" \notin D[SideSlot(f, "forward")]
  /\ l \in {"remove_forward", "remove_back"} => "IN" \in D[SideSlot(f, "back")]

\* The locked slots are those the threads hold, each held by one of them.
LocksOK ==
  /\ \A t \in Threads : Held(pc[t], frame[t]) \subseteq locked
  /\ \A s \in locked : \E t \in Threads : s \in Held(pc[t], frame[t])
  /\ \A t, u \in Threads : t # u => Held(pc[t], frame[t]) \cap Held(pc[u], frame[u]) = {}
  /\ \A t \in Threads : ThreadOK(pc[t], frame[t], dirs)

\* An edge whose ends disagree has lost its OUT end to the thread that is about
\* to take its IN end.
HalfRemoved ==
  \A u, v \in Vertices :
    ~HalfEdge(u, v) /\ ("OUT" \in dirs[<<u, v>>]) # ("IN" \in dirs[<<v, u>>]) =>
      \E t \in Threads : pc[t] = "remove_back" /\ frame[t].from = u /\ frame[t].to = v

Inv == ControlType /\ LocksOK /\ HalfRemoved

-----------------------------------------------------------------------------
LEMMA IdleFrameType == IdleFrame \in FrameType
<1>1. (CHOOSE op \in Ops : TRUE) \in Ops
  BY RemovalAssumption
<1> QED BY <1>1 DEF IdleFrame, FrameType, Sides

LEMMA InitInv == ASSUME Init PROVE Inv
<1>1. PICK g \in Graphs : dirs = [s \in SlotNames |-> EndsIn(g, s[1], s[2])]
  BY DEF Init
<1>2. ControlType
  <2>1. dirs \in [SlotNames -> SUBSET {"OUT", "IN"}]
    BY <1>1 DEF EndsIn
  <2> QED BY <2>1, IdleFrameType DEF Init, ControlType, Labels, BusyLabels
<1>3. /\ \A t \in Threads : Held(pc[t], frame[t]) = {} /\ ThreadOK(pc[t], frame[t], dirs)
      /\ locked = {}
  BY DEF Init, Held, HoldsFirst, HoldsSecond, LateLabels, ThreadOK
<1>4. HalfRemoved
  <2> SUFFICES ASSUME NEW u \in Vertices, NEW v \in Vertices, ~HalfEdge(u, v)
               PROVE  ("OUT" \in dirs[<<u, v>>]) = ("IN" \in dirs[<<v, u>>])
    BY DEF HalfRemoved
  <2>1. /\ dirs[<<u, v>>] = EndsIn(g, u, v)
        /\ dirs[<<v, u>>] = EndsIn(g, v, u)
    BY <1>1 DEF SlotNames
  <2>2. <<u, v>> \in g.out <=> <<u, v>> \in g.in
    BY DEF HalfEdge
  <2> QED BY <2>1, <2>2 DEF EndsIn
<1> QED BY <1>2, <1>3, <1>4 DEF Inv, LocksOK

(* The sides of a thread's edge.                                           *)
LEMMA SideFacts ==
  ASSUME ControlType, NEW t \in Threads
  PROVE  /\ frame[t] \in FrameType /\ pc[t] \in Labels
         /\ \A side \in Sides : Slot(t, side) = SideSlot(frame[t], side)
         /\ OnFirst(t) <=> AtFirst(frame[t])
         /\ AtFirst(frame[t]) => Slot(t, frame[t].side) = First(frame[t])
         /\ ~AtFirst(frame[t]) => /\ Slot(t, frame[t].side) = Second(frame[t])
                                  /\ Slot(t, Other(frame[t].side)) = First(frame[t])
         /\ pc[t] \in BusyLabels =>
              /\ First(frame[t]) \in SlotNames /\ Second(frame[t]) \in SlotNames
              /\ \A side \in Sides : Slot(t, side) \in SlotNames
<1>1. frame[t] \in FrameType /\ pc[t] \in Labels
  BY DEF ControlType
<1>2. frame[t].side \in Sides
  BY <1>1 DEF FrameType
<1>3. \A side \in Sides : Slot(t, side) = SideSlot(frame[t], side)
  BY DEF Slot, SideSlot
<1>4. FirstSide(frame[t].from, frame[t].to) \in Sides
  BY DEF FirstSide, Sides
<1>5. \A side \in Sides : Other(side) \in Sides /\ (side # FirstSide(frame[t].from, frame[t].to) =>
          /\ side = Other(FirstSide(frame[t].from, frame[t].to))
          /\ Other(side) = FirstSide(frame[t].from, frame[t].to))
  BY <1>4 DEF Sides, Other
<1>6. OnFirst(t) <=> AtFirst(frame[t])
  BY DEF OnFirst, AtFirst
<1>7. AtFirst(frame[t]) => Slot(t, frame[t].side) = First(frame[t])
  BY <1>2, <1>3 DEF AtFirst, First
<1>8. ~AtFirst(frame[t]) => /\ Slot(t, frame[t].side) = Second(frame[t])
                            /\ Slot(t, Other(frame[t].side)) = First(frame[t])
  BY <1>2, <1>3, <1>5 DEF AtFirst, First, Second
<1>9. ASSUME pc[t] \in BusyLabels
      PROVE  /\ First(frame[t]) \in SlotNames /\ Second(frame[t]) \in SlotNames
             /\ \A side \in Sides : Slot(t, side) \in SlotNames
  BY <1>9 DEF ControlType, First, Second, SideSlot, Slot, SlotNames
<1> QED BY <1>1, <1>3, <1>6, <1>7, <1>8, <1>9

LEMMA HeldSlots ==
  ASSUME NEW l, NEW f
  PROVE  /\ HoldsFirst(l, f) => First(f) \in Held(l, f)
         /\ HoldsSecond(l, f) => Second(f) \in Held(l, f)
         /\ \A s \in Held(l, f) : \/ s = First(f) /\ HoldsFirst(l, f)
                                  \/ s = Second(f) /\ HoldsSecond(l, f)
BY DEF Held

(* A step of t that changes its label to l and its variables to f, and the *)
(* locks and directions only in ways that leave the other threads alone.   *)
LEMMA StepLocks ==
  ASSUME Inv, NEW t \in Threads, NEW l \in Labels, NEW f \in FrameType,
         pc' = [pc EXCEPT ![t] = l], frame' = [frame EXCEPT ![t] = f],
         l \in BusyLabels => f.from \in Vertices /\ f.to \in Vertices,
         dirs' \in [SlotNames -> SUBSET {"OUT", "IN"}],
         \A s \in SlotNames \ Held(pc[t], frame[t]) : dirs'[s] = dirs[s],
         \A s \in SlotNames : dirs'[s] \subseteq dirs[s],
         locked \ Held(pc[t], frame[t]) \subseteq locked',
         locked' \subseteq (locked \ Held(pc[t], frame[t])) \cup Held(l, f),
         Held(l, f) \subseteq locked',
         Held(l, f) \cap locked \subseteq Held(pc[t], frame[t]),
         ThreadOK(l, f, dirs')
  PROVE  ControlType' /\ LocksOK'
<1>1. ControlType'
  BY DEF Inv, ControlType
<1>2. pc'[t] = l /\ frame'[t] = f
  BY DEF Inv, ControlType
<1>3. \A u \in Threads \ {t} : pc'[u] = pc[u] /\ frame'[u] = frame[u]
  BY DEF Inv, ControlType
<1>4. \A u \in Threads \ {t} : Held(pc[u], frame[u]) \cap Held(pc[t], frame[t]) = {}
  BY DEF Inv, LocksOK
<1>5. \A u \in Threads : Held(pc'[u], frame'[u]) \subseteq locked'
  <2> SUFFICES ASSUME NEW u \in Threads \ {t} PROVE Held(pc[u], frame[u]) \subseteq locked'
    BY <1>2, <1>3
  <2>1. Held(pc[u], frame[u]) \subseteq locked
    BY DEF Inv, LocksOK
  <2> QED BY <2>1, <1>4
<1>6. \A u, w \in Threads : u # w => Held(pc'[u], frame'[u]) \cap Held(pc'[w], frame'[w]) = {}
  <2>1. \A u \in Threads \ {t} : Held(pc[u], frame[u]) \cap Held(l, f) = {}
    <3> SUFFICES ASSUME NEW u \in Threads \ {t} PROVE Held(pc[u], frame[u]) \cap Held(l, f) = {}
      OBVIOUS
    <3>1. Held(pc[u], frame[u]) \subseteq locked
      BY DEF Inv, LocksOK
    <3> QED BY <3>1, <1>4
  <2>2. \A u, w \in Threads \ {t} : u # w => Held(pc[u], frame[u]) \cap Held(pc[w], frame[w]) = {}
    BY DEF Inv, LocksOK
  <2> QED BY <2>1, <2>2, <1>2, <1>3
<1>7. \A u \in Threads : ThreadOK(pc'[u], frame'[u], dirs')
  <2> SUFFICES ASSUME NEW u \in Threads \ {t} PROVE ThreadOK(pc[u], frame[u], dirs')
    BY <1>2, <1>3
  <2> DEFINE g == frame[u]
  <2>1. ThreadOK(pc[u], g, dirs) /\ frame[u] \in FrameType /\ pc[u] \in Labels
    BY DEF Inv, LocksOK, ControlType
  <2>2. \A s \in Held(pc[u], g) : s \in SlotNames => dirs'[s] = dirs[s]
    BY <1>4
  <2>3. pc[u] \in BusyLabels => /\ First(g) \in SlotNames /\ Second(g) \in SlotNames
                                /\ SideSlot(g, "forward") \in SlotNames
    BY SideFacts DEF Inv, Sides
  <2>4. {SideSlot(g, "forward"), SideSlot(g, "back")} = {First(g), Second(g)}
    BY DEF First, Second, SideSlot, Other, FirstSide
  <2>5. (pc[u] \in {"seek", "lock", "check"} /\ ~AtFirst(g)) => Found1(g, dirs')
    <3>1. ASSUME pc[u] \in {"seek", "lock", "check"}, ~AtFirst(g)
          PROVE  First(g) \in Held(pc[u], g) /\ First(g) \in SlotNames
      <4>1. pc[u] \in BusyLabels
        BY <3>1 DEF BusyLabels, Labels
      <4>2. HoldsFirst(pc[u], g)
        BY <3>1 DEF HoldsFirst
      <4> QED BY <4>1, <4>2, <2>3, HeldSlots
    <3> QED BY <3>1, <2>1, <2>2 DEF ThreadOK, Found1
  <2>6. pc[u] = "remove_forward" => "OUT" \in dirs'[SideSlot(g, "forward")]
    <3>1. ASSUME pc[u] = "remove_forward"
          PROVE  SideSlot(g, "forward") \in Held(pc[u], g) /\ SideSlot(g, "forward") \in SlotNames
      <4>1. pc[u] \in BusyLabels
        BY <3>1 DEF BusyLabels, Labels
      <4>2. HoldsFirst(pc[u], g) /\ HoldsSecond(pc[u], g)
        BY <3>1 DEF HoldsFirst, HoldsSecond, LateLabels
      <4> QED BY <4>1, <4>2, <2>3, <2>4, HeldSlots
    <3> QED BY <3>1, <2>1, <2>2 DEF ThreadOK
  <2>7. pc[u] = "remove_back" => "OUT" \notin dirs'[SideSlot(g, "forward")]
    BY <2>1, <2>3 DEF ThreadOK, BusyLabels, Labels
  <2>8. pc[u] \in {"remove_forward", "remove_back"} => "IN" \in dirs'[SideSlot(g, "back")]
    <3>1. ASSUME pc[u] \in {"remove_forward", "remove_back"}
          PROVE  SideSlot(g, "back") \in Held(pc[u], g) /\ SideSlot(g, "back") \in SlotNames
      <4>1. pc[u] \in BusyLabels
        BY <3>1 DEF BusyLabels, Labels
      <4>2. HoldsFirst(pc[u], g) /\ HoldsSecond(pc[u], g)
        BY <3>1 DEF HoldsFirst, HoldsSecond, LateLabels
      <4> QED BY <4>1, <4>2, <2>3, <2>4, HeldSlots
    <3> QED BY <3>1, <2>1, <2>2 DEF ThreadOK
  <2> QED BY <2>1, <2>5, <2>6, <2>7, <2>8 DEF ThreadOK
<1>8. \A s \in locked' : \E u \in Threads : s \in Held(pc'[u], frame'[u])
  <2> SUFFICES ASSUME NEW s \in locked' PROVE \E u \in Threads : s \in Held(pc'[u], frame'[u])
    OBVIOUS
  <2>1. CASE s \in Held(l, f)
    BY <1>2, <2>1
  <2>2. CASE s \in locked /\ s \notin Held(pc[t], frame[t])
    <3>1. PICK u \in Threads : s \in Held(pc[u], frame[u])
      BY <2>2 DEF Inv, LocksOK
    <3> QED BY <1>3, <2>2, <3>1
  <2> QED BY <2>1, <2>2
<1> QED BY <1>1, <1>5, <1>6, <1>7, <1>8 DEF LocksOK

(* A frame that stays the same, and a thread with none or one lock.        *)
LEMMA SameFrame ==
  ASSUME ControlType, NEW t \in Threads, frame' = frame
  PROVE  frame' = [frame EXCEPT ![t] = frame[t]]
BY DEF ControlType

LEMMA NoneHeld ==
  ASSUME NEW l \in {"idle", "reverse", "missing"}, NEW f, NEW D
  PROVE  Held(l, f) = {} /\ ThreadOK(l, f, D)
BY DEF Held, HoldsFirst, HoldsSecond, LateLabels, ThreadOK

LEMMA StartStep ==
  ASSUME Inv, NEW t \in Threads, NEW op \in Ops, NEW from \in Vertices, NEW to \in Vertices,
         NEW rtn \in Int, Start(t, op, from, to, rtn), UNCHANGED <<dirs, locked>>,
         pc[t] \in {"idle", "reverse"}
  PROVE  ControlType' /\ LocksOK'
<1> DEFINE f == [op |-> op, from |-> from, to |-> to, side |-> FirstSide(from, to), rtn |-> rtn]
<1>1. f \in FrameType
  BY RemovalAssumption DEF FrameType, FirstSide, Sides
<1>2. AtFirst(f)
  BY DEF AtFirst
<1>3. Held("seek", f) = {}
  BY <1>2, HeldSlots DEF HoldsFirst, HoldsSecond, LateLabels
<1>4. ThreadOK("seek", f, dirs')
  BY <1>2 DEF ThreadOK, HoldsSecond, LateLabels
<1>5. pc' = [pc EXCEPT ![t] = "seek"] /\ frame' = [frame EXCEPT ![t] = f]
  BY DEF Start, Goto
<1>6. f.from \in Vertices /\ f.to \in Vertices
  OBVIOUS
<1>7. dirs' \in [SlotNames -> SUBSET {"OUT", "IN"}]
  BY DEF Inv, ControlType
<1>8. "seek" \in Labels /\ Held(pc[t], frame[t]) = {}
  BY NoneHeld DEF Labels
<1> HIDE DEF f
<1> QED BY <1>1, <1>3, <1>4, <1>5, <1>6, <1>7, <1>8, StepLocks

LEMMA ReturnStep ==
  ASSUME Inv, NEW t \in Threads, NEW r \in Int, Return(t, r), UNCHANGED dirs,
         locked' = locked \ Held(pc[t], frame[t])
  PROVE  ControlType' /\ LocksOK'
<1> DEFINE g == [frame[t] EXCEPT !.rtn = r]
<1>1. PICK l \in {"idle", "reverse"}, f \in {IdleFrame, g} :
        pc' = [pc EXCEPT ![t] = l] /\ frame' = [frame EXCEPT ![t] = f]
  <2>1. CASE frame[t].op.pair /\ frame[t].rtn = 0
    <3>1. pc' = [pc EXCEPT ![t] = "reverse"]
      BY <2>1 DEF Return, Goto
    <3>2. frame' = [frame EXCEPT ![t] = g]
      BY <2>1 DEF Return
    <3> QED BY <3>1, <3>2
  <2>2. CASE ~(frame[t].op.pair /\ frame[t].rtn = 0)
    BY <2>2 DEF Return, Goto
  <2> QED BY <2>1, <2>2
<1>2. f \in FrameType
  <2>1. frame[t] \in FrameType
    BY DEF Inv, ControlType
  <2>2. g \in FrameType
    BY <2>1 DEF FrameType
  <2> QED BY <2>2, IdleFrameType
<1>3. Held(l, f) = {} /\ ThreadOK(l, f, dirs')
  BY NoneHeld
<1>4. dirs' \in [SlotNames -> SUBSET {"OUT", "IN"}]
  BY DEF Inv, ControlType
<1>5. l \in Labels /\ l \notin BusyLabels
  BY DEF Labels, BusyLabels
<1> HIDE DEF g
<1> QED BY <1>1, <1>2, <1>3, <1>4, <1>5, StepLocks

(* A step that leaves the directions alone, of a thread that is not about  *)
(* to take an IN end, leaves the half removed edges to the other threads.  *)
LEMMA HalfStep ==
  ASSUME Inv, NEW t \in Threads, pc[t] # "remove_back", UNCHANGED dirs,
         \A w \in Threads \ {t} : pc'[w] = pc[w] /\ frame'[w] = frame[w]
  PROVE  HalfRemoved'
BY DEF Inv, HalfRemoved

-----------------------------------------------------------------------------
(* The actions.                                                            *)

LEMMA CallKeepsInv == ASSUME Inv, NEW t \in Threads, Call(t) PROVE Inv'
<1>1. PICK op \in Ops : Start(t, op, op.from, op.to, 0)
  BY DEF Call
<1>2. op.from \in Vertices /\ op.to \in Vertices
  BY RemovalAssumption
<1>3. ControlType' /\ LocksOK'
  BY <1>1, <1>2, StartStep DEF Call
<1>4. HalfRemoved'
  BY <1>1, HalfStep DEF Call, Start, Goto, Inv, ControlType
<1> QED BY <1>3, <1>4 DEF Inv

LEMMA ReverseKeepsInv == ASSUME Inv, NEW t \in Threads, Reverse(t) PROVE Inv'
<1> DEFINE op == frame[t].op
<1>1. op \in Ops /\ frame[t].rtn \in Int
  BY DEF Inv, ControlType, FrameType
<1>2. op.from \in Vertices /\ op.to \in Vertices
  BY <1>1, RemovalAssumption
<1>3. Start(t, op, op.to, op.from, frame[t].rtn)
  BY DEF Reverse
<1>4. ControlType' /\ LocksOK'
  BY <1>1, <1>2, <1>3, StartStep DEF Reverse
<1>5. HalfRemoved'
  BY <1>3, HalfStep DEF Reverse, Start, Goto, Inv, ControlType
<1> QED BY <1>4, <1>5 DEF Inv

(* A thread with a removal under way that keeps its local variables.       *)
LEMMA BusyStep ==
  ASSUME Inv, NEW t \in Threads, pc[t] \in BusyLabels, NEW l \in Labels,
         pc' = [pc EXCEPT ![t] = l], frame' = frame, dirs' = dirs,
         locked \ Held(pc[t], frame[t]) \subseteq locked',
         locked' \subseteq (locked \ Held(pc[t], frame[t])) \cup Held(l, frame[t]),
         Held(l, frame[t]) \subseteq locked',
         Held(l, frame[t]) \cap locked \subseteq Held(pc[t], frame[t]),
         ThreadOK(l, frame[t], dirs), pc[t] # "remove_back"
  PROVE  Inv'
<1>1. frame[t] \in FrameType /\ frame[t].from \in Vertices /\ frame[t].to \in Vertices
  BY DEF Inv, ControlType
<1>2. frame' = [frame EXCEPT ![t] = frame[t]]
  BY SameFrame DEF Inv
<1>3. dirs' \in [SlotNames -> SUBSET {"OUT", "IN"}]
  BY DEF Inv, ControlType
<1>4. ControlType' /\ LocksOK'
  BY <1>1, <1>2, <1>3, StepLocks
<1>5. HalfRemoved'
  BY HalfStep DEF Inv, ControlType
<1> QED BY <1>4, <1>5 DEF Inv

LEMMA SeekKeepsInv == ASSUME Inv, NEW t \in Threads, Seek(t) PROVE Inv'
<1> DEFINE f == frame[t]
<1>1. pc[t] = "seek" /\ UNCHANGED <<dirs, locked, frame>>
  BY DEF Seek, Move
<1>2. pc[t] \in BusyLabels /\ pc[t] # "remove_back"
  BY <1>1 DEF BusyLabels, Labels
<1>3. Held("seek", f) \subseteq locked /\ ThreadOK("seek", f, dirs)
  BY <1>1 DEF Inv, LocksOK
<1>4. PICK l \in {"lock", "missing", "fail_first"} :
        /\ pc' = [pc EXCEPT ![t] = l]
        /\ l = "fail_first" => ~AtFirst(f)
        /\ l = "missing" => AtFirst(f)
  BY SideFacts DEF Seek, Move, Goto, Inv
<1>5. Held(l, f) = Held("seek", f)
  BY <1>4 DEF Held, HoldsFirst, HoldsSecond, LateLabels
<1>6. ThreadOK(l, f, dirs)
  BY <1>3, <1>4 DEF ThreadOK, HoldsSecond, LateLabels
<1>7. l \in Labels
  BY DEF Labels
<1> QED BY <1>1, <1>2, <1>3, <1>4, <1>5, <1>6, <1>7, BusyStep

LEMMA MissingKeepsInv == ASSUME Inv, NEW t \in Threads, Missing(t) PROVE Inv'
<1>0. Held(pc[t], frame[t]) = {}
  BY NoneHeld DEF Missing
<1>1. ControlType' /\ LocksOK'
  BY <1>0, ReturnStep DEF Missing
<1>2. HalfRemoved'
  BY HalfStep DEF Missing, Return, Goto, Inv, ControlType
<1> QED BY <1>1, <1>2 DEF Inv

LEMMA LockKeepsInv == ASSUME Inv, NEW t \in Threads, Lock(t) PROVE Inv'
<1> DEFINE f == frame[t]
           s == Slot(t, f.side)
<1>1. /\ pc[t] = "lock" /\ pc' = [pc EXCEPT ![t] = "check"] /\ UNCHANGED <<dirs, frame>>
      /\ s \notin locked /\ locked' = locked \cup {s}
  BY DEF Lock, Move, Goto
<1>2. pc[t] \in BusyLabels /\ pc[t] # "remove_back" /\ "check" \in Labels
  BY <1>1 DEF BusyLabels, Labels
<1>3. Held("lock", f) \subseteq locked /\ ThreadOK("lock", f, dirs)
  BY <1>1 DEF Inv, LocksOK
<1>4. /\ AtFirst(f) => s = First(f)
      /\ ~AtFirst(f) => s = Second(f)
  BY SideFacts DEF Inv
<1>5. ~AtFirst(f) => First(f) \in Held("lock", f)
  BY HeldSlots DEF HoldsFirst
<1>6. Held("check", f) = Held("lock", f) \cup {s}
  BY <1>4, <1>5 DEF Held, HoldsFirst, HoldsSecond, LateLabels
<1>7. ThreadOK("check", f, dirs)
  <2>1. HoldsSecond("check", f) => First(f) # Second(f)
    BY <1>1, <1>3, <1>4, <1>5 DEF HoldsSecond
  <2> QED BY <2>1, <1>3 DEF ThreadOK, LateLabels
<1> HIDE DEF s
<1> QED BY <1>1, <1>2, <1>3, <1>6, <1>7, BusyStep

LEMMA CheckKeepsInv == ASSUME Inv, NEW t \in Threads, Check(t) PROVE Inv'
<1> DEFINE f == frame[t]
           s == Slot(t, f.side)
           g == [f EXCEPT !.side = Other(@)]
<1>1. pc[t] = "check" /\ UNCHANGED <<dirs, locked>>
  BY DEF Check
<1>2. /\ pc[t] \in BusyLabels /\ pc[t] # "remove_back"
      /\ {"seek", "remove_forward", "fail"} \subseteq Labels
  BY <1>1 DEF BusyLabels, Labels
<1>3. Held("check", f) \subseteq locked /\ ThreadOK("check", f, dirs)
  BY <1>1 DEF Inv, LocksOK
<1>4. /\ f \in FrameType /\ f.from \in Vertices /\ f.to \in Vertices
      /\ dirs \in [SlotNames -> SUBSET {"OUT", "IN"}]
  BY <1>2 DEF Inv, ControlType
<1>5. CASE Present(t, f.side) /\ OnFirst(t)
  <2>1. pc' = [pc EXCEPT ![t] = "seek"] /\ frame' = [frame EXCEPT ![t] = g]
    BY <1>5 DEF Check, Goto, Inv, ControlType
  <2>2. /\ g \in FrameType /\ First(g) = First(f) /\ g.side = Other(f.side)
        /\ g.from = f.from /\ g.to = f.to
    BY <1>4 DEF FrameType, First, SideSlot, Other, Sides, FirstSide
  <2>3. AtFirst(f) /\ s = First(f) /\ f.side \in Sides
    BY <1>4, <1>5, SideFacts DEF Inv, FrameType
  <2>9. ~AtFirst(g)
    BY <2>2, <2>3 DEF AtFirst, Other, Sides
  <2>4. Held("seek", g) = Held("check", f)
    BY <2>2, <2>3, <2>9 DEF Held, HoldsFirst, HoldsSecond, LateLabels
  <2>5. Other(g.side) = f.side
    BY <2>2, <2>3 DEF Other, Sides
  <2>6. ThreadOK("seek", g, dirs)
    BY <1>5, <2>2, <2>3, <2>5 DEF ThreadOK, HoldsSecond, LateLabels, Found1, Present
  <2>7. ControlType' /\ LocksOK'
    <3> HIDE DEF f, g
    <3> QED BY <1>1, <1>2, <1>3, <1>4, <2>1, <2>2, <2>4, <2>6, StepLocks DEF f
  <2>8. HalfRemoved'
    BY <1>1, <1>2, <2>1, HalfStep DEF Inv, ControlType
  <2> QED BY <2>7, <2>8 DEF Inv
<1>6. CASE Present(t, f.side) /\ ~OnFirst(t)
  <2>1. pc' = [pc EXCEPT ![t] = "remove_forward"] /\ UNCHANGED frame
    BY <1>6 DEF Check, Goto
  <2>2. ~AtFirst(f) /\ f.side \in Sides
    BY <1>4, <1>6, SideFacts DEF Inv, FrameType
  <2>3. Held("remove_forward", f) = Held("check", f)
    BY <2>2 DEF Held, HoldsFirst, HoldsSecond, LateLabels
  <2>4. "OUT" \in dirs[SideSlot(f, "forward")]
    <3>1. CASE f.side = "forward"
      BY <1>6, <3>1 DEF Present, Direction, Slot, SideSlot
    <3>2. CASE f.side = "back"
      <4>1. Other(f.side) = "forward" /\ First(f) = SideSlot(f, "forward")
        BY <2>2, <3>2 DEF Other, AtFirst, First, FirstSide
      <4> QED BY <1>3, <2>2, <4>1 DEF ThreadOK, Found1, Direction
    <3> QED BY <2>2, <3>1, <3>2 DEF Sides
  <2>6. "IN" \in dirs[SideSlot(f, "back")]
    <3>1. CASE f.side = "back"
      BY <1>6, <3>1 DEF Present, Direction, Slot, SideSlot
    <3>2. CASE f.side = "forward"
      <4>1. Other(f.side) = "back" /\ First(f) = SideSlot(f, "back")
        BY <2>2, <3>2 DEF Other, AtFirst, First, FirstSide
      <4> QED BY <1>3, <2>2, <4>1 DEF ThreadOK, Found1, Direction
    <3> QED BY <2>2, <3>1, <3>2 DEF Sides
  <2>5. ThreadOK("remove_forward", f, dirs)
    BY <1>3, <2>2, <2>4, <2>6 DEF ThreadOK, HoldsSecond, LateLabels
  <2> QED BY <1>1, <1>2, <1>3, <2>1, <2>3, <2>5, BusyStep
<1>7. CASE ~Present(t, f.side)
  <2>1. pc' = [pc EXCEPT ![t] = "fail"] /\ UNCHANGED frame
    BY <1>7 DEF Check, Goto
  <2>2. Held("fail", f) = Held("check", f)
    BY DEF Held, HoldsFirst, HoldsSecond, LateLabels
  <2>3. ThreadOK("fail", f, dirs)
    BY <1>3 DEF ThreadOK, HoldsSecond, LateLabels
  <2> QED BY <1>1, <1>2, <1>3, <2>1, <2>2, <2>3, BusyStep
<1> QED BY <1>5, <1>6, <1>7

LEMMA FailKeepsInv == ASSUME Inv, NEW t \in Threads, Fail(t) PROVE Inv'
<1> DEFINE f == frame[t]
           s == Slot(t, f.side)
<1>1. /\ pc[t] = "fail" /\ UNCHANGED <<dirs, frame>> /\ locked' = locked \ {s}
      /\ pc' = [pc EXCEPT ![t] = IF OnFirst(t) THEN "missing" ELSE "fail_first"]
  BY DEF Fail, Move, Goto
<1>2. /\ pc[t] \in BusyLabels /\ pc[t] # "remove_back"
      /\ {"missing", "fail_first"} \subseteq Labels
  BY <1>1 DEF BusyLabels, Labels
<1>3. Held("fail", f) \subseteq locked /\ ThreadOK("fail", f, dirs)
  BY <1>1 DEF Inv, LocksOK
<1>4. /\ OnFirst(t) <=> AtFirst(f)
      /\ AtFirst(f) => s = First(f)
      /\ ~AtFirst(f) => s = Second(f)
  BY SideFacts DEF Inv
<1>5. s \in Held("fail", f)
  BY <1>4, HeldSlots DEF HoldsFirst, HoldsSecond
<1>6. CASE AtFirst(f)
  <2>1. Held("missing", f) = {} /\ ThreadOK("missing", f, dirs)
    BY NoneHeld
  <2>2. Held("fail", f) = {s}
    BY <1>4, <1>6 DEF Held, HoldsFirst, HoldsSecond, LateLabels
  <2> HIDE DEF s
  <2> QED BY <1>1, <1>2, <1>4, <1>5, <1>6, <2>1, <2>2, BusyStep
<1>7. CASE ~AtFirst(f)
  <2>1. First(f) # s
    BY <1>3, <1>4, <1>7 DEF ThreadOK, HoldsSecond
  <2>2. Held("fail_first", f) = Held("fail", f) \ {s}
    BY <2>1, <1>4, <1>7 DEF Held, HoldsFirst, HoldsSecond, LateLabels
  <2>3. ThreadOK("fail_first", f, dirs)
    BY <1>7 DEF ThreadOK, HoldsSecond, LateLabels
  <2> HIDE DEF s
  <2> QED BY <1>1, <1>2, <1>3, <1>4, <1>5, <1>7, <2>2, <2>3, BusyStep
<1> QED BY <1>6, <1>7

(* A thread that gives its first lock back and returns.                    *)
LEMMA LastUnlock ==
  ASSUME Inv, NEW t \in Threads, pc[t] \in {"fail_first", "unlock_first"}, NEW r \in Int,
         Return(t, r), UNCHANGED dirs, locked' = locked \ {Slot(t, Other(frame[t].side))}
  PROVE  Inv'
<1>1. ~AtFirst(frame[t])
  BY DEF Inv, LocksOK, ThreadOK, LateLabels
<1>2. Slot(t, Other(frame[t].side)) = First(frame[t])
  BY <1>1, SideFacts DEF Inv
<1>3. Held(pc[t], frame[t]) = {First(frame[t])}
  BY DEF Held, HoldsFirst, HoldsSecond, LateLabels
<1>4. ControlType' /\ LocksOK'
  BY <1>2, <1>3, ReturnStep
<1>5. HalfRemoved'
  BY HalfStep DEF Return, Goto, Inv, ControlType
<1> QED BY <1>4, <1>5 DEF Inv

LEMMA FailFirstKeepsInv == ASSUME Inv, NEW t \in Threads, FailFirst(t) PROVE Inv'
BY LastUnlock DEF FailFirst

LEMMA UnlockFirstKeepsInv == ASSUME Inv, NEW t \in Threads, UnlockFirst(t) PROVE Inv'
BY LastUnlock DEF UnlockFirst

LEMMA UnlockSecondKeepsInv == ASSUME Inv, NEW t \in Threads, UnlockSecond(t) PROVE Inv'
<1> DEFINE f == frame[t]
           s == Slot(t, f.side)
<1>1. /\ pc[t] = "unlock_second" /\ UNCHANGED <<dirs, frame>> /\ locked' = locked \ {s}
      /\ pc' = [pc EXCEPT ![t] = "unlock_first"]
  BY DEF UnlockSecond, Move, Goto
<1>2. pc[t] \in BusyLabels /\ pc[t] # "remove_back" /\ "unlock_first" \in Labels
  BY <1>1 DEF BusyLabels, Labels
<1>3. Held("unlock_second", f) \subseteq locked /\ ThreadOK("unlock_second", f, dirs)
  BY <1>1 DEF Inv, LocksOK
<1>4. s = Second(f)
  BY <1>3, SideFacts DEF Inv, ThreadOK, LateLabels
<1>5. First(f) # s /\ s \in Held("unlock_second", f)
  BY <1>3, <1>4, HeldSlots DEF ThreadOK, HoldsSecond
<1>6. Held("unlock_first", f) = Held("unlock_second", f) \ {s}
  BY <1>4, <1>5 DEF Held, HoldsFirst, HoldsSecond, LateLabels
<1>7. ThreadOK("unlock_first", f, dirs)
  BY <1>3 DEF ThreadOK, HoldsSecond, LateLabels
<1> HIDE DEF s
<1> QED BY <1>1, <1>2, <1>3, <1>5, <1>6, <1>7, BusyStep

(* Taking a direction away, from a slot that may be blank already.         *)
LEMMA TakeAwayDirs ==
  ASSUME ControlType, NEW t \in Threads, NEW side \in Sides, TakeAway(t, side),
         Slot(t, side) \in SlotNames
  PROVE  /\ dirs' \in [SlotNames -> SUBSET {"OUT", "IN"}]
         /\ dirs'[Slot(t, side)] = dirs[Slot(t, side)] \ {Direction(side)}
         /\ \A s \in SlotNames \ {Slot(t, side)} : dirs'[s] = dirs[s]
<1> DEFINE s == Slot(t, side)
<1>1. dirs \in [SlotNames -> SUBSET {"OUT", "IN"}]
  BY DEF ControlType
<1>2. CASE dirs[s] = {}
  BY <1>1, <1>2 DEF TakeAway
<1>3. CASE dirs[s] # {}
  <2>1. dirs' = [dirs EXCEPT ![s] = dirs[s] \ {Direction(side)}]
    BY <1>3 DEF TakeAway
  <2> HIDE DEF s
  <2> QED BY <1>1, <2>1 DEF s
<1> QED BY <1>2, <1>3

(* What the two updates of a removal rest on: the thread holds both slots. *)
LEMMA Removing ==
  ASSUME Inv, NEW t \in Threads, pc[t] \in {"remove_forward", "remove_back"}
  PROVE  LET f == frame[t]
             s1 == <<f.from, f.to>>
             s2 == <<f.to, f.from>> IN
         /\ f \in FrameType /\ f.from \in Vertices /\ f.to \in Vertices
         /\ Slot(t, "forward") = s1 /\ Slot(t, "back") = s2
         /\ s1 \in SlotNames /\ s2 \in SlotNames /\ s1 # s2
         /\ Held(pc[t], f) = {s1, s2}
         /\ Held(pc[t], f) \subseteq locked
         /\ ThreadOK(pc[t], f, dirs)
<1> DEFINE f == frame[t]
<1>1. pc[t] \in BusyLabels
  BY DEF BusyLabels, Labels
<1>2. f \in FrameType /\ f.from \in Vertices /\ f.to \in Vertices
  BY <1>1 DEF Inv, ControlType
<1>3. Held(pc[t], f) \subseteq locked /\ ThreadOK(pc[t], f, dirs)
  BY DEF Inv, LocksOK
<1>4. HoldsFirst(pc[t], f) /\ HoldsSecond(pc[t], f)
  BY DEF HoldsFirst, HoldsSecond, LateLabels
<1>5. {First(f), Second(f)} = {<<f.from, f.to>>, <<f.to, f.from>>}
  BY DEF First, Second, SideSlot, FirstSide, Other
<1>6. First(f) # Second(f)
  BY <1>3, <1>4 DEF ThreadOK
<1>7. <<f.from, f.to>> # <<f.to, f.from>>
  BY <1>5, <1>6
<1>8. Held(pc[t], f) = {<<f.from, f.to>>, <<f.to, f.from>>}
  BY <1>4, <1>5, HeldSlots DEF Held
<1> QED BY <1>2, <1>3, <1>7, <1>8 DEF Slot, SlotNames

LEMMA RemoveForwardKeepsInv == ASSUME Inv, NEW t \in Threads, RemoveForward(t) PROVE Inv'
<1> DEFINE f == frame[t]
           s1 == <<f.from, f.to>>
<1>1. /\ pc[t] = "remove_forward" /\ UNCHANGED <<frame, locked>>
      /\ pc' = [pc EXCEPT ![t] = "remove_back"] /\ TakeAway(t, "forward")
  BY DEF RemoveForward, Move, Goto
<1>2. /\ f \in FrameType /\ f.from \in Vertices /\ f.to \in Vertices
      /\ Slot(t, "forward") = s1 /\ s1 \in SlotNames
      /\ s1 \in Held(pc[t], f) /\ Held(pc[t], f) \subseteq locked
      /\ ThreadOK("remove_forward", f, dirs)
  BY <1>1, Removing
<1>3. /\ dirs' \in [SlotNames -> SUBSET {"OUT", "IN"}]
      /\ dirs'[s1] = dirs[s1] \ {"OUT"}
      /\ \A s \in SlotNames \ {s1} : dirs'[s] = dirs[s]
  BY <1>1, <1>2, TakeAwayDirs DEF Sides, Direction, Inv
<1>4. Held("remove_back", f) = Held(pc[t], f)
  BY <1>1 DEF Held, HoldsFirst, HoldsSecond, LateLabels
<1>5. ThreadOK("remove_back", f, dirs')
  <2>1. "OUT" \notin dirs'[s1]
    BY <1>3
  <2>2. "IN" \in dirs'[<<f.to, f.from>>]
    <3>1. <<f.to, f.from>> \in SlotNames \ {s1}
      BY <1>1, Removing
    <3>2. "IN" \in dirs[<<f.to, f.from>>]
      BY <1>2 DEF ThreadOK, SideSlot
    <3> QED BY <1>3, <3>1, <3>2
  <2>3. ~AtFirst(f) /\ (HoldsSecond("remove_back", f) => First(f) # Second(f))
    BY <1>2 DEF ThreadOK, HoldsSecond, LateLabels
  <2> QED BY <2>1, <2>2, <2>3 DEF ThreadOK, SideSlot
<1>6. ControlType' /\ LocksOK'
  <2>1. "remove_back" \in Labels
    BY DEF Labels
  <2>2. frame' = [frame EXCEPT ![t] = f]
    BY <1>1, SameFrame DEF Inv
  <2>3. \A s \in SlotNames : dirs'[s] \subseteq dirs[s]
    BY <1>3
  <2> HIDE DEF s1, f
  <2> QED BY <1>1, <1>2, <1>3, <1>4, <1>5, <2>1, <2>2, <2>3, StepLocks, ZenonT(40) DEF f
<1>7. HalfRemoved'
  <2> SUFFICES ASSUME NEW u \in Vertices, NEW v \in Vertices,
                      ~HalfEdge(u, v),
                      ("OUT" \in dirs'[<<u, v>>]) # ("IN" \in dirs'[<<v, u>>])
               PROVE  \E w \in Threads : /\ pc'[w] = "remove_back"
                                         /\ frame'[w].from = u /\ frame'[w].to = v
    BY DEF HalfRemoved
  <2>1. CASE <<u, v>> = s1
    BY <1>1, <2>1 DEF Inv, ControlType
  <2>2. CASE <<u, v>> # s1
    <3>1. <<u, v>> \in SlotNames /\ <<v, u>> \in SlotNames
      BY DEF SlotNames
    <3>2. ("OUT" \in dirs[<<u, v>>]) # ("IN" \in dirs[<<v, u>>])
      BY <1>3, <2>2, <3>1
    <3>3. PICK w \in Threads : pc[w] = "remove_back" /\ frame[w].from = u /\ frame[w].to = v
      BY <3>2 DEF Inv, HalfRemoved
    <3> QED BY <1>1, <3>3 DEF Inv, ControlType
  <2> QED BY <2>1, <2>2
<1> QED BY <1>6, <1>7 DEF Inv

LEMMA RemoveBackKeepsInv == ASSUME Inv, NEW t \in Threads, RemoveBack(t) PROVE Inv'
<1> DEFINE f == frame[t]
           s1 == <<f.from, f.to>>
           s2 == <<f.to, f.from>>
<1>1. /\ pc[t] = "remove_back" /\ UNCHANGED <<frame, locked>>
      /\ pc' = [pc EXCEPT ![t] = "unlock_second"] /\ TakeAway(t, "back")
  BY DEF RemoveBack, Move, Goto
<1>2. /\ f \in FrameType /\ f.from \in Vertices /\ f.to \in Vertices
      /\ Slot(t, "back") = s2 /\ s1 \in SlotNames /\ s2 \in SlotNames /\ s1 # s2
      /\ s2 \in Held(pc[t], f) /\ Held(pc[t], f) \subseteq locked
      /\ ThreadOK("remove_back", f, dirs)
  BY <1>1, Removing
<1>3. /\ dirs' \in [SlotNames -> SUBSET {"OUT", "IN"}]
      /\ dirs'[s2] = dirs[s2] \ {"IN"}
      /\ \A s \in SlotNames \ {s2} : dirs'[s] = dirs[s]
  BY <1>1, <1>2, TakeAwayDirs DEF Sides, Direction, Inv
<1>4. Held("unlock_second", f) = Held(pc[t], f)
  BY <1>1 DEF Held, HoldsFirst, HoldsSecond, LateLabels
<1>5. ThreadOK("unlock_second", f, dirs')
  BY <1>2 DEF ThreadOK, HoldsSecond, LateLabels
<1>6. ControlType' /\ LocksOK'
  <2>1. "unlock_second" \in Labels
    BY DEF Labels
  <2>2. frame' = [frame EXCEPT ![t] = f]
    BY <1>1, SameFrame DEF Inv
  <2>3. \A s \in SlotNames : dirs'[s] \subseteq dirs[s]
    BY <1>3
  <2> HIDE DEF s1, s2, f
  <2> QED BY <1>1, <1>2, <1>3, <1>4, <1>5, <2>1, <2>2, <2>3, StepLocks, ZenonT(40) DEF f
<1>7. HalfRemoved'
  <2> SUFFICES ASSUME NEW u \in Vertices, NEW v \in Vertices,
                      ~HalfEdge(u, v),
                      ("OUT" \in dirs'[<<u, v>>]) # ("IN" \in dirs'[<<v, u>>])
               PROVE  \E w \in Threads : /\ pc'[w] = "remove_back"
                                         /\ frame'[w].from = u /\ frame'[w].to = v
    BY DEF HalfRemoved
  <2>0. <<u, v>> \in SlotNames /\ <<v, u>> \in SlotNames
    BY DEF SlotNames
  <2>1. <<v, u>> # s2
    <3> SUFFICES ASSUME <<v, u>> = s2 PROVE FALSE
      OBVIOUS
    <3>1. <<u, v>> = s1
      OBVIOUS
    <3>2. "OUT" \notin dirs'[s1]
      BY <1>2, <1>3 DEF ThreadOK, SideSlot
    <3>3. "IN" \notin dirs'[s2]
      BY <1>3
    <3> QED BY <3>1, <3>2, <3>3
  <2>2. ("OUT" \in dirs[<<u, v>>]) # ("IN" \in dirs[<<v, u>>])
    BY <1>3, <2>0, <2>1
  <2>3. PICK w \in Threads : pc[w] = "remove_back" /\ frame[w].from = u /\ frame[w].to = v
    BY <2>2 DEF Inv, HalfRemoved
  <2>4. w # t
    BY <2>1, <2>3
  <2> QED BY <1>1, <2>3, <2>4 DEF Inv, ControlType
<1> QED BY <1>6, <1>7 DEF Inv

LEMMA NextKeepsInv == ASSUME Inv, [Next]_vars PROVE Inv'
<1>1. ASSUME NEW t \in Threads, Call(t) PROVE Inv'
  BY <1>1, CallKeepsInv
<1>2. ASSUME NEW t \in Threads, Step(t) PROVE Inv'
  BY <1>2, ReverseKeepsInv, SeekKeepsInv, MissingKeepsInv, LockKeepsInv, CheckKeepsInv,
     FailKeepsInv, FailFirstKeepsInv, RemoveForwardKeepsInv, RemoveBackKeepsInv,
     UnlockSecondKeepsInv, UnlockFirstKeepsInv DEF Step
<1>3. CASE UNCHANGED vars
  BY <1>3 DEF vars, Inv, ControlType, LocksOK, HalfRemoved
<1> QED BY <1>1, <1>2, <1>3 DEF Next, Finished

LEMMA InvEndsAgree == ASSUME Inv PROVE EndsAgree
<1> SUFFICES ASSUME NEW u \in Vertices, NEW v \in Vertices,
                    ~HalfEdge(u, v),
                    ("OUT" \in dirs[<<u, v>>]) # ("IN" \in dirs[<<v, u>>])
             PROVE  \E t \in Threads : /\ pc[t] = "remove_back"
                                       /\ frame[t].from = u /\ frame[t].to = v
                                       /\ {<<u, v>>, <<v, u>>} \subseteq locked
  BY DEF EndsAgree
<1>1. PICK t \in Threads : pc[t] = "remove_back" /\ frame[t].from = u /\ frame[t].to = v
  BY DEF Inv, HalfRemoved
<1>2. {<<u, v>>, <<v, u>>} \subseteq locked
  BY <1>1, Removing
<1> QED BY <1>1, <1>2

\* Whatever removals run, the ends of an edge that had both disagree only between the two updates of the thread that removes it and
\* holds the locks of both of its slots.
THEOREM EndsAlwaysAgree == Spec => []EndsAgree
<1>1. Init => Inv
  BY InitInv
<1>2. Inv /\ [Next]_vars => Inv'
  BY NextKeepsInv
<1>3. Inv => EndsAgree
  BY InvEndsAgree
<1> QED BY <1>1, <1>2, <1>3, PTL DEF Spec

-----------------------------------------------------------------------------
(* The counters.  They are exact in every state: a removal takes a         *)
(* direction away and counts it in one step under the slot's lock, and the *)
(* direction is there, so nothing is counted twice.                        *)

CountersExact ==
  /\ numEdges = [v \in Vertices |-> Cardinality(SlotsOf(dirs, v))]
  /\ vertex = [v \in Vertices |-> Counters(dirs, v)]

LEMMA SlotSetsFinite ==
  ASSUME NEW D, NEW v
  PROVE  /\ IsFiniteSet(SlotsOf(D, v)) /\ Cardinality(SlotsOf(D, v)) \in Nat
         /\ \A d : IsFiniteSet(SlotsWith(D, v, d)) /\ Cardinality(SlotsWith(D, v, d)) \in Nat
<1>1. IsFiniteSet(SlotsOf(D, v))
  BY RemovalAssumption, FS_Subset DEF SlotsOf
<1>2. ASSUME NEW d PROVE IsFiniteSet(SlotsWith(D, v, d))
  BY RemovalAssumption, FS_Subset DEF SlotsWith
<1> QED BY <1>1, <1>2, FS_CardinalityType

\* The slot of a for b loses the direction d it had.
Loses(D, E, a, b, d) ==
  /\ D \in [SlotNames -> SUBSET {"OUT", "IN"}] /\ E \in [SlotNames -> SUBSET {"OUT", "IN"}]
  /\ d \in D[<<a, b>>] /\ E[<<a, b>>] = D[<<a, b>>] \ {d}
  /\ \A s \in SlotNames \ {<<a, b>>} : E[s] = D[s]

LEMMA LostDirection ==
  ASSUME NEW D, NEW E, NEW a \in Vertices, NEW b \in Vertices, NEW d \in {"OUT", "IN"},
         Loses(D, E, a, b, d)
  PROVE  /\ SlotsWith(E, a, d) = SlotsWith(D, a, d) \ {b} /\ b \in SlotsWith(D, a, d)
         /\ \A e \in {"OUT", "IN"} \ {d} : SlotsWith(E, a, e) = SlotsWith(D, a, e)
         /\ SlotsOf(E, a) = IF E[<<a, b>>] = {} THEN SlotsOf(D, a) \ {b} ELSE SlotsOf(D, a)
         /\ b \in SlotsOf(D, a)
         /\ \A v \in Vertices \ {a} : /\ Counters(E, v) = Counters(D, v)
                                      /\ SlotsOf(E, v) = SlotsOf(D, v)
<1>0. /\ d \in D[<<a, b>>] /\ E[<<a, b>>] = D[<<a, b>>] \ {d}
      /\ \A s \in SlotNames \ {<<a, b>>} : E[s] = D[s]
  BY DEF Loses
<1>1. \A n \in Vertices : <<a, n>> \in SlotNames /\ (n # b => E[<<a, n>>] = D[<<a, n>>])
  BY <1>0 DEF SlotNames
<1>2. \A v \in Vertices \ {a}, n \in Vertices : <<v, n>> \in SlotNames /\ E[<<v, n>>] = D[<<v, n>>]
  BY <1>0 DEF SlotNames
<1>3. SlotsWith(E, a, d) = SlotsWith(D, a, d) \ {b} /\ b \in SlotsWith(D, a, d)
  BY <1>0, <1>1 DEF SlotsWith
<1>4. \A e \in {"OUT", "IN"} \ {d} : SlotsWith(E, a, e) = SlotsWith(D, a, e)
  BY <1>0, <1>1 DEF SlotsWith
<1>5. SlotsOf(E, a) = IF E[<<a, b>>] = {} THEN SlotsOf(D, a) \ {b} ELSE SlotsOf(D, a)
  BY <1>0, <1>1 DEF SlotsOf
<1>6. b \in SlotsOf(D, a)
  BY <1>0 DEF SlotsOf
<1>7. ASSUME NEW v \in Vertices \ {a}
      PROVE  Counters(E, v) = Counters(D, v) /\ SlotsOf(E, v) = SlotsOf(D, v)
  <2>1. SlotsOf(E, v) = SlotsOf(D, v)
    BY <1>2 DEF SlotsOf
  <2>2. SlotsWith(E, v, "OUT") = SlotsWith(D, v, "OUT") /\ SlotsWith(E, v, "IN") = SlotsWith(D, v, "IN")
    BY <1>2 DEF SlotsWith
  <2> QED BY <2>1, <2>2 DEF Counters
<1> QED BY <1>3, <1>4, <1>5, <1>6, <1>7

LEMMA OneFewer ==
  ASSUME NEW S, NEW x \in S, IsFiniteSet(S)
  PROVE  Cardinality(S \ {x}) = Cardinality(S) - 1
BY FS_RemoveElement

LEMMA TakeAwayCounts ==
  ASSUME ControlType, CountersExact, NEW t \in Threads, NEW side \in Sides, TakeAway(t, side),
         Slot(t, side) \in SlotNames, Direction(side) \in dirs[Slot(t, side)]
  PROVE  CountersExact'
<1>1. PICK a \in Vertices, b \in Vertices : Slot(t, side) = <<a, b>>
  BY DEF SlotNames
<1> DEFINE d == Direction(side)
           left == dirs[<<a, b>>] \ {d}
<1>2. d \in {"OUT", "IN"}
  BY DEF Direction
<1>3. /\ dirs \in [SlotNames -> SUBSET {"OUT", "IN"}] /\ dirs' \in [SlotNames -> SUBSET {"OUT", "IN"}]
      /\ dirs'[<<a, b>>] = left
      /\ \A s \in SlotNames \ {<<a, b>>} : dirs'[s] = dirs[s]
      /\ d \in dirs[<<a, b>>]
  BY <1>1, TakeAwayDirs DEF ControlType
<1>4. /\ numEdges' = [numEdges EXCEPT ![a] = IF left = {} THEN @ - 1 ELSE @]
      /\ vertex' = [vertex EXCEPT ![a] = Counted(@, d, left)]
  BY <1>1, <1>3 DEF TakeAway
<1> HIDE DEF d
<1>5. /\ SlotsWith(dirs', a, d) = SlotsWith(dirs, a, d) \ {b} /\ b \in SlotsWith(dirs, a, d)
      /\ \A e \in {"OUT", "IN"} \ {d} : SlotsWith(dirs', a, e) = SlotsWith(dirs, a, e)
      /\ SlotsOf(dirs', a) = IF left = {} THEN SlotsOf(dirs, a) \ {b} ELSE SlotsOf(dirs, a)
      /\ b \in SlotsOf(dirs, a)
      /\ \A v \in Vertices \ {a} : /\ Counters(dirs', v) = Counters(dirs, v)
                                   /\ SlotsOf(dirs', v) = SlotsOf(dirs, v)
  <2>1. Loses(dirs, dirs', a, b, d)
    BY <1>3 DEF Loses
  <2>2. /\ SlotsWith(dirs', a, d) = SlotsWith(dirs, a, d) \ {b} /\ b \in SlotsWith(dirs, a, d)
        /\ \A e \in {"OUT", "IN"} \ {d} : SlotsWith(dirs', a, e) = SlotsWith(dirs, a, e)
        /\ SlotsOf(dirs', a) = IF dirs'[<<a, b>>] = {} THEN SlotsOf(dirs, a) \ {b} ELSE SlotsOf(dirs, a)
        /\ b \in SlotsOf(dirs, a)
        /\ \A v \in Vertices \ {a} : /\ Counters(dirs', v) = Counters(dirs, v)
                                     /\ SlotsOf(dirs', v) = SlotsOf(dirs, v)
    BY <1>2, <2>1, LostDirection
  <2> QED BY <1>3, <2>2
<1>6. Cardinality(SlotsOf(dirs', a)) = Cardinality(SlotsOf(dirs, a)) - (IF left = {} THEN 1 ELSE 0)
  BY <1>5, SlotSetsFinite, OneFewer
<1>7. Cardinality(SlotsWith(dirs', a, d)) = Cardinality(SlotsWith(dirs, a, d)) - 1
  BY <1>5, SlotSetsFinite, OneFewer
<1>8. Counters(dirs', a) = Counted(Counters(dirs, a), d, left)
  <2>1. /\ Cardinality(SlotsWith(dirs, a, "OUT")) \in Nat
        /\ Cardinality(SlotsWith(dirs, a, "IN")) \in Nat
    BY SlotSetsFinite
  <2>2. Cardinality(SlotsWith(dirs', a, "OUT"))
          = Cardinality(SlotsWith(dirs, a, "OUT")) - (IF d = "OUT" THEN 1 ELSE 0)
    <3>1. CASE d = "OUT"
      BY <1>7, <3>1
    <3>2. CASE d # "OUT"
      <4>1. "OUT" \in {"OUT", "IN"} \ {d}
        BY <3>2
      <4>2. SlotsWith(dirs', a, "OUT") = SlotsWith(dirs, a, "OUT")
        BY <1>5, <4>1
      <4> QED BY <2>1, <3>2, <4>2
    <3> QED BY <3>1, <3>2
  <2>3. Cardinality(SlotsWith(dirs', a, "IN"))
          = Cardinality(SlotsWith(dirs, a, "IN")) - (IF d = "IN" THEN 1 ELSE 0)
    <3>1. CASE d = "IN"
      BY <1>7, <3>1
    <3>2. CASE d # "IN"
      <4>1. "IN" \in {"OUT", "IN"} \ {d}
        BY <3>2
      <4>2. SlotsWith(dirs', a, "IN") = SlotsWith(dirs, a, "IN")
        BY <1>5, <4>1
      <4> QED BY <2>1, <3>2, <4>2
    <3> QED BY <3>1, <3>2
  <2> HIDE DEF left
  <2> QED BY <1>6, <2>2, <2>3 DEF Counters, Counted
<1>9. numEdges' = [v \in Vertices |-> Cardinality(SlotsOf(dirs', v))]
  <2>1. numEdges = [v \in Vertices |-> Cardinality(SlotsOf(dirs, v))]
    BY DEF CountersExact
  <2>2. Cardinality(SlotsOf(dirs, a)) \in Nat
    BY SlotSetsFinite
  <2>3. numEdges'[a] = Cardinality(SlotsOf(dirs', a))
    BY <1>4, <1>6, <2>1, <2>2
  <2>4. \A v \in Vertices \ {a} : numEdges'[v] = Cardinality(SlotsOf(dirs', v))
    BY <1>4, <1>5, <2>1
  <2>5. numEdges' = [v \in Vertices |-> numEdges'[v]]
    BY <1>4, <2>1
  <2> QED BY <2>3, <2>4, <2>5
<1>10. vertex' = [v \in Vertices |-> Counters(dirs', v)]
  <2>1. vertex = [v \in Vertices |-> Counters(dirs, v)]
    BY DEF CountersExact
  <2>2. vertex'[a] = Counters(dirs', a)
    BY <1>4, <1>8, <2>1
  <2>3. \A v \in Vertices \ {a} : vertex'[v] = Counters(dirs', v)
    BY <1>4, <1>5, <2>1
  <2>4. vertex' = [v \in Vertices |-> vertex'[v]]
    BY <1>4, <2>1
  <2> QED BY <2>2, <2>3, <2>4
<1> QED BY <1>9, <1>10 DEF CountersExact

LEMMA NextKeepsCounters ==
  ASSUME Inv, CountersExact, DOMAIN done = Threads, [Next]_vars
  PROVE  CountersExact' /\ (DOMAIN done = Threads)'
<1>1. ASSUME NEW t \in Threads, RemoveForward(t) PROVE CountersExact'
  <2>1. pc[t] = "remove_forward" /\ TakeAway(t, "forward")
    BY <1>1 DEF RemoveForward, Move
  <2>2. Slot(t, "forward") \in SlotNames /\ Direction("forward") \in dirs[Slot(t, "forward")]
    BY <2>1, Removing DEF ThreadOK, Direction, SideSlot
  <2> QED BY <2>1, <2>2, TakeAwayCounts DEF Sides, Inv
<1>2. ASSUME NEW t \in Threads, RemoveBack(t) PROVE CountersExact'
  <2>1. pc[t] = "remove_back" /\ TakeAway(t, "back")
    BY <1>2 DEF RemoveBack, Move
  <2>2. Slot(t, "back") \in SlotNames /\ Direction("back") \in dirs[Slot(t, "back")]
    BY <2>1, Removing DEF ThreadOK, Direction, SideSlot
  <2> QED BY <2>1, <2>2, TakeAwayCounts DEF Sides, Inv
<1>3. ASSUME UNCHANGED <<dirs, numEdges, vertex>> PROVE CountersExact'
  BY <1>3 DEF CountersExact
<1>4. CountersExact'
  <2>1. ASSUME NEW t \in Threads, Call(t) PROVE CountersExact'
    BY <2>1, <1>3 DEF Call
  <2>2. ASSUME NEW t \in Threads, Step(t) PROVE CountersExact'
    BY <2>2, <1>1, <1>2, <1>3
       DEF Step, Reverse, Seek, Missing, Lock, Check, Fail, FailFirst, UnlockSecond, UnlockFirst
  <2>3. CASE UNCHANGED vars
    BY <2>3, <1>3 DEF vars
  <2> QED BY <2>1, <2>2, <2>3 DEF Next, Finished
<1>5. ASSUME NEW t \in Threads, NEW r, Return(t, r) PROVE DOMAIN done' = Threads
  BY <1>5 DEF Return
<1>6. DOMAIN done' = Threads
  <2>1. ASSUME NEW t \in Threads, Call(t) PROVE DOMAIN done' = Threads
    BY <2>1 DEF Call
  <2>2. ASSUME NEW t \in Threads, Step(t) PROVE DOMAIN done' = Threads
    BY <2>2, <1>5
       DEF Step, Reverse, Seek, Missing, Lock, Check, Fail, FailFirst, RemoveForward, RemoveBack,
           UnlockSecond, UnlockFirst
  <2>3. CASE UNCHANGED vars
    BY <2>3 DEF vars
  <2> QED BY <2>1, <2>2, <2>3 DEF Next, Finished
<1> QED BY <1>4, <1>6

LEMMA InvCountsOK == ASSUME Inv, CountersExact, DOMAIN done = Threads PROVE CountsOK
<1>1. locked \subseteq SlotNames
  <2> SUFFICES ASSUME NEW s \in locked PROVE s \in SlotNames
    OBVIOUS
  <2>1. PICK t \in Threads : s \in Held(pc[t], frame[t])
    BY DEF Inv, LocksOK
  <2>2. pc[t] \in BusyLabels
    BY <2>1, NoneHeld DEF Inv, ControlType, BusyLabels, Labels
  <2> QED BY <2>1, <2>2, SideFacts, HeldSlots DEF Inv
<1>2. numEdges \in [Vertices -> Nat]
  BY SlotSetsFinite DEF CountersExact
<1>3. vertex \in [Vertices -> [outDegree : Nat, inDegree : Nat, degree : Nat]]
  <2>1. \A v \in Vertices : Counters(dirs, v) \in [outDegree : Nat, inDegree : Nat, degree : Nat]
    BY SlotSetsFinite DEF Counters
  <2> QED BY <2>1 DEF CountersExact
<1>4. TypeOK
  BY <1>1, <1>2, <1>3 DEF TypeOK, Inv, ControlType, Labels
<1>5. ASSUME \A t \in Threads : pc[t] = "idle" PROVE locked = {}
  BY <1>5, NoneHeld DEF Inv, LocksOK
<1>6. \A v \in Vertices : /\ vertex[v] = Counters(dirs, v)
                         /\ numEdges[v] = Cardinality(SlotsOf(dirs, v))
  BY DEF CountersExact
<1> QED BY <1>4, <1>5, <1>6 DEF CountsOK, ConsistentAtRest

\* Whatever removals run, the degree counters and numEdges equal what the slots
\* hold (so none ever falls below zero), and no weight word is left empty when
\* every removal has returned.
THEOREM CountsAreOK == Spec => []CountsOK
<1> DEFINE J == Inv /\ CountersExact /\ DOMAIN done = Threads
<1>1. Init => J
  BY InitInv DEF Init, CountersExact
<1>2. J /\ [Next]_vars => J'
  BY NextKeepsInv, NextKeepsCounters
<1>3. J => CountsOK
  BY InvCountsOK
<1> QED BY <1>1, <1>2, <1>3, PTL DEF Spec

-----------------------------------------------------------------------------
(* The implementation of AtomicRemoval.  Every action of a thread is a     *)
(* step of its abstract call or leaves it alone, and only RemoveForward    *)
(* changes the abstract graph.                                             *)

CallOf(l, f) ==
  IF l \in {"idle", "reverse"} THEN [phase |-> "idle"]
  ELSE IF l \in Found THEN [phase |-> "removed", edge |-> <<f.from, f.to>>, ret |-> 1]
  ELSE IF l \in {"fail", "fail_first", "missing"}
  THEN [phase |-> "removed", edge |-> <<f.from, f.to>>, ret |-> -1]
  ELSE [phase |-> "called", edge |-> <<f.from, f.to>>]

LEMMA CallsMove ==
  ASSUME NEW t \in Threads,
         \A w \in Threads \ {t} : pc'[w] = pc[w] /\ frame'[w] = frame[w]
  PROVE  /\ callBar[t] = CallOf(pc[t], frame[t])
         /\ callBar' = [callBar EXCEPT ![t] = CallOf(pc'[t], frame'[t])]
<1>1. \A w \in Threads : /\ callBar[w] = CallOf(pc[w], frame[w])
                         /\ callBar'[w] = CallOf(pc'[w], frame'[w])
  BY DEF callBar, CallOf
<1>2. callBar' = [w \in Threads |-> callBar'[w]] /\ callBar = [w \in Threads |-> callBar[w]]
  BY DEF callBar
<1> QED BY <1>1, <1>2

(* A thread that stays where it is in its abstract call.                   *)
LEMMA StutterStep ==
  ASSUME NEW t \in Threads, graphBar' = graphBar,
         \A w \in Threads \ {t} : pc'[w] = pc[w] /\ frame'[w] = frame[w],
         CallOf(pc'[t], frame'[t]) = CallOf(pc[t], frame[t])
  PROVE  UNCHANGED Abstract!vars
<1>1. callBar' = callBar
  <2>1. callBar' = [callBar EXCEPT ![t] = callBar[t]]
    BY CallsMove
  <2>2. callBar = [w \in Threads |-> callBar[w]]
    BY DEF callBar
  <2> QED BY <2>1, <2>2
<1> QED BY <1>1 DEF Abstract!vars

LEMMA SameGraph == ASSUME UNCHANGED dirs PROVE graphBar' = graphBar
BY DEF graphBar

LEMMA InitMaps == ASSUME Init PROVE Abstract!Init
<1>1. PICK g \in Graphs : dirs = [s \in SlotNames |-> EndsIn(g, s[1], s[2])]
  BY DEF Init
<1>2. graphBar = g.out \cap g.in
  <2>1. ASSUME NEW u \in Vertices, NEW v \in Vertices
        PROVE  <<u, v>> \in graphBar <=> <<u, v>> \in g.out \cap g.in
    <3>1. <<u, v>> \in SlotNames /\ <<v, u>> \in SlotNames
      BY DEF SlotNames
    <3>2. dirs[<<u, v>>] = EndsIn(g, u, v) /\ dirs[<<v, u>>] = EndsIn(g, v, u)
      BY <1>1, <3>1
    <3> QED BY <3>1, <3>2 DEF graphBar, EndsIn
  <2>2. graphBar \subseteq SlotNames /\ g.out \subseteq SlotNames
    BY RemovalAssumption DEF graphBar, SlotNames
  <2> QED BY <2>1, <2>2 DEF SlotNames
<1>3. callBar = [t \in Threads |-> Abstract!Idle]
  BY DEF Init, callBar, Abstract!Idle
<1> QED BY <1>2, <1>3 DEF Abstract!Init

LEMMA StartMaps ==
  ASSUME Inv, NEW t \in Threads, pc[t] \in {"idle", "reverse"}, UNCHANGED dirs,
         NEW op, NEW from \in Vertices, NEW to \in Vertices, NEW rtn,
         Start(t, op, from, to, rtn)
  PROVE  Abstract!Invoke(t)
<1>1. /\ pc'[t] = "seek" /\ frame'[t].from = from /\ frame'[t].to = to
      /\ \A w \in Threads \ {t} : pc'[w] = pc[w] /\ frame'[w] = frame[w]
  BY DEF Start, Goto, Inv, ControlType
<1>2. CallOf(pc'[t], frame'[t]) = [phase |-> "called", edge |-> <<from, to>>]
  BY <1>1 DEF CallOf, Found
<1>3. CallOf(pc[t], frame[t]) = Abstract!Idle
  BY DEF CallOf, Abstract!Idle
<1> QED BY <1>1, <1>2, <1>3, CallsMove, SameGraph DEF Abstract!Invoke

LEMMA ReturnMaps ==
  ASSUME Inv, NEW t \in Threads, pc[t] \in {"missing", "fail_first", "unlock_first"},
         UNCHANGED dirs, NEW r, Return(t, r)
  PROVE  Abstract!Return(t)
<1>1. /\ pc'[t] \in {"idle", "reverse"}
      /\ \A w \in Threads \ {t} : pc'[w] = pc[w] /\ frame'[w] = frame[w]
  BY DEF Return, Goto, Inv, ControlType
<1>2. CallOf(pc'[t], frame'[t]) = Abstract!Idle
  BY <1>1 DEF CallOf, Abstract!Idle
<1>3. CallOf(pc[t], frame[t]).phase = "removed"
  BY DEF CallOf, Found
<1> QED BY <1>1, <1>2, <1>3, CallsMove, SameGraph DEF Abstract!Return

(* A search that does not find its side: the edge is not in the graph.     *)
LEMMA NotFoundMaps ==
  ASSUME Inv, NEW t \in Threads, pc[t] \in {"seek", "check"}, UNCHANGED <<dirs, frame>>,
         NEW l \in {"missing", "fail_first", "fail"}, pc' = [pc EXCEPT ![t] = l],
         ~Present(t, frame[t].side)
  PROVE  Abstract!Remove(t)
<1> DEFINE f == frame[t]
           e == <<f.from, f.to>>
<1>1. /\ pc'[t] = l /\ frame'[t] = f
      /\ \A w \in Threads \ {t} : pc'[w] = pc[w] /\ frame'[w] = frame[w]
  BY DEF Inv, ControlType
<1>2. f.from \in Vertices /\ f.to \in Vertices /\ f.side \in Sides
  BY DEF Inv, ControlType, FrameType, BusyLabels, Labels
<1>3. e \notin graphBar
  BY <1>2 DEF Present, Slot, Direction, graphBar, Sides
<1>4. CallOf(pc[t], f) = [phase |-> "called", edge |-> e]
  BY DEF CallOf, Found
<1>5. CallOf(pc'[t], frame'[t]) = [phase |-> "removed", edge |-> e, ret |-> -1]
  BY <1>1 DEF CallOf, Found
<1>6. graphBar' = graphBar \ {e}
  BY <1>3, SameGraph
<1> HIDE DEF e
<1> QED BY <1>1, <1>3, <1>4, <1>5, <1>6, CallsMove DEF Abstract!Remove

LEMMA RemoveForwardMaps ==
  ASSUME Inv, NEW t \in Threads, RemoveForward(t)
  PROVE  Abstract!Remove(t)
<1> DEFINE f == frame[t]
           s1 == <<f.from, f.to>>
           s2 == <<f.to, f.from>>
<1>1. /\ pc[t] = "remove_forward" /\ UNCHANGED frame
      /\ pc' = [pc EXCEPT ![t] = "remove_back"] /\ TakeAway(t, "forward")
  BY DEF RemoveForward, Move, Goto
<1>2. /\ pc'[t] = "remove_back" /\ frame'[t] = f
      /\ \A w \in Threads \ {t} : pc'[w] = pc[w] /\ frame'[w] = frame[w]
  BY <1>1 DEF Inv, ControlType
<1>3. /\ Slot(t, "forward") = s1 /\ s1 \in SlotNames /\ s2 \in SlotNames /\ s1 # s2
      /\ ThreadOK("remove_forward", f, dirs)
  BY <1>1, Removing
<1>4. /\ dirs' \in [SlotNames -> SUBSET {"OUT", "IN"}]
      /\ dirs'[s1] = dirs[s1] \ {"OUT"}
      /\ \A s \in SlotNames \ {s1} : dirs'[s] = dirs[s]
  BY <1>1, <1>3, TakeAwayDirs DEF Sides, Direction, Inv
<1>5. s1 \in graphBar
  BY <1>3 DEF ThreadOK, SideSlot, graphBar
<1>6. graphBar' = graphBar \ {s1}
  <2>1. ASSUME NEW s \in SlotNames \ {s1} PROVE s \in graphBar' <=> s \in graphBar
    <3>1. <<s[2], s[1]>> \in SlotNames
      BY DEF SlotNames
    <3>2. "IN" \in dirs'[<<s[2], s[1]>>] <=> "IN" \in dirs[<<s[2], s[1]>>]
      BY <1>4, <3>1
    <3> QED BY <1>4, <3>2 DEF graphBar
  <2>2. s1 \notin graphBar'
    BY <1>4 DEF graphBar
  <2>3. graphBar \subseteq SlotNames /\ graphBar' \subseteq SlotNames
    BY DEF graphBar
  <2> QED BY <2>1, <2>2, <2>3
<1>7. CallOf(pc[t], f) = [phase |-> "called", edge |-> s1]
  BY <1>1 DEF CallOf, Found
<1>8. CallOf(pc'[t], frame'[t]) = [phase |-> "removed", edge |-> s1, ret |-> 1]
  BY <1>2 DEF CallOf, Found
<1> HIDE DEF s1
<1> QED BY <1>2, <1>5, <1>6, <1>7, <1>8, CallsMove DEF Abstract!Remove

(* The IN end of an edge whose OUT end is gone.                            *)
LEMMA RemoveBackMaps ==
  ASSUME Inv, NEW t \in Threads, RemoveBack(t)
  PROVE  UNCHANGED Abstract!vars
<1> DEFINE f == frame[t]
           s1 == <<f.from, f.to>>
           s2 == <<f.to, f.from>>
<1>1. /\ pc[t] = "remove_back" /\ UNCHANGED frame
      /\ pc' = [pc EXCEPT ![t] = "unlock_second"] /\ TakeAway(t, "back")
  BY DEF RemoveBack, Move, Goto
<1>2. /\ pc'[t] = "unlock_second" /\ frame'[t] = f
      /\ \A w \in Threads \ {t} : pc'[w] = pc[w] /\ frame'[w] = frame[w]
  BY <1>1 DEF Inv, ControlType
<1>3. /\ Slot(t, "back") = s2 /\ s1 \in SlotNames /\ s2 \in SlotNames /\ s1 # s2
      /\ ThreadOK("remove_back", f, dirs)
  BY <1>1, Removing
<1>4. /\ dirs' \in [SlotNames -> SUBSET {"OUT", "IN"}]
      /\ dirs'[s2] = dirs[s2] \ {"IN"}
      /\ \A s \in SlotNames \ {s2} : dirs'[s] = dirs[s]
  BY <1>1, <1>3, TakeAwayDirs DEF Sides, Direction, Inv
<1>5. "OUT" \notin dirs[s1] /\ "OUT" \notin dirs'[s1]
  BY <1>3, <1>4 DEF ThreadOK, SideSlot
<1>6. graphBar' = graphBar
  <2>1. ASSUME NEW s \in SlotNames \ {s1} PROVE s \in graphBar' <=> s \in graphBar
    <3>1. <<s[2], s[1]>> \in SlotNames /\ <<s[2], s[1]>> # s2
      BY DEF SlotNames
    <3>2. dirs'[<<s[2], s[1]>>] = dirs[<<s[2], s[1]>>]
      BY <1>4, <3>1
    <3>3. "OUT" \in dirs'[s] <=> "OUT" \in dirs[s]
      BY <1>4
    <3> QED BY <3>2, <3>3 DEF graphBar
  <2>2. s1 \notin graphBar' /\ s1 \notin graphBar
    BY <1>5 DEF graphBar
  <2>3. graphBar \subseteq SlotNames /\ graphBar' \subseteq SlotNames
    BY DEF graphBar
  <2> QED BY <2>1, <2>2, <2>3
<1>7. CallOf(pc'[t], frame'[t]) = CallOf(pc[t], frame[t])
  BY <1>1, <1>2 DEF CallOf, Found
<1> QED BY <1>2, <1>6, <1>7, StutterStep

(* A step within a removal that changes neither the edge nor the outcome.  *)
LEMMA WithinMaps ==
  ASSUME Inv, NEW t \in Threads, UNCHANGED dirs, NEW l, NEW f,
         pc' = [pc EXCEPT ![t] = l], frame' = [frame EXCEPT ![t] = f],
         CallOf(l, f) = CallOf(pc[t], frame[t])
  PROVE  UNCHANGED Abstract!vars
<1>1. /\ pc'[t] = l /\ frame'[t] = f
      /\ \A w \in Threads \ {t} : pc'[w] = pc[w] /\ frame'[w] = frame[w]
  BY DEF Inv, ControlType
<1> QED BY <1>1, StutterStep, SameGraph

LEMMA StepMaps ==
  ASSUME Inv, NEW t \in Threads, Call(t) \/ Step(t)
  PROVE  Abstract!Next \/ UNCHANGED Abstract!vars
<1>0. frame' = frame => frame' = [frame EXCEPT ![t] = frame[t]]
  BY SameFrame DEF Inv
<1>1. ASSUME Call(t) PROVE Abstract!Invoke(t)
  <2>1. PICK op \in Ops : Start(t, op, op.from, op.to, 0)
    BY <1>1 DEF Call
  <2>2. op.from \in Vertices /\ op.to \in Vertices
    BY RemovalAssumption
  <2> QED BY <1>1, <2>1, <2>2, StartMaps DEF Call
<1>2. ASSUME Reverse(t) PROVE Abstract!Invoke(t)
  <2> DEFINE op == frame[t].op
  <2>1. op \in Ops
    BY DEF Inv, ControlType, FrameType
  <2>2. op.from \in Vertices /\ op.to \in Vertices
    BY <2>1, RemovalAssumption
  <2>3. Start(t, op, op.to, op.from, frame[t].rtn) /\ pc[t] = "reverse" /\ UNCHANGED dirs
    BY <1>2 DEF Reverse
  <2> HIDE DEF op
  <2> QED BY <2>2, <2>3, StartMaps
<1>3. ASSUME Missing(t) \/ FailFirst(t) \/ UnlockFirst(t) PROVE Abstract!Return(t)
  BY <1>3, ReturnMaps DEF Missing, FailFirst, UnlockFirst
<1>4. ASSUME Seek(t) PROVE Abstract!Remove(t) \/ UNCHANGED Abstract!vars
  <2>1. pc[t] = "seek" /\ UNCHANGED <<dirs, frame>>
    BY <1>4 DEF Seek, Move
  <2>2. CASE Present(t, frame[t].side)
    <3>1. pc' = [pc EXCEPT ![t] = "lock"]
      BY <1>4, <2>2 DEF Seek, Move, Goto
    <3>2. CallOf("lock", frame[t]) = CallOf(pc[t], frame[t])
      BY <2>1 DEF CallOf, Found
    <3> QED BY <1>0, <2>1, <3>1, <3>2, WithinMaps
  <2>3. CASE ~Present(t, frame[t].side)
    <3>1. PICK l \in {"missing", "fail_first", "fail"} : pc' = [pc EXCEPT ![t] = l]
      BY <1>4, <2>3 DEF Seek, Move, Goto
    <3> QED BY <2>1, <2>3, <3>1, NotFoundMaps
  <2> QED BY <2>2, <2>3
<1>5. ASSUME Lock(t) PROVE UNCHANGED Abstract!vars
  <2>1. pc[t] = "lock" /\ pc' = [pc EXCEPT ![t] = "check"] /\ UNCHANGED <<dirs, frame>>
    BY <1>5 DEF Lock, Move, Goto
  <2>2. CallOf("check", frame[t]) = CallOf(pc[t], frame[t])
    BY <2>1 DEF CallOf, Found
  <2> QED BY <1>0, <2>1, <2>2, WithinMaps
<1>6. ASSUME Check(t) PROVE Abstract!Remove(t) \/ UNCHANGED Abstract!vars
  <2>1. pc[t] = "check" /\ UNCHANGED dirs
    BY <1>6 DEF Check
  <2>2. CASE Present(t, frame[t].side) /\ OnFirst(t)
    <3> DEFINE g == [frame[t] EXCEPT !.side = Other(@)]
    <3>1. pc' = [pc EXCEPT ![t] = "seek"] /\ frame' = [frame EXCEPT ![t] = g]
      BY <1>6, <2>2 DEF Check, Goto, Inv, ControlType
    <3>2. frame[t] \in FrameType
      BY DEF Inv, ControlType
    <3>3. g.from = frame[t].from /\ g.to = frame[t].to
      BY <3>2 DEF FrameType
    <3> HIDE DEF g
    <3>4. CallOf("seek", g) = CallOf(pc[t], frame[t])
      BY <2>1, <3>3 DEF CallOf, Found
    <3> QED BY <2>1, <3>1, <3>4, WithinMaps
  <2>3. CASE Present(t, frame[t].side) /\ ~OnFirst(t)
    <3>1. pc' = [pc EXCEPT ![t] = "remove_forward"] /\ UNCHANGED frame
      BY <1>6, <2>3 DEF Check, Goto
    <3>2. CallOf("remove_forward", frame[t]) = CallOf(pc[t], frame[t])
      BY <2>1 DEF CallOf, Found
    <3> QED BY <1>0, <2>1, <3>1, <3>2, WithinMaps
  <2>4. CASE ~Present(t, frame[t].side)
    <3>1. pc' = [pc EXCEPT ![t] = "fail"] /\ UNCHANGED frame
      BY <1>6, <2>4 DEF Check, Goto
    <3> QED BY <2>1, <2>4, <3>1, NotFoundMaps
  <2> QED BY <2>2, <2>3, <2>4
<1>7. ASSUME Fail(t) PROVE UNCHANGED Abstract!vars
  <2>1. pc[t] = "fail" /\ UNCHANGED <<dirs, frame>>
    BY <1>7 DEF Fail, Move
  <2>2. PICK l \in {"missing", "fail_first"} : pc' = [pc EXCEPT ![t] = l]
    BY <1>7 DEF Fail, Move, Goto
  <2>3. CallOf(l, frame[t]) = CallOf(pc[t], frame[t])
    BY <2>1 DEF CallOf, Found
  <2> QED BY <1>0, <2>1, <2>2, <2>3, WithinMaps
<1>8. ASSUME UnlockSecond(t) PROVE UNCHANGED Abstract!vars
  <2>1. /\ pc[t] = "unlock_second" /\ UNCHANGED <<dirs, frame>>
        /\ pc' = [pc EXCEPT ![t] = "unlock_first"]
    BY <1>8 DEF UnlockSecond, Move, Goto
  <2>2. CallOf("unlock_first", frame[t]) = CallOf(pc[t], frame[t])
    BY <2>1 DEF CallOf, Found
  <2> QED BY <1>0, <2>1, <2>2, WithinMaps
<1>9. \/ \E w \in Threads : Abstract!Invoke(w) \/ Abstract!Remove(w) \/ Abstract!Return(w)
      \/ UNCHANGED Abstract!vars
  BY <1>1, <1>2, <1>3, <1>4, <1>5, <1>6, <1>7, <1>8, RemoveForwardMaps, RemoveBackMaps DEF Step
<1> QED BY <1>9 DEF Abstract!Next

\* Removals are atomic: whatever threads remove at once, every behaviour is one
\* in which each edge goes at once, to one of the threads that ask for it, and
\* an edge with one end only is not found (the safety part of
\* ImplementsAtomicRemoval).
THEOREM RemovalsAreAtomic == Spec => Abstract!Safety
<1>1. Init => Inv /\ Abstract!Init
  BY InitInv, InitMaps
<1>2. Inv /\ [Next]_vars => Inv'
  BY NextKeepsInv
<1>3. Inv /\ [Next]_vars => [Abstract!Next]_Abstract!vars
  <2>1. ASSUME Inv, Next PROVE Abstract!Next \/ UNCHANGED Abstract!vars
    <3>1. CASE Finished
      BY <3>1 DEF Finished, vars, Abstract!vars, graphBar, callBar
    <3>2. CASE \E t \in Threads : Call(t) \/ Step(t)
      BY <2>1, <3>2, StepMaps
    <3> QED BY <2>1, <3>1, <3>2 DEF Next
  <2>2. UNCHANGED vars => UNCHANGED Abstract!vars
    BY DEF vars, Abstract!vars, graphBar, callBar
  <2> QED BY <2>1, <2>2
<1> QED BY <1>1, <1>2, <1>3, PTL DEF Spec, Abstract!Safety
=============================================================================
