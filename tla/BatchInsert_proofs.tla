------------------------- MODULE BatchInsert_proofs -------------------------
(***************************************************************************)
(* Theorems about BatchInsert for any number of threads, any block size,   *)
(* any batch and any marks in it, and lists as earlier phases left them,   *)
(* half edges and two slots of a mixed edge included.                      *)
(*                                                                         *)
(* An update is pure if the marks of its edge are not mixed.  Updates that *)
(* are not take slots and blocks as well, and only these of them matter.   *)
(*                                                                         *)
(* No neighbour gets two slots because of what a thread in its second walk *)
(* knows: the slots it has passed are filled with other neighbours than    *)
(* those it still wants, and where one of these is, every slot before it   *)
(* is filled.  So a free slot it meets is before none of them.             *)
(*                                                                         *)
(* What holds of a thread is stated of its label l, its variables f, the   *)
(* pending positions P, the neighbours n of the positions and the lists g, *)
(* so that a step can be followed from one state to the next.              *)
(*                                                                         *)
(* A second invariant counts: each pass makes one end of each update of a  *)
(* half, and the directions and weights of the slots are those of the ends *)
(* made so far.  It needs of the first that no neighbour has two slots.    *)
(* What is told of an edge is settled where its last end is made: whoever  *)
(* puts it into a slot nobody uses is the only one told.                   *)
(***************************************************************************)
EXTENDS BatchInsert, WellFoundedInduction, FiniteSetTheorems, TLAPS

-----------------------------------------------------------------------------
(* The least and the greatest of a set of numbers.                         *)

LEMMA MinOf ==
  ASSUME NEW A \in SUBSET Nat, A # {}
  PROVE  Min(A) \in A /\ \A x \in A : Min(A) <= x
<1>1. \E x \in A : \A y \in A : ~(<<y, x>> \in OpToRel(<, Nat))
  BY NatLessThanWellFounded, WFMin
<1>2. PICK x \in A : \A y \in A : <<y, x>> \notin OpToRel(<, Nat)
  BY <1>1
<1>3. \A y \in A : ~(y < x)
  BY <1>2, Zenon DEF OpToRel
<1>4. \E z \in A : \A y \in A : z <= y
  BY <1>3
<1> QED BY <1>4 DEF Min

LEMMA MaxOf ==
  ASSUME NEW A, NEW n \in Nat, A \subseteq 0 .. n, A # {}
  PROVE  Max(A) \in A /\ \A x \in A : x <= Max(A)
<1> DEFINE T == {n - x : x \in A}
<1>1. T \in SUBSET Nat /\ T # {}
  <2>1. \A x \in A : n - x \in Nat
    OBVIOUS
  <2>2. \E x : x \in T
    OBVIOUS
  <2> QED BY <2>1, <2>2
<1>2. Min(T) \in T /\ \A y \in T : Min(T) <= y
  BY <1>1, MinOf
<1>3. PICK x \in A : Min(T) = n - x
  BY <1>2
<1>4. \A y \in A : x >= y
  <2> SUFFICES ASSUME NEW y \in A PROVE x >= y
    OBVIOUS
  <2>1. n - x <= n - y
    BY <1>2, <1>3
  <2> QED BY <2>1
<1>5. \E z \in A : \A y \in A : z >= y
  BY <1>4
<1> QED BY <1>5 DEF Max

-----------------------------------------------------------------------------
(* The invariant.                                                          *)

Labels == {"idle", "find_block", "find", "seek_block", "seek", "claim", "grow", "update"}

FrameType ==
  [v : Nat, last : Nat, first : Nat, tmp : Nat, k : Nat, endk : Nat, u : Nat,
   res : {0, ADDED, UPDATED}, mode : Operations, scan : {"find", "seek"}]

\* The lists: for each vertex a sequence of blocks, each with its slots.
ListType(g) ==
  /\ DOMAIN g = Vertices
  /\ \A v \in Vertices :
       /\ g[v] \in Seq({g[v][b] : b \in DOMAIN g[v]})
       /\ \A b \in DOMAIN g[v] : DOMAIN g[v][b].slot = 1..EBSize
       /\ BlocksOK(g, v)

Codes == {-1, 0, 1, ADDED, UPDATED}

Types ==
  /\ input \in Cases /\ pass \in 0..Len(Passes)
  /\ order \in Seq(Ids)
  /\ result \in [Ids -> Codes]
  /\ ListType(list)
  /\ pc \in [Threads -> Labels] /\ frame \in [Threads -> FrameType]
  /\ \A t \in Threads : pc[t] = "idle" => frame[t] = Idle

\* Each position of the pass: its vertex, its neighbour, and whether it is pending.
Src == [i \in DOMAIN order |-> Source(order[i])]
Nbr == [i \in DOMAIN order |-> Neighbor(order[i])]
Pend == {i \in DOMAIN order : result[order[i]] = PENDING}

\* The updates of one vertex, and those of one edge, are in a row.
InARow(s, n) ==
  \A i, j, k \in DOMAIN s :
    i < j /\ j < k /\ s[i] = s[k] => s[j] = s[i] /\ (n[i] = n[k] => n[j] = n[i])

OrderOK ==
  /\ pass = 0 => order = <<>> /\ todo = {}
  /\ pass > 0 => \A i \in DOMAIN order : order[i] \in Half(Passes[pass].half)
  /\ \A i, j \in DOMAIN order : order[i] = order[j] => i = j
  /\ InARow(Src, Nbr)

\* The positions of a thread's range.
Span(l, f) == IF l = "idle" THEN {} ELSE f.first..f.last

IsRange(s, first, last) ==
  /\ first \in DOMAIN s /\ last \in DOMAIN s /\ first <= last
  /\ \A i \in first..last : s[i] = s[first]

\* The ranges nobody has taken and those of the threads are apart.
RangesOK ==
  /\ \A r \in todo : IsRange(Src, r[1], r[2])
  /\ \A r, s \in todo : r # s => (r[1]..r[2]) \cap (s[1]..s[2]) = {}
  /\ \A t \in Threads : pc[t] # "idle" =>
       /\ IsRange(Src, frame[t].first, frame[t].last) /\ frame[t].v = Src[frame[t].first]
       /\ \A r \in todo : (r[1]..r[2]) \cap Span(pc[t], frame[t]) = {}
  /\ \A t, u \in Threads : t # u => Span(pc[t], frame[t]) \cap Span(pc[u], frame[u]) = {}

\* What is pending is in one of them.
Covered ==
  \A i \in Pend : \/ \E r \in todo : i \in r[1]..r[2]
                  \/ \E t \in Threads : i \in Span(pc[t], frame[t])

\* An update of an edge whose marks are not mixed, and the pending positions of
\* such updates.
Pure(x) == Unmixed(Upd(x).src, Upd(x).dst)
Due == {i \in Pend : Pure(order[i])}

\* Marked updates stay so; the others are pending in a range nobody has taken,
\* and so are those of the half whose turn has not come.
ResultsOK ==
  /\ \A x \in Ids : Pure(x) => (result[x] \in {-1, 1} <=> Upd(x).result # 0)
  /\ \A r \in todo : \A i \in r[1]..r[2] :
       Pure(order[i]) => (i \in Pend <=> Upd(order[i]).result = 0)
  /\ \A x \in Ids : /\ Pure(x) /\ Upd(x).result = 0
                    /\ pass = 0 \/ (pass \in {1, 2, 5, 6} /\ x \in Half("down"))
                    => result[x] = PENDING

\* A thread has still to find a place for the updates of neighbour m.
Wants(l, f, P, n, m) ==
  \E i \in Span(l, f) \cap P : n[i] = m /\ (l = "update" => m # n[f.u])

\* The updates of a neighbour are pending together, but for those being made.
Uniform(l, f, P, n) ==
  \A i, j \in Span(l, f) :
    n[i] = n[j] /\ (l = "update" => n[i] # n[f.u]) => (i \in P <=> j \in P)

Lt(p, q) == p[1] < q[1] \/ (p[1] = q[1] /\ p[2] < q[2])

Nb(g, v, p) == At(g, v, p).neighbor

FilledBefore(g, v, p) == \A q \in Places(g, v) : Lt(q, p) => Nb(g, v, q) # Blank

InFind(l, f) == l \in {"find_block", "find"} \/ (l = "update" /\ f.scan = "find")

InSeek(l, f) == \/ l \in {"seek_block", "seek", "claim", "grow"}
                \/ l = "update" /\ f.scan = "seek"

Here(f) == <<f.tmp, f.k>>

\* The places a walk has passed.  The first walk leaves out what was free
\* when it came to the block.
Behind(l, f, p) ==
  IF l \in {"find_block", "seek_block", "grow"} THEN p[1] <= f.tmp ELSE Lt(p, Here(f))

FindBehind(l, f, p) ==
  Behind(l, f, p) \/ (l # "find_block" /\ p[1] = f.tmp /\ p[2] > f.endk)

FindOK(l, f, P, n, g) ==
  \A p \in Places(g, f.v) :
    FindBehind(l, f, p) /\ Wants(l, f, P, n, Nb(g, f.v, p)) => FilledBefore(g, f.v, p)

SeekOK(l, f, P, n, g) ==
  \A p \in Places(g, f.v) :
    /\ Behind(l, f, p) => Nb(g, f.v, p) # Blank /\ ~Wants(l, f, P, n, Nb(g, f.v, p))
    /\ Wants(l, f, P, n, Nb(g, f.v, p)) => FilledBefore(g, f.v, p)

CursorOK(l, f, g) ==
  /\ f.tmp <= Len(g[f.v]) /\ f.endk <= EBSize
  /\ l = "find_block" => f.tmp < Len(g[f.v])
  /\ l \in {"find", "seek"} => f.tmp >= 1 /\ f.k \in 1..EBSize + 1
  /\ l \in {"claim", "update"} => f.tmp >= 1 /\ f.k \in 1..EBSize

\* The slot in hand is that of the updates being made.
UpdateOK(l, f, P, n, g) ==
  l = "update" =>
    /\ f.u \in Span(l, f)
    /\ Nb(g, f.v, Here(f)) = n[f.u]
    /\ \A i \in Span(l, f) : n[i] = n[f.u] => (i \in P <=> i >= f.u /\ f.u \in P)
    /\ f.res # 0

ThreadOK(l, f, P, n, g) ==
  l # "idle" =>
    /\ CursorOK(l, f, g) /\ Uniform(l, f, P, n) /\ UpdateOK(l, f, P, n, g)
    /\ InFind(l, f) => FindOK(l, f, P, n, g)
    /\ InSeek(l, f) => SeekOK(l, f, P, n, g)

\* A thread in its second walk has an update to place, of any kind; one that has
\* a slot in hand has a pending update for it, unless the marks are mixed.
WorkOK(l, f, P) ==
  /\ l \in {"seek", "claim", "grow"} => Span(l, f) \cap P # {}
  /\ l = "update" /\ Pure(order[f.u]) => f.u \in P

Inv == /\ Types /\ OrderOK /\ RangesOK /\ Covered /\ ResultsOK
       /\ UniqueNeighbor
       /\ \A t \in Threads : ThreadOK(pc[t], frame[t], Due, Nbr, list)
       /\ \A t \in Threads : WorkOK(pc[t], frame[t], Pend)

-----------------------------------------------------------------------------
(* The lists.                                                              *)

LEMMA Sizes == EBSize \in Nat /\ EBSize >= 1 /\ Vertices \subseteq Nat /\ Blank \notin Vertices
BY BatchInsertAssumption DEF Blank

LEMMA ListFacts ==
  ASSUME NEW g, ListType(g), NEW v \in Vertices
  PROVE  /\ Len(g[v]) \in Nat /\ DOMAIN g[v] = 1..Len(g[v])
         /\ \A b \in DOMAIN g[v] : /\ DOMAIN g[v][b].slot = 1..EBSize
                                   /\ g[v][b].high \in 0..EBSize
         /\ BlocksOK(g, v)
         /\ Places(g, v) = (1..Len(g[v])) \X (1..EBSize)
         /\ \A p \in Places(g, v) : p[2] > g[v][p[1]].high => Nb(g, v, p) = Blank
<1>1. g[v] \in Seq({g[v][b] : b \in DOMAIN g[v]}) /\ BlocksOK(g, v)
      /\ \A b \in DOMAIN g[v] : DOMAIN g[v][b].slot = 1..EBSize
  BY DEF ListType
<1>2. Len(g[v]) \in Nat /\ DOMAIN g[v] = 1..Len(g[v])
  BY <1>1
<1>3. \A b \in DOMAIN g[v] : g[v][b].high \in 0..EBSize
  BY <1>1 DEF BlocksOK
<1>4. Places(g, v) = (1..Len(g[v])) \X (1..EBSize)
  BY <1>2 DEF Places
<1>5. \A p \in Places(g, v) : p[2] > g[v][p[1]].high => Nb(g, v, p) = Blank
  BY <1>1 DEF Places, BlocksOK, Nb, At
<1> QED BY <1>1, <1>2, <1>3, <1>4, <1>5

\* A sequence is one over its own elements.
LEMMA OwnElements ==
  ASSUME NEW A, NEW s \in Seq(A)
  PROVE  s \in Seq({s[i] : i \in DOMAIN s})
<1>1. Len(s) \in Nat /\ DOMAIN s = 1..Len(s) /\ s = [i \in 1..Len(s) |-> s[i]]
  OBVIOUS
<1> QED BY <1>1

\* The lists g have become the lists h: what was filled still is, and what
\* has been filled had no free slot before it.
Fills(g, h, v) ==
  /\ Len(g[v]) <= Len(h[v])
  /\ \A p \in Places(g, v) : Nb(g, v, p) # Blank => Nb(h, v, p) = Nb(g, v, p)
  /\ \A p \in Places(h, v) :
       \/ Nb(h, v, p) = Blank
       \/ p \in Places(g, v) /\ Nb(g, v, p) # Blank
       \/ FilledBefore(h, v, p)

LEMMA FillsItself == ASSUME NEW g, ListType(g), NEW v \in Vertices PROVE Fills(g, g, v)
BY ListFacts DEF Fills

LEMMA FillsFilled ==
  ASSUME NEW g, ListType(g), NEW h, ListType(h), NEW v \in Vertices, Fills(g, h, v),
         NEW p \in Places(g, v), FilledBefore(g, v, p)
  PROVE  FilledBefore(h, v, p)
<1> SUFFICES ASSUME NEW q \in Places(h, v), Lt(q, p) PROVE Nb(h, v, q) # Blank
  BY DEF FilledBefore
<1>1. q \in Places(g, v)
  BY ListFacts, Sizes DEF Lt
<1> QED BY <1>1 DEF FilledBefore, Fills

\* Of a slot in use in h that was in use in g, or has no free slot before it.
LEMMA FillsWanted ==
  ASSUME NEW g, ListType(g), NEW h, ListType(h), NEW v \in Vertices, Fills(g, h, v),
         NEW p \in Places(h, v), Nb(h, v, p) # Blank, ~FilledBefore(h, v, p)
  PROVE  p \in Places(g, v) /\ Nb(g, v, p) = Nb(h, v, p) /\ ~FilledBefore(g, v, p)
<1>1. p \in Places(g, v) /\ Nb(g, v, p) # Blank /\ Nb(h, v, p) = Nb(g, v, p)
  BY DEF Fills
<1> QED BY <1>1, FillsFilled

-----------------------------------------------------------------------------
(* A thread that takes no step: what it knows outlasts those of others.    *)

\* What is known of thread variables f whose range is that of a thread.
FrameOK(l, f, n) ==
  /\ l \in Labels /\ f \in FrameType /\ f.v \in Vertices
  /\ \A i \in Span(l, f) : i \in Nat /\ n[i] \in Vertices

LEMMA WantedInUse ==
  ASSUME NEW l, NEW f, NEW P, NEW n, FrameOK(l, f, n), NEW m, Wants(l, f, P, n, m)
  PROVE  m \in Vertices /\ m # Blank
BY Sizes DEF FrameOK, Wants

LEMMA OthersKeep ==
  ASSUME NEW l, NEW f, NEW n, FrameOK(l, f, n), NEW P, NEW Q,
         \A i \in Span(l, f) : i \in P <=> i \in Q,
         NEW g, ListType(g), NEW h, ListType(h), Fills(g, h, f.v),
         ThreadOK(l, f, P, n, g), l # "idle"
  PROVE  ThreadOK(l, f, Q, n, h)
<1>1. f.v \in Vertices /\ f.tmp \in Nat /\ f.k \in Nat /\ f.endk \in Nat
  BY DEF FrameOK, FrameType
<1>2. /\ Len(g[f.v]) \in Nat /\ Len(h[f.v]) \in Nat /\ Len(g[f.v]) <= Len(h[f.v])
      /\ Places(g, f.v) = (1..Len(g[f.v])) \X (1..EBSize)
      /\ Places(h, f.v) = (1..Len(h[f.v])) \X (1..EBSize)
  BY <1>1, ListFacts DEF Fills
<1>3. \A m : Wants(l, f, P, n, m) <=> Wants(l, f, Q, n, m)
  BY DEF Wants
<1>4. CursorOK(l, f, h)
  BY <1>1, <1>2 DEF ThreadOK, CursorOK
<1>5. Uniform(l, f, Q, n)
  BY DEF ThreadOK, Uniform
<1>6. UpdateOK(l, f, Q, n, h)
  <2> SUFFICES ASSUME l = "update" PROVE UpdateOK(l, f, Q, n, h)
    BY DEF UpdateOK
  <2>1. Here(f) \in Places(g, f.v)
    BY <1>1, <1>2 DEF ThreadOK, CursorOK, Here
  <2>2. Nb(g, f.v, Here(f)) = n[f.u] /\ n[f.u] # Blank
    BY Sizes DEF ThreadOK, UpdateOK, FrameOK
  <2>3. Nb(h, f.v, Here(f)) = n[f.u]
    BY <2>1, <2>2 DEF Fills
  <2> QED BY <2>3 DEF ThreadOK, UpdateOK
<1>7. ASSUME NEW p \in Places(h, f.v), Wants(l, f, Q, n, Nb(h, f.v, p)), ~FilledBefore(h, f.v, p)
      PROVE  /\ p \in Places(g, f.v) /\ Wants(l, f, P, n, Nb(g, f.v, p))
             /\ ~FilledBefore(g, f.v, p)
  <2>1. Nb(h, f.v, p) # Blank
    BY <1>3, <1>7, WantedInUse
  <2> QED BY <1>1, <1>3, <1>7, <2>1, FillsWanted
<1>8. InFind(l, f) => FindOK(l, f, Q, n, h)
  BY <1>7 DEF ThreadOK, FindOK
<1>9. InSeek(l, f) => SeekOK(l, f, Q, n, h)
  <2> SUFFICES ASSUME InSeek(l, f), NEW p \in Places(h, f.v), Behind(l, f, p)
               PROVE  Nb(h, f.v, p) # Blank /\ ~Wants(l, f, Q, n, Nb(h, f.v, p))
    BY <1>7 DEF ThreadOK, SeekOK
  <2>1. p[1] \in 1..Len(h[f.v]) /\ p[2] \in 1..EBSize /\ p = <<p[1], p[2]>>
    BY <1>2
  <2>2. p[1] <= f.tmp
    BY <1>1, <2>1, Sizes DEF Behind, Lt, Here
  <2>3. p \in Places(g, f.v)
    BY <1>1, <1>2, <2>1, <2>2 DEF ThreadOK, CursorOK
  <2>4. Nb(g, f.v, p) # Blank /\ ~Wants(l, f, P, n, Nb(g, f.v, p))
    BY <2>3 DEF ThreadOK, SeekOK
  <2> QED BY <1>3, <2>3, <2>4 DEF Fills
<1> QED BY <1>4, <1>5, <1>6, <1>8, <1>9 DEF ThreadOK

-----------------------------------------------------------------------------
(* The steps of a thread, by what they do to its label and variables.      *)

\* The variables f, with the cursor set.
Entered(f, a, b, c) == [f EXCEPT !.tmp = a, !.k = b, !.endk = c]
Restarted(f) == [f EXCEPT !.tmp = 0]
Advanced(f) == [f EXCEPT !.k = @ + 1]
AdvancedTo(f, c) == [f EXCEPT !.endk = c, !.k = @ + 1]

\* The same range of the same vertex.
Alike(e, f) == e \in FrameType /\ e.v = f.v /\ e.first = f.first /\ e.last = f.last

LEMMA Entering ==
  ASSUME NEW f \in FrameType, NEW a \in Nat, NEW b \in Nat, NEW c \in Nat
  PROVE  /\ Alike(Entered(f, a, b, c), f)
         /\ Entered(f, a, b, c).tmp = a /\ Entered(f, a, b, c).k = b
         /\ Entered(f, a, b, c).endk = c
<1>1. Entered(f, a, b, c) \in FrameType
  BY DEF FrameType, Entered
<1> QED BY <1>1 DEF FrameType, Entered, Alike

LEMMA Restarting ==
  ASSUME NEW f \in FrameType
  PROVE  Alike(Restarted(f), f) /\ Restarted(f).tmp = 0
BY DEF FrameType, Restarted, Alike

LEMMA Advancing ==
  ASSUME NEW f \in FrameType
  PROVE  /\ Alike(Advanced(f), f) /\ Advanced(f).k = f.k + 1
         /\ Advanced(f).tmp = f.tmp /\ Advanced(f).endk = f.endk
<1>1. Advanced(f) \in FrameType
  BY DEF FrameType, Advanced
<1> QED BY <1>1 DEF FrameType, Advanced, Alike

LEMMA AdvancingTo ==
  ASSUME NEW f \in FrameType, NEW c \in Nat
  PROVE  /\ Alike(AdvancedTo(f, c), f) /\ AdvancedTo(f, c).k = f.k + 1
         /\ AdvancedTo(f, c).tmp = f.tmp /\ AdvancedTo(f, c).endk = c
<1>1. AdvancedTo(f, c) \in FrameType
  <2>1. f.k + 1 \in Nat
    BY DEF FrameType
  <2> QED BY <2>1 DEF FrameType, AdvancedTo
<1> QED BY <1>1 DEF FrameType, AdvancedTo, Alike

LEMMA WalkTypes ==
  ASSUME NEW l, NEW f, NEW n, FrameOK(l, f, n), NEW g, ListType(g)
  PROVE  /\ f \in FrameType /\ f.v \in Vertices /\ f.tmp \in Nat /\ f.k \in Nat /\ f.endk \in Nat
         /\ Len(g[f.v]) \in Nat /\ Places(g, f.v) = (1..Len(g[f.v])) \X (1..EBSize)
         /\ \A p \in Places(g, f.v) : p[1] \in Nat /\ p[2] \in Nat /\ p[2] >= 1 /\ p[2] <= EBSize
<1>1. f \in FrameType /\ f.v \in Vertices
  BY DEF FrameOK
<1>2. f.tmp \in Nat /\ f.k \in Nat /\ f.endk \in Nat
  BY <1>1 DEF FrameType
<1>3. Len(g[f.v]) \in Nat /\ Places(g, f.v) = (1..Len(g[f.v])) \X (1..EBSize)
  BY <1>1, ListFacts
<1> QED BY <1>1, <1>2, <1>3, Sizes

\* Between labels without an update in hand what is wanted stays the same.
LEMMA SameWants ==
  ASSUME NEW l \in Labels \ {"idle", "update"}, NEW m \in Labels \ {"idle", "update"},
         NEW f, NEW e, Alike(e, f), NEW n, FrameOK(l, f, n), NEW P
  PROVE  /\ FrameOK(m, e, n) /\ Span(m, e) = Span(l, f)
         /\ \A x : Wants(m, e, P, n, x) <=> Wants(l, f, P, n, x)
         /\ Uniform(l, f, P, n) => Uniform(m, e, P, n)
<1>1. Span(m, e) = Span(l, f)
  BY DEF Span, Alike
<1> QED BY <1>1 DEF FrameOK, Wants, Uniform, Alike

\* The first walk comes to the next block.
LEMMA EnterFind ==
  ASSUME NEW f, NEW n, FrameOK("find_block", f, n), NEW P, NEW g, ListType(g),
         ThreadOK("find_block", f, P, n, g), NEW e, Alike(e, f),
         e.tmp = f.tmp + 1, e.k = 1, e.endk = g[f.v][f.tmp + 1].high
  PROVE  ThreadOK("find", e, P, n, g)
<1>1. /\ f.v \in Vertices /\ f.tmp \in Nat /\ e.v = f.v /\ f.tmp + 1 \in 1..Len(g[f.v])
      /\ Len(g[f.v]) \in Nat
  BY WalkTypes DEF ThreadOK, CursorOK, Alike
<1>2. g[f.v][f.tmp + 1].high \in 0..EBSize
  BY <1>1, ListFacts
<1>3. /\ \A x : Wants("find", e, P, n, x) <=> Wants("find_block", f, P, n, x)
      /\ Uniform("find", e, P, n)
  BY SameWants DEF Labels, ThreadOK
<1>4. CursorOK("find", e, g)
  BY <1>1, <1>2, Sizes DEF CursorOK
<1>5. FindOK("find", e, P, n, g)
  <2> SUFFICES ASSUME NEW p \in Places(g, f.v), FindBehind("find", e, p),
                      Wants("find_block", f, P, n, Nb(g, f.v, p))
               PROVE  FilledBefore(g, f.v, p)
    BY <1>1, <1>3 DEF FindOK
  <2>1. p[1] \in Nat /\ p[2] \in Nat /\ p[2] >= 1
    BY WalkTypes
  <2>2. CASE p[1] <= f.tmp
    BY <2>2 DEF ThreadOK, FindOK, FindBehind, Behind, InFind
  <2>3. CASE p[1] = f.tmp + 1 /\ p[2] > e.endk
    <3>1. Nb(g, f.v, p) = Blank
      BY <1>1, <2>3, ListFacts
    <3> QED BY <3>1, WantedInUse
  <2> QED BY <1>1, <2>1, <2>2, <2>3 DEF FindBehind, Behind, Lt, Here
<1> QED BY <1>3, <1>4, <1>5 DEF ThreadOK, UpdateOK, InFind, InSeek

\* It goes on behind a slot of no use to the thread,
LEMMA PassFind ==
  ASSUME NEW f, NEW n, FrameOK("find", f, n), NEW P, NEW g, ListType(g),
         ThreadOK("find", f, P, n, g), f.k <= f.endk,
         ~Wants("find", f, P, n, Nb(g, f.v, Here(f))),
         NEW e, Alike(e, f), e.tmp = f.tmp, e.k = f.k + 1, e.endk = f.endk
  PROVE  ThreadOK("find", e, P, n, g)
<1>1. e.v = f.v /\ f.tmp \in Nat /\ f.k \in Nat /\ f.endk \in Nat /\ f.k <= f.endk
  BY WalkTypes DEF Alike
<1>2. /\ \A x : Wants("find", e, P, n, x) <=> Wants("find", f, P, n, x)
      /\ Uniform("find", e, P, n)
  BY SameWants DEF Labels, ThreadOK
<1>3. CursorOK("find", e, g)
  BY <1>1, Sizes DEF CursorOK, ThreadOK
<1>4. FindOK("find", e, P, n, g)
  <2> SUFFICES ASSUME NEW p \in Places(g, f.v), FindBehind("find", e, p),
                      Wants("find", f, P, n, Nb(g, f.v, p))
               PROVE  FilledBefore(g, f.v, p)
    BY <1>1, <1>2 DEF FindOK
  <2>1. p[1] \in Nat /\ p[2] \in Nat /\ p = <<p[1], p[2]>>
    BY WalkTypes
  <2>2. p # Here(f)
    OBVIOUS
  <2>3. FindBehind("find", f, p)
    BY <1>1, <2>1, <2>2 DEF FindBehind, Behind, Lt, Here
  <2> QED BY <2>3 DEF ThreadOK, FindOK, InFind
<1> QED BY <1>2, <1>3, <1>4 DEF ThreadOK, UpdateOK, InFind, InSeek

\* to the next block,
LEMMA LeaveFind ==
  ASSUME NEW f, NEW n, FrameOK("find", f, n), NEW P, NEW g, ListType(g),
         ThreadOK("find", f, P, n, g), f.k > f.endk, f.tmp < Len(g[f.v])
  PROVE  ThreadOK("find_block", f, P, n, g)
<1>1. f.tmp \in Nat /\ f.k \in Nat /\ f.endk \in Nat /\ Alike(f, f)
  BY WalkTypes DEF Alike
<1>2. /\ \A x : Wants("find_block", f, P, n, x) <=> Wants("find", f, P, n, x)
      /\ Uniform("find_block", f, P, n)
  BY <1>1, SameWants DEF Labels, ThreadOK
<1>3. CursorOK("find_block", f, g)
  BY <1>1 DEF CursorOK, ThreadOK
<1>4. FindOK("find_block", f, P, n, g)
  <2> SUFFICES ASSUME NEW p \in Places(g, f.v), FindBehind("find_block", f, p),
                      Wants("find", f, P, n, Nb(g, f.v, p))
               PROVE  FilledBefore(g, f.v, p)
    BY <1>1, <1>2 DEF FindOK
  <2>1. p[1] \in Nat /\ p[2] \in Nat
    BY WalkTypes
  <2>2. FindBehind("find", f, p)
    BY <1>1, <2>1 DEF FindBehind, Behind, Lt, Here
  <2> QED BY <2>2 DEF ThreadOK, FindOK, InFind
<1> QED BY <1>2, <1>3, <1>4 DEF ThreadOK, UpdateOK, InFind, InSeek

\* and from the last block to the second walk.
LEMMA EndFind ==
  ASSUME NEW f, NEW n, FrameOK("find", f, n), NEW P, NEW g, ListType(g),
         ThreadOK("find", f, P, n, g), f.k > f.endk, ~(f.tmp < Len(g[f.v])),
         NEW e, Alike(e, f), e.tmp = 0, e.endk = f.endk
  PROVE  ThreadOK("seek_block", e, P, n, g)
<1>1. e.v = f.v /\ f.tmp \in Nat /\ f.k \in Nat /\ f.endk \in Nat /\ Len(g[f.v]) \in Nat
  BY WalkTypes DEF Alike
<1>2. /\ \A x : Wants("seek_block", e, P, n, x) <=> Wants("find", f, P, n, x)
      /\ Uniform("seek_block", e, P, n)
  BY SameWants DEF Labels, ThreadOK
<1>3. CursorOK("seek_block", e, g)
  BY <1>1 DEF CursorOK, ThreadOK
<1>4. SeekOK("seek_block", e, P, n, g)
  <2> SUFFICES ASSUME NEW p \in Places(g, f.v)
               PROVE  /\ ~Behind("seek_block", e, p)
                      /\ Wants("find", f, P, n, Nb(g, f.v, p)) => FilledBefore(g, f.v, p)
    BY <1>1, <1>2 DEF SeekOK
  <2>1. p[1] \in Nat /\ p[2] \in Nat /\ p[1] >= 1 /\ p[1] <= Len(g[f.v])
    BY WalkTypes
  <2>2. f.tmp = Len(g[f.v])
    BY <1>1 DEF ThreadOK, CursorOK
  <2>3. FindBehind("find", f, p)
    BY <1>1, <2>1, <2>2 DEF FindBehind, Behind, Lt, Here
  <2>4. ~Behind("seek_block", e, p)
    BY <2>1 DEF Behind
  <2> QED BY <2>3, <2>4 DEF ThreadOK, FindOK, InFind
<1> QED BY <1>2, <1>3, <1>4 DEF ThreadOK, UpdateOK, InFind, InSeek

\* The second walk comes to the next block,
LEMMA EnterSeek ==
  ASSUME NEW f, NEW n, FrameOK("seek_block", f, n), NEW P, NEW g, ListType(g),
         ThreadOK("seek_block", f, P, n, g), f.tmp < Len(g[f.v]), NEW e, Alike(e, f),
         e.tmp = f.tmp + 1, e.k = 1, e.endk = g[f.v][f.tmp + 1].high
  PROVE  ThreadOK("seek", e, P, n, g)
<1>1. /\ f.v \in Vertices /\ f.tmp \in Nat /\ e.v = f.v /\ f.tmp + 1 \in 1..Len(g[f.v])
      /\ Len(g[f.v]) \in Nat
  BY WalkTypes DEF Alike
<1>2. g[f.v][f.tmp + 1].high \in 0..EBSize
  BY <1>1, ListFacts
<1>3. /\ \A x : Wants("seek", e, P, n, x) <=> Wants("seek_block", f, P, n, x)
      /\ Uniform("seek", e, P, n) /\ Span("seek", e) = Span("seek_block", f)
  BY SameWants DEF Labels, ThreadOK
<1>4. CursorOK("seek", e, g)
  BY <1>1, <1>2, <1>3, Sizes DEF CursorOK
<1>5. SeekOK("seek", e, P, n, g)
  <2>1. ASSUME NEW p \in Places(g, f.v)
        PROVE  Behind("seek", e, p) <=> Behind("seek_block", f, p)
    <3>1. p[1] \in Nat /\ p[2] \in Nat /\ p[2] >= 1
      BY WalkTypes
    <3> QED BY <1>1, <3>1 DEF Behind, Lt, Here
  <2> QED BY <1>1, <1>3, <2>1 DEF ThreadOK, SeekOK, InSeek
<1> QED BY <1>3, <1>4, <1>5 DEF ThreadOK, UpdateOK, InFind, InSeek

\* or behind the last,
LEMMA ToGrow ==
  ASSUME NEW f, NEW n, FrameOK("seek_block", f, n), NEW P, NEW g, ListType(g),
         ThreadOK("seek_block", f, P, n, g)
  PROVE  ThreadOK("grow", f, P, n, g)
<1>1. f \in FrameType /\ Alike(f, f)
  BY WalkTypes DEF Alike
<1>2. /\ \A x : Wants("grow", f, P, n, x) <=> Wants("seek_block", f, P, n, x)
      /\ Uniform("grow", f, P, n) /\ Span("grow", f) = Span("seek_block", f)
  BY <1>1, SameWants DEF Labels, ThreadOK
<1>3. SeekOK("grow", f, P, n, g)
  BY <1>2 DEF ThreadOK, SeekOK, InSeek, Behind
<1> QED BY <1>2, <1>3 DEF ThreadOK, CursorOK, UpdateOK, InFind, InSeek

\* where another thread has added a block meanwhile.
LEMMA FromGrow ==
  ASSUME NEW f, NEW n, FrameOK("grow", f, n), NEW P, NEW g, ListType(g),
         ThreadOK("grow", f, P, n, g)
  PROVE  ThreadOK("seek_block", f, P, n, g)
<1>1. f \in FrameType /\ Alike(f, f)
  BY WalkTypes DEF Alike
<1>2. /\ \A x : Wants("seek_block", f, P, n, x) <=> Wants("grow", f, P, n, x)
      /\ Uniform("seek_block", f, P, n)
  BY <1>1, SameWants DEF Labels, ThreadOK
<1>3. SeekOK("seek_block", f, P, n, g)
  BY <1>2 DEF ThreadOK, SeekOK, InSeek, Behind
<1> QED BY <1>2, <1>3 DEF ThreadOK, CursorOK, UpdateOK, InFind, InSeek

\* It stops at a slot that looks free,
LEMMA ToClaim ==
  ASSUME NEW f, NEW n, FrameOK("seek", f, n), NEW P, NEW g, ListType(g),
         ThreadOK("seek", f, P, n, g), f.k <= EBSize
  PROVE  ThreadOK("claim", f, P, n, g)
<1>1. f \in FrameType /\ Alike(f, f)
  BY WalkTypes DEF Alike
<1>2. /\ \A x : Wants("claim", f, P, n, x) <=> Wants("seek", f, P, n, x)
      /\ Uniform("claim", f, P, n) /\ Span("claim", f) = Span("seek", f)
  BY <1>1, SameWants DEF Labels, ThreadOK
<1>3. SeekOK("claim", f, P, n, g)
  BY <1>2 DEF ThreadOK, SeekOK, InSeek, Behind
<1>4. CursorOK("claim", f, g)
  BY <1>2, Sizes DEF CursorOK, ThreadOK
<1> QED BY <1>2, <1>3, <1>4 DEF ThreadOK, UpdateOK, InFind, InSeek

\* goes on behind one with another neighbour,
LEMMA PassSeek ==
  ASSUME NEW l \in {"seek", "claim"}, NEW f, NEW n, FrameOK(l, f, n), NEW P,
         NEW g, ListType(g), ThreadOK(l, f, P, n, g), f.k <= EBSize,
         Nb(g, f.v, Here(f)) # Blank, ~Wants(l, f, P, n, Nb(g, f.v, Here(f))),
         NEW e, Alike(e, f), e.tmp = f.tmp, e.k = f.k + 1, e.endk <= EBSize
  PROVE  ThreadOK("seek", e, P, n, g)
<1>1. e.v = f.v /\ f.tmp \in Nat /\ f.k \in Nat
  BY WalkTypes DEF Alike
<1>2. /\ \A x : Wants("seek", e, P, n, x) <=> Wants(l, f, P, n, x)
      /\ Uniform("seek", e, P, n) /\ Span("seek", e) = Span(l, f)
  BY SameWants DEF Labels, ThreadOK
<1>3. CursorOK("seek", e, g)
  BY <1>1, <1>2, Sizes DEF CursorOK, ThreadOK
<1>4. SeekOK("seek", e, P, n, g)
  <2>1. ASSUME NEW p \in Places(g, f.v)
        PROVE  Behind("seek", e, p) <=> Behind(l, f, p) \/ p = Here(f)
    <3>1. p[1] \in Nat /\ p[2] \in Nat /\ p = <<p[1], p[2]>>
      BY WalkTypes
    <3> QED BY <1>1, <3>1 DEF Behind, Lt, Here
  <2> QED BY <1>1, <1>2, <2>1 DEF ThreadOK, SeekOK, InSeek
<1> QED BY <1>2, <1>3, <1>4 DEF ThreadOK, UpdateOK, InFind, InSeek

\* and leaves the block.
LEMMA LeaveSeek ==
  ASSUME NEW f, NEW n, FrameOK("seek", f, n), NEW P, NEW g, ListType(g),
         ThreadOK("seek", f, P, n, g), f.k > EBSize
  PROVE  ThreadOK("seek_block", f, P, n, g)
<1>1. f \in FrameType /\ Alike(f, f) /\ f.tmp \in Nat /\ f.k \in Nat
  BY WalkTypes DEF Alike
<1>2. /\ \A x : Wants("seek_block", f, P, n, x) <=> Wants("seek", f, P, n, x)
      /\ Uniform("seek_block", f, P, n)
  BY <1>1, SameWants DEF Labels, ThreadOK
<1>3. SeekOK("seek_block", f, P, n, g)
  <2>1. ASSUME NEW p \in Places(g, f.v)
        PROVE  Behind("seek_block", f, p) => Behind("seek", f, p)
    <3>1. p[1] \in Nat /\ p[2] \in Nat /\ p[2] <= EBSize
      BY WalkTypes
    <3> QED BY <1>1, <3>1, Sizes DEF Behind, Lt, Here
  <2> QED BY <1>2, <2>1 DEF ThreadOK, SeekOK, InSeek
<1> QED BY <1>2, <1>3 DEF ThreadOK, CursorOK, UpdateOK, InFind, InSeek

-----------------------------------------------------------------------------
(* A thread with a slot in hand.                                           *)

\* As at the label update, or at the claim of a free slot: there the neighbour
\* is in no slot if its edge is unmixed, and no slot before this one is free.
InHand(f, P, n, g) ==
  /\ CursorOK("update", f, g) /\ Uniform("update", f, P, n)
  /\ f.u \in Span("update", f) /\ f.res # 0
  /\ \A i \in Span("update", f) : n[i] = n[f.u] => (i \in P <=> i >= f.u /\ f.u \in P)
  /\ f.scan = "find" => FindOK("update", f, P, n, g)
  /\ f.scan = "seek" => SeekOK("update", f, P, n, g)
  /\ \/ Nb(g, f.v, Here(f)) = n[f.u]
     \/ /\ Nb(g, f.v, Here(f)) = Blank /\ FilledBefore(g, f.v, Here(f))
        /\ f.u \in P => \A p \in Places(g, f.v) : Nb(g, f.v, p) # n[f.u]

LEMMA UpdatesSlot ==
  ASSUME NEW f, NEW P, NEW n, NEW g, ThreadOK("update", f, P, n, g)
  PROVE  InHand(f, P, n, g)
BY DEF ThreadOK, InHand, UpdateOK, InFind, InSeek

\* A thread finds the slot of updates it wants.
LEMMA StartsUpdates ==
  ASSUME NEW l \in {"find", "seek", "claim"}, NEW f, NEW n, FrameOK(l, f, n), NEW P,
         NEW g, ListType(g), ThreadOK(l, f, P, n, g),
         f.k <= EBSize, NEW e, Alike(e, f), e.tmp = f.tmp, e.k = f.k, e.res # 0,
         e.u \in Span(l, f), n[e.u] = Nb(g, f.v, Here(f)),
         e.u \in P => \A i \in Span(l, f) : n[i] = n[e.u] => i >= e.u,
         e.scan = IF l = "find" THEN "find" ELSE "seek",
         e.endk <= EBSize, l = "find" => e.endk = f.endk
  PROVE  FrameOK("update", e, n) /\ ThreadOK("update", e, P, n, g)
<1>1. e.v = f.v /\ f.tmp \in Nat /\ f.k \in Nat /\ Span("update", e) = Span(l, f)
  BY WalkTypes DEF Alike, Span
<1>2. FrameOK("update", e, n)
  BY <1>1 DEF FrameOK, Labels, Alike
<1>3. \A x : Wants("update", e, P, n, x) => Wants(l, f, P, n, x)
  BY <1>1 DEF Wants
<1>4. Uniform("update", e, P, n)
  BY <1>1 DEF ThreadOK, Uniform
<1>5. CursorOK("update", e, g)
  BY <1>1, Sizes DEF ThreadOK, CursorOK
<1>6. UpdateOK("update", e, P, n, g)
  <2>1. \A i \in Span(l, f) : n[i] = n[e.u] => (i \in P <=> e.u \in P)
    BY DEF ThreadOK, Uniform
  <2> QED BY <1>1, <2>1 DEF UpdateOK, Here
<1>7. ASSUME InFind("update", e) PROVE FindOK("update", e, P, n, g)
  <2>1. l = "find" /\ e.endk = f.endk
    BY <1>7 DEF InFind
  <2>2. \A p : FindBehind("update", e, p) <=> FindBehind(l, f, p)
    BY <1>1, <2>1 DEF FindBehind, Behind, Here
  <2> QED BY <1>1, <1>3, <2>1, <2>2 DEF ThreadOK, FindOK, InFind
<1>8. ASSUME InSeek("update", e) PROVE SeekOK("update", e, P, n, g)
  <2>1. l \in {"seek", "claim"}
    BY <1>8 DEF InSeek
  <2>2. \A p : Behind("update", e, p) <=> Behind(l, f, p)
    BY <1>1, <2>1 DEF Behind, Here
  <2> QED BY <1>1, <1>3, <2>1, <2>2 DEF ThreadOK, SeekOK, InSeek
<1> QED BY <1>2, <1>4, <1>5, <1>6, <1>7, <1>8 DEF ThreadOK

\* A thread takes a free slot for the first of its pending updates: had its
\* neighbour a slot, that would be neither behind this one nor beyond it.
LEMMA ClaimsSlot ==
  ASSUME NEW f, NEW n, FrameOK("claim", f, n), NEW P, NEW g, ListType(g),
         ThreadOK("claim", f, P, n, g), Nb(g, f.v, Here(f)) = Blank,
         NEW e, Alike(e, f), e.tmp = f.tmp, e.k = f.k, e.res # 0, e.scan = "seek",
         e.u \in Span("claim", f), \A i \in Span("claim", f) \cap P : e.u <= i,
         e.endk <= EBSize
  PROVE  FrameOK("update", e, n) /\ InHand(e, P, n, g)
<1>1. /\ e.v = f.v /\ f.tmp \in Nat /\ f.k \in Nat /\ Span("update", e) = Span("claim", f)
      /\ f.v \in Vertices
  BY WalkTypes DEF Alike, Span
<1>2. FrameOK("update", e, n)
  BY <1>1 DEF FrameOK, Labels, Alike
<1>3. \A x : Wants("update", e, P, n, x) => Wants("claim", f, P, n, x)
  BY <1>1 DEF Wants
<1>4. Uniform("update", e, P, n)
  BY <1>1 DEF ThreadOK, Uniform
<1>5. CursorOK("update", e, g)
  BY <1>1, Sizes DEF ThreadOK, CursorOK
<1>6. SeekOK("update", e, P, n, g)
  <2>1. \A p : Behind("update", e, p) <=> Behind("claim", f, p)
    BY <1>1 DEF Behind, Here
  <2> QED BY <1>1, <1>3, <2>1 DEF ThreadOK, SeekOK, InSeek
<1>7. \A i \in Span("update", e) : n[i] = n[e.u] => (i \in P <=> i >= e.u /\ e.u \in P)
  <2> SUFFICES ASSUME NEW i \in Span("claim", f), n[i] = n[e.u]
               PROVE  i \in P <=> i >= e.u /\ e.u \in P
    BY <1>1
  <2>1. i \in P <=> e.u \in P
    BY DEF ThreadOK, Uniform
  <2>2. i \in Nat /\ e.u \in Nat
    BY DEF FrameOK
  <2> QED BY <2>1, <2>2
<1>8. FilledBefore(g, f.v, Here(f))
  BY DEF ThreadOK, SeekOK, InSeek, Behind, FilledBefore
<1>9. ASSUME e.u \in P, NEW p \in Places(g, f.v), Nb(g, f.v, p) = n[e.u] PROVE FALSE
  <2>1. Wants("claim", f, P, n, n[e.u])
    BY <1>9 DEF Wants
  <2>2. p[1] \in Nat /\ p[2] \in Nat /\ p = <<p[1], p[2]>>
    BY WalkTypes
  <2>3. Here(f) \in Places(g, f.v)
    BY <1>1, WalkTypes DEF ThreadOK, CursorOK, Here
  <2>4. p # Here(f)
    BY <1>9, <2>1, WantedInUse
  <2>5. Lt(p, Here(f)) \/ Lt(Here(f), p)
    BY <1>1, <2>2, <2>4 DEF Lt, Here
  <2>6. ~Lt(p, Here(f))
    BY <1>9, <2>1 DEF ThreadOK, SeekOK, InSeek, Behind
  <2>7. FilledBefore(g, f.v, p)
    BY <1>9, <2>1 DEF ThreadOK, SeekOK, InSeek
  <2> QED BY <2>3, <2>5, <2>6, <2>7 DEF FilledBefore
<1> QED BY <1>1, <1>2, <1>4, <1>5, <1>6, <1>7, <1>8, <1>9 DEF InHand, Here

\* h is g with neighbour m in place p of vertex v.
Stored(g, h, v, p, m) ==
  /\ Len(h[v]) = Len(g[v])
  /\ \A q \in Places(g, v) : Nb(h, v, q) = IF q = p THEN m ELSE Nb(g, v, q)

LEMMA SamePlaces ==
  ASSUME NEW g, ListType(g), NEW h, ListType(h), NEW v \in Vertices, NEW p, NEW m,
         Stored(g, h, v, p, m)
  PROVE  Len(g[v]) \in Nat /\ Len(h[v]) = Len(g[v]) /\ Places(h, v) = Places(g, v)
<1>1. /\ Len(g[v]) \in Nat /\ Places(g, v) = (1..Len(g[v])) \X (1..EBSize)
      /\ Places(h, v) = (1..Len(h[v])) \X (1..EBSize)
  BY ListFacts
<1>2. Len(h[v]) = Len(g[v])
  BY DEF Stored
<1> QED BY <1>1, <1>2

LEMMA SlotFills ==
  ASSUME NEW f, NEW n, FrameOK("update", f, n), NEW P, NEW g, ListType(g),
         InHand(f, P, n, g), NEW h, ListType(h), Stored(g, h, f.v, Here(f), n[f.u])
  PROVE  /\ Fills(g, h, f.v)
         /\ \A m \in Vertices : OneSlot(g, f.v, m) /\ (m = n[f.u] => f.u \in P) => OneSlot(h, f.v, m)
<1>1. /\ f.v \in Vertices /\ Len(g[f.v]) \in Nat /\ Len(h[f.v]) = Len(g[f.v])
      /\ Places(h, f.v) = Places(g, f.v) /\ f.tmp \in Nat /\ f.k \in Nat
  BY WalkTypes DEF Stored
<1>2. n[f.u] \in Vertices /\ n[f.u] # Blank
  BY Sizes DEF FrameOK, InHand
<1>3. Here(f) \in Places(g, f.v)
  BY <1>1, WalkTypes DEF InHand, CursorOK, Here
<1>4. CASE Nb(g, f.v, Here(f)) = n[f.u]
  <2>1. \A q \in Places(g, f.v) : Nb(h, f.v, q) = Nb(g, f.v, q)
    BY <1>4 DEF Stored
  <2> QED BY <1>1, <2>1 DEF Fills, OneSlot, Nb
<1>5. CASE /\ Nb(g, f.v, Here(f)) = Blank /\ FilledBefore(g, f.v, Here(f))
           /\ f.u \in P => \A p \in Places(g, f.v) : Nb(g, f.v, p) # n[f.u]
  <2>1. \A q \in Places(g, f.v) :
          Nb(h, f.v, q) = IF q = Here(f) THEN n[f.u] ELSE Nb(g, f.v, q)
    BY DEF Stored
  <2>2. \A q \in Places(g, f.v) : Nb(g, f.v, q) # Blank => Nb(h, f.v, q) = Nb(g, f.v, q)
    BY <1>5, <2>1
  <2>3. FilledBefore(h, f.v, Here(f))
    BY <1>1, <1>5, <2>2 DEF FilledBefore
  <2>4. Fills(g, h, f.v)
    BY <1>1, <2>1, <2>2, <2>3 DEF Fills
  <2>5. ASSUME NEW m \in Vertices, OneSlot(g, f.v, m), m = n[f.u] => f.u \in P,
               NEW p \in Places(h, f.v), NEW q \in Places(h, f.v),
               Nb(h, f.v, p) = m, Nb(h, f.v, q) = m
        PROVE  p = q
    <3>1. CASE m # n[f.u]
      BY <1>1, <2>1, <2>5, <3>1 DEF OneSlot, Nb
    <3>2. CASE m = n[f.u]
      BY <1>1, <1>5, <2>1, <2>5, <3>2
    <3> QED BY <3>1, <3>2
  <2> QED BY <2>4, <2>5 DEF OneSlot, Nb
<1> QED BY <1>4, <1>5 DEF InHand

\* What the thread wants beside the updates being made is what it was, and is
\* wanted in the same places.
LEMMA AfterUpdate ==
  ASSUME NEW f, NEW n, FrameOK("update", f, n), NEW P, NEW g, ListType(g),
         InHand(f, P, n, g), NEW h, ListType(h), Stored(g, h, f.v, Here(f), n[f.u]),
         NEW p \in Places(h, f.v), Wants("update", f, P, n, Nb(h, f.v, p))
  PROVE  /\ p \in Places(g, f.v) /\ p # Here(f) /\ Nb(g, f.v, p) = Nb(h, f.v, p)
         /\ FilledBefore(g, f.v, p) => FilledBefore(h, f.v, p)
<1>1. f.v \in Vertices /\ Places(h, f.v) = Places(g, f.v)
  BY WalkTypes DEF Stored
<1>2. p # Here(f)
  BY <1>1 DEF Stored, Wants
<1>3. Nb(g, f.v, p) = Nb(h, f.v, p)
  BY <1>1, <1>2 DEF Stored
<1>4. Fills(g, h, f.v)
  BY SlotFills
<1> QED BY <1>1, <1>2, <1>3, <1>4, FillsFilled

\* An update of the neighbour is made and there is another,
LEMMA MoreToDo ==
  ASSUME NEW f, NEW n, FrameOK("update", f, n), NEW P, NEW g, ListType(g),
         InHand(f, P, n, g), NEW h, ListType(h), Stored(g, h, f.v, Here(f), n[f.u]),
         NEW Q, \A i \in Span("update", f) : i \in Q <=> i \in P /\ i # f.u,
         f.u + 1 \in Span("update", f), n[f.u + 1] = n[f.u],
         NEW e, Alike(e, f), e.tmp = f.tmp, e.k = f.k, e.endk = f.endk, e.scan = f.scan,
         e.u = f.u + 1, e.res # 0
  PROVE  FrameOK("update", e, n) /\ ThreadOK("update", e, Q, n, h)
<1>1. /\ e.v = f.v /\ f.tmp \in Nat /\ f.k \in Nat /\ Span("update", e) = Span("update", f)
      /\ f.v \in Vertices /\ Here(e) = Here(f) /\ Places(h, f.v) = Places(g, f.v)
      /\ Len(h[f.v]) = Len(g[f.v])
  <2>1. f.v \in Vertices /\ f.tmp \in Nat /\ f.k \in Nat
    BY WalkTypes
  <2>2. e.v = f.v /\ Span("update", e) = Span("update", f) /\ Here(e) = Here(f)
    BY DEF Alike, Span, Here
  <2> QED BY <2>1, <2>2, SamePlaces
<1>2. FrameOK("update", e, n)
  BY <1>1 DEF FrameOK, Alike
<1>3. \A x : Wants("update", e, Q, n, x) => Wants("update", f, P, n, x)
  BY <1>1 DEF Wants
<1>4. CursorOK("update", e, h)
  BY <1>1 DEF InHand, CursorOK
<1>5. Uniform("update", e, Q, n)
  BY <1>1 DEF InHand, Uniform
<1>6. UpdateOK("update", e, Q, n, h)
  <2>1. Here(f) \in Places(g, f.v)
    BY <1>1, WalkTypes DEF InHand, CursorOK, Here
  <2>2. Nb(h, f.v, Here(f)) = n[f.u]
    BY <2>1 DEF Stored
  <2>3. \A i \in Span("update", f) : i \in Nat
    BY DEF FrameOK
  <2>4. ASSUME NEW i \in Span("update", f), n[i] = n[f.u]
        PROVE  i \in Q <=> i >= f.u + 1 /\ f.u + 1 \in Q
    <3>1. i \in Nat /\ f.u \in Nat /\ (i \in P <=> i >= f.u /\ f.u \in P)
      BY <2>3, <2>4 DEF InHand
    <3>2. f.u + 1 \in Q <=> f.u \in P
      BY <3>1 DEF InHand
    <3> QED BY <2>4, <3>1, <3>2
  <2> QED BY <1>1, <2>2, <2>4 DEF UpdateOK
<1>7. ASSUME InFind("update", e) PROVE FindOK("update", e, Q, n, h)
  <2>1. \A p : FindBehind("update", e, p) <=> FindBehind("update", f, p)
    BY <1>1 DEF FindBehind, Behind
  <2>2. FindOK("update", f, P, n, g)
    BY <1>7 DEF InHand, InFind
  <2> QED BY <1>1, <1>3, <2>1, <2>2, AfterUpdate DEF FindOK
<1>8. ASSUME InSeek("update", e) PROVE SeekOK("update", e, Q, n, h)
  <2>1. \A p : Behind("update", e, p) <=> Behind("update", f, p)
    BY <1>1 DEF Behind
  <2>2. SeekOK("update", f, P, n, g)
    BY <1>8 DEF InHand, InSeek
  <2>3. ASSUME NEW p \in Places(h, f.v), Behind("update", f, p)
        PROVE  Nb(h, f.v, p) # Blank /\ ~Wants("update", f, P, n, Nb(h, f.v, p))
    <3>1. Nb(g, f.v, p) # Blank /\ ~Wants("update", f, P, n, Nb(g, f.v, p))
      BY <1>1, <2>2, <2>3 DEF SeekOK
    <3>2. p # Here(f)
      BY <1>1, <2>3 DEF Behind, Lt, Here
    <3> QED BY <1>1, <3>1, <3>2, <2>3 DEF Stored
  <2> QED BY <1>1, <1>3, <2>1, <2>2, <2>3, AfterUpdate DEF SeekOK
<1> QED BY <1>2, <1>4, <1>5, <1>6, <1>7, <1>8 DEF ThreadOK

\* or there is none, and the walk goes on.
LEMMA LastDone ==
  ASSUME NEW f, NEW n, FrameOK("update", f, n), NEW P, NEW g, ListType(g),
         InHand(f, P, n, g), NEW h, ListType(h), Stored(g, h, f.v, Here(f), n[f.u]),
         NEW Q, \A i \in Span("update", f) : i \in Q <=> i \in P /\ i # f.u,
         \A i \in Span("update", f) : n[i] = n[f.u] => i <= f.u,
         NEW e, Alike(e, f), e.tmp = f.tmp, e.k = f.k + 1, e.endk = f.endk
  PROVE  FrameOK(f.scan, e, n) /\ ThreadOK(f.scan, e, Q, n, h)
<1>0. f.scan \in {"find", "seek"}
  BY WalkTypes DEF FrameType
<1>1. /\ e.v = f.v /\ f.tmp \in Nat /\ f.k \in Nat /\ f.endk \in Nat
      /\ Span(f.scan, e) = Span("update", f)
      /\ f.v \in Vertices /\ Places(h, f.v) = Places(g, f.v)
      /\ Len(h[f.v]) = Len(g[f.v])
  <2>1. f.v \in Vertices /\ f.tmp \in Nat /\ f.k \in Nat /\ f.endk \in Nat
    BY WalkTypes
  <2>2. e.v = f.v /\ Span(f.scan, e) = Span("update", f)
    BY <1>0 DEF Alike, Span
  <2> QED BY <2>1, <2>2, SamePlaces
<1>2. FrameOK(f.scan, e, n)
  BY <1>0, <1>1 DEF FrameOK, Alike, Labels
<1>3. \A i \in Span("update", f) : n[i] = n[f.u] => i \notin Q
  <2> SUFFICES ASSUME NEW i \in Span("update", f), n[i] = n[f.u] PROVE i \notin Q
    OBVIOUS
  <2>1. i \in Nat /\ f.u \in Nat /\ i <= f.u
    BY DEF FrameOK, InHand
  <2> QED BY <2>1 DEF InHand
<1>4. \A x : Wants(f.scan, e, Q, n, x) => Wants("update", f, P, n, x)
  BY <1>1, <1>3 DEF Wants
<1>5. CursorOK(f.scan, e, h)
  BY <1>0, <1>1, Sizes DEF InHand, CursorOK
<1>6. Uniform(f.scan, e, Q, n)
  <2> SUFFICES ASSUME NEW i \in Span("update", f), NEW j \in Span("update", f), n[i] = n[j]
               PROVE  i \in Q <=> j \in Q
    BY <1>1 DEF Uniform
  <2>1. CASE n[i] = n[f.u]
    BY <1>3, <2>1
  <2>2. CASE n[i] # n[f.u]
    BY <2>2 DEF InHand, Uniform
  <2> QED BY <2>1, <2>2
<1>7. ASSUME NEW p \in Places(h, f.v)
      PROVE  /\ p[1] \in Nat /\ p[2] \in Nat /\ p = <<p[1], p[2]>>
             /\ Behind(f.scan, e, p) <=> Behind("update", f, p) \/ p = Here(f)
  <2>1. p[1] \in Nat /\ p[2] \in Nat /\ p = <<p[1], p[2]>>
    BY <1>1, WalkTypes
  <2> QED BY <1>0, <1>1, <2>1 DEF Behind, Lt, Here
<1>8. ASSUME InFind(f.scan, e) PROVE FindOK(f.scan, e, Q, n, h)
  <2>1. f.scan = "find"
    BY <1>0, <1>8 DEF InFind
  <2>2. FindOK("update", f, P, n, g)
    BY <2>1 DEF InHand
  <2>3. ASSUME NEW p \in Places(h, f.v), FindBehind("find", e, p), p # Here(f)
        PROVE  FindBehind("update", f, p)
    BY <1>1, <1>7, <2>1, <2>3 DEF FindBehind
  <2> QED BY <1>1, <1>4, <2>1, <2>2, <2>3, AfterUpdate DEF FindOK
<1>9. ASSUME InSeek(f.scan, e) PROVE SeekOK(f.scan, e, Q, n, h)
  <2>1. f.scan = "seek"
    BY <1>0, <1>9 DEF InSeek
  <2>2. SeekOK("update", f, P, n, g)
    BY <2>1 DEF InHand
  <2>3. ASSUME NEW p \in Places(h, f.v), Behind("update", f, p)
        PROVE  Nb(h, f.v, p) # Blank /\ ~Wants("update", f, P, n, Nb(h, f.v, p))
    <3>1. Nb(g, f.v, p) # Blank /\ ~Wants("update", f, P, n, Nb(g, f.v, p))
      BY <1>1, <2>2, <2>3 DEF SeekOK
    <3>2. p # Here(f)
      BY <1>1, <2>3 DEF Behind, Lt, Here
    <3> QED BY <1>1, <3>1, <3>2, <2>3 DEF Stored
  <2>4. Here(f) \in Places(g, f.v)
    BY <1>1, WalkTypes DEF InHand, CursorOK, Here
  <2>5. /\ Nb(h, f.v, Here(f)) = n[f.u] /\ n[f.u] # Blank
        /\ ~Wants("update", f, P, n, n[f.u])
    BY <2>4, Sizes DEF Stored, Wants, FrameOK, InHand
  <2> QED BY <1>1, <1>4, <1>7, <2>1, <2>2, <2>3, <2>5, AfterUpdate DEF SeekOK
<1> QED BY <1>0, <1>2, <1>5, <1>6, <1>8, <1>9 DEF ThreadOK, UpdateOK

\* h is g with a block appended to the list of v, with m in its first slot.
Appended(g, h, v, m) ==
  /\ Len(h[v]) = Len(g[v]) + 1
  /\ \A q \in Places(g, v) : Nb(h, v, q) = Nb(g, v, q)
  /\ \A q \in Places(h, v) : q[1] = Len(h[v]) =>
       Nb(h, v, q) = IF q[2] = 1 THEN m ELSE Blank

\* A block with the first of its pending updates, and those of the same edge.
LEMMA BlockGrown ==
  ASSUME NEW f, NEW n, FrameOK("grow", f, n), NEW P, NEW g, ListType(g),
         ThreadOK("grow", f, P, n, g), f.tmp = Len(g[f.v]),
         NEW m \in Vertices, NEW h, ListType(h), Appended(g, h, f.v, m),
         NEW Q, \A i \in Span("grow", f) : i \in Q <=> i \in P /\ n[i] # m
  PROVE  /\ Fills(g, h, f.v)
         /\ \A x \in Vertices : OneSlot(g, f.v, x) /\ (x = m => Wants("grow", f, P, n, m)) =>
              OneSlot(h, f.v, x)
         /\ FrameOK("seek_block", f, n) /\ ThreadOK("seek_block", f, Q, n, h)
<1>1. /\ f.v \in Vertices /\ Len(g[f.v]) \in Nat /\ Len(h[f.v]) = Len(g[f.v]) + 1
      /\ Places(g, f.v) = (1..Len(g[f.v])) \X (1..EBSize)
      /\ Places(h, f.v) = (1..Len(h[f.v])) \X (1..EBSize)
      /\ Span("seek_block", f) = Span("grow", f) /\ f \in FrameType
  BY WalkTypes, ListFacts DEF Appended, Span
<1>2. m \in Vertices /\ m # Blank
  BY Sizes
<1>3. ASSUME NEW p \in Places(g, f.v)
      PROVE  /\ Nb(g, f.v, p) # Blank /\ ~Wants("grow", f, P, n, Nb(g, f.v, p))
             /\ Nb(h, f.v, p) = Nb(g, f.v, p)
  <2>1. p[1] <= f.tmp
    BY <1>1
  <2> QED BY <2>1 DEF ThreadOK, SeekOK, InSeek, Behind, Appended
<1>4. ASSUME NEW p \in Places(h, f.v), p \notin Places(g, f.v), Nb(h, f.v, p) # Blank
      PROVE  /\ p = <<Len(h[f.v]), 1>> /\ Nb(h, f.v, p) = m
             /\ FilledBefore(h, f.v, p)
  <2>1. p[1] = Len(h[f.v]) /\ p[2] \in 1..EBSize /\ p = <<p[1], p[2]>>
    BY <1>1, <1>4
  <2>2. p = <<Len(h[f.v]), 1>> /\ Nb(h, f.v, p) = m
    BY <1>4, <2>1 DEF Appended
  <2>3. ASSUME NEW q \in Places(h, f.v), Lt(q, p) PROVE Nb(h, f.v, q) # Blank
    <3>1. q \in Places(g, f.v)
      BY <1>1, <2>2, <2>3, Sizes DEF Lt
    <3> QED BY <1>3, <3>1
  <2> QED BY <2>2, <2>3 DEF FilledBefore
<1>5. Fills(g, h, f.v)
  BY <1>1, <1>3, <1>4 DEF Fills
<1>6. ASSUME NEW x \in Vertices, OneSlot(g, f.v, x), x = m => Wants("grow", f, P, n, m)
      PROVE  OneSlot(h, f.v, x)
  <2> SUFFICES ASSUME NEW p \in Places(h, f.v), NEW q \in Places(h, f.v),
                      Nb(h, f.v, p) = x, Nb(h, f.v, q) = x
               PROVE  p = q
    BY DEF OneSlot, Nb
  <2>0. x # Blank
    BY Sizes
  <2>1. CASE p \in Places(g, f.v) /\ q \in Places(g, f.v)
    BY <1>3, <1>6, <2>1 DEF OneSlot, Nb
  <2>2. CASE p \notin Places(g, f.v) /\ q \notin Places(g, f.v)
    BY <1>4, <2>0, <2>2
  <2>3. CASE p \in Places(g, f.v) /\ q \notin Places(g, f.v)
    BY <1>3, <1>4, <1>6, <2>0, <2>3
  <2>4. CASE p \notin Places(g, f.v) /\ q \in Places(g, f.v)
    BY <1>3, <1>4, <1>6, <2>0, <2>4
  <2> QED BY <2>1, <2>2, <2>3, <2>4
<1>7. \A x : Wants("seek_block", f, Q, n, x) <=> Wants("grow", f, P, n, x) /\ x # m
  BY <1>1 DEF Wants
<1>8. FrameOK("seek_block", f, n)
  BY <1>1 DEF FrameOK, Labels
<1>9. CursorOK("seek_block", f, h)
  BY <1>1 DEF ThreadOK, CursorOK
<1>10. Uniform("seek_block", f, Q, n)
  BY <1>1 DEF ThreadOK, Uniform
<1>11. SeekOK("seek_block", f, Q, n, h)
  <2> SUFFICES ASSUME NEW p \in Places(h, f.v)
               PROVE  /\ Behind("seek_block", f, p) =>
                           Nb(h, f.v, p) # Blank /\ ~Wants("seek_block", f, Q, n, Nb(h, f.v, p))
                      /\ ~Wants("seek_block", f, Q, n, Nb(h, f.v, p))
    BY DEF SeekOK
  <2>1. CASE p \in Places(g, f.v)
    BY <1>3, <1>7, <2>1
  <2>2. CASE p \notin Places(g, f.v)
    <3>1. ~Behind("seek_block", f, p)
      BY <1>1, <2>2 DEF Behind
    <3>2. Nb(h, f.v, p) = m \/ Nb(h, f.v, p) = Blank
      BY <1>4, <2>2
    <3> QED BY <1>7, <1>8, <3>1, <3>2, WantedInUse
  <2> QED BY <2>1, <2>2
<1> QED BY <1>5, <1>6, <1>8, <1>9, <1>10, <1>11 DEF ThreadOK, UpdateOK, InFind

\* A thread takes a range.
LEMMA RangeTaken ==
  ASSUME NEW l \in {"find_block", "seek_block"}, NEW f, NEW n, FrameOK(l, f, n),
         f.tmp = 0, f.endk = 0, NEW P, NEW g, ListType(g),
         l = "find_block" => Len(g[f.v]) # 0,
         l = "seek_block" => Len(g[f.v]) = 0,
         \A i, j \in Span(l, f) : n[i] = n[j] => (i \in P <=> j \in P)
  PROVE  ThreadOK(l, f, P, n, g)
<1>1. /\ Len(g[f.v]) \in Nat /\ Places(g, f.v) = (1..Len(g[f.v])) \X (1..EBSize)
  BY WalkTypes
<1>2. CursorOK(l, f, g) /\ Uniform(l, f, P, n) /\ UpdateOK(l, f, P, n, g)
  BY <1>1, Sizes DEF CursorOK, Uniform, UpdateOK
<1>3. \A p \in Places(g, f.v) : ~Behind(l, f, p)
  BY <1>1 DEF Behind
<1>4. l = "find_block" => FindOK(l, f, P, n, g)
  BY <1>3 DEF FindOK, FindBehind
<1>5. l = "seek_block" => SeekOK(l, f, P, n, g)
  BY <1>1 DEF SeekOK
<1> QED BY <1>2, <1>4, <1>5 DEF ThreadOK, InFind, InSeek

-----------------------------------------------------------------------------
(* The passes and the order of the updates.                                *)

LEMMA PassFacts ==
  ASSUME input \in Cases
  PROVE  /\ Len(Passes) = IF input.directed THEN 4 ELSE 8
         /\ Len(Passes) \in {4, 8}
         /\ \A p \in 1..Len(Passes) :
              /\ Passes[p].half = IF p \in {1, 2, 5, 6} THEN "up" ELSE "down"
              /\ Passes[p].dir = IF p \in {1, 4, 5, 8} THEN "OUT" ELSE "IN"
              /\ Passes[p].at = IF p \in {1, 4, 6, 7} THEN "src" ELSE "dst"
              /\ Passes[p].at \in {"src", "dst"}
<1>1. input.directed \in BOOLEAN
  BY BatchInsertAssumption
<1>2. CASE input.directed
  BY <1>2 DEF Passes, Directed, Pass
<1>3. CASE ~input.directed
  <2> DEFINE A == [half : {"up", "down"}, dir : {"OUT", "IN"}, at : {"src", "dst"}]
  <2>1. /\ Directed \in Seq(A) /\ Len(Directed) = 4
        /\ Directed[1] = Pass("up", "OUT", "src") /\ Directed[2] = Pass("up", "IN", "dst")
        /\ Directed[3] = Pass("down", "IN", "dst") /\ Directed[4] = Pass("down", "OUT", "src")
    BY DEF Directed, Pass
  <2>2. /\ Backwards \in Seq(A) /\ Len(Backwards) = 4
        /\ Backwards[1] = Pass("up", "OUT", "dst") /\ Backwards[2] = Pass("up", "IN", "src")
        /\ Backwards[3] = Pass("down", "IN", "src") /\ Backwards[4] = Pass("down", "OUT", "dst")
    BY DEF Backwards, Pass
  <2> HIDE DEF A
  <2>3. ASSUME NEW s \in Seq(A), NEW t \in Seq(A)
        PROVE  /\ s \o t \in Seq(A) /\ Len(s \o t) = Len(s) + Len(t)
               /\ \A p \in 1..Len(s) + Len(t) :
                    (s \o t)[p] = IF p <= Len(s) THEN s[p] ELSE t[p - Len(s)]
    <3>1. s \o t \in Seq(A)
      OBVIOUS
    <3>2. Len(s \o t) = Len(s) + Len(t)
      OBVIOUS
    <3>3. ASSUME NEW p \in 1..Len(s) + Len(t)
          PROVE  (s \o t)[p] = IF p <= Len(s) THEN s[p] ELSE t[p - Len(s)]
      OBVIOUS
    <3> QED BY <3>1, <3>2, <3>3
  <2>4. /\ Passes \in Seq(A) /\ Len(Passes) = 8
        /\ \A p \in 1..8 : Passes[p] = IF p <= 4 THEN Directed[p] ELSE Backwards[p - 4]
    <3>1. Passes = Directed \o Backwards
      BY <1>3 DEF Passes
    <3>2. /\ Passes \in Seq(A) /\ Len(Passes) = Len(Directed) + Len(Backwards)
          /\ \A p \in 1..Len(Directed) + Len(Backwards) :
               Passes[p] = IF p <= Len(Directed) THEN Directed[p] ELSE Backwards[p - Len(Directed)]
      BY <2>1, <2>2, <2>3, <3>1
    <3> QED BY <2>1, <2>2, <3>2
  <2>5. \A p \in 1..8 :
          /\ Passes[p].half = IF p \in {1, 2, 5, 6} THEN "up" ELSE "down"
          /\ Passes[p].dir = IF p \in {1, 4, 5, 8} THEN "OUT" ELSE "IN"
          /\ Passes[p].at = IF p \in {1, 4, 6, 7} THEN "src" ELSE "dst"
    <3>1. /\ Passes[1] = Pass("up", "OUT", "src") /\ Passes[2] = Pass("up", "IN", "dst")
          /\ Passes[3] = Pass("down", "IN", "dst") /\ Passes[4] = Pass("down", "OUT", "src")
      BY <2>1, <2>4
    <3>2. /\ Passes[5] = Pass("up", "OUT", "dst") /\ Passes[6] = Pass("up", "IN", "src")
          /\ Passes[7] = Pass("down", "IN", "src") /\ Passes[8] = Pass("down", "OUT", "dst")
      BY <2>2, <2>4
    <3>3. 1..8 = {1, 2, 3, 4, 5, 6, 7, 8}
      OBVIOUS
    <3> QED BY <3>1, <3>2, <3>3 DEF Pass
  <2> QED BY <1>3, <2>4, <2>5
<1> QED BY <1>1, <1>2, <1>3

LEMMA UnmixedBothWays == \A v, n : Unmixed(v, n) <=> Unmixed(n, v)
<1> SUFFICES ASSUME NEW v, NEW n PROVE Unmixed(v, n) <=> Unmixed(n, v)
  OBVIOUS
<1>1. {v, n} = {n, v}
  OBVIOUS
<1> QED BY <1>1 DEF Unmixed

LEMMA UpdateTypes ==
  ASSUME input \in Cases
  PROVE  /\ \A x \in Ids : /\ Upd(x).src \in Vertices /\ Upd(x).dst \in Vertices
                           /\ Upd(x).ts \in Int /\ Upd(x).result \in Presets
                           /\ Source(x) \in Vertices /\ Neighbor(x) \in Vertices
         /\ \A x, y \in Ids : Source(x) = Source(y) /\ Neighbor(x) = Neighbor(y) =>
              /\ Pure(x) <=> Pure(y)
              /\ Pure(x) => (Upd(x).result = 0 <=> Upd(y).result = 0)
         /\ \A x \in Ids : Pure(x) <=> Unmixed(Source(x), Neighbor(x))
         /\ Len(input.batch) \in Nat /\ Ids = 1..Len(input.batch)
<1>1. input.batch \in Seq(Updates)
  BY BatchInsertAssumption
<1>2. \A x \in Ids : Upd(x) \in Updates
  BY <1>1 DEF Ids, Upd
<1>3. \A x \in Ids : /\ Upd(x).src \in Vertices /\ Upd(x).dst \in Vertices
                     /\ Upd(x).ts \in Int /\ Upd(x).result \in Presets
  BY <1>2 DEF Updates
<1>4. \A x \in Ids : Source(x) \in Vertices /\ Neighbor(x) \in Vertices
  BY <1>3 DEF Source, Neighbor
<1>5. \A x, y \in Ids : Source(x) = Source(y) /\ Neighbor(x) = Neighbor(y) =>
        Upd(x).src = Upd(y).src /\ Upd(x).dst = Upd(y).dst
  BY DEF Source, Neighbor
<1>6. \A x, y \in Ids : Upd(x).src = Upd(y).src /\ Upd(x).dst = Upd(y).dst =>
        /\ Pure(x) <=> Pure(y)
        /\ Pure(x) => (Upd(x).result = 0 <=> Upd(y).result = 0)
  BY DEF Pure, Unmixed, SameEdge
<1>7. Len(input.batch) \in Nat /\ Ids = 1..Len(input.batch)
  BY <1>1 DEF Ids
<1>8. \A x \in Ids : Pure(x) <=> Unmixed(Source(x), Neighbor(x))
  BY UnmixedBothWays DEF Pure, Source, Neighbor
<1> QED BY <1>3, <1>4, <1>5, <1>6, <1>7, <1>8

LEMMA OrderTypes ==
  ASSUME Types
  PROVE  /\ Len(order) \in Nat /\ DOMAIN order = 1..Len(order)
         /\ DOMAIN Src = DOMAIN order /\ DOMAIN Nbr = DOMAIN order
         /\ \A i \in DOMAIN order : /\ i \in Nat /\ i >= 1 /\ order[i] \in Ids
                                    /\ Src[i] = Source(order[i]) /\ Src[i] \in Vertices
                                    /\ Nbr[i] = Neighbor(order[i]) /\ Nbr[i] \in Vertices
<1>1. order \in Seq(Ids)
  BY DEF Types
<1>2. Len(order) \in Nat /\ DOMAIN order = 1..Len(order)
  BY <1>1
<1>3. \A i \in DOMAIN order : order[i] \in Ids
  BY <1>1
<1> QED BY <1>2, <1>3, UpdateTypes DEF Types, Src, Nbr

\* A thread with a range: its positions are those of updates of its vertex.
LEMMA Ranged ==
  ASSUME Inv, NEW t \in Threads, pc[t] # "idle"
  PROVE  /\ FrameOK(pc[t], frame[t], Nbr) /\ frame[t] \in FrameType /\ pc[t] \in Labels
         /\ Span(pc[t], frame[t]) = frame[t].first..frame[t].last
         /\ frame[t].first \in DOMAIN order /\ frame[t].last \in DOMAIN order
         /\ frame[t].first <= frame[t].last
         /\ \A i \in Span(pc[t], frame[t]) :
              i \in DOMAIN order /\ Src[i] = frame[t].v /\ order[i] \in Ids
         /\ frame[t].v \in Vertices
         /\ ThreadOK(pc[t], frame[t], Due, Nbr, list) /\ ListType(list)
         /\ WorkOK(pc[t], frame[t], Pend)
<1>1. Types /\ IsRange(Src, frame[t].first, frame[t].last) /\ frame[t].v = Src[frame[t].first]
  BY DEF Inv, RangesOK
<1>2. Span(pc[t], frame[t]) = frame[t].first..frame[t].last
  BY DEF Span
<1>3. /\ frame[t].first \in DOMAIN order /\ frame[t].last \in DOMAIN order
      /\ frame[t].first <= frame[t].last
      /\ \A i \in frame[t].first..frame[t].last : Src[i] = frame[t].v
  BY <1>1, OrderTypes DEF IsRange
<1>4. \A i \in frame[t].first..frame[t].last : i \in DOMAIN order
  BY <1>1, <1>3, OrderTypes
<1>5. pc[t] \in Labels /\ frame[t] \in FrameType
  BY <1>1 DEF Types
<1>6. FrameOK(pc[t], frame[t], Nbr)
  BY <1>1, <1>2, <1>3, <1>4, <1>5, OrderTypes DEF FrameOK
<1> QED BY <1>1, <1>2, <1>3, <1>4, <1>5, <1>6, OrderTypes DEF Inv, Types

LEMMA NextIs ==
  ASSUME NEW t \in Threads, frame[t].first \in Nat, frame[t].first >= 1, frame[t].last \in Nat,
         NEW res
  PROVE  \/ /\ NextUpdate(t, res) = None
            /\ \A i \in frame[t].first..frame[t].last : res[order[i]] # PENDING
         \/ /\ NextUpdate(t, res) # None
            /\ NextUpdate(t, res) \in frame[t].first..frame[t].last
            /\ res[order[NextUpdate(t, res)]] = PENDING
            /\ \A i \in frame[t].first..frame[t].last :
                 res[order[i]] = PENDING => NextUpdate(t, res) <= i
<1> DEFINE T == {i \in frame[t].first..frame[t].last : res[order[i]] = PENDING}
<1>1. CASE T = {}
  BY <1>1 DEF NextUpdate
<1>2. CASE T # {}
  <2>1. T \in SUBSET Nat
    OBVIOUS
  <2>2. Min(T) \in T /\ \A x \in T : Min(T) <= x
    BY <1>2, <2>1, MinOf
  <2>3. NextUpdate(t, res) = Min(T)
    BY <1>2 DEF NextUpdate
  <2>4. NextUpdate(t, res) # None
    BY <2>2, <2>3 DEF None
  <2> QED BY <2>2, <2>3, <2>4
<1> QED BY <1>1, <1>2

\* The same of a thread's span and of what is pending now.
LEMMA FirstPending ==
  ASSUME Inv, NEW t \in Threads, pc[t] # "idle"
  PROVE  \/ /\ NextUpdate(t, result) = None /\ Span(pc[t], frame[t]) \cap Pend = {}
         \/ /\ NextUpdate(t, result) # None
            /\ NextUpdate(t, result) \in Span(pc[t], frame[t]) \cap Pend
            /\ \A i \in Span(pc[t], frame[t]) \cap Pend : NextUpdate(t, result) <= i
<1>1. /\ Span(pc[t], frame[t]) = frame[t].first..frame[t].last
      /\ frame[t].first \in Nat /\ frame[t].first >= 1 /\ frame[t].last \in Nat
      /\ \A i \in Span(pc[t], frame[t]) : i \in DOMAIN order
  BY Ranged, OrderTypes DEF Inv
<1> QED BY <1>1, NextIs DEF Pend

\* find_updates finds what a thread wants.
LEMMA FindIs ==
  ASSUME Inv, NEW t \in Threads, pc[t] \notin {"idle", "update"}, NEW m
  PROVE  \/ /\ FindUpdates(t, m) = None
            /\ ~Wants(pc[t], frame[t], Due, Nbr, m)
         \/ /\ FindUpdates(t, m) # None
            /\ FindUpdates(t, m) \in Span(pc[t], frame[t]) \cap Pend
            /\ Nbr[FindUpdates(t, m)] = m
            /\ FindUpdates(t, m) \in Due =>
                 \A i \in Span(pc[t], frame[t]) : Nbr[i] = m => i >= FindUpdates(t, m) /\ i \in Pend
<1> DEFINE next == NextUpdate(t, result)
           span == Span(pc[t], frame[t])
           same == {i \in next..frame[t].last : Neighbor(order[i]) = m}
<1>1. /\ span = frame[t].first..frame[t].last
      /\ frame[t].first \in Nat /\ frame[t].first >= 1 /\ frame[t].last \in Nat
      /\ \A i \in span : i \in DOMAIN order /\ i \in Nat /\ i >= 1 /\ Nbr[i] = Neighbor(order[i])
  BY Ranged, OrderTypes DEF Inv
<1>2. \A i, j \in span : Nbr[i] = Nbr[j] => (i \in Due <=> j \in Due)
  BY Ranged DEF ThreadOK, Uniform
<1>3. CASE next = None
  BY <1>3, FirstPending DEF FindUpdates, Wants, Due
<1>4. CASE next # None /\ same = {}
  <2>1. FindUpdates(t, m) = None
    BY <1>4 DEF FindUpdates
  <2>2. ASSUME NEW i \in span, i \in Due, Nbr[i] = m PROVE FALSE
    <3>1. next \in span /\ next <= i
      BY <1>4, <2>2, FirstPending DEF Due
    <3>2. i \in same
      BY <1>1, <2>2, <3>1
    <3> QED BY <1>4, <3>2
  <2> QED BY <2>1, <2>2 DEF Wants
<1>5. CASE next # None /\ same # {}
  <2>1. next \in span /\ \A i \in span \cap Pend : next <= i
    BY <1>5, FirstPending
  <2>2. same \in SUBSET span /\ same \in SUBSET Nat
    BY <1>1, <2>1
  <2>3. Min(same) \in same /\ \A i \in same : Min(same) <= i
    BY <1>5, <2>2, MinOf
  <2> DEFINE u == Min(same)
  <2>4. u \in span /\ Nbr[u] = m /\ u # None
    BY <1>1, <2>2, <2>3 DEF None
  <2> HIDE DEF u
  <2>5. \A i \in span : Nbr[i] = m /\ i \in Pend => u <= i
    BY <1>1, <2>1, <2>3 DEF u
  <2>6. CASE u \in Pend
    <3>1. FindUpdates(t, m) = u
      BY <1>5, <2>6 DEF FindUpdates, Pend, u
    <3>2. u \in Due => \A i \in span : Nbr[i] = m => i \in Pend
      BY <1>2, <2>4 DEF Due
    <3> QED BY <2>4, <2>5, <2>6, <3>1, <3>2
  <2>7. CASE u \notin Pend
    <3>1. result[order[u]] # PENDING
      BY <1>1, <2>4, <2>7 DEF Pend
    <3>2. FindUpdates(t, m) = None
      BY <1>5, <3>1 DEF FindUpdates, u
    <3>3. \A i \in span : Nbr[i] = m => i \notin Due
      BY <1>2, <2>4, <2>7 DEF Due
    <3> QED BY <3>2, <3>3 DEF Wants
  <2> QED BY <2>6, <2>7
<1> QED BY <1>3, <1>4, <1>5

-----------------------------------------------------------------------------
(* A step of a thread with a range: what it owes the others.               *)

LEMMA SameOrder ==
  ASSUME input' = input, pass' = pass, order' = order
  PROVE  /\ Ids' = Ids /\ Src' = Src /\ Nbr' = Nbr /\ Passes' = Passes
         /\ \A x : Upd(x)' = Upd(x)
         /\ Half("up")' = Half("up") /\ Half("down")' = Half("down")
         /\ \A v, n : Unmixed(v, n)' = Unmixed(v, n)
         /\ \A x : Pure(x)' = Pure(x)
<1>1. Passes' = Passes
  BY DEF Passes
<1>2. \A x : Upd(x)' = Upd(x)
  BY DEF Upd
<1>3. Ids' = Ids
  BY DEF Ids
<1>4. \A x : Source(x)' = Source(x) /\ Neighbor(x)' = Neighbor(x)
  BY <1>1, <1>2 DEF Source, Neighbor
<1>5. Src' = Src /\ Nbr' = Nbr
  BY <1>4 DEF Src, Nbr
<1>6. Half("up")' = Half("up") /\ Half("down")' = Half("down")
  BY <1>2, <1>3 DEF Half
<1>7. \A v, n : Unmixed(v, n)' = Unmixed(v, n)
  BY <1>2, <1>3 DEF Unmixed, SameEdge, OneSlot
<1>8. \A x : Pure(x)' = Pure(x)
  BY <1>2, <1>7 DEF Pure
<1> QED BY <1>1, <1>2, <1>3, <1>5, <1>6, <1>7, <1>8

\* The updates whose results a step sets: those of the thread's range, pending
\* ones unless their marks are mixed.
Settles(t) ==
  /\ result' \in [Ids -> Codes]
  /\ \A x \in Ids : result'[x] # result[x] =>
       /\ Pure(x) => result[x] = PENDING
       /\ result'[x] \in {ADDED, UPDATED}
       /\ \E i \in Span(pc[t], frame[t]) : order[i] = x

LEMMA SettledPend ==
  ASSUME Inv, NEW t \in Threads, pc[t] # "idle", input' = input, pass' = pass, order' = order,
         Settles(t)
  PROVE  /\ Pend' \subseteq Pend
         /\ \A i \in DOMAIN order : i \notin Span(pc[t], frame[t]) => (i \in Pend' <=> i \in Pend)
         /\ \A i : i \in Due' <=> i \in Pend' /\ i \in Pend /\ Pure(order[i])
<1>1. \A i \in Span(pc[t], frame[t]) : i \in DOMAIN order
  BY Ranged
<1>2. \A i, j \in DOMAIN order : order[i] = order[j] => i = j
  BY DEF Inv, OrderOK
<1>3. \A i \in DOMAIN order : order[i] \in Ids
  BY OrderTypes DEF Inv
<1>4. \A i \in DOMAIN order : i \notin Span(pc[t], frame[t]) => result'[order[i]] = result[order[i]]
  BY <1>1, <1>2, <1>3 DEF Settles
<1>5. \A i \in DOMAIN order : result'[order[i]] = PENDING => result[order[i]] = PENDING
  BY <1>3 DEF Settles, ADDED, UPDATED, PENDING
<1>6. Pend' \subseteq Pend
  BY <1>5 DEF Pend
<1>7. \A i : i \in Due' <=> i \in Pend' /\ Pure(order[i])
  BY SameOrder DEF Due
<1> QED BY <1>4, <1>6, <1>7 DEF Pend

LEMMA ThreadStep ==
  ASSUME Inv, NEW t \in Threads, pc[t] # "idle", NEW l \in Labels, NEW f \in FrameType,
         input' = input, pass' = pass, order' = order, todo' = todo,
         pc' = [pc EXCEPT ![t] = l], frame' = [frame EXCEPT ![t] = f],
         l = "idle" => f = Idle /\ Span(pc[t], frame[t]) \cap Pend' = {},
         l # "idle" => Alike(f, frame[t]),
         Settles(t), ListType(list'),
         \A w \in Vertices : Fills(list, list', w),
         \A w, m \in Vertices : Unmixed(w, m) => OneSlot(list', w, m),
         ThreadOK(l, f, Due', Nbr, list'), WorkOK(l, f, Pend')
  PROVE  Inv'
<1>0. /\ Types /\ pc \in [Threads -> Labels] /\ frame \in [Threads -> FrameType]
      /\ pc'[t] = l /\ frame'[t] = f
      /\ \A u \in Threads : u # t => pc'[u] = pc[u] /\ frame'[u] = frame[u]
  BY DEF Inv, Types
<1>1. /\ Ids' = Ids /\ Src' = Src /\ Nbr' = Nbr /\ Passes' = Passes
      /\ \A x : Upd(x)' = Upd(x)
      /\ Half("up")' = Half("up") /\ Half("down")' = Half("down")
      /\ \A v, n : Unmixed(v, n)' = Unmixed(v, n)
      /\ \A x : Pure(x)' = Pure(x)
  BY SameOrder
<1>2. Pend' \subseteq Pend
  BY SettledPend
<1>3. \A i \in DOMAIN order : i \notin Span(pc[t], frame[t]) => (i \in Pend' <=> i \in Pend)
  BY SettledPend
<1>4. Types'
  <2>1. pc' \in [Threads -> Labels] /\ frame' \in [Threads -> FrameType]
    BY <1>0
  <2>2. \A u \in Threads : pc'[u] = "idle" => frame'[u] = Idle
    BY <1>0 DEF Types
  <2>3. result' \in [Ids' -> Codes]
    BY <1>1 DEF Settles
  <2> QED BY <1>0, <1>1, <2>1, <2>2, <2>3 DEF Types
<1>5. OrderOK'
  <2>1. pass > 0 => Half(Passes[pass].half)' = Half(Passes[pass].half)
    BY <1>1 DEF Half
  <2> QED BY <1>1, <2>1 DEF Inv, OrderOK
<1>6. \A u \in Threads : /\ Span(pc'[u], frame'[u]) \subseteq Span(pc[u], frame[u])
                         /\ pc'[u] # "idle" => /\ Span(pc'[u], frame'[u]) = Span(pc[u], frame[u])
                                               /\ frame'[u].first = frame[u].first
                                               /\ frame'[u].last = frame[u].last
                                               /\ frame'[u].v = frame[u].v /\ pc[u] # "idle"
  BY <1>0 DEF Span, Alike
<1>7. RangesOK'
  <2>1. \A r \in todo' : IsRange(Src', r[1], r[2])
    BY <1>1 DEF Inv, RangesOK
  <2>2. \A r, s \in todo' : r # s => (r[1]..r[2]) \cap (s[1]..s[2]) = {}
    BY DEF Inv, RangesOK
  <2>3. \A u \in Threads : pc'[u] # "idle" =>
          /\ IsRange(Src', frame'[u].first, frame'[u].last) /\ frame'[u].v = Src'[frame'[u].first]
          /\ \A r \in todo' : (r[1]..r[2]) \cap Span(pc'[u], frame'[u]) = {}
    BY <1>1, <1>6 DEF Inv, RangesOK
  <2>4. \A u, w \in Threads : u # w => Span(pc'[u], frame'[u]) \cap Span(pc'[w], frame'[w]) = {}
    <3>1. \A u, w \in Threads : u # w => Span(pc[u], frame[u]) \cap Span(pc[w], frame[w]) = {}
      BY DEF Inv, RangesOK
    <3> QED BY <1>6, <3>1
  <2> QED BY <2>1, <2>2, <2>3, <2>4 DEF RangesOK
<1>8. Covered'
  <2> SUFFICES ASSUME NEW i \in Pend'
               PROVE  \/ \E r \in todo : i \in r[1]..r[2]
                      \/ \E u \in Threads : i \in Span(pc'[u], frame'[u])
    BY DEF Covered
  <2>1. CASE \E r \in todo : i \in r[1]..r[2]
    BY <2>1
  <2>2. ASSUME NEW u \in Threads, i \in Span(pc[u], frame[u])
        PROVE  \E w \in Threads : i \in Span(pc'[w], frame'[w])
    <3>1. CASE pc'[u] # "idle"
      BY <1>6, <2>2, <3>1
    <3>2. CASE pc'[u] = "idle" /\ u = t
      BY <1>0, <2>2, <3>2
    <3>3. CASE pc'[u] = "idle" /\ u # t
      BY <1>0, <2>2, <3>3 DEF Span
    <3> QED BY <3>1, <3>2, <3>3
  <2> QED BY <1>2, <2>1, <2>2 DEF Inv, Covered
<1>9. ResultsOK'
  <2>1. \A x \in Ids : Pure(x) => (result'[x] \in {-1, 1} <=> Upd(x).result # 0)
    <3>1. \A x \in Ids : Pure(x) => (result[x] \in {-1, 1} <=> Upd(x).result # 0)
      BY DEF Inv, ResultsOK
    <3> QED BY <3>1 DEF Settles, ADDED, UPDATED, PENDING
  <2>2. ASSUME NEW r \in todo, NEW i \in r[1]..r[2], Pure(order[i])
        PROVE  i \in Pend' <=> Upd(order[i]).result = 0
    <3>1. i \in DOMAIN order
      <4>1. r[1] \in DOMAIN order /\ r[2] \in DOMAIN order
        BY <1>0, OrderTypes DEF Inv, RangesOK, IsRange
      <4> QED BY <1>0, <4>1, OrderTypes
    <3>2. i \notin Span(pc[t], frame[t])
      BY DEF Inv, RangesOK
    <3>3. i \in Pend <=> Upd(order[i]).result = 0
      BY <2>2 DEF Inv, ResultsOK
    <3> QED BY <1>3, <3>1, <3>2, <3>3
  <2>3. ASSUME NEW x \in Ids, Pure(x), Upd(x).result = 0,
               pass = 0 \/ (pass \in {1, 2, 5, 6} /\ x \in Half("down"))
        PROVE  result'[x] = PENDING
    <3>1. result[x] = PENDING
      BY <2>3 DEF Inv, ResultsOK
    <3>2. ASSUME NEW i \in Span(pc[t], frame[t]), order[i] = x PROVE FALSE
      <4>1. i \in DOMAIN order
        BY Ranged
      <4>2. pass # 0
        BY <4>1 DEF Inv, OrderOK
      <4>3. pass > 0 /\ pass \in 1..Len(Passes)
        BY <1>0, <4>2, PassFacts DEF Types
      <4>4. x \in Half(Passes[pass].half)
        BY <3>2, <4>1, <4>3 DEF Inv, OrderOK
      <4>5. Passes[pass].half = "up"
        BY <1>0, <2>3, <4>2, <4>3, PassFacts DEF Types
      <4> QED BY <2>3, <4>2, <4>4, <4>5 DEF Half
    <3> QED BY <3>1, <3>2 DEF Settles
  <2> QED BY <1>1, <2>1, <2>2, <2>3 DEF ResultsOK
<1>10. UniqueNeighbor'
  BY <1>1 DEF UniqueNeighbor
<1>11. ASSUME NEW u \in Threads PROVE ThreadOK(pc'[u], frame'[u], Due', Nbr', list')
  <2>1. CASE u = t
    BY <1>0, <1>1, <2>1
  <2>2. CASE u # t /\ pc[u] = "idle"
    BY <1>0, <2>2 DEF ThreadOK
  <2>3. CASE u # t /\ pc[u] # "idle"
    <3>1. /\ FrameOK(pc[u], frame[u], Nbr) /\ frame[u].v \in Vertices /\ ListType(list)
          /\ ThreadOK(pc[u], frame[u], Due, Nbr, list)
          /\ \A i \in Span(pc[u], frame[u]) : i \in DOMAIN order
      BY <2>3, Ranged
    <3>2. Span(pc[u], frame[u]) \cap Span(pc[t], frame[t]) = {}
      BY <2>3 DEF Inv, RangesOK
    <3>3. \A i \in Span(pc[u], frame[u]) : i \in Due <=> i \in Due'
      <4>1. \A i \in Span(pc[u], frame[u]) : i \in Pend <=> i \in Pend'
        BY <1>3, <3>1, <3>2
      <4>2. \A i : i \in Due' <=> i \in Pend' /\ i \in Pend /\ Pure(order[i])
        BY SettledPend
      <4> QED BY <4>1, <4>2 DEF Due
    <3>4. ThreadOK(pc[u], frame[u], Due', Nbr, list')
      BY <2>3, <3>1, <3>3, OthersKeep
    <3> QED BY <1>0, <1>1, <2>3, <3>4
  <2> QED BY <2>1, <2>2, <2>3
<1>12. ASSUME NEW u \in Threads PROVE WorkOK(pc[u], frame[u], Pend)'
  <2>1. WorkOK(pc'[u], frame'[u], Pend') => WorkOK(pc[u], frame[u], Pend)'
    BY <1>1 DEF WorkOK, Span
  <2>2. CASE u = t
    BY <1>0, <2>1, <2>2
  <2>3. CASE u # t /\ pc[u] = "idle"
    BY <1>0, <2>1, <2>3 DEF WorkOK
  <2>4. CASE u # t /\ pc[u] # "idle"
    <3>1. /\ ThreadOK(pc[u], frame[u], Due, Nbr, list) /\ WorkOK(pc[u], frame[u], Pend)
          /\ \A i \in Span(pc[u], frame[u]) : i \in DOMAIN order
      BY <2>4, Ranged
    <3>2. Span(pc[u], frame[u]) \cap Span(pc[t], frame[t]) = {}
      BY <2>4 DEF Inv, RangesOK
    <3>3. \A i \in Span(pc[u], frame[u]) : i \in Pend <=> i \in Pend'
      BY <1>3, <3>1, <3>2
    <3>4. pc[u] = "update" => frame[u].u \in Span(pc[u], frame[u])
      BY <2>4, <3>1 DEF ThreadOK, UpdateOK
    <3>5. WorkOK(pc[u], frame[u], Pend')
      BY <3>1, <3>3, <3>4 DEF WorkOK
    <3> QED BY <1>0, <2>1, <2>4, <3>5
  <2> QED BY <2>2, <2>3, <2>4
<1> QED BY <1>4, <1>5, <1>7, <1>8, <1>9, <1>10, <1>11, <1>12 DEF Inv

\* A step that only moves the thread.
LEMMA QuietStep ==
  ASSUME Inv, NEW t \in Threads, pc[t] # "idle", NEW l \in Labels, NEW f \in FrameType,
         UNCHANGED <<input, pass, order, result, todo, list>>,
         pc' = [pc EXCEPT ![t] = l], frame' = [frame EXCEPT ![t] = f],
         l = "idle" => f = Idle /\ Span(pc[t], frame[t]) \cap Pend = {},
         l # "idle" => Alike(f, frame[t]),
         ThreadOK(l, f, Due, Nbr, list), WorkOK(l, f, Pend)
  PROVE  Inv'
<1>1. Pend' = Pend /\ Settles(t)
  BY DEF Pend, Settles, Inv, Types
<1>0. Due' = Due
  BY <1>1, SameOrder DEF Due
<1>2. ListType(list') /\ ListType(list)
  BY DEF Inv, Types
<1>3. \A w \in Vertices : Fills(list, list', w)
  BY <1>2, FillsItself
<1>4. \A w, m \in Vertices : Unmixed(w, m) => OneSlot(list', w, m)
  BY DEF Inv, UniqueNeighbor, OneSlot
<1> QED BY <1>0, <1>1, <1>2, <1>3, <1>4, ThreadStep

-----------------------------------------------------------------------------
(* The steps of the two walks.                                             *)

\* The variables f, with updates in hand: from position u on, of a slot.
Begun(f, u, r, m, s) == [f EXCEPT !.u = u, !.res = r, !.mode = m, !.scan = s]
BegunTo(f, c, u, r, m, s) ==
  [f EXCEPT !.endk = c, !.u = u, !.res = r, !.mode = m, !.scan = s]

LEMMA Beginning ==
  ASSUME NEW f \in FrameType, NEW u \in Nat, NEW r \in {ADDED, UPDATED},
         NEW m \in Operations, NEW s \in {"find", "seek"}
  PROVE  /\ Alike(Begun(f, u, r, m, s), f) /\ Begun(f, u, r, m, s).tmp = f.tmp
         /\ Begun(f, u, r, m, s).k = f.k /\ Begun(f, u, r, m, s).endk = f.endk
         /\ Begun(f, u, r, m, s).u = u /\ Begun(f, u, r, m, s).res = r
         /\ Begun(f, u, r, m, s).scan = s
<1>1. Begun(f, u, r, m, s) \in FrameType
  BY DEF FrameType, Begun
<1> QED BY <1>1 DEF FrameType, Begun, Alike

LEMMA BeginningTo ==
  ASSUME NEW f \in FrameType, NEW c \in Nat, NEW u \in Nat, NEW r \in {ADDED, UPDATED},
         NEW m \in Operations, NEW s \in {"find", "seek"}
  PROVE  /\ Alike(BegunTo(f, c, u, r, m, s), f) /\ BegunTo(f, c, u, r, m, s).tmp = f.tmp
         /\ BegunTo(f, c, u, r, m, s).k = f.k /\ BegunTo(f, c, u, r, m, s).endk = c
         /\ BegunTo(f, c, u, r, m, s).u = u /\ BegunTo(f, c, u, r, m, s).res = r
         /\ BegunTo(f, c, u, r, m, s).scan = s
<1>1. BegunTo(f, c, u, r, m, s) \in FrameType
  BY DEF FrameType, BegunTo
<1> QED BY <1>1 DEF FrameType, BegunTo, Alike

\* What a thread owes of its work, at the labels of its walks.
LEMMA NoWork ==
  ASSUME NEW l \in {"idle", "find_block", "find", "seek_block"}, NEW f, NEW P
  PROVE  WorkOK(l, f, P)
BY DEF WorkOK

LEMMA SameWork ==
  ASSUME NEW l \in {"seek", "claim", "grow"}, NEW m \in {"seek", "claim", "grow"},
         NEW f, NEW e, Alike(e, f), NEW P, WorkOK(l, f, P)
  PROVE  WorkOK(m, e, P)
BY DEF WorkOK, Span, Alike

\* What a thread reads at its cursor.
LEMMA Cursor ==
  ASSUME Inv, NEW t \in Threads, pc[t] # "idle"
  PROVE  /\ frame[t] \in FrameType /\ frame[t].v \in Vertices
         /\ frame[t].tmp \in Nat /\ frame[t].k \in Nat /\ frame[t].endk \in Nat
         /\ Blocks(t) = list[frame[t].v] /\ Len(Blocks(t)) \in Nat
         /\ Slot(t).neighbor = Nb(list, frame[t].v, Here(frame[t]))
         /\ input.operation \in Operations
         /\ \A s : Result(s) \in {ADDED, UPDATED}
         /\ \A b \in 1..Len(Blocks(t)) : Blocks(t)[b].high \in Nat /\ Blocks(t)[b].high <= EBSize
<1>1. frame[t] \in FrameType /\ frame[t].v \in Vertices /\ ListType(list)
  BY Ranged
<1>2. frame[t].tmp \in Nat /\ frame[t].k \in Nat /\ frame[t].endk \in Nat
  BY <1>1 DEF FrameType
<1>3. Blocks(t) = list[frame[t].v] /\ Len(Blocks(t)) \in Nat
  BY <1>1, ListFacts DEF Blocks
<1>4. Slot(t).neighbor = Nb(list, frame[t].v, Here(frame[t]))
  BY DEF Slot, Block, Blocks, Nb, At, Here
<1>5. input.operation \in Operations
  BY BatchInsertAssumption DEF Inv, Types
<1>6. \A s : Result(s) \in {ADDED, UPDATED}
  BY DEF Result
<1>7. \A b \in 1..Len(Blocks(t)) : Blocks(t)[b].high \in Nat /\ Blocks(t)[b].high <= EBSize
  <2>1. /\ DOMAIN list[frame[t].v] = 1..Len(list[frame[t].v])
        /\ \A b \in DOMAIN list[frame[t].v] : list[frame[t].v][b].high \in 0..EBSize
    BY <1>1, ListFacts
  <2> QED BY <1>3, <2>1, Sizes
<1> QED BY <1>1, <1>2, <1>3, <1>4, <1>5, <1>6, <1>7

LEMMA FindBlockInv == ASSUME Inv, NEW t \in Threads, FindBlock(t) PROVE Inv'
<1> DEFINE f == frame[t]
           high == Blocks(t)[f.tmp + 1].high
           e == Entered(f, f.tmp + 1, 1, high)
<1>1. pc[t] = "find_block"
  BY DEF FindBlock
<1>2. FrameOK("find_block", f, Nbr) /\ ThreadOK("find_block", f, Due, Nbr, list) /\ ListType(list)
  BY <1>1, Ranged
<1>3. f \in FrameType /\ f.tmp + 1 \in Nat /\ high \in Nat /\ Blocks(t) = list[f.v]
  <2>1. f.tmp + 1 \in 1..Len(Blocks(t))
    BY <1>1, <1>2, Cursor DEF ThreadOK, CursorOK
  <2> QED BY <1>1, <2>1, Cursor
<1>4. frame' = [frame EXCEPT ![t] = e] /\ pc' = [pc EXCEPT ![t] = "find"]
  BY DEF FindBlock, EnterBlock, Goto, Entered, Inv, Types
<1>5. Alike(e, f) /\ e.tmp = f.tmp + 1 /\ e.k = 1 /\ e.endk = list[f.v][f.tmp + 1].high
  <2> HIDE DEF f, high
  <2>1. Alike(e, f) /\ e.tmp = f.tmp + 1 /\ e.k = 1 /\ e.endk = high
    <3>1. f \in FrameType /\ f.tmp + 1 \in Nat /\ 1 \in Nat /\ high \in Nat
      BY <1>3
    <3> QED BY <3>1, Entering
  <2>2. high = list[f.v][f.tmp + 1].high
    BY <1>3 DEF high
  <2> QED BY <2>1, <2>2
<1>6. UNCHANGED <<input, pass, order, result, todo, list>>
  BY DEF FindBlock
<1> HIDE DEF e, f
<1>7. ThreadOK("find", e, Due, Nbr, list)
  BY <1>2, <1>5, EnterFind
<1> QED BY <1>1, <1>4, <1>5, <1>6, <1>7, NoWork, QuietStep DEF Labels, Alike, f

\* A thread takes a slot in hand at one of the labels of its walks.
LEMMA InHandStep ==
  ASSUME Inv, NEW t \in Threads, NEW l \in {"find", "seek", "claim"}, pc[t] = l,
         frame[t].k <= EBSize, FindUpdates(t, Slot(t).neighbor) # None,
         UNCHANGED <<input, pass, order, result, todo, list>>, Goto(t, "update"),
         NEW e, frame' = [frame EXCEPT ![t] = e], Alike(e, frame[t]),
         e.tmp = frame[t].tmp, e.k = frame[t].k, e.res \in {ADDED, UPDATED},
         e.u = FindUpdates(t, Slot(t).neighbor),
         e.scan = IF l = "find" THEN "find" ELSE "seek",
         e.endk <= EBSize, l = "find" => e.endk = frame[t].endk
  PROVE  Inv'
<1>1. FrameOK(l, frame[t], Nbr) /\ ThreadOK(l, frame[t], Due, Nbr, list) /\ ListType(list)
  BY Ranged
<1>2. Slot(t).neighbor = Nb(list, frame[t].v, Here(frame[t]))
  BY Cursor
<1>3. /\ e.u \in Span(l, frame[t]) \cap Pend
      /\ Nbr[e.u] = Nb(list, frame[t].v, Here(frame[t]))
      /\ e.u \in Due => \A i \in Span(l, frame[t]) : Nbr[i] = Nbr[e.u] => i >= e.u
  BY <1>2, FindIs
<1>4. e.res # 0
  BY DEF ADDED, UPDATED
<1>5. ThreadOK("update", e, Due, Nbr, list)
  BY <1>1, <1>3, <1>4, StartsUpdates
<1>6. e \in FrameType /\ pc' = [pc EXCEPT ![t] = "update"] /\ "update" \in Labels
  BY DEF Alike, Goto, Labels
<1>7. WorkOK("update", e, Pend)
  BY <1>3 DEF WorkOK
<1> QED BY <1>5, <1>6, <1>7, QuietStep

LEMMA FindScanInv == ASSUME Inv, NEW t \in Threads, FindScan(t) PROVE Inv'
<1> DEFINE f == frame[t]
           u == FindUpdates(t, Slot(t).neighbor)
<1>1. /\ pc[t] = "find" /\ f.k <= f.endk
      /\ UNCHANGED <<input, pass, order, result, todo, list>>
  BY DEF FindScan
<1>2. FrameOK("find", f, Nbr) /\ ThreadOK("find", f, Due, Nbr, list) /\ ListType(list)
  BY <1>1, Ranged
<1>3. /\ f \in FrameType /\ f.k \in Nat /\ f.endk \in Nat /\ f.endk <= EBSize
      /\ input.operation \in Operations /\ \A s : Result(s) \in {ADDED, UPDATED}
      /\ Slot(t).neighbor = Nb(list, f.v, Here(f))
  BY <1>1, <1>2, Cursor DEF ThreadOK, CursorOK
<1>4. CASE u # None
  <2> DEFINE e == Begun(f, u, Result(Slot(t)), input.operation, "find")
  <2>1. frame' = [frame EXCEPT ![t] = e] /\ Goto(t, "update")
    BY <1>4 DEF FindScan, StartUpdates, Begun, Inv, Types
  <2>2. u \in Nat
    BY <1>1, <1>2, <1>4, FindIs DEF FrameOK
  <2>3. /\ Alike(e, f) /\ e.tmp = f.tmp /\ e.k = f.k /\ e.endk = f.endk /\ e.u = u
        /\ e.res = Result(Slot(t)) /\ e.scan = "find"
    BY <1>3, <2>2, Beginning
  <2> HIDE DEF e
  <2>4. f.k <= EBSize /\ e.endk <= EBSize /\ e.res \in {ADDED, UPDATED}
    BY <1>1, <1>3, <2>3, Sizes
  <2> QED BY <1>1, <1>4, <2>1, <2>3, <2>4, InHandStep
<1>5. CASE u = None
  <2> DEFINE e == Advanced(f)
  <2>1. frame' = [frame EXCEPT ![t] = e] /\ pc' = pc
    BY <1>5 DEF FindScan, NextSlot, Advanced, Inv, Types
  <2>2. Alike(e, f) /\ e.tmp = f.tmp /\ e.k = f.k + 1 /\ e.endk = f.endk
    BY <1>3, Advancing
  <2> HIDE DEF e
  <2>3. ~Wants("find", f, Due, Nbr, Nb(list, f.v, Here(f)))
    BY <1>1, <1>3, <1>5, FindIs
  <2>4. ThreadOK("find", e, Due, Nbr, list)
    BY <1>1, <1>2, <2>2, <2>3, PassFind
  <2>5. pc' = [pc EXCEPT ![t] = "find"] /\ "find" \in Labels /\ e \in FrameType
    BY <1>1, <2>1, <2>2 DEF Inv, Types, Labels, Alike
  <2> QED BY <1>1, <2>1, <2>2, <2>4, <2>5, NoWork, QuietStep
<1> QED BY <1>4, <1>5

LEMMA FindNextInv == ASSUME Inv, NEW t \in Threads, FindNext(t) PROVE Inv'
<1> DEFINE f == frame[t]
<1>1. /\ pc[t] = "find" /\ f.k > f.endk
      /\ UNCHANGED <<input, pass, order, result, todo, list>>
  BY DEF FindNext
<1>2. FrameOK("find", f, Nbr) /\ ThreadOK("find", f, Due, Nbr, list) /\ ListType(list)
      /\ f \in FrameType /\ Blocks(t) = list[f.v]
  BY <1>1, Ranged, Cursor
<1>3. CASE f.tmp < Len(Blocks(t))
  <2>1. frame' = [frame EXCEPT ![t] = f] /\ pc' = [pc EXCEPT ![t] = "find_block"]
    BY <1>3 DEF FindNext, Goto, Inv, Types
  <2>2. ThreadOK("find_block", f, Due, Nbr, list)
    BY <1>1, <1>2, <1>3, LeaveFind
  <2>3. Alike(f, f) /\ "find_block" \in Labels
    BY <1>2 DEF Alike, Labels
  <2> QED BY <1>1, <1>2, <2>1, <2>2, <2>3, NoWork, QuietStep
<1>4. CASE ~(f.tmp < Len(Blocks(t)))
  <2> DEFINE e == Restarted(f)
  <2>1. frame' = [frame EXCEPT ![t] = e] /\ pc' = [pc EXCEPT ![t] = "seek_block"]
    BY <1>4 DEF FindNext, Goto, Restarted, Inv, Types
  <2>2. Alike(e, f) /\ e.tmp = 0 /\ e.endk = f.endk
    BY <1>2, Restarting DEF Restarted, FrameType
  <2> HIDE DEF e
  <2>3. ThreadOK("seek_block", e, Due, Nbr, list)
    BY <1>1, <1>2, <1>4, <2>2, EndFind
  <2>4. e \in FrameType /\ "seek_block" \in Labels
    BY <2>2 DEF Alike, Labels
  <2> QED BY <1>1, <2>1, <2>2, <2>3, <2>4, NoWork, QuietStep
<1> QED BY <1>3, <1>4

LEMMA SeekBlockInv == ASSUME Inv, NEW t \in Threads, SeekBlock(t) PROVE Inv'
<1> DEFINE f == frame[t]
           next == NextUpdate(t, result)
           high == Blocks(t)[f.tmp + 1].high
<1>1. pc[t] = "seek_block" /\ UNCHANGED <<input, pass, order, result, todo, list>>
  BY DEF SeekBlock
<1>2. FrameOK("seek_block", f, Nbr) /\ ThreadOK("seek_block", f, Due, Nbr, list) /\ ListType(list)
      /\ f \in FrameType /\ Blocks(t) = list[f.v] /\ f.tmp \in Nat /\ Len(Blocks(t)) \in Nat
  BY <1>1, Ranged, Cursor
<1>3. next # None => Span("seek_block", f) \cap Pend # {}
  BY <1>1, FirstPending
<1>4. CASE next = None
  <2>1. Span(pc[t], f) \cap Pend = {}
    BY <1>1, <1>4, FirstPending
  <2>2. frame' = [frame EXCEPT ![t] = Idle] /\ pc' = [pc EXCEPT ![t] = "idle"]
    BY <1>4 DEF SeekBlock, Goto
  <2>3. Idle \in FrameType /\ "idle" \in Labels /\ ThreadOK("idle", Idle, Due, Nbr, list)
    BY DEF Idle, FrameType, Labels, ThreadOK, Operations
  <2> QED BY <1>1, <2>1, <2>2, <2>3, NoWork, QuietStep
<1>5. CASE next # None /\ f.tmp < Len(Blocks(t))
  <2> DEFINE e == Entered(f, f.tmp + 1, 1, high)
  <2>0. f.tmp # Len(Blocks(t)) /\ f.tmp + 1 \in Nat /\ f.tmp + 1 \in 1..Len(Blocks(t))
    BY <1>2, <1>5
  <2>1. frame' = [frame EXCEPT ![t] = e] /\ pc' = [pc EXCEPT ![t] = "seek"]
    <3>1. Goto(t, "seek") /\ EnterBlock(t, f.tmp + 1)
      BY <1>5, <2>0 DEF SeekBlock
    <3> QED BY <3>1 DEF EnterBlock, Goto, Entered, Inv, Types
  <2>2. high \in Nat
    BY <1>1, <2>0, Cursor
  <2>3. Alike(e, f) /\ e.tmp = f.tmp + 1 /\ e.k = 1 /\ e.endk = high
    <3> HIDE DEF f, high
    <3>1. f \in FrameType /\ f.tmp + 1 \in Nat /\ 1 \in Nat /\ high \in Nat
      BY <1>2, <2>0, <2>2
    <3> QED BY <3>1, Entering
  <2> HIDE DEF e
  <2>4. ThreadOK("seek", e, Due, Nbr, list)
    BY <1>2, <1>5, <2>3, EnterSeek
  <2>5. e \in FrameType /\ "seek" \in Labels
    BY <2>3 DEF Alike, Labels
  <2>6. WorkOK("seek", e, Pend)
    BY <1>3, <1>5, <2>3 DEF WorkOK, Span, Alike
  <2> QED BY <1>1, <2>1, <2>3, <2>4, <2>5, <2>6, QuietStep
<1>6. CASE next # None /\ f.tmp = Len(Blocks(t))
  <2>1. frame' = [frame EXCEPT ![t] = f] /\ pc' = [pc EXCEPT ![t] = "grow"]
    BY <1>2, <1>6 DEF SeekBlock, Goto, Inv, Types
  <2>2. ThreadOK("grow", f, Due, Nbr, list)
    BY <1>2, <1>6, ToGrow
  <2>3. Alike(f, f) /\ "grow" \in Labels
    BY <1>2 DEF Alike, Labels
  <2>4. WorkOK("grow", f, Pend)
    BY <1>3, <1>6 DEF WorkOK, Span
  <2> QED BY <1>1, <1>2, <2>1, <2>2, <2>3, <2>4, QuietStep
<1> QED BY <1>4, <1>5, <1>6 DEF SeekBlock

LEMMA SeekScanInv == ASSUME Inv, NEW t \in Threads, SeekScan(t) PROVE Inv'
<1> DEFINE f == frame[t]
           n == Slot(t).neighbor
           u == IF f.k <= f.endk THEN FindUpdates(t, n) ELSE None
<1>1. /\ pc[t] = "seek" /\ f.k <= EBSize
      /\ UNCHANGED <<input, pass, order, result, todo, list>>
  BY DEF SeekScan
<1>2. FrameOK("seek", f, Nbr) /\ ThreadOK("seek", f, Due, Nbr, list) /\ ListType(list)
      /\ WorkOK("seek", f, Pend)
  BY <1>1, Ranged
<1>3. /\ f \in FrameType /\ f.k \in Nat /\ f.endk \in Nat /\ f.endk <= EBSize
      /\ input.operation \in Operations /\ \A s : Result(s) \in {ADDED, UPDATED}
      /\ n = Nb(list, f.v, Here(f))
  BY <1>1, <1>2, Cursor DEF ThreadOK, CursorOK
<1>4. CASE u # None
  <2> DEFINE e == Begun(f, u, Result(Slot(t)), input.operation, "seek")
  <2>1. frame' = [frame EXCEPT ![t] = e] /\ Goto(t, "update")
    BY <1>4 DEF SeekScan, StartUpdates, Begun, Inv, Types
  <2>2. u = FindUpdates(t, n) /\ u \in Nat
    BY <1>1, <1>2, <1>4, FindIs DEF FrameOK
  <2>3. /\ Alike(e, f) /\ e.tmp = f.tmp /\ e.k = f.k /\ e.endk = f.endk /\ e.u = u
        /\ e.res = Result(Slot(t)) /\ e.scan = "seek"
    BY <1>3, <2>2, Beginning
  <2> HIDE DEF e, u
  <2>4. e.endk <= EBSize /\ e.res \in {ADDED, UPDATED}
    BY <1>3, <2>3
  <2> QED BY <1>1, <1>4, <2>1, <2>2, <2>3, <2>4, InHandStep
<1>5. CASE u = None /\ (n = Blank \/ f.k > f.endk)
  <2>1. frame' = [frame EXCEPT ![t] = f] /\ pc' = [pc EXCEPT ![t] = "claim"]
    BY <1>5 DEF SeekScan, Goto, Inv, Types
  <2>2. ThreadOK("claim", f, Due, Nbr, list)
    BY <1>1, <1>2, ToClaim
  <2>3. Alike(f, f) /\ "claim" \in Labels
    BY <1>3 DEF Alike, Labels
  <2>4. WorkOK("claim", f, Pend)
    BY <1>2, <2>3, SameWork
  <2> QED BY <1>1, <1>3, <2>1, <2>2, <2>3, <2>4, QuietStep
<1>6. CASE u = None /\ ~(n = Blank \/ f.k > f.endk)
  <2> DEFINE e == Advanced(f)
  <2>1. frame' = [frame EXCEPT ![t] = e] /\ pc' = pc
    BY <1>6 DEF SeekScan, NextSlot, Advanced, Inv, Types
  <2>2. Alike(e, f) /\ e.tmp = f.tmp /\ e.k = f.k + 1 /\ e.endk = f.endk
    BY <1>3, Advancing
  <2> HIDE DEF e
  <2>3. ~Wants("seek", f, Due, Nbr, n) /\ n # Blank
    BY <1>1, <1>3, <1>6, FindIs
  <2>4. ThreadOK("seek", e, Due, Nbr, list)
    BY <1>1, <1>2, <1>3, <2>2, <2>3, PassSeek
  <2>5. pc' = [pc EXCEPT ![t] = "seek"] /\ "seek" \in Labels /\ e \in FrameType
    BY <1>1, <2>1, <2>2 DEF Inv, Types, Labels, Alike
  <2>6. WorkOK("seek", e, Pend)
    BY <1>2, <2>2, SameWork
  <2> QED BY <1>1, <2>1, <2>2, <2>4, <2>5, <2>6, QuietStep
<1> QED BY <1>4, <1>5, <1>6

LEMMA SeekNextInv == ASSUME Inv, NEW t \in Threads, SeekNext(t) PROVE Inv'
<1> DEFINE f == frame[t]
<1>1. /\ pc[t] = "seek" /\ f.k > EBSize
      /\ UNCHANGED <<input, pass, order, result, todo, list>>
  BY DEF SeekNext
<1>2. FrameOK("seek", f, Nbr) /\ ThreadOK("seek", f, Due, Nbr, list) /\ ListType(list)
      /\ f \in FrameType
  BY <1>1, Ranged
<1>3. frame' = [frame EXCEPT ![t] = f] /\ pc' = [pc EXCEPT ![t] = "seek_block"]
  BY DEF SeekNext, Goto, Inv, Types
<1>4. ThreadOK("seek_block", f, Due, Nbr, list)
  BY <1>1, <1>2, LeaveSeek
<1>5. Alike(f, f) /\ "seek_block" \in Labels
  BY <1>2 DEF Alike, Labels
<1> QED BY <1>1, <1>2, <1>3, <1>4, <1>5, NoWork, QuietStep

-----------------------------------------------------------------------------
(* The steps that write a slot or add a block.                             *)

LEMMA SameList ==
  ASSUME NEW g, ListType(g), NEW h, NEW w \in Vertices, h[w] = g[w]
  PROVE  Fills(g, h, w) /\ \A m : OneSlot(g, w, m) => OneSlot(h, w, m)
<1>1. Places(h, w) = Places(g, w) /\ \A p : At(h, w, p) = At(g, w, p)
  BY DEF Places, At
<1>2. Fills(g, g, w)
  BY FillsItself
<1> QED BY <1>1, <1>2 DEF Fills, OneSlot, Nb, FilledBefore

LEMMA BlockWritten ==
  ASSUME NEW block, DOMAIN block.slot = 1..EBSize, block.high \in 0..EBSize,
         \A j \in 1..EBSize : j > block.high => block.slot[j].neighbor = Blank,
         NEW k \in 1..EBSize, NEW id, NEW mode
  PROVE  /\ DOMAIN WriteBlock(block, k, id, mode).slot = 1..EBSize
         /\ WriteBlock(block, k, id, mode).high \in 0..EBSize
         /\ \A j \in 1..EBSize : j > WriteBlock(block, k, id, mode).high =>
              WriteBlock(block, k, id, mode).slot[j].neighbor = Blank
         /\ \A j \in 1..EBSize : WriteBlock(block, k, id, mode).slot[j].neighbor =
              IF j = k THEN Neighbor(id) ELSE block.slot[j].neighbor
<1> DEFINE b == WriteBlock(block, k, id, mode)
<1>1. b.high = Max({block.high, k}) /\ b.slot = [block.slot EXCEPT ![k] = Write(@, id, mode)]
  BY DEF WriteBlock
<1>2. /\ Max({block.high, k}) \in {block.high, k}
      /\ \A x \in {block.high, k} : x <= Max({block.high, k})
  <2>1. {block.high, k} \subseteq 0..EBSize /\ {block.high, k} # {}
    BY Sizes
  <2> QED BY <2>1, Sizes, MaxOf
<1>3. Write(block.slot[k], id, mode).neighbor = Neighbor(id)
  BY DEF Write, Written
<1>4. DOMAIN b.slot = 1..EBSize
  BY <1>1
<1>5. \A j \in 1..EBSize : b.slot[j].neighbor =
        IF j = k THEN Neighbor(id) ELSE block.slot[j].neighbor
  BY <1>1, <1>3
<1>6. b.high \in 0..EBSize /\ b.high >= k /\ b.high >= block.high
  BY <1>1, <1>2, Sizes
<1> HIDE DEF b
<1>7. \A j \in 1..EBSize : j > b.high => b.slot[j].neighbor = Blank
  BY <1>5, <1>6, Sizes
<1> QED BY <1>4, <1>5, <1>6, <1>7 DEF b

\* The lists g with slot k of block b of vertex v updated.
WithSlot(g, v, b, k, id, mode) == [g EXCEPT ![v][b] = WriteBlock(@, k, id, mode)]

LEMMA SlotWritten ==
  ASSUME NEW g, ListType(g), NEW v \in Vertices, NEW b \in DOMAIN g[v], NEW k \in 1..EBSize,
         NEW id, NEW mode, NEW h, h = WithSlot(g, v, b, k, id, mode)
  PROVE  /\ ListType(h) /\ Stored(g, h, v, <<b, k>>, Neighbor(id))
         /\ \A w \in Vertices \ {v} : h[w] = g[w]
<1> DEFINE new == WriteBlock(g[v][b], k, id, mode)
           R == {g[v][i] : i \in DOMAIN g[v]}
<1>1. /\ Len(g[v]) \in Nat /\ DOMAIN g[v] = 1..Len(g[v]) /\ g[v] \in Seq(R)
      /\ \A i \in DOMAIN g[v] : DOMAIN g[v][i].slot = 1..EBSize /\ g[v][i].high \in 0..EBSize
      /\ \A i \in DOMAIN g[v] : \A j \in 1..EBSize :
           j > g[v][i].high => g[v][i].slot[j].neighbor = Blank
      /\ DOMAIN g = Vertices
  BY ListFacts DEF ListType, BlocksOK
<1>2. h[v] = [g[v] EXCEPT ![b] = new] /\ DOMAIN h = Vertices
  BY <1>1 DEF WithSlot
<1>3. \A w \in Vertices \ {v} : h[w] = g[w]
  BY <1>1 DEF WithSlot
<1>4. /\ DOMAIN new.slot = 1..EBSize /\ new.high \in 0..EBSize
      /\ \A j \in 1..EBSize : j > new.high => new.slot[j].neighbor = Blank
      /\ \A j \in 1..EBSize : new.slot[j].neighbor =
           IF j = k THEN Neighbor(id) ELSE g[v][b].slot[j].neighbor
  BY <1>1, BlockWritten
<1> HIDE DEF new
<1>5. /\ DOMAIN h[v] = DOMAIN g[v]
      /\ \A i \in DOMAIN g[v] : h[v][i] = IF i = b THEN new ELSE g[v][i]
  BY <1>2
<1>6. h[v] \in Seq({h[v][i] : i \in DOMAIN h[v]}) /\ Len(h[v]) = Len(g[v])
  <2>1. h[v] \in Seq(R \cup {new}) /\ Len(h[v]) = Len(g[v])
    <3>1. h[v] = [i \in 1..Len(g[v]) |-> IF i = b THEN new ELSE g[v][i]]
      BY <1>1, <1>2
    <3>2. \A i \in 1..Len(g[v]) : (IF i = b THEN new ELSE g[v][i]) \in R \cup {new}
      BY <1>1
    <3> QED BY <1>1, <3>1, <3>2
  <2> HIDE DEF R
  <2> QED BY <2>1, OwnElements
<1>7. ListType(h)
  <2> SUFFICES ASSUME NEW w \in Vertices
               PROVE  /\ h[w] \in Seq({h[w][i] : i \in DOMAIN h[w]})
                      /\ \A i \in DOMAIN h[w] : DOMAIN h[w][i].slot = 1..EBSize
                      /\ BlocksOK(h, w)
    BY <1>2 DEF ListType
  <2>1. CASE w # v
    <3>1. h[w] = g[w]
      BY <1>3, <2>1
    <3>2. /\ g[w] \in Seq({g[w][i] : i \in DOMAIN g[w]}) /\ BlocksOK(g, w)
          /\ \A i \in DOMAIN g[w] : DOMAIN g[w][i].slot = 1..EBSize
      BY DEF ListType
    <3>3. BlocksOK(h, w)
      BY <3>1, <3>2 DEF BlocksOK
    <3> QED BY <3>1, <3>2, <3>3
  <2>2. CASE w = v
    <3>1. \A i \in DOMAIN h[v] : DOMAIN h[v][i].slot = 1..EBSize
      BY <1>1, <1>4, <1>5
    <3>2. ASSUME NEW i \in DOMAIN h[v]
          PROVE  /\ h[v][i].high \in 0..EBSize
                 /\ \A j \in 1..EBSize : j > h[v][i].high => h[v][i].slot[j].neighbor = Blank
      <4>1. CASE i = b
        BY <1>4, <1>5, <4>1
      <4>2. CASE i # b
        <5>1. i \in DOMAIN g[v] /\ h[v][i] = g[v][i]
          BY <1>5, <4>2
        <5> QED BY <1>1, <5>1
      <4> QED BY <4>1, <4>2
    <3>3. BlocksOK(h, v)
      BY <3>2 DEF BlocksOK
    <3> QED BY <1>6, <2>2, <3>1, <3>3
  <2> QED BY <2>1, <2>2
<1>8. Stored(g, h, v, <<b, k>>, Neighbor(id))
  <2>1. ASSUME NEW q \in Places(g, v)
        PROVE  Nb(h, v, q) = IF q = <<b, k>> THEN Neighbor(id) ELSE Nb(g, v, q)
    <3>1. q[1] \in DOMAIN g[v] /\ q[2] \in 1..EBSize /\ q = <<q[1], q[2]>>
      BY DEF Places
    <3>2. CASE q[1] = b
      BY <1>4, <1>5, <3>1, <3>2 DEF Nb, At
    <3>3. CASE q[1] # b
      BY <1>5, <3>1, <3>3 DEF Nb, At
    <3> QED BY <3>2, <3>3
  <2> QED BY <1>6, <2>1 DEF Stored
<1> QED BY <1>3, <1>7, <1>8

\* The variables f, with the next update of the same neighbour in hand.
Continued(f, m) == [f EXCEPT !.u = @ + 1, !.res = UPDATED, !.mode = m]

LEMMA Continuing ==
  ASSUME NEW f \in FrameType, NEW m \in Operations
  PROVE  /\ Alike(Continued(f, m), f) /\ Continued(f, m).tmp = f.tmp
         /\ Continued(f, m).k = f.k /\ Continued(f, m).endk = f.endk
         /\ Continued(f, m).scan = f.scan /\ Continued(f, m).u = f.u + 1
         /\ Continued(f, m).res # 0
<1>1. Continued(f, m) \in FrameType
  <2>1. f.u + 1 \in Nat
    BY DEF FrameType
  <2> QED BY <2>1 DEF FrameType, Continued
<1> QED BY <1>1 DEF FrameType, Continued, Alike, UPDATED

\* The update in hand is the last of its neighbour if the next is of another.
LEMMA NoneBehind ==
  ASSUME Inv, NEW t \in Threads, pc[t] # "idle", NEW u \in Span(pc[t], frame[t]),
         ~MoreAfter(t, u), NEW i \in Span(pc[t], frame[t]), Nbr[i] = Nbr[u]
  PROVE  i <= u
<1>1. /\ \A j \in Span(pc[t], frame[t]) :
            /\ j \in DOMAIN order /\ j \in Nat /\ Src[j] = frame[t].v
            /\ Nbr[j] = Neighbor(order[j])
      /\ Span(pc[t], frame[t]) = frame[t].first..frame[t].last
      /\ frame[t].first \in Nat /\ frame[t].last \in Nat
  BY Ranged, OrderTypes DEF Inv
<1> SUFFICES ASSUME u < i PROVE FALSE
  BY <1>1
<1>2. u + 1 \in Span(pc[t], frame[t]) /\ u < frame[t].last
  BY <1>1
<1>3. Nbr[u + 1] = Nbr[u]
  <2>1. CASE i = u + 1
    BY <2>1
  <2>2. CASE i # u + 1
    <3>1. u < u + 1 /\ u + 1 < i
      BY <1>1, <2>2
    <3>2. InARow(Src, Nbr) /\ DOMAIN Src = DOMAIN order
      BY OrderTypes DEF Inv, OrderOK
    <3>3. /\ u \in DOMAIN Src /\ u + 1 \in DOMAIN Src /\ i \in DOMAIN Src
          /\ Src[u] = Src[i] /\ Nbr[u] = Nbr[i]
      BY <1>1, <1>2, <3>2
    <3> QED BY <3>1, <3>2, <3>3 DEF InARow
  <2> QED BY <2>1, <2>2
<1>4. Neighbor(order[u + 1]) = Neighbor(order[u])
  BY <1>1, <1>2, <1>3
<1> QED BY <1>2, <1>4 DEF MoreAfter

LEMMA DoUpdateInv ==
  ASSUME Inv, NEW t \in Threads, pc[t] # "idle", NEW f, Alike(f, frame[t]),
         FrameOK("update", f, Nbr), InHand(f, Due, Nbr, list), WorkOK("update", f, Pend),
         DoUpdate(t, f)
  PROVE  Inv'
<1> DEFINE id == order[f.u]
           span == Span(pc[t], frame[t])
<1>1. /\ ListType(list) /\ span = frame[t].first..frame[t].last /\ Span("update", f) = span
      /\ frame[t].first \in Nat /\ frame[t].first >= 1 /\ frame[t].last \in Nat
      /\ \A i \in span : /\ i \in DOMAIN order /\ i \in Nat /\ order[i] \in Ids
                         /\ Nbr[i] = Neighbor(order[i]) /\ Source(order[i]) = f.v
  BY Ranged, OrderTypes DEF Inv, Alike, Span
<1>2. /\ f \in FrameType /\ f.v \in Vertices /\ f.tmp \in Nat /\ f.k \in Nat
      /\ f.tmp \in DOMAIN list[f.v] /\ f.k \in 1..EBSize /\ f.u \in span
      /\ f.res \in {ADDED, UPDATED} /\ f.scan \in {"find", "seek"}
      /\ Pure(order[f.u]) => f.u \in Due
  <2>1. f \in FrameType /\ f.v \in Vertices /\ f.tmp \in Nat /\ f.k \in Nat /\ Len(list[f.v]) \in Nat
    BY <1>1, WalkTypes
  <2>2. f.res \in {ADDED, UPDATED} /\ f.scan \in {"find", "seek"}
    BY <2>1 DEF FrameType, InHand
  <2>3. f.u \in span /\ (Pure(order[f.u]) => f.u \in Due)
    BY <1>1 DEF InHand, WorkOK, Due
  <2>4. f.tmp \in DOMAIN list[f.v] /\ f.k \in 1..EBSize
    BY <1>1, <2>1, ListFacts DEF InHand, CursorOK
  <2> QED BY <2>1, <2>2, <2>3, <2>4
<1>3. /\ list' = WithSlot(list, f.v, f.tmp, f.k, id, f.mode)
      /\ result' = [result EXCEPT ![id] = f.res]
      /\ UNCHANGED <<input, pass, order, todo>>
  BY DEF DoUpdate, WithSlot
<1>4. /\ ListType(list') /\ Stored(list, list', f.v, Here(f), Nbr[f.u])
      /\ \A w \in Vertices \ {f.v} : list'[w] = list[w]
  <2> HIDE DEF id
  <2>1. Nbr[f.u] = Neighbor(id)
    BY <1>1, <1>2 DEF id
  <2> QED BY <1>1, <1>2, <1>3, <2>1, SlotWritten DEF Here
<1>5. \A w \in Vertices : Fills(list, list', w)
  BY <1>1, <1>4, SlotFills, SameList
<1>10. \A w, m \in Vertices : Unmixed(w, m) => OneSlot(list', w, m)
  <2> SUFFICES ASSUME NEW w \in Vertices, NEW m \in Vertices, Unmixed(w, m)
               PROVE  OneSlot(list', w, m)
    OBVIOUS
  <2>1. OneSlot(list, w, m)
    BY DEF Inv, UniqueNeighbor
  <2>2. CASE w = f.v
    <3>1. ASSUME m = Nbr[f.u] PROVE f.u \in Due
      <4>1. Source(id) = f.v /\ Neighbor(id) = m /\ id \in Ids
        BY <1>1, <1>2, <3>1
      <4>2. Pure(id)
        BY <2>2, <4>1, UpdateTypes DEF Inv, Types
      <4> QED BY <1>2, <4>2
    <3> QED BY <1>1, <1>4, <2>1, <2>2, <3>1, SlotFills
  <2>3. CASE w # f.v
    BY <1>1, <1>4, <2>1, <2>3, SameList
  <2> QED BY <2>2, <2>3
<1>6. Settles(t) /\ \A i \in span : i \in Pend' <=> i \in Pend /\ i # f.u
  <2>1. result \in [Ids -> Codes] /\ id \in Ids /\ (Pure(id) => result[id] = PENDING)
    BY <1>1, <1>2 DEF Inv, Types, Due, Pend
  <2>2. result' \in [Ids -> Codes]
    BY <1>2, <1>3, <2>1 DEF Codes
  <2>3. \A x \in Ids : result'[x] = IF x = id THEN f.res ELSE result[x]
    BY <1>3, <2>1
  <2>4. Settles(t)
    BY <1>2, <2>1, <2>2, <2>3 DEF Settles
  <2>5. \A i \in span : order[i] = id <=> i = f.u
    BY <1>1, <1>2 DEF Inv, OrderOK
  <2>6. \A i \in span : i \in Pend' <=> i \in Pend /\ i # f.u
    BY <1>1, <1>2, <1>3, <2>3, <2>5 DEF Pend, ADDED, UPDATED, PENDING
  <2> QED BY <2>4, <2>6
<1>11. \A i \in Span("update", f) : i \in Due' <=> i \in Due /\ i # f.u
  <2>1. \A i \in span : i \in Due' <=> i \in Due /\ i # f.u
    BY <1>3, <1>6, SettledPend DEF Due
  <2> QED BY <1>1, <2>1
<1>7. CASE MoreAfter(t, f.u)
  <2> DEFINE e == Continued(f, input.operation)
  <2>1. frame' = [frame EXCEPT ![t] = e] /\ pc' = [pc EXCEPT ![t] = "update"]
    BY <1>7 DEF DoUpdate, Goto, Continued
  <2>2. input.operation \in Operations
    BY Cursor
  <2>3. /\ Alike(e, f) /\ e.tmp = f.tmp /\ e.k = f.k /\ e.endk = f.endk /\ e.scan = f.scan
        /\ e.u = f.u + 1 /\ e.res # 0
    BY <1>2, <2>2, Continuing
  <2> HIDE DEF e
  <2>4. f.u + 1 \in span /\ Nbr[f.u + 1] = Nbr[f.u]
    BY <1>1, <1>2, <1>7 DEF MoreAfter
  <2>5. ThreadOK("update", e, Due', Nbr, list')
    BY <1>1, <1>4, <1>11, <2>3, <2>4, MoreToDo
  <2>6. Alike(e, frame[t]) /\ e \in FrameType /\ "update" \in Labels
    BY <2>3 DEF Alike, Labels
  <2>7. WorkOK("update", e, Pend')
    <3> SUFFICES ASSUME Pure(order[f.u + 1]) PROVE f.u + 1 \in Pend'
      BY <2>3 DEF WorkOK
    <3>1. /\ order[f.u] \in Ids /\ order[f.u + 1] \in Ids
          /\ Source(order[f.u]) = Source(order[f.u + 1])
          /\ Neighbor(order[f.u]) = Neighbor(order[f.u + 1])
      BY <1>1, <1>2, <2>4
    <3>2. Pure(order[f.u])
      BY <3>1, UpdateTypes DEF Inv, Types
    <3>3. f.u \in Due /\ f.u + 1 >= f.u /\ f.u + 1 # f.u
      BY <1>1, <1>2, <3>2
    <3>4. f.u + 1 \in Due
      BY <1>1, <2>4, <3>3 DEF InHand
    <3> QED BY <1>6, <2>4, <3>3, <3>4 DEF Due
  <2> QED BY <1>3, <1>4, <1>5, <1>6, <1>10, <2>1, <2>5, <2>6, <2>7, ThreadStep
<1>8. CASE ~MoreAfter(t, f.u) /\ f.scan = "seek" /\ NextUpdate(t, result') = None
  <2>1. frame' = [frame EXCEPT ![t] = Idle] /\ pc' = [pc EXCEPT ![t] = "idle"]
    BY <1>8 DEF DoUpdate, Goto
  <2>2. \A i \in frame[t].first..frame[t].last : result'[order[i]] # PENDING
    BY <1>1, <1>8, NextIs
  <2>3. span \cap Pend' = {}
    BY <1>1, <1>3, <2>2 DEF Pend
  <2>4. Idle \in FrameType /\ "idle" \in Labels /\ ThreadOK("idle", Idle, Due', Nbr, list')
    BY DEF Idle, FrameType, Labels, ThreadOK, Operations
  <2>5. WorkOK("idle", Idle, Pend')
    BY DEF WorkOK
  <2> QED BY <1>3, <1>4, <1>5, <1>6, <1>10, <2>1, <2>3, <2>4, <2>5, ThreadStep
<1>9. CASE ~MoreAfter(t, f.u) /\ ~(f.scan = "seek" /\ NextUpdate(t, result') = None)
  <2> DEFINE e == Advanced(f)
  <2>1. frame' = [frame EXCEPT ![t] = e] /\ pc' = [pc EXCEPT ![t] = f.scan]
    BY <1>9 DEF DoUpdate, Goto, Advanced
  <2>2. Alike(e, f) /\ e.tmp = f.tmp /\ e.k = f.k + 1 /\ e.endk = f.endk
    BY <1>2, Advancing
  <2> HIDE DEF e
  <2>3. \A i \in span : Nbr[i] = Nbr[f.u] => i <= f.u
    BY <1>2, <1>9, NoneBehind
  <2>4. f.scan = "seek" => span \cap Pend' # {}
    <3> SUFFICES ASSUME f.scan = "seek" PROVE span \cap Pend' # {}
      OBVIOUS
    <3>1. NextUpdate(t, result') \in span /\ result'[order[NextUpdate(t, result')]] = PENDING
      BY <1>1, <1>9, NextIs
    <3> QED BY <1>1, <1>3, <3>1 DEF Pend
  <2>5. ThreadOK(f.scan, e, Due', Nbr, list')
    BY <1>1, <1>4, <1>11, <2>2, <2>3, LastDone
  <2>6. Alike(e, frame[t]) /\ e \in FrameType /\ f.scan \in Labels /\ f.scan # "idle"
    BY <1>2, <2>2 DEF Alike, Labels
  <2>7. WorkOK(f.scan, e, Pend')
    BY <1>1, <1>2, <2>2, <2>4 DEF WorkOK, Span, Alike
  <2> QED BY <1>3, <1>4, <1>5, <1>6, <1>10, <2>1, <2>5, <2>6, <2>7, ThreadStep
<1> QED BY <1>7, <1>8, <1>9

LEMMA UpdateSlotInv == ASSUME Inv, NEW t \in Threads, UpdateSlot(t) PROVE Inv'
<1>1. pc[t] = "update" /\ DoUpdate(t, frame[t])
  BY DEF UpdateSlot
<1>2. /\ FrameOK("update", frame[t], Nbr) /\ InHand(frame[t], Due, Nbr, list)
      /\ frame[t] \in FrameType /\ WorkOK("update", frame[t], Pend)
  BY <1>1, Ranged, UpdatesSlot
<1>3. Alike(frame[t], frame[t])
  BY <1>2 DEF Alike
<1> QED BY <1>1, <1>2, <1>3, DoUpdateInv

\* A thread that finds a slot free under the lock takes it for its first update.
LEMMA ClaimTakes ==
  ASSUME Inv, NEW t \in Threads, pc[t] = "claim",
         Slot(t).neighbor = Blank \/ frame[t].k > Block(t).high, NEW e,
         e = BegunTo(frame[t], Block(t).high, NextUpdate(t, result), ADDED, "SET", "seek")
  PROVE  /\ Alike(e, frame[t]) /\ FrameOK("update", e, Nbr) /\ InHand(e, Due, Nbr, list)
         /\ e.u \in Pend /\ WorkOK("update", e, Pend)
         /\ Nb(list, e.v, Here(e)) = Blank /\ e.mode = "SET" /\ e.res = ADDED
<1> DEFINE high == Block(t).high
           n == Slot(t).neighbor
           next == NextUpdate(t, result)
<1>1. /\ FrameOK("claim", frame[t], Nbr) /\ ThreadOK("claim", frame[t], Due, Nbr, list)
      /\ ListType(list) /\ WorkOK("claim", frame[t], Pend)
  BY Ranged
<1>2. /\ frame[t] \in FrameType /\ frame[t].tmp \in 1..Len(Blocks(t)) /\ frame[t].k \in 1..EBSize
      /\ n = Nb(list, frame[t].v, Here(frame[t])) /\ frame[t].v \in Vertices
      /\ Blocks(t) = list[frame[t].v]
      /\ Span("claim", frame[t]) \cap Pend # {}
  BY <1>1, Cursor DEF ThreadOK, CursorOK, WorkOK
<1>3. high \in Nat /\ high <= EBSize
  BY <1>2, Cursor DEF Block
<1>4. n = Blank
  <2> SUFFICES ASSUME frame[t].k > high PROVE n = Blank
    OBVIOUS
  <2>1. Here(frame[t]) \in Places(list, frame[t].v)
    BY <1>1, <1>2, WalkTypes DEF Here
  <2>2. high = list[frame[t].v][Here(frame[t])[1]].high /\ Here(frame[t])[2] = frame[t].k
    BY <1>2 DEF Block, Here
  <2> QED BY <1>1, <1>2, <2>1, <2>2, ListFacts
<1>5. /\ next \in Span("claim", frame[t]) \cap Pend
      /\ \A i \in Span("claim", frame[t]) \cap Pend : next <= i
  BY <1>2, FirstPending
<1>6. next \in Nat
  BY <1>1, <1>5 DEF FrameOK
<1>7. /\ Alike(e, frame[t]) /\ e.tmp = frame[t].tmp /\ e.k = frame[t].k /\ e.endk = high
      /\ e.u = next /\ e.res = ADDED /\ e.scan = "seek" /\ e.mode = "SET"
  <2> HIDE DEF next, high
  <2>1. "SET" \in Operations /\ ADDED \in {ADDED, UPDATED} /\ "seek" \in {"find", "seek"}
    BY DEF Operations
  <2>2. e = BegunTo(frame[t], high, next, ADDED, "SET", "seek")
    BY DEF next, high
  <2>3. e.mode = "SET"
    BY <1>2, <2>2 DEF BegunTo, FrameType
  <2> QED BY <1>2, <1>3, <1>6, <2>1, <2>2, <2>3, BeginningTo
<1> HIDE DEF next, high
<1>8. Nb(list, frame[t].v, Here(frame[t])) = Blank /\ e.endk <= EBSize /\ e.res # 0
  BY <1>2, <1>3, <1>4, <1>7 DEF ADDED
<1>9. FrameOK("update", e, Nbr) /\ InHand(e, Due, Nbr, list)
  <2>1. \A i \in Span("claim", frame[t]) \cap Due : e.u <= i
    BY <1>5, <1>7 DEF Due
  <2> QED BY <1>1, <1>5, <1>7, <1>8, <2>1, ClaimsSlot
<1>10. Nb(list, e.v, Here(e)) = Blank
  BY <1>7, <1>8 DEF Alike, Here
<1>11. e.u \in Pend /\ WorkOK("update", e, Pend)
  BY <1>5, <1>7 DEF WorkOK
<1> QED BY <1>7, <1>9, <1>10, <1>11

LEMMA ClaimInv == ASSUME Inv, NEW t \in Threads, Claim(t) PROVE Inv'
<1> DEFINE high == Block(t).high
           n == Slot(t).neighbor
           free == n = Blank \/ frame[t].k > high
           u == FindUpdates(t, n)
           next == NextUpdate(t, result)
<1>1. pc[t] = "claim"
  BY DEF Claim
<1>2. /\ FrameOK("claim", frame[t], Nbr) /\ ThreadOK("claim", frame[t], Due, Nbr, list)
      /\ ListType(list) /\ WorkOK("claim", frame[t], Pend)
  BY <1>1, Ranged
<1>3. /\ frame[t] \in FrameType /\ frame[t].tmp \in 1..Len(Blocks(t)) /\ frame[t].k \in 1..EBSize
      /\ input.operation \in Operations /\ \A s : Result(s) \in {ADDED, UPDATED}
      /\ n = Nb(list, frame[t].v, Here(frame[t])) /\ frame[t].v \in Vertices
      /\ Blocks(t) = list[frame[t].v]
  BY <1>1, <1>2, Cursor DEF ThreadOK, CursorOK
<1>4. high \in Nat /\ high <= EBSize
  BY <1>1, <1>3, Cursor DEF Block
<1>5. CASE /\ free
           /\ DoUpdate(t, BegunTo(frame[t], high, next, ADDED, "SET", "seek"))
  <2> DEFINE e == BegunTo(frame[t], high, next, ADDED, "SET", "seek")
  <2>1. Alike(e, frame[t]) /\ FrameOK("update", e, Nbr) /\ InHand(e, Due, Nbr, list)
        /\ WorkOK("update", e, Pend)
    BY <1>1, <1>5, ClaimTakes
  <2>2. DoUpdate(t, e) /\ pc[t] # "idle"
    BY <1>1, <1>5
  <2> HIDE DEF e
  <2> QED BY <2>1, <2>2, DoUpdateInv
<1>6. CASE /\ ~free /\ u # None
           /\ frame' = [frame EXCEPT ![t] =
                          BegunTo(frame[t], high, u, Result(Slot(t)), input.operation, "seek")]
           /\ Goto(t, "update")
           /\ UNCHANGED <<input, pass, order, result, todo, list>>
  <2> DEFINE e == BegunTo(frame[t], high, u, Result(Slot(t)), input.operation, "seek")
  <2>1. u \in Nat
    BY <1>1, <1>2, <1>6, FindIs DEF FrameOK
  <2>2. /\ Alike(e, frame[t]) /\ e.tmp = frame[t].tmp /\ e.k = frame[t].k /\ e.endk = high
        /\ e.u = u /\ e.res = Result(Slot(t)) /\ e.scan = "seek"
    <3> HIDE DEF u, high
    <3>1. Result(Slot(t)) \in {ADDED, UPDATED} /\ "seek" \in {"find", "seek"}
      BY <1>3
    <3> QED BY <1>3, <1>4, <2>1, <3>1, BeginningTo
  <2>3. e.endk <= EBSize /\ e.res \in {ADDED, UPDATED} /\ frame[t].k <= EBSize
    BY <1>3, <1>4, <2>2, Sizes
  <2>4. frame' = [frame EXCEPT ![t] = e]
    BY <1>6
  <2> HIDE DEF e
  <2> QED BY <1>1, <1>6, <2>2, <2>3, <2>4, InHandStep
<1>7. CASE /\ ~free /\ u = None
           /\ frame' = [frame EXCEPT ![t] = AdvancedTo(frame[t], high)]
           /\ Goto(t, "seek")
           /\ UNCHANGED <<input, pass, order, result, todo, list>>
  <2> DEFINE e == AdvancedTo(frame[t], high)
  <2>1. frame' = [frame EXCEPT ![t] = e] /\ pc' = [pc EXCEPT ![t] = "seek"]
    BY <1>7 DEF Goto
  <2>2. Alike(e, frame[t]) /\ e.tmp = frame[t].tmp /\ e.k = frame[t].k + 1 /\ e.endk = high
    BY <1>3, <1>4, AdvancingTo
  <2> HIDE DEF e
  <2>3. ~Wants("claim", frame[t], Due, Nbr, n) /\ n # Blank
    BY <1>1, <1>7, FindIs
  <2>4. ThreadOK("seek", e, Due, Nbr, list)
    BY <1>2, <1>3, <1>4, <2>2, <2>3, PassSeek
  <2>5. "seek" \in Labels /\ e \in FrameType
    BY <2>2 DEF Labels, Alike
  <2>6. WorkOK("seek", e, Pend)
    BY <1>2, <2>2, SameWork
  <2> QED BY <1>1, <1>7, <2>1, <2>2, <2>4, <2>5, <2>6, QuietStep
<1> QED BY <1>5, <1>6, <1>7 DEF Claim, BegunTo, AdvancedTo

\* The lists g with a block appended to that of vertex v.
WithBlock(g, v, block) == [g EXCEPT ![v] = Append(@, block)]

LEMMA BlockAppended ==
  ASSUME NEW g, ListType(g), NEW v \in Vertices, NEW h, NEW block,
         h = WithBlock(g, v, block), block.high = 1,
         DOMAIN block.slot = 1..EBSize, NEW m, block.slot[1].neighbor = m,
         \A j \in 2..EBSize : block.slot[j].neighbor = Blank
  PROVE  /\ ListType(h) /\ Appended(g, h, v, m)
         /\ \A w \in Vertices \ {v} : h[w] = g[w]
<1> DEFINE R == {g[v][i] : i \in DOMAIN g[v]}
           len == Len(g[v])
<1>1. /\ len \in Nat /\ DOMAIN g[v] = 1..len /\ g[v] \in Seq(R) /\ DOMAIN g = Vertices
      /\ \A i \in DOMAIN g[v] : DOMAIN g[v][i].slot = 1..EBSize /\ g[v][i].high \in 0..EBSize
      /\ \A i \in DOMAIN g[v] : \A j \in 1..EBSize :
           j > g[v][i].high => g[v][i].slot[j].neighbor = Blank
  BY ListFacts DEF ListType, BlocksOK
<1>2. h[v] = Append(g[v], block) /\ DOMAIN h = Vertices /\ \A w \in Vertices \ {v} : h[w] = g[w]
  BY <1>1 DEF WithBlock
<1>3. /\ h[v] \in Seq(R \cup {block}) /\ Len(h[v]) = len + 1 /\ DOMAIN h[v] = 1..len + 1
      /\ \A i \in 1..len : h[v][i] = g[v][i]
      /\ h[v][len + 1] = block
  <2> HIDE DEF R
  <2>1. g[v] \in Seq(R \cup {block})
    BY <1>1
  <2> QED BY <1>2, <2>1
<1>4. h[v] \in Seq({h[v][i] : i \in DOMAIN h[v]})
  <2> DEFINE B == R \cup {block}
  <2>1. h[v] \in Seq(B)
    BY <1>3
  <2> HIDE DEF B
  <2> QED BY <2>1, OwnElements
<1>5. ListType(h)
  <2> SUFFICES ASSUME NEW w \in Vertices
               PROVE  /\ h[w] \in Seq({h[w][i] : i \in DOMAIN h[w]})
                      /\ \A i \in DOMAIN h[w] : DOMAIN h[w][i].slot = 1..EBSize
                      /\ BlocksOK(h, w)
    BY <1>2 DEF ListType
  <2>1. CASE w # v
    <3>1. h[w] = g[w]
      BY <1>2, <2>1
    <3>2. /\ g[w] \in Seq({g[w][i] : i \in DOMAIN g[w]}) /\ BlocksOK(g, w)
          /\ \A i \in DOMAIN g[w] : DOMAIN g[w][i].slot = 1..EBSize
      BY DEF ListType
    <3>3. BlocksOK(h, w)
      BY <3>1, <3>2 DEF BlocksOK
    <3> QED BY <3>1, <3>2, <3>3
  <2>2. CASE w = v
    <3>1. ASSUME NEW i \in DOMAIN h[v]
          PROVE  /\ DOMAIN h[v][i].slot = 1..EBSize /\ h[v][i].high \in 0..EBSize
                 /\ \A j \in 1..EBSize : j > h[v][i].high => h[v][i].slot[j].neighbor = Blank
      <4>1. CASE i \in 1..len
        BY <1>1, <1>3, <4>1
      <4>2. CASE i = len + 1
        <5>1. h[v][i] = block /\ 1 \in 0..EBSize
          BY <1>3, <4>2, Sizes
        <5>2. \A j \in 1..EBSize : j > 1 => j \in 2..EBSize
          BY Sizes
        <5> QED BY <5>1, <5>2
      <4> QED BY <1>1, <1>3, <4>1, <4>2
    <3>2. BlocksOK(h, v)
      BY <3>1 DEF BlocksOK
    <3> QED BY <1>4, <2>2, <3>1, <3>2
  <2> QED BY <2>1, <2>2
<1>6. Appended(g, h, v, m)
  <2>1. ASSUME NEW q \in Places(g, v) PROVE Nb(h, v, q) = Nb(g, v, q)
    BY <1>1, <1>3 DEF Places, Nb, At
  <2>2. ASSUME NEW q \in Places(h, v), q[1] = Len(h[v])
        PROVE  Nb(h, v, q) = IF q[2] = 1 THEN m ELSE Blank
    <3>1. q[2] \in 1..EBSize /\ h[v][q[1]] = block
      BY <1>3, <2>2 DEF Places
    <3>2. q[2] # 1 => q[2] \in 2..EBSize
      BY <3>1, Sizes
    <3>3. Nb(h, v, q) = block.slot[q[2]].neighbor
      BY <3>1 DEF Nb, At
    <3> HIDE DEF Nb
    <3>4. CASE q[2] = 1
      BY <3>3, <3>4
    <3>5. CASE q[2] # 1
      BY <3>2, <3>3, <3>5
    <3> QED BY <3>4, <3>5
  <2> QED BY <1>3, <2>1, <2>2 DEF Appended
<1> QED BY <1>2, <1>5, <1>6

\* The pending updates of the first pending one's edge in a thread's range.
RunFrom(t, u) == {i \in u..frame[t].last : Neighbor(order[i]) = Neighbor(order[u])}

LEMMA RunIs ==
  ASSUME Inv, NEW t \in Threads, pc[t] = "grow", NEW u, u = NextUpdate(t, result),
         NEW run, run = RunFrom(t, u)
  PROVE  /\ u \in Span("grow", frame[t]) /\ u \in Pend
         /\ \A i \in Span("grow", frame[t]) \cap Pend : u <= i
         /\ run \subseteq Span("grow", frame[t]) /\ u \in run
         /\ \A i \in run : Nbr[i] = Nbr[u] /\ (u \in Due => i \in Due)
         /\ \A i \in Span("grow", frame[t]) \cap Pend : Nbr[i] = Nbr[u] => i \in run
         /\ Max(run) \in run /\ u <= Max(run) /\ Max(run) \in DOMAIN order
         /\ run = u..Max(run)
<1> DEFINE f == frame[t]
           span == Span("grow", f)
<1>1. ThreadOK("grow", f, Due, Nbr, list) /\ WorkOK("grow", f, Pend)
  BY Ranged
<1>2. /\ span = f.first..f.last /\ f.first \in Nat /\ f.last \in Nat
      /\ \A i \in span : /\ i \in DOMAIN order /\ i \in Nat /\ i >= 1 /\ order[i] \in Ids
                         /\ Nbr[i] = Neighbor(order[i]) /\ Src[i] = f.v
      /\ Len(order) \in Nat /\ DOMAIN order = 1..Len(order) /\ f.last \in DOMAIN order
  BY Ranged, OrderTypes DEF Inv
<1>3. u \in span /\ u \in Pend /\ \A i \in span \cap Pend : u <= i
  BY <1>1, FirstPending DEF WorkOK
<1>4. /\ run \subseteq span /\ u \in run
      /\ \A i \in run : Nbr[i] = Nbr[u] /\ (u \in Due => i \in Due)
      /\ \A i \in span \cap Pend : Nbr[i] = Nbr[u] => i \in run
  <2>1. run \subseteq span /\ u \in run
    BY <1>2, <1>3 DEF RunFrom
  <2>2. \A i \in run : Nbr[i] = Nbr[u]
    BY <1>2, <1>3, <2>1 DEF RunFrom
  <2>3. \A i \in run : u \in Due => i \in Due
    BY <1>1, <1>3, <2>1, <2>2 DEF ThreadOK, Uniform
  <2>4. \A i \in span \cap Pend : Nbr[i] = Nbr[u] => i \in run
    BY <1>2, <1>3 DEF RunFrom
  <2> QED BY <2>1, <2>2, <2>3, <2>4
<1>5. Max(run) \in run /\ (\A x \in run : x <= Max(run)) /\ u <= Max(run) /\ Max(run) \in DOMAIN order
  <2>1. run \subseteq 0..f.last /\ run # {} /\ f.last \in Nat
    BY <1>2, <1>4
  <2>2. Max(run) \in run /\ \A x \in run : x <= Max(run)
    BY <2>1, MaxOf
  <2> QED BY <1>2, <1>4, <2>2
<1>6. ASSUME NEW i \in u..Max(run) PROVE i \in run
  <2>1. /\ u \in Nat /\ Max(run) \in Nat /\ i \in Nat /\ i \in span /\ Max(run) \in span
        /\ i <= f.last
    BY <1>2, <1>3, <1>4, <1>5
  <2>2. CASE i = u \/ i = Max(run)
    BY <1>4, <1>5, <2>2
  <2>3. CASE u < i /\ i < Max(run)
    <3>1. InARow(Src, Nbr) /\ DOMAIN Src = DOMAIN order
      BY OrderTypes DEF Inv, OrderOK
    <3>2. /\ u \in DOMAIN Src /\ i \in DOMAIN Src /\ Max(run) \in DOMAIN Src
          /\ Src[u] = Src[Max(run)] /\ Nbr[u] = Nbr[Max(run)]
      BY <1>2, <1>3, <1>4, <1>5, <2>1, <3>1
    <3>3. Nbr[i] = Nbr[u]
      BY <2>3, <3>1, <3>2 DEF InARow
    <3>4. Neighbor(order[i]) = Neighbor(order[u])
      BY <1>2, <1>3, <2>1, <3>3
    <3> QED BY <1>2, <2>1, <3>4 DEF RunFrom
  <2> QED BY <2>1, <2>2, <2>3
<1>7. run \subseteq u..Max(run)
  <2>1. \A i \in run : i \in Nat /\ u <= i /\ i <= Max(run)
    BY <1>2, <1>3, <1>4, <1>5 DEF RunFrom
  <2>2. u \in Nat /\ Max(run) \in Nat
    BY <1>4, <1>5, <2>1
  <2> QED BY <2>1, <2>2
<1>8. run = u..Max(run)
  BY <1>6, <1>7
<1> QED BY <1>3, <1>4, <1>5, <1>8

LEMMA GrowInv == ASSUME Inv, NEW t \in Threads, Grow(t) PROVE Inv'
<1> DEFINE f == frame[t]
           u == NextUpdate(t, result)
           span == Span("grow", f)
           run == RunFrom(t, u)
           ids == SubSeq(order, u, Max(run))
           block == NewBlock(ids)
<1>1. /\ pc[t] = "grow" /\ pc' = [pc EXCEPT ![t] = "seek_block"]
      /\ UNCHANGED <<input, pass, order, todo, frame>>
  BY DEF Grow, Goto
<1>2. /\ FrameOK("grow", f, Nbr) /\ ThreadOK("grow", f, Due, Nbr, list) /\ ListType(list)
      /\ f \in FrameType /\ Blocks(t) = list[f.v] /\ f.v \in Vertices
  BY <1>1, Ranged, Cursor
<1>3. frame' = [frame EXCEPT ![t] = f] /\ Alike(f, f) /\ "seek_block" \in Labels
  BY <1>1, <1>2 DEF Inv, Types, Alike, Labels
<1>4. CASE ~(f.tmp = Len(Blocks(t)))
  <2>1. UNCHANGED <<list, result>>
    BY <1>4 DEF Grow
  <2>2. ThreadOK("seek_block", f, Due, Nbr, list)
    BY <1>2, FromGrow
  <2> QED BY <1>1, <1>2, <1>3, <2>1, <2>2, NoWork, QuietStep
<1>5. CASE f.tmp = Len(Blocks(t))
  <2>1. /\ list' = WithBlock(list, f.v, block)
        /\ result' = [x \in Ids |-> IF x = order[u] THEN ADDED
                                    ELSE IF \E i \in run : order[i] = x THEN UPDATED
                                    ELSE result[x]]
    BY <1>5 DEF Grow, WithBlock, RunFrom
  <2>2. /\ span = f.first..f.last /\ f.first \in Nat /\ f.last \in Nat
        /\ \A i \in span : /\ i \in DOMAIN order /\ i \in Nat /\ i >= 1 /\ order[i] \in Ids
                           /\ Nbr[i] = Neighbor(order[i]) /\ Source(order[i]) = f.v
        /\ order \in Seq(Ids) /\ result \in [Ids -> Codes]
        /\ \A i, j \in DOMAIN order : order[i] = order[j] => i = j
        /\ Len(order) \in Nat /\ DOMAIN order = 1..Len(order) /\ f.last \in DOMAIN order
    BY <1>1, Ranged, OrderTypes DEF Inv, Types, OrderOK
  <2>3. u \in span /\ u \in Pend /\ \A i \in span \cap Pend : u <= i
    BY <1>1, RunIs
  <2>4. /\ run \subseteq span /\ u \in run
        /\ \A i \in run : Nbr[i] = Nbr[u] /\ (u \in Due => i \in Due)
        /\ \A i \in span \cap Pend : Nbr[i] = Nbr[u] => i \in run
    BY <1>1, RunIs
  <2>14. \A i \in run : Pure(order[i]) => u \in Due
    <3> SUFFICES ASSUME NEW i \in run, Pure(order[i]) PROVE u \in Due
      OBVIOUS
    <3>1. /\ order[i] \in Ids /\ order[u] \in Ids
          /\ Source(order[i]) = Source(order[u]) /\ Neighbor(order[i]) = Neighbor(order[u])
      BY <2>2, <2>3, <2>4
    <3> QED BY <2>3, <3>1, UpdateTypes DEF Inv, Types, Due
  <2>5. Max(run) \in run /\ u <= Max(run) /\ Max(run) \in DOMAIN order
    BY <1>1, RunIs
  <2> HIDE DEF u, run
  <2>6. ids[1] = order[u]
    <3>1. u \in 1..Len(order) /\ Max(run) \in 1..Len(order) /\ u <= Max(run)
      BY <2>2, <2>3, <2>5
    <3> QED BY <2>2, <3>1
  <2>7. /\ block.high = 1 /\ DOMAIN block.slot = 1..EBSize
        /\ block.slot[1].neighbor = Nbr[u]
        /\ \A j \in 2..EBSize : block.slot[j].neighbor = Blank
    <3> HIDE DEF ids
    <3>1. EBSize \in Nat /\ 1 \in 1..EBSize
      BY Sizes
    <3>2. Nbr[u] = Neighbor(ids[1])
      BY <2>2, <2>3, <2>6
    <3> QED BY <3>1, <3>2 DEF NewBlock, EmptyBlock, NewSlot, Written
  <2> HIDE DEF block
  <2>8. /\ ListType(list') /\ Appended(list, list', f.v, Nbr[u])
        /\ \A w \in Vertices \ {f.v} : list'[w] = list[w]
    BY <1>2, <2>1, <2>7, BlockAppended
  <2>9. /\ Settles(t)
        /\ \A i \in span : i \in Due' <=> i \in Due /\ Nbr[i] # Nbr[u]
    <3>1. \A x \in Ids : result'[x] = IF x = order[u] THEN ADDED
                                      ELSE IF \E i \in run : order[i] = x THEN UPDATED
                                      ELSE result[x]
      BY <2>1
    <3>2. result' \in [Ids -> Codes]
      BY <2>1, <2>2 DEF Codes
    <3>3. \A x \in Ids : (\E i \in run : order[i] = x) /\ Pure(x) => result[x] = PENDING
      BY <2>4, <2>14 DEF Due, Pend
    <3>4. \A x \in Ids : result'[x] # result[x] =>
            \E i \in run : order[i] = x /\ result'[x] \in {ADDED, UPDATED}
      BY <2>4, <3>1
    <3>5. Settles(t)
      BY <1>1, <2>4, <3>2, <3>3, <3>4 DEF Settles
    <3>6. ASSUME NEW i \in span, i \in Pend, Nbr[i] = Nbr[u] PROVE result'[order[i]] # PENDING
      BY <2>2, <2>4, <3>1, <3>6 DEF ADDED, UPDATED, PENDING
    <3>7. ASSUME NEW i \in span, i \in Pend, Nbr[i] # Nbr[u] PROVE result'[order[i]] = PENDING
      <4>1. i \in DOMAIN order /\ order[i] \in Ids /\ result[order[i]] = PENDING
        BY <2>2, <3>7 DEF Pend
      <4>2. ~\E j \in run : order[j] = order[i]
        BY <2>2, <2>4, <3>7
      <4> QED BY <2>4, <3>1, <4>1, <4>2
    <3>8. ASSUME NEW i \in span, i \notin Pend PROVE result'[order[i]] # PENDING
      BY <2>2, <3>1, <3>8 DEF Pend, ADDED, UPDATED, PENDING
    <3>9. \A i \in span : i \in Pend' <=> i \in Pend /\ Nbr[i] # Nbr[u]
      BY <1>1, <2>2, <3>6, <3>7, <3>8 DEF Pend
    <3>10. \A i \in span : i \in Due' <=> i \in Due /\ Nbr[i] # Nbr[u]
      BY <1>1, <3>5, <3>9, SettledPend DEF Due
    <3> QED BY <3>5, <3>10
  <2>10. u \in Due => Wants("grow", f, Due, Nbr, Nbr[u])
    BY <2>3 DEF Wants
  <2>11. \A w, m \in Vertices : Unmixed(w, m) => OneSlot(list, w, m)
    BY DEF Inv, UniqueNeighbor
  <2>15. Nbr[u] \in Vertices /\ (Unmixed(f.v, Nbr[u]) => u \in Due)
    <3>1. order[u] \in Ids /\ Source(order[u]) = f.v /\ Neighbor(order[u]) = Nbr[u]
      BY <2>2, <2>3
    <3> QED BY <2>3, <3>1, UpdateTypes DEF Inv, Types, Due
  <2>12. /\ Fills(list, list', f.v)
         /\ \A m \in Vertices : Unmixed(f.v, m) => OneSlot(list', f.v, m)
         /\ ThreadOK("seek_block", f, Due', Nbr, list')
    <3> HIDE DEF f
    <3>1. f.tmp = Len(list[f.v])
      BY <1>2, <1>5
    <3>2. /\ Fills(list, list', f.v)
          /\ \A x \in Vertices :
               OneSlot(list, f.v, x) /\ (x = Nbr[u] => Wants("grow", f, Due, Nbr, Nbr[u])) =>
                 OneSlot(list', f.v, x)
          /\ ThreadOK("seek_block", f, Due', Nbr, list')
      <4> DEFINE m == Nbr[u]  Q == Due'  h == list'
      <4>1. /\ ListType(h) /\ Appended(list, h, f.v, m) /\ m \in Vertices
            /\ \A i \in Span("grow", f) : i \in Q <=> i \in Due /\ Nbr[i] # m
        BY <2>8, <2>9, <2>15
      <4> HIDE DEF m, Q, h
      <4>2. /\ Fills(list, h, f.v)
            /\ \A x \in Vertices :
                 OneSlot(list, f.v, x) /\ (x = m => Wants("grow", f, Due, Nbr, m)) =>
                   OneSlot(h, f.v, x)
            /\ ThreadOK("seek_block", f, Q, Nbr, h)
        BY <1>2, <3>1, <4>1, BlockGrown
      <4> QED BY <4>2 DEF m, Q, h
    <3> QED BY <1>2, <2>10, <2>11, <2>15, <3>2
  <2>13. \A w \in Vertices : Fills(list, list', w)
    BY <1>2, <2>8, <2>12, SameList
  <2>16. \A w, m \in Vertices : Unmixed(w, m) => OneSlot(list', w, m)
    BY <1>2, <2>8, <2>11, <2>12, SameList
  <2> QED BY <1>1, <1>2, <1>3, <2>8, <2>9, <2>12, <2>13, <2>16, NoWork, ThreadStep
<1> QED BY <1>4, <1>5

LEMMA TakeRangeInv == ASSUME Inv, NEW t \in Threads, TakeRange(t) PROVE Inv'
<1>0. pc[t] = "idle" /\ UNCHANGED <<input, pass, order, result, list>>
  BY DEF TakeRange
<1>1. PICK r \in todo :
        /\ todo' = todo \ {r}
        /\ frame' = [frame EXCEPT ![t] =
             [Idle EXCEPT !.v = Source(order[r[1]]), !.first = r[1], !.last = r[2]]]
        /\ pc' = [pc EXCEPT ![t] =
             IF list[Source(order[r[1]])] = <<>> THEN "seek_block" ELSE "find_block"]
  BY DEF TakeRange
<1> DEFINE v == Source(order[r[1]])
           f == [Idle EXCEPT !.v = v, !.first = r[1], !.last = r[2]]
           l == IF list[v] = <<>> THEN "seek_block" ELSE "find_block"
<1>2. /\ IsRange(Src, r[1], r[2]) /\ Types /\ ListType(list)
      /\ \A i, j \in DOMAIN order : i \in Nat
  BY OrderTypes DEF Inv, RangesOK, Types
<1>3. /\ r[1] \in DOMAIN order /\ r[2] \in DOMAIN order /\ r[1] \in Nat /\ r[2] \in Nat
      /\ \A i \in r[1]..r[2] : /\ i \in DOMAIN order /\ Src[i] = Src[r[1]]
                               /\ Source(order[i]) = v /\ order[i] \in Ids
                               /\ Nbr[i] = Neighbor(order[i]) /\ Nbr[i] \in Vertices
      /\ v = Src[r[1]] /\ v \in Vertices
  BY <1>2, OrderTypes DEF IsRange
<1>4. /\ f \in FrameType /\ f.v = v /\ f.first = r[1] /\ f.last = r[2] /\ f.tmp = 0 /\ f.endk = 0
  <2>1. v \in Nat
    BY <1>3, Sizes
  <2> QED BY <1>3, <2>1 DEF Idle, FrameType, Operations
<1>5. /\ pc' = [pc EXCEPT ![t] = l] /\ frame' = [frame EXCEPT ![t] = f]
      /\ l \in {"find_block", "seek_block"}
  BY <1>1
<1>6. Len(list[v]) \in Nat /\ (list[v] = <<>> <=> Len(list[v]) = 0)
  <2>1. list[v] \in Seq({list[v][b] : b \in DOMAIN list[v]})
    BY <1>2, <1>3 DEF ListType
  <2> QED BY <2>1
<1>7. (l = "find_block" => Len(list[f.v]) # 0) /\ (l = "seek_block" => Len(list[f.v]) = 0)
  BY <1>4, <1>6
<1> HIDE DEF f, l
<1>8. Span(l, f) = r[1]..r[2] /\ l # "idle" /\ l \in Labels
  BY <1>4, <1>5 DEF Span, Labels
<1>9. FrameOK(l, f, Nbr)
  BY <1>3, <1>4, <1>8 DEF FrameOK
<1>10. ThreadOK(l, f, Due, Nbr, list)
  <2>1. \A i \in r[1]..r[2] : i \in Due <=> Pure(order[i]) /\ Upd(order[i]).result = 0
    BY DEF Inv, ResultsOK, Due
  <2>2. \A i, j \in r[1]..r[2] : Nbr[i] = Nbr[j] =>
          /\ Pure(order[i]) <=> Pure(order[j])
          /\ Pure(order[i]) => (Upd(order[i]).result = 0 <=> Upd(order[j]).result = 0)
    <3>1. input \in Cases
      BY <1>2 DEF Types
    <3>2. \A x, y \in Ids : Source(x) = Source(y) /\ Neighbor(x) = Neighbor(y) =>
            /\ Pure(x) <=> Pure(y)
            /\ Pure(x) => (Upd(x).result = 0 <=> Upd(y).result = 0)
      BY <3>1, UpdateTypes
    <3> QED BY <1>3, <3>2
  <2>3. \A i, j \in Span(l, f) : Nbr[i] = Nbr[j] => (i \in Due <=> j \in Due)
    BY <1>8, <2>1, <2>2
  <2> QED BY <1>2, <1>4, <1>5, <1>7, <1>9, <2>3, RangeTaken
<1>11. /\ pc \in [Threads -> Labels] /\ frame \in [Threads -> FrameType]
       /\ pc'[t] = l /\ frame'[t] = f
       /\ \A w \in Threads : w # t => pc'[w] = pc[w] /\ frame'[w] = frame[w]
  BY <1>2, <1>5 DEF Types
<1>12. /\ Ids' = Ids /\ Src' = Src /\ Nbr' = Nbr /\ Passes' = Passes /\ Pend' = Pend
       /\ \A x : Upd(x)' = Upd(x)
       /\ Half("up")' = Half("up") /\ Half("down")' = Half("down")
       /\ (\A w, m : Unmixed(w, m)' = Unmixed(w, m)) /\ \A x : Pure(x)' = Pure(x)
  BY <1>0, SameOrder DEF Pend
<1>20. Due' = Due
  BY <1>0, <1>12 DEF Due
<1>13. Types'
  <2>1. pc' \in [Threads -> Labels] /\ frame' \in [Threads -> FrameType]
    BY <1>4, <1>5, <1>8, <1>11
  <2>2. \A w \in Threads : pc'[w] = "idle" => frame'[w] = Idle
    BY <1>2, <1>8, <1>11 DEF Types
  <2> QED BY <1>0, <1>2, <1>12, <2>1, <2>2 DEF Types
<1>14. OrderOK'
  <2>1. pass > 0 => Half(Passes[pass].half)' = Half(Passes[pass].half)
    BY <1>0, <1>12 DEF Half
  <2>2. pass # 0
    BY DEF Inv, OrderOK
  <2> QED BY <1>0, <1>12, <2>1, <2>2 DEF Inv, OrderOK
<1>15. RangesOK'
  <2>1. todo' \subseteq todo /\ r \notin todo'
    BY <1>1
  <2>2. /\ \A q \in todo' : IsRange(Src', q[1], q[2])
        /\ \A q, s \in todo' : q # s => (q[1]..q[2]) \cap (s[1]..s[2]) = {}
    BY <1>12, <2>1 DEF Inv, RangesOK
  <2>3. ASSUME NEW w \in Threads, pc'[w] # "idle"
        PROVE  /\ IsRange(Src', frame'[w].first, frame'[w].last)
               /\ frame'[w].v = Src'[frame'[w].first]
               /\ \A q \in todo' : (q[1]..q[2]) \cap Span(pc'[w], frame'[w]) = {}
    <3>1. CASE w = t
      <4>1. \A q \in todo' : (q[1]..q[2]) \cap (r[1]..r[2]) = {}
        BY <2>1 DEF Inv, RangesOK
      <4> QED BY <1>2, <1>3, <1>4, <1>8, <1>11, <1>12, <3>1, <4>1
    <3>2. CASE w # t
      BY <1>11, <1>12, <2>1, <2>3, <3>2 DEF Inv, RangesOK
    <3> QED BY <3>1, <3>2
  <2>4. ASSUME NEW w \in Threads, w # t PROVE Span(pc'[w], frame'[w]) \cap Span(pc'[t], frame'[t]) = {}
    <3>1. Span(pc[w], frame[w]) \cap (r[1]..r[2]) = {}
      BY DEF Inv, RangesOK, Span
    <3> QED BY <1>8, <1>11, <2>4, <3>1
  <2>5. \A w, x \in Threads : w # x => Span(pc'[w], frame'[w]) \cap Span(pc'[x], frame'[x]) = {}
    <3>1. \A w, x \in Threads : w # x => Span(pc[w], frame[w]) \cap Span(pc[x], frame[x]) = {}
      BY DEF Inv, RangesOK
    <3> QED BY <1>11, <2>4, <3>1
  <2> QED BY <2>2, <2>3, <2>5 DEF RangesOK
<1>16. Covered'
  <2> SUFFICES ASSUME NEW i \in Pend
               PROVE  \/ \E q \in todo' : i \in q[1]..q[2]
                      \/ \E w \in Threads : i \in Span(pc'[w], frame'[w])
    BY <1>12 DEF Covered
  <2>1. CASE \E q \in todo : i \in q[1]..q[2]
    BY <1>1, <1>8, <1>11, <2>1
  <2>2. ASSUME NEW w \in Threads, i \in Span(pc[w], frame[w])
        PROVE  \E x \in Threads : i \in Span(pc'[x], frame'[x])
    <3>1. w # t
      BY <1>0, <2>2 DEF Span
    <3> QED BY <1>11, <2>2, <3>1
  <2> QED BY <2>1, <2>2 DEF Inv, Covered
<1>17. ResultsOK'
  <2>1. todo' \subseteq todo
    BY <1>1
  <2> QED BY <1>0, <1>12, <2>1 DEF Inv, ResultsOK
<1>18. UniqueNeighbor'
  BY <1>0, <1>12 DEF Inv, UniqueNeighbor
<1>19. \A w \in Threads : ThreadOK(pc'[w], frame'[w], Due', Nbr', list')
  BY <1>0, <1>10, <1>11, <1>12, <1>20 DEF Inv
<1>21. \A w \in Threads : WorkOK(pc'[w], frame'[w], Pend')
  <2>1. WorkOK(l, f, Pend)
    BY <1>5, NoWork
  <2> QED BY <1>11, <1>12, <2>1 DEF Inv
<1>22. \A w \in Threads : WorkOK(pc[w], frame[w], Pend)'
  BY <1>0, <1>12, <1>21 DEF WorkOK
<1> QED BY <1>22, <1>13, <1>14, <1>15, <1>16, <1>17, <1>18, <1>19 DEF Inv

-----------------------------------------------------------------------------
(* The beginning of a pass: its order and its ranges.                      *)

LEMMA Quotient ==
  ASSUME NEW a \in Nat, NEW n \in Nat, n >= 1
  PROVE  /\ a \div n \in Nat /\ (a \div n) * n <= a /\ a < (a \div n) * n + n
OBVIOUS

LEMMA Multiples ==
  ASSUME NEW d \in Nat, NEW i \in Nat, NEW j \in Nat, i <= j
  PROVE  /\ i * d \in Nat /\ j * d \in Nat /\ i * d <= j * d
         /\ (i + 1) * d = i * d + d /\ i * d = d * i
<1>1. (j - i) * d >= 0 /\ (j - i) * d = j * d - i * d
  OBVIOUS
<1>2. (i + 1) * d = i * d + d /\ i * d = d * i
  OBVIOUS
<1> QED BY <1>1, <1>2

LEMMA Team == Cardinality(Threads) \in Nat /\ Cardinality(Threads) >= 1
<1>1. IsFiniteSet(Threads) /\ Threads # {}
  BY BatchInsertAssumption
<1>2. Cardinality(Threads) \in Nat /\ Cardinality(Threads) # 0
  BY <1>1, FS_CardinalityType, FS_EmptySet
<1> QED BY <1>2

\* Part i of n of the positions from a to b, with d in each and the rest in the last.
Part(a, b, n, d, i) == <<a + i * d, IF i = n - 1 THEN b ELSE a + (i + 1) * d - 1>>

LEMMA Parts ==
  ASSUME NEW a \in Nat, NEW b \in Nat, a <= b, NEW n \in Nat, n >= 1, NEW d \in Nat, d >= 1,
         n * d <= b - a + 1
  PROVE  /\ \A i \in 0..n - 1 : /\ a <= Part(a, b, n, d, i)[1]
                                /\ Part(a, b, n, d, i)[1] <= Part(a, b, n, d, i)[2]
                                /\ Part(a, b, n, d, i)[2] <= b
                                /\ Part(a, b, n, d, i)[1] \in Nat
                                /\ Part(a, b, n, d, i)[2] \in Nat
         /\ \A i, j \in 0..n - 1 : i < j => Part(a, b, n, d, i)[2] < Part(a, b, n, d, j)[1]
         /\ \A x \in a..b : \E i \in 0..n - 1 :
              x \in Part(a, b, n, d, i)[1]..Part(a, b, n, d, i)[2]
<1>1. ASSUME NEW i \in 0..n - 1
      PROVE  /\ i * d \in Nat /\ (i + 1) * d = i * d + d /\ i * d + d <= n * d /\ n * d \in Nat
             /\ Part(a, b, n, d, i)[1] = a + i * d
             /\ Part(a, b, n, d, i)[2] = IF i = n - 1 THEN b ELSE a + i * d + d - 1
  <2>1. i \in Nat /\ i + 1 \in Nat /\ i + 1 <= n /\ i <= i + 1
    OBVIOUS
  <2>2. i * d \in Nat /\ (i + 1) * d = i * d + d
    BY <2>1, Multiples
  <2>3. (i + 1) * d <= n * d /\ n * d \in Nat
    BY <2>1, Multiples
  <2> QED BY <2>2, <2>3 DEF Part
<1> DEFINE first(i) == Part(a, b, n, d, i)[1]
           last(i) == Part(a, b, n, d, i)[2]
<1>2. ASSUME NEW i \in 0..n - 1
      PROVE  /\ a <= first(i) /\ first(i) <= last(i) /\ last(i) <= b
             /\ first(i) \in Nat /\ last(i) \in Nat
  <2> HIDE DEF first, last
  <2>1. i * d \in Nat /\ i * d + d <= b - a + 1
        /\ first(i) = a + i * d /\ last(i) = IF i = n - 1 THEN b ELSE a + i * d + d - 1
    BY <1>1 DEF first, last
  <2> DEFINE id == i * d
  <2>2. id \in Nat /\ id + d <= b - a + 1
        /\ first(i) = a + id /\ last(i) = IF i = n - 1 THEN b ELSE a + id + d - 1
    BY <2>1
  <2> HIDE DEF id
  <2> QED BY <2>2
<1>3. ASSUME NEW i \in 0..n - 1, NEW j \in 0..n - 1, i < j PROVE last(i) < first(j)
  <2>1. i \in Nat /\ i + 1 \in Nat /\ j \in Nat /\ i + 1 <= j /\ i # n - 1
    BY <1>3
  <2>2. (i + 1) * d <= j * d /\ j * d \in Nat
    BY <2>1, Multiples
  <2> QED BY <1>1, <2>1, <2>2
<1>4. ASSUME NEW x \in a..b PROVE \E i \in 0..n - 1 : x \in first(i)..last(i)
  <2> DEFINE q == (x - a) \div d
  <2>1. x - a \in Nat
    OBVIOUS
  <2>2. q \in Nat /\ q * d <= x - a /\ x - a < q * d + d
    BY <2>1, Quotient
  <2> HIDE DEF q
  <2>3. CASE q < n - 1
    <3>1. q \in 0..n - 1 /\ q # n - 1
      BY <2>2, <2>3
    <3>2. x \in first(q)..last(q)
      BY <1>1, <2>2, <3>1
    <3> QED BY <3>1, <3>2
  <2>4. CASE ~(q < n - 1)
    <3>1. n - 1 \in 0..n - 1 /\ n - 1 \in Nat /\ n - 1 <= q
      BY <2>2, <2>4
    <3>2. (n - 1) * d <= q * d /\ (n - 1) * d \in Nat /\ q * d \in Nat
      BY <2>2, <3>1, Multiples
    <3>3. x \in first(n - 1)..last(n - 1)
      BY <1>1, <2>2, <3>1, <3>2
    <3> QED BY <3>1, <3>3
  <2> QED BY <2>3, <2>4
<1> QED BY <1>2, <1>3, <1>4

\* The ranges of one source are apart and leave nothing out.
LEMMA Splits ==
  ASSUME NEW a \in Nat, NEW b \in Nat, a <= b
  PROVE  /\ \A r \in Split(a, b) : r[1] \in a..b /\ r[2] \in a..b /\ r[1] <= r[2]
         /\ \A r, s \in Split(a, b) : r # s => (r[1]..r[2]) \cap (s[1]..s[2]) = {}
         /\ \A x \in a..b : \E r \in Split(a, b) : x \in r[1]..r[2]
<1> DEFINE n == Cardinality(Threads)
           d == (b - a + 1) \div n
<1>1. n \in Nat /\ n >= 1 /\ b - a + 1 \in Nat
  BY Team
<1>2. d \in Nat /\ d * n <= b - a + 1
  BY <1>1, Quotient
<1>3. Split(a, b) = IF d < n THEN {<<a, b>>} ELSE {Part(a, b, n, d, i) : i \in 0..n - 1}
  BY DEF Split, Part
<1> HIDE DEF n, d
<1>4. CASE d < n
  <2>1. Split(a, b) = {<<a, b>>}
    BY <1>3, <1>4
  <2>2. \A r \in Split(a, b) : r[1] = a /\ r[2] = b /\ r = <<a, b>>
    BY <2>1
  <2>3. <<a, b>> \in Split(a, b)
    BY <2>1
  <2>4. \A x \in a..b : \E r \in Split(a, b) : x \in r[1]..r[2]
    BY <2>2, <2>3
  <2> QED BY <2>2, <2>4
<1>5. CASE ~(d < n)
  <2>1. d >= 1 /\ n * d <= b - a + 1
    <3>1. d * n = n * d
      BY <1>1, <1>2
    <3> QED BY <1>1, <1>2, <1>5, <3>1
  <2> DEFINE first(i) == Part(a, b, n, d, i)[1]
             last(i) == Part(a, b, n, d, i)[2]
  <2>2. /\ \A i \in 0..n - 1 : /\ a <= first(i) /\ first(i) <= last(i) /\ last(i) <= b
                               /\ first(i) \in Nat /\ last(i) \in Nat
        /\ \A i, j \in 0..n - 1 : i < j => last(i) < first(j)
        /\ \A x \in a..b : \E i \in 0..n - 1 : x \in first(i)..last(i)
    BY <1>1, <1>2, <2>1, Parts
  <2>3. \A r \in Split(a, b) : \E i \in 0..n - 1 :
          r = Part(a, b, n, d, i) /\ r[1] = first(i) /\ r[2] = last(i)
    BY <1>3, <1>5
  <2>4. \A i \in 0..n - 1 : Part(a, b, n, d, i) \in Split(a, b)
    BY <1>3, <1>5
  <2>5. \A r \in Split(a, b) : r[1] \in a..b /\ r[2] \in a..b /\ r[1] <= r[2]
    <3> HIDE DEF first, last
    <3> QED BY <2>2, <2>3
  <2>6. ASSUME NEW r \in Split(a, b), NEW s \in Split(a, b), r # s
        PROVE  (r[1]..r[2]) \cap (s[1]..s[2]) = {}
    <3>1. PICK i \in 0..n - 1 : r = Part(a, b, n, d, i) /\ r[1] = first(i) /\ r[2] = last(i)
      BY <2>3
    <3>2. PICK j \in 0..n - 1 : s = Part(a, b, n, d, j) /\ s[1] = first(j) /\ s[2] = last(j)
      BY <2>3
    <3>3. i < j \/ j < i
      BY <1>1, <2>6, <3>1, <3>2
    <3>4. last(i) < first(j) \/ last(j) < first(i)
      BY <2>2, <3>3
    <3> HIDE DEF first, last
    <3> QED BY <2>2, <3>1, <3>2, <3>4
  <2>7. \A x \in a..b : \E r \in Split(a, b) : x \in r[1]..r[2]
    BY <2>2, <2>4
  <2> QED BY <2>5, <2>6, <2>7
<1> QED BY <1>4, <1>5

\* The source and the neighbour of an update in pass p.
SourceIn(p, x) == IF Passes[p].at = "src" THEN Upd(x).src ELSE Upd(x).dst
NeighborIn(p, x) == IF Passes[p].at = "src" THEN Upd(x).dst ELSE Upd(x).src

\* S has the sources of the updates s in pass p: each source in a row.
SourcesInARow(S, p, s) ==
  /\ Len(s) \in Nat /\ DOMAIN s = 1..Len(s) /\ DOMAIN S = DOMAIN s
  /\ \A i \in DOMAIN s : S[i] = SourceIn(p, s[i])
  /\ \A i, j, k \in DOMAIN s : i < j /\ j < k /\ S[i] = S[k] => S[j] = S[i]

LEMMA RangesOfPass ==
  ASSUME NEW p, NEW s, NEW S, SourcesInARow(S, p, s)
  PROVE  /\ \A r \in Ranges(p, s) : IsRange(S, r[1], r[2])
         /\ \A r, q \in Ranges(p, s) : r # q => (r[1]..r[2]) \cap (q[1]..q[2]) = {}
         /\ \A i \in DOMAIN s : \E r \in Ranges(p, s) : i \in r[1]..r[2]
<1> DEFINE same(i) == {j \in DOMAIN s : S[j] = S[i]}
           a(i) == Min(same(i))
           b(i) == Max(same(i))
<1>0. /\ Len(s) \in Nat /\ DOMAIN s = 1..Len(s) /\ DOMAIN S = DOMAIN s
      /\ \A i \in DOMAIN s : S[i] = SourceIn(p, s[i])
      /\ \A i, j, k \in DOMAIN s : i < j /\ j < k /\ S[i] = S[k] => S[j] = S[i]
  BY DEF SourcesInARow
<1>1. Ranges(p, s) = UNION {Split(a(i), b(i)) : i \in DOMAIN s}
  <2> DEFINE own(i) == {j \in DOMAIN s : SourceIn(p, s[j]) = SourceIn(p, s[i])}
  <2>1. Ranges(p, s) = UNION {Split(Min(own(i)), Max(own(i))) : i \in DOMAIN s}
    BY DEF Ranges, SourceIn
  <2>2. \A i \in DOMAIN s : own(i) = same(i)
    BY <1>0
  <2>3. \A i \in DOMAIN s : Split(Min(own(i)), Max(own(i))) = Split(a(i), b(i))
    BY <2>2
  <2> HIDE DEF own, a, b
  <2> QED BY <2>1, <2>3
<1>2. ASSUME NEW i \in DOMAIN s
      PROVE  /\ a(i) \in Nat /\ b(i) \in Nat /\ a(i) \in DOMAIN s /\ b(i) \in DOMAIN s
             /\ a(i) <= i /\ i <= b(i) /\ S[a(i)] = S[i]
             /\ \A j \in a(i)..b(i) : j \in DOMAIN s /\ S[j] = S[i]
  <2>1. i \in same(i) /\ same(i) \in SUBSET Nat /\ same(i) \subseteq 0..Len(s)
    BY <1>0
  <2>2. \A j \in same(i) : j \in DOMAIN s /\ j \in Nat /\ S[j] = S[i]
    BY <1>0
  <2> HIDE DEF same
  <2>3. a(i) \in same(i) /\ \A j \in same(i) : a(i) <= j
    BY <2>1, MinOf
  <2>4. b(i) \in same(i) /\ \A j \in same(i) : j <= b(i)
    BY <1>0, <2>1, MaxOf
  <2> HIDE DEF a, b
  <2>5. ASSUME NEW j \in a(i)..b(i) PROVE j \in DOMAIN s /\ S[j] = S[i]
    <3>1. a(i) \in DOMAIN s /\ b(i) \in DOMAIN s /\ S[a(i)] = S[i] /\ S[b(i)] = S[i]
      BY <2>2, <2>3, <2>4
    <3>2. j \in DOMAIN s
      BY <1>0, <3>1
    <3>3. CASE j = a(i) \/ j = b(i)
      BY <3>1, <3>3
    <3>4. CASE a(i) < j /\ j < b(i)
      BY <1>0, <3>1, <3>2, <3>4
    <3> QED BY <1>0, <3>1, <3>2, <3>3, <3>4
  <2> QED BY <1>0, <2>1, <2>2, <2>3, <2>4, <2>5
<1>3. \A i, j \in DOMAIN s : S[i] = S[j] => a(i) = a(j) /\ b(i) = b(j)
  OBVIOUS
<1> HIDE DEF a, b
<1>4. ASSUME NEW r \in Ranges(p, s)
      PROVE  \E i \in DOMAIN s : /\ r \in Split(a(i), b(i))
                                 /\ r[1] \in a(i)..b(i) /\ r[2] \in a(i)..b(i) /\ r[1] <= r[2]
  <2>1. PICK i \in DOMAIN s : r \in Split(a(i), b(i))
    BY <1>1
  <2>2. a(i) \in Nat /\ b(i) \in Nat /\ a(i) <= b(i)
    BY <1>0, <1>2
  <2> QED BY <2>1, <2>2, Splits
<1>5. ASSUME NEW r \in Ranges(p, s) PROVE IsRange(S, r[1], r[2])
  <2>1. PICK i \in DOMAIN s : r[1] \in a(i)..b(i) /\ r[2] \in a(i)..b(i) /\ r[1] <= r[2]
    BY <1>4
  <2>2. \A j \in r[1]..r[2] : j \in a(i)..b(i)
    BY <1>2, <2>1
  <2> QED BY <1>0, <1>2, <2>1, <2>2 DEF IsRange
<1>6. ASSUME NEW r \in Ranges(p, s), NEW q \in Ranges(p, s), r # q
      PROVE  (r[1]..r[2]) \cap (q[1]..q[2]) = {}
  <2>1. PICK i \in DOMAIN s : /\ r \in Split(a(i), b(i))
                              /\ r[1] \in a(i)..b(i) /\ r[2] \in a(i)..b(i) /\ r[1] <= r[2]
    BY <1>4
  <2>2. PICK j \in DOMAIN s : /\ q \in Split(a(j), b(j))
                              /\ q[1] \in a(j)..b(j) /\ q[2] \in a(j)..b(j) /\ q[1] <= q[2]
    BY <1>4
  <2>3. CASE S[i] = S[j]
    <3>1. r \in Split(a(i), b(i)) /\ q \in Split(a(i), b(i))
      BY <1>3, <2>1, <2>2, <2>3
    <3>2. a(i) \in Nat /\ b(i) \in Nat /\ a(i) <= b(i)
      BY <1>0, <1>2
    <3> QED BY <1>6, <3>1, <3>2, Splits
  <2>4. CASE S[i] # S[j]
    <3>1. \A x \in r[1]..r[2] : S[x] = S[i]
      BY <1>2, <2>1
    <3>2. \A x \in q[1]..q[2] : S[x] = S[j]
      BY <1>2, <2>2
    <3> QED BY <2>4, <3>1, <3>2
  <2> QED BY <2>3, <2>4
<1>7. ASSUME NEW i \in DOMAIN s PROVE \E r \in Ranges(p, s) : i \in r[1]..r[2]
  <2>1. a(i) \in Nat /\ b(i) \in Nat /\ a(i) <= b(i) /\ i \in a(i)..b(i)
    BY <1>0, <1>2
  <2>2. \A x \in a(i)..b(i) : \E r \in Split(a(i), b(i)) : x \in r[1]..r[2]
    BY <2>1, Splits
  <2>3. PICK r \in Split(a(i), b(i)) : i \in r[1]..r[2]
    BY <2>1, <2>2
  <2> QED BY <1>1, <2>3
<1> QED BY <1>5, <1>6, <1>7

LEMMA NotBefore ==
  ASSUME input \in Cases, NEW p, NEW x \in Ids, NEW y \in Ids, ~Before(p, x, y)
  PROVE  /\ SourceIn(p, x) >= SourceIn(p, y)
         /\ SourceIn(p, x) = SourceIn(p, y) => NeighborIn(p, x) >= NeighborIn(p, y)
<1> DEFINE key(z) == IF Passes[p].at = "src" THEN <<Upd(z).src, Upd(z).dst, Upd(z).ts>>
                     ELSE <<Upd(z).dst, Upd(z).src, Upd(z).ts>>
           a == key(x)
           b == key(y)
<1>1. \A z \in Ids : /\ SourceIn(p, z) \in Nat /\ NeighborIn(p, z) \in Nat
                     /\ key(z)[1] = SourceIn(p, z) /\ key(z)[2] = NeighborIn(p, z)
  <2>1. \A z \in Ids : Upd(z).src \in Nat /\ Upd(z).dst \in Nat
    BY UpdateTypes, Sizes
  <2> QED BY <2>1 DEF SourceIn, NeighborIn
<1>2. ~\E i \in 1..3 : a[i] < b[i] /\ \A j \in 1..i - 1 : a[j] = b[j]
  BY DEF Before
<1> HIDE DEF a, b
<1>3. ~(a[1] < b[1])
  <2>1. 1 \in 1..3 /\ 1..1 - 1 = {}
    OBVIOUS
  <2> QED BY <1>2, <2>1
<1>4. ~(a[1] = b[1] /\ a[2] < b[2])
  <2>1. 2 \in 1..3 /\ 1..2 - 1 = {1}
    OBVIOUS
  <2> QED BY <1>2, <2>1
<1>5. /\ a[1] = SourceIn(p, x) /\ a[2] = NeighborIn(p, x)
      /\ b[1] = SourceIn(p, y) /\ b[2] = NeighborIn(p, y)
  BY <1>1 DEF a, b
<1> QED BY <1>1, <1>3, <1>4, <1>5

LEMMA SortedPass ==
  ASSUME input \in Cases, NEW p, NEW s \in Sorted(p)
  PROVE  /\ s \in Seq(Ids) /\ Len(s) \in Nat /\ DOMAIN s = 1..Len(s)
         /\ \A i \in DOMAIN s : s[i] \in Half(Passes[p].half) /\ s[i] \in Ids
         /\ \A i, j \in DOMAIN s : s[i] = s[j] => i = j
         /\ \A i, j, k \in DOMAIN s :
              i < j /\ j < k /\ SourceIn(p, s[i]) = SourceIn(p, s[k]) =>
                /\ SourceIn(p, s[j]) = SourceIn(p, s[i])
                /\ NeighborIn(p, s[i]) = NeighborIn(p, s[k]) =>
                     NeighborIn(p, s[j]) = NeighborIn(p, s[i])
<1> DEFINE H == Half(Passes[p].half)
           n == Cardinality(H)
<1>1. H \subseteq Ids /\ n \in Nat
  <2>1. Ids = 1..Len(input.batch) /\ Len(input.batch) \in Nat
    BY UpdateTypes
  <2>2. IsFiniteSet(Ids)
    BY <2>1, FS_Interval
  <2>3. H \subseteq Ids
    BY DEF Half
  <2> QED BY <2>2, <2>3, FS_Subset, FS_CardinalityType
<1>2. /\ s \in [1..n -> H] /\ \A i, j \in 1..n : i # j => s[i] # s[j]
      /\ \A i, j \in DOMAIN s : i < j => ~Before(p, s[j], s[i])
  BY DEF Sorted, SetToSeqs
<1> HIDE DEF H, n
<1>3. s \in Seq(Ids) /\ Len(s) \in Nat /\ DOMAIN s = 1..Len(s) /\ Len(s) = n
  BY <1>1, <1>2
<1>4. \A i \in DOMAIN s : s[i] \in H /\ s[i] \in Ids
  BY <1>1, <1>2
<1>5. \A i, j \in DOMAIN s : s[i] = s[j] => i = j
  BY <1>2, <1>3
<1>6. \A x \in Ids : SourceIn(p, x) \in Nat /\ NeighborIn(p, x) \in Nat
  <2>1. \A z \in Ids : Upd(z).src \in Nat /\ Upd(z).dst \in Nat
    BY UpdateTypes, Sizes
  <2> QED BY <2>1 DEF SourceIn, NeighborIn
<1>7. \A i, j \in DOMAIN s : i < j =>
        /\ SourceIn(p, s[i]) <= SourceIn(p, s[j])
        /\ SourceIn(p, s[i]) = SourceIn(p, s[j]) => NeighborIn(p, s[i]) <= NeighborIn(p, s[j])
  <2> SUFFICES ASSUME NEW i \in DOMAIN s, NEW j \in DOMAIN s, i < j
               PROVE  /\ SourceIn(p, s[i]) <= SourceIn(p, s[j])
                      /\ SourceIn(p, s[i]) = SourceIn(p, s[j]) =>
                           NeighborIn(p, s[i]) <= NeighborIn(p, s[j])
    OBVIOUS
  <2>1. ~Before(p, s[j], s[i]) /\ s[i] \in Ids /\ s[j] \in Ids
    BY <1>2, <1>4
  <2> QED BY <1>6, <2>1, NotBefore
<1>8. ASSUME NEW i \in DOMAIN s, NEW j \in DOMAIN s, NEW k \in DOMAIN s, i < j, j < k,
             SourceIn(p, s[i]) = SourceIn(p, s[k])
      PROVE  /\ SourceIn(p, s[j]) = SourceIn(p, s[i])
             /\ NeighborIn(p, s[i]) = NeighborIn(p, s[k]) =>
                  NeighborIn(p, s[j]) = NeighborIn(p, s[i])
  <2>1. SourceIn(p, s[i]) <= SourceIn(p, s[j]) /\ SourceIn(p, s[j]) <= SourceIn(p, s[k])
    BY <1>7, <1>8
  <2>2. SourceIn(p, s[j]) = SourceIn(p, s[i])
    BY <1>4, <1>6, <1>8, <2>1
  <2>3. NeighborIn(p, s[i]) <= NeighborIn(p, s[j]) /\ NeighborIn(p, s[j]) <= NeighborIn(p, s[k])
    BY <1>7, <1>8, <2>2
  <2> QED BY <1>4, <1>6, <2>2, <2>3
<1> QED BY <1>3, <1>4, <1>5, <1>8 DEF H

\* Where a pass begins, what the caller has not marked is pending.
LEMMA PendingAgain ==
  ASSUME Inv, BeginPass
  PROVE  /\ pass' \in 1..Len(Passes) /\ pass' = pass + 1
         /\ result' \in [Ids -> Codes]
         /\ \A x \in Ids : Pure(x) => (result'[x] \in {-1, 1} <=> Upd(x).result # 0)
         /\ \A x \in Half(Passes[pass'].half) :
              Pure(x) => (result'[x] = PENDING <=> Upd(x).result = 0)
         /\ \A x \in Half("down") :
              Pure(x) /\ Upd(x).result = 0 /\ pass' \in {1, 2, 5, 6} => result'[x] = PENDING
<1>1. /\ input \in Cases /\ pass \in 0..Len(Passes) /\ result \in [Ids -> Codes]
      /\ \A x \in Ids : Pure(x) => (result[x] \in {-1, 1} <=> Upd(x).result # 0)
      /\ \A x \in Ids : /\ Pure(x) /\ Upd(x).result = 0
                        /\ pass = 0 \/ (pass \in {1, 2, 5, 6} /\ x \in Half("down"))
                        => result[x] = PENDING
  BY DEF Inv, Types, ResultsOK
<1>2. /\ Len(Passes) \in {4, 8}
      /\ \A p \in 1..Len(Passes) : Passes[p].half = IF p \in {1, 2, 5, 6} THEN "up" ELSE "down"
  BY <1>1, PassFacts
<1>3. pass' = pass + 1 /\ pass < Len(Passes) /\ result' = Clear(Cleared(pass'))
  BY DEF BeginPass
<1>4. pass' \in 1..Len(Passes) /\ pass' \in 1..8 /\ pass \in 0..7
  BY <1>1, <1>2, <1>3
<1> DEFINE cleared == Cleared(pass')
           half == Passes[pass'].half
<1>5. half = IF pass' \in {1, 2, 5, 6} THEN "up" ELSE "down"
  BY <1>2, <1>4
<1>6. cleared = IF pass' = 5 THEN Ids ELSE IF pass' \in {2, 4, 6, 8} THEN Half(half) ELSE {}
  <2>1. pass' % 2 = 0 <=> pass' \in {2, 4, 6, 8}
    <3>1. /\ 1 % 2 = 1 /\ 2 % 2 = 0 /\ 3 % 2 = 1 /\ 4 % 2 = 0
          /\ 5 % 2 = 1 /\ 6 % 2 = 0 /\ 7 % 2 = 1 /\ 8 % 2 = 0
      OBVIOUS
    <3>2. pass' \in {1, 2, 3, 4, 5, 6, 7, 8}
      BY <1>4
    <3> QED BY <3>1, <3>2
  <2> QED BY <2>1 DEF Cleared
<1> HIDE DEF cleared, half
<1>7. /\ result' \in [Ids -> Codes]
      /\ \A x \in Ids : result'[x] = IF x \in cleared /\ result[x] \in {ADDED, UPDATED}
                                     THEN PENDING ELSE result[x]
  <2>1. result' = [x \in Ids |-> IF x \in cleared /\ result[x] \in {ADDED, UPDATED}
                                 THEN PENDING ELSE result[x]]
    BY <1>3 DEF Clear, cleared
  <2>2. \A x \in Ids : result[x] \in Codes /\ PENDING \in Codes
    BY <1>1 DEF Codes, PENDING
  <2> QED BY <2>1, <2>2
<1>8. \A x \in Ids : Pure(x) => (result'[x] \in {-1, 1} <=> Upd(x).result # 0)
  BY <1>1, <1>7 DEF PENDING, ADDED, UPDATED
<1>9. ASSUME NEW x \in Ids, Pure(x), Upd(x).result = 0 PROVE result[x] \in {PENDING, ADDED, UPDATED}
  <2>1. result[x] \in Codes /\ result[x] \notin {-1, 1}
    BY <1>1, <1>9
  <2> QED BY <2>1 DEF Codes, PENDING
<1>10. \A h : Half(h) \subseteq Ids
  BY DEF Half
<1>11. ASSUME NEW x \in Half(half), Pure(x), Upd(x).result = 0 PROVE result'[x] = PENDING
  <2>1. x \in Ids /\ result[x] \in {PENDING, ADDED, UPDATED}
    BY <1>9, <1>10, <1>11
  <2>2. CASE pass' \in {2, 4, 5, 6, 8}
    BY <1>6, <1>7, <2>1, <2>2
  <2>3. CASE pass' = 1
    BY <1>1, <1>3, <1>4, <1>7, <1>11, <2>1, <2>3
  <2>4. CASE pass' \in {3, 7}
    <3>1. half = "down" /\ pass \in {2, 6}
      BY <1>3, <1>4, <1>5, <2>4
    <3>2. result[x] = PENDING
      BY <1>1, <1>11, <2>1, <3>1
    <3> QED BY <1>7, <2>1, <3>2
  <2> QED BY <1>4, <2>2, <2>3, <2>4
<1>12. ASSUME NEW x \in Half("down"), Pure(x), Upd(x).result = 0, pass' \in {1, 2, 5, 6}
       PROVE  result'[x] = PENDING
  <2>1. x \in Ids /\ result[x] \in {PENDING, ADDED, UPDATED}
    BY <1>9, <1>10, <1>12
  <2>2. CASE pass' = 5
    BY <1>6, <1>7, <2>1, <2>2
  <2>3. CASE pass' \in {1, 2, 6}
    <3>1. pass \in {0, 1, 5}
      BY <1>3, <1>4, <2>3
    <3>2. result[x] = PENDING
      BY <1>1, <1>12, <2>1, <3>1
    <3> QED BY <1>7, <2>1, <3>2
  <2> QED BY <1>12, <2>2, <2>3
<1>13. \A x \in Half(half) : Pure(x) /\ result'[x] = PENDING => Upd(x).result = 0
  BY <1>8, <1>10 DEF PENDING
<1> QED BY <1>3, <1>4, <1>7, <1>8, <1>11, <1>12, <1>13 DEF half

LEMMA BeginPassInv == ASSUME Inv, BeginPass PROVE Inv'
<1>1. /\ \A t \in Threads : pc[t] = "idle"
      /\ order' \in Sorted(pass') /\ todo' = Ranges(pass', order')
      /\ UNCHANGED <<input, list, pc, frame>>
  BY DEF BeginPass, AllIdle
<1>2. /\ pass' \in 1..Len(Passes) /\ pass' = pass + 1
      /\ result' \in [Ids -> Codes]
      /\ \A x \in Ids : Pure(x) => (result'[x] \in {-1, 1} <=> Upd(x).result # 0)
      /\ \A x \in Half(Passes[pass'].half) :
           Pure(x) => (result'[x] = PENDING <=> Upd(x).result = 0)
      /\ \A x \in Half("down") :
           Pure(x) /\ Upd(x).result = 0 /\ pass' \in {1, 2, 5, 6} => result'[x] = PENDING
  BY PendingAgain
<1>3. /\ input \in Cases /\ Types /\ ListType(list) /\ Len(Passes) \in Nat
      /\ pass' \in 0..Len(Passes) /\ pass' > 0
  <2>1. input \in Cases /\ Types /\ ListType(list)
    BY DEF Inv, Types
  <2>2. Len(Passes) \in Nat
    BY <2>1, PassFacts
  <2> QED BY <1>2, <2>1, <2>2
<1>4. /\ Passes' = Passes /\ Ids' = Ids /\ \A x : Upd(x)' = Upd(x)
      /\ Half("down")' = Half("down")
      /\ Half(Passes[pass].half)' = Half(Passes[pass'].half)
      /\ (\A v, n : Unmixed(v, n)' = Unmixed(v, n)) /\ \A x : Pure(x)' = Pure(x)
  <2>1. Passes' = Passes
    BY <1>1 DEF Passes
  <2>2. Ids' = Ids /\ \A x : Upd(x)' = Upd(x)
    BY <1>1 DEF Ids, Upd
  <2>3. \A v, n : Unmixed(v, n)' = Unmixed(v, n)
    BY <1>1, <2>2 DEF Unmixed, SameEdge, OneSlot
  <2>4. \A x : Pure(x)' = Pure(x)
    BY <2>2, <2>3 DEF Pure
  <2> QED BY <2>1, <2>2, <2>3, <2>4 DEF Half
<1>5. /\ DOMAIN Src' = DOMAIN order' /\ DOMAIN Nbr' = DOMAIN order'
      /\ \A i \in DOMAIN order' : /\ Src'[i] = SourceIn(pass', order'[i])
                                  /\ Nbr'[i] = NeighborIn(pass', order'[i])
  BY <1>4 DEF Src, Nbr, Source, Neighbor, SourceIn, NeighborIn
<1>6. /\ order' \in Seq(Ids) /\ Len(order') \in Nat /\ DOMAIN order' = 1..Len(order')
      /\ \A i \in DOMAIN order' : order'[i] \in Half(Passes[pass'].half) /\ order'[i] \in Ids
      /\ \A i, j \in DOMAIN order' : order'[i] = order'[j] => i = j
      /\ \A i, j, k \in DOMAIN order' :
           i < j /\ j < k /\ SourceIn(pass', order'[i]) = SourceIn(pass', order'[k]) =>
             /\ SourceIn(pass', order'[j]) = SourceIn(pass', order'[i])
             /\ NeighborIn(pass', order'[i]) = NeighborIn(pass', order'[k]) =>
                  NeighborIn(pass', order'[j]) = NeighborIn(pass', order'[i])
  BY <1>1, <1>3, SortedPass
<1>7. InARow(Src', Nbr')
  BY <1>5, <1>6 DEF InARow
<1>8. \A i, j, k \in DOMAIN order' : i < j /\ j < k /\ Src'[i] = Src'[k] => Src'[j] = Src'[i]
  BY <1>5, <1>7 DEF InARow
<1>9. /\ \A r \in todo' : IsRange(Src', r[1], r[2])
      /\ \A r, q \in todo' : r # q => (r[1]..r[2]) \cap (q[1]..q[2]) = {}
      /\ \A i \in DOMAIN order' : \E r \in todo' : i \in r[1]..r[2]
  <2>1. /\ Len(order') \in Nat /\ DOMAIN order' = 1..Len(order') /\ DOMAIN Src' = DOMAIN order'
        /\ \A i \in DOMAIN order' : Src'[i] = SourceIn(pass', order'[i])
    BY <1>5, <1>6
  <2>2. todo' = Ranges(pass', order')
    BY <1>1
  <2>3. SourcesInARow(Src', pass', order')
    BY <1>8, <2>1 DEF SourcesInARow
  <2> QED BY <2>1, <2>2, <2>3, RangesOfPass
<1>10. Types'
  BY <1>1, <1>2, <1>3, <1>4, <1>6 DEF Types
<1>11. OrderOK'
  BY <1>3, <1>4, <1>6, <1>7 DEF OrderOK
<1>12. \A t \in Threads : pc'[t] = "idle" /\ Span(pc'[t], frame'[t]) = {}
  BY <1>1 DEF Span
<1>13. RangesOK'
  BY <1>9, <1>12 DEF RangesOK
<1>14. Covered'
  BY <1>9 DEF Covered, Pend
<1>15. ResultsOK'
  <2>1. ASSUME NEW r \in todo', NEW i \in r[1]..r[2]
        PROVE  Pure(order'[i]) => (i \in Pend' <=> Upd(order'[i]).result = 0)
    <3>1. r[1] \in DOMAIN order' /\ r[2] \in DOMAIN order'
      BY <1>5, <1>9 DEF IsRange
    <3>2. i \in DOMAIN order'
      BY <1>6, <3>1
    <3> QED BY <1>2, <1>6, <3>2 DEF Pend
  <2>2. \A x \in Ids : Pure(x) => (result'[x] \in {-1, 1} <=> Upd(x).result # 0)
    BY <1>2
  <2>3. \A x \in Ids : /\ Pure(x) /\ Upd(x).result = 0
                       /\ pass' = 0 \/ (pass' \in {1, 2, 5, 6} /\ x \in Half("down"))
                       => result'[x] = PENDING
    BY <1>2, <1>3
  <2> QED BY <1>4, <2>1, <2>2, <2>3 DEF ResultsOK
<1>16. UniqueNeighbor'
  BY <1>1, <1>4 DEF Inv, UniqueNeighbor
<1>17. \A t \in Threads : ThreadOK(pc'[t], frame'[t], Due', Nbr', list')
  BY <1>12 DEF ThreadOK
<1>18. \A t \in Threads : WorkOK(pc[t], frame[t], Pend)'
  BY <1>12 DEF WorkOK
<1> QED BY <1>10, <1>11, <1>13, <1>14, <1>15, <1>16, <1>17, <1>18 DEF Inv

-----------------------------------------------------------------------------
(* The first invariant holds in every state.                               *)

LEMMA InitInv == ASSUME Init PROVE Inv
<1>1. /\ input \in Cases /\ pass = 0 /\ order = <<>> /\ todo = {} /\ list = input.list
      /\ result = [x \in Ids |-> Upd(x).result]
      /\ pc = [t \in Threads |-> "idle"] /\ frame = [t \in Threads |-> Idle]
  BY DEF Init
<1>2. ListType(list)
  <2> DEFINE B == [high : 0..EBSize, slot : [1..EBSize -> Slots]]
  <2>1. /\ list \in [Vertices -> Seq(B)]
        /\ \A v \in Vertices : BlocksOK(list, v)
    BY <1>1, BatchInsertAssumption
  <2>2. ASSUME NEW v \in Vertices
        PROVE  /\ list[v] \in Seq({list[v][b] : b \in DOMAIN list[v]})
               /\ \A b \in DOMAIN list[v] : DOMAIN list[v][b].slot = 1..EBSize
    <3>1. list[v] \in Seq(B)
      BY <2>1
    <3>2. \A b \in DOMAIN list[v] : list[v][b] \in B
      <4> HIDE DEF B
      <4> QED BY <3>1
    <3>3. \A b \in DOMAIN list[v] : DOMAIN list[v][b].slot = 1..EBSize
      BY <3>2
    <3> HIDE DEF B
    <3> QED BY <3>1, <3>3, OwnElements
  <2> QED BY <2>1, <2>2 DEF ListType
<1>3. Types
  <2>1. pass \in 0..Len(Passes)
    BY <1>1, PassFacts
  <2>2. result \in [Ids -> Codes]
    <3>1. \A x \in Ids : Upd(x).result \in Codes
      BY <1>1, UpdateTypes DEF Presets, Codes
    <3> QED BY <1>1, <3>1
  <2>3. Idle \in FrameType /\ "idle" \in Labels
    BY DEF Idle, FrameType, Operations, Labels
  <2>4. pc \in [Threads -> Labels] /\ frame \in [Threads -> FrameType]
    BY <1>1, <2>3
  <2>5. order \in Seq(Ids)
    BY <1>1
  <2> QED BY <1>1, <1>2, <2>1, <2>2, <2>4, <2>5 DEF Types
<1>4. DOMAIN order = {} /\ Pend = {}
  BY <1>1 DEF Pend
<1>5. OrderOK
  BY <1>1, <1>4 DEF OrderOK, InARow, Src, Nbr
<1>6. \A t \in Threads : pc[t] = "idle" /\ Span(pc[t], frame[t]) = {}
  BY <1>1 DEF Span
<1>7. RangesOK /\ Covered
  BY <1>1, <1>4, <1>6 DEF RangesOK, Covered
<1>8. ResultsOK
  <2>1. \A x \in Ids : Upd(x).result \in Presets /\ result[x] = Upd(x).result
    BY <1>1, UpdateTypes
  <2> QED BY <1>1, <2>1 DEF ResultsOK, Presets, PENDING
<1>9. UniqueNeighbor
  BY <1>1 DEF UniqueNeighbor, Unmixed
<1>10. \A t \in Threads : /\ ThreadOK(pc[t], frame[t], Due, Nbr, list)
                          /\ WorkOK(pc[t], frame[t], Pend)
  BY <1>6 DEF ThreadOK, WorkOK
<1> QED BY <1>3, <1>5, <1>7, <1>8, <1>9, <1>10 DEF Inv

LEMMA StutterInv == ASSUME Inv, UNCHANGED vars PROVE Inv'
<1>1. /\ input' = input /\ pass' = pass /\ order' = order /\ result' = result
      /\ todo' = todo /\ list' = list /\ pc' = pc /\ frame' = frame
  BY DEF vars
<1>2. /\ Ids' = Ids /\ Src' = Src /\ Nbr' = Nbr /\ Passes' = Passes /\ Pend' = Pend
      /\ \A x : Upd(x)' = Upd(x)
      /\ Half("up")' = Half("up") /\ Half("down")' = Half("down")
      /\ Half(Passes[pass].half)' = Half(Passes[pass].half)
      /\ (\A v, n : Unmixed(v, n)' = Unmixed(v, n)) /\ \A x : Pure(x)' = Pure(x)
  BY <1>1, SameOrder DEF Pend, Half
<1>6. Due' = Due
  BY <1>1, <1>2 DEF Due
<1>3. Types' /\ OrderOK'
  BY <1>1, <1>2 DEF Inv, Types, OrderOK
<1>4. RangesOK' /\ Covered' /\ ResultsOK'
  BY <1>1, <1>2 DEF Inv, RangesOK, Covered, ResultsOK
<1>5. UniqueNeighbor' /\ \A t \in Threads : ThreadOK(pc[t], frame[t], Due, Nbr, list)'
  BY <1>1, <1>2, <1>6 DEF Inv, UniqueNeighbor
<1>7. \A t \in Threads : WorkOK(pc[t], frame[t], Pend)'
  BY <1>1, <1>2 DEF Inv, WorkOK
<1> QED BY <1>3, <1>4, <1>5, <1>7 DEF Inv

LEMMA NextInv == ASSUME Inv, [Next]_vars PROVE Inv'
<1>1. CASE BeginPass
  BY <1>1, BeginPassInv
<1>2. ASSUME NEW t \in Threads, Step(t) PROVE Inv'
  <2>1. CASE TakeRange(t)
    BY <2>1, TakeRangeInv
  <2>2. CASE FindBlock(t)
    BY <2>2, FindBlockInv
  <2>3. CASE FindScan(t)
    BY <2>3, FindScanInv
  <2>4. CASE FindNext(t)
    BY <2>4, FindNextInv
  <2>5. CASE SeekBlock(t)
    BY <2>5, SeekBlockInv
  <2>6. CASE SeekScan(t)
    BY <2>6, SeekScanInv
  <2>7. CASE SeekNext(t)
    BY <2>7, SeekNextInv
  <2>8. CASE UpdateSlot(t)
    BY <2>8, UpdateSlotInv
  <2>9. CASE Claim(t)
    BY <2>9, ClaimInv
  <2>10. CASE Grow(t)
    BY <2>10, GrowInv
  <2> QED BY <1>2, <2>1, <2>2, <2>3, <2>4, <2>5, <2>6, <2>7, <2>8, <2>9, <2>10 DEF Step
<1>3. CASE UNCHANGED vars
  BY <1>3, StutterInv
<1> QED BY <1>1, <1>2, <1>3 DEF Next

LEMMA InvImplies == ASSUME Inv PROVE ListsOK
<1>1. Types
  BY DEF Inv
<1>2. \A t \in Threads : pc[t] # "idle" => frame[t] # Idle
  <2> SUFFICES ASSUME NEW t \in Threads, pc[t] # "idle" PROVE frame[t].first # Idle.first
    OBVIOUS
  <2>1. frame[t].first \in DOMAIN order
    BY Ranged
  <2> QED BY <1>1, <2>1, OrderTypes DEF Idle
<1>3. TypeOK
  BY <1>1, <1>2 DEF TypeOK, Types, Codes, ListType
<1>4. ASSUME AllIdle, NEW i \in DOMAIN order PROVE result[order[i]] # PENDING
  <2>1. Pend = {}
    BY <1>4 DEF AllIdle, Inv, Covered, Span
  <2> QED BY <2>1 DEF Pend
<1>5. AssertsHold
  BY <1>4 DEF AssertsHold
<1> QED BY <1>3, <1>5 DEF ListsOK, Inv

\* The invariant: what the threads know of the lists holds in every state.
THEOREM InvAlways == Spec => []Inv
<1> QED BY InitInv, NextInv, PTL DEF Spec

\* Whatever ranges meet at a vertex, in whatever order their threads compare,
\* claim and append, whatever lists they meet and whatever is marked: no slot above
\* a high water mark is in use, no neighbour whose marks are not mixed gets two
\* slots, and no update is pending when a pass is over.
THEOREM ListsHold == Spec => []ListsOK
<1> QED BY InvAlways, InvImplies, PTL

-----------------------------------------------------------------------------
(* Sums over finite sets.                                                  *)

\* Some set of those in B has no subset in B that lacks one of its elements.
LEMMA LeastSet ==
  ASSUME NEW S, IsFiniteSet(S), NEW B \in SUBSET (SUBSET S), B # {}
  PROVE  \E s \in B : \A x \in s : s \ {x} \notin B
<1> DEFINE K == {Cardinality(s) : s \in B}
<1>1. \A s \in B : IsFiniteSet(s) /\ Cardinality(s) \in Nat
  BY FS_Subset, FS_CardinalityType
<1>2. K \in SUBSET Nat /\ K # {}
  BY <1>1
<1>3. Min(K) \in K /\ \A k \in K : Min(K) <= k
  BY <1>2, MinOf
<1>4. PICK s \in B : Cardinality(s) = Min(K)
  BY <1>3
<1>5. ASSUME NEW x \in s, s \ {x} \in B PROVE FALSE
  <2>1. Cardinality(s \ {x}) \in K
    BY <1>5
  <2>2. Cardinality(s \ {x}) = Cardinality(s) - 1
    BY <1>1, <1>5, FS_RemoveElement
  <2> HIDE DEF K
  <2> QED BY <1>1, <1>3, <1>4, <2>1, <2>2
<1> QED BY <1>5

\* g sums f over every subset of U, taking the elements as CHOOSE does.
First(s) == CHOOSE x \in s : TRUE
Folded(g, f, s) == IF s = {} THEN 0 ELSE f[First(s)] + g[s \ {First(s)}]
IsFold(g, f, U) == g = [s \in SUBSET U |-> Folded(g, f, s)]

LEMMA SumIs ==
  ASSUME NEW f, NEW S
  PROVE  SumFunctionOnSet(f, S) = (CHOOSE g : IsFold(g, f, S))[S]
BY DEF SumFunctionOnSet, FoldFunctionOnSet, MapThenFoldSet, IsFold, Folded, First

\* g sums f over the subsets of at most k elements.
FoldUpTo(g, f, U, k) ==
  \A s \in SUBSET U : Cardinality(s) <= k => g[s] = Folded(g, f, s)

LEMMA FoldExists ==
  ASSUME NEW U, IsFiniteSet(U), NEW f
  PROVE  \E g : IsFold(g, f, U)
<1> DEFINE Ok(k) == \E g : g = [s \in SUBSET U |-> g[s]] /\ FoldUpTo(g, f, U, k)
           Bad == {k \in Nat : ~Ok(k)}
<1>1. \A s \in SUBSET U : IsFiniteSet(s) /\ Cardinality(s) \in Nat /\ Cardinality(s) <= Cardinality(U)
  BY FS_Subset, FS_CardinalityType
<1>2. Ok(0)
  <2> DEFINE g == [s \in SUBSET U |-> 0]
  <2>1. g = [s \in SUBSET U |-> g[s]]
    OBVIOUS
  <2>2. ASSUME NEW s \in SUBSET U, Cardinality(s) <= 0 PROVE g[s] = Folded(g, f, s)
    <3>1. s = {}
      BY <1>1, <2>2, FS_EmptySet
    <3> QED BY <3>1 DEF Folded
  <2>3. FoldUpTo(g, f, U, 0)
    BY <2>2 DEF FoldUpTo
  <2> HIDE DEF g
  <2> QED BY <2>1, <2>3
<1>3. ASSUME NEW k \in Nat, Ok(k) PROVE Ok(k + 1)
  <2>1. PICK g : g = [s \in SUBSET U |-> g[s]] /\ FoldUpTo(g, f, U, k)
    BY <1>3
  <2> DEFINE h == [s \in SUBSET U |-> IF Cardinality(s) <= k THEN g[s] ELSE Folded(g, f, s)]
  <2>2. h = [s \in SUBSET U |-> h[s]]
    OBVIOUS
  <2>3. ASSUME NEW s \in SUBSET U, Cardinality(s) <= k + 1 PROVE h[s] = Folded(h, f, s)
    <3>1. h[s] = Folded(g, f, s)
      BY <2>1 DEF FoldUpTo
    <3>2. ASSUME s # {} PROVE h[s \ {First(s)}] = g[s \ {First(s)}]
      <4>1. First(s) \in s
        BY <3>2 DEF First
      <4>2. Cardinality(s \ {First(s)}) = Cardinality(s) - 1
        BY <1>1, <4>1, FS_RemoveElement
      <4>3. Cardinality(s \ {First(s)}) <= k /\ s \ {First(s)} \in SUBSET U
        BY <1>1, <2>3, <4>2
      <4> QED BY <4>3
    <3> HIDE DEF h
    <3> QED BY <3>1, <3>2 DEF Folded
  <2>4. FoldUpTo(h, f, U, k + 1)
    BY <2>3 DEF FoldUpTo
  <2> HIDE DEF h
  <2> QED BY <2>2, <2>4
<1>4. ASSUME NEW k \in Nat PROVE Ok(k)
  <2> SUFFICES ASSUME ~Ok(k) PROVE FALSE
    OBVIOUS
  <2> HIDE DEF Ok
  <2>1. Bad \in SUBSET Nat /\ Bad # {}
    OBVIOUS
  <2>2. Min(Bad) \in Bad /\ \A j \in Bad : Min(Bad) <= j
    BY <2>1, MinOf
  <2>3. PICK m : m = Min(Bad)
    OBVIOUS
  <2>4. m \in Nat /\ ~Ok(m) /\ \A j \in Nat : j < m => Ok(j)
    BY <2>2, <2>3
  <2>5. m # 0
    BY <1>2, <2>4
  <2>6. m - 1 \in Nat /\ m - 1 < m /\ (m - 1) + 1 = m
    BY <2>4, <2>5
  <2> QED BY <1>3, <2>4, <2>6
<1>5. PICK g : g = [s \in SUBSET U |-> g[s]] /\ FoldUpTo(g, f, U, Cardinality(U))
  BY <1>1, <1>4
<1>6. \A s \in SUBSET U : g[s] = Folded(g, f, s)
  BY <1>1, <1>5 DEF FoldUpTo
<1>7. g = [s \in SUBSET U |-> Folded(g, f, s)]
  BY <1>5, <1>6
<1> QED BY <1>7 DEF IsFold

LEMMA FoldStep ==
  ASSUME NEW U, NEW f, NEW g, IsFold(g, f, U), NEW s \in SUBSET U
  PROVE  /\ s = {} => g[s] = 0
         /\ s # {} => /\ First(s) \in s
                      /\ g[s] = f[First(s)] + g[s \ {First(s)}]
<1>1. g[s] = Folded(g, f, s)
  BY DEF IsFold
<1> QED BY <1>1 DEF Folded, First

LEMMA FoldInt ==
  ASSUME NEW U, IsFiniteSet(U), NEW f, \A x \in U : f[x] \in Int, NEW g, IsFold(g, f, U),
         NEW s \in SUBSET U
  PROVE  g[s] \in Int
<1> SUFFICES ASSUME g[s] \notin Int PROVE FALSE
  OBVIOUS
<1> DEFINE B == {r \in SUBSET U : g[r] \notin Int}
<1>1. B \in SUBSET (SUBSET U) /\ B # {}
  OBVIOUS
<1>2. PICK r \in B : \A x \in r : r \ {x} \notin B
  BY <1>1, LeastSet
<1>3. CASE r = {}
  <2>1. g[r] = 0
    BY <1>2, <1>3, FoldStep
  <2> QED BY <1>2, <2>1
<1>4. CASE r # {}
  <2>1. First(r) \in r /\ g[r] = f[First(r)] + g[r \ {First(r)}]
    BY <1>2, <1>4, FoldStep
  <2>2. g[r \ {First(r)}] \in Int
    BY <1>2, <2>1
  <2> QED BY <1>2, <2>1, <2>2
<1> QED BY <1>3, <1>4

\* The sum does not depend on the element taken first.
LEMMA FoldAny ==
  ASSUME NEW U, IsFiniteSet(U), NEW f, \A x \in U : f[x] \in Int, NEW g, IsFold(g, f, U),
         NEW s \in SUBSET U, NEW a \in s
  PROVE  g[s] = f[a] + g[s \ {a}]
<1> DEFINE Ok(r) == \A b \in r : g[r] = f[b] + g[r \ {b}]
           B == {r \in SUBSET U : ~Ok(r)}
<1> SUFFICES ASSUME ~Ok(s) PROVE FALSE
  OBVIOUS
<1>1. B \in SUBSET (SUBSET U) /\ B # {}
  OBVIOUS
<1>2. PICK r \in B : \A x \in r : r \ {x} \notin B
  BY <1>1, LeastSet
<1>3. r \in SUBSET U /\ ~Ok(r) /\ \A x \in r : Ok(r \ {x})
  BY <1>2
<1>4. PICK b \in r : g[r] # f[b] + g[r \ {b}]
  BY <1>3
<1>5. First(r) \in r /\ g[r] = f[First(r)] + g[r \ {First(r)}]
  BY <1>3, <1>4, FoldStep
<1>6. PICK x : x = First(r)
  OBVIOUS
<1>7. x # b /\ x \in r /\ g[r] = f[x] + g[r \ {x}]
  BY <1>4, <1>5, <1>6
<1>8. g[r \ {x}] = f[b] + g[(r \ {x}) \ {b}]
  BY <1>3, <1>4, <1>7
<1>9. g[r \ {b}] = f[x] + g[(r \ {b}) \ {x}]
  BY <1>3, <1>4, <1>7
<1>10. (r \ {x}) \ {b} = (r \ {b}) \ {x}
  OBVIOUS
<1>11. g[(r \ {x}) \ {b}] \in Int /\ f[x] \in Int /\ f[b] \in Int
  BY <1>3, <1>4, <1>7, FoldInt
<1>12. \A p, q, z, v, w, t \in Int : v = p + w /\ w = q + z /\ t = p + z => v = q + t
  OBVIOUS
<1>13. /\ g[r] \in Int /\ g[r \ {x}] \in Int /\ g[r \ {b}] \in Int
  BY <1>3, FoldInt
<1> HIDE DEF Ok, B
<1>14. g[r \ {b}] = f[x] + g[(r \ {x}) \ {b}]
  BY <1>9, <1>10
<1>15. g[r] = f[b] + g[r \ {b}]
  BY <1>7, <1>8, <1>11, <1>12, <1>13, <1>14
<1> QED BY <1>4, <1>15

LEMMA FoldSame ==
  ASSUME NEW U, IsFiniteSet(U), NEW f, NEW g, IsFold(g, f, U),
         NEW T \in SUBSET U, NEW e, NEW h, IsFold(h, e, T),
         \A x \in T : f[x] = e[x], NEW s \in SUBSET T
  PROVE  g[s] = h[s]
<1> SUFFICES ASSUME g[s] # h[s] PROVE FALSE
  OBVIOUS
<1>0. ASSUME NEW r \in SUBSET T PROVE g[r] = Folded(g, f, r) /\ h[r] = Folded(h, e, r)
  <2>1. r \in SUBSET U
    OBVIOUS
  <2> QED BY <2>1 DEF IsFold
<1> DEFINE B == {r \in SUBSET T : g[r] # h[r]}
<1>1. B \in SUBSET (SUBSET U) /\ B # {}
  OBVIOUS
<1>2. PICK r \in B : \A x \in r : r \ {x} \notin B
  BY <1>1, LeastSet
<1>3. r \in SUBSET T /\ r \in SUBSET U
  BY <1>2
<1>4. CASE r = {}
  BY <1>0, <1>2, <1>3, <1>4 DEF Folded
<1>5. CASE r # {}
  <2>1. /\ g[r] = f[First(r)] + g[r \ {First(r)}]
        /\ h[r] = e[First(r)] + h[r \ {First(r)}]
    BY <1>0, <1>3, <1>5 DEF Folded
  <2>2. First(r) \in r
    BY <1>5 DEF First
  <2>3. g[r \ {First(r)}] = h[r \ {First(r)}]
    BY <1>2, <1>3, <2>2
  <2> QED BY <1>2, <1>3, <2>1, <2>2, <2>3
<1> QED BY <1>4, <1>5

LEMMA SumFold ==
  ASSUME NEW S, IsFiniteSet(S), NEW f
  PROVE  \E g : IsFold(g, f, S) /\ SumFunctionOnSet(f, S) = g[S]
BY FoldExists, SumIs

LEMMA SumInt ==
  ASSUME NEW S, IsFiniteSet(S), NEW f, \A x \in S : f[x] \in Int
  PROVE  SumFunctionOnSet(f, S) \in Int
<1>1. PICK g : IsFold(g, f, S) /\ SumFunctionOnSet(f, S) = g[S]
  BY SumFold
<1> QED BY <1>1, FoldInt

LEMMA SumNone == ASSUME NEW f PROVE SumFunctionOnSet(f, {}) = 0
<1>1. PICK g : IsFold(g, f, {}) /\ SumFunctionOnSet(f, {}) = g[{}]
  BY SumFold, FS_EmptySet
<1> QED BY <1>1, FoldStep

LEMMA SumMore ==
  ASSUME NEW S, IsFiniteSet(S), NEW a, a \notin S, NEW f, NEW e,
         \A x \in S \cup {a} : f[x] \in Int, \A x \in S : f[x] = e[x]
  PROVE  SumFunctionOnSet(f, S \cup {a}) = f[a] + SumFunctionOnSet(e, S)
<1>1. IsFiniteSet(S \cup {a})
  BY FS_AddElement
<1>2. PICK g : IsFold(g, f, S \cup {a}) /\ SumFunctionOnSet(f, S \cup {a}) = g[S \cup {a}]
  BY <1>1, SumFold
<1>3. PICK h : IsFold(h, e, S) /\ SumFunctionOnSet(e, S) = h[S]
  BY SumFold
<1>4. g[S \cup {a}] = f[a] + g[(S \cup {a}) \ {a}]
  <2> DEFINE U == S \cup {a}
  <2>1. IsFiniteSet(U) /\ IsFold(g, f, U) /\ U \in SUBSET U /\ a \in U /\ \A x \in U : f[x] \in Int
    BY <1>1, <1>2
  <2> HIDE DEF U
  <2>2. g[U] = f[a] + g[U \ {a}]
    BY <2>1, FoldAny
  <2> QED BY <2>2 DEF U
<1>5. (S \cup {a}) \ {a} = S
  OBVIOUS
<1>6. g[S] = h[S]
  BY <1>1, <1>2, <1>3, FoldSame
<1> QED BY <1>2, <1>3, <1>4, <1>5, <1>6

LEMMA SumSame ==
  ASSUME NEW S, IsFiniteSet(S), NEW f, NEW e, \A x \in S : f[x] = e[x]
  PROVE  SumFunctionOnSet(f, S) = SumFunctionOnSet(e, S)
<1>1. PICK g : IsFold(g, f, S) /\ SumFunctionOnSet(f, S) = g[S]
  BY SumFold
<1>2. PICK h : IsFold(h, e, S) /\ SumFunctionOnSet(e, S) = h[S]
  BY SumFold
<1>3. S \in SUBSET S
  OBVIOUS
<1>4. g[S] = h[S]
  BY <1>1, <1>2, <1>3, FoldSame
<1> QED BY <1>1, <1>2, <1>4

LEMMA SumAdd ==
  ASSUME NEW S, IsFiniteSet(S), NEW a, a \notin S, NEW f, \A x \in S \cup {a} : f[x] \in Int
  PROVE  SumFunctionOnSet(f, S \cup {a}) = f[a] + SumFunctionOnSet(f, S)
<1>1. \A x \in S : f[x] = f[x]
  OBVIOUS
<1> QED BY <1>1, SumMore

\* A row of n elements, with what f has for each of them, that are not in M.
Row(M, f, n, e, w) ==
  /\ IsFiniteSet(M) /\ \A x \in M : f[x] \in Int
  /\ n \in Nat /\ \A i \in 1..n : e[i] \notin M /\ f[e[i]] \in Int /\ w[i] = f[e[i]]
  /\ \A i, j \in 1..n : e[i] = e[j] => i = j

RowSet(e, n) == {e[i] : i \in 1..n}

\* The sum over a set to which a row of n elements is added.
LEMMA SumRow ==
  ASSUME NEW M, NEW f, NEW n, NEW e, NEW w, Row(M, f, n, e, w)
  PROVE  /\ IsFiniteSet(M \cup RowSet(e, n))
         /\ SumFunctionOnSet(f, M \cup RowSet(e, n)) =
              SumFunctionOnSet(f, M) + SumFunctionOnSet(w, 1..n)
<1> USE DEF Row, RowSet
<1> DEFINE D(k) == M \cup {e[i] : i \in 1..k}
           Ok(k) == /\ IsFiniteSet(D(k))
                    /\ SumFunctionOnSet(f, D(k)) = SumFunctionOnSet(f, M) + SumFunctionOnSet(w, 1..k)
           Bad == {k \in 0..n : ~Ok(k)}
<1>1. SumFunctionOnSet(f, M) \in Int
  BY SumInt
<1>2. Ok(0)
  <2>1. 1..0 = {} /\ D(0) = M
    OBVIOUS
  <2>2. SumFunctionOnSet(w, 1..0) = 0
    BY <2>1, SumNone
  <2> HIDE DEF D
  <2> QED BY <1>1, <2>1, <2>2
<1>3. ASSUME NEW k \in Nat, k < n, Ok(k) PROVE Ok(k + 1)
  <2>1. /\ k + 1 \in 1..n /\ k + 1 \notin 1..k /\ 1..k + 1 = (1..k) \cup {k + 1}
        /\ \A i \in 1..k : i \in 1..n /\ i # k + 1
    BY <1>3
  <2>2. PICK z : z = e[k + 1]
    OBVIOUS
  <2>3. D(k + 1) = D(k) \cup {z}
    BY <2>1, <2>2
  <2>4. z \notin D(k) /\ \A x \in D(k) \cup {z} : f[x] \in Int
    BY <2>1, <2>2
  <2>5. IsFiniteSet(D(k))
    BY <1>3
  <2>6. SumFunctionOnSet(f, D(k)) = SumFunctionOnSet(f, M) + SumFunctionOnSet(w, 1..k)
    BY <1>3
  <2> HIDE DEF D
  <2>7. SumFunctionOnSet(f, D(k + 1)) = f[z] + SumFunctionOnSet(f, D(k))
    <3>1. PICK U : U = D(k)
      OBVIOUS
    <3>2. IsFiniteSet(U) /\ z \notin U /\ \A x \in U \cup {z} : f[x] \in Int
      BY <2>4, <2>5, <3>1
    <3>3. SumFunctionOnSet(f, U \cup {z}) = f[z] + SumFunctionOnSet(f, U)
      BY <3>2, SumAdd
    <3> QED BY <2>3, <3>1, <3>3
  <2>8. IsFiniteSet(1..k)
    <3>1. 1 \in Int /\ k \in Int
      OBVIOUS
    <3> QED BY <3>1, FS_Interval
  <2>9. \A i \in (1..k) \cup {k + 1} : w[i] \in Int
    BY <2>1
  <2>10. SumFunctionOnSet(w, 1..k + 1) = w[k + 1] + SumFunctionOnSet(w, 1..k)
    <3>1. PICK U : U = 1..k
      OBVIOUS
    <3>2. IsFiniteSet(U) /\ k + 1 \notin U /\ \A x \in U \cup {k + 1} : w[x] \in Int
      BY <2>1, <2>8, <2>9, <3>1
    <3>3. SumFunctionOnSet(w, U \cup {k + 1}) = w[k + 1] + SumFunctionOnSet(w, U)
      BY <3>2, SumAdd
    <3> QED BY <2>1, <3>1, <3>3
  <2>11. SumFunctionOnSet(w, 1..k) \in Int
    BY <2>8, <2>9, SumInt
  <2>12. w[k + 1] = f[z] /\ f[z] \in Int
    BY <2>1, <2>2, <2>4
  <2>13. IsFiniteSet(D(k + 1))
    BY <2>3, <2>5, FS_AddElement
  <2>14. ASSUME NEW a \in Int, NEW c \in Int, NEW d \in Int PROVE d + (a + c) = a + (d + c)
    OBVIOUS
  <2>15. SumFunctionOnSet(f, D(k + 1)) = SumFunctionOnSet(f, M) + SumFunctionOnSet(w, 1..k + 1)
    BY <1>1, <2>6, <2>7, <2>10, <2>11, <2>12, <2>14
  <2> QED BY <2>13, <2>15
<1>4. ASSUME NEW k \in 0..n PROVE Ok(k)
  <2> SUFFICES ASSUME ~Ok(k) PROVE FALSE
    OBVIOUS
  <2> HIDE DEF Ok
  <2>1. Bad \in SUBSET Nat /\ Bad # {}
    OBVIOUS
  <2>2. Min(Bad) \in Bad /\ \A j \in Bad : Min(Bad) <= j
    BY <2>1, MinOf
  <2>3. PICK m : m = Min(Bad)
    OBVIOUS
  <2>4. m \in 0..n /\ ~Ok(m) /\ \A j \in 0..n : j < m => Ok(j)
    BY <2>2, <2>3
  <2>5. m # 0
    BY <1>2, <2>4
  <2>6. m - 1 \in 0..n /\ m - 1 \in Nat /\ m - 1 < n /\ m - 1 < m /\ (m - 1) + 1 = m
    BY <2>4, <2>5
  <2> QED BY <1>3, <2>4, <2>6
<1>5. Ok(n)
  BY <1>4
<1> QED BY <1>5

-----------------------------------------------------------------------------
(* The slot of a neighbour.                                                *)

LEMMA SlotsAtPlaces ==
  ASSUME NEW g, NEW v
  PROVE  \A s : s \in SlotsAt(g, v) <=> \E p \in Places(g, v) : s = At(g, v, p)
<1> SUFFICES ASSUME NEW s
             PROVE  s \in SlotsAt(g, v) <=> \E p \in Places(g, v) : s = At(g, v, p)
  OBVIOUS
<1>1. ASSUME s \in SlotsAt(g, v) PROVE \E p \in Places(g, v) : s = At(g, v, p)
  <2>1. PICK b \in DOMAIN g[v], k \in 1..EBSize : s = g[v][b].slot[k]
    BY <1>1 DEF SlotsAt
  <2>2. <<b, k>> \in Places(g, v) /\ s = At(g, v, <<b, k>>)
    BY <2>1 DEF Places, At
  <2> QED BY <2>2
<1>2. ASSUME NEW p \in Places(g, v), s = At(g, v, p) PROVE s \in SlotsAt(g, v)
  <2>1. p[1] \in DOMAIN g[v] /\ p[2] \in 1..EBSize /\ s = g[v][p[1]].slot[p[2]]
    BY <1>2 DEF Places, At
  <2> QED BY <2>1 DEF SlotsAt
<1> QED BY <1>1, <1>2

LEMMA SlotAtPlace ==
  ASSUME NEW g, NEW v, NEW n, OneSlot(g, v, n), NEW p \in Places(g, v), Nb(g, v, p) = n
  PROVE  SlotIn(g, v, n) = At(g, v, p)
<1> DEFINE here == {s \in SlotsAt(g, v) : s.neighbor = n}
<1>1. At(g, v, p) \in here
  BY SlotsAtPlaces DEF Nb
<1>2. ASSUME NEW s \in here PROVE s = At(g, v, p)
  <2>1. PICK q \in Places(g, v) : s = At(g, v, q)
    BY SlotsAtPlaces
  <2>2. At(g, v, q).neighbor = n
    BY <2>1
  <2>3. q = p
    BY <2>2 DEF OneSlot, Nb
  <2> QED BY <2>1, <2>3
<1>3. SlotIn(g, v, n) = IF here = {} THEN NewSlot ELSE CHOOSE s \in here : TRUE
  BY DEF SlotIn
<1> HIDE DEF here
<1> QED BY <1>1, <1>2, <1>3

LEMMA SlotMissing ==
  ASSUME NEW g, NEW v, NEW n, \A p \in Places(g, v) : Nb(g, v, p) # n
  PROVE  SlotIn(g, v, n) = NewSlot
<1>1. {s \in SlotsAt(g, v) : s.neighbor = n} = {}
  BY SlotsAtPlaces DEF Nb
<1> QED BY <1>1 DEF SlotIn

\* A neighbour is in no slot, and then its slot is a new one, or in one slot.
LEMMA SlotCases ==
  ASSUME NEW g, NEW v, NEW n, OneSlot(g, v, n)
  PROVE  \/ /\ SlotIn(g, v, n) = NewSlot
            /\ \A p \in Places(g, v) : Nb(g, v, p) # n
         \/ \E p \in Places(g, v) : Nb(g, v, p) = n /\ SlotIn(g, v, n) = At(g, v, p)
BY SlotMissing, SlotAtPlace

\* No unmixed neighbour has two slots in the lists g.
Unique(g) == \A v, n \in Vertices : Unmixed(v, n) => OneSlot(g, v, n)

\* The slots of unmixed neighbours have not changed, but for that of neighbour n of
\* vertex v.
SlotsKept(g, h, v, n) ==
  \A w, m \in Vertices : Unmixed(w, m) /\ <<w, m>> # <<v, n>> => SlotIn(h, w, m) = SlotIn(g, w, m)

\* A free slot was free, or is new.
FreeKept(g, h) ==
  \A w \in Vertices : \A r \in SlotsAt(h, w) :
    r.neighbor = Blank => r \in SlotsAt(g, w) \/ r = NewSlot

\* The slot of neighbour n of vertex v has changed, to s.
SlotChange(g, h, v, n, s) == SlotIn(h, v, n) = s /\ SlotsKept(g, h, v, n) /\ FreeKept(g, h)

\* Two lists with the same slots but for place p, whose neighbour is now n.
Replaced(g, h, v, p, n) ==
  /\ Places(g, v) \subseteq Places(h, v) /\ p \in Places(h, v)
  /\ \A q \in Places(g, v) : q # p => At(h, v, q) = At(g, v, q)
  /\ Nb(h, v, p) = n
  /\ \A q \in Places(h, v) : q \in Places(g, v) \/ q = p \/ At(h, v, q) = NewSlot
  /\ p \in Places(g, v) => Nb(g, v, p) \in {Blank, n}
  /\ \A w \in Vertices \ {v} : h[w] = g[w]

LEMMA ReplacedSlot ==
  ASSUME NEW g, NEW h, NEW v \in Vertices, NEW n \in Vertices, NEW p, Replaced(g, h, v, p, n),
         Unique(g), Unique(h)
  PROVE  /\ SlotsKept(g, h, v, n) /\ FreeKept(g, h)
         /\ Unmixed(v, n) =>
              /\ SlotChange(g, h, v, n, At(h, v, p))
              /\ (p \in Places(g, v) /\ Nb(g, v, p) = n) => SlotIn(g, v, n) = At(g, v, p)
              /\ ~(p \in Places(g, v) /\ Nb(g, v, p) = n) => SlotIn(g, v, n) = NewSlot
<1>1. n # Blank /\ NewSlot.neighbor = Blank
  BY Sizes DEF NewSlot
<1>2. ASSUME NEW m \in Vertices, m # n, Unmixed(v, m) PROVE SlotIn(h, v, m) = SlotIn(g, v, m)
  <2>0. m # Blank /\ OneSlot(g, v, m) /\ OneSlot(h, v, m)
    BY <1>2, Sizes DEF Unique
  <2>1. CASE \A q \in Places(g, v) : Nb(g, v, q) # m
    <3>1. \A q \in Places(h, v) : Nb(h, v, q) # m
      BY <1>1, <1>2, <2>0, <2>1 DEF Replaced, Nb
    <3> QED BY <2>1, <3>1, SlotMissing
  <2>2. ASSUME NEW q \in Places(g, v), Nb(g, v, q) = m PROVE SlotIn(h, v, m) = SlotIn(g, v, m)
    <3>1. q # p
      BY <1>2, <2>0, <2>2 DEF Replaced
    <3>2. q \in Places(h, v) /\ At(h, v, q) = At(g, v, q) /\ Nb(h, v, q) = m
      BY <2>2, <3>1 DEF Replaced, Nb
    <3>3. SlotIn(g, v, m) = At(g, v, q)
      BY <2>0, <2>2, SlotAtPlace
    <3>4. SlotIn(h, v, m) = At(h, v, q)
      BY <2>0, <3>2, SlotAtPlace
    <3> QED BY <3>2, <3>3, <3>4
  <2> QED BY <2>1, <2>2
<1>3. ASSUME NEW w \in Vertices, w # v
      PROVE  /\ \A m : SlotIn(h, w, m) = SlotIn(g, w, m)
             /\ SlotsAt(h, w) = SlotsAt(g, w)
  <2>1. h[w] = g[w]
    BY <1>3 DEF Replaced
  <2>2. SlotsAt(h, w) = SlotsAt(g, w)
    BY <2>1 DEF SlotsAt
  <2> QED BY <2>2 DEF SlotIn
<1>4. ASSUME NEW r \in SlotsAt(h, v), r.neighbor = Blank
      PROVE  r \in SlotsAt(g, v) \/ r = NewSlot
  <2>1. PICK q \in Places(h, v) : r = At(h, v, q)
    BY SlotsAtPlaces
  <2>2. q # p
    BY <1>1, <1>4, <2>1 DEF Replaced, Nb
  <2>3. CASE q \in Places(g, v)
    <3>1. r = At(g, v, q)
      BY <2>1, <2>2, <2>3 DEF Replaced
    <3> QED BY <2>3, <3>1, SlotsAtPlaces
  <2> QED BY <2>1, <2>2, <2>3 DEF Replaced
<1>5. SlotsKept(g, h, v, n)
  <2>1. ASSUME NEW w \in Vertices, NEW m \in Vertices, Unmixed(w, m), <<w, m>> # <<v, n>>
        PROVE  SlotIn(h, w, m) = SlotIn(g, w, m)
    BY <1>2, <1>3, <2>1
  <2> QED BY <2>1 DEF SlotsKept
<1>6. FreeKept(g, h)
  <2>1. ASSUME NEW w \in Vertices, NEW r \in SlotsAt(h, w), r.neighbor = Blank
        PROVE  r \in SlotsAt(g, w) \/ r = NewSlot
    BY <1>3, <1>4, <2>1
  <2> QED BY <2>1 DEF FreeKept
<1>7. ASSUME Unmixed(v, n) PROVE SlotIn(h, v, n) = At(h, v, p)
  <2>1. OneSlot(h, v, n) /\ p \in Places(h, v) /\ Nb(h, v, p) = n
    BY <1>7 DEF Unique, Replaced
  <2> QED BY <2>1, SlotAtPlace
<1>8. ASSUME Unmixed(v, n), p \in Places(g, v), Nb(g, v, p) = n PROVE SlotIn(g, v, n) = At(g, v, p)
  <2>1. OneSlot(g, v, n)
    BY <1>8 DEF Unique
  <2> QED BY <1>8, <2>1, SlotAtPlace
<1>9. ASSUME Unmixed(v, n), ~(p \in Places(g, v) /\ Nb(g, v, p) = n)
      PROVE  SlotIn(g, v, n) = NewSlot
  <2>1. ASSUME NEW q \in Places(g, v), Nb(g, v, q) = n PROVE FALSE
    <3>1. q # p
      BY <1>9, <2>1
    <3>2. q \in Places(h, v) /\ p \in Places(h, v) /\ Nb(h, v, q) = n /\ Nb(h, v, p) = n
      BY <2>1, <3>1 DEF Replaced, Nb
    <3>3. OneSlot(h, v, n)
      BY <1>9 DEF Unique
    <3> QED BY <3>1, <3>2, <3>3 DEF OneSlot, Nb
  <2> QED BY <2>1, SlotMissing
<1>10. Unmixed(v, n) => SlotChange(g, h, v, n, At(h, v, p))
  BY <1>5, <1>6, <1>7 DEF SlotChange
<1> QED BY <1>5, <1>6, <1>8, <1>9, <1>10

-----------------------------------------------------------------------------
(* The second invariant: what the passes have stored so far.               *)

Ways == {"forth", "back"}
Ends == {"OUT", "IN"}
Way == IF pass <= 4 THEN "forth" ELSE "back"

Settled(x) == result[x] \in {ADDED, UPDATED}

\* The pass that stores, for way x[2] of update x[1], the end with direction d.
Turn(d, x) ==
  (IF x[2] = "back" THEN 4 ELSE 0) +
  (IF x[1] \in Half("up") THEN IF d = "OUT" THEN 1 ELSE 2 ELSE IF d = "IN" THEN 3 ELSE 4)

\* What sets direction d in the slot of neighbour n of vertex v, and what of it
\* is made.
Stores(d, v, n) == IF d = "OUT" THEN Storing(v, n) ELSE Storing(n, v)
Made(d, v, n) ==
  {x \in Stores(d, v, n) : Turn(d, x) < pass \/ (Turn(d, x) = pass /\ Settled(x[1]))}

Weights == [x \in Ids \X Ways |-> Upd(x[1]).weight]
Total(D) == SumFunctionOnSet(Weights, D)

LEMMA HalfIs ==
  ASSUME NEW x \in Ids
  PROVE  /\ x \in Half("up") <=> Upd(x).src < Upd(x).dst
         /\ x \in Half("down") <=> ~(Upd(x).src < Upd(x).dst)
BY DEF Half

LEMMA StoresType ==
  ASSUME input \in Cases, NEW d, NEW v, NEW n
  PROVE  /\ \A x \in Stores(d, v, n) : /\ x = <<x[1], x[2]>> /\ x[1] \in Ids /\ x[2] \in Ways
                                       /\ x \in Ids \X Ways /\ Upd(x[1]).result = 0
                                       /\ Weights[x] = Upd(x[1]).weight /\ Weights[x] \in Int
         /\ IsFiniteSet(Stores(d, v, n)) /\ IsFiniteSet(Made(d, v, n))
         /\ Made(d, v, n) \subseteq Stores(d, v, n)
<1>1. Stores(d, v, n) \subseteq Ids \X Ways /\ \A x \in Stores(d, v, n) : Upd(x[1]).result = 0
  BY DEF Stores, Storing, Ways
<1>2. IsFiniteSet(Ids \X Ways)
  <2>1. Ids = 1..Len(input.batch) /\ Len(input.batch) \in Int /\ 1 \in Int
    BY UpdateTypes
  <2>2. IsFiniteSet(Ids)
    BY <2>1, FS_Interval
  <2>3. IsFiniteSet(Ways)
    <3>1. IsFiniteSet({} \cup {"forth"})
      BY FS_EmptySet, FS_AddElement
    <3>2. IsFiniteSet(({} \cup {"forth"}) \cup {"back"})
      BY <3>1, FS_AddElement
    <3>3. Ways = ({} \cup {"forth"}) \cup {"back"}
      BY DEF Ways
    <3> QED BY <3>2, <3>3
  <2> QED BY <2>2, <2>3, FS_Product
<1>3. Made(d, v, n) \subseteq Stores(d, v, n)
  BY DEF Made
<1>4. ASSUME NEW x \in Ids \X Ways
      PROVE  /\ x = <<x[1], x[2]>> /\ x[1] \in Ids /\ x[2] \in Ways
             /\ Weights[x] = Upd(x[1]).weight /\ Weights[x] \in Int
  <2>1. x = <<x[1], x[2]>> /\ x[1] \in Ids /\ x[2] \in Ways
    OBVIOUS
  <2>2. Weights[x] = Upd(x[1]).weight
    BY DEF Weights
  <2>3. Upd(x[1]) \in Updates
    BY <2>1, BatchInsertAssumption DEF Ids, Upd
  <2>4. Upd(x[1]).weight \in Int
    BY <2>3 DEF Updates
  <2> QED BY <2>1, <2>2, <2>4
<1> QED BY <1>1, <1>2, <1>3, <1>4, FS_Subset

\* What stores an unmixed edge are updates of unmixed edges.
LEMMA StoresPure ==
  ASSUME input \in Cases, NEW d, NEW v, NEW n, Unmixed(v, n), NEW x \in Stores(d, v, n)
  PROVE  x[1] \in Ids /\ Pure(x[1])
<1>1. x[1] \in Ids
  BY StoresType
<1>2. \/ Upd(x[1]).src = v /\ Upd(x[1]).dst = n
      \/ Upd(x[1]).src = n /\ Upd(x[1]).dst = v
  BY DEF Stores, Storing
<1> QED BY <1>1, <1>2, UnmixedBothWays DEF Pure

LEMMA TurnIs ==
  ASSUME input \in Cases, pass \in 1..Len(Passes), NEW x \in Ids, NEW way \in Ways, NEW d \in Ends
  PROVE  /\ Turn(d, <<x, way>>) \in 1..8 /\ (way = "forth" => Turn(d, <<x, way>>) <= 4)
         /\ Turn(d, <<x, way>>) = pass <=> d = Dir /\ way = Way /\ x \in Half(Passes[pass].half)
<1>1. /\ pass \in 1..8 /\ Dir = IF pass \in {1, 4, 5, 8} THEN "OUT" ELSE "IN"
      /\ Passes[pass].half = IF pass \in {1, 2, 5, 6} THEN "up" ELSE "down"
  <2>1. Len(Passes) \in {4, 8}
    BY PassFacts
  <2> QED BY <2>1, PassFacts DEF Dir
<1>2. x \in Half("down") <=> x \notin Half("up")
  BY HalfIs
<1>3. Turn(d, <<x, way>>) =
        (IF way = "back" THEN 4 ELSE 0) +
        (IF x \in Half("up") THEN IF d = "OUT" THEN 1 ELSE 2 ELSE IF d = "IN" THEN 3 ELSE 4)
  BY DEF Turn
<1>4. /\ way = "forth" \/ way = "back"
      /\ d = "OUT" \/ d = "IN"
      /\ Way = IF pass <= 4 THEN "forth" ELSE "back"
  BY DEF Ways, Ends, Way
<1> QED BY <1>1, <1>2, <1>3, <1>4

\* Of the way under way, an update stores the end at its source.
LEMMA StoresIs ==
  ASSUME input \in Cases, pass \in 1..Len(Passes), NEW x \in Ids, NEW w, NEW m
  PROVE  <<x, Way>> \in Stores(Dir, w, m) <=>
           Upd(x).result = 0 /\ w = Source(x) /\ m = Neighbor(x)
<1>1. /\ Len(Passes) = (IF input.directed THEN 4 ELSE 8) /\ pass \in 1..8
      /\ Dir = (IF pass \in {1, 4, 5, 8} THEN "OUT" ELSE "IN")
      /\ Passes[pass].at = (IF pass \in {1, 4, 6, 7} THEN "src" ELSE "dst")
  <2>1. Len(Passes) \in {4, 8}
    BY PassFacts
  <2> QED BY <2>1, PassFacts DEF Dir
<1>2. \A v, n : <<x, "forth">> \in Storing(v, n) <=>
                  Upd(x).result = 0 /\ Upd(x).src = v /\ Upd(x).dst = n
  BY DEF Storing
<1>3. \A v, n : <<x, "back">> \in Storing(v, n) <=>
                  Upd(x).result = 0 /\ Upd(x).dst = v /\ Upd(x).src = n /\ ~input.directed
  BY DEF Storing
<1>4. /\ Source(x) = (IF Passes[pass].at = "src" THEN Upd(x).src ELSE Upd(x).dst)
      /\ Neighbor(x) = (IF Passes[pass].at = "src" THEN Upd(x).dst ELSE Upd(x).src)
  BY DEF Source, Neighbor
<1>5. CASE pass \in 1..4
  <2>1. Way = "forth"
    BY <1>5 DEF Way
  <2>2. Passes[pass].at = "src" <=> Dir = "OUT"
    BY <1>1, <1>5
  <2> QED BY <1>2, <1>4, <2>1, <2>2 DEF Stores
<1>6. CASE pass \in 5..8
  <2>1. Way = "back" /\ ~input.directed
    BY <1>1, <1>6 DEF Way
  <2>2. Passes[pass].at = "dst" <=> Dir = "OUT"
    BY <1>1, <1>6
  <2>3. Passes[pass].at = "dst" <=> Passes[pass].at # "src"
    BY <1>1
  <2> QED BY <1>3, <1>4, <2>1, <2>2, <2>3 DEF Stores
<1> QED BY <1>1, <1>5, <1>6

\* X are the updates of the edge from v to n that a step makes, in this pass.
Making(X, v, n) ==
  /\ pass \in 1..Len(Passes)
  /\ \A x \in X : /\ x \in Half(Passes[pass].half) /\ x \in Ids
                  /\ Source(x) = v /\ Neighbor(x) = n
                  /\ Upd(x).result = 0 /\ result[x] = PENDING /\ result'[x] \in {ADDED, UPDATED}
  /\ \A x \in Ids : x \notin X => result'[x] = result[x]

EndsOf(X) == {<<x, Way>> : x \in X}

LEMMA SameBatch ==
  ASSUME input' = input
  PROVE  /\ \A d, v, n : Stores(d, v, n)' = Stores(d, v, n)
         /\ \A d, x : Turn(d, x)' = Turn(d, x)
         /\ \A D : Total(D)' = Total(D)
         /\ \A v, n : Start(v, n)' = Start(v, n)
         /\ Weights' = Weights
<1>1. Ids' = Ids /\ \A x : Upd(x)' = Upd(x)
  BY DEF Ids, Upd
<1>2. \A v, n : Storing(v, n)' = Storing(v, n)
  BY <1>1 DEF Storing
<1>3. Weights' = Weights
  BY <1>1 DEF Weights
<1>4. Half("up")' = Half("up")
  BY <1>1 DEF Half
<1>5. \A d, v, n : Stores(d, v, n)' = Stores(d, v, n)
  BY <1>2 DEF Stores
<1>6. \A d, x : Turn(d, x)' = Turn(d, x)
  BY <1>4 DEF Turn
<1>7. \A D : Total(D)' = Total(D)
  BY <1>3 DEF Total
<1>8. \A v, n : Start(v, n)' = Start(v, n)
  BY <1>2 DEF Start
<1> QED BY <1>3, <1>5, <1>6, <1>7, <1>8

LEMMA MadeStep ==
  ASSUME input \in Cases, input' = input, pass' = pass,
         NEW v, NEW n, NEW X, Making(X, v, n)
  PROVE  /\ Dir \in Ends /\ EndsOf(X) \subseteq Stores(Dir, v, n)
         /\ \A x \in EndsOf(X) : x \notin Made(Dir, v, n)
         /\ \A d \in Ends : \A w, m :
              Made(d, w, m)' = IF d = Dir /\ w = v /\ m = n THEN Made(d, w, m) \cup EndsOf(X)
                               ELSE Made(d, w, m)
<1>0. pass \in 1..Len(Passes)
  BY DEF Making
<1>1. \A x \in X : Settled(x)' /\ ~Settled(x) /\ <<x, Way>> \in Stores(Dir, v, n)
  BY <1>0, StoresIs DEF Making, Settled, ADDED, UPDATED, PENDING
<1>2. \A x \in Ids : x \notin X => (Settled(x)' <=> Settled(x))
  BY DEF Making, Settled
<1>3. \A d, w, m : Made(d, w, m)' =
        {x \in Stores(d, w, m) : Turn(d, x) < pass \/ (Turn(d, x) = pass /\ Settled(x[1])')}
  BY SameBatch DEF Made
<1>4. Dir \in Ends /\ Way \in Ways
  <2>1. Dir \in Ends
    BY <1>0, PassFacts DEF Dir, Ends
  <2> QED BY <2>1 DEF Way, Ways
<1>5. ASSUME NEW x \in X
      PROVE  Turn(Dir, <<x, Way>>) = pass /\ ~(Turn(Dir, <<x, Way>>) < pass)
  <2>1. x \in Ids /\ x \in Half(Passes[pass].half)
    BY DEF Making
  <2>2. Turn(Dir, <<x, Way>>) = pass
    BY <1>0, <1>4, <2>1, TurnIs
  <2>3. pass \in Nat
    BY <1>0, PassFacts
  <2> QED BY <2>2, <2>3
<1>6. \A x \in X : <<x, Way>> \notin Made(Dir, v, n)
  <2> SUFFICES ASSUME NEW x \in X, <<x, Way>> \in Made(Dir, v, n) PROVE FALSE
    OBVIOUS
  <2>1. Turn(Dir, <<x, Way>>) < pass \/ Settled(<<x, Way>>[1])
    BY DEF Made
  <2> QED BY <1>1, <1>5, <2>1
<1>7. ASSUME NEW d \in Ends, NEW w, NEW m, NEW x \in Stores(d, w, m)
      PROVE  /\ x \in Made(d, w, m)' <=>
                  x \in Made(d, w, m) \/ (d = Dir /\ w = v /\ m = n /\ x \in EndsOf(X))
  <2>1. x = <<x[1], x[2]>> /\ x[1] \in Ids /\ x[2] \in Ways
    BY StoresType
  <2>2. CASE Turn(d, x) # pass
    <3>1. x \in Made(d, w, m)' <=> x \in Made(d, w, m)
      BY <1>3, <2>2 DEF Made
    <3>2. ~(d = Dir /\ x \in EndsOf(X))
      BY <1>5, <2>2 DEF EndsOf
    <3> QED BY <3>1, <3>2
  <2>3. CASE Turn(d, x) = pass
    <3>1. d = Dir /\ x[2] = Way
      BY <1>0, <2>1, <2>3, TurnIs
    <3>2. x = <<x[1], Way>>
      BY <2>1, <3>1
    <3>3. w = Source(x[1]) /\ m = Neighbor(x[1])
      BY <1>0, <2>1, <3>1, <3>2, StoresIs
    <3>4. x \in EndsOf(X) <=> x[1] \in X
      BY <3>2 DEF EndsOf
    <3>5. pass \in Nat
      BY <1>0, PassFacts
    <3>6. x \in Made(d, w, m)' <=> Settled(x[1])'
      BY <1>3, <2>3, <3>5
    <3>7. x \in Made(d, w, m) <=> Settled(x[1])
      BY <2>3, <3>5 DEF Made
    <3>8. x[1] \in X => w = v /\ m = n
      BY <3>3 DEF Making
    <3> QED BY <1>1, <1>2, <2>1, <3>1, <3>4, <3>6, <3>7, <3>8
  <2> QED BY <2>2, <2>3
<1>8. \A d, w, m : Made(d, w, m) \subseteq Stores(d, w, m) /\ Made(d, w, m)' \subseteq Stores(d, w, m)
  BY <1>3 DEF Made
<1>9. EndsOf(X) \subseteq Stores(Dir, v, n)
  BY <1>1 DEF EndsOf
<1>10. ASSUME NEW d \in Ends, NEW w, NEW m
       PROVE  Made(d, w, m)' = IF d = Dir /\ w = v /\ m = n THEN Made(d, w, m) \cup EndsOf(X)
                               ELSE Made(d, w, m)
  <2>1. CASE d = Dir /\ w = v /\ m = n
    <3>1. EndsOf(X) \subseteq Stores(d, w, m)
      BY <1>9, <2>1
    <3> QED BY <1>7, <1>8, <2>1, <3>1
  <2>2. CASE ~(d = Dir /\ w = v /\ m = n)
    BY <1>7, <1>8, <2>2
  <2> QED BY <2>1, <2>2
<1>11. \A x \in EndsOf(X) : x \notin Made(Dir, v, n)
  BY <1>6 DEF EndsOf
<1> QED BY <1>4, <1>9, <1>10, <1>11

-----------------------------------------------------------------------------
(* The slots: their directions and weights are those of the ends made.     *)

\* A direction was there before the batch or is made.
DirsOK ==
  \A v, n \in Vertices : Unmixed(v, n) => \A d \in Ends :
    d \in SlotIn(list, v, n).dirs <=> d \in SlotIn(input.list, v, n).dirs \/ Made(d, v, n) # {}

\* So was the slot, or one of its directions is made.
KeptOK ==
  \A v, n \in Vertices : Unmixed(v, n) =>
    /\ SlotIn(input.list, v, n).neighbor # Blank => SlotIn(list, v, n).neighbor # Blank
    /\ SlotIn(list, v, n).neighbor # Blank =>
         SlotIn(input.list, v, n).neighbor # Blank \/ \E d \in Ends : Made(d, v, n) # {}

\* A free slot has the weight of one that was free before the batch, or none.
WasFree(w, v) == w = 0 \/ \E r \in SlotsAt(input.list, v) : r.neighbor = Blank /\ r.weight = w

FreeOK ==
  \A v \in Vertices : \A s \in SlotsAt(list, v) :
    s.neighbor = Blank => s.dirs = {} /\ WasFree(s.weight, v)

\* Weight w is what the ends D make of an edge from v to n.
WeightOK(v, n, w, D) ==
  /\ input.operation = "INCR" => \E start \in Start(v, n) : w = start + Total(D)
  /\ input.operation = "SET" /\ D # {} => \E x \in D : w = Upd(x[1]).weight

WeightsOK ==
  \A v, n \in Vertices : Unmixed(v, n) /\ SlotIn(list, v, n).neighbor # Blank =>
    WeightOK(v, n, SlotIn(list, v, n).weight, Made("OUT", v, n))

SlotsOK == DirsOK /\ KeptOK /\ FreeOK /\ WeightsOK

LEMMA SlotInIs ==
  ASSUME NEW g, NEW v, NEW n \in Vertices, OneSlot(g, v, n)
  PROVE  /\ SlotIn(g, v, n).neighbor # Blank => SlotIn(g, v, n).neighbor = n
         /\ SlotIn(g, v, n).neighbor = Blank => SlotIn(g, v, n) = NewSlot
         /\ SlotIn(g, v, n) = NewSlot \/ SlotIn(g, v, n) \in SlotsAt(g, v)
         /\ NewSlot.neighbor = Blank /\ NewSlot.dirs = {} /\ NewSlot.weight = 0
<1>1. n # Blank /\ NewSlot.neighbor = Blank /\ NewSlot.dirs = {} /\ NewSlot.weight = 0
  BY Sizes DEF NewSlot
<1>2. CASE SlotIn(g, v, n) = NewSlot
  BY <1>1, <1>2
<1>3. CASE \E p \in Places(g, v) : Nb(g, v, p) = n /\ SlotIn(g, v, n) = At(g, v, p)
  <2>1. PICK p \in Places(g, v) : Nb(g, v, p) = n /\ SlotIn(g, v, n) = At(g, v, p)
    BY <1>3
  <2>2. SlotIn(g, v, n).neighbor = n
    BY <2>1 DEF Nb
  <2>3. SlotIn(g, v, n) \in SlotsAt(g, v)
    BY <2>1, SlotsAtPlaces
  <2> QED BY <1>1, <2>2, <2>3
<1> QED BY <1>1, <1>2, <1>3, SlotCases

LEMMA StartIs ==
  ASSUME input \in Cases, NEW v \in Vertices, NEW n \in Vertices, OneSlot(input.list, v, n)
  PROVE  /\ Start(v, n) \subseteq Int
         /\ SlotIn(input.list, v, n).weight \in Start(v, n)
         /\ \A s \in SlotsAt(input.list, v) : s.neighbor = Blank /\ Storing(n, v) # {} /\
              SlotIn(input.list, v, n).neighbor = Blank => s.weight \in Start(v, n)
<1> DEFINE free == {s \in SlotsAt(input.list, v) : s.neighbor = Blank}
           own == SlotIn(input.list, v, n)
<1>1. \A s \in SlotsAt(input.list, v) : s.weight \in Int
  <2> DEFINE B == [high : 0..EBSize, slot : [1..EBSize -> Slots]]
  <2>1. input.list \in [Vertices -> Seq(B)]
    BY BatchInsertAssumption
  <2>2. input.list[v] \in Seq(B)
    BY <2>1
  <2>3. \A b \in DOMAIN input.list[v] : input.list[v][b] \in B
    <3> HIDE DEF B
    <3> QED BY <2>2
  <2>4. ASSUME NEW s \in SlotsAt(input.list, v) PROVE s.weight \in Int
    <3>1. PICK b \in DOMAIN input.list[v], k \in 1..EBSize : s = input.list[v][b].slot[k]
      BY DEF SlotsAt
    <3>2. s \in Slots
      BY <2>3, <3>1
    <3> QED BY <3>2 DEF Slots
  <2> QED BY <2>4
<1>2. own.weight \in Int
  BY <1>1, SlotInIs
<1>4. Start(v, n) = {own.weight} \cup
        IF own.neighbor = Blank /\ Storing(n, v) # {} THEN {s.weight : s \in free} ELSE {}
  BY DEF Start
<1> HIDE DEF own
<1>5. Start(v, n) \subseteq Int
  BY <1>1, <1>2, <1>4
<1>6. ASSUME NEW s \in SlotsAt(input.list, v), s.neighbor = Blank, Storing(n, v) # {},
             own.neighbor = Blank
      PROVE  s.weight \in Start(v, n)
  BY <1>4, <1>6
<1> QED BY <1>4, <1>5, <1>6 DEF own

\* s is what the updates X make of the slot r of neighbour n of vertex v.
StoresInto(X, v, n, s, r, delta) ==
  /\ s.neighbor = n /\ s.dirs = r.dirs \cup {Dir}
  /\ delta \in Int /\ Total(Made(Dir, v, n) \cup EndsOf(X)) = Total(Made(Dir, v, n)) + delta
  /\ Dir = "OUT" /\ input.operation = "INCR" => s.weight = r.weight + delta
  /\ Dir = "OUT" /\ input.operation = "SET" => \E x \in X : s.weight = Upd(x).weight
  /\ Dir = "IN" /\ r.neighbor # Blank => s.weight = r.weight
  /\ Dir = "IN" /\ r.neighbor = Blank => WasFree(s.weight, v)

LEMMA TotalIs ==
  /\ Total({}) = 0
  /\ input \in Cases => \A d, v, n : Total(Made(d, v, n)) \in Int
<1>1. Total({}) = 0
  BY SumNone DEF Total
<1>2. ASSUME input \in Cases, NEW d, NEW v, NEW n PROVE Total(Made(d, v, n)) \in Int
  <2>1. PICK M : M = Made(d, v, n)
    OBVIOUS
  <2>2. IsFiniteSet(M) /\ \A x \in M : Weights[x] \in Int
    BY <1>2, <2>1, StoresType
  <2>3. PICK f : f = Weights
    OBVIOUS
  <2>4. SumFunctionOnSet(f, M) \in Int
    BY <2>2, <2>3, SumInt
  <2> QED BY <2>1, <2>3, <2>4 DEF Total
<1> QED BY <1>1, <1>2

\* A step that makes the updates X of one edge keeps what is known of the slots.
LEMMA SlotsStep ==
  ASSUME Inv, input' = input, pass' = pass, order' = order,
         NEW v \in Vertices, NEW n \in Vertices, Unmixed(v, n),
         NEW X, X # {}, Making(X, v, n), NEW s, NEW delta, SlotChange(list, list', v, n, s),
         StoresInto(X, v, n, s, SlotIn(list, v, n), delta), SlotsOK
  PROVE  SlotsOK'
<1> DEFINE r == SlotIn(list, v, n)
           M == Made("OUT", v, n)
<1>0. /\ input \in Cases /\ DirsOK /\ KeptOK /\ FreeOK /\ WeightsOK
      /\ OneSlot(list, v, n) /\ OneSlot(input.list, v, n)
      /\ \A w, m : Unmixed(w, m)' <=> Unmixed(w, m)
  <2>1. OneSlot(list, v, n) /\ OneSlot(input.list, v, n)
    BY DEF Inv, UniqueNeighbor, Unmixed
  <2>2. \A w, m : Unmixed(w, m)' <=> Unmixed(w, m)
    BY SameOrder
  <2> QED BY <2>1, <2>2 DEF Inv, Types, SlotsOK
<1>1. /\ Dir \in Ends /\ EndsOf(X) \subseteq Stores(Dir, v, n) /\ EndsOf(X) # {}
      /\ \A d \in Ends : \A w, m :
           Made(d, w, m)' = IF d = Dir /\ w = v /\ m = n THEN Made(d, w, m) \cup EndsOf(X)
                            ELSE Made(d, w, m)
  <2>1. EndsOf(X) # {}
    BY DEF EndsOf
  <2> QED BY <1>0, <2>1, MadeStep
<1>2. /\ SlotIn(list', v, n) = s
      /\ \A w, m \in Vertices : Unmixed(w, m) /\ <<w, m>> # <<v, n>> =>
           SlotIn(list', w, m) = SlotIn(list, w, m)
      /\ \A w \in Vertices : \A q \in SlotsAt(list', w) :
           q.neighbor = Blank => q \in SlotsAt(list, w) \/ q = NewSlot
  BY DEF SlotChange, SlotsKept, FreeKept
<1>3. /\ r.neighbor = Blank => r = NewSlot
      /\ NewSlot.neighbor = Blank /\ NewSlot.dirs = {} /\ NewSlot.weight = 0 /\ n # Blank
  BY <1>0, SlotInIs, Sizes
<1>4. s.neighbor = n /\ s.dirs = r.dirs \cup {Dir}
  BY DEF StoresInto
<1>5. DirsOK'
  <2> SUFFICES ASSUME NEW w \in Vertices, NEW m \in Vertices, Unmixed(w, m), NEW d \in Ends
               PROVE  d \in SlotIn(list', w, m).dirs <=>
                        d \in SlotIn(input'.list, w, m).dirs \/ Made(d, w, m)' # {}
    BY <1>0 DEF DirsOK
  <2>1. d \in SlotIn(list, w, m).dirs <=> d \in SlotIn(input.list, w, m).dirs \/ Made(d, w, m) # {}
    BY <1>0 DEF DirsOK
  <2>2. CASE <<w, m>> # <<v, n>>
    BY <1>1, <1>2, <2>1, <2>2
  <2>3. CASE w = v /\ m = n
    <3>1. d \in SlotIn(list', w, m).dirs <=> d \in r.dirs \/ d = Dir
      BY <1>2, <1>4, <2>3
    <3>2. Made(d, w, m)' # {} <=> Made(d, w, m) # {} \/ d = Dir
      BY <1>1, <2>3
    <3> QED BY <2>1, <2>3, <3>1, <3>2
  <2> QED BY <2>2, <2>3
<1>6. KeptOK'
  <2> SUFFICES ASSUME NEW w \in Vertices, NEW m \in Vertices, Unmixed(w, m)
               PROVE  /\ SlotIn(input.list, w, m).neighbor # Blank =>
                           SlotIn(list', w, m).neighbor # Blank
                      /\ SlotIn(list', w, m).neighbor # Blank =>
                           \/ SlotIn(input.list, w, m).neighbor # Blank
                           \/ \E d \in Ends : Made(d, w, m)' # {}
    BY <1>0 DEF KeptOK
  <2>1. CASE <<w, m>> # <<v, n>>
    <3>1. SlotIn(list', w, m) = SlotIn(list, w, m) /\ \A d \in Ends : Made(d, w, m)' = Made(d, w, m)
      BY <1>1, <1>2, <2>1
    <3> QED BY <1>0, <3>1 DEF KeptOK
  <2>2. CASE w = v /\ m = n
    <3>1. SlotIn(list', w, m).neighbor # Blank
      BY <1>2, <1>3, <1>4, <2>2
    <3>2. PICK d : d = Dir
      OBVIOUS
    <3>3. Made(d, w, m)' = IF d = Dir /\ w = v /\ m = n THEN Made(d, w, m) \cup EndsOf(X)
                            ELSE Made(d, w, m)
      BY <1>1, <3>2
    <3>4. d \in Ends /\ Made(d, w, m)' # {}
      BY <1>1, <2>2, <3>2, <3>3
    <3> QED BY <3>1, <3>4
  <2> QED BY <2>1, <2>2
<1>7. FreeOK'
  <2> SUFFICES ASSUME NEW w \in Vertices, NEW q \in SlotsAt(list', w), q.neighbor = Blank
               PROVE  q.dirs = {} /\ WasFree(q.weight, w)'
    BY DEF FreeOK
  <2>1. WasFree(q.weight, w)' <=> WasFree(q.weight, w)
    BY DEF WasFree
  <2>2. CASE q \in SlotsAt(list, w)
    BY <1>0, <2>1, <2>2 DEF FreeOK
  <2>3. CASE q = NewSlot
    BY <1>3, <2>1, <2>3 DEF WasFree
  <2> QED BY <1>2, <2>2, <2>3
<1>8. \A w, m, x, D : WeightOK(w, m, x, D)' <=> WeightOK(w, m, x, D)
  <2>1. /\ \A D : Total(D)' = Total(D)
        /\ \A w, m : Start(w, m)' = Start(w, m)
    BY SameBatch
  <2>2. \A x : Upd(x)' = Upd(x)
    BY DEF Upd
  <2> QED BY <2>1, <2>2 DEF WeightOK
<1>9. r.neighbor # Blank => WeightOK(v, n, r.weight, M)
  BY <1>0 DEF WeightsOK
<1>10. r.neighbor = Blank =>
         /\ M = {} /\ SlotIn(input.list, v, n).neighbor = Blank
         /\ SlotIn(input.list, v, n).weight = 0
  <2> SUFFICES ASSUME r.neighbor = Blank
               PROVE  /\ M = {} /\ SlotIn(input.list, v, n).neighbor = Blank
                      /\ SlotIn(input.list, v, n).weight = 0
    OBVIOUS
  <2>1. "OUT" \notin r.dirs /\ "OUT" \in Ends
    BY <1>3 DEF Ends
  <2>2. M = {}
    BY <1>0, <2>1 DEF DirsOK
  <2>3. SlotIn(input.list, v, n).neighbor = Blank
    BY <1>0 DEF KeptOK
  <2>4. SlotIn(input.list, v, n) = NewSlot
    BY <1>0, <2>3, SlotInIs
  <2> QED BY <1>3, <2>2, <2>3, <2>4
<1>11. Total(M) \in Int /\ Total({}) = 0 /\ delta \in Int
  BY <1>0, TotalIs DEF StoresInto
<1>12. /\ Start(v, n) \subseteq Int /\ SlotIn(input.list, v, n).weight \in Start(v, n)
       /\ \A q \in SlotsAt(input.list, v) : q.neighbor = Blank /\ Storing(n, v) # {} /\
            SlotIn(input.list, v, n).neighbor = Blank => q.weight \in Start(v, n)
  BY <1>0, StartIs
<1> HIDE DEF r, M
<1>13. ASSUME Dir = "OUT" PROVE WeightOK(v, n, s.weight, M \cup EndsOf(X))
  <2>1. /\ input.operation = "INCR" => s.weight = r.weight + delta
        /\ input.operation = "SET" => \E x \in X : s.weight = Upd(x).weight
        /\ Total(M \cup EndsOf(X)) = Total(M) + delta
    BY <1>13 DEF StoresInto, r, M
  <2>2. ASSUME input.operation = "INCR"
        PROVE  \E start \in Start(v, n) : s.weight = start + Total(M \cup EndsOf(X))
    <3>1. PICK start \in Start(v, n) : r.weight = start + Total(M)
      <4>1. CASE r.neighbor # Blank
        BY <1>9, <2>2, <4>1 DEF WeightOK
      <4>2. CASE r.neighbor = Blank
        <5>1. r.weight = 0 /\ 0 \in Start(v, n) /\ Total(M) = 0
          BY <1>3, <1>10, <1>11, <1>12, <4>2
        <5>2. 0 = 0 + 0
          OBVIOUS
        <5> QED BY <5>1, <5>2
      <4> QED BY <4>1, <4>2
    <3>2. start \in Int
      BY <1>12
    <3>3. s.weight = start + Total(M \cup EndsOf(X))
      BY <1>11, <2>1, <2>2, <3>1, <3>2
    <3> QED BY <3>3
  <2>3. ASSUME input.operation = "SET"
        PROVE  \E x \in M \cup EndsOf(X) : s.weight = Upd(x[1]).weight
    <3>1. PICK y \in X : s.weight = Upd(y).weight
      BY <2>1, <2>3
    <3>2. <<y, Way>> \in EndsOf(X) /\ <<y, Way>>[1] = y
      BY DEF EndsOf
    <3> QED BY <3>1, <3>2
  <2> QED BY <2>2, <2>3 DEF WeightOK
<1>14. ASSUME Dir = "IN" PROVE WeightOK(v, n, s.weight, M)
  <2>1. CASE r.neighbor # Blank
    <3>1. s.weight = r.weight
      BY <1>14, <2>1 DEF StoresInto, r
    <3> QED BY <1>9, <2>1, <3>1
  <2>2. CASE r.neighbor = Blank
    <3>1. WasFree(s.weight, v)
      BY <1>14, <2>2 DEF StoresInto, r
    <3>2. Storing(n, v) # {}
      BY <1>1, <1>14 DEF Stores
    <3>3. s.weight \in Start(v, n)
      BY <1>10, <1>12, <2>2, <3>1, <3>2 DEF WasFree
    <3>4. s.weight = s.weight + Total(M)
      <4>1. s.weight \in Int
        BY <1>12, <3>3
      <4>2. Total(M) = 0
        BY <1>10, <1>11, <2>2
      <4> QED BY <4>1, <4>2
    <3> QED BY <1>10, <2>2, <3>3, <3>4 DEF WeightOK
  <2> QED BY <2>1, <2>2
<1>15. WeightsOK'
  <2> SUFFICES ASSUME NEW w \in Vertices, NEW m \in Vertices, Unmixed(w, m),
                      SlotIn(list', w, m).neighbor # Blank
               PROVE  WeightOK(w, m, SlotIn(list', w, m).weight, Made("OUT", w, m)')
    BY <1>0, <1>8 DEF WeightsOK
  <2>0. "OUT" \in Ends
    BY DEF Ends
  <2>1. CASE <<w, m>> # <<v, n>>
    <3>1. SlotIn(list', w, m) = SlotIn(list, w, m) /\ Made("OUT", w, m)' = Made("OUT", w, m)
      BY <1>1, <1>2, <2>0, <2>1
    <3> QED BY <1>0, <3>1 DEF WeightsOK
  <2>2. CASE w = v /\ m = n /\ Dir = "OUT"
    <3>1. SlotIn(list', w, m) = s /\ Made("OUT", w, m)' = M \cup EndsOf(X)
      BY <1>1, <1>2, <2>0, <2>2 DEF M
    <3> QED BY <1>13, <2>2, <3>1
  <2>3. CASE w = v /\ m = n /\ Dir = "IN"
    <3>1. SlotIn(list', w, m) = s /\ Made("OUT", w, m)' = M
      BY <1>1, <1>2, <2>0, <2>3 DEF M
    <3> QED BY <1>14, <2>3, <3>1
  <2> QED BY <1>1, <2>1, <2>2, <2>3 DEF Ends
<1> QED BY <1>5, <1>6, <1>7, <1>15 DEF SlotsOK

-----------------------------------------------------------------------------
(* What the callers are told, and what the passes have done.               *)

\* The last end of x is made in this pass, or was in an earlier one.
LastTurn(x) == pass >= (IF x \in Half("up") THEN 2 ELSE 4)

\* x and y are reported as new edges; some update of x's edge is.
Reported(y) == Upd(y).result = 0 /\ result[y] = ADDED
Told(x) == \E y \in Ids : SameEdge(x, y) /\ Reported(y)

EndWas(x) == WasThere(Upd(x).src, Upd(x).dst)
EndShared(x) == Shared(Upd(x).src, Upd(x).dst)

ReportsOK ==
  input.directed => \A x \in Ids : Pure(x) /\ Upd(x).result = 0 /\ LastTurn(x) /\ Settled(x) =>
    (Told(x) <=> ~EndWas(x))

\* No two updates of an edge are reported, unless its slot may be shared.
OnceOK ==
  input.directed => \A x, y \in Ids :
    Pure(x) /\ LastTurn(x) /\ ~EndShared(x) /\ SameEdge(x, y) /\ Reported(x) /\ Reported(y) => x = y

\* The order of a pass holds its half; the first half is done before the second.
PassedOK ==
  /\ pass > 0 => \A x \in Half(Passes[pass].half) : \E i \in DOMAIN order : order[i] = x
  /\ pass \in {3, 4} => \A x \in Half("up") : Pure(x) /\ Upd(x).result = 0 => Settled(x)

\* In this pass the slot of neighbour n of vertex v may be in use for the edge's
\* reverse before it gets its direction.
InUse(v, n) == SlotIn(input.list, v, n).neighbor # Blank \/ (pass = 4 /\ Storing(n, v) # {})
LastEnds == input.directed /\ pass \in {2, 4}

\* What a thread knows of the slot it has in hand.
Knows(l, f, g) ==
  l = "update" /\ Unmixed(f.v, Nbr[f.u]) =>
    /\ f.mode = input.operation
    /\ f.res = UPDATED => Dir \in SlotIn(g, f.v, Nbr[f.u]).dirs
    /\ f.res = ADDED => /\ Dir \notin SlotIn(input.list, f.v, Nbr[f.u]).dirs
                        /\ LastEnds => InUse(f.v, Nbr[f.u])

HandOK == \A t \in Threads : Knows(pc[t], frame[t], list)

DoneOK == SlotsOK /\ ReportsOK /\ OnceOK /\ PassedOK

\* What the results of the updates X of one edge say of its slot.
Telling(X, v, n) ==
  /\ (\E x \in X : result'[x] = ADDED) => Dir \notin SlotIn(input.list, v, n).dirs
  /\ (\E x \in X : result'[x] = ADDED) \/ Dir \in SlotIn(list, v, n).dirs
  /\ LastEnds /\ ~InUse(v, n) => \A x \in X : result'[x] = ADDED =>
       Made(Dir, v, n) = {} /\ \A y \in X : result'[y] = ADDED => y = x

LEMMA SameEnd ==
  ASSUME NEW x \in Ids, NEW y \in Ids
  PROVE  /\ Source(x) = Source(y) /\ Neighbor(x) = Neighbor(y) <=> SameEdge(x, y)
         /\ SameEdge(x, y) =>
              /\ SameEdge(y, x) /\ (\A h : x \in Half(h) <=> y \in Half(h))
              /\ (Pure(x) <=> Pure(y)) /\ (LastTurn(x) <=> LastTurn(y))
              /\ (EndWas(x) <=> EndWas(y)) /\ (EndShared(x) <=> EndShared(y))
<1>1. Source(x) = Source(y) /\ Neighbor(x) = Neighbor(y) <=> SameEdge(x, y)
  BY DEF Source, Neighbor, SameEdge
<1>2. ASSUME SameEdge(x, y)
      PROVE  /\ SameEdge(y, x) /\ (\A h : x \in Half(h) <=> y \in Half(h))
             /\ (Pure(x) <=> Pure(y))
             /\ (EndWas(x) <=> EndWas(y)) /\ (EndShared(x) <=> EndShared(y))
  BY <1>2 DEF SameEdge, Half, Pure, EndWas, EndShared
<1>3. SameEdge(x, y) => (LastTurn(x) <=> LastTurn(y))
  BY <1>2 DEF LastTurn
<1> QED BY <1>1, <1>2, <1>3

\* The updates of a half have their last end in the second pass over it.
LEMMA LastIs ==
  ASSUME input \in Cases, input.directed, pass \in 1..Len(Passes),
         NEW x \in Half(Passes[pass].half)
  PROVE  pass \in 1..4 /\ (LastTurn(x) <=> pass \in {2, 4})
<1>1. pass \in 1..4 /\ Passes[pass].half = (IF pass \in {1, 2} THEN "up" ELSE "down")
  <2>1. Len(Passes) = 4
    BY PassFacts
  <2>2. Passes[pass].half = IF pass \in {1, 2, 5, 6} THEN "up" ELSE "down"
    BY PassFacts
  <2> QED BY <2>1, <2>2
<1>2. x \in Half("up") <=> pass \in {1, 2}
  BY <1>1, HalfIs DEF Half
<1> QED BY <1>1, <1>2 DEF LastTurn

\* The end made in that pass is the one whose result is told.
LEMMA EndIs ==
  ASSUME input \in Cases, input.directed, pass \in 1..Len(Passes), pass \in {2, 4},
         NEW x \in Half(Passes[pass].half)
  PROVE  /\ Dir \in SlotIn(input.list, Source(x), Neighbor(x)).dirs <=> EndWas(x)
         /\ InUse(Source(x), Neighbor(x)) <=> EndShared(x)
<1>1. /\ Dir = (IF pass = 4 THEN "OUT" ELSE "IN")
      /\ Passes[pass].at = (IF pass = 4 THEN "src" ELSE "dst")
      /\ Passes[pass].half = (IF pass = 2 THEN "up" ELSE "down")
  <2>1. /\ Dir = (IF pass \in {1, 4, 5, 8} THEN "OUT" ELSE "IN")
        /\ Passes[pass].at = (IF pass \in {1, 4, 6, 7} THEN "src" ELSE "dst")
        /\ Passes[pass].half = (IF pass \in {1, 2, 5, 6} THEN "up" ELSE "down")
    BY PassFacts DEF Dir
  <2> QED BY <2>1
<1>2. x \in Ids
  BY DEF Half
<1> DEFINE s == Upd(x).src
           d == Upd(x).dst
<1>3. CASE pass = 2
  <2>1. s < d /\ Source(x) = d /\ Neighbor(x) = s /\ Dir = "IN"
    BY <1>1, <1>2, <1>3, HalfIs DEF Source, Neighbor
  <2>2. LastSlot(input.list, s, d) = SlotIn(input.list, d, s) /\ LastDir(s, d) = "IN"
    BY <2>1 DEF LastSlot, LastDir
  <2> QED BY <1>3, <2>1, <2>2 DEF EndWas, EndShared, WasThere, Shared, InUse
<1>4. CASE pass = 4
  <2>1. ~(s < d) /\ Source(x) = s /\ Neighbor(x) = d /\ Dir = "OUT"
    BY <1>1, <1>2, <1>4, HalfIs DEF Source, Neighbor
  <2>2. LastSlot(input.list, s, d) = SlotIn(input.list, s, d) /\ LastDir(s, d) = "OUT"
    BY <2>1 DEF LastSlot, LastDir
  <2> QED BY <1>4, <2>1, <2>2 DEF EndWas, EndShared, WasThere, Shared, InUse
<1> QED BY <1>3, <1>4

\* What is made at the slot of an update's edge was made in this pass.
LEMMA MadeNow ==
  ASSUME input \in Cases, pass \in 1..Len(Passes), input.directed,
         NEW x \in Half(Passes[pass].half), NEW z \in Made(Dir, Source(x), Neighbor(x))
  PROVE  z[1] \in Ids /\ Upd(z[1]).result = 0 /\ SameEdge(x, z[1]) /\ Settled(z[1])
<1>1. x \in Ids /\ pass \in 1..4
  <2>1. Len(Passes) = 4
    BY PassFacts
  <2> QED BY <2>1 DEF Half
<1>2. z \in Stores(Dir, Source(x), Neighbor(x))
  BY DEF Made
<1>3. z = <<z[1], z[2]>> /\ z[1] \in Ids /\ z[2] \in Ways /\ Upd(z[1]).result = 0
  BY <1>2, StoresType
<1>4. z[2] = Way
  BY <1>1, <1>2 DEF Stores, Storing, Way
<1>5. Source(z[1]) = Source(x) /\ Neighbor(z[1]) = Neighbor(x)
  BY <1>2, <1>3, <1>4, StoresIs
<1>6. SameEdge(x, z[1])
  BY <1>1, <1>3, <1>5, SameEnd
<1>7. z[1] \in Half(Passes[pass].half)
  BY <1>3, <1>6 DEF Half, SameEdge
<1>8. Dir \in Ends
  BY PassFacts DEF Dir, Ends
<1>9. Turn(Dir, z) = pass
  BY <1>3, <1>4, <1>7, <1>8, TurnIs
<1>10. ~(Turn(Dir, z) < pass)
  BY <1>1, <1>9
<1> QED BY <1>3, <1>6, <1>10 DEF Made

\* And a settled update of that edge has made it.
LEMMA NowMade ==
  ASSUME input \in Cases, pass \in 1..Len(Passes),
         NEW x \in Half(Passes[pass].half), Upd(x).result = 0, Settled(x)
  PROVE  Made(Dir, Source(x), Neighbor(x)) # {}
<1>1. x \in Ids /\ Dir \in Ends /\ Way \in Ways
  BY PassFacts DEF Half, Dir, Ends, Way, Ways
<1>2. <<x, Way>> \in Stores(Dir, Source(x), Neighbor(x))
  BY <1>1, StoresIs
<1>3. Turn(Dir, <<x, Way>>) = pass
  BY <1>1, TurnIs
<1>4. <<x, Way>> \in Made(Dir, Source(x), Neighbor(x))
  BY <1>2, <1>3 DEF Made
<1> QED BY <1>4

LEMMA SameReports ==
  ASSUME input' = input
  PROVE  /\ \A x, y : SameEdge(x, y)' <=> SameEdge(x, y)
         /\ \A x : Upd(x)' = Upd(x)
         /\ \A x : EndWas(x)' <=> EndWas(x)
         /\ \A x : EndShared(x)' <=> EndShared(x)
         /\ \A x : Pure(x)' <=> Pure(x)
         /\ \A v, n : Unmixed(v, n)' <=> Unmixed(v, n)
         /\ pass' = pass => \A x : LastTurn(x)' <=> LastTurn(x)
         /\ Ids' = Ids /\ Passes' = Passes /\ \A h : Half(h)' = Half(h)
<1>1. Ids' = Ids /\ \A x : Upd(x)' = Upd(x)
  BY DEF Ids, Upd
<1>2. Passes' = Passes
  BY DEF Passes
<1>3. \A h : Half(h)' = Half(h)
  BY <1>1 DEF Half
<1>4. \A x, y : SameEdge(x, y)' <=> SameEdge(x, y)
  BY <1>1 DEF SameEdge
<1>5. \A v, n : Storing(v, n)' = Storing(v, n)
  BY <1>1 DEF Storing
<1>6. \A x : EndWas(x)' <=> EndWas(x)
  BY <1>1 DEF EndWas, WasThere, LastSlot, LastDir
<1>7. \A x : EndShared(x)' <=> EndShared(x)
  BY <1>1, <1>5 DEF EndShared, Shared, LastSlot
<1>8. \A v, n : Unmixed(v, n)' <=> Unmixed(v, n)
  BY <1>1, <1>4 DEF Unmixed, OneSlot
<1>9. \A x : Pure(x)' <=> Pure(x)
  BY <1>1, <1>8 DEF Pure
<1>10. pass' = pass => \A x : LastTurn(x)' <=> LastTurn(x)
  BY <1>3 DEF LastTurn
<1> QED BY <1>1, <1>2, <1>3, <1>4, <1>6, <1>7, <1>8, <1>9, <1>10

\* What is told of an edge after a step that makes the updates X.
LEMMA ToldStep ==
  ASSUME input \in Cases, input' = input, pass' = pass, NEW v, NEW n, NEW X, Making(X, v, n),
         NEW x \in Ids
  PROVE  /\ \A y \in X : SameEdge(x, y) =>
              (Told(x)' <=> Told(x) \/ \E w \in X : result'[w] = ADDED)
         /\ (\A y \in X : ~SameEdge(x, y)) => (Told(x)' <=> Told(x))
         /\ x \notin X => (Settled(x)' <=> Settled(x)) /\ (Reported(x)' <=> Reported(x))
         /\ x \in X => ~Reported(x) /\ (Reported(x)' <=> result'[x] = ADDED)
<1>1. /\ \A y \in X : /\ y \in Ids /\ Source(y) = v /\ Neighbor(y) = n
                      /\ Upd(y).result = 0 /\ result[y] # ADDED
      /\ \A y \in Ids : y \notin X => result'[y] = result[y]
  BY DEF Making, PENDING, ADDED
<1>2. \A y, w \in X : SameEdge(x, y) => SameEdge(x, w)
  <2> SUFFICES ASSUME NEW y \in X, NEW w \in X, SameEdge(x, y) PROVE SameEdge(x, w)
    OBVIOUS
  <2>1. SameEdge(y, w)
    BY <1>1, SameEnd
  <2> QED BY <2>1 DEF SameEdge
<1>3. Told(x)' <=> \E y \in Ids : SameEdge(x, y) /\ Upd(y).result = 0 /\ result'[y] = ADDED
  BY SameReports DEF Told, Reported
<1>4. ASSUME NEW y \in X, SameEdge(x, y)
      PROVE  Told(x)' <=> Told(x) \/ \E w \in X : result'[w] = ADDED
  BY <1>1, <1>2, <1>3, <1>4 DEF Told, Reported
<1>5. ASSUME \A y \in X : ~SameEdge(x, y) PROVE Told(x)' <=> Told(x)
  BY <1>1, <1>3, <1>5 DEF Told, Reported
<1>6. Reported(x)' <=> Upd(x).result = 0 /\ result'[x] = ADDED
  BY SameReports DEF Reported
<1>7. x \notin X => (Settled(x)' <=> Settled(x)) /\ (Reported(x)' <=> Reported(x))
  BY <1>1, <1>6 DEF Settled, Reported
<1>8. x \in X => ~Reported(x) /\ (Reported(x)' <=> result'[x] = ADDED)
  BY <1>1, <1>6 DEF Reported
<1> QED BY <1>4, <1>5, <1>7, <1>8

\* A step that makes the updates X of one edge keeps what was told.
LEMMA ReportsStep ==
  ASSUME input \in Cases, input' = input, pass' = pass, NEW v \in Vertices, NEW n \in Vertices,
         Unmixed(v, n), NEW X, X # {}, Making(X, v, n), Telling(X, v, n), DirsOK, ReportsOK
  PROVE  ReportsOK'
<1>1. /\ pass \in 1..Len(Passes)
      /\ \A y \in X : /\ y \in Ids /\ Source(y) = v /\ Neighbor(y) = n /\ Upd(y).result = 0
                      /\ y \in Half(Passes[pass].half)
  BY DEF Making
<1>2. Dir \in Ends
  BY <1>1, PassFacts DEF Dir, Ends
<1> SUFFICES ASSUME input.directed, NEW x \in Ids, Pure(x), Upd(x).result = 0, LastTurn(x), Settled(x)'
             PROVE  Told(x)' <=> ~EndWas(x)
  BY SameReports DEF ReportsOK
<1> DEFINE was == EndWas(x)
<1>3. \A y \in Ids : Pure(y) /\ Upd(y).result = 0 /\ LastTurn(y) /\ Settled(y) =>
        (Told(y) <=> ~EndWas(y))
  BY DEF ReportsOK
<1>4. \A y \in Ids : SameEdge(x, y) =>
        (Told(y) <=> Told(x)) /\ (EndWas(y) <=> was) /\ Pure(y) /\ LastTurn(y)
  <2>1. \A y \in Ids : SameEdge(x, y) => (Told(y) <=> Told(x))
    BY DEF SameEdge, Told
  <2> QED BY <2>1, SameEnd
<1>5. \A y \in Ids : Upd(y).result = 0 /\ SameEdge(x, y) /\ Settled(y) => (Told(x) <=> ~was)
  BY <1>3, <1>4
<1>6. CASE \A y \in X : ~SameEdge(x, y)
  <2>1. x \notin X
    BY <1>6 DEF SameEdge
  <2>2. (Told(x)' <=> Told(x)) /\ Settled(x)
    BY <1>6, <2>1, ToldStep
  <2> QED BY <1>3, <2>2
<1>7. CASE \E y \in X : SameEdge(x, y)
  <2>1. PICK y \in X : SameEdge(x, y)
    BY <1>7
  <2>2. Told(x)' <=> Told(x) \/ \E w \in X : result'[w] = ADDED
    BY <2>1, ToldStep
  <2>3. Dir \in SlotIn(input.list, v, n).dirs <=> was
    <3>1. y \in Ids /\ y \in Half(Passes[pass].half) /\ Source(y) = v /\ Neighbor(y) = n /\ LastTurn(y)
      BY <1>1, <1>4, <2>1
    <3>2. pass \in {2, 4}
      BY <1>1, <3>1, LastIs
    <3>3. Dir \in SlotIn(input.list, Source(y), Neighbor(y)).dirs <=> EndWas(y)
      BY <1>1, <3>1, <3>2, EndIs
    <3> QED BY <1>4, <2>1, <3>1, <3>3
  <2>4. Told(x) => ~was
    <3> SUFFICES ASSUME Told(x) PROVE ~was
      OBVIOUS
    <3>1. PICK w \in Ids : Upd(w).result = 0 /\ SameEdge(x, w) /\ result[w] = ADDED
      BY DEF Told, Reported
    <3>2. Settled(w)
      BY <3>1 DEF Settled
    <3> QED BY <1>5, <3>1, <3>2
  <2>5. CASE \E w \in X : result'[w] = ADDED
    <3>1. ~was
      BY <2>3, <2>5 DEF Telling
    <3> QED BY <2>2, <2>5, <3>1
  <2>6. CASE ~\E w \in X : result'[w] = ADDED
    <3>1. Dir \in SlotIn(list, v, n).dirs
      BY <2>6 DEF Telling
    <3>2. Dir \in SlotIn(input.list, v, n).dirs \/ Made(Dir, v, n) # {}
      BY <1>2, <3>1 DEF DirsOK
    <3>3. ASSUME Made(Dir, v, n) # {} PROVE Told(x) <=> ~was
      <4>1. PICK z : z \in Made(Dir, v, n)
        BY <3>3
      <4>2. z[1] \in Ids /\ Upd(z[1]).result = 0 /\ SameEdge(y, z[1]) /\ Settled(z[1])
        BY <1>1, <4>1, MadeNow
      <4>3. SameEdge(x, z[1])
        BY <2>1, <4>2 DEF SameEdge
      <4> QED BY <1>5, <4>2, <4>3
    <3>4. ASSUME Dir \in SlotIn(input.list, v, n).dirs PROVE Told(x) <=> ~was
      BY <2>3, <2>4, <3>4
    <3>5. Told(x)' <=> Told(x)
      BY <2>2, <2>6
    <3> QED BY <3>2, <3>3, <3>4, <3>5
  <2> QED BY <2>5, <2>6
<1> QED BY <1>6, <1>7

\* And reports none twice.
LEMMA OnceStep ==
  ASSUME input \in Cases, input' = input, pass' = pass, NEW v \in Vertices, NEW n \in Vertices,
         NEW X, Making(X, v, n), Telling(X, v, n), OnceOK
  PROVE  OnceOK'
<1>1. /\ pass \in 1..Len(Passes)
      /\ \A y \in X : /\ y \in Ids /\ Source(y) = v /\ Neighbor(y) = n /\ Upd(y).result = 0
                      /\ y \in Half(Passes[pass].half)
  BY DEF Making
<1> SUFFICES ASSUME input.directed, NEW x \in Ids, NEW y \in Ids, Pure(x), LastTurn(x), ~EndShared(x),
                    SameEdge(x, y), Reported(x)', Reported(y)'
             PROVE  x = y
  BY SameReports DEF OnceOK
<1>2. ASSUME NEW a \in X, NEW b \in Ids, LastTurn(a), ~EndShared(a), SameEdge(a, b), Reported(a)', Reported(b)'
      PROVE  a = b
  <2>1. a \in Ids /\ a \in Half(Passes[pass].half) /\ Source(a) = v /\ Neighbor(a) = n
    BY <1>1, <1>2
  <2>2. pass \in {2, 4}
    BY <1>1, <1>2, <2>1, LastIs
  <2>3. InUse(Source(a), Neighbor(a)) <=> EndShared(a)
    BY <1>1, <2>1, <2>2, EndIs
  <2>4. LastEnds /\ ~InUse(v, n)
    BY <1>2, <2>1, <2>2, <2>3 DEF LastEnds
  <2>5. result'[a] = ADDED
    BY <1>2, <2>1, ToldStep
  <2>6. Made(Dir, v, n) = {} /\ \A c \in X : result'[c] = ADDED => c = a
    BY <2>4, <2>5 DEF Telling
  <2>7. CASE b \in X
    <3>1. result'[b] = ADDED
      BY <1>2, <2>7, ToldStep
    <3> QED BY <2>6, <2>7, <3>1
  <2>8. CASE b \notin X
    <3>1. Reported(b)
      BY <1>2, <2>8, ToldStep
    <3>2. Upd(b).result = 0 /\ Settled(b)
      BY <3>1 DEF Reported, Settled
    <3>3. b \in Half(Passes[pass].half) /\ Source(b) = v /\ Neighbor(b) = n
      <4>1. Source(b) = Source(a) /\ Neighbor(b) = Neighbor(a)
        BY <1>2, <2>1, SameEnd
      <4>2. \A h : a \in Half(h) <=> b \in Half(h)
        BY <1>2, <2>1, SameEnd
      <4> QED BY <2>1, <4>1, <4>2
    <3>4. Made(Dir, Source(b), Neighbor(b)) # {}
      BY <1>1, <3>2, <3>3, NowMade
    <3> QED BY <2>6, <3>3, <3>4
  <2> QED BY <2>7, <2>8
<1>3. SameEdge(y, x) /\ LastTurn(y) /\ ~EndShared(y)
  BY SameEnd
<1>4. CASE x \in X
  BY <1>2, <1>4
<1>5. CASE y \in X
  <2>1. y = x
    BY <1>2, <1>3, <1>5
  <2> QED BY <2>1
<1>6. CASE x \notin X /\ y \notin X
  <2>1. Reported(x) /\ Reported(y)
    BY <1>6, ToldStep
  <2> QED BY <2>1 DEF OnceOK
<1> QED BY <1>4, <1>5, <1>6

\* Directions are only added to the slots of unmixed neighbours.
Grows(g, h) ==
  \A v, n \in Vertices : Unmixed(v, n) => SlotIn(g, v, n).dirs \subseteq SlotIn(h, v, n).dirs

\* A step that makes the updates X of one edge, in the slot s.
LEMMA DoneStep ==
  ASSUME Inv, DoneOK, input' = input, pass' = pass, order' = order,
         NEW v \in Vertices, NEW n \in Vertices, Unmixed(v, n), NEW X, X # {},
         Making(X, v, n), NEW s, NEW delta, SlotChange(list, list', v, n, s),
         StoresInto(X, v, n, s, SlotIn(list, v, n), delta), Telling(X, v, n)
  PROVE  DoneOK' /\ Grows(list, list')
<1>1. SlotsOK'
  BY SlotsStep DEF DoneOK
<1>2. input \in Cases
  BY DEF Inv, Types
<1>3. ReportsOK'
  BY <1>2, ReportsStep DEF DoneOK, SlotsOK
<1>4. OnceOK'
  BY <1>2, OnceStep DEF DoneOK
<1>5. PassedOK'
  <2>1. ASSUME pass > 0, NEW x \in Half(Passes[pass].half)
        PROVE  \E i \in DOMAIN order : order[i] = x
    BY <2>1 DEF DoneOK, PassedOK
  <2>2. ASSUME pass \in {3, 4}, NEW x \in Half("up"), Pure(x), Upd(x).result = 0 PROVE Settled(x)'
    <3>1. Settled(x) /\ x \in Ids
      BY <2>2 DEF DoneOK, PassedOK, Half
    <3> QED BY <3>1 DEF Making, Settled
  <2> QED BY <2>1, <2>2, SameReports DEF PassedOK
<1>6. ASSUME NEW w \in Vertices, NEW m \in Vertices, Unmixed(w, m)
      PROVE  SlotIn(list, w, m).dirs \subseteq SlotIn(list', w, m).dirs
  <2>1. CASE <<w, m>> # <<v, n>>
    BY <1>6, <2>1 DEF SlotChange, SlotsKept
  <2>2. CASE w = v /\ m = n
    BY <2>2 DEF SlotChange, StoresInto
  <2> QED BY <2>1, <2>2
<1> QED BY <1>1, <1>3, <1>4, <1>5, <1>6 DEF DoneOK, Grows

\* Any other step keeps it all: of the unmixed edges no update is made and no
\* slot has changed.
Apart ==
  /\ \A x \in Ids : Pure(x) => result'[x] = result[x]
  /\ \A w, m \in Vertices : Unmixed(w, m) => SlotIn(list', w, m) = SlotIn(list, w, m)
  /\ FreeKept(list, list')

LEMMA ApartStep ==
  ASSUME input \in Cases, DoneOK, input' = input, pass' = pass, order' = order, Apart
  PROVE  DoneOK' /\ Grows(list, list')
<1>1. \A x \in Ids : Pure(x) => (Settled(x)' <=> Settled(x)) /\ (Reported(x)' <=> Reported(x))
  BY SameReports DEF Apart, Settled, Reported
<1>2. ASSUME NEW d \in Ends, NEW v \in Vertices, NEW n \in Vertices, Unmixed(v, n)
      PROVE  Made(d, v, n)' = Made(d, v, n)
  <2>1. Made(d, v, n)' =
          {x \in Stores(d, v, n) : Turn(d, x) < pass \/ (Turn(d, x) = pass /\ Settled(x[1])')}
    BY SameBatch DEF Made
  <2>2. ASSUME NEW x \in Stores(d, v, n) PROVE Settled(x[1])' <=> Settled(x[1])
    BY <1>1, <1>2, StoresPure
  <2>3. Made(d, v, n) \subseteq Stores(d, v, n) /\ Made(d, v, n)' \subseteq Stores(d, v, n)
    BY <2>1 DEF Made
  <2>4. \A x \in Stores(d, v, n) : x \in Made(d, v, n)' <=> x \in Made(d, v, n)
    BY <2>1, <2>2 DEF Made
  <2> QED BY <2>3, <2>4
<1>3. \A v, n, w, D : WeightOK(v, n, w, D)' <=> WeightOK(v, n, w, D)
  BY SameBatch, SameReports DEF WeightOK
<1>4. \A w, v : WasFree(w, v)' <=> WasFree(w, v)
  BY DEF WasFree
<1>5. DirsOK /\ KeptOK /\ FreeOK /\ WeightsOK /\ "OUT" \in Ends
  BY DEF DoneOK, SlotsOK, Ends
<1>6. /\ \A v, n : Unmixed(v, n)' <=> Unmixed(v, n)
      /\ \A v, n \in Vertices : Unmixed(v, n) => SlotIn(list', v, n) = SlotIn(list, v, n)
  BY SameReports DEF Apart
<1>7. DirsOK' /\ KeptOK'
  BY <1>2, <1>5, <1>6 DEF DirsOK, KeptOK
<1>8. FreeOK'
  <2> SUFFICES ASSUME NEW w \in Vertices, NEW q \in SlotsAt(list', w), q.neighbor = Blank
               PROVE  q.dirs = {} /\ WasFree(q.weight, w)
    BY <1>4 DEF FreeOK
  <2>1. CASE q \in SlotsAt(list, w)
    BY <1>5, <2>1 DEF FreeOK
  <2>2. CASE q = NewSlot
    BY <2>2 DEF NewSlot, WasFree
  <2> QED BY <2>1, <2>2 DEF Apart, FreeKept
<1>9. WeightsOK'
  <2> SUFFICES ASSUME NEW v \in Vertices, NEW n \in Vertices, Unmixed(v, n),
                      SlotIn(list, v, n).neighbor # Blank
               PROVE  WeightOK(v, n, SlotIn(list, v, n).weight, Made("OUT", v, n)')
    BY <1>3, <1>6 DEF WeightsOK
  <2> QED BY <1>2, <1>5 DEF WeightsOK
<1>10. ASSUME NEW x \in Ids, NEW y \in Ids, Pure(x), SameEdge(x, y)
       PROVE  Reported(y)' <=> Reported(y)
  BY <1>1, <1>10, SameEnd
<1>11. ReportsOK'
  <2>1. \A x \in Ids : Pure(x) => (Told(x)' <=> Told(x))
    BY <1>10, SameReports DEF Told
  <2> QED BY <1>1, <2>1, SameReports DEF DoneOK, ReportsOK
<1>12. OnceOK'
  <2> SUFFICES ASSUME input.directed, NEW x \in Ids, NEW y \in Ids, Pure(x), LastTurn(x), ~EndShared(x),
                      SameEdge(x, y), Reported(x)', Reported(y)'
               PROVE  x = y
    BY SameReports DEF OnceOK
  <2>1. Reported(x) /\ Reported(y)
    BY <1>1, <1>10
  <2> QED BY <2>1 DEF DoneOK, OnceOK
<1>13. PassedOK'
  <2>1. ASSUME pass \in {3, 4}, NEW x \in Half("up"), Pure(x), Upd(x).result = 0 PROVE Settled(x)'
    <3>1. Settled(x) /\ x \in Ids
      BY <2>1 DEF DoneOK, PassedOK, Half
    <3> QED BY <1>1, <2>1, <3>1
  <2> QED BY <2>1, SameReports DEF DoneOK, PassedOK
<1> QED BY <1>6, <1>7, <1>8, <1>9, <1>11, <1>12, <1>13 DEF DoneOK, SlotsOK, Grows

-----------------------------------------------------------------------------
(* The steps of a thread and what is stored.                               *)

\* What a step within a pass cannot change of it.
LEMMA HandSame ==
  ASSUME input' = input, pass' = pass, order' = order
  PROVE  /\ Dir' = Dir /\ Nbr' = Nbr /\ (LastEnds' <=> LastEnds)
         /\ \A v, n : (Unmixed(v, n)' <=> Unmixed(v, n)) /\ (InUse(v, n)' <=> InUse(v, n))
<1>1. /\ Passes' = Passes /\ Nbr' = Nbr /\ (\A x : Upd(x)' = Upd(x)) /\ Ids' = Ids
      /\ \A v, n : Unmixed(v, n)' <=> Unmixed(v, n)
  BY SameOrder
<1>2. Dir' = Dir /\ (LastEnds' <=> LastEnds)
  BY <1>1 DEF Dir, LastEnds
<1>3. \A v, n : Storing(v, n)' = Storing(v, n)
  BY <1>1 DEF Storing
<1>4. \A v, n : InUse(v, n)' <=> InUse(v, n)
  BY <1>3 DEF InUse
<1> QED BY <1>1, <1>2, <1>4

LEMMA HandStep ==
  ASSUME Inv, HandOK, NEW t \in Threads, NEW l, NEW f,
         input' = input, pass' = pass, order' = order,
         pc' = [pc EXCEPT ![t] = l], frame' = [frame EXCEPT ![t] = f],
         Grows(list, list'), Knows(l, f, list')
  PROVE  HandOK'
<1>1. /\ pc'[t] = l /\ frame'[t] = f
      /\ \A u \in Threads : u # t => pc'[u] = pc[u] /\ frame'[u] = frame[u]
  BY DEF Inv, Types
<1>2. /\ Dir' = Dir /\ Nbr' = Nbr /\ (LastEnds' <=> LastEnds)
      /\ \A v, n : (Unmixed(v, n)' <=> Unmixed(v, n)) /\ (InUse(v, n)' <=> InUse(v, n))
  BY HandSame
<1>3. ASSUME NEW u \in Threads, u # t PROVE Knows(pc[u], frame[u], list')
  <2> SUFFICES ASSUME pc[u] = "update" PROVE Knows(pc[u], frame[u], list')
    BY DEF Knows
  <2>1. frame[u].u \in Span(pc[u], frame[u]) /\ frame[u].v \in Vertices
    BY Ranged DEF ThreadOK, UpdateOK
  <2>2. Nbr[frame[u].u] \in Vertices
    BY <2>1, Ranged DEF FrameOK
  <2>3. Knows(pc[u], frame[u], list)
    BY DEF HandOK
  <2> QED BY <2>1, <2>2, <2>3 DEF Knows, Grows
<1>4. \A u \in Threads : Knows(pc'[u], frame'[u], list')
  BY <1>1, <1>3
<1>5. ASSUME NEW u \in Threads PROVE Knows(pc[u], frame[u], list)'
  BY <1>2, <1>4 DEF Knows
<1> QED BY <1>5 DEF HandOK

LEMMA SlotReplaced ==
  ASSUME NEW g, ListType(g), NEW v \in Vertices, NEW b \in DOMAIN g[v], NEW k \in 1..EBSize,
         NEW id, NEW mode, NEW h, h = WithSlot(g, v, b, k, id, mode),
         Nb(g, v, <<b, k>>) \in {Blank, Neighbor(id)}
  PROVE  /\ Replaced(g, h, v, <<b, k>>, Neighbor(id))
         /\ <<b, k>> \in Places(g, v)
         /\ At(h, v, <<b, k>>) = Write(At(g, v, <<b, k>>), id, mode)
<1> DEFINE new == WriteBlock(g[v][b], k, id, mode)
<1>1. /\ DOMAIN g = Vertices /\ \A i \in DOMAIN g[v] : DOMAIN g[v][i].slot = 1..EBSize
  BY DEF ListType
<1>2. h[v] = [g[v] EXCEPT ![b] = new]
  BY <1>1 DEF WithSlot
<1>3. \A w \in Vertices \ {v} : h[w] = g[w]
  BY <1>1 DEF WithSlot
<1>4. new.slot = [g[v][b].slot EXCEPT ![k] = Write(@, id, mode)]
  BY DEF WriteBlock
<1>5. /\ new.slot[k] = Write(g[v][b].slot[k], id, mode)
      /\ \A j \in 1..EBSize : j # k => new.slot[j] = g[v][b].slot[j]
  BY <1>1, <1>4
<1> HIDE DEF new
<1>6. /\ DOMAIN h[v] = DOMAIN g[v] /\ h[v][b] = new
      /\ \A i \in DOMAIN g[v] : i # b => h[v][i] = g[v][i]
  BY <1>2
<1>7. Places(h, v) = Places(g, v) /\ <<b, k>> \in Places(g, v)
  BY <1>6 DEF Places
<1>8. At(h, v, <<b, k>>) = Write(At(g, v, <<b, k>>), id, mode)
  BY <1>5, <1>6 DEF At
<1>9. ASSUME NEW q \in Places(g, v), q # <<b, k>> PROVE At(h, v, q) = At(g, v, q)
  <2>1. q[1] \in DOMAIN g[v] /\ q[2] \in 1..EBSize /\ q = <<q[1], q[2]>>
    BY DEF Places
  <2>2. CASE q[1] = b
    BY <1>5, <1>6, <1>9, <2>1, <2>2 DEF At
  <2>3. CASE q[1] # b
    BY <1>6, <2>1, <2>3 DEF At
  <2> QED BY <2>2, <2>3
<1>10. Nb(h, v, <<b, k>>) = Neighbor(id)
  BY <1>8 DEF Nb, Write, Written
<1> QED BY <1>3, <1>7, <1>8, <1>9, <1>10 DEF Replaced

\* One update written to its slot, or to a free one as its neighbour's first.
LEMMA WriteStores ==
  ASSUME Inv, FreeOK, NEW v \in Vertices, NEW n \in Vertices, NEW id, Making({id}, v, n),
         NEW a, NEW mode,
         \/ a.neighbor = n /\ SlotIn(list, v, n) = a /\ mode = input.operation
         \/ /\ a.neighbor = Blank /\ a \in SlotsAt(list, v) /\ SlotIn(list, v, n) = NewSlot
            /\ mode = "SET"
  PROVE  StoresInto({id}, v, n, Write(a, id, mode), SlotIn(list, v, n), Upd(id).weight)
<1> DEFINE s == Write(a, id, mode)
           r == SlotIn(list, v, n)
           w == Upd(id).weight
           M == Made(Dir, v, n)
<1>1. /\ input \in Cases /\ id \in Ids /\ Neighbor(id) = n
      /\ <<id, Way>> \in Stores(Dir, v, n) /\ <<id, Way>> \notin M /\ M \subseteq Stores(Dir, v, n)
      /\ pass \in 1..Len(Passes)
  <2>1. input \in Cases /\ id \in Ids /\ Neighbor(id) = n /\ pass \in 1..Len(Passes)
        /\ Upd(id).result = 0 /\ Source(id) = v /\ result[id] = PENDING
        /\ id \in Half(Passes[pass].half)
    BY DEF Making, Inv, Types
  <2>2. <<id, Way>> \in Stores(Dir, v, n)
    BY <2>1, StoresIs
  <2>3. Dir \in Ends /\ Way \in Ways
    BY <2>1, PassFacts DEF Dir, Ends, Way, Ways
  <2>4. Turn(Dir, <<id, Way>>) = pass
    BY <2>1, <2>3, TurnIs
  <2>5. ~(Turn(Dir, <<id, Way>>) < pass) /\ ~Settled(id)
    BY <2>1, <2>4, PassFacts DEF Settled, PENDING, ADDED, UPDATED
  <2>6. <<id, Way>> \notin M
    BY <2>5 DEF Made
  <2> QED BY <2>1, <2>2, <2>6, StoresType
<1>2. Weights[<<id, Way>>] = w /\ w \in Int
  BY <1>1, StoresType
<1>3. Total(M \cup EndsOf({id})) = Total(M) + w
  <2>1. EndsOf({id}) = {<<id, Way>>}
    BY DEF EndsOf
  <2>2. IsFiniteSet(M) /\ \A x \in M \cup {<<id, Way>>} : Weights[x] \in Int
    BY <1>1, <1>2, StoresType
  <2>3. PICK D : D = M
    OBVIOUS
  <2>4. PICK f : f = Weights
    OBVIOUS
  <2>5. PICK e : e = <<id, Way>>
    OBVIOUS
  <2>6. SumFunctionOnSet(f, D \cup {e}) = f[e] + SumFunctionOnSet(f, D)
    BY <1>1, <2>2, <2>3, <2>4, <2>5, SumAdd
  <2>7. SumFunctionOnSet(f, D) \in Int
    BY <2>2, <2>3, <2>4, SumInt
  <2>8. SumFunctionOnSet(f, D \cup {e}) = SumFunctionOnSet(f, D) + w
    BY <1>2, <2>4, <2>5, <2>6, <2>7
  <2> QED BY <2>1, <2>3, <2>4, <2>5, <2>8 DEF Total
<1>4. /\ s.neighbor = n /\ s.dirs = a.dirs \cup {Dir}
      /\ Dir = "OUT" /\ mode = "SET" => s.weight = w
      /\ Dir = "OUT" /\ mode # "SET" => s.weight = a.weight + w
      /\ Dir = "IN" => s.weight = a.weight
  BY <1>1 DEF Write, Written
<1>5. input.operation \in {"SET", "INCR"}
  BY <1>1, BatchInsertAssumption DEF Operations
<1>6. NewSlot.neighbor = Blank /\ NewSlot.dirs = {} /\ NewSlot.weight = 0 /\ n # Blank
  BY Sizes DEF NewSlot
<1> HIDE DEF s, r, w, M
<1>7. CASE a.neighbor = n /\ r = a /\ mode = input.operation
  <2>1. /\ s.neighbor = n /\ s.dirs = r.dirs \cup {Dir} /\ r.neighbor # Blank
        /\ Dir = "OUT" /\ input.operation = "INCR" => s.weight = r.weight + w
        /\ Dir = "OUT" /\ input.operation = "SET" => s.weight = w
        /\ Dir = "IN" => s.weight = r.weight
    BY <1>4, <1>5, <1>6, <1>7
  <2>2. StoresInto({id}, v, n, s, r, w)
    BY <1>2, <1>3, <2>1 DEF StoresInto, M, w
  <2> QED BY <2>2 DEF s, r, w
<1>8. CASE a.neighbor = Blank /\ a \in SlotsAt(list, v) /\ r = NewSlot /\ mode = "SET"
  <2>1. a.dirs = {} /\ WasFree(a.weight, v)
    BY <1>8 DEF FreeOK
  <2>2. /\ s.neighbor = n /\ s.dirs = r.dirs \cup {Dir}
        /\ Dir = "OUT" => s.weight = w
        /\ Dir = "IN" => s.weight = a.weight
        /\ r.weight = 0 /\ r.neighbor = Blank
    BY <1>4, <1>6, <1>8, <2>1
  <2>3. w = 0 + w
    BY <1>2
  <2>4. StoresInto({id}, v, n, s, r, w)
    BY <1>2, <1>3, <2>1, <2>2, <2>3 DEF StoresInto, M, w
  <2> QED BY <2>4 DEF s, r, w
<1> QED BY <1>7, <1>8 DEF r

\* A step that writes edges that are not unmixed.
LEMMA MixedStep ==
  ASSUME Inv, DoneOK, input' = input, pass' = pass, order' = order,
         NEW v \in Vertices, NEW n \in Vertices, ~Unmixed(v, n),
         SlotsKept(list, list', v, n), FreeKept(list, list'),
         \A x \in Ids : Pure(x) => result'[x] = result[x]
  PROVE  DoneOK' /\ Grows(list, list')
<1>1. input \in Cases
  BY DEF Inv, Types
<1>2. ASSUME NEW w \in Vertices, NEW m \in Vertices, Unmixed(w, m)
      PROVE  SlotIn(list', w, m) = SlotIn(list, w, m)
  <2>1. <<w, m>> # <<v, n>>
    BY <1>2
  <2> QED BY <1>2, <2>1 DEF SlotsKept
<1>3. Apart
  BY <1>2 DEF Apart
<1> QED BY <1>1, <1>3, ApartStep

\* What a thread with slot f in hand is about to do.
Taking(f) ==
  \/ /\ Nb(list, f.v, Here(f)) = Nbr[f.u] /\ (Unmixed(f.v, Nbr[f.u]) => f.mode = input.operation)
     /\ Knows("update", f, list)
  \/ Nb(list, f.v, Here(f)) = Blank /\ f.mode = "SET" /\ f.res = ADDED

LEMMA UpdateIs ==
  ASSUME Inv, NEW t \in Threads, pc[t] # "idle", NEW f, Alike(f, frame[t]),
         FrameOK("update", f, Nbr), InHand(f, Due, Nbr, list), WorkOK("update", f, Pend)
  PROVE  /\ f \in FrameType /\ f.v \in Vertices /\ f.tmp \in DOMAIN list[f.v] /\ f.k \in 1..EBSize
         /\ f.u \in Span(pc[t], frame[t]) /\ f.res \in {ADDED, UPDATED}
         /\ f.scan \in {"find", "seek"} /\ f.u \in DOMAIN order
         /\ order[f.u] \in Ids /\ Source(order[f.u]) = f.v /\ Neighbor(order[f.u]) = Nbr[f.u]
         /\ Nbr[f.u] \in Vertices /\ (Pure(order[f.u]) <=> Unmixed(f.v, Nbr[f.u]))
         /\ Pure(order[f.u]) => result[order[f.u]] = PENDING /\ Upd(order[f.u]).result = 0
         /\ pass \in 1..Len(Passes) /\ order[f.u] \in Half(Passes[pass].half)
         /\ Dir \in Ends /\ ListType(list) /\ input \in Cases /\ result \in [Ids -> Codes]
<1>1. Span("update", f) = Span(pc[t], frame[t]) /\ ListType(list)
  BY Ranged DEF Alike, Span
<1>2. f \in FrameType /\ f.v \in Vertices /\ f.tmp \in Nat /\ f.k \in Nat /\ Len(list[f.v]) \in Nat
  BY <1>1, WalkTypes
<1>3. f.res \in {ADDED, UPDATED} /\ f.scan \in {"find", "seek"}
  BY <1>2 DEF FrameType, InHand
<1>4. f.u \in Span(pc[t], frame[t])
  BY <1>1 DEF InHand
<1>5. f.tmp \in DOMAIN list[f.v] /\ f.k \in 1..EBSize
  BY <1>1, <1>2, ListFacts DEF InHand, CursorOK
<1>6. /\ f.u \in DOMAIN order /\ order[f.u] \in Ids /\ Source(order[f.u]) = f.v
      /\ Neighbor(order[f.u]) = Nbr[f.u] /\ Nbr[f.u] \in Vertices
  <2>1. f.u \in DOMAIN order /\ Src[f.u] = frame[t].v /\ order[f.u] \in Ids
    BY <1>4, Ranged
  <2>2. /\ Src[f.u] = Source(order[f.u]) /\ Nbr[f.u] = Neighbor(order[f.u])
        /\ Nbr[f.u] \in Vertices
    BY <2>1, OrderTypes DEF Inv
  <2>3. frame[t].v = f.v
    BY DEF Alike
  <2> QED BY <2>1, <2>2, <2>3
<1>7. input \in Cases /\ result \in [Ids -> Codes]
  BY DEF Inv, Types
<1>8. Pure(order[f.u]) <=> Unmixed(f.v, Nbr[f.u])
  BY <1>6, <1>7, UpdateTypes
<1>9. ASSUME Pure(order[f.u])
      PROVE  result[order[f.u]] = PENDING /\ Upd(order[f.u]).result = 0
  <2>1. result[order[f.u]] = PENDING
    BY <1>9 DEF WorkOK, Pend
  <2>2. result[order[f.u]] \in {-1, 1} <=> Upd(order[f.u]).result # 0
    BY <1>6, <1>9 DEF Inv, ResultsOK
  <2> QED BY <2>1, <2>2 DEF PENDING
<1>10. pass \in 1..Len(Passes) /\ pass > 0
  <2>1. order # <<>>
    BY <1>6
  <2>2. pass # 0 /\ pass \in 0..Len(Passes)
    BY <2>1 DEF Inv, Types, OrderOK
  <2>3. Len(Passes) \in Nat
    BY <1>7, PassFacts
  <2> QED BY <2>2, <2>3
<1>11. order[f.u] \in Half(Passes[pass].half)
  BY <1>6, <1>10 DEF Inv, OrderOK
<1>12. Dir \in Ends
  BY <1>7, <1>10, PassFacts DEF Dir, Ends
<1> QED BY <1>1, <1>2, <1>3, <1>4, <1>5, <1>6, <1>7, <1>8, <1>9, <1>10, <1>11, <1>12

LEMMA TakenSlot ==
  ASSUME NEW g, NEW h, NEW v \in Vertices, NEW n \in Vertices, NEW p \in Places(g, v),
         Replaced(g, h, v, p, n), Unique(g), Unique(h), Unmixed(v, n),
         NEW a, a = At(g, v, p), NEW s, s = At(h, v, p)
  PROVE  /\ SlotChange(g, h, v, n, s)
         /\ Nb(g, v, p) = n => SlotIn(g, v, n) = a
         /\ Nb(g, v, p) # n => SlotIn(g, v, n) = NewSlot
<1>1. Unmixed(v, n) =>
        /\ SlotChange(g, h, v, n, At(h, v, p))
        /\ (p \in Places(g, v) /\ Nb(g, v, p) = n) => SlotIn(g, v, n) = At(g, v, p)
        /\ ~(p \in Places(g, v) /\ Nb(g, v, p) = n) => SlotIn(g, v, n) = NewSlot
  BY ReplacedSlot
<1> QED BY <1>1

LEMMA DoUpdateStores ==
  ASSUME Inv, DoneOK, Inv', NEW t \in Threads, pc[t] # "idle", NEW f, Alike(f, frame[t]),
         FrameOK("update", f, Nbr), InHand(f, Due, Nbr, list), WorkOK("update", f, Pend),
         DoUpdate(t, f), Taking(f)
  PROVE  /\ DoneOK' /\ Grows(list, list')
         /\ Unmixed(f.v, Nbr[f.u]) => Dir \in SlotIn(list', f.v, Nbr[f.u]).dirs
<1> DEFINE id == order[f.u]
           v == f.v
           n == Nbr[f.u]
           p == Here(f)
           a == At(list, v, p)
           s == Write(a, id, f.mode)
<1>1. /\ f \in FrameType /\ v \in Vertices /\ f.tmp \in DOMAIN list[v] /\ f.k \in 1..EBSize
      /\ f.res \in {ADDED, UPDATED}
      /\ id \in Ids /\ Source(id) = v /\ Neighbor(id) = n /\ n \in Vertices
      /\ Pure(id) <=> Unmixed(v, n)
      /\ Pure(id) => result[id] = PENDING /\ Upd(id).result = 0
      /\ pass \in 1..Len(Passes) /\ id \in Half(Passes[pass].half)
      /\ Dir \in Ends /\ ListType(list) /\ input \in Cases /\ result \in [Ids -> Codes]
  BY UpdateIs
<1>2. /\ list' = WithSlot(list, v, f.tmp, f.k, id, f.mode)
      /\ result' = [result EXCEPT ![id] = f.res]
      /\ input' = input /\ pass' = pass /\ order' = order
  BY DEF DoUpdate, WithSlot
<1>3. Unique(list) /\ Unique(list')
  <2>1. UniqueNeighbor /\ UniqueNeighbor'
    BY DEF Inv
  <2>2. \A w, m : Unmixed(w, m)' <=> Unmixed(w, m)
    BY <1>2, SameOrder
  <2> QED BY <2>1, <2>2 DEF UniqueNeighbor, Unique
<1>4. Nb(list, v, p) \in {Blank, n} /\ p = <<f.tmp, f.k>>
  BY DEF Here, InHand
<1>5. /\ Replaced(list, list', v, p, n) /\ p \in Places(list, v) /\ At(list', v, p) = s
  <2> HIDE DEF id, n, v, p
  <2>1. Nb(list, v, <<f.tmp, f.k>>) \in {Blank, Neighbor(id)}
    BY <1>1, <1>4
  <2>2. /\ Replaced(list, list', v, <<f.tmp, f.k>>, Neighbor(id))
        /\ <<f.tmp, f.k>> \in Places(list, v)
        /\ At(list', v, <<f.tmp, f.k>>) = Write(At(list, v, <<f.tmp, f.k>>), id, f.mode)
    BY <1>1, <1>2, <2>1, SlotReplaced
  <2> QED BY <1>1, <1>4, <2>2
<1>6. Taking(f) <=>
        \/ Nb(list, v, p) = n /\ (Unmixed(v, n) => f.mode = input.operation)
           /\ Knows("update", f, list)
        \/ Nb(list, v, p) = Blank /\ f.mode = "SET" /\ f.res = ADDED
  BY DEF Taking
<1>7. Knows("update", f, list) /\ Unmixed(v, n) =>
        /\ f.res = UPDATED => Dir \in SlotIn(list, v, n).dirs
        /\ f.res = ADDED => Dir \notin SlotIn(input.list, v, n).dirs /\ (LastEnds => InUse(v, n))
  BY DEF Knows
<1> DEFINE m == f.mode
           r == f.res
<1>8. result'[id] = r /\ \A x \in Ids : x # id => result'[x] = result[x]
  BY <1>1, <1>2
<1>9. s = Write(a, id, m)
  OBVIOUS
<1>10. a.neighbor = Nb(list, v, p) /\ a \in SlotsAt(list, v) /\ n # Blank
  BY <1>1, <1>5, SlotsAtPlaces, Sizes DEF Nb
<1> HIDE DEF id, n, v, p, s, a, m, r
<1>11. CASE ~Unmixed(v, n)
  <2>1. SlotsKept(list, list', v, n) /\ FreeKept(list, list')
    BY <1>1, <1>3, <1>5, ReplacedSlot
  <2>2. \A x \in Ids : Pure(x) => result'[x] = result[x]
    BY <1>1, <1>8, <1>11
  <2>3. DoneOK' /\ Grows(list, list')
    BY <1>1, <1>2, <1>11, <2>1, <2>2, MixedStep
  <2> QED BY <1>11, <2>3 DEF v, n
<1>12. CASE Unmixed(v, n)
  <2>1. /\ SlotChange(list, list', v, n, s)
        /\ Nb(list, v, p) = n => SlotIn(list, v, n) = a
        /\ Nb(list, v, p) # n => SlotIn(list, v, n) = NewSlot
    <3>1. v \in Vertices /\ n \in Vertices /\ p \in Places(list, v)
          /\ Replaced(list, list', v, p, n) /\ a = At(list, v, p) /\ s = At(list', v, p)
      BY <1>1, <1>5 DEF a
    <3> QED BY <1>3, <1>12, <3>1, TakenSlot
  <2>2. Making({id}, v, n)
    BY <1>1, <1>8, <1>12 DEF Making, r
  <2>3. \/ /\ a.neighbor = n /\ SlotIn(list, v, n) = a /\ m = input.operation
           /\ Knows("update", f, list)
        \/ /\ a.neighbor = Blank /\ a \in SlotsAt(list, v) /\ SlotIn(list, v, n) = NewSlot
           /\ m = "SET" /\ r = ADDED
    BY <1>6, <1>10, <1>12, <2>1 DEF m, r
  <2>4. PICK delta : delta = Upd(id).weight
    OBVIOUS
  <2>5. StoresInto({id}, v, n, s, SlotIn(list, v, n), delta)
    <3>1. FreeOK
      BY DEF DoneOK, SlotsOK
    <3>2. \/ a.neighbor = n /\ SlotIn(list, v, n) = a /\ m = input.operation
          \/ /\ a.neighbor = Blank /\ a \in SlotsAt(list, v) /\ SlotIn(list, v, n) = NewSlot
             /\ m = "SET"
      BY <2>3
    <3>3. StoresInto({id}, v, n, Write(a, id, m), SlotIn(list, v, n), Upd(id).weight)
      BY <1>1, <2>2, <3>1, <3>2, WriteStores
    <3> QED BY <1>9, <2>4, <3>3
  <2>6. Telling({id}, v, n)
    <3>1. CASE a.neighbor = n /\ Knows("update", f, list)
      BY <1>1, <1>7, <1>8, <1>12, <3>1 DEF Telling, r, n, v
    <3>2. CASE SlotIn(list, v, n) = NewSlot /\ r = ADDED
      <4>1. Dir \notin SlotIn(list, v, n).dirs
        BY <3>2 DEF NewSlot
      <4>2. Dir \notin SlotIn(input.list, v, n).dirs /\ Made(Dir, v, n) = {}
        BY <1>1, <1>12, <4>1 DEF DoneOK, SlotsOK, DirsOK
      <4> QED BY <1>8, <3>2, <4>2 DEF Telling
    <3> QED BY <2>3, <3>1, <3>2
  <2>7. DoneOK' /\ Grows(list, list')
    <3>1. {id} # {}
      OBVIOUS
    <3> QED BY <1>1, <1>2, <1>12, <2>1, <2>2, <2>5, <2>6, <3>1, DoneStep
  <2>8. Dir \in SlotIn(list', v, n).dirs
    BY <2>1, <2>5 DEF SlotChange, StoresInto
  <2> QED BY <2>7, <2>8 DEF v, n
<1> QED BY <1>11, <1>12

LEMMA DoUpdateDone ==
  ASSUME Inv, DoneOK, HandOK, Inv', NEW t \in Threads, pc[t] # "idle", NEW f, Alike(f, frame[t]),
         FrameOK("update", f, Nbr), InHand(f, Due, Nbr, list), WorkOK("update", f, Pend),
         DoUpdate(t, f), Taking(f)
  PROVE  DoneOK' /\ HandOK'
<1>1. /\ f \in FrameType /\ f.u \in Span(pc[t], frame[t]) /\ f.scan \in {"find", "seek"}
      /\ Neighbor(order[f.u]) = Nbr[f.u]
  BY UpdateIs
<1>2. DoneOK' /\ Grows(list, list')
  BY DoUpdateStores
<1>3. Unmixed(f.v, Nbr[f.u]) => Dir \in SlotIn(list', f.v, Nbr[f.u]).dirs
  BY DoUpdateStores
<1>4. input' = input /\ pass' = pass /\ order' = order
  BY DEF DoUpdate
<1>5. CASE MoreAfter(t, f.u)
  <2> DEFINE e == Continued(f, input.operation)
  <2>1. frame' = [frame EXCEPT ![t] = e] /\ pc' = [pc EXCEPT ![t] = "update"]
    BY <1>5 DEF DoUpdate, Goto, Continued
  <2>2. input.operation \in Operations
    BY Cursor
  <2>3. e.v = f.v /\ e.u = f.u + 1 /\ e.res = UPDATED /\ e.mode = input.operation
    BY <1>1 DEF Continued, FrameType
  <2> HIDE DEF e
  <2>4. Nbr[e.u] = Nbr[f.u]
    <3>1. f.u + 1 \in Span(pc[t], frame[t]) /\ Neighbor(order[f.u + 1]) = Neighbor(order[f.u])
      BY <1>1, <1>5, Ranged, OrderTypes DEF MoreAfter, Inv
    <3>2. f.u + 1 \in DOMAIN order
      BY <3>1, Ranged
    <3> QED BY <1>1, <2>3, <3>1, <3>2, OrderTypes DEF Inv
  <2>5. Knows("update", e, list')
    BY <1>3, <2>3, <2>4 DEF Knows, UPDATED, ADDED
  <2> QED BY <1>2, <1>4, <2>1, <2>5, HandStep
<1>6. CASE ~MoreAfter(t, f.u) /\ f.scan = "seek" /\ NextUpdate(t, result') = None
  <2>1. frame' = [frame EXCEPT ![t] = Idle] /\ pc' = [pc EXCEPT ![t] = "idle"]
    BY <1>6 DEF DoUpdate, Goto
  <2>2. Knows("idle", Idle, list')
    BY DEF Knows
  <2> QED BY <1>2, <1>4, <2>1, <2>2, HandStep
<1>7. CASE ~MoreAfter(t, f.u) /\ ~(f.scan = "seek" /\ NextUpdate(t, result') = None)
  <2> DEFINE e == Advanced(f)
  <2>1. frame' = [frame EXCEPT ![t] = e] /\ pc' = [pc EXCEPT ![t] = f.scan]
    BY <1>7 DEF DoUpdate, Goto, Advanced
  <2>2. Knows(f.scan, e, list')
    BY <1>1 DEF Knows
  <2> HIDE DEF e
  <2> QED BY <1>2, <1>4, <2>1, <2>2, HandStep
<1> QED BY <1>5, <1>6, <1>7

LEMMA SameDone ==
  ASSUME Inv, DoneOK, UNCHANGED <<input, pass, order, result, list>>
  PROVE  DoneOK' /\ Grows(list, list')
<1>1. input \in Cases /\ Apart
  BY DEF Inv, Types, Apart, FreeKept
<1> QED BY <1>1, ApartStep

LEMMA QuietDone ==
  ASSUME Inv, DoneOK, HandOK, NEW t \in Threads, NEW l, NEW f,
         UNCHANGED <<input, pass, order, result, list>>,
         pc' = [pc EXCEPT ![t] = l], frame' = [frame EXCEPT ![t] = f], Knows(l, f, list)
  PROVE  DoneOK' /\ HandOK'
<1>1. input' = input /\ pass' = pass /\ order' = order /\ list' = list
  OBVIOUS
<1>2. DoneOK' /\ Grows(list, list')
  BY SameDone
<1>3. Knows(l, f, list')
  BY <1>1
<1> QED BY <1>1, <1>2, <1>3, HandStep

\* A slot without the direction of the last end may be in use for the reverse.
LEMMA InUseThen ==
  ASSUME Inv, DoneOK, LastEnds, NEW x \in Ids, x \in Half(Passes[pass].half),
         pass \in 1..Len(Passes), NEW v \in Vertices, NEW n \in Vertices,
         v = Source(x), n = Neighbor(x), Unmixed(v, n),
         SlotIn(list, v, n).neighbor # Blank, Dir \notin SlotIn(list, v, n).dirs
  PROVE  InUse(v, n)
<1>1. input \in Cases /\ input.directed /\ pass \in {2, 4} /\ DirsOK /\ KeptOK
  BY DEF Inv, Types, LastEnds, DoneOK, SlotsOK
<1>2. /\ Dir = (IF pass = 4 THEN "OUT" ELSE "IN") /\ Dir \in Ends
      /\ Passes[pass].at = (IF pass = 4 THEN "src" ELSE "dst")
      /\ Passes[pass].half = (IF pass = 2 THEN "up" ELSE "down")
  <2>1. /\ Dir = (IF pass \in {1, 4, 5, 8} THEN "OUT" ELSE "IN")
        /\ Passes[pass].at = (IF pass \in {1, 4, 6, 7} THEN "src" ELSE "dst")
        /\ Passes[pass].half = (IF pass \in {1, 2, 5, 6} THEN "up" ELSE "down")
    BY <1>1, PassFacts DEF Dir
  <2> QED BY <1>1, <2>1 DEF Ends
<1>3. Made(Dir, v, n) = {}
  BY <1>1, <1>2 DEF DirsOK
<1> SUFFICES ASSUME SlotIn(input.list, v, n).neighbor = Blank
             PROVE  pass = 4 /\ Storing(n, v) # {}
  BY DEF InUse
<1>4. PICK d \in Ends : Made(d, v, n) # {}
  BY <1>1 DEF KeptOK
<1>5. d # Dir
  BY <1>3, <1>4
<1>6. PICK z : z \in Made(d, v, n)
  BY <1>4
<1>7. z \in Stores(d, v, n) /\ (Turn(d, z) < pass \/ Turn(d, z) = pass)
  BY <1>6 DEF Made
<1>8. CASE pass = 4
  <2>1. d = "IN"
    BY <1>2, <1>5, <1>8 DEF Ends
  <2> QED BY <1>7, <1>8, <2>1 DEF Stores
<1>9. CASE pass = 2
  <2>1. d = "OUT" /\ v = Upd(x).dst /\ n = Upd(x).src /\ n < v
    BY <1>2, <1>5, <1>9, HalfIs DEF Ends, Source, Neighbor
  <2>2. z = <<z[1], z[2]>> /\ z[1] \in Ids /\ z[2] \in Ways
    BY <1>1, <1>7, StoresType
  <2>3. z \in Storing(v, n)
    BY <1>7, <2>1 DEF Stores
  <2>4. z[2] = "forth" /\ Upd(z[1]).src = v /\ Upd(z[1]).dst = n
    BY <1>1, <2>3 DEF Storing
  <2>5. ~(v < n)
    <3>1. v \in Nat /\ n \in Nat
      BY Sizes
    <3> QED BY <2>1, <3>1
  <2>6. z[1] \notin Half("up")
    BY <2>2, <2>4, <2>5, HalfIs
  <2>7. Turn(d, z) = 4
    BY <2>1, <2>4, <2>6 DEF Turn
  <2> QED BY <1>7, <1>9, <2>7
<1> QED BY <1>1, <1>8, <1>9

\* What a thread knows of the slot it finds for its updates.
LEMMA StartKnows ==
  ASSUME Inv, DoneOK, NEW t \in Threads, pc[t] \in {"find", "seek", "claim"},
         frame[t].k <= EBSize, FindUpdates(t, Slot(t).neighbor) # None, NEW e,
         e.v = frame[t].v, e.u = FindUpdates(t, Slot(t).neighbor),
         e.res = Result(Slot(t)), e.mode = input.operation
  PROVE  Knows("update", e, list)
<1> DEFINE v == frame[t].v
           p == Here(frame[t])
           n == Nb(list, v, p)
<1>1. /\ v \in Vertices /\ ListType(list) /\ FrameOK(pc[t], frame[t], Nbr)
      /\ ThreadOK(pc[t], frame[t], Due, Nbr, list) /\ Slot(t).neighbor = n
  BY Ranged, Cursor
<1>2. p \in Places(list, v)
  <2>1. frame[t].tmp \in Nat /\ frame[t].k \in Nat /\ Len(list[v]) \in Nat
    BY <1>1, WalkTypes
  <2> QED BY <1>1, <2>1, ListFacts DEF ThreadOK, CursorOK, Here
<1>3. Nbr[e.u] = n /\ e.u \in Span(pc[t], frame[t])
  BY <1>1, FindIs
<1>4. n \in Vertices /\ n # Blank
  BY <1>1, <1>3, Sizes DEF FrameOK
<1> SUFFICES ASSUME Unmixed(v, n) PROVE Knows("update", e, list)
  BY <1>3 DEF Knows
<1>5. SlotIn(list, v, n) = Slot(t)
  <2>1. OneSlot(list, v, n)
    BY <1>1, <1>4 DEF Inv, UniqueNeighbor
  <2>2. SlotIn(list, v, n) = At(list, v, p)
    BY <1>2, <2>1, SlotAtPlace
  <2> QED BY <2>2 DEF Slot, Block, Blocks, At, Here
<1> DEFINE x == order[e.u]
<1>6. /\ Dir \in Ends /\ x \in Ids /\ pass \in 1..Len(Passes) /\ x \in Half(Passes[pass].half)
      /\ Source(x) = v /\ Neighbor(x) = n
  <2>1. e.u \in DOMAIN order /\ Src[e.u] = v /\ order[e.u] \in Ids
    BY <1>3, Ranged
  <2>2. pass # 0 /\ pass \in 0..Len(Passes) /\ input \in Cases
    BY <2>1 DEF Inv, Types, OrderOK
  <2>3. Len(Passes) \in Nat
    BY <2>2, PassFacts
  <2>4. pass \in 1..Len(Passes) /\ pass > 0
    BY <2>2, <2>3
  <2>5. order[e.u] \in Half(Passes[pass].half)
    BY <2>1, <2>4 DEF Inv, OrderOK
  <2>6. Src[e.u] = Source(order[e.u]) /\ Nbr[e.u] = Neighbor(order[e.u])
    BY <2>1, OrderTypes DEF Inv
  <2> QED BY <1>3, <2>1, <2>2, <2>4, <2>5, <2>6, PassFacts DEF Dir, Ends
<1>7. v \in Vertices /\ Slot(t).neighbor = n
  BY <1>1
<1> HIDE DEF n, v, p, x
<1>8. ASSUME Dir \notin Slot(t).dirs
      PROVE  /\ Dir \notin SlotIn(input.list, v, n).dirs
             /\ LastEnds => InUse(v, n)
  <2>1. Dir \notin SlotIn(input.list, v, n).dirs
    BY <1>4, <1>5, <1>6, <1>7, <1>8 DEF DoneOK, SlotsOK, DirsOK
  <2>2. ASSUME LastEnds PROVE InUse(v, n)
    <3>1. SlotIn(list, v, n).neighbor # Blank /\ Dir \notin SlotIn(list, v, n).dirs
      BY <1>4, <1>5, <1>7, <1>8
    <3>2. v = Source(x) /\ n = Neighbor(x)
      BY <1>6
    <3> QED BY <1>4, <1>6, <1>7, <2>2, <3>1, <3>2, InUseThen
  <2> QED BY <2>1, <2>2
<1>9. /\ e.mode = input.operation
      /\ e.res = UPDATED => Dir \in SlotIn(list, v, n).dirs
      /\ e.res = ADDED => Dir \notin SlotIn(input.list, v, n).dirs /\ (LastEnds => InUse(v, n))
  BY <1>5, <1>8 DEF Result, ADDED, UPDATED
<1>10. e.v = v /\ Nbr[e.u] = n
  BY <1>3 DEF v
<1> QED BY <1>9, <1>10 DEF Knows

LEMMA StartsDone ==
  ASSUME Inv, DoneOK, HandOK, NEW t \in Threads, pc[t] \in {"find", "seek", "claim"},
         frame[t].k <= EBSize, FindUpdates(t, Slot(t).neighbor) # None, NEW e,
         UNCHANGED <<input, pass, order, result, list>>, Goto(t, "update"),
         frame' = [frame EXCEPT ![t] = e],
         e.v = frame[t].v, e.u = FindUpdates(t, Slot(t).neighbor),
         e.res = Result(Slot(t)), e.mode = input.operation
  PROVE  DoneOK' /\ HandOK'
<1>1. Knows("update", e, list) /\ pc' = [pc EXCEPT ![t] = "update"]
  BY StartKnows DEF Goto
<1> QED BY <1>1, QuietDone

\* A step of a walk that reads only.
LEMMA WalksDone ==
  ASSUME Inv, DoneOK, HandOK, NEW t \in Threads, NEW l, l # "update", NEW e,
         UNCHANGED <<input, pass, order, result, list>>,
         pc' = [pc EXCEPT ![t] = l], frame' = [frame EXCEPT ![t] = e]
  PROVE  DoneOK' /\ HandOK'
<1>1. Knows(l, e, list)
  BY DEF Knows
<1> QED BY <1>1, QuietDone

LEMMA ReadsDone ==
  ASSUME Inv, DoneOK, HandOK, NEW t \in Threads,
         TakeRange(t) \/ FindBlock(t) \/ FindNext(t) \/ SeekBlock(t) \/ SeekNext(t)
  PROVE  DoneOK' /\ HandOK'
<1>1. UNCHANGED <<input, pass, order, result, list>>
  BY DEF TakeRange, FindBlock, FindNext, SeekBlock, SeekNext
<1>2. \E l, e : l # "update" /\ pc' = [pc EXCEPT ![t] = l] /\ frame' = [frame EXCEPT ![t] = e]
  <2>1. frame = [frame EXCEPT ![t] = frame[t]]
    BY DEF Inv, Types
  <2>2. CASE TakeRange(t)
    <3>1. PICK r \in todo :
            LET v == Source(order[r[1]]) IN
            /\ frame' = [frame EXCEPT ![t] = [Idle EXCEPT !.v = v, !.first = r[1], !.last = r[2]]]
            /\ pc' = [pc EXCEPT ![t] = IF list[v] = <<>> THEN "seek_block" ELSE "find_block"]
      BY <2>2 DEF TakeRange
    <3>2. (IF list[Source(order[r[1]])] = <<>> THEN "seek_block" ELSE "find_block") # "update"
      OBVIOUS
    <3> QED BY <3>1, <3>2
  <2>3. CASE FindBlock(t)
    <3>1. \E e : frame' = [frame EXCEPT ![t] = e]
      <4>1. EnterBlock(t, frame[t].tmp + 1)
        BY <2>3 DEF FindBlock
      <4> QED BY <4>1 DEF EnterBlock, Inv, Types
    <3> QED BY <2>3, <3>1 DEF FindBlock, Goto
  <2>4. CASE FindNext(t)
    <3>1. CASE frame[t].tmp < Len(Blocks(t))
      BY <2>1, <2>4, <3>1 DEF FindNext, Goto
    <3>2. CASE ~(frame[t].tmp < Len(Blocks(t)))
      <4>1. frame' = [frame EXCEPT ![t] = [frame[t] EXCEPT !.tmp = 0]]
        BY <2>4, <3>2 DEF FindNext, Inv, Types
      <4> QED BY <2>4, <3>2, <4>1 DEF FindNext, Goto
    <3> QED BY <3>1, <3>2
  <2>5. CASE SeekBlock(t)
    <3>1. CASE Goto(t, "idle") /\ frame' = [frame EXCEPT ![t] = Idle]
      BY <3>1 DEF Goto
    <3>2. CASE Goto(t, "seek") /\ EnterBlock(t, frame[t].tmp + 1)
      BY <3>2 DEF Goto, EnterBlock, Inv, Types
    <3>3. CASE Goto(t, "grow") /\ UNCHANGED frame
      BY <2>1, <3>3 DEF Goto
    <3> QED BY <2>5, <3>1, <3>2, <3>3 DEF SeekBlock
  <2>6. CASE SeekNext(t)
    BY <2>1, <2>6 DEF SeekNext, Goto
  <2> QED BY <2>2, <2>3, <2>4, <2>5, <2>6
<1> QED BY <1>1, <1>2, WalksDone

LEMMA ScansDone ==
  ASSUME Inv, DoneOK, HandOK, NEW t \in Threads, FindScan(t) \/ SeekScan(t)
  PROVE  DoneOK' /\ HandOK'
<1> DEFINE f == frame[t]
           u == FindUpdates(t, Slot(t).neighbor)
<1>1. UNCHANGED <<input, pass, order, result, list>> /\ f \in FrameType /\ pc[t] \in {"find", "seek"}
  BY DEF FindScan, SeekScan, Inv, Types
<1>2. \/ \E s \in {"find", "seek"} : u # None /\ f.k <= f.endk /\ StartUpdates(t, u, s)
      \/ \E l \in {"find", "seek"} :
           pc[t] = l /\ NextSlot(t) /\ pc' = [pc EXCEPT ![t] = l]
      \/ Goto(t, "claim") /\ UNCHANGED frame
  BY DEF FindScan, SeekScan, Inv, Types
<1>3. CASE \E s \in {"find", "seek"} : u # None /\ f.k <= f.endk /\ StartUpdates(t, u, s)
  <2>1. PICK s \in {"find", "seek"} : u # None /\ f.k <= f.endk /\ StartUpdates(t, u, s)
    BY <1>3
  <2> DEFINE e == Begun(f, u, Result(Slot(t)), input.operation, s)
  <2>2. frame' = [frame EXCEPT ![t] = e] /\ Goto(t, "update")
    BY <2>1 DEF StartUpdates, Begun, Inv, Types
  <2>3. e.v = f.v /\ e.u = u /\ e.res = Result(Slot(t)) /\ e.mode = input.operation
    BY <1>1 DEF Begun, FrameType
  <2>4. f.k <= EBSize
    <3>1. f.endk <= EBSize /\ f.endk \in Nat /\ f.k \in Nat
      BY <1>1, Ranged, Cursor DEF ThreadOK, CursorOK
    <3> QED BY <2>1, <3>1, Sizes
  <2> HIDE DEF e
  <2> QED BY <1>1, <2>1, <2>2, <2>3, <2>4, StartsDone
<1>4. CASE \E l \in {"find", "seek"} : NextSlot(t) /\ pc' = [pc EXCEPT ![t] = l]
  <2>1. frame' = [frame EXCEPT ![t] = Advanced(f)]
    BY <1>4 DEF NextSlot, Advanced, Inv, Types
  <2> QED BY <1>1, <1>4, <2>1, WalksDone
<1>5. CASE Goto(t, "claim") /\ UNCHANGED frame
  <2>1. frame' = [frame EXCEPT ![t] = f]
    BY <1>5 DEF Inv, Types
  <2> QED BY <1>1, <1>5, <2>1, WalksDone DEF Goto
<1> QED BY <1>2, <1>3, <1>4, <1>5

LEMMA UpdateSlotDone ==
  ASSUME Inv, DoneOK, HandOK, Inv', NEW t \in Threads, UpdateSlot(t)
  PROVE  DoneOK' /\ HandOK'
<1>1. pc[t] = "update" /\ DoUpdate(t, frame[t])
  BY DEF UpdateSlot
<1>2. /\ FrameOK("update", frame[t], Nbr) /\ InHand(frame[t], Due, Nbr, list)
      /\ ThreadOK("update", frame[t], Due, Nbr, list) /\ frame[t] \in FrameType
      /\ WorkOK("update", frame[t], Pend)
  BY <1>1, Ranged, UpdatesSlot
<1>3. Alike(frame[t], frame[t])
  BY <1>2 DEF Alike
<1>4. Nb(list, frame[t].v, Here(frame[t])) = Nbr[frame[t].u]
  BY <1>2 DEF ThreadOK, UpdateOK
<1>5. Knows("update", frame[t], list)
  BY <1>1 DEF HandOK
<1>6. Taking(frame[t])
  BY <1>4, <1>5 DEF Taking, Knows
<1> QED BY <1>1, <1>2, <1>3, <1>6, DoUpdateDone

LEMMA ClaimDone ==
  ASSUME Inv, DoneOK, HandOK, Inv', NEW t \in Threads, Claim(t)
  PROVE  DoneOK' /\ HandOK'
<1> DEFINE high == Block(t).high
           n == Slot(t).neighbor
           free == n = Blank \/ frame[t].k > high
           u == FindUpdates(t, n)
<1>1. pc[t] = "claim" /\ frame[t] \in FrameType
  BY DEF Claim, Inv, Types
<1>2. frame[t].k <= EBSize
  BY <1>1, Ranged, Sizes DEF ThreadOK, CursorOK
<1>3. CASE free /\ DoUpdate(t, BegunTo(frame[t], high, NextUpdate(t, result), ADDED, "SET", "seek"))
  <2> DEFINE e == BegunTo(frame[t], high, NextUpdate(t, result), ADDED, "SET", "seek")
  <2>1. /\ Alike(e, frame[t]) /\ FrameOK("update", e, Nbr) /\ InHand(e, Due, Nbr, list)
        /\ WorkOK("update", e, Pend)
        /\ Nb(list, e.v, Here(e)) = Blank /\ e.mode = "SET" /\ e.res = ADDED
    BY <1>1, <1>3, ClaimTakes
  <2>2. DoUpdate(t, e) /\ pc[t] # "idle"
    BY <1>1, <1>3
  <2> HIDE DEF e
  <2>3. Taking(e)
    BY <2>1 DEF Taking
  <2> QED BY <2>1, <2>2, <2>3, DoUpdateDone
<1>4. CASE /\ ~free /\ u # None
           /\ frame' = [frame EXCEPT ![t] =
                          BegunTo(frame[t], high, u, Result(Slot(t)), input.operation, "seek")]
           /\ Goto(t, "update")
           /\ UNCHANGED <<input, pass, order, result, todo, list>>
  <2> DEFINE e == BegunTo(frame[t], high, u, Result(Slot(t)), input.operation, "seek")
  <2>1. e.v = frame[t].v /\ e.u = u /\ e.res = Result(Slot(t)) /\ e.mode = input.operation
    BY <1>1 DEF BegunTo, FrameType
  <2>2. frame' = [frame EXCEPT ![t] = e]
    BY <1>4
  <2> HIDE DEF e
  <2> QED BY <1>1, <1>2, <1>4, <2>1, <2>2, StartsDone
<1>5. CASE /\ ~free /\ u = None
           /\ frame' = [frame EXCEPT ![t] = AdvancedTo(frame[t], high)]
           /\ Goto(t, "seek")
           /\ UNCHANGED <<input, pass, order, result, todo, list>>
  BY <1>5, WalksDone DEF Goto
<1> QED BY <1>3, <1>4, <1>5 DEF Claim, BegunTo, AdvancedTo

\* The updates ids of one edge, all put into the first slot of a new block.
LEMMA BlockStores ==
  ASSUME Inv, FreeOK, NEW v \in Vertices, NEW n \in Vertices, NEW ids \in Seq(Ids), ids # <<>>,
         \A i, j \in 1..Len(ids) : ids[i] = ids[j] => i = j,
         NEW X, X = {ids[i] : i \in 1..Len(ids)}, Making(X, v, n),
         SlotIn(list, v, n) = NewSlot
  PROVE  \E delta : StoresInto(X, v, n, NewBlock(ids).slot[1], SlotIn(list, v, n), delta)
<1> DEFINE len == Len(ids)
           weights == [i \in DOMAIN ids |-> Upd(ids[i]).weight]
           sum == SumFunctionOnSet(weights, DOMAIN ids)
           s == NewBlock(ids).slot[1]
           M == Made(Dir, v, n)
           e == [i \in 1..len |-> <<ids[i], Way>>]
<1>1. len \in Nat /\ len >= 1 /\ DOMAIN ids = 1..len /\ \A i \in 1..len : ids[i] \in X /\ ids[i] \in Ids
  OBVIOUS
<1>2. /\ input \in Cases /\ \A x \in X : Neighbor(x) = n
      /\ EndsOf(X) \subseteq Stores(Dir, v, n) /\ \A x \in EndsOf(X) : x \notin M
      /\ M \subseteq Stores(Dir, v, n) /\ IsFiniteSet(M)
      /\ \A x \in Stores(Dir, v, n) : Weights[x] = Upd(x[1]).weight /\ Weights[x] \in Int
  <2>1. input \in Cases /\ pass \in 1..Len(Passes)
    BY DEF Making, Inv, Types
  <2>2. ASSUME NEW x \in X
        PROVE  /\ <<x, Way>> \in Stores(Dir, v, n) /\ <<x, Way>> \notin M /\ Neighbor(x) = n
    <3>1. /\ x \in Ids /\ Neighbor(x) = n /\ Upd(x).result = 0 /\ Source(x) = v
          /\ result[x] = PENDING /\ x \in Half(Passes[pass].half)
      BY DEF Making
    <3>2. <<x, Way>> \in Stores(Dir, v, n)
      BY <2>1, <3>1, StoresIs
    <3>3. Dir \in Ends /\ Way \in Ways
      BY <2>1, PassFacts DEF Dir, Ends, Way, Ways
    <3>4. Turn(Dir, <<x, Way>>) = pass
      BY <2>1, <3>1, <3>3, TurnIs
    <3>5. ~(Turn(Dir, <<x, Way>>) < pass) /\ ~Settled(x)
      BY <2>1, <3>1, <3>4, PassFacts DEF Settled, PENDING, ADDED, UPDATED
    <3> QED BY <3>1, <3>2, <3>5 DEF Made
  <2>3. EndsOf(X) \subseteq Stores(Dir, v, n) /\ \A x \in EndsOf(X) : x \notin M
    BY <2>2 DEF EndsOf
  <2>4. /\ M \subseteq Stores(Dir, v, n) /\ IsFiniteSet(M)
        /\ \A x \in Stores(Dir, v, n) : Weights[x] = Upd(x[1]).weight /\ Weights[x] \in Int
    BY <2>1, StoresType
  <2> QED BY <2>1, <2>2, <2>3, <2>4
<1>3. /\ \A i \in 1..len : /\ e[i] = <<ids[i], Way>> /\ e[i] \in EndsOf(X) /\ e[i] \notin M
                           /\ Weights[e[i]] \in Int /\ weights[i] = Weights[e[i]]
      /\ \A i, j \in 1..len : e[i] = e[j] => i = j
      /\ EndsOf(X) = {e[i] : i \in 1..len}
  <2>1. \A i \in 1..len : e[i] = <<ids[i], Way>> /\ e[i] \in EndsOf(X)
    BY <1>1 DEF EndsOf
  <2>2. ASSUME NEW i \in 1..len
        PROVE  e[i] \notin M /\ Weights[e[i]] \in Int /\ weights[i] = Weights[e[i]]
    <3>1. e[i] \in Stores(Dir, v, n) /\ e[i] \notin M /\ e[i][1] = ids[i]
      BY <1>2, <2>1
    <3>2. weights[i] = Upd(ids[i]).weight
      BY <1>1
    <3> HIDE DEF weights, e, M
    <3> QED BY <1>2, <3>1, <3>2
  <2>3. \A i, j \in 1..len : e[i] = e[j] => ids[i] = ids[j]
    BY <2>1
  <2>4. EndsOf(X) = {e[i] : i \in 1..len}
    BY <1>1, <2>1 DEF EndsOf
  <2> HIDE DEF e, weights, M
  <2> QED BY <2>1, <2>2, <2>3, <2>4
<1>4. Total(M \cup EndsOf(X)) = Total(M) + sum
  <2> HIDE DEF M, e, weights, len
  <2>1. PICK D : D = M
    OBVIOUS
  <2>2. PICK g : g = Weights
    OBVIOUS
  <2>3. PICK w : w = weights
    OBVIOUS
  <2>4. PICK a : a = e
    OBVIOUS
  <2>5. PICK k : k = len
    OBVIOUS
  <2>6. Row(D, g, k, a, w)
    BY <1>1, <1>2, <1>3, <2>1, <2>2, <2>3, <2>4, <2>5 DEF Row
  <2>7. SumFunctionOnSet(g, D \cup RowSet(a, k)) =
          SumFunctionOnSet(g, D) + SumFunctionOnSet(w, 1..k)
    BY <2>6, SumRow
  <2>8. RowSet(a, k) = EndsOf(X)
    BY <1>3, <2>4, <2>5 DEF RowSet
  <2>9. SumFunctionOnSet(w, 1..k) = sum
    BY <1>1, <2>3, <2>5
  <2> QED BY <2>1, <2>2, <2>7, <2>8, <2>9 DEF Total
<1>5. sum \in Int
  <2>1. IsFiniteSet(1..len)
    BY <1>1, FS_Interval
  <2>2. \A i \in 1..len : weights[i] \in Int
    BY <1>3
  <2> HIDE DEF weights, len
  <2>3. PICK w : w = weights
    OBVIOUS
  <2>4. SumFunctionOnSet(w, 1..len) \in Int
    BY <2>1, <2>2, <2>3, SumInt
  <2> QED BY <1>1, <2>3, <2>4
<1>6. /\ s.neighbor = n /\ s.dirs = {} \cup {Dir}
      /\ Dir = "OUT" /\ input.operation = "SET" => s.weight = Upd(ids[len]).weight
      /\ Dir = "OUT" /\ input.operation # "SET" => s.weight = sum
      /\ Dir = "IN" => s.weight = 0
  <2>1. Neighbor(ids[1]) = n /\ weights[Len(ids)] = Upd(ids[len]).weight
    BY <1>1, <1>2
  <2>2. s = Written(NewSlot, Neighbor(ids[1]), Dir,
                    IF input.operation = "SET" THEN weights[Len(ids)] ELSE sum,
                    Upd(ids[Len(ids)]).ts)
    <3> HIDE DEF weights, sum
    <3>1. EmptyBlock.slot = [k \in 1..EBSize |-> NewSlot] /\ 1 \in 1..EBSize
      BY Sizes DEF EmptyBlock
    <3> QED BY <3>1 DEF NewBlock, weights, sum
  <2> HIDE DEF weights, sum, s
  <2> QED BY <2>1, <2>2 DEF Written, NewSlot
<1>7. /\ NewSlot.dirs = {} /\ NewSlot.weight = 0 /\ NewSlot.neighbor = Blank
      /\ input.operation \in {"SET", "INCR"} /\ ids[len] \in X
  <2>1. input.operation \in {"SET", "INCR"}
    BY <1>2, BatchInsertAssumption DEF Operations
  <2>2. len \in 1..len
    BY <1>1
  <2> HIDE DEF len
  <2> QED BY <1>1, <2>1, <2>2 DEF NewSlot
<1> HIDE DEF s, sum, M, len
<1>8. sum = 0 + sum
  BY <1>5
<1>9. WasFree(0, v)
  BY DEF WasFree
<1>10. StoresInto(X, v, n, s, NewSlot, sum)
  BY <1>4, <1>5, <1>6, <1>7, <1>8, <1>9 DEF StoresInto, M
<1> QED BY <1>10 DEF s

\* A new block with one neighbour, in its first slot.
LEMMA BlockReplaced ==
  ASSUME NEW g, ListType(g), NEW v \in Vertices, NEW ids, NEW h,
         h = WithBlock(g, v, NewBlock(ids))
  PROVE  /\ Replaced(g, h, v, <<Len(g[v]) + 1, 1>>, Neighbor(ids[1]))
         /\ <<Len(g[v]) + 1, 1>> \notin Places(g, v)
         /\ At(h, v, <<Len(g[v]) + 1, 1>>) = NewBlock(ids).slot[1]
<1> DEFINE block == NewBlock(ids)
           len == Len(g[v])
           R == {g[v][i] : i \in DOMAIN g[v]}
<1>1. /\ len \in Nat /\ DOMAIN g[v] = 1..len /\ g[v] \in Seq(R) /\ DOMAIN g = Vertices
      /\ Places(g, v) = (1..len) \X (1..EBSize) /\ EBSize \in Nat /\ 1 \in 1..EBSize
  <2>1. g[v] \in Seq(R) /\ DOMAIN g = Vertices
    BY DEF ListType
  <2>2. len \in Nat /\ DOMAIN g[v] = 1..len /\ Places(g, v) = (1..len) \X (1..EBSize)
    BY ListFacts
  <2>3. EBSize \in Nat /\ 1 \in 1..EBSize
    BY Sizes
  <2> QED BY <2>1, <2>2, <2>3
<1>2. block.slot[1].neighbor = Neighbor(ids[1]) /\ \A k \in 2..EBSize : block.slot[k] = NewSlot
  BY <1>1 DEF NewBlock, EmptyBlock, Written
<1> HIDE DEF block
<1>3. h[v] = Append(g[v], block) /\ \A w \in Vertices \ {v} : h[w] = g[w]
  BY <1>1 DEF WithBlock, block
<1>4. /\ DOMAIN h[v] = 1..len + 1 /\ h[v][len + 1] = block
      /\ \A i \in 1..len : h[v][i] = g[v][i]
  <2> HIDE DEF R
  <2>1. g[v] \in Seq(R \cup {block})
    BY <1>1
  <2> QED BY <1>3, <2>1
<1>5. Places(h, v) = (1..len + 1) \X (1..EBSize)
  BY <1>4 DEF Places
<1> HIDE DEF len
<1>6. /\ Places(g, v) \subseteq Places(h, v) /\ <<len + 1, 1>> \in Places(h, v)
      /\ <<len + 1, 1>> \notin Places(g, v)
  BY <1>1, <1>5
<1>7. \A q \in Places(g, v) : At(h, v, q) = At(g, v, q)
  <2> SUFFICES ASSUME NEW q \in Places(g, v) PROVE At(h, v, q) = At(g, v, q)
    OBVIOUS
  <2>1. q[1] \in 1..len
    BY <1>1
  <2> QED BY <1>4, <2>1 DEF At
<1>8. At(h, v, <<len + 1, 1>>) = block.slot[1]
  BY <1>4 DEF At
<1>9. ASSUME NEW q \in Places(h, v), q \notin Places(g, v), q # <<len + 1, 1>>
      PROVE  At(h, v, q) = NewSlot
  <2>1. q = <<q[1], q[2]>> /\ q[1] = len + 1 /\ q[2] \in 1..EBSize /\ q[2] # 1
    BY <1>1, <1>5, <1>9
  <2>2. q[2] \in 2..EBSize
    BY <1>1, <2>1
  <2> QED BY <1>2, <1>4, <2>1, <2>2 DEF At
<1>10. Nb(h, v, <<len + 1, 1>>) = Neighbor(ids[1])
  BY <1>2, <1>8 DEF Nb
<1> QED BY <1>3, <1>6, <1>7, <1>8, <1>9, <1>10 DEF Replaced, len, block

LEMMA GrowDone ==
  ASSUME Inv, DoneOK, HandOK, Inv', NEW t \in Threads, Grow(t)
  PROVE  DoneOK' /\ HandOK'
<1> DEFINE f == frame[t]
           u == NextUpdate(t, result)
           run == RunFrom(t, u)
           ids == SubSeq(order, u, Max(run))
           v == f.v
           X == {order[i] : i \in run}
<1>1. /\ pc[t] = "grow" /\ pc' = [pc EXCEPT ![t] = "seek_block"]
      /\ input' = input /\ pass' = pass /\ order' = order /\ todo' = todo /\ frame' = frame
  BY DEF Grow, Goto
<1>2. /\ ListType(list) /\ f \in FrameType /\ Blocks(t) = list[v] /\ v \in Vertices
      /\ frame' = [frame EXCEPT ![t] = f]
  BY <1>1, Ranged, Cursor DEF Inv, Types
<1>3. CASE ~(f.tmp = Len(Blocks(t)))
  <2>1. UNCHANGED <<input, pass, order, result, list>>
    BY <1>1, <1>3 DEF Grow
  <2> HIDE DEF f
  <2> QED BY <1>1, <1>2, <2>1, WalksDone
<1>4. CASE f.tmp = Len(Blocks(t))
  <2>1. /\ list' = WithBlock(list, v, NewBlock(ids))
        /\ result' = [x \in Ids |-> IF x = order[u] THEN ADDED
                                    ELSE IF \E i \in run : order[i] = x THEN UPDATED
                                    ELSE result[x]]
    BY <1>4 DEF Grow, WithBlock, RunFrom
  <2>2. /\ u \in Span("grow", f) /\ u \in Pend /\ run \subseteq Span("grow", f) /\ u \in run
        /\ \A i \in run : Nbr[i] = Nbr[u] /\ (u \in Due => i \in Due)
        /\ Max(run) \in run /\ u <= Max(run) /\ Max(run) \in DOMAIN order
        /\ run = u..Max(run)
    <3> HIDE DEF run, u
    <3>1. u = NextUpdate(t, result) /\ run = RunFrom(t, u)
      BY DEF u, run
    <3> HIDE DEF f
    <3>2. PICK a, r : a = u /\ r = run
      OBVIOUS
    <3>3. a = NextUpdate(t, result) /\ r = RunFrom(t, a)
      BY <3>1, <3>2
    <3>4. /\ a \in Span("grow", frame[t]) /\ a \in Pend
          /\ r \subseteq Span("grow", frame[t]) /\ a \in r
          /\ \A i \in r : Nbr[i] = Nbr[a] /\ (a \in Due => i \in Due)
          /\ Max(r) \in r /\ a <= Max(r) /\ Max(r) \in DOMAIN order
          /\ r = a..Max(r)
      BY <1>1, <3>3, RunIs
    <3> QED BY <3>2, <3>4 DEF f
  <2>3. /\ \A i \in Span("grow", f) : /\ i \in DOMAIN order /\ i \in Nat /\ i >= 1 /\ order[i] \in Ids
                                      /\ Nbr[i] = Neighbor(order[i]) /\ Source(order[i]) = v
        /\ order \in Seq(Ids) /\ result \in [Ids -> Codes]
        /\ \A i, j \in DOMAIN order : order[i] = order[j] => i = j
        /\ \A i \in DOMAIN order : order[i] \in Half(Passes[pass].half)
        /\ Len(order) \in Nat /\ DOMAIN order = 1..Len(order)
        /\ pass \in 1..Len(Passes)
    <3>1. /\ \A i \in Span("grow", f) : /\ i \in DOMAIN order /\ i \in Nat /\ i >= 1
                                        /\ order[i] \in Ids
                                        /\ Nbr[i] = Neighbor(order[i]) /\ Source(order[i]) = v
      BY <1>1, Ranged, OrderTypes DEF Inv
    <3>2. /\ order \in Seq(Ids) /\ result \in [Ids -> Codes]
          /\ \A i, j \in DOMAIN order : order[i] = order[j] => i = j
          /\ Len(order) \in Nat /\ DOMAIN order = 1..Len(order)
      BY OrderTypes DEF Inv, Types, OrderOK
    <3>3. pass # 0 /\ pass \in 0..Len(Passes) /\ input \in Cases
      BY <2>2, <3>1 DEF Inv, Types, OrderOK
    <3>4. Len(Passes) \in Nat
      BY <3>3, PassFacts
    <3>5. pass \in 1..Len(Passes) /\ pass > 0
      BY <3>3, <3>4
    <3>6. \A i \in DOMAIN order : order[i] \in Half(Passes[pass].half)
      BY <3>5 DEF Inv, OrderOK
    <3> QED BY <3>1, <3>2, <3>5, <3>6
  <2> HIDE DEF run, u, f, ids
  <2>4. /\ ids \in Seq(Ids) /\ Len(ids) = Max(run) - u + 1 /\ ids # <<>>
        /\ Len(ids) \in Nat /\ Len(ids) >= 1
        /\ \A i \in 1..Len(ids) : ids[i] = order[u + i - 1] /\ u + i - 1 \in run
    <3>1. u \in 1..Len(order) /\ Max(run) \in 1..Len(order) /\ u <= Max(run)
      BY <2>2, <2>3
    <3>2. PICK m : m = Max(run)
      OBVIOUS
    <3>3. /\ m \in Nat /\ u \in Nat /\ u >= 1 /\ m - u + 1 \in Nat /\ m - u + 1 >= 1
      BY <3>1, <3>2
    <3>4. ids = SubSeq(order, u, m)
      BY <3>2 DEF ids
    <3>5. ids \in Seq(Ids) /\ Len(ids) = m - u + 1
      BY <2>3, <3>1, <3>2, <3>3, <3>4
    <3>6. ASSUME NEW i \in 1..m - u + 1 PROVE ids[i] = order[u + i - 1] /\ u + i - 1 \in u..m
      BY <2>3, <3>1, <3>2, <3>3, <3>4
    <3> QED BY <2>2, <3>2, <3>3, <3>5, <3>6
  <2>5. /\ \A i, j \in 1..Len(ids) : ids[i] = ids[j] => i = j
        /\ X = {ids[i] : i \in 1..Len(ids)} /\ ids[1] = order[u]
    <3>1. ASSUME NEW i \in 1..Len(ids), NEW j \in 1..Len(ids), ids[i] = ids[j] PROVE i = j
      <4>1. /\ u + i - 1 \in DOMAIN order /\ u + j - 1 \in DOMAIN order
            /\ order[u + i - 1] = order[u + j - 1]
        BY <2>2, <2>3, <2>4, <3>1
      <4>2. u + i - 1 = u + j - 1 /\ u \in Nat
        BY <2>2, <2>3, <4>1
      <4> QED BY <2>4, <4>2
    <3>2. ASSUME NEW i \in run PROVE \E j \in 1..Len(ids) : ids[j] = order[i]
      <4>1. i \in Nat /\ u \in Nat /\ u <= i /\ i <= Max(run) /\ Max(run) \in Nat
        BY <2>2, <2>3
      <4>2. PICK j : j = i - u + 1
        OBVIOUS
      <4>3. j \in 1..Len(ids) /\ u + j - 1 = i
        BY <2>4, <4>1, <4>2
      <4> QED BY <2>4, <4>3
    <3>3. 1 \in 1..Len(ids) /\ u + 1 - 1 = u
      BY <2>2, <2>3, <2>4
    <3>4. ids[1] = order[u]
      BY <2>4, <3>3
    <3>5. ASSUME NEW i \in 1..Len(ids) PROVE ids[i] \in X
      BY <2>4, <3>5
    <3>6. ASSUME NEW x \in X PROVE \E j \in 1..Len(ids) : x = ids[j]
      <4>1. PICK i \in run : x = order[i]
        BY <3>6
      <4> QED BY <3>2, <4>1
    <3>7. X = {ids[i] : i \in 1..Len(ids)}
      <4> HIDE DEF X
      <4> QED BY <3>5, <3>6
    <3> QED BY <3>1, <3>4, <3>7
  <2>6. u \in run /\ order[u] \in X /\ X # {} /\ Nbr[u] = Neighbor(order[u]) /\ Nbr[u] \in Vertices
    <3>1. u \in DOMAIN order
      BY <2>2, <2>3
    <3> QED BY <2>2, <2>3, <3>1, OrderTypes DEF Inv
  <2>16. ASSUME NEW x \in Ids, x \notin X PROVE result'[x] = result[x]
    <3>1. x # order[u] /\ ~\E i \in run : order[i] = x
      BY <2>6, <2>16
    <3> QED BY <2>1, <3>1
  <2>17. ASSUME ~Pure(order[u]), NEW x \in X PROVE ~Pure(x)
    <3>1. PICK i \in run : x = order[i]
      BY <2>17
    <3>2. /\ order[i] \in Ids /\ Source(order[i]) = v /\ Neighbor(order[i]) = Nbr[u]
          /\ order[u] \in Ids /\ Source(order[u]) = v /\ Neighbor(order[u]) = Nbr[u]
      BY <2>2, <2>3
    <3> QED BY <2>17, <3>1, <3>2, UpdateTypes DEF Inv, Types
  <2>18. Pure(order[u]) <=> Unmixed(v, Nbr[u])
    <3>1. order[u] \in Ids /\ Source(order[u]) = v /\ Neighbor(order[u]) = Nbr[u]
      BY <2>2, <2>3
    <3> QED BY <3>1, UpdateTypes DEF Inv, Types
  <2>7. ASSUME Pure(order[u]) PROVE Making(X, v, Nbr[u])
    <3>1. ASSUME NEW i \in run
          PROVE  /\ order[i] \in Half(Passes[pass].half) /\ order[i] \in Ids
                 /\ Source(order[i]) = v /\ Neighbor(order[i]) = Nbr[u]
                 /\ Upd(order[i]).result = 0 /\ result[order[i]] = PENDING
                 /\ result'[order[i]] \in {ADDED, UPDATED}
      <4>1. /\ i \in DOMAIN order /\ order[i] \in Ids /\ result[order[i]] = PENDING
            /\ Source(order[i]) = v /\ Neighbor(order[i]) = Nbr[u]
            /\ order[i] \in Half(Passes[pass].half)
        <5>1. u \in Due
          BY <2>2, <2>7 DEF Due
        <5>2. i \in Due
          BY <2>2, <5>1
        <5> QED BY <2>2, <2>3, <5>2 DEF Due, Pend
      <4>2. Upd(order[i]).result = 0
        <5>3. /\ order[u] \in Ids /\ Source(order[u]) = v /\ Neighbor(order[u]) = Nbr[u]
              /\ input \in Cases
          BY <2>2, <2>3 DEF Inv, Types
        <5>1. Pure(order[i])
          BY <4>1, <2>7, <5>3, UpdateTypes
        <5>2. result[order[i]] \in {-1, 1} <=> Upd(order[i]).result # 0
          BY <4>1, <5>1 DEF Inv, ResultsOK
        <5> QED BY <4>1, <5>2 DEF PENDING
      <4>3. result'[order[i]] \in {ADDED, UPDATED}
        BY <2>1, <4>1
      <4> QED BY <4>1, <4>2, <4>3
    <3>2. \A x \in Ids : x \notin X => result'[x] = result[x]
      BY <2>16
    <3> QED BY <2>3, <3>1, <3>2 DEF Making
  <2> DEFINE p == <<Len(list[v]) + 1, 1>>
             s == NewBlock(ids).slot[1]
             n == Nbr[u]
  <2>8. Replaced(list, list', v, p, n) /\ p \notin Places(list, v) /\ At(list', v, p) = s
    <3>1. Neighbor(ids[1]) = n
      BY <2>5, <2>6
    <3> HIDE DEF v
    <3> QED BY <1>2, <2>1, <3>1, BlockReplaced
  <2>9. Unique(list) /\ Unique(list')
    <3>1. UniqueNeighbor /\ UniqueNeighbor'
      BY DEF Inv
    <3>2. \A w, m : Unmixed(w, m)' <=> Unmixed(w, m)
      BY <1>1, SameOrder
    <3> QED BY <3>1, <3>2 DEF UniqueNeighbor, Unique
  <2>10. /\ v \in Vertices /\ n \in Vertices /\ X # {} /\ Dir \in Ends /\ result'[order[u]] = ADDED
         /\ order[u] \in X /\ input \in Cases
    <3>1. result'[order[u]] = ADDED
      BY <2>1, <2>2, <2>3
    <3>2. input \in Cases
      BY DEF Inv, Types
    <3> QED BY <1>2, <2>3, <2>6, <3>1, <3>2, PassFacts DEF Dir, Ends
  <2>19. \A x \in X : x # order[u] => result'[x] = UPDATED
    <3> SUFFICES ASSUME NEW i \in run, order[i] # order[u] PROVE result'[order[i]] = UPDATED
      OBVIOUS
    <3>1. order[i] \in Ids
      BY <2>2, <2>3
    <3> QED BY <2>1, <3>1
  <2>20. /\ Unmixed(v, n) <=> Pure(order[u])
         /\ Pure(order[u]) => Making(X, v, n)
         /\ \A x \in Ids : x \notin X => result'[x] = result[x]
         /\ ~Pure(order[u]) => \A x \in X : ~Pure(x)
    BY <2>7, <2>16, <2>17, <2>18
  <2> HIDE DEF p, s, n, X, v
  <2>11. ASSUME ~Unmixed(v, n) PROVE DoneOK' /\ Grows(list, list')
    <3>1. SlotsKept(list, list', v, n) /\ FreeKept(list, list')
      BY <2>8, <2>9, <2>10, ReplacedSlot
    <3>2. \A x \in Ids : Pure(x) => result'[x] = result[x]
      BY <2>11, <2>20
    <3> QED BY <1>1, <2>10, <2>11, <3>1, <3>2, MixedStep
  <2>12. ASSUME Unmixed(v, n) PROVE DoneOK' /\ Grows(list, list')
    <3>1. SlotChange(list, list', v, n, s) /\ SlotIn(list, v, n) = NewSlot
      <4>1. Unmixed(v, n) =>
              /\ SlotChange(list, list', v, n, At(list', v, p))
              /\ (p \in Places(list, v) /\ Nb(list, v, p) = n) => SlotIn(list, v, n) = At(list, v, p)
              /\ ~(p \in Places(list, v) /\ Nb(list, v, p) = n) => SlotIn(list, v, n) = NewSlot
        BY <2>8, <2>9, <2>10, ReplacedSlot
      <4> QED BY <2>8, <2>12, <4>1
    <3>2. Making(X, v, n)
      BY <2>12, <2>20
    <3>3. PICK delta : StoresInto(X, v, n, s, SlotIn(list, v, n), delta)
      <4>1. FreeOK
        BY DEF DoneOK, SlotsOK
      <4>2. PICK a : a = ids
        OBVIOUS
      <4>3. /\ a \in Seq(Ids) /\ a # <<>> /\ \A i, j \in 1..Len(a) : a[i] = a[j] => i = j
            /\ X = {a[i] : i \in 1..Len(a)}
        BY <2>4, <2>5, <4>2
      <4>4. \E delta : StoresInto(X, v, n, NewBlock(a).slot[1], SlotIn(list, v, n), delta)
        BY <2>10, <3>1, <3>2, <4>1, <4>3, BlockStores
      <4> QED BY <4>2, <4>4 DEF s
    <3>4. Telling(X, v, n)
      <4>1. Dir \notin SlotIn(list, v, n).dirs
        BY <3>1 DEF NewSlot
      <4>2. Dir \notin SlotIn(input.list, v, n).dirs /\ Made(Dir, v, n) = {}
        BY <2>10, <2>12, <4>1 DEF DoneOK, SlotsOK, DirsOK
      <4>3. \A x \in X : result'[x] = ADDED => x = order[u]
        BY <2>19 DEF ADDED, UPDATED
      <4> QED BY <2>10, <4>2, <4>3 DEF Telling
    <3> QED BY <1>1, <2>10, <2>12, <3>1, <3>2, <3>3, <3>4, DoneStep
  <2>13. DoneOK' /\ Grows(list, list')
    BY <2>11, <2>12
  <2>14. Knows("seek_block", f, list')
    BY DEF Knows
  <2> QED BY <1>1, <1>2, <2>13, <2>14, HandStep
<1> QED BY <1>3, <1>4

-----------------------------------------------------------------------------
(* A new pass: what is made does not change, what is cleared is in a half  *)
(* whose updates of an edge are all in it.                                 *)

LEMMA TurnAt ==
  ASSUME input \in Cases, NEW p \in 1..Len(Passes), NEW x \in Ids, NEW way \in Ways, NEW d \in Ends
  PROVE  /\ Turn(d, <<x, way>>) \in 1..8
         /\ Turn(d, <<x, way>>) = p => x \in Half(Passes[p].half)
<1>1. p \in 1..8 /\ Passes[p].half = IF p \in {1, 2, 5, 6} THEN "up" ELSE "down"
  <2>1. Len(Passes) \in {4, 8}
    BY PassFacts
  <2> QED BY <2>1, PassFacts
<1>2. x \in Half("down") <=> x \notin Half("up")
  BY HalfIs
<1>3. Turn(d, <<x, way>>) =
        (IF way = "back" THEN 4 ELSE 0) +
        (IF x \in Half("up") THEN IF d = "OUT" THEN 1 ELSE 2 ELSE IF d = "IN" THEN 3 ELSE 4)
  BY DEF Turn
<1>4. (way = "forth" \/ way = "back") /\ (d = "OUT" \/ d = "IN")
  BY DEF Ways, Ends
<1> QED BY <1>1, <1>2, <1>3, <1>4

LEMMA SameSlots ==
  ASSUME SlotsOK, input' = input, list' = list,
         \A v, n \in Vertices : Unmixed(v, n) => \A d \in Ends : Made(d, v, n)' = Made(d, v, n)
  PROVE  SlotsOK'
<1>1. \A v, n, w, D : WeightOK(v, n, w, D)' <=> WeightOK(v, n, w, D)
  BY SameBatch, SameReports DEF WeightOK
<1>2. \A w, v : WasFree(w, v)' <=> WasFree(w, v)
  BY DEF WasFree
<1>3. DirsOK /\ KeptOK /\ FreeOK /\ WeightsOK /\ "OUT" \in Ends
  BY DEF SlotsOK, Ends
<1>4. DirsOK' /\ KeptOK'
  BY <1>3, SameReports DEF DirsOK, KeptOK
<1>5. FreeOK'
  BY <1>2, <1>3 DEF FreeOK
<1>6. WeightsOK'
  <2> SUFFICES ASSUME NEW v \in Vertices, NEW n \in Vertices, Unmixed(v, n),
                      SlotIn(list, v, n).neighbor # Blank
               PROVE  WeightOK(v, n, SlotIn(list, v, n).weight, Made("OUT", v, n)')
    BY <1>1, SameReports DEF WeightsOK
  <2> QED BY <1>3 DEF WeightsOK
<1> QED BY <1>4, <1>5, <1>6 DEF SlotsOK

\* The order of a pass holds all of its half.
LEMMA SortedHalf ==
  ASSUME input \in Cases, NEW p, NEW s \in Sorted(p), NEW x \in Half(Passes[p].half)
  PROVE  \E i \in DOMAIN s : s[i] = x
<1> DEFINE H == Half(Passes[p].half)
           n == Cardinality(H)
<1>1. IsFiniteSet(H) /\ n \in Nat
  <2>1. Ids = 1..Len(input.batch) /\ Len(input.batch) \in Nat
    BY UpdateTypes
  <2>2. IsFiniteSet(Ids)
    BY <2>1, FS_Interval
  <2>3. H \subseteq Ids
    BY DEF Half
  <2> QED BY <2>2, <2>3, FS_Subset, FS_CardinalityType
<1>2. s \in [1..n -> H] /\ \A i, j \in 1..n : i # j => s[i] # s[j]
  BY DEF Sorted, SetToSeqs
<1>3. Cardinality(1..n) = n
  <2>1. n \in Int /\ 1 \in Int /\ (IF 1 > n THEN 0 ELSE n - 1 + 1) = n
    BY <1>1
  <2> HIDE DEF n
  <2>2. Cardinality(1..n) = IF 1 > n THEN 0 ELSE n - 1 + 1
    BY <2>1, FS_Interval
  <2> QED BY <2>1, <2>2
<1> HIDE DEF H, n
<1>4. s \in Injection(1..n, H)
  BY <1>2 DEF Injection, IsInjective
<1>5. s \in Surjection(1..n, H)
  <2>1. Cardinality(1..n) = Cardinality(H)
    BY <1>3 DEF n
  <2>2. PICK S : S = 1..n
    OBVIOUS
  <2>3. s \in Injection(S, H) /\ Cardinality(S) = Cardinality(H)
    BY <1>4, <2>1, <2>2
  <2>4. s \in Surjection(S, H)
    BY <1>1, <2>3, FS_Injection
  <2> QED BY <2>2, <2>4
<1>6. x \in H /\ DOMAIN s = 1..n
  BY <1>2 DEF H
<1> QED BY <1>5, <1>6 DEF Surjection

\* Where a pass begins, its half is settled no more; of an edge all is cleared.
LEMMA ClearedThen ==
  ASSUME Inv, BeginPass
  PROVE  /\ \A x \in Ids : result'[x] = result[x] \/ (Settled(x) /\ result'[x] = PENDING)
         /\ input.directed => \A x, y \in Ids :
              SameEdge(x, y) /\ Settled(x)' => result'[x] = result[x] /\ result'[y] = result[y]
         /\ pass' = 3 => \A x \in Ids : result'[x] = result[x]
         /\ pass' = 4 => \A x \in Half("up") : result'[x] = result[x]
<1>1. /\ input \in Cases /\ pass' \in 1..Len(Passes)
      /\ result' = Clear(Cleared(pass')) /\ result \in [Ids -> Codes]
  BY PendingAgain DEF BeginPass, Inv, Types
<1>2. PICK p : p = pass'
  OBVIOUS
<1>3. /\ p \in 1..8 /\ (input.directed => p \in 1..4)
      /\ Passes[p].half = IF p \in {1, 2, 5, 6} THEN "up" ELSE "down"
  <2>1. Len(Passes) \in {4, 8} /\ (input.directed => Len(Passes) = 4)
    BY <1>1, PassFacts
  <2> QED BY <1>1, <1>2, <2>1, PassFacts
<1>4. \A x \in Ids : result'[x] = IF x \in Cleared(p) /\ Settled(x) THEN PENDING ELSE result[x]
  BY <1>1, <1>2 DEF Clear, Settled
<1>5. Cleared(p) = IF p = 5 THEN Ids ELSE IF p \in {2, 4, 6, 8} THEN Half(Passes[p].half) ELSE {}
  <2>1. p % 2 = 0 <=> p \in {2, 4, 6, 8}
    <3>1. /\ 1 % 2 = 1 /\ 2 % 2 = 0 /\ 3 % 2 = 1 /\ 4 % 2 = 0
          /\ 5 % 2 = 1 /\ 6 % 2 = 0 /\ 7 % 2 = 1 /\ 8 % 2 = 0
      OBVIOUS
    <3>2. p \in {1, 2, 3, 4, 5, 6, 7, 8}
      BY <1>3
    <3> QED BY <3>1, <3>2
  <2> QED BY <2>1 DEF Cleared
<1>6. \A x \in Ids : result'[x] = result[x] \/ (Settled(x) /\ result'[x] = PENDING)
  BY <1>4
<1>7. ASSUME input.directed, NEW x \in Ids, NEW y \in Ids, SameEdge(x, y), Settled(x)'
      PROVE  result'[x] = result[x] /\ result'[y] = result[y]
  <2>1. result'[x] # PENDING
    BY <1>7 DEF Settled, PENDING, ADDED, UPDATED
  <2>2. result'[x] = result[x] /\ x \notin Cleared(p)
    <3>1. result'[x] = result[x]
      BY <1>6, <2>1
    <3>2. Settled(x)
      BY <1>7, <3>1 DEF Settled
    <3> QED BY <1>4, <2>1, <3>1, <3>2
  <2>3. \A h : x \in Half(h) <=> y \in Half(h)
    BY <1>7 DEF Half, SameEdge
  <2>4. y \notin Cleared(p)
    BY <1>3, <1>5, <1>7, <2>2, <2>3
  <2> QED BY <1>4, <2>2, <2>4
<1>8. ASSUME p = 3 PROVE \A x \in Ids : result'[x] = result[x]
  BY <1>4, <1>5, <1>8
<1>9. ASSUME p = 4, NEW x \in Half("up") PROVE result'[x] = result[x]
  <2>1. x \in Ids /\ x \notin Half("down")
    BY <1>9, HalfIs DEF Half
  <2> QED BY <1>3, <1>4, <1>5, <1>9, <2>1
<1> QED BY <1>2, <1>6, <1>7, <1>8, <1>9

\* When a pass is over, what was pending of its half is settled.
LEMMA SettledThen ==
  ASSUME Inv, DoneOK, AllIdle, pass > 0, NEW x \in Half(Passes[pass].half), Pure(x),
         Upd(x).result = 0
  PROVE  Settled(x)
<1>1. PICK i \in DOMAIN order : order[i] = x
  BY DEF DoneOK, PassedOK
<1>2. result[x] # PENDING
  BY <1>1, InvImplies DEF ListsOK, AssertsHold
<1>3. x \in Ids
  BY DEF Half
<1>4. result[x] \in Codes /\ result[x] \notin {-1, 1}
  BY <1>3 DEF Inv, Types, ResultsOK
<1> QED BY <1>2, <1>4 DEF Codes, Settled, PENDING

LEMMA MadeSame ==
  ASSUME Inv, DoneOK, BeginPass, NEW d \in Ends, NEW v \in Vertices, NEW n \in Vertices,
         Unmixed(v, n)
  PROVE  Made(d, v, n)' = Made(d, v, n)
<1>1. /\ input \in Cases /\ input' = input /\ AllIdle /\ pass' = pass + 1
      /\ pass \in 0..Len(Passes) /\ pass' \in 1..Len(Passes)
      /\ \A x \in Half(Passes[pass'].half) :
           Pure(x) => (result'[x] = PENDING <=> Upd(x).result = 0)
  BY PendingAgain DEF BeginPass, Inv, Types
<1>2. pass \in Nat
  <2>1. Len(Passes) \in {4, 8}
    BY <1>1, PassFacts
  <2> QED BY <1>1, <2>1
<1>3. PICK p : p = pass'
  OBVIOUS
<1>4. Made(d, v, n)' =
        {x \in Stores(d, v, n) : Turn(d, x) < p \/ (Turn(d, x) = p /\ Settled(x[1])')}
  BY <1>1, <1>3, SameBatch DEF Made
<1>5. ASSUME NEW x \in Stores(d, v, n) PROVE x \in Made(d, v, n)' <=> x \in Made(d, v, n)
  <2>1. x = <<x[1], x[2]>> /\ x[1] \in Ids /\ x[2] \in Ways /\ Upd(x[1]).result = 0 /\ Pure(x[1])
    BY <1>1, StoresType, StoresPure
  <2>2. Turn(d, x) \in 1..8
    BY <1>1, <2>1, TurnAt
  <2>3. CASE Turn(d, x) = pass
    <3>1. pass > 0 /\ pass \in 1..Len(Passes)
      BY <1>1, <1>2, <2>2, <2>3
    <3>2. x[1] \in Half(Passes[pass].half)
      BY <1>1, <2>1, <2>3, <3>1, TurnAt
    <3>3. Settled(x[1])
      BY <1>1, <2>1, <3>1, <3>2, SettledThen
    <3>4. Turn(d, x) < p
      BY <1>1, <1>2, <1>3, <2>3
    <3> QED BY <1>4, <2>3, <3>3, <3>4 DEF Made
  <2>4. CASE Turn(d, x) = p
    <3>1. x[1] \in Half(Passes[p].half)
      BY <1>1, <1>3, <2>1, <2>4, TurnAt
    <3>2. ~Settled(x[1])'
      BY <1>1, <1>3, <2>1, <3>1 DEF Settled, PENDING, ADDED, UPDATED
    <3>3. ~(Turn(d, x) < p) /\ ~(Turn(d, x) < pass) /\ Turn(d, x) # pass
      BY <1>1, <1>2, <1>3, <2>4
    <3> QED BY <1>4, <3>2, <3>3 DEF Made
  <2>5. CASE Turn(d, x) # pass /\ Turn(d, x) # p
    <3>1. Turn(d, x) < p <=> Turn(d, x) < pass
      BY <1>1, <1>2, <1>3, <2>2, <2>5
    <3> QED BY <1>4, <2>5, <3>1 DEF Made
  <2> QED BY <2>3, <2>4, <2>5
<1>6. Made(d, v, n) \subseteq Stores(d, v, n) /\ Made(d, v, n)' \subseteq Stores(d, v, n)
  BY <1>4 DEF Made
<1> QED BY <1>5, <1>6

LEMMA BeginPassDone ==
  ASSUME Inv, DoneOK, BeginPass
  PROVE  DoneOK' /\ HandOK'
<1>1. /\ input \in Cases /\ input' = input /\ list' = list /\ pc' = pc /\ AllIdle
      /\ pass' = pass + 1 /\ pass' \in 1..Len(Passes) /\ order' \in Sorted(pass')
      /\ \A t \in Threads : pc[t] = "idle"
  BY PendingAgain DEF BeginPass, Inv, Types, AllIdle
<1>2. SlotsOK'
  <2>1. \A v, n \in Vertices : Unmixed(v, n) => \A d \in Ends : Made(d, v, n)' = Made(d, v, n)
    BY MadeSame
  <2> QED BY <1>1, <2>1, SameSlots DEF DoneOK
<1>3. /\ Ids' = Ids /\ Passes' = Passes /\ (\A h : Half(h)' = Half(h)) /\ \A x : Upd(x)' = Upd(x)
  BY <1>1, SameReports
<1>7. ASSUME input.directed, NEW x \in Ids, Pure(x), Upd(x).result = 0, LastTurn(x)', Settled(x)'
      PROVE  LastTurn(x)
  <2>1. pass' \in 1..4 /\ pass \in Nat /\ pass' = pass + 1
    <3>1. Len(Passes) = 4 /\ pass \in 0..Len(Passes)
      BY <1>1, <1>7, PassFacts DEF Inv, Types
    <3> QED BY <1>1, <3>1
  <2>2. Passes[pass'].half = IF pass' \in {1, 2} THEN "up" ELSE "down"
    BY <1>1, <2>1, PassFacts
  <2>3. x \notin Half(Passes[pass'].half)
    <3> SUFFICES ASSUME x \in Half(Passes[pass'].half) PROVE FALSE
      OBVIOUS
    <3>1. result'[x] = PENDING
      BY <1>7, PendingAgain
    <3> QED BY <1>7, <3>1 DEF Settled, PENDING, ADDED, UPDATED
  <2>4. x \in Half("up") <=> pass' \notin {1, 2}
    BY <2>2, <2>3, HalfIs
  <2>5. pass' >= (IF x \in Half("up") THEN 2 ELSE 4)
    BY <1>3, <1>7 DEF LastTurn
  <2>6. x \in Half("up") /\ pass >= 2
    BY <2>1, <2>4, <2>5
  <2> QED BY <2>6 DEF LastTurn
<1>8. ASSUME input.directed, NEW x \in Ids, NEW y \in Ids, SameEdge(x, y), Settled(x)'
      PROVE  result'[x] = result[x] /\ result'[y] = result[y]
  BY <1>8, ClearedThen
<1>4. ReportsOK'
  <2> SUFFICES ASSUME input.directed, NEW x \in Ids, Pure(x), Upd(x).result = 0, LastTurn(x)',
                      Settled(x)'
               PROVE  Told(x)' <=> ~EndWas(x)
    BY <1>1, SameReports DEF ReportsOK
  <2>1. /\ result'[x] = result[x]
        /\ \A y \in Ids : SameEdge(x, y) => result'[y] = result[y]
    <3>1. SameEdge(x, x)
      BY DEF SameEdge
    <3> QED BY <1>8, <3>1
  <2>2. Settled(x) /\ LastTurn(x)
    BY <1>7, <2>1 DEF Settled
  <2>3. Told(x)' <=> Told(x)
    BY <1>1, <2>1, SameReports DEF Told, Reported
  <2> QED BY <2>2, <2>3 DEF DoneOK, ReportsOK
<1>9. OnceOK'
  <2> SUFFICES ASSUME input.directed, NEW x \in Ids, NEW y \in Ids, Pure(x), LastTurn(x)',
                      ~EndShared(x), SameEdge(x, y), Reported(x)', Reported(y)'
               PROVE  x = y
    BY <1>1, SameReports DEF OnceOK
  <2>1. Upd(x).result = 0 /\ Upd(y).result = 0 /\ Settled(x)'
    BY <1>3 DEF Reported, Settled
  <2>2. LastTurn(x) /\ result'[x] = result[x] /\ result'[y] = result[y]
    BY <1>7, <1>8, <2>1
  <2>3. Reported(x) /\ Reported(y)
    BY <2>1, <2>2 DEF Reported
  <2> QED BY <2>2, <2>3 DEF DoneOK, OnceOK
<1>5. PassedOK'
  <2>1. \A x \in Half(Passes[pass'].half) : \E i \in DOMAIN order' : order'[i] = x
    BY <1>1, SortedHalf
  <2>2. ASSUME pass' \in {3, 4}, NEW x \in Half("up"), Pure(x), Upd(x).result = 0
        PROVE  Settled(x)'
    <3>1. x \in Ids /\ pass \in 0..Len(Passes) /\ Len(Passes) \in {4, 8}
      BY <1>1, PassFacts DEF Half, Inv, Types
    <3>2. Settled(x) /\ result'[x] = result[x]
      <4>1. CASE pass' = 3
        <5>1. pass = 2 /\ pass > 0 /\ 2 \in 1..Len(Passes)
          BY <1>1, <3>1, <4>1
        <5>2. Passes[pass].half = "up"
          BY <1>1, <5>1, PassFacts
        <5>3. Settled(x)
          BY <1>1, <2>2, <5>1, <5>2, SettledThen
        <5> QED BY <3>1, <4>1, <5>3, ClearedThen
      <4>2. CASE pass' = 4
        <5>1. pass = 3
          BY <1>1, <3>1, <4>2
        <5> QED BY <2>2, <4>2, <5>1, ClearedThen DEF DoneOK, PassedOK
      <4> QED BY <2>2, <4>1, <4>2
    <3> QED BY <3>2 DEF Settled
  <2>3. Half(Passes[pass].half)' = Half(Passes[pass'].half)
    BY <1>3
  <2>4. \A x : Pure(x)' <=> Pure(x)
    BY <1>1, SameReports
  <2> QED BY <1>3, <2>1, <2>2, <2>3, <2>4 DEF PassedOK
<1>6. HandOK'
  BY <1>1 DEF HandOK, Knows
<1> QED BY <1>2, <1>4, <1>5, <1>6, <1>9 DEF DoneOK

LEMMA InitDone == ASSUME Init PROVE DoneOK /\ HandOK
<1>1. /\ input \in Cases /\ pass = 0 /\ list = input.list /\ pc = [t \in Threads |-> "idle"]
      /\ result = [x \in Ids |-> Upd(x).result]
  BY DEF Init
<1>2. ASSUME NEW d \in Ends, NEW v \in Vertices, NEW n \in Vertices PROVE Made(d, v, n) = {}
  <2> SUFFICES ASSUME NEW x \in Made(d, v, n) PROVE FALSE
    OBVIOUS
  <2>1. x \in Stores(d, v, n) /\ (Turn(d, x) < pass \/ Turn(d, x) = pass)
    BY DEF Made
  <2>2. x = <<x[1], x[2]>> /\ x[1] \in Ids /\ x[2] \in Ways
    BY <1>1, <2>1, StoresType
  <2>3. 1 \in 1..Len(Passes)
    <3>1. PICK m : m = Len(Passes)
      OBVIOUS
    <3>2. m \in {4, 8}
      BY <1>1, <3>1, PassFacts
    <3>3. 1 \in 1..m
      BY <3>2
    <3> QED BY <3>1, <3>3
  <2>4. Turn(d, x) \in 1..8
    BY <1>1, <2>2, <2>3, TurnAt
  <2> QED BY <1>1, <2>1, <2>4
<1>3. DirsOK /\ KeptOK
  BY <1>1, <1>2 DEF DirsOK, KeptOK
<1>4. FreeOK
  BY <1>1, FreeAssumption DEF FreeOK, WasFree
<1>5. WeightsOK
  <2> SUFFICES ASSUME NEW v \in Vertices, NEW n \in Vertices, Unmixed(v, n)
               PROVE  WeightOK(v, n, SlotIn(list, v, n).weight, Made("OUT", v, n))
    BY DEF WeightsOK
  <2>1. Made("OUT", v, n) = {}
    BY <1>2 DEF Ends
  <2>2. PICK w : w = SlotIn(list, v, n).weight
    OBVIOUS
  <2>3. w \in Start(v, n) /\ w \in Int
    BY <1>1, <2>2, StartIs DEF Unmixed
  <2>4. w = w + Total({})
    BY <2>3, TotalIs
  <2>5. WeightOK(v, n, w, {})
    BY <2>3, <2>4 DEF WeightOK
  <2> QED BY <2>1, <2>2, <2>5
<1>6. ReportsOK
  <2>1. \A x \in Ids : Upd(x).result = 0 => ~Settled(x)
    BY <1>1 DEF Settled, ADDED, UPDATED
  <2> QED BY <2>1 DEF ReportsOK
<1>8. OnceOK
  <2>1. \A x \in Ids : ~Reported(x)
    BY <1>1 DEF Reported, ADDED
  <2> QED BY <2>1 DEF OnceOK
<1>7. PassedOK /\ HandOK
  BY <1>1 DEF PassedOK, HandOK, Knows
<1> QED BY <1>3, <1>4, <1>5, <1>6, <1>7, <1>8 DEF DoneOK, SlotsOK

LEMMA NextDone ==
  ASSUME Inv, DoneOK, HandOK, [Next]_vars
  PROVE  DoneOK' /\ HandOK'
<1>1. Inv'
  BY NextInv
<1>2. CASE BeginPass
  BY <1>2, BeginPassDone
<1>3. ASSUME NEW t \in Threads, Step(t) PROVE DoneOK' /\ HandOK'
  <2>1. CASE TakeRange(t) \/ FindBlock(t) \/ FindNext(t) \/ SeekBlock(t) \/ SeekNext(t)
    BY <2>1, ReadsDone
  <2>2. CASE FindScan(t) \/ SeekScan(t)
    BY <2>2, ScansDone
  <2>3. CASE UpdateSlot(t)
    BY <1>1, <2>3, UpdateSlotDone
  <2>4. CASE Claim(t)
    BY <1>1, <2>4, ClaimDone
  <2>5. CASE Grow(t)
    BY <1>1, <2>5, GrowDone
  <2> QED BY <1>3, <2>1, <2>2, <2>3, <2>4, <2>5 DEF Step
<1>4. CASE UNCHANGED vars
  <2>1. /\ input' = input /\ pass' = pass /\ order' = order /\ result' = result
        /\ list' = list /\ pc' = pc /\ frame' = frame
    BY <1>4 DEF vars
  <2>2. /\ Dir' = Dir /\ Nbr' = Nbr /\ (LastEnds' <=> LastEnds)
        /\ \A v, n : (Unmixed(v, n)' <=> Unmixed(v, n)) /\ (InUse(v, n)' <=> InUse(v, n))
    BY <2>1, HandSame
  <2>3. HandOK'
    BY <2>1, <2>2 DEF HandOK, Knows
  <2>4. DoneOK'
    BY <2>1, SameDone
  <2> QED BY <2>3, <2>4
<1> QED BY <1>2, <1>3, <1>4 DEF Next

-----------------------------------------------------------------------------
(* When the batch is over.                                                 *)

\* All its ends are made.
LEMMA AllMade ==
  ASSUME Inv, DoneOK, Done, NEW d \in Ends, NEW v \in Vertices, NEW n \in Vertices,
         Unmixed(v, n)
  PROVE  Made(d, v, n) = Stores(d, v, n)
<1>1. /\ input \in Cases /\ AllIdle /\ pass = Len(Passes) /\ input.directed \in BOOLEAN
      /\ Len(Passes) = (IF input.directed THEN 4 ELSE 8)
  BY PassFacts, BatchInsertAssumption DEF Done, Inv, Types
<1>2. pass \in 1..Len(Passes) /\ pass > 0
  BY <1>1
<1>3. ASSUME NEW x \in Stores(d, v, n) PROVE x \in Made(d, v, n)
  <2>1. x = <<x[1], x[2]>> /\ x[1] \in Ids /\ x[2] \in Ways /\ Upd(x[1]).result = 0 /\ Pure(x[1])
    BY <1>1, StoresType, StoresPure
  <2>2. Turn(d, x) \in 1..8 /\ (x[2] = "forth" => Turn(d, x) <= 4)
    BY <1>1, <1>2, <2>1, TurnIs
  <2>3. input.directed => x[2] = "forth"
    BY DEF Stores, Storing
  <2>4. Turn(d, x) <= pass /\ Turn(d, x) \in Nat /\ pass \in Nat
    BY <1>1, <2>2, <2>3
  <2>5. CASE Turn(d, x) = pass
    <3>1. x[1] \in Half(Passes[pass].half)
      BY <1>1, <1>2, <2>1, <2>5, TurnAt
    <3>2. Settled(x[1])
      BY <1>1, <1>2, <2>1, <3>1, SettledThen
    <3> QED BY <2>5, <3>2 DEF Made
  <2>6. CASE Turn(d, x) # pass
    <3>1. Turn(d, x) < pass
      BY <2>4, <2>6
    <3> QED BY <3>1 DEF Made
  <2> QED BY <2>5, <2>6
<1> QED BY <1>3 DEF Made

LEMMA AddsUpThen ==
  ASSUME Inv, DoneOK PROVE AddsUp
<1> SUFFICES ASSUME Done, NEW v \in Vertices, NEW n \in Vertices, Unmixed(v, n)
             PROVE  /\ IsEdge(list, v, n) <=> IsEdge(input.list, v, n) \/ Storing(v, n) # {}
                    /\ "IN" \in SlotIn(list, n, v).dirs <=>
                         "IN" \in SlotIn(input.list, n, v).dirs \/ Storing(v, n) # {}
                    /\ input.operation = "INCR" /\ IsEdge(list, v, n) =>
                         \E start \in Start(v, n) :
                           SlotIn(list, v, n).weight =
                             start + SumFunctionOnSet([x \in Storing(v, n) |-> Upd(x[1]).weight],
                                                      Storing(v, n))
                    /\ input.operation = "SET" /\ Storing(v, n) # {} =>
                         \E x \in Storing(v, n) : SlotIn(list, v, n).weight = Upd(x[1]).weight
  BY DEF AddsUp
<1>1. /\ input \in Cases /\ DirsOK /\ WeightsOK /\ OneSlot(list, v, n)
      /\ "OUT" \in Ends /\ "IN" \in Ends /\ Unmixed(n, v)
  BY UnmixedBothWays DEF Inv, Types, UniqueNeighbor, DoneOK, SlotsOK, Ends
<1>2. Made("OUT", v, n) = Storing(v, n) /\ Made("IN", n, v) = Storing(v, n)
  <2>1. Made("OUT", v, n) = Stores("OUT", v, n) /\ Made("IN", n, v) = Stores("IN", n, v)
    BY <1>1, AllMade
  <2> QED BY <2>1 DEF Stores
<1>3. IsEdge(list, v, n) <=> IsEdge(input.list, v, n) \/ Storing(v, n) # {}
  BY <1>1, <1>2 DEF DirsOK, IsEdge
<1>4. "IN" \in SlotIn(list, n, v).dirs <=>
        "IN" \in SlotIn(input.list, n, v).dirs \/ Storing(v, n) # {}
  BY <1>1, <1>2 DEF DirsOK
<1>5. ASSUME IsEdge(list, v, n)
      PROVE  WeightOK(v, n, SlotIn(list, v, n).weight, Storing(v, n))
  <2>1. "OUT" \in SlotIn(list, v, n).dirs
    BY <1>5 DEF IsEdge
  <2>2. SlotIn(list, v, n).neighbor # Blank
    BY <1>1, <2>1, SlotInIs
  <2> QED BY <1>1, <1>2, <2>2 DEF WeightsOK
<1>6. Total(Storing(v, n)) =
        SumFunctionOnSet([x \in Storing(v, n) |-> Upd(x[1]).weight], Storing(v, n))
  <2> DEFINE e == [x \in Storing(v, n) |-> Upd(x[1]).weight]
  <2>1. PICK S : S = Storing(v, n)
    OBVIOUS
  <2>2. S = Stores("OUT", v, n)
    BY <2>1 DEF Stores
  <2>3. IsFiniteSet(S) /\ \A x \in S : Weights[x] = Upd(x[1]).weight
    BY <1>1, <2>2, StoresType
  <2>4. \A x \in S : Weights[x] = e[x]
    BY <2>1, <2>3
  <2>5. PICK f, g : f = Weights /\ g = e
    OBVIOUS
  <2>6. SumFunctionOnSet(f, S) = SumFunctionOnSet(g, S)
    BY <2>3, <2>4, <2>5, SumSame
  <2> QED BY <2>1, <2>5, <2>6 DEF Total
<1>7. ASSUME input.operation = "INCR", IsEdge(list, v, n)
      PROVE  \E start \in Start(v, n) :
               SlotIn(list, v, n).weight =
                 start + SumFunctionOnSet([x \in Storing(v, n) |-> Upd(x[1]).weight], Storing(v, n))
  <2>1. \E start \in Start(v, n) : SlotIn(list, v, n).weight = start + Total(Storing(v, n))
    BY <1>5, <1>7 DEF WeightOK
  <2> QED BY <1>6, <2>1
<1>8. ASSUME input.operation = "SET", Storing(v, n) # {}
      PROVE  \E x \in Storing(v, n) : SlotIn(list, v, n).weight = Upd(x[1]).weight
  BY <1>3, <1>5, <1>8 DEF WeightOK
<1> QED BY <1>3, <1>4, <1>7, <1>8

LEMMA ReportsThen ==
  ASSUME Inv, DoneOK PROVE NewEdgesReported
<1> SUFFICES ASSUME Done, NEW v \in Vertices, NEW n \in Vertices, input.directed,
                    Unmixed(v, n), Storing(v, n) # {}, NEW told,
                    told = {x \in Storing(v, n) : Remapped(x[1]) = 1}
             PROVE  /\ told = {} <=> WasThere(v, n)
                    /\ ~WasThere(v, n) /\ ~Shared(v, n) => \E x \in told : told = {x}
  BY DEF NewEdgesReported
<1>1. /\ input \in Cases /\ AllIdle /\ pass = 4 /\ 4 \in 1..Len(Passes)
      /\ Passes[pass].half = "down"
  <2>1. input \in Cases /\ AllIdle /\ pass = Len(Passes)
    BY DEF Done, Inv, Types
  <2>2. Len(Passes) = 4
    BY <2>1, PassFacts
  <2>3. 4 \in 1..Len(Passes)
    BY <2>2
  <2>4. Passes[4].half = "down"
    BY <2>1, <2>3, PassFacts
  <2> QED BY <2>1, <2>2, <2>3, <2>4
<1>2. \A x \in Ids : Pure(x) /\ Upd(x).result = 0 => (Remapped(x) = 1 <=> Reported(x))
  BY DEF Remapped, Inv, Types, ResultsOK, Codes, ADDED, UPDATED, Reported
<1>3. /\ \A x \in Storing(v, n) : /\ x = <<x[1], "forth">> /\ x[1] \in Ids /\ Upd(x[1]).result = 0
                                  /\ Upd(x[1]).src = v /\ Upd(x[1]).dst = n
      /\ \A y \in Ids : Upd(y).result = 0 /\ Upd(y).src = v /\ Upd(y).dst = n =>
           <<y, "forth">> \in Storing(v, n)
  BY DEF Storing
<1>4. PICK z \in Storing(v, n) : TRUE
  OBVIOUS
<1>5. PICK x : x = z[1]
  OBVIOUS
<1>6. x \in Ids /\ Upd(x).result = 0 /\ Upd(x).src = v /\ Upd(x).dst = n
  BY <1>3, <1>4, <1>5
<1>12. ASSUME NEW y \in Ids, Upd(y).src = v, Upd(y).dst = n
       PROVE  /\ Pure(y) /\ LastTurn(y) /\ SameEdge(x, y)
              /\ EndWas(y) <=> WasThere(v, n)
              /\ EndShared(y) <=> Shared(v, n)
  BY <1>1, <1>6, <1>12 DEF Pure, LastTurn, SameEdge, EndWas, EndShared
<1>7. Settled(x)
  <2>1. CASE x \in Half("up")
    BY <1>1, <1>6, <1>12, <2>1 DEF DoneOK, PassedOK
  <2>2. CASE x \in Half("down")
    <3>1. pass > 0 /\ x \in Half(Passes[pass].half)
      BY <1>1, <2>2
    <3> QED BY <1>1, <1>6, <1>12, <3>1, SettledThen
  <2> QED BY <1>6, <2>1, <2>2, HalfIs
<1>8. Told(x) <=> ~WasThere(v, n)
  BY <1>6, <1>7, <1>12 DEF DoneOK, ReportsOK
<1>9. ASSUME NEW y \in Ids, SameEdge(x, y), Reported(y) PROVE <<y, "forth">> \in told
  <2>1. Upd(y).src = v /\ Upd(y).dst = n /\ Upd(y).result = 0 /\ Pure(y)
    BY <1>6, <1>9, <1>12 DEF SameEdge, Reported
  <2>2. <<y, "forth">> \in Storing(v, n) /\ Remapped(y) = 1 /\ <<y, "forth">>[1] = y
    BY <1>2, <1>3, <1>9, <2>1
  <2> QED BY <2>2
<1>10. ASSUME NEW w \in told
       PROVE  w = <<w[1], "forth">> /\ w[1] \in Ids /\ SameEdge(x, w[1]) /\ Reported(w[1])
  BY <1>2, <1>3, <1>12, <1>10
<1>11. told = {} <=> WasThere(v, n)
  <2>1. ASSUME Told(x) PROVE told # {}
    <3>1. PICK y \in Ids : SameEdge(x, y) /\ Reported(y)
      BY <2>1 DEF Told
    <3> QED BY <1>9, <3>1
  <2>2. ASSUME told # {} PROVE Told(x)
    BY <1>10, <2>2 DEF Told
  <2> QED BY <1>8, <2>1, <2>2
<1>13. ASSUME ~WasThere(v, n), ~Shared(v, n) PROVE \E w \in told : told = {w}
  <2>1. PICK w \in told : TRUE
    BY <1>11, <1>13
  <2>2. ASSUME NEW y \in told PROVE y = w
    <3>1. /\ w[1] \in Ids /\ y[1] \in Ids /\ Reported(w[1]) /\ Reported(y[1])
          /\ SameEdge(x, w[1]) /\ SameEdge(x, y[1])
          /\ w = <<w[1], "forth">> /\ y = <<y[1], "forth">>
      BY <1>10
    <3>2. Upd(w[1]).src = v /\ Upd(w[1]).dst = n /\ SameEdge(w[1], y[1])
      BY <1>6, <3>1 DEF SameEdge
    <3>3. Pure(w[1]) /\ LastTurn(w[1]) /\ ~EndShared(w[1])
      BY <1>12, <1>13, <3>1, <3>2
    <3>4. w[1] = y[1]
      BY <3>1, <3>2, <3>3 DEF DoneOK, OnceOK
    <3> QED BY <3>1, <3>4
  <2> QED BY <2>1, <2>2
<1> QED BY <1>11, <1>13

\* When the batch is over both ends of its edges are stored, each end of any other
\* edge is as it was, and the weights are the sums, between any two vertices whose
\* marks are not mixed: whatever ranges shared the edges, and whichever thread
\* found, claimed or appended their slots.
THEOREM AddsUpHolds == Spec => []AddsUp
<1> QED BY InitInv, NextInv, InitDone, NextDone, AddsUpThen, PTL DEF Spec

\* Of an edge whose last end was there no update is reported as new; of any other
\* one is, and no second one unless the edge's reverse may have its slot.
THEOREM NewEdgesReportedHolds == Spec => []NewEdgesReported
<1> QED BY InitInv, NextInv, InitDone, NextDone, ReportsThen, PTL DEF Spec
====
