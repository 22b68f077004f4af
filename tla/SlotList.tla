------------------------------ MODULE SlotList ------------------------------
(***************************************************************************)
(* The slots of one vertex, between parallel loops: what one directional   *)
(* update of stinger_incr_edge and one visit of StingerGraph's             *)
(* deleteOlderThan do to them.  EdgeInsert models the blocks the slots lie *)
(* in and the races between updates; here a list is the sequence of its    *)
(* slots up to the high mark of its last block, and an update is atomic    *)
(* (EdgeInsertRefinement).                                                 *)
(***************************************************************************)
EXTENDS Integers, Sequences, FiniteSetsExt

Blank == -1   \* the neighbor of a slot that is not in use

\* A slot of a block fresh from new_eb, whose memory is zero.
NewSlot == [neighbor |-> Blank, dirs |-> {}, weight |-> 0, timeRecent |-> 0]

SlotsOf(list, n) == {i \in DOMAIN list : list[i].neighbor = n}

\* update_edge_data_and_direction for an insertion: the IN direction changes
\* neither the weight nor the timestamp the slot holds.
Written(slot, n, d, w, ts) ==
  [neighbor |-> n,
   dirs |-> slot.dirs \cup {d},
   weight |-> IF d = "OUT" THEN w ELSE slot.weight,
   timeRecent |-> IF d = "OUT" THEN ts ELSE slot.timeRecent]

\* stinger_update_directed_edge with EDGE_WEIGHT_INCR: the slot of neighbour n
\* if there is one, else the first blank slot, else one above the high mark.
Update(list, n, d, w, ts) ==
  LET same == SlotsOf(list, n)
      free == SlotsOf(list, Blank) IN
  IF same # {} THEN LET i == Min(same) IN
                    [list EXCEPT ![i] = Written(@, n, d, @.weight + w, ts)]
  ELSE IF free # {} THEN [list EXCEPT ![Min(free)] = Written(@, n, d, w, ts)]
  ELSE Append(list, Written(NewSlot, n, d, w, ts))

\* Mutant: a slot whose timestamp equals the threshold goes too.
ExpiredAtThreshold(slot, threshold) ==
  LET gone == IF "OUT" \in slot.dirs THEN {"OUT"} ELSE {"IN"}
      left == slot.dirs \ gone IN
  IF slot.neighbor = Blank \/ slot.timeRecent > threshold THEN slot
  ELSE [slot EXCEPT !.dirs = left, !.neighbor = IF left = {} THEN Blank ELSE @]

\* Mutant: a slot that holds an incoming edge too is left alone.
ExpiredOutOnly(slot, threshold) ==
  IF slot.dirs # {"OUT"} \/ slot.timeRecent >= threshold THEN slot
  ELSE [slot EXCEPT !.dirs = {}, !.neighbor = Blank]

\* One slot in the loop of deleteOlderThan.  The slot's own direction is passed
\* on, and of both directions update_edge_data_and_direction takes OUT only.
Expired(slot, threshold) ==
  LET gone == IF "OUT" \in slot.dirs THEN {"OUT"} ELSE {"IN"}
      left == slot.dirs \ gone IN
  IF slot.neighbor = Blank \/ slot.timeRecent >= threshold THEN slot
  ELSE [slot EXCEPT !.dirs = left, !.neighbor = IF left = {} THEN Blank ELSE @]

Neighbors(list, d) == {list[i].neighbor : i \in {j \in DOMAIN list : d \in list[j].dirs}}
=============================================================================
