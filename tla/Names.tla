-------------------------------- MODULE Names --------------------------------
(***************************************************************************)
(* stinger_names.c: a hash table that numbers names, shared by the threads *)
(* that process a batch (batch.cpp creates vertex, type and edge names in  *)
(* parallel loops).  An entry of from_name holds 0, the place of a string, *)
(* or MARKER while a thread that read it with readfe has it.  The words of *)
(* from_name are read and written one at a time; what a thread does on     *)
(* words nobody else uses is part of the step before.                      *)
(***************************************************************************)
EXTENDS Integers, FiniteSets, SequencesExt

CONSTANTS
  Threads, Names,
  MaxTypes,       \* max_types: the table has twice as many entries
  NAME_STR_MAX,
  Spellings,      \* functions from names to [length, home], home the hash
  PrefixPairs,    \* pairs <<n, m>>: n is a proper prefix of m
  CallsPerThread, \* bound of the model
  MARKER,
  INT64_MAX,      \* what *out is set to when the strings are exhausted
  Unset           \* what *out held before a call that does not set it

ASSUME NamesAssumption ==
  /\ MaxTypes \in Nat \ {0} /\ NAME_STR_MAX \in Nat \ {0}
  /\ PrefixPairs \subseteq Names \X Names
  /\ {INT64_MAX, Unset} \cap (-1..2 * MaxTypes) = {} /\ INT64_MAX # Unset
  /\ \A s \in Spellings :
       s \in [Names -> [length : 1..NAME_STR_MAX, home : 0..2 * MaxTypes - 1]]

Entries == 0..2 * MaxTypes - 1

MaxNames == MaxTypes * (NAME_STR_MAX + 1) - 1   \* sn->max_names

Missing == -1

VARIABLES
  str,         \* the spelling of the names: chosen at the start
  from_name,   \* from_name[i]: 0, MARKER or the place of a string
  to_int,      \* to_int[i]: the type of the name in entry i
  to_name,     \* to_name[k]: the place of the string of type k, 0 if none
  text,        \* text[p]: the name whose string was copied to place p
  next_string, next_type,
  pc, frame,   \* position and local variables of each thread
  calls        \* calls begun

table == <<from_name, to_int, to_name, text, next_string, next_type>>
vars == <<str, table, pc, frame, calls>>

NoFrame == [op |-> "none", name |-> CHOOSE n \in Names : TRUE, index |-> 0,
            place |-> 0, ret |-> 0, out |-> Unset]

EmptyTable == [from |-> [i \in Entries |-> 0], int |-> [i \in Entries |-> 0],
               name |-> [k \in 0..MaxTypes-1 |-> 0], text |-> <<>>,
               string |-> 1, type |-> 0]

Init ==
  /\ str \in Spellings
  /\ from_name = EmptyTable.from /\ to_int = EmptyTable.int
  /\ to_name = EmptyTable.name /\ text = EmptyTable.text
  /\ next_string = EmptyTable.string /\ next_type = EmptyTable.type
  /\ pc = [t \in Threads |-> "idle"]
  /\ frame = [t \in Threads |-> NoFrame]
  /\ calls = [t \in Threads |-> 0]

Entry(t) == from_name[frame[t].index]

\* strncmp(name, names + place, length) = 0
Matches(n, place) == n = text[place] \/ <<n, text[place]>> \in PrefixPairs

Go(t, to) == pc' = [pc EXCEPT ![t] = to]

Finish(t, ret, out) ==
  /\ Go(t, "done")
  /\ frame' = [frame EXCEPT ![t].ret = ret, ![t].out = out]

\* Variant of Start: the number of types is not looked at.
StartUnchecked(t) ==
  /\ pc[t] = "idle" /\ calls[t] < CallsPerThread
  /\ calls' = [calls EXCEPT ![t] = @ + 1]
  /\ \E n \in Names, op \in {"create", "lookup"} :
       /\ frame' = [frame EXCEPT ![t] = [NoFrame EXCEPT !.op = op, !.name = n,
                                                        !.index = str[n].home]]
       /\ Go(t, IF op = "create" THEN "probe" ELSE "look")
  /\ UNCHANGED <<str, table>>

\* A creation looks at the number of types first: a full table is only read.
Start(t) ==
  /\ pc[t] = "idle" /\ calls[t] < CallsPerThread
  /\ calls' = [calls EXCEPT ![t] = @ + 1]
  /\ \E n \in Names, op \in {"create", "lookup"} :
       /\ frame' = [frame EXCEPT ![t] = [NoFrame EXCEPT !.op = op, !.name = n,
                                                        !.index = str[n].home]]
       /\ Go(t, IF op = "create" /\ next_type < MaxTypes THEN "probe" ELSE "look")
  /\ UNCHANGED <<str, table>>

\* The next entry, or the end of the call when every entry was tried: a
\* creation then leaves *out as it was.
Advance(t, to) ==
  LET i == (frame[t].index + 1) % (2 * MaxTypes) IN
  IF i = str[frame[t].name].home THEN Finish(t, -1, IF to = "look" THEN Missing ELSE Unset)
  ELSE Go(t, to) /\ frame' = [frame EXCEPT ![t].index = i]

\* readff of the entry; one that is not empty is read again to be compared.
Probe(t) ==
  /\ pc[t] = "probe" /\ Entry(t) # MARKER
  /\ Go(t, IF Entry(t) = 0 THEN "lock" ELSE "compare")
  /\ UNCHANGED <<str, table, frame, calls>>

Compare(t) ==
  /\ pc[t] = "compare" /\ Entry(t) # MARKER
  /\ IF Matches(frame[t].name, Entry(t)) THEN Finish(t, 0, to_int[frame[t].index])
     ELSE Advance(t, "probe")
  /\ UNCHANGED <<str, table, calls>>

\* Variant of Lock: what the entry holds by now is not looked at.
LockBlind(t) ==
  /\ pc[t] = "lock" /\ Entry(t) # MARKER
  /\ from_name' = [from_name EXCEPT ![frame[t].index] = MARKER]
  /\ Go(t, "claim")
  /\ UNCHANGED <<str, to_int, to_name, text, next_string, next_type, frame, calls>>

\* readfe of an entry that was empty: another thread may have filled it since.
Lock(t) ==
  /\ pc[t] = "lock" /\ Entry(t) # MARKER
  /\ from_name' = [from_name EXCEPT ![frame[t].index] = MARKER]
  /\ frame' = [frame EXCEPT ![t].place = Entry(t)]
  /\ Go(t, IF Entry(t) = 0 THEN "claim"
           ELSE IF Matches(frame[t].name, Entry(t)) THEN "restore" ELSE "stray")
  /\ UNCHANGED <<str, to_int, to_name, text, next_string, next_type, calls>>

\* Variant of Restore: writeff in place of writeef.
RestoreFull(t) ==
  /\ pc[t] = "restore" /\ Entry(t) # MARKER
  /\ Finish(t, 0, to_int[frame[t].index])
  /\ UNCHANGED <<str, table, calls>>

Restore(t) ==
  /\ pc[t] = "restore" /\ Entry(t) = MARKER
  /\ from_name' = [from_name EXCEPT ![frame[t].index] = frame[t].place]
  /\ Finish(t, 0, to_int[frame[t].index])
  /\ UNCHANGED <<str, to_int, to_name, text, next_string, next_type, calls>>

\* The entry held another name: writeef is given an address on the stack.  It
\* waits for that word to be MARKER, mostly for ever, and leaves the entry empty.
Stray(t) ==
  /\ pc[t] = "stray"
  /\ \/ Go(t, "lost") /\ UNCHANGED frame
     \/ Advance(t, "probe")
  /\ UNCHANGED <<str, table, calls>>

\* Room for the string; without it the call answers INT64_MAX, which batch.cpp
\* takes for a vertex, and leaves the entry empty.
Claim(t) ==
  LET len == str[frame[t].name].length IN
  /\ pc[t] = "claim"
  /\ next_string' = next_string + len + 1
  /\ IF next_string + len >= MaxNames
     THEN Finish(t, -1, INT64_MAX) /\ UNCHANGED text
     ELSE /\ text' = text @@ (next_string :> frame[t].name)
          /\ frame' = [frame EXCEPT ![t].place = next_string]
          /\ Go(t, "number")
  /\ UNCHANGED <<str, from_name, to_int, to_name, next_type, calls>>

Number(t) ==
  /\ pc[t] = "number"
  /\ to_int' = [to_int EXCEPT ![frame[t].index] = next_type]
  /\ next_type' = next_type + 1
  /\ Go(t, "name")
  /\ UNCHANGED <<str, from_name, to_name, text, next_string, frame, calls>>

\* from_name follows to_name in the storage: a type beyond the last one is
\* written over an entry.
SetName(t) ==
  LET k == to_int[frame[t].index] IN
  /\ pc[t] = "name"
  /\ IF k < MaxTypes
     THEN to_name' = [to_name EXCEPT ![k] = frame[t].place] /\ UNCHANGED from_name
     ELSE from_name' = [from_name EXCEPT ![k - MaxTypes] = frame[t].place]
          /\ UNCHANGED to_name
  /\ Go(t, "publish")
  /\ UNCHANGED <<str, to_int, text, next_string, next_type, frame, calls>>

Publish(t) ==
  /\ pc[t] = "publish" /\ Entry(t) = MARKER
  /\ from_name' = [from_name EXCEPT ![frame[t].index] = frame[t].place]
  /\ Finish(t, 1, to_int[frame[t].index])
  /\ UNCHANGED <<str, to_int, to_name, text, next_string, next_type, calls>>

\* stinger_names_lookup_type: two reads of each entry.
Look(t) ==
  /\ pc[t] = "look" /\ Entry(t) # MARKER
  /\ IF Entry(t) = 0 THEN Finish(t, -1, Missing)
     ELSE Go(t, "match") /\ UNCHANGED frame
  /\ UNCHANGED <<str, table, calls>>

Match(t) ==
  /\ pc[t] = "match" /\ Entry(t) # MARKER
  /\ IF Matches(frame[t].name, Entry(t)) THEN Finish(t, 0, to_int[frame[t].index])
     ELSE Advance(t, "look")
  /\ UNCHANGED <<str, table, calls>>

Return(t) ==
  /\ pc[t] = "done"
  /\ Go(t, "idle")
  /\ frame' = [frame EXCEPT ![t] = NoFrame]
  /\ UNCHANGED <<str, table, calls>>

Step(t) == \/ Probe(t) \/ Compare(t) \/ Lock(t) \/ Restore(t) \/ Stray(t)
           \/ Claim(t) \/ Number(t) \/ SetName(t) \/ Publish(t)
           \/ Look(t) \/ Match(t) \/ Return(t)

Next == \E t \in Threads : Start(t) \/ Step(t)

Spec == Init /\ [][Next]_vars

\* A thread inside a call keeps running; nobody has to make a call.
FairSpec == Spec /\ \A t \in Threads : WF_vars(Step(t))
-----------------------------------------------------------------------------
\* Saving and loading: the file holds the names in the order of their types.

\* Variant of Saved: in the order of the strings.
SavedByPlace ==
  LET places == SetToSortSeq(DOMAIN text, <) IN [k \in DOMAIN places |-> text[places[k]]]

Saved == [k \in 1..next_type |-> text[to_name[k - 1]]]

\* stinger_names_create_type run alone on a table that is being loaded.
CreateIn(T, n) ==
  LET step == {j \in Entries :
                 LET place == T.from[(str[n].home + j) % (2 * MaxTypes)] IN
                 \/ place = 0
                 \/ n = T.text[place] \/ <<n, T.text[place]>> \in PrefixPairs}
      i == (str[n].home + Min(step)) % (2 * MaxTypes)
      full == T.string + str[n].length >= MaxNames
  IN IF T.type >= MaxTypes \/ step = {} \/ T.from[i] # 0 THEN T
     ELSE [T EXCEPT !.string = @ + str[n].length + 1,
                    !.from[i] = IF full THEN MARKER ELSE T.string,
                    !.text = IF full THEN @ ELSE @ @@ (T.string :> n),
                    !.int[i] = IF full THEN @ ELSE T.type,
                    !.name = IF full THEN @ ELSE [@ EXCEPT ![T.type] = T.string],
                    !.type = IF full THEN @ ELSE @ + 1]

Loaded == FoldLeft(CreateIn, EmptyTable, Saved)
-----------------------------------------------------------------------------
\* More types than the table has room for: each creator passed the look at
\* next_type in Start before the others drew their numbers.
Overflow == next_type > MaxTypes

\* The words hold what they may hold, and a thread's entry is one of the table.
\* The check of Start bounds the overflow: the creator of type MaxTypes - 1 and
\* one creation of every other thread may be past it.
TypeOK ==
  LET places == 0..MaxNames - 1
      most == MaxTypes + Cardinality(Threads) - 1 IN
  /\ from_name \in [Entries -> places \cup {MARKER}]
  /\ to_int \in [Entries -> 0..most - 1] /\ to_name \in [0..MaxTypes-1 -> places]
  /\ DOMAIN text \subseteq places /\ \A p \in DOMAIN text : text[p] \in Names
  /\ next_string \in Nat /\ next_type \in 0..most
  /\ \A t \in Threads : frame[t].index \in Entries /\ frame[t].place \in places

\* Saving a table that nobody is changing and loading it into a new one of the
\* same size gives every name the type it had (stinger_names_load warns of the
\* opposite): the types given out have no gaps, whatever calls failed or hang.
\* Not so for a table that overflowed, whose last types have no word to_name.
LoadRestoresTypes ==
  (~Overflow /\ \A t \in Threads : pc[t] \in {"idle", "done", "lost"}) =>
    /\ Loaded.type = next_type
    /\ \A k \in 0..next_type - 1 :
         /\ Loaded.text[Loaded.name[k]] = text[to_name[k]]
         /\ \E i \in Entries : /\ Loaded.from[i] = Loaded.name[k]
                               /\ Loaded.int[i] = k

\* The type invariant, which says by how many the types can exceed max_types
\* (stinger_names.c:180 checks before the number is drawn at 208), and that the
\* table at rest is one that can be saved.
TableOK == TypeOK /\ LoadRestoresTypes

\* What each thread waits for when it waits for an entry that nobody will fill.
Abandoned ==
  \E i \in Entries :
    /\ from_name[i] = MARKER
    /\ \A t \in Threads : frame[t].index = i =>
         pc[t] \notin {"restore", "claim", "number", "name", "publish"}

\* Every call returns, unless some thread left an entry empty for ever
\* (stinger_names.c:202 and 214) or wrote a type beyond the last over the entry
\* another thread has (209): no other wait of readff, readfe or writeef is
\* without end.
ReturnsUnlessAbandoned ==
  \A t \in Threads : pc[t] # "idle" ~> pc[t] = "idle" \/ Abandoned \/ Overflow
-----------------------------------------------------------------------------
\* A name has its type from the step that writes to_name on; its creator has
\* its answer then, the others when they leave the table.
typeBar ==
  [n \in Names |->
     IF \E k \in DOMAIN to_name : to_name[k] # 0 /\ text[to_name[k]] = n
     THEN CHOOSE k \in DOMAIN to_name : to_name[k] # 0 /\ text[to_name[k]] = n
     ELSE Missing]

callBar ==
  [t \in Threads |->
     LET f == frame[t]
         called == [phase |-> "called", op |-> f.op, name |-> f.name]
         answered(ret, out) == [phase |-> "answered", op |-> f.op, name |-> f.name,
                                ret |-> ret, out |-> out]
     IN CASE pc[t] = "idle" -> [phase |-> "idle"]
          [] pc[t] = "publish" -> answered(1, to_int[f.index])
          [] pc[t] = "done" -> answered(f.ret, f.out)
          [] OTHER -> called]

Abstract == INSTANCE AtomicNames WITH type <- typeBar, call <- callBar

\* Whatever the threads do at once, and whichever entries were left empty, a
\* name gets one type, from one call that answers 1, and every other answer is
\* that type, -1 for a lookup that began before or a table that is full, or
\* INT64_MAX for want of room; no call ends without setting *out (line 224).
\* It is so up to the step that draws a number beyond the last: the word that
\* should name that type is an entry (209).
ImplementsAtomicNames ==
  Abstract!Init /\ [][Abstract!Next \/ Overflow']_(Abstract!vars)
=============================================================================
