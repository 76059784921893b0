------------------------------ MODULE HashTable ------------------------------
(***************************************************************************)
(* The table of OrderIdMap (include/lob/order_id_map.hpp) and what find(), *)
(* insert() and erase() do to it: open addressing with linear probing and  *)
(* backshift deletion.                                                     *)
(*                                                                         *)
(* hash(id) & mask_ is the constant Ideal[id]: which ids collide is up to  *)
(* the configuration.  A probing loop is the least distance at which it    *)
(* stops; the `for (;;)` that never stops has an empty set of distances.   *)
(***************************************************************************)
EXTENDS Integers, FiniteSetsExt

CONSTANTS Ids,       \* the order ids in use
          Values,    \* the pointers stored, none of them null
          Capacity,  \* mask_ + 1
          Ideal      \* hash(id) & mask_, for every id and for kInvalidOrderId

NoId == 0   \* kInvalidOrderId: the slot is empty
Null == 0

Indices == 0 .. Capacity - 1

\* round_up_pow2 makes no table of one slot, and splitmix64 maps 0 to 0.
ASSUME TableAssumption ==
  /\ Capacity \in Nat \ {0, 1}
  /\ NoId \notin Ids /\ Null \notin Values
  /\ Ideal \in [Ids \cup {NoId} -> Indices] /\ Ideal[NoId] = 0

Entries == [id: Ids \cup {NoId}, value: Values \cup {Null}]
Tables  == [Indices -> Entries]

NewTable == [i \in Indices |-> [id |-> NoId, value |-> Null]]

After(i, d) == (i + d) % Capacity

\* The distances from its ideal slot at which the search for id stops: at the
\* id itself or at an empty slot.
Stops(t, id) == {d \in Indices : t[After(Ideal[id], d)].id \in {id, NoId}}

SlotFor(t, id) == After(Ideal[id], Min(Stops(t, id)))

Holds(t, id) == t[SlotFor(t, id)].id = id

\* Asked for kInvalidOrderId, it answers with whatever value an empty slot holds.
HashFind(t, id) == IF Holds(t, id) THEN t[SlotFor(t, id)].value ELSE Null

\* (Mutant) A value that is present is overwritten.
HashOverwrite(t, id, v) == [t EXCEPT ![SlotFor(t, id)] = [id |-> id, value |-> v]]

HashInsert(t, id, v) ==
  IF Holds(t, id) THEN t
  ELSE [t EXCEPT ![SlotFor(t, id)] = [id |-> id, value |-> v]]

\* (Mutant) Entries in their ideal slot are moved as well.
ShiftEndsAtGaps(t, p) == {d \in 1 .. Capacity - 1 : t[After(p, d)].id = NoId}

\* The backshift from p stops before the first entry that is missing or in its
\* ideal slot: "n is in its ideal slot; we must not move it".
ShiftEnds(t, p) ==
  {d \in 1 .. Capacity - 1 :
     LET n == t[After(p, d)] IN n.id = NoId \/ Ideal[n.id] = After(p, d)}

\* (Mutant) The slot is emptied, and nothing is shifted into it.
HashEraseNoShift(t, id) ==
  IF Holds(t, id) THEN [t EXCEPT ![SlotFor(t, id)].id = NoId] ELSE t

\* Every entry before that moves back by one.  The slot left over is marked
\* empty and keeps its value.
Shifted(t, p, last) ==
  [i \in Indices |->
     IF i = After(p, last) THEN [t[i] EXCEPT !.id = NoId]
     ELSE IF \E d \in 0 .. last - 1 : i = After(p, d) THEN t[After(i, 1)]
     ELSE t[i]]

\* With no such entry in a full table, the shift goes round.  Its k-th step
\* finds Passed(k) at After(p, k), and each round moves the others back by one
\* more, until one of them lies in its ideal slot.
Rotated(t, p) ==
  LET others    == Capacity - 1
      Passed(k) == t[After(p, 1 + ((k - 1) % others))]
      last      == Min({k \in 1 .. Capacity * others :
                          Ideal[Passed(k).id] = After(p, k)}) - 1
      hole      == After(p, last)
  IN  [i \in Indices |->
         IF i = hole THEN [Passed(last) EXCEPT !.id = NoId]
         ELSE Passed(last + 1 - ((hole - i) % Capacity))]

HashErase(t, id) ==
  LET p    == SlotFor(t, id)
      ends == ShiftEnds(t, p)
  IN  IF ~Holds(t, id) THEN t
      ELSE IF ends # {} THEN Shifted(t, p, Min(ends) - 1)
      ELSE Rotated(t, p)

=============================================================================
