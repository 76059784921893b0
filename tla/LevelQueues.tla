----------------------------- MODULE LevelQueues -----------------------------
(***************************************************************************)
(* What OrderBook takes its storage to be: a queue of slots per level, a   *)
(* queue of free slots, and the set of levels with a queue that is not     *)
(* empty.  Joining takes the first free slot; a slot that leaves becomes   *)
(* the first free one.                                                     *)
(***************************************************************************)
EXTENDS Integers, SequencesExt

CONSTANTS NumLevels, NumSlots

VARIABLES fifo, free, occupied

vars == <<fifo, free, occupied>>

Levels == 0 .. NumLevels - 1

Occupied(queues) == {l \in Levels : queues[l] # <<>>}

Init ==
  /\ fifo = [l \in Levels |-> <<>>]
  /\ free = [i \in 1 .. NumSlots |-> i]
  /\ occupied = {}

Join(l) ==
  /\ free # <<>>
  /\ fifo' = [fifo EXCEPT ![l] = Append(@, Head(free))]
  /\ free' = Tail(free)
  /\ occupied' = Occupied(fifo')

Leave(l, i) ==
  /\ fifo' = [fifo EXCEPT ![l] = RemoveAt(@, i)]
  /\ free' = <<fifo[l][i]>> \o free
  /\ occupied' = Occupied(fifo')

Next == \E l \in Levels : Join(l) \/ \E i \in DOMAIN fifo[l] : Leave(l, i)

Spec == Init /\ [][Next]_vars

=============================================================================
