---------------------------- MODULE MCOrderIdMap ----------------------------
(***************************************************************************)
(* An OrderIdMap of eight slots with the hash of the code, for model       *)
(* checking.                                                               *)
(***************************************************************************)
EXTENDS OrderIdMap, TLC

\* splitmix64 of the ids, modulo 8.  9, 19 and 33 collide at the end of the
\* array and wrap around; the slot of 2 is the next one after their run.
SplitMix ==
  [id \in Ids \cup {NoId} |->
     CASE id = NoId -> 0 [] id \in {9, 19, 33} -> 7 [] id = 2 -> 2]

SlotSymmetry == Permutations(Values)

=============================================================================
