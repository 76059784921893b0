------------------------------- MODULE MCReplay -------------------------------
(***************************************************************************)
(* The replay into the engine over the id map it really has, the table of  *)
(* HashTable, for model checking.                                          *)
(***************************************************************************)
EXTENDS Replay, HashTable

\* Two ids collide at the end of the array and wrap around; the ideal slot of
\* the others lies where their run never reaches.
CollidingIds == [id \in Ids \cup {NoId} |-> IF id = NoId THEN 0 ELSE IF id <= 2 THEN 3 ELSE 1]

=============================================================================
