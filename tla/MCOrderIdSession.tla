-------------------------- MODULE MCOrderIdSession --------------------------
(***************************************************************************)
(* A session of an engine for four orders, with the hash of the code.      *)
(***************************************************************************)
EXTENDS OrderIdSession

\* splitmix64 of the ids from 1 on, modulo 8.
SplitMix ==
  [id \in Ids \cup {NoId} |->
     IF id = NoId THEN 0 ELSE <<5, 2, 0, 4, 4, 4, 4, 0, 7, 1, 5, 4, 1, 1>>[id]]

\* What decides how a session goes on: the ids in the table and those that are
\* live, whichever slot of the slab they are in.
IdsOnly == <<[i \in Indices |-> table[i].id], {order[v] : v \in Live}, arriving>>

=============================================================================
