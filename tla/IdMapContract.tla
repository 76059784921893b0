---------------------------- MODULE IdMapContract ----------------------------
(***************************************************************************)
(* What the matching engine relies on when it calls the id map: find()     *)
(* returns what insert() put there until erase() takes it away.  The       *)
(* engine inserts no id twice and no slot under two ids, and the contract  *)
(* promises nothing to a caller that does.                                 *)
(***************************************************************************)

KeepsContract(ids, slots, none, maps, empty, find(_, _), insert(_, _, _), erase(_, _)) ==
  /\ empty \in maps
  /\ \A id \in ids : find(empty, id) = none
  /\ \A m \in maps : \A id \in ids :
       /\ find(m, id) \in slots \cup {none}
       /\ erase(m, id) \in maps
       /\ \A other \in ids :
            find(erase(m, id), other) = IF other = id THEN none ELSE find(m, other)
  /\ \A m \in maps : \A id \in ids : \A s \in slots :
       find(m, id) = none /\ (\A other \in ids : find(m, other) # s) =>
         /\ insert(m, id, s) \in maps
         /\ \A other \in ids :
              find(insert(m, id, s), other) = IF other = id THEN s ELSE find(m, other)

=============================================================================
