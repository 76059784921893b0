---------------------------- MODULE IdDictionary ----------------------------
(***************************************************************************)
(* What a map from order ids to order slots promises: the contract the     *)
(* matching engine relies on when it calls OrderIdMap::find, insert and    *)
(* erase.  A dictionary is a function that gives every id its slot, or     *)
(* nullptr.                                                                *)
(***************************************************************************)
EXTENDS Integers

CONSTANTS Ids,     \* the ids in use, all different from kInvalidOrderId
          Values   \* the slots they may lead to, none of them 0

Absent == 0

Dictionaries == [Ids -> Values \cup {Absent}]
Empty        == [id \in Ids |-> Absent]

\* An id that was never inserted, kInvalidOrderId among them, is not found.
DictFind(d, id) == IF id \in Ids THEN d[id] ELSE Absent

\* insert() of an id that is present changes nothing and returns false.
DictInsert(d, id, s) == IF d[id] = Absent THEN [d EXCEPT ![id] = s] ELSE d

DictErase(d, id) == IF id \in Ids THEN [d EXCEPT ![id] = Absent] ELSE d

=============================================================================
