--------------------------- MODULE DictionarySpec ---------------------------
(***************************************************************************)
(* The dictionary of IdDictionary as a state machine: what a client of an  *)
(* id map may see.                                                         *)
(***************************************************************************)
EXTENDS IdDictionary

VARIABLES dict, reply

vars == <<dict, reply>>

Present == {id \in Ids : dict[id] # Absent}

Init == dict = Empty /\ reply = [call |-> "new"]

Insert(id, v) ==
  /\ dict'  = DictInsert(dict, id, v)
  /\ reply' = [call |-> "insert", id |-> id, ok |-> id \notin Present]

Erase(id) ==
  /\ dict'  = DictErase(dict, id)
  /\ reply' = [call |-> "erase", id |-> id, ok |-> id \in Present]

Find(id) ==
  /\ reply' = [call |-> "find", id |-> id, value |-> DictFind(dict, id)]
  /\ UNCHANGED dict

Next ==
  \E id \in Ids : Find(id) \/ Erase(id) \/ \E v \in Values : Insert(id, v)

Spec == Init /\ [][Next]_vars

=============================================================================
