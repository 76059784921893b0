----------------------------- MODULE OrderIdMap -----------------------------
(***************************************************************************)
(* An OrderIdMap and its client, the matching engine.  What the engine     *)
(* bounds is the number of its live orders, by the slots of its slab, and  *)
(* not the number of entries: it ignores what erase answers, and gives the *)
(* slot of the order back all the same.  A call whose search never stops   *)
(* is no step.                                                             *)
(***************************************************************************)
EXTENDS HashTable

\* OrderBook's constructor makes a table for twice the orders of its slab.
ASSUME MapAssumption == IsFiniteSet(Values) /\ Cardinality(Values) < Capacity

VARIABLES table,  \* slots_
          size,   \* size_
          order,  \* the slab: the id of the order in each slot that is taken
          reply   \* what the last call returned

vars == <<table, size, order, reply>>

Live == {v \in Values : order[v] # NoId}

Init ==
  /\ table = NewTable /\ size = 0 /\ reply = [call |-> "new"]
  /\ order = [v \in Values |-> NoId]

\* The engine stores a slot it has just taken from the slab.
Insert(id, v) ==
  /\ v \notin Live
  /\ Stops(table, id) # {}
  /\ table' = HashInsert(table, id, v)
  /\ size'  = IF Holds(table, id) THEN size ELSE size + 1
  /\ order' = IF Holds(table, id) THEN order ELSE [order EXCEPT ![v] = id]
  /\ reply' = [call |-> "insert", id |-> id, ok |-> ~Holds(table, id)]

\* The slots an erase may be followed by giving back: a fill gives back that of
\* the order, cancel and reduce the one that find() led to.
Released(id) == {v \in Values : order[v] = id \/ HashFind(table, id) = v}

Erase(id) ==
  /\ Stops(table, id) # {}
  /\ table' = HashErase(table, id)
  /\ size'  = IF Holds(table, id) THEN size - 1 ELSE size
  /\ \/ \E v \in Released(id) : order' = [order EXCEPT ![v] = NoId]
     \/ Released(id) = {} /\ UNCHANGED order
  /\ reply' = [call |-> "erase", id |-> id, ok |-> Holds(table, id)]

Find(id) ==
  /\ Stops(table, id) # {}
  /\ reply' = [call |-> "find", id |-> id, value |-> HashFind(table, id)]
  /\ UNCHANGED <<table, size, order>>

Next ==
  \E id \in Ids : Find(id) \/ Erase(id) \/ \E v \in Values : Insert(id, v)

Spec == Init /\ [][Next]_vars

-----------------------------------------------------------------------------

\* The map is a dictionary: find returns what was inserted and not erased
\* since, whatever else was inserted and erased in between.
Dict == INSTANCE DictionarySpec WITH
  dict <- [id \in Ids |-> IF Stops(table, id) = {} THEN Null ELSE HashFind(table, id)]

ImplementsDictionary == Dict!Spec

\* "Backshift deletion preserves the linear-probing invariant": no empty slot
\* lies between an entry's ideal slot and the entry.
LinearProbing ==
  \A i \in Indices :
    table[i].id # NoId =>
      \A d \in Indices : /\ After(Ideal[table[i].id], d) = i
                         => \A e \in 0 .. d : table[After(Ideal[table[i].id], e)].id # NoId

\* Every call for every id comes back.  The searches have no bound but an empty
\* slot, and "the table grows by reallocation" is in no line of the code.
SearchesEnd == \A id \in Ids : Stops(table, id) # {}

\* Nothing is left behind: the entries are the live orders.  The table, made for
\* twice as many, keeps room for every search to end, each live order is found,
\* find leads to no slot that another order has or none, and size() is their
\* number.
HoldsLiveOrders ==
  /\ SearchesEnd
  /\ \A v \in Live : HashFind(table, order[v]) = v
  /\ \A id \in Ids : HashFind(table, id) # Null => order[HashFind(table, id)] = id
  /\ size = Cardinality(Live)

=============================================================================
