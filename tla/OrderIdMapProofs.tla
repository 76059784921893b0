--------------------------- MODULE OrderIdMapProofs ---------------------------
(***************************************************************************)
(* What is proved about the id map.                                        *)
(*                                                                         *)
(* For any hash function: size() counts the entries; and while             *)
(* LinearProbing holds, the table holds the live orders of the engine and  *)
(* nothing else, every search ends, and the map is a dictionary.           *)
(*                                                                         *)
(* A backshift that meets an entry in its ideal slot stops there, so       *)
(* LinearProbing does not always hold: an erase keeps it, whichever the    *)
(* id, exactly if no entry has passed one in its ideal slot (NonePassed),  *)
(* and three ids whose ideal slots touch break it in a table of any size.  *)
(* It holds for good if no group of colliding ids reaches into the ideal   *)
(* slot of another (CollidersApart).                                       *)
(***************************************************************************)
EXTENDS OrderIdMap, IdMapContract, OperatorLemmas

Occupied(t) == {i \in Indices : t[i].id # NoId}

\* The distance from slot i on to slot j.
Distance(i, j) == (j - i) % Capacity

\* No id lies in two slots, no search passes an empty slot (LinearProbing of
\* the table t), and no entry holds a null pointer.
Once(t) == \A i, j \in Indices : t[i].id # NoId /\ t[i].id = t[j].id => i = j
Probing(t) ==
  \A i \in Indices :
    t[i].id # NoId =>
      \A d \in Indices : /\ After(Ideal[t[i].id], d) = i
                         => \A e \in 0 .. d : t[After(Ideal[t[i].id], e)].id # NoId
Valued(t) == \A i \in Indices : t[i].id # NoId => t[i].value \in Values

\* The dictionary a table stands for.
AbstractDict(t) ==
  [id \in Ids |-> IF Stops(t, id) = {} THEN Null ELSE HashFind(t, id)]

-----------------------------------------------------------------------------
(* The ring of slots.                                                      *)

\* Walking Distance(i, j) slots from i leads to j.
LEMMA AfterReaches ==
  ASSUME NEW i \in Indices, NEW j \in Indices
  PROVE  Distance(i, j) \in Indices /\ After(i, Distance(i, j)) = j
<1>1. Capacity \in Nat \ {0} /\ Capacity \in Int /\ i \in Int /\ j \in Int
  BY TableAssumption DEF Indices
<1>2. \A n \in Int : n % Capacity \in Indices
  BY <1>1, DivMod DEF Indices
<1>3. PICK d \in Int : d = j - i
  BY <1>1
<1>4. ((d % Capacity) + i) % Capacity = (d + i) % Capacity
  BY <1>1, ModOfMod
<1>5. d + i = j /\ j % Capacity = j
  BY <1>1, <1>3, SmallMod DEF Indices
<1>6. PICK e \in Indices : e = d % Capacity
  BY <1>2
<1>7. (e + i) % Capacity = j
  BY <1>4, <1>5, <1>6
<1>8. i + e = e + i
  BY <1>1, <1>6 DEF Indices
<1> QED BY <1>3, <1>6, <1>7, <1>8 DEF Distance, After

\* Every walk stays within the table.
LEMMA AfterInTable ==
  ASSUME NEW i \in Indices, NEW d \in Int
  PROVE  After(i, d) \in Indices
<1>1. Capacity \in Nat \ {0} /\ i \in Int
  BY TableAssumption DEF Indices
<1>2. PICK n \in Int : n = i + d
  BY <1>1
<1>3. n % Capacity \in 0 .. Capacity - 1
  BY <1>1, DivMod
<1> QED BY <1>2, <1>3 DEF After, Indices

\* One more step.
LEMMA AfterNext ==
  ASSUME NEW i \in Indices, NEW d \in Int
  PROVE  After(After(i, d), 1) = After(i, d + 1)
<1>1. Capacity \in Nat \ {0} /\ i \in Int
  BY TableAssumption DEF Indices
<1>2. PICK n \in Int : n = i + d
  BY <1>1
<1>3. \A c \in Int : ((n % Capacity) + c) % Capacity = (n + c) % Capacity
  BY <1>1, ModOfMod
<1>4. i + (d + 1) = n + 1
  BY <1>1, <1>2
<1> QED BY <1>2, <1>3, <1>4 DEF After

\* A walk of less than a round meets no slot twice.
LEMMA AfterOnce ==
  ASSUME NEW i \in Indices, NEW d \in Indices, NEW e \in Indices, After(i, d) = After(i, e)
  PROVE  d = e
<1>1. Capacity \in Nat \ {0} /\ i \in Int /\ d \in 0 .. Capacity - 1 /\ e \in 0 .. Capacity - 1
  BY TableAssumption DEF Indices
<1>2. PICK n \in Int : n = i + d
  BY <1>1
<1>3. PICK m \in Int : m = i + e
  BY <1>1
<1>4. n - m < Capacity /\ m - n < Capacity
  BY <1>1, <1>2, <1>3
<1>5. n % Capacity = m % Capacity
  BY <1>2, <1>3 DEF After
<1>6. n = m
  BY <1>1, <1>4, <1>5, SameSlot
<1> QED BY <1>1, <1>2, <1>3, <1>6

\* Walking nowhere.
LEMMA AfterNothing ==
  ASSUME NEW i \in Indices
  PROVE  After(i, 0) = i
<1>1. Capacity \in Nat \ {0} /\ i \in 0 .. Capacity - 1 /\ i + 0 = i
  BY TableAssumption DEF Indices
<1>2. i % Capacity = i
  BY <1>1, SmallMod
<1> QED BY <1>1, <1>2 DEF After

\* All the way round.
LEMMA FullTurn ==
  ASSUME NEW i \in Indices
  PROVE  After(i, Capacity) = i
<1>1. Capacity \in Nat \ {0} /\ i \in 0 .. Capacity - 1 /\ i \in Int /\ 1 \in Int
  BY TableAssumption DEF Indices
<1>2. PICK n \in Int : n = i + Capacity
  BY <1>1
<1>3. n = i + Capacity * 1
  BY <1>1, <1>2
<1>4. n % Capacity = i % Capacity
  BY <1>1, <1>3, AddMultiple
<1>5. i % Capacity = i
  BY <1>1, SmallMod
<1> QED BY <1>2, <1>4, <1>5 DEF After

\* A non-empty set of distances has a least one.
LEMMA LeastDistance ==
  ASSUME NEW D, D \subseteq Nat, D # {}
  PROVE  /\ Min(D) \in D
         /\ \A d \in D : Min(D) <= d
<1>1. \E m \in D : \A d \in D : m <= d
  BY LeastNatExists
<1> QED BY <1>1 DEF Min
\* Two walks, one after the other.
LEMMA AfterSum ==
  ASSUME NEW i \in Indices, NEW d \in Int, NEW e \in Int
  PROVE  After(After(i, d), e) = After(i, d + e)
<1>1. Capacity \in Nat \ {0} /\ i \in Int
  BY TableAssumption DEF Indices
<1>2. PICK n \in Int : n = i + d
  BY <1>1
<1>3. \A c \in Int : ((n % Capacity) + c) % Capacity = (n + c) % Capacity
  BY <1>1, ModOfMod
<1>4. i + (d + e) = n + e
  BY <1>1, <1>2
<1> QED BY <1>2, <1>3, <1>4 DEF After

\* Different slots are followed by different slots.
LEMMA NextSlotOnce ==
  ASSUME NEW i \in Indices, NEW j \in Indices, After(i, 1) = After(j, 1)
  PROVE  i = j
<1>1. 1 \in Int /\ -1 \in Int /\ 1 + (-1) = 0
  OBVIOUS
<1>2. After(After(i, 1), -1) = After(i, 1 + (-1))
  BY <1>1, AfterSum
<1>3. After(After(j, 1), -1) = After(j, 1 + (-1))
  BY <1>1, AfterSum
<1> QED BY <1>1, <1>2, <1>3, AfterNothing

\* A walk of less than a round is as long as the distance it covers.
LEMMA DistanceWalked ==
  ASSUME NEW i \in Indices, NEW d \in Indices
  PROVE  Distance(i, After(i, d)) = d
<1>1. d \in Int
  BY TableAssumption DEF Indices
<1>2. After(i, d) \in Indices
  BY <1>1, AfterInTable
<1>3. PICK j \in Indices : j = After(i, d)
  BY <1>2
<1>4. Distance(i, j) \in Indices /\ After(i, Distance(i, j)) = j
  BY AfterReaches
<1>5. PICK e \in Indices : e = Distance(i, j) /\ After(i, e) = j
  BY <1>4
<1>6. d = e
  BY <1>3, <1>5, AfterOnce
<1> QED BY <1>3, <1>5, <1>6

\* Two walks that meet: the slot the shorter one left from lies on the other.
LEMMA StepBack ==
  ASSUME NEW h \in Indices, NEW g \in Indices, NEW e \in Indices, NEW d \in Indices,
         d <= e, After(h, e) = After(g, d)
  PROVE  Distance(h, g) = e - d
<1>1. Capacity \in Nat \ {0} /\ d \in Int /\ e \in Int /\ -d \in Int
      /\ e - d \in Indices /\ e + (-d) = e - d /\ d + (-d) = 0
  BY TableAssumption DEF Indices
<1>2. After(After(h, e), -d) = After(h, e + (-d))
  BY <1>1, AfterSum
<1>3. After(After(g, d), -d) = After(g, d + (-d))
  BY <1>1, AfterSum
<1>4. After(h, e - d) = g
  BY <1>1, <1>2, <1>3, AfterNothing
<1>5. Distance(h, After(h, e - d)) = e - d
  BY <1>1, DistanceWalked
<1> QED BY <1>4, <1>5


-----------------------------------------------------------------------------
(* The searches.                                                           *)

\* A table with fewer entries than slots has an empty slot.
LEMMA EmptySlotExists ==
  ASSUME NEW t \in Tables, Cardinality(Occupied(t)) < Capacity
  PROVE  \E j \in Indices : t[j].id = NoId
<1>1. Capacity \in Nat \ {0} /\ Capacity - 1 \in Int
  BY TableAssumption
<1>2. IsFiniteSet(Indices) /\ Cardinality(Indices) = Capacity
  <2>1. PICK top \in Int : top = Capacity - 1
    BY <1>1
  <2>2. \A b \in Int : /\ IsFiniteSet(0 .. b)
                        /\ Cardinality(0 .. b) = IF 0 > b THEN 0 ELSE b - 0 + 1
    BY FS_Interval
  <2> QED BY <1>1, <2>1, <2>2 DEF Indices
<1>3. Occupied(t) # Indices
  BY <1>1, <1>2
<1> QED BY <1>3 DEF Occupied

\* Then every search stops.
LEMMA SearchEnds ==
  ASSUME NEW t \in Tables, Cardinality(Occupied(t)) < Capacity, NEW id \in Ids
  PROVE  Stops(t, id) # {}
<1>1. PICK j \in Indices : t[j].id = NoId
  BY EmptySlotExists
<1>2. Ideal[id] \in Indices
  BY TableAssumption
<1>3. Distance(Ideal[id], j) \in Stops(t, id)
  BY <1>1, <1>2, AfterReaches DEF Stops
<1> QED BY <1>3

\* Where it stops, there is the id or nothing.
LEMMA SearchFinds ==
  ASSUME NEW t \in Tables, NEW id \in Ids, Stops(t, id) # {}
  PROVE  SlotFor(t, id) \in Indices /\ t[SlotFor(t, id)].id \in {id, NoId}
<1>1. Ideal[id] \in Indices
  BY TableAssumption
<1>2. Stops(t, id) \subseteq Nat
  BY TableAssumption DEF Stops, Indices
<1>3. Min(Stops(t, id)) \in Stops(t, id)
  BY <1>2, LeastDistance
<1>4. PICK d \in Indices : d = Min(Stops(t, id)) /\ t[After(Ideal[id], d)].id \in {id, NoId}
  BY <1>3 DEF Stops
<1>5. d \in Int
  BY TableAssumption DEF Indices
<1>6. After(Ideal[id], d) \in Indices
  BY <1>1, <1>5, AfterInTable
<1> QED BY <1>4, <1>6 DEF SlotFor

-----------------------------------------------------------------------------
(* The updates.                                                            *)

\* An id that is not there takes one empty slot.
LEMMA InsertOccupies ==
  ASSUME NEW t \in Tables, NEW id \in Ids, NEW v \in Values,
         Stops(t, id) # {}, ~Holds(t, id)
  PROVE  /\ HashInsert(t, id, v) \in Tables
         /\ SlotFor(t, id) \notin Occupied(t)
         /\ Occupied(HashInsert(t, id, v)) = Occupied(t) \cup {SlotFor(t, id)}
<1> DEFINE p == SlotFor(t, id)
           e == [id |-> id, value |-> v]
<1>1. p \in Indices /\ t[p].id = NoId
  BY SearchFinds DEF Holds
<1>2. e \in Entries /\ e.id # NoId
  BY TableAssumption DEF Entries
<1>3. HashInsert(t, id, v) = [t EXCEPT ![p] = e]
  BY DEF HashInsert
<1> HIDE DEF p, e
<1>4. [t EXCEPT ![p] = e] \in Tables /\ [t EXCEPT ![p] = e][p] = e
      /\ \A i \in Indices \ {p} : [t EXCEPT ![p] = e][i] = t[i]
  BY <1>1, <1>2 DEF Tables
<1>5. Occupied([t EXCEPT ![p] = e]) = Occupied(t) \cup {p}
  BY <1>1, <1>2, <1>4 DEF Occupied
<1> QED BY <1>1, <1>3, <1>4, <1>5 DEF Occupied, p

\* The backshift from an entry ends, if any slot is empty.
LEMMA ShiftStops ==
  ASSUME NEW t \in Tables, Cardinality(Occupied(t)) < Capacity, NEW p \in Occupied(t)
  PROVE  ShiftEnds(t, p) # {}
<1>1. PICK j \in Indices : t[j].id = NoId
  BY EmptySlotExists
<1>2. p \in Indices /\ p # j
  BY <1>1 DEF Occupied
<1>3. Distance(p, j) \in Indices /\ After(p, Distance(p, j)) = j
  BY <1>1, <1>2, AfterReaches
<1>4. Distance(p, j) # 0
  BY <1>2, <1>3, AfterNothing
<1>5. Distance(p, j) \in 1 .. Capacity - 1
  BY <1>3, <1>4, TableAssumption DEF Indices
<1> QED BY <1>1, <1>3, <1>5 DEF ShiftEnds

\* How far the backshift goes: over occupied slots only, none of them the ideal
\* slot of its entry, and not all the way round.
LEMMA EraseShifts ==
  ASSUME NEW t \in Tables, Cardinality(Occupied(t)) < Capacity,
         NEW id \in Ids, Holds(t, id)
  PROVE  /\ SlotFor(t, id) \in Indices /\ t[SlotFor(t, id)].id = id
         /\ \E last \in Nat :
              /\ last < Capacity - 1
              /\ \A d \in 0 .. last : After(SlotFor(t, id), d) \in Occupied(t)
              /\ HashErase(t, id) = Shifted(t, SlotFor(t, id), last)
              /\ \A d \in 1 .. last : d \notin ShiftEnds(t, SlotFor(t, id))
              /\ last + 1 \in ShiftEnds(t, SlotFor(t, id))
<1> DEFINE p    == SlotFor(t, id)
           last == Min(ShiftEnds(t, p)) - 1
<1>1. p \in Indices /\ p \in Occupied(t) /\ t[p].id = id
  BY SearchEnds, SearchFinds, TableAssumption DEF Holds, Occupied
<1>2. ShiftEnds(t, p) # {} /\ ShiftEnds(t, p) \subseteq 1 .. Capacity - 1
  BY <1>1, ShiftStops DEF ShiftEnds
<1>3. /\ Min(ShiftEnds(t, p)) \in 1 .. Capacity - 1
      /\ \A d \in ShiftEnds(t, p) : Min(ShiftEnds(t, p)) <= d
  <2>1. ShiftEnds(t, p) \subseteq Nat
    BY <1>2, TableAssumption
  <2> QED BY <1>2, <2>1, LeastDistance
<1>4. last \in Nat /\ last + 1 = Min(ShiftEnds(t, p)) /\ last < Capacity - 1
  BY <1>3, TableAssumption
<1>7. Min(ShiftEnds(t, p)) \in ShiftEnds(t, p)
  <2>1. ShiftEnds(t, p) \subseteq Nat
    BY <1>2, TableAssumption
  <2> QED BY <1>2, <2>1, LeastDistance
<1>5. HashErase(t, id) = Shifted(t, p, last)
  BY <1>2 DEF HashErase
<1> HIDE DEF p, last
<1>6. \A d \in 0 .. last : After(p, d) \in Occupied(t)
  <2> SUFFICES ASSUME NEW d \in 0 .. last PROVE After(p, d) \in Occupied(t)
    OBVIOUS
  <2>1. d \in Int /\ After(p, d) \in Indices
    BY <1>1, <1>4, AfterInTable
  <2>2. CASE d = 0
    BY <1>1, <2>2, AfterNothing
  <2>3. CASE d # 0
    <3>1. d \in 1 .. Capacity - 1 /\ d \notin ShiftEnds(t, p)
      BY <1>3, <1>4, <2>3, TableAssumption
    <3> QED BY <2>1, <3>1 DEF ShiftEnds, Occupied
  <2> QED BY <2>2, <2>3
<1>8. \A d \in 1 .. last : d \notin ShiftEnds(t, p)
  BY <1>3, <1>4
<1> QED BY <1>1, <1>4, <1>5, <1>6, <1>7, <1>8 DEF p

\* A backshift over occupied slots leaves the last of them empty, and every
\* other slot as occupied as it was.
LEMMA ShiftVacates ==
  ASSUME NEW t \in Tables, NEW p \in Indices, NEW last \in Nat,
         \A d \in 0 .. last : After(p, d) \in Occupied(t)
  PROVE  /\ Shifted(t, p, last) \in Tables
         /\ After(p, last) \in Occupied(t)
         /\ Occupied(Shifted(t, p, last)) = Occupied(t) \ {After(p, last)}
<1> DEFINE r == Shifted(t, p, last)
<1>1. r = [i \in Indices |->
             IF i = After(p, last) THEN [t[i] EXCEPT !.id = NoId]
             ELSE IF \E d \in 0 .. last - 1 : i = After(p, d) THEN t[After(i, 1)]
             ELSE t[i]]
  BY DEF Shifted
<1> HIDE DEF r
<1>2. After(p, last) \in Occupied(t)
  OBVIOUS
<1>3. \A i \in Indices, d \in 0 .. last - 1 :
        i = After(p, d) => i \in Occupied(t) /\ After(i, 1) \in Occupied(t)
  <2> SUFFICES ASSUME NEW d \in 0 .. last - 1
               PROVE  After(p, d) \in Occupied(t) /\ After(After(p, d), 1) \in Occupied(t)
    OBVIOUS
  <2>1. d \in 0 .. last /\ d + 1 \in 0 .. last /\ d \in Int
    OBVIOUS
  <2>2. After(After(p, d), 1) = After(p, d + 1)
    BY <2>1, AfterNext
  <2> QED BY <2>1, <2>2
<1>4. r \in Tables
  <2> SUFFICES ASSUME NEW i \in Indices PROVE r[i] \in Entries
    BY <1>1 DEF Tables
  <2>1. \A k \in Indices : t[k] \in Entries /\ [t[k] EXCEPT !.id = NoId] \in Entries
    BY DEF Tables, Entries
  <2>2. CASE i = After(p, last)
    BY <1>1, <2>1, <2>2
  <2>3. CASE i # After(p, last) /\ \E d \in 0 .. last - 1 : i = After(p, d)
    BY <1>1, <1>3, <2>1, <2>3 DEF Occupied
  <2>4. CASE i # After(p, last) /\ ~\E d \in 0 .. last - 1 : i = After(p, d)
    BY <1>1, <2>1, <2>4
  <2> QED BY <2>2, <2>3, <2>4
<1>5. \A i \in Indices : i \in Occupied(r) <=> i \in Occupied(t) /\ i # After(p, last)
  <2> SUFFICES ASSUME NEW i \in Indices
               PROVE  r[i].id # NoId <=> t[i].id # NoId /\ i # After(p, last)
    BY DEF Occupied
  <2>1. CASE i = After(p, last)
    <3>1. t[i] \in Entries /\ r[i] = [t[i] EXCEPT !.id = NoId]
      BY <1>1, <2>1 DEF Tables
    <3> QED BY <2>1, <3>1 DEF Entries
  <2>2. CASE i # After(p, last) /\ \E d \in 0 .. last - 1 : i = After(p, d)
    BY <1>1, <1>3, <2>2 DEF Occupied
  <2>3. CASE i # After(p, last) /\ ~\E d \in 0 .. last - 1 : i = After(p, d)
    BY <1>1, <2>3
  <2> QED BY <2>1, <2>2, <2>3
<1>6. Occupied(r) = Occupied(t) \ {After(p, last)}
  BY <1>5 DEF Occupied
<1> QED BY <1>2, <1>4, <1>6 DEF r

\* So an id that is there takes one entry with it.
LEMMA EraseVacates ==
  ASSUME NEW t \in Tables, Cardinality(Occupied(t)) < Capacity,
         NEW id \in Ids, Holds(t, id)
  PROVE  /\ HashErase(t, id) \in Tables
         /\ \E x \in Occupied(t) : Occupied(HashErase(t, id)) = Occupied(t) \ {x}
<1>1. SlotFor(t, id) \in Indices
  BY EraseShifts
<1>2. PICK last \in Nat : /\ \A d \in 0 .. last : After(SlotFor(t, id), d) \in Occupied(t)
                          /\ HashErase(t, id) = Shifted(t, SlotFor(t, id), last)
  BY EraseShifts
<1>3. PICK p \in Indices : p = SlotFor(t, id)
  BY <1>1
<1> QED BY <1>2, <1>3, ShiftVacates

-----------------------------------------------------------------------------

\* A set of slots is finite.
LEMMA OccupiedFinite ==
  ASSUME NEW t
  PROVE  IsFiniteSet(Occupied(t)) /\ Cardinality(Occupied(t)) \in Nat
<1>1. Capacity - 1 \in Int
  BY TableAssumption
<1>2. \A b \in Int : IsFiniteSet(0 .. b)
  BY FS_Interval
<1>3. IsFiniteSet(Indices)
  BY <1>1, <1>2 DEF Indices
<1>4. IsFiniteSet(Occupied(t))
  BY <1>3, FS_Subset DEF Occupied
<1> QED BY <1>4, FS_CardinalityType

\* What is stored is found ...
LEMMA StoredIsFound ==
  ASSUME NEW t \in Tables, Once(t), Probing(t), NEW id \in Ids,
         NEW i \in Indices, t[i].id = id
  PROVE  Stops(t, id) # {} /\ SlotFor(t, id) = i /\ Holds(t, id)
<1> DEFINE d == Distance(Ideal[id], i)
           m == Min(Stops(t, id))
<1>1. Ideal[id] \in Indices /\ id # NoId
  BY TableAssumption
<1>2. d \in Indices /\ After(Ideal[id], d) = i
  BY <1>1, AfterReaches
<1>3. d \in Stops(t, id)
  BY <1>2 DEF Stops
<1>4. m \in Stops(t, id) /\ m <= d
  <2>1. Stops(t, id) \subseteq Nat
    BY TableAssumption DEF Stops, Indices
  <2> QED BY <1>3, <2>1, LeastDistance
<1>5. m \in Indices /\ t[After(Ideal[id], m)].id \in {id, NoId}
  BY <1>4 DEF Stops
<1> HIDE DEF d, m
<1>6. m \in 0 .. d
  BY <1>2, <1>4, <1>5, TableAssumption DEF Indices
<1>7. t[After(Ideal[id], m)].id # NoId
  BY <1>1, <1>2, <1>6 DEF Probing
<1>8. After(Ideal[id], m) \in Indices
  <2>1. m \in Int
    BY <1>5, TableAssumption DEF Indices
  <2> QED BY <1>1, <2>1, AfterInTable
<1>9. After(Ideal[id], m) = i
  BY <1>1, <1>5, <1>7, <1>8 DEF Once
<1> QED BY <1>3, <1>9 DEF SlotFor, Holds, m

\* ... and what is found is stored.
LEMMA FoundIsStored ==
  ASSUME NEW t \in Tables, NEW id \in Ids, Stops(t, id) # {}, Holds(t, id)
  PROVE  SlotFor(t, id) \in Indices /\ t[SlotFor(t, id)].id = id
BY SearchFinds DEF Holds

\* The backshift moves entries, keeps all but the erased one, and copies none.
LEMMA EraseKeepsOthers ==
  ASSUME NEW t \in Tables, Cardinality(Occupied(t)) < Capacity, Once(t),
         NEW id \in Ids, Holds(t, id)
  PROVE  LET p == SlotFor(t, id)
             r == HashErase(t, id)
         IN  /\ \A j \in Indices : r[j].id # NoId => \E i \in Indices \ {p} : t[i] = r[j]
             /\ \A i \in Indices \ {p} : t[i].id # NoId => \E j \in Indices : r[j] = t[i]
             /\ Once(r)
<1> DEFINE p == SlotFor(t, id)
           r == HashErase(t, id)
<1>1. p \in Indices
  BY EraseShifts
<1>2. PICK last \in Nat : last < Capacity - 1 /\ r = Shifted(t, p, last)
  BY EraseShifts
<1> HIDE DEF p, r
<1> DEFINE end    == After(p, last)
           run(i) == \E d \in 0 .. last - 1 : i = After(p, d)
           from(i) == IF run(i) THEN After(i, 1) ELSE i
<1>3. /\ \A d \in 0 .. last : /\ d \in Indices /\ d \in Int
                              /\ After(p, d) \in Indices
      /\ last \in 0 .. last /\ 0 \in 0 .. last
      /\ \A d \in 0 .. last - 1 : d \in 0 .. last /\ d + 1 \in 0 .. last /\ d + 1 # 0 /\ d # last
      /\ \A d \in 0 .. last : d # 0 => d - 1 \in 0 .. last - 1 /\ (d - 1) + 1 = d
      /\ \A d \in 0 .. last : d # last => d \in 0 .. last - 1
  <2>1. \A d \in 0 .. last : d \in Indices /\ d \in Int
    BY <1>2, TableAssumption DEF Indices
  <2> QED BY <1>1, <1>2, <2>1, AfterInTable
<1>4. \A d, e \in 0 .. last : After(p, d) = After(p, e) => d = e
  BY <1>1, <1>3, AfterOnce
<1>5. \A d \in 0 .. last - 1 : After(After(p, d), 1) = After(p, d + 1)
  BY <1>1, <1>3, AfterNext
<1>6. After(p, 0) = p
  BY <1>1, AfterNothing
<1>7. \A j \in Indices : j # end => r[j] = t[from(j)]
  BY <1>2 DEF Shifted
<1>8. end \in Indices /\ r[end].id = NoId
  <2>1. end \in Indices /\ t[end] \in Entries
    BY <1>3 DEF Tables
  <2>2. r[end] = [t[end] EXCEPT !.id = NoId]
    BY <1>2, <2>1 DEF Shifted
  <2> QED BY <2>1, <2>2 DEF Entries
<1>9. \A j \in Indices : j # end => from(j) \in Indices /\ from(j) # p
  <2> SUFFICES ASSUME NEW j \in Indices, j # end PROVE from(j) \in Indices /\ from(j) # p
    OBVIOUS
  <2>1. CASE run(j)
    BY <1>3, <1>4, <1>5, <1>6, <2>1
  <2>2. CASE ~run(j)
    BY <1>3, <1>6, <2>2
  <2> QED BY <2>1, <2>2
<1>10. ASSUME NEW j \in Indices, NEW k \in Indices, j # end, k # end, from(j) = from(k)
       PROVE  j = k
  <2>1. CASE run(j) /\ run(k)
    BY <1>3, <1>4, <1>5, <1>10, <2>1
  <2>2. ASSUME NEW a \in Indices, NEW b \in Indices, run(a), ~run(b), b # end
        PROVE  from(a) # from(b)
    BY <1>3, <1>5, <2>2
  <2>3. CASE ~run(j) /\ ~run(k)
    BY <1>10, <2>3
  <2> QED BY <1>10, <2>1, <2>2, <2>3
<1>11. \A i \in Indices \ {p} : \E j \in Indices : j # end /\ from(j) = i
  <2> SUFFICES ASSUME NEW i \in Indices \ {p}
               PROVE  \E j \in Indices : j # end /\ from(j) = i
    OBVIOUS
  <2>1. CASE \E d \in 0 .. last : i = After(p, d)
    <3>1. PICK d \in 0 .. last : i = After(p, d)
      BY <2>1
    <3>2. d # 0 /\ d - 1 \in 0 .. last - 1 /\ (d - 1) + 1 = d
      BY <1>3, <1>6, <3>1
    <3>3. PICK c \in 0 .. last - 1 : c + 1 = d
      BY <3>2
    <3>4. After(p, c) \in Indices /\ After(p, c) # end /\ run(After(p, c))
      BY <1>3, <1>4, <3>3
    <3>5. After(After(p, c), 1) = i
      BY <1>5, <3>1, <3>3
    <3> QED BY <3>4, <3>5
  <2>2. CASE ~\E d \in 0 .. last : i = After(p, d)
    BY <1>3, <2>2
  <2> QED BY <2>1, <2>2
<1> HIDE DEF end, run, from
<1>12. \A j \in Indices : r[j].id # NoId => \E i \in Indices \ {p} : t[i] = r[j]
  BY <1>7, <1>8, <1>9
<1>13. \A i \in Indices \ {p} : t[i].id # NoId => \E j \in Indices : r[j] = t[i]
  BY <1>7, <1>11
<1>14. Once(r)
  BY <1>7, <1>8, <1>9, <1>10 DEF Once
<1> QED BY <1>12, <1>13, <1>14 DEF p, r

\* What the map says of an id: the value it lies beside, if it lies anywhere.
LEMMA Lookup ==
  ASSUME NEW t \in Tables, Cardinality(Occupied(t)) < Capacity,
         Once(t), Probing(t), Valued(t), NEW id \in Ids
  PROVE  /\ AbstractDict(t)[id] = HashFind(t, id)
         /\ Holds(t, id) <=> AbstractDict(t)[id] # Null
         /\ Holds(t, id) <=> \E i \in Indices : t[i].id = id
         /\ \A i \in Indices : t[i].id = id => AbstractDict(t)[id] = t[i].value
         /\ ~Holds(t, id) => AbstractDict(t)[id] = Null
<1>1. Stops(t, id) # {}
  BY SearchEnds
<1>2. AbstractDict(t)[id] = HashFind(t, id)
  BY <1>1 DEF AbstractDict
<1>3. \A i \in Indices : t[i].id = id => Holds(t, id) /\ SlotFor(t, id) = i
  BY StoredIsFound
<1>4. Holds(t, id) => SlotFor(t, id) \in Indices /\ t[SlotFor(t, id)].id = id
  BY <1>1, FoundIsStored
<1>5. Holds(t, id) => t[SlotFor(t, id)].value \in Values
  BY <1>4, TableAssumption DEF Valued
<1> QED BY <1>2, <1>3, <1>4, <1>5, TableAssumption DEF HashFind

\* Two tables with the same entries of an id say the same of it.
LEMMA SameLookup ==
  ASSUME NEW t \in Tables, Cardinality(Occupied(t)) < Capacity,
         Once(t), Probing(t), Valued(t),
         NEW r \in Tables, Cardinality(Occupied(r)) < Capacity,
         Once(r), Probing(r), Valued(r),
         NEW id \in Ids,
         \A i \in Indices : t[i].id = id => \E j \in Indices : r[j] = t[i],
         \A j \in Indices : r[j].id = id => \E i \in Indices : t[i] = r[j]
  PROVE  AbstractDict(r)[id] = AbstractDict(t)[id]
<1>1. CASE Holds(t, id)
  <2>1. PICK i \in Indices : t[i].id = id
    BY <1>1, Lookup
  <2>2. PICK j \in Indices : r[j] = t[i]
    BY <2>1
  <2>3. AbstractDict(t)[id] = t[i].value
    BY <2>1, Lookup
  <2>4. AbstractDict(r)[id] = r[j].value
    BY <2>1, <2>2, Lookup
  <2> QED BY <2>2, <2>3, <2>4
<1>2. CASE ~Holds(t, id)
  <2>1. ~Holds(r, id)
    <3>1. Holds(r, id) => \E j \in Indices : r[j].id = id
      BY Lookup
    <3>2. ~\E i \in Indices : t[i].id = id
      BY <1>2, Lookup
    <3> QED BY <3>1, <3>2
  <2>2. AbstractDict(t)[id] = Null
    BY <1>2, Lookup
  <2>3. AbstractDict(r)[id] = Null
    BY <2>1, Lookup
  <2> QED BY <2>2, <2>3
<1> QED BY <1>1, <1>2

\* A new entry leaves the others where they are, and lies there once.
LEMMA InsertKeepsOthers ==
  ASSUME NEW t \in Tables, Once(t), Probing(t), Valued(t), NEW id \in Ids, NEW v \in Values,
         Stops(t, id) # {}, ~Holds(t, id)
  PROVE  LET p == SlotFor(t, id)
             r == HashInsert(t, id, v)
         IN  /\ p \in Indices /\ r[p] = [id |-> id, value |-> v] /\ t[p].id = NoId
             /\ \A i \in Indices \ {p} : r[i] = t[i]
             /\ Once(r) /\ Valued(r)
<1> DEFINE p == SlotFor(t, id)
           e == [id |-> id, value |-> v]
           r == HashInsert(t, id, v)
<1>1. p \in Indices /\ t[p].id = NoId
  BY SearchFinds DEF Holds
<1>2. r = [t EXCEPT ![p] = e]
  BY DEF HashInsert
<1>3. e.id = id /\ e.value = v /\ id # NoId
  BY TableAssumption
<1>4. \A i \in Indices : t[i].id # id
  BY StoredIsFound
<1> HIDE DEF p, r, e
<1>5. r[p] = e /\ \A i \in Indices \ {p} : r[i] = t[i]
  BY <1>1, <1>2 DEF Tables
<1>6. Once(r)
  BY <1>3, <1>4, <1>5 DEF Once
<1>7. Valued(r)
  BY <1>3, <1>5 DEF Valued
<1> QED BY <1>1, <1>5, <1>6, <1>7 DEF p, r, e

\* A new entry closes its run, and empties no slot.
LEMMA InsertKeepsProbing ==
  ASSUME NEW t \in Tables, Probing(t), NEW id \in Ids, NEW v \in Values,
         Stops(t, id) # {}, ~Holds(t, id)
  PROVE  Probing(HashInsert(t, id, v))
<1> DEFINE r == HashInsert(t, id, v)
<1>1. /\ \A i \in Indices : r[i].id # NoId <=> t[i].id # NoId \/ i = SlotFor(t, id)
      /\ \A i \in Indices : i # SlotFor(t, id) => r[i] = t[i]
      /\ r[SlotFor(t, id)].id = id /\ id # NoId
  <2>1. SlotFor(t, id) \in Indices
    BY SearchFinds
  <2> QED BY <2>1, TableAssumption DEF HashInsert, Tables
<1> HIDE DEF r
<1>2. Stops(t, id) \subseteq Nat /\ Stops(t, id) \subseteq Indices
  BY TableAssumption DEF Stops, Indices
<1>3. /\ Min(Stops(t, id)) \in Stops(t, id)
      /\ \A d \in Stops(t, id) : Min(Stops(t, id)) <= d
  BY <1>2, LeastDistance
<1>4. PICK m \in Indices : /\ m = Min(Stops(t, id)) /\ SlotFor(t, id) = After(Ideal[id], m)
                           /\ \A d \in Stops(t, id) : m <= d
  BY <1>2, <1>3 DEF SlotFor
<1>5. \A i \in Ids \cup {NoId}, e \in Int : After(Ideal[i], e) \in Indices
  BY AfterInTable, TableAssumption
<1>6. \A d \in Indices : d \in Nat /\ \A e \in 0 .. d : e \in Int /\ e \in Indices
  BY TableAssumption DEF Indices
<1>7. \A i \in Indices : t[i].id \in Ids \cup {NoId}
  BY DEF Tables, Entries
<1> SUFFICES ASSUME NEW i \in Indices, r[i].id # NoId,
                    NEW d \in Indices, After(Ideal[r[i].id], d) = i, NEW e \in 0 .. d
             PROVE  r[After(Ideal[r[i].id], e)].id # NoId
  BY DEF Probing, r
<1>8. CASE i = SlotFor(t, id)
  <2>1. PICK h \in Indices : h = Ideal[id]
    BY TableAssumption
  <2>2. After(h, d) = After(h, m)
    BY <1>1, <1>4, <1>8, <2>1
  <2>3. d = m
    BY <2>2, AfterOnce
  <2>4. CASE e = d
    BY <1>1, <1>8, <2>4
  <2>5. CASE e # d
    <3>1. e \notin Stops(t, id) /\ e \in Indices
      BY <1>4, <1>6, <2>3, <2>5
    <3>2. t[After(Ideal[id], e)].id # NoId
      BY <3>1 DEF Stops
    <3> QED BY <1>1, <1>5, <1>6, <1>8, <3>2
  <2> QED BY <2>4, <2>5
<1>9. CASE i # SlotFor(t, id)
  <2>1. t[i] = r[i] /\ t[i].id # NoId
    BY <1>1, <1>9
  <2>2. t[After(Ideal[t[i].id], e)].id # NoId
    BY <2>1 DEF Probing
  <2> QED BY <1>1, <1>5, <1>6, <1>7, <2>1, <2>2
<1> QED BY <1>8, <1>9

-----------------------------------------------------------------------------
(* size(), for any hash function and whatever erase leaves behind.         *)

\* A backshift that goes round a full table ends, when an entry comes home.
LEMMA RotationEnds ==
  ASSUME NEW t \in Tables, Occupied(t) = Indices, NEW p \in Indices
  PROVE  \E k \in 1 .. Capacity * (Capacity - 1) :
           Ideal[t[After(p, 1 + ((k - 1) % (Capacity - 1)))].id] = After(p, k)
<1>1. PICK others \in Nat : others = Capacity - 1 /\ others > 0
  BY TableAssumption
<1>2. PICK s \in Indices : s = After(p, 1)
  BY AfterInTable
<1>3. PICK g \in Indices : g = Ideal[t[s].id]
  BY TableAssumption DEF Tables, Entries
<1>4. PICK m \in Indices : After(g, m) = s
  BY AfterReaches
<1>5. m \in Nat /\ m <= others /\ Capacity = others + 1
  BY <1>1, TableAssumption DEF Indices
<1>6. PICK q \in Nat : q = others * m
  BY <1>1, <1>5
<1>7. q <= others * others
  BY <1>1, <1>5, <1>6
<1>8. 1 + q \in 1 .. Capacity * others
  BY <1>1, <1>5, <1>6, <1>7
<1>9. q % others = 0
  <2>1. q = 0 + others * m /\ 0 \in Int /\ m \in Int /\ others \in Nat \ {0}
    BY <1>1, <1>5, <1>6
  <2>2. q % others = 0 % others
    BY <2>1, AddMultiple
  <2> QED BY <2>1, <2>2, SmallMod
\* Each round takes the entry one slot further back.
<1>10. After(p, 1 + q) = g
  <2>1. Capacity \in Nat \ {0} /\ p \in Int /\ m \in Int /\ 1 - m \in Int
    BY <1>5, TableAssumption DEF Indices
  <2>2. PICK n \in Int : n = p + (1 - m)
    BY <2>1
  <2>3. PICK b \in Int : b = n + Capacity * m
    BY <2>1
  <2>4. p + (1 + q) = b
    <3>1. Capacity * m = q + m
      BY <1>1, <1>5, <1>6
    <3> QED BY <1>6, <2>1, <2>2, <2>3, <3>1
  <2>9. b % Capacity = n % Capacity
    BY <2>1, <2>2, <2>3, AddMultiple
  <2>5. After(p, 1 + q) = After(p, 1 - m)
    BY <2>2, <2>4, <2>9 DEF After
  <2>10. PICK back \in Int : back = -m
    BY <2>1
  <2>6. After(s, back) = After(p, 1 + back)
    BY <1>2, <2>1, AfterSum
  <2>7. After(s, back) = After(g, m + back)
    BY <1>4, <2>1, AfterSum
  <2>8. 1 + back = 1 - m /\ m + back = 0
    BY <2>1, <2>10
  <2> QED BY <2>5, <2>6, <2>7, <2>8, AfterNothing
<1>11. (1 + q) - 1 = q /\ 1 + 0 = 1
  BY <1>6
<1> QED BY <1>1, <1>2, <1>3, <1>8, <1>9, <1>10, <1>11

\* It frees one slot and keeps the others taken.
LEMMA RotationVacates ==
  ASSUME NEW t \in Tables, Occupied(t) = Indices, NEW p \in Indices
  PROVE  /\ Rotated(t, p) \in Tables
         /\ \E x \in Occupied(t) : Occupied(Rotated(t, p)) = Occupied(t) \ {x}
<1> DEFINE others    == Capacity - 1
           Passed(k) == t[After(p, 1 + ((k - 1) % others))]
           K         == {k \in 1 .. Capacity * others : Ideal[Passed(k).id] = After(p, k)}
           last      == Min(K) - 1
           hole      == After(p, last)
           r         == Rotated(t, p)
<1>1. others \in Nat \ {0} /\ \A k \in Int : k % others \in Int
  <2>1. PICK n \in Nat \ {0} : n = others
    BY TableAssumption
  <2>2. \A k \in Int : k % n \in 0 .. n - 1
    BY DivMod
  <2> QED BY <2>1, <2>2
<1>2. last \in Int
  <2>1. K # {}
    BY RotationEnds
  <2>2. \A k \in K : k \in Nat
    OBVIOUS
  <2> HIDE DEF K
  <2>3. K \subseteq Nat
    BY <2>2
  <2>4. Min(K) \in K
    BY <2>1, <2>3, LeastDistance
  <2>5. Min(K) \in Nat
    BY <2>3, <2>4
  <2> QED BY <2>5
<1>3. r = [i \in Indices |->
             IF i = hole THEN [Passed(last) EXCEPT !.id = NoId]
             ELSE Passed(last + 1 - ((hole - i) % Capacity))]
  BY DEF Rotated
<1> HIDE DEF K, last
<1>4. \A k \in Int : /\ Passed(k) \in Entries /\ Passed(k).id # NoId
                     /\ [Passed(k) EXCEPT !.id = NoId] \in Entries
                     /\ [Passed(k) EXCEPT !.id = NoId].id = NoId
  <2> SUFFICES ASSUME NEW k \in Int
               PROVE  /\ Passed(k) \in Entries /\ Passed(k).id # NoId
                      /\ [Passed(k) EXCEPT !.id = NoId] \in Entries
                      /\ [Passed(k) EXCEPT !.id = NoId].id = NoId
    OBVIOUS
  <2>1. PICK c \in Int : c = 1 + ((k - 1) % others)
    BY <1>1
  <2>2. PICK s \in Indices : s = After(p, c)
    BY <2>1, AfterInTable
  <2>3. Passed(k) = t[s] /\ t[s] \in Entries /\ t[s].id # NoId
    BY <2>1, <2>2 DEF Tables, Occupied
  <2> HIDE DEF Passed
  <2> QED BY <2>3 DEF Entries
<1>5. hole \in Indices
  BY <1>2, AfterInTable
<1> HIDE DEF Passed, hole, r
<1>6. \A i \in Indices : last + 1 - ((hole - i) % Capacity) \in Int
  <2> SUFFICES ASSUME NEW i \in Indices PROVE (hole - i) % Capacity \in Int
    BY <1>2
  <2>1. PICK n \in Int : n = hole - i
    BY <1>5, TableAssumption DEF Indices
  <2>2. n % Capacity \in 0 .. Capacity - 1
    BY DivMod, TableAssumption
  <2> QED BY <2>1, <2>2
<1>7. r \in Tables
  BY <1>2, <1>3, <1>4, <1>6 DEF Tables
<1>8. \A i \in Indices : r[i].id # NoId <=> i # hole
  BY <1>2, <1>3, <1>4, <1>6
<1> QED BY <1>5, <1>7, <1>8 DEF Occupied, r

\* So does every erase, wherever its backshift stops.
LEMMA EraseFreesOne ==
  ASSUME NEW t \in Tables, NEW id \in Ids, Stops(t, id) # {}, Holds(t, id)
  PROVE  /\ HashErase(t, id) \in Tables
         /\ \E x \in Occupied(t) : Occupied(HashErase(t, id)) = Occupied(t) \ {x}
<1>1. PICK p \in Indices : p = SlotFor(t, id) /\ t[p].id = id /\ id # NoId
  BY FoundIsStored, TableAssumption
<1>2. CASE Occupied(t) = Indices /\ ShiftEnds(t, p) = {}
  <2>1. HashErase(t, id) = Rotated(t, p)
    BY <1>1, <1>2 DEF HashErase
  <2> QED BY <1>2, <2>1, RotationVacates
<1>3. CASE ShiftEnds(t, p) # {}
  <2>1. ShiftEnds(t, p) \subseteq Nat
    BY TableAssumption DEF ShiftEnds
  <2>2. /\ Min(ShiftEnds(t, p)) \in 1 .. Capacity - 1
        /\ \A d \in ShiftEnds(t, p) : Min(ShiftEnds(t, p)) <= d
    BY <1>3, <2>1, LeastDistance DEF ShiftEnds
  <2>3. PICK last \in Nat : last = Min(ShiftEnds(t, p)) - 1 /\ last < Capacity - 1
    BY <2>2, TableAssumption
  <2>4. HashErase(t, id) = Shifted(t, p, last)
    BY <1>1, <1>3, <2>3 DEF HashErase
  <2>5. ASSUME NEW d \in 0 .. last PROVE After(p, d) \in Occupied(t)
    <3>1. CASE d = 0
      BY <1>1, <3>1, AfterNothing DEF Occupied
    <3>2. CASE d # 0
      <4>1. d \in 1 .. Capacity - 1 /\ d \notin ShiftEnds(t, p) /\ d \in Int
        BY <2>2, <2>3, <3>2, TableAssumption
      <4> QED BY <4>1, AfterInTable DEF ShiftEnds, Occupied
    <3> QED BY <3>1, <3>2
  <2> QED BY <2>4, <2>5, ShiftVacates
<1>4. CASE Occupied(t) # Indices
  <2>1. PICK j \in Indices : t[j].id = NoId
    BY <1>4 DEF Occupied
  <2>2. Distance(p, j) \in Indices /\ After(p, Distance(p, j)) = j
    BY AfterReaches
  <2>3. Distance(p, j) # 0
    BY <1>1, <2>1, <2>2, AfterNothing
  <2>4. Distance(p, j) \in ShiftEnds(t, p)
    BY <2>1, <2>2, <2>3, TableAssumption DEF ShiftEnds, Indices
  <2> QED BY <1>3, <2>4
<1> QED BY <1>2, <1>3, <1>4

\* size() counts the occupied slots, whatever the hash function and the calls:
\* also when the table is full, and when entries are left behind that no order
\* has (order_id_map.hpp:84).
THEOREM SizeCounts ==
  Spec => [](size = Cardinality(Occupied(table)))
<1> DEFINE Counted == table \in Tables /\ size = Cardinality(Occupied(table))
<1>1. Init => Counted
  BY FS_EmptySet DEF Init, NewTable, Tables, Entries, Occupied
<1>2. ASSUME Counted, [Next]_vars PROVE Counted'
  <2>1. IsFiniteSet(Occupied(table)) /\ table \in Tables /\ size = Cardinality(Occupied(table))
    BY <1>2, OccupiedFinite
  <2>2. ASSUME table' = table, size' = size PROVE Counted'
    BY <1>2, <2>2 DEF Occupied
  <2>3. ASSUME NEW id \in Ids, NEW v \in Values, Insert(id, v) PROVE Counted'
    <3>1. CASE Holds(table, id)
      BY <2>2, <2>3, <3>1 DEF Insert, HashInsert
    <3>2. CASE ~Holds(table, id)
      <4>1. /\ table' \in Tables /\ size' = size + 1
            /\ SlotFor(table, id) \notin Occupied(table)
            /\ Occupied(table') = Occupied(table) \cup {SlotFor(table, id)}
        BY <2>1, <2>3, <3>2, InsertOccupies DEF Insert
      <4>2. Cardinality(Occupied(table')) = Cardinality(Occupied(table)) + 1
        BY <2>1, <4>1, FS_AddElement
      <4> QED BY <2>1, <4>1, <4>2 DEF Occupied
    <3> QED BY <3>1, <3>2
  <2>4. ASSUME NEW id \in Ids, Erase(id) PROVE Counted'
    <3>1. CASE ~Holds(table, id)
      BY <2>2, <2>4, <3>1 DEF Erase, HashErase
    <3>2. CASE Holds(table, id)
      <4>1. /\ table' \in Tables /\ size' = size - 1
            /\ \E x \in Occupied(table) : Occupied(table') = Occupied(table) \ {x}
        BY <2>1, <2>4, <3>2, EraseFreesOne DEF Erase
      <4>2. Cardinality(Occupied(table')) = Cardinality(Occupied(table)) - 1
        BY <2>1, <4>1, FS_RemoveElement
      <4> QED BY <2>1, <4>1, <4>2 DEF Occupied
    <3> QED BY <3>1, <3>2
  <2>5. CASE \E id \in Ids : Find(id)
    BY <2>2, <2>5 DEF Find
  <2>6. CASE UNCHANGED vars
    BY <2>2, <2>6 DEF vars
  <2> HIDE DEF Counted
  <2> QED BY <1>2, <2>3, <2>4, <2>5, <2>6 DEF Next
<1> QED BY <1>1, <1>2, PTL DEF Spec

-----------------------------------------------------------------------------
(* The map and its client, for as long as LinearProbing holds.             *)

\* The inductive invariant: the entries are the live orders, each in the slot
\* of the slab that its entry leads to.
Agreement ==
  /\ table \in Tables /\ Once(table) /\ Valued(table)
  /\ order \in [Values -> Ids \cup {NoId}]
  /\ \A i \in Indices : table[i].id # NoId => order[table[i].value] = table[i].id
  /\ \A v \in Live : \E i \in Indices : table[i] = [id |-> order[v], value |-> v]
  /\ size = Cardinality(Live)

\* Then the table has room: no more entries than the slab has slots.
LEMMA AgreementLeavesRoom ==
  ASSUME Agreement
  PROVE  Cardinality(Occupied(table)) < Capacity
<1> DEFINE f == [i \in Occupied(table) |-> table[i].value]
<1>1. f \in Injection(Occupied(table), Values)
  BY DEF Agreement, Once, Valued, Occupied, Injection, IsInjective
<1>2. IsFiniteSet(Values) /\ Cardinality(Values) \in Nat /\ Cardinality(Values) < Capacity
  BY MapAssumption, FS_CardinalityType
<1>3. Cardinality(Occupied(table)) <= Cardinality(Values)
  BY <1>1, <1>2, FS_Injection
<1> QED BY <1>2, <1>3, OccupiedFinite, TableAssumption

\* A new map is empty, and no order is live.
LEMMA InitAgrees ==
  Init => Agreement
<1> SUFFICES ASSUME Init PROVE Agreement
  OBVIOUS
<1>1. /\ table \in Tables /\ Once(table) /\ Valued(table)
      /\ \A i \in Indices : table[i].id = NoId
  BY DEF Init, NewTable, Tables, Entries, Once, Valued
<1>2. order \in [Values -> Ids \cup {NoId}] /\ Live = {}
  BY DEF Init, Live
<1> QED BY <1>1, <1>2, FS_EmptySet DEF Init, Agreement

\* insert of an id that is not there.
LEMMA InsertKeepsAgreement ==
  ASSUME Agreement, LinearProbing, NEW id \in Ids, NEW v \in Values,
         Insert(id, v), ~Holds(table, id)
  PROVE  Agreement'
<1> DEFINE p == SlotFor(table, id)
<1>1. /\ table \in Tables /\ Once(table) /\ Valued(table) /\ Probing(table)
      /\ id # NoId /\ v \notin Live /\ order[v] = NoId
  BY TableAssumption DEF Agreement, LinearProbing, Probing, Insert, Live
<1>2. /\ p \in Indices /\ table'[p] = [id |-> id, value |-> v] /\ table[p].id = NoId
      /\ \A i \in Indices \ {p} : table'[i] = table[i]
      /\ Once(table') /\ Valued(table')
  BY <1>1, InsertKeepsOthers DEF Insert
<1>3. table' \in Tables
  BY <1>1, InsertOccupies DEF Insert
<1> HIDE DEF p
<1>4. /\ order' = [order EXCEPT ![v] = id] /\ size' = size + 1
      /\ order \in [Values -> Ids \cup {NoId}]
  BY DEF Insert, Agreement
<1>5. /\ order' \in [Values -> Ids \cup {NoId}] /\ order'[v] = id
      /\ \A w \in Values \ {v} : order'[w] = order[w]
  BY <1>4
<1>6. Live' = Live \cup {v}
  BY <1>1, <1>5 DEF Live
<1>7. Cardinality(Live') = Cardinality(Live) + 1
  <2>1. IsFiniteSet(Live)
    BY MapAssumption, FS_Subset DEF Live
  <2> QED BY <1>1, <1>6, <2>1, FS_AddElement
<1>8. ASSUME NEW i \in Indices, table'[i].id # NoId
      PROVE  order'[table'[i].value] = table'[i].id
  <2>1. CASE i = p
    BY <1>2, <1>5, <2>1
  <2>2. CASE i # p
    <3>1. table[i] = table'[i] /\ table[i].value \in Values
      BY <1>1, <1>2, <1>8, <2>2 DEF Valued
    <3>2. order[table[i].value] = table[i].id
      BY <1>8, <3>1 DEF Agreement
    <3>3. table[i].value # v
      BY <1>1, <1>8, <3>1, <3>2
    <3> QED BY <1>5, <3>1, <3>2, <3>3
  <2> QED BY <2>1, <2>2
<1>9. ASSUME NEW w \in Live'
      PROVE  \E i \in Indices : table'[i] = [id |-> order'[w], value |-> w]
  <2>1. CASE w = v
    BY <1>2, <1>5, <2>1
  <2>2. CASE w # v
    <3>1. w \in Live /\ w \in Values /\ order'[w] = order[w] /\ order[w] # NoId
      BY <1>5, <1>6, <2>2 DEF Live
    <3>2. PICK i \in Indices : table[i] = [id |-> order[w], value |-> w]
      BY <3>1 DEF Agreement
    <3>3. i # p
      BY <1>2, <3>1, <3>2
    <3> QED BY <1>2, <3>1, <3>2, <3>3
  <2> QED BY <2>1, <2>2
<1> QED BY <1>2, <1>3, <1>4, <1>5, <1>7, <1>8, <1>9 DEF Agreement, Once, Valued

\* What an erase is followed by giving back: the slot that find() leads to, and
\* nothing if the id is not there.
LEMMA ReleasedIsFound ==
  ASSUME Agreement, LinearProbing, NEW id \in Ids
  PROVE  /\ Holds(table, id) =>
              /\ HashFind(table, id) = table[SlotFor(table, id)].value
              /\ HashFind(table, id) \in Live
              /\ Released(id) = {HashFind(table, id)}
         /\ ~Holds(table, id) => Released(id) = {}
<1>1. /\ table \in Tables /\ Once(table) /\ Valued(table) /\ Probing(table)
      /\ Cardinality(Occupied(table)) < Capacity
      /\ id # NoId /\ Null \notin Values
  BY AgreementLeavesRoom, TableAssumption DEF Agreement, LinearProbing, Probing
<1>2. Stops(table, id) # {}
  BY <1>1, SearchEnds
<1>3. ASSUME NEW v \in Values, order[v] = id
      PROVE  Holds(table, id) /\ table[SlotFor(table, id)].value = v
  <2>1. v \in Live
    BY <1>1, <1>3 DEF Live
  <2>2. PICK i \in Indices : table[i] = [id |-> order[v], value |-> v]
    BY <2>1 DEF Agreement
  <2>3. SlotFor(table, id) = i /\ Holds(table, id)
    BY <1>1, <1>3, <2>2, StoredIsFound
  <2> QED BY <2>2, <2>3
<1>4. CASE Holds(table, id)
  <2>1. HashFind(table, id) = table[SlotFor(table, id)].value
    BY <1>4 DEF HashFind
  <2>2. SlotFor(table, id) \in Indices /\ table[SlotFor(table, id)].id = id
    BY <1>1, <1>2, <1>4, FoundIsStored
  <2>3. PICK w \in Values : w = HashFind(table, id)
    BY <1>1, <2>1, <2>2 DEF Valued
  <2>4. order[w] = id
    BY <1>1, <2>1, <2>2, <2>3 DEF Agreement
  <2>5. Released(id) = {w}
    BY <1>3, <2>1, <2>3, <2>4 DEF Released
  <2> QED BY <1>1, <1>4, <2>1, <2>3, <2>4, <2>5 DEF Live
<1>5. CASE ~Holds(table, id)
  <2>1. HashFind(table, id) = Null
    BY <1>5 DEF HashFind
  <2> QED BY <1>1, <1>3, <1>5, <2>1 DEF Released
<1> QED BY <1>4, <1>5

\* erase of an id that is there.
LEMMA EraseKeepsAgreement ==
  ASSUME Agreement, LinearProbing, NEW id \in Ids, Erase(id), Holds(table, id)
  PROVE  Agreement'
<1> DEFINE p == SlotFor(table, id)
<1>1. /\ table \in Tables /\ Once(table) /\ Valued(table)
      /\ Cardinality(Occupied(table)) < Capacity /\ id # NoId
  BY AgreementLeavesRoom, TableAssumption DEF Agreement
<1>2. PICK w \in Live : /\ w = HashFind(table, id) /\ w = table[p].value
                        /\ Released(id) = {w}
  BY ReleasedIsFound
<1>3. p \in Indices /\ table[p].id = id
  BY <1>1, SearchEnds, FoundIsStored
<1>4. /\ \A j \in Indices : table'[j].id # NoId => \E i \in Indices \ {p} : table[i] = table'[j]
      /\ \A i \in Indices \ {p} : table[i].id # NoId => \E j \in Indices : table'[j] = table[i]
      /\ Once(table')
  BY <1>1, EraseKeepsOthers DEF Erase
<1>5. table' \in Tables
  BY <1>1, EraseVacates DEF Erase
<1> HIDE DEF p
<1>6. /\ order' = [order EXCEPT ![w] = NoId] /\ size' = size - 1
      /\ order \in [Values -> Ids \cup {NoId}] /\ w \in Values
  BY <1>2 DEF Erase, Agreement, Live
<1>7. /\ order' \in [Values -> Ids \cup {NoId}] /\ order'[w] = NoId
      /\ \A v \in Values \ {w} : order'[v] = order[v]
  BY <1>6
<1>8. Live' = Live \ {w}
  BY <1>7 DEF Live
<1>9. Cardinality(Live') = Cardinality(Live) - 1
  <2>1. IsFiniteSet(Live)
    BY MapAssumption, FS_Subset DEF Live
  <2> QED BY <1>8, <2>1, FS_RemoveElement
\* The other entries lead to other slots of the slab.
<1>10. ASSUME NEW i \in Indices \ {p}, table[i].id # NoId
       PROVE  table[i].value \in Values \ {w} /\ order[table[i].value] = table[i].id
  <2>1. table[i].value \in Values /\ order[table[i].value] = table[i].id
    BY <1>1, <1>10 DEF Valued, Agreement
  <2>2. order[w] = id
    BY <1>1, <1>2, <1>3 DEF Agreement
  <2>3. table[i].id # id
    BY <1>1, <1>3, <1>10 DEF Once
  <2> QED BY <2>1, <2>2, <2>3
<1>11. \A j \in Indices : table'[j].id # NoId =>
         table'[j].value \in Values /\ order'[table'[j].value] = table'[j].id
  BY <1>4, <1>7, <1>10
<1>12. ASSUME NEW v \in Live'
       PROVE  \E j \in Indices : table'[j] = [id |-> order'[v], value |-> v]
  <2>1. v \in Live /\ v # w /\ v \in Values /\ order'[v] = order[v] /\ order[v] # NoId
    BY <1>7, <1>8, <1>12 DEF Live
  <2>2. PICK i \in Indices : table[i] = [id |-> order[v], value |-> v]
    BY <2>1 DEF Agreement
  <2>3. i # p /\ table[i].id # NoId
    BY <1>2, <2>1, <2>2
  <2>4. PICK j \in Indices : table'[j] = table[i]
    BY <1>4, <2>3
  <2> QED BY <2>1, <2>2, <2>4
<1>13. Valued(table')
  BY <1>11 DEF Valued
<1> QED BY <1>4, <1>5, <1>6, <1>7, <1>9, <1>11, <1>12, <1>13 DEF Agreement, Once, Valued

\* So no call leaves an entry behind, or an order without one.
LEMMA NextKeepsAgreement ==
  ASSUME Agreement, LinearProbing, [Next]_vars
  PROVE  Agreement'
<1>1. ASSUME table' = table, order' = order, size' = size PROVE Agreement'
  BY <1>1 DEF Agreement, Once, Valued, Live
<1>2. ASSUME NEW id \in Ids, NEW v \in Values, Insert(id, v) PROVE Agreement'
  <2>1. CASE Holds(table, id)
    BY <1>1, <1>2, <2>1 DEF Insert, HashInsert
  <2> QED BY <1>2, <2>1, InsertKeepsAgreement
<1>3. ASSUME NEW id \in Ids, Erase(id) PROVE Agreement'
  <2>1. CASE ~Holds(table, id)
    BY <1>1, <1>3, <2>1, ReleasedIsFound DEF Erase, HashErase
  <2> QED BY <1>3, <2>1, EraseKeepsAgreement
<1>4. CASE \E id \in Ids : Find(id)
  BY <1>1, <1>4 DEF Find
<1>5. CASE UNCHANGED vars
  BY <1>1, <1>5 DEF vars
<1> QED BY <1>2, <1>3, <1>4, <1>5 DEF Next

\* For as long as LinearProbing holds, the table holds the live orders of the
\* engine and nothing else, whatever the hash function and the calls: each order
\* is found, and every search meets an empty slot and ends.  Neither the table
\* nor the engine counts entries; it takes an erase that breaks LinearProbing
\* (order_id_map.hpp:84) for an entry to be left behind, or the table to fill.
THEOREM LiveOrdersHeld ==
  Spec /\ []LinearProbing => []HoldsLiveOrders
<1>1. ASSUME Agreement, LinearProbing PROVE HoldsLiveOrders
  <2>1. /\ table \in Tables /\ Once(table) /\ Valued(table) /\ Probing(table)
        /\ Cardinality(Occupied(table)) < Capacity
    BY <1>1, AgreementLeavesRoom DEF Agreement, LinearProbing, Probing
  <2>2. SearchesEnd
    BY <2>1, SearchEnds DEF SearchesEnd
  <2>3. ASSUME NEW v \in Live PROVE HashFind(table, order[v]) = v
    <3>1. PICK i \in Indices : table[i] = [id |-> order[v], value |-> v]
      BY <1>1 DEF Agreement
    <3>2. order[v] \in Ids
      BY <1>1 DEF Agreement, Live
    <3>3. SlotFor(table, order[v]) = i /\ Holds(table, order[v])
      BY <2>1, <3>1, <3>2, StoredIsFound
    <3> QED BY <3>1, <3>3 DEF HashFind
  <2>4. ASSUME NEW id \in Ids, HashFind(table, id) # Null
        PROVE  order[HashFind(table, id)] = id
    <3>1. Holds(table, id) /\ HashFind(table, id) = table[SlotFor(table, id)].value
      BY <2>4 DEF HashFind
    <3>2. SlotFor(table, id) \in Indices /\ table[SlotFor(table, id)].id = id
      BY <2>1, <2>2, <3>1, FoundIsStored DEF SearchesEnd
    <3>3. id # NoId
      BY TableAssumption
    <3> QED BY <1>1, <3>1, <3>2, <3>3 DEF Agreement
  <2>5. size = Cardinality(Live)
    BY <1>1 DEF Agreement
  <2> QED BY <2>2, <2>3, <2>4, <2>5 DEF HoldsLiveOrders
<1> QED BY <1>1, InitAgrees, NextKeepsAgreement, PTL DEF Spec

\* What a step then does to the dictionary.
LEMMA StepIsDictionaryStep ==
  ASSUME Agreement, LinearProbing, Agreement', LinearProbing', [Next]_vars
  PROVE  [Dict!Next]_Dict!vars
<1> DEFINE before == AbstractDict(table)
           after  == AbstractDict(table')
<1>1. /\ table \in Tables /\ Cardinality(Occupied(table)) < Capacity
      /\ Once(table) /\ Valued(table) /\ Probing(table)
  BY AgreementLeavesRoom DEF Agreement, LinearProbing, Probing
<1>2. /\ table' \in Tables /\ Cardinality(Occupied(table')) < Capacity
      /\ Once(table') /\ Valued(table') /\ Probing(table')
  <2>1. (Agreement => Cardinality(Occupied(table)) < Capacity)'
    BY AgreementLeavesRoom, PTL
  <2>2. Occupied(table)' = Occupied(table') /\ Once(table)' = Once(table')
        /\ Valued(table)' = Valued(table')
    BY DEF Occupied, Once, Valued
  <2> QED BY <2>1, <2>2 DEF Agreement, LinearProbing, Probing
<1> DEFINE present == {id \in Ids : before[id] # Null}
<1>3. /\ before = [x \in Ids |-> before[x]] /\ after = [x \in Ids |-> after[x]]
      /\ Dict!vars = <<before, reply>> /\ Dict!vars' = <<after, reply'>>
  BY DEF Dict!vars, AbstractDict
<1>4. /\ \A x \in Ids : Holds(table, x) <=> x \in present
      /\ \A x \in Ids : before[x] = HashFind(table, x)
      /\ \A x \in Ids : ~Holds(table, x) => before[x] = Null
  BY <1>1, Lookup
<1>5. Dict!Present = present
  BY DEF Dict!Present, Dict!Absent, Null, AbstractDict
<1>6. ASSUME NEW id \in Ids, NEW v \in Values,
              after = Dict!DictInsert(before, id, v),
              reply' = [call |-> "insert", id |-> id, ok |-> id \notin present]
       PROVE  Dict!Insert(id, v)
  BY <1>5, <1>6 DEF Dict!Insert, AbstractDict
<1>7. ASSUME NEW id \in Ids, after = Dict!DictErase(before, id),
              reply' = [call |-> "erase", id |-> id, ok |-> id \in present]
       PROVE  Dict!Erase(id)
  BY <1>5, <1>7 DEF Dict!Erase, AbstractDict
<1>8. ASSUME NEW id \in Ids, after = before,
              reply' = [call |-> "find", id |-> id, value |-> before[id]]
       PROVE  Dict!Find(id)
  BY <1>8 DEF Dict!Find, Dict!DictFind, AbstractDict
<1> HIDE DEF before, after, present
<1>9. ASSUME NEW id \in Ids, NEW v \in Values, Insert(id, v) PROVE Dict!Insert(id, v)
  <2>1. CASE Holds(table, id)
    <3>1. table' = table /\ id \in present /\ before[id] # Null
      BY <1>4, <1>9, <2>1 DEF Insert, HashInsert, present
    <3>2. after = before
      BY <3>1 DEF before, after
    <3>3. Dict!DictInsert(before, id, v) = before
      BY <3>1 DEF Dict!DictInsert, Dict!Absent, Null
    <3> QED BY <1>9, <1>6, <2>1, <3>1, <3>2, <3>3 DEF Insert
  <2>2. CASE ~Holds(table, id)
    <3> DEFINE p == SlotFor(table, id)
    <3>1. /\ p \in Indices /\ table'[p] = [id |-> id, value |-> v] /\ table[p].id = NoId
          /\ \A i \in Indices \ {p} : table'[i] = table[i]
      BY <1>1, <1>9, <2>2, InsertKeepsOthers DEF Insert
    <3>2. after[id] = v
      BY <1>2, <3>1, Lookup DEF after
    <3>3. ASSUME NEW x \in Ids, x # id PROVE after[x] = before[x]
      <4>1. x # NoId
        BY TableAssumption
      <4>2. \A i \in Indices : table[i].id = x => table'[i] = table[i]
        BY <3>1, <4>1
      <4>3. \A j \in Indices : table'[j].id = x => table[j] = table'[j]
        BY <3>1, <3>3
      <4> QED BY <1>1, <1>2, <4>2, <4>3, SameLookup DEF before, after
    <3>4. id \notin present /\ before[id] = Null
      BY <1>4, <2>2
    <3>5. after = [before EXCEPT ![id] = v]
      BY <1>3, <3>2, <3>3
    <3>6. after = Dict!DictInsert(before, id, v)
      BY <3>4, <3>5 DEF Dict!DictInsert, Dict!Absent, Null
    <3> QED BY <1>9, <1>6, <2>2, <3>4, <3>6 DEF Insert
  <2> QED BY <2>1, <2>2
<1>10. ASSUME NEW id \in Ids, Erase(id) PROVE Dict!Erase(id)
  <2>1. after = [before EXCEPT ![id] = Null]
    <3>1. CASE ~Holds(table, id)
      <4>1. table' = table /\ before[id] = Null
        BY <1>4, <1>10, <3>1 DEF Erase, HashErase
      <4> QED BY <1>3, <4>1 DEF before, after
    <3>2. CASE Holds(table, id)
      <4> DEFINE p == SlotFor(table, id)
      <4>1. /\ \A j \in Indices : table'[j].id # NoId => \E i \in Indices \ {p} : table[i] = table'[j]
            /\ \A i \in Indices \ {p} : table[i].id # NoId => \E j \in Indices : table'[j] = table[i]
        BY <1>1, <1>10, <3>2, EraseKeepsOthers DEF Erase
      <4>2. p \in Indices /\ table[p].id = id /\ id # NoId
        BY <1>1, <3>2, SearchEnds, FoundIsStored, TableAssumption
      <4> HIDE DEF p
      <4>3. ~\E j \in Indices : table'[j].id = id
        BY <1>1, <4>1, <4>2 DEF Once
      <4>4. after[id] = Null
        BY <1>2, <4>3, Lookup DEF after
      <4>5. ASSUME NEW x \in Ids, x # id PROVE after[x] = before[x]
        <5>1. x # NoId
          BY TableAssumption
        <5>2. \A i \in Indices : table[i].id = x => \E j \in Indices : table'[j] = table[i]
          BY <4>1, <4>2, <4>5, <5>1
        <5>3. \A j \in Indices : table'[j].id = x => \E i \in Indices : table[i] = table'[j]
          BY <4>1, <5>1
        <5> QED BY <1>1, <1>2, <5>2, <5>3, SameLookup DEF before, after
      <4> QED BY <1>3, <4>4, <4>5
    <3> QED BY <3>1, <3>2
  <2>2. after = Dict!DictErase(before, id)
    BY <2>1 DEF Dict!DictErase, Dict!Absent, Null
  <2>3. reply' = [call |-> "erase", id |-> id, ok |-> id \in present]
    <3>1. CASE Holds(table, id)
      BY <1>4, <1>10, <3>1 DEF Erase
    <3>2. CASE ~Holds(table, id)
      <4>1. Holds(table, id) = FALSE /\ (id \in present) = FALSE
        BY <1>4, <3>2 DEF Holds
      <4> QED BY <1>10, <4>1 DEF Erase
    <3> QED BY <3>1, <3>2
  <2> QED BY <1>10, <1>7, <2>2, <2>3
<1>11. ASSUME NEW id \in Ids, Find(id) PROVE Dict!Find(id)
  <2>1. after = before /\ HashFind(table, id) = before[id]
    BY <1>4, <1>11 DEF Find, before, after
  <2> QED BY <1>11, <1>8, <2>1 DEF Find
<1>12. CASE UNCHANGED vars
  BY <1>3, <1>12 DEF vars, before, after
<1> QED BY <1>9, <1>10, <1>11, <1>12 DEF Next, Dict!Next

\* The map is a dictionary for as long as LinearProbing holds, whatever the hash
\* function, the calls and their order: losing it in an erase is the only way
\* in which find can come to miss an id that is there, or insert to store one
\* twice.
THEOREM DictionaryWhileProbing ==
  Spec /\ []LinearProbing => ImplementsDictionary
<1>1. Init => Dict!Init
  <2> SUFFICES ASSUME Init PROVE Dict!Init
    OBVIOUS
  <2>1. \A id \in Ids : HashFind(NewTable, id) = Null
    <3> SUFFICES ASSUME NEW id \in Ids PROVE HashFind(NewTable, id) = Null
      OBVIOUS
    <3>1. \A i \in Indices : NewTable[i] = [id |-> NoId, value |-> Null]
      BY DEF NewTable
    <3>2. NewTable \in Tables /\ Cardinality(Occupied(NewTable)) < Capacity
      BY InitAgrees, AgreementLeavesRoom DEF Init, Agreement
    <3>3. SlotFor(NewTable, id) \in Indices
      BY <3>2, SearchEnds, SearchFinds
    <3> QED BY <3>1, <3>3 DEF HashFind
  <2> QED BY <2>1 DEF Init, Dict!Init, Dict!Empty, Dict!Absent, Null
<1> QED BY <1>1, InitAgrees, NextKeepsAgreement, StepIsDictionaryStep, PTL DEF Spec, ImplementsDictionary, Dict!Spec

-----------------------------------------------------------------------------
(* When the backshift keeps LinearProbing.                                 *)

\* In slot s lies an entry whose ideal slot it is: the backshift stops there.
AtHome(t, s) == t[s].id # NoId /\ Ideal[t[s].id] = s

\* No entry lies beyond such a slot, seen from its own ideal slot.
NonePassed(t) ==
  \A i \in Occupied(t) : \A d \in Indices :
    After(Ideal[t[i].id], d) = i =>
      \A e \in 1 .. d - 1 : ~AtHome(t, After(Ideal[t[i].id], e))

\* Where an entry comes from that lies in slot i after a backshift.
LEMMA ShiftMoves ==
  ASSUME NEW t \in Tables, NEW p \in Indices, NEW last \in Nat,
         \A d \in 0 .. last : After(p, d) \in Occupied(t),
         \A d \in 1 .. last : d \notin ShiftEnds(t, p), last < Capacity - 1,
         NEW i \in Occupied(Shifted(t, p, last))
  PROVE  LET r == Shifted(t, p, last)
         IN  /\ i \in Occupied(t) /\ i # After(p, last)
             /\ \/ r[i] = t[i]
                \/ /\ After(i, 1) \in Occupied(t) /\ r[i] = t[After(i, 1)]
                   /\ ~AtHome(t, After(i, 1))
<1> DEFINE r == Shifted(t, p, last)
<1>1. i \in Occupied(t) /\ i # After(p, last) /\ i \in Indices
  BY ShiftVacates DEF Occupied
<1>2. r[i] = IF \E d \in 0 .. last - 1 : i = After(p, d) THEN t[After(i, 1)] ELSE t[i]
  BY <1>1 DEF Shifted
<1> HIDE DEF r
<1>3. CASE \E d \in 0 .. last - 1 : i = After(p, d)
  <2>1. PICK d \in 0 .. last - 1 : i = After(p, d)
    BY <1>3
  <2>2. PICK e \in 1 .. last : e = d + 1
    OBVIOUS
  <2>3. After(i, 1) = After(p, e) /\ e \in 0 .. last /\ e \in 1 .. Capacity - 1
    BY <2>1, <2>2, AfterNext, TableAssumption
  <2>4. ~AtHome(t, After(i, 1)) /\ After(i, 1) \in Occupied(t)
    BY <2>3 DEF ShiftEnds, AtHome
  <2> QED BY <1>1, <1>2, <1>3, <2>4 DEF r
<1> QED BY <1>1, <1>2, <1>3 DEF r

\* If no entry has passed another at home, an erase empties no slot that any
\* search goes through.
LEMMA EraseKeepsProbing ==
  ASSUME NEW t \in Tables, Cardinality(Occupied(t)) < Capacity, Probing(t), NonePassed(t),
         NEW id \in Ids, Holds(t, id)
  PROVE  Probing(HashErase(t, id))
<1>1. PICK p \in Indices, last \in Nat :
        /\ last < Capacity - 1
        /\ \A d \in 0 .. last : After(p, d) \in Occupied(t)
        /\ HashErase(t, id) = Shifted(t, p, last)
        /\ \A d \in 1 .. last : d \notin ShiftEnds(t, p)
        /\ last + 1 \in ShiftEnds(t, p)
  BY EraseShifts
<1> DEFINE r    == Shifted(t, p, last)
           hole == After(p, last)
<1>2. /\ hole \in Indices
      /\ \A s \in Indices : s # hole => (s \in Occupied(r) <=> s \in Occupied(t))
      /\ After(hole, 1) \in Occupied(t) => AtHome(t, After(hole, 1))
  <2>1. hole \in Indices /\ Occupied(r) = Occupied(t) \ {hole}
    BY <1>1, ShiftVacates DEF Occupied
  <2>2. After(hole, 1) = After(p, last + 1)
    BY AfterNext
  <2> QED BY <1>1, <2>1, <2>2 DEF ShiftEnds, AtHome, Occupied
<1> SUFFICES ASSUME NEW i \in Indices, r[i].id # NoId,
                    NEW d \in Indices, After(Ideal[r[i].id], d) = i, NEW e \in 0 .. d
             PROVE  r[After(Ideal[r[i].id], e)].id # NoId
  BY <1>1 DEF Probing
<1>3. /\ i \in Occupied(t) /\ i # hole
      /\ \/ r[i] = t[i]
         \/ /\ After(i, 1) \in Occupied(t) /\ r[i] = t[After(i, 1)]
            /\ ~AtHome(t, After(i, 1))
  <2>1. i \in Occupied(r)
    BY DEF Occupied
  <2> QED BY <1>1, <2>1, ShiftMoves
<1> HIDE DEF r, hole
<1>4. Capacity \in Nat /\ d \in 0 .. Capacity - 1 /\ e \in Int
  BY TableAssumption DEF Indices
\* Where the entry lay, and that it was not at home there unless it stays.
<1>5. PICK x \in Occupied(t), g \in Indices, n \in Indices :
        /\ r[i] = t[x] /\ g = Ideal[t[x].id] /\ After(g, n) = x /\ After(g, d) = i
        /\ (x = i /\ n = d) \/ n = d + 1
  <2>1. PICK x \in Occupied(t) : /\ r[i] = t[x]
                                 /\ x = i \/ (x = After(i, 1) /\ ~AtHome(t, x))
    BY <1>3
  <2>2. t[x].id \in Ids /\ t[x].id # NoId /\ x \in Indices
    BY DEF Tables, Entries, Occupied
  <2>3. PICK g \in Indices : g = Ideal[t[x].id]
    BY <2>2, TableAssumption
  <2>4. After(g, d) = i
    BY <2>1, <2>3
  <2>5. CASE x = i
    BY <2>1, <2>3, <2>4, <2>5
  <2>6. CASE x = After(i, 1) /\ ~AtHome(t, x)
    <3>1. After(g, d + 1) = x
      BY <1>4, <2>4, <2>6, AfterNext
    <3>2. d + 1 \in Indices
      <4> SUFFICES ASSUME d + 1 \notin Indices PROVE FALSE
        OBVIOUS
      <4>1. d + 1 = Capacity
        BY <1>4 DEF Indices
      <4>2. After(g, Capacity) = g
        BY FullTurn
      <4> QED BY <2>2, <2>3, <2>6, <3>1, <4>1, <4>2 DEF AtHome
    <3> QED BY <2>1, <2>3, <2>4, <3>1, <3>2
  <2> QED BY <2>1, <2>5, <2>6
<1>6. n \in 0 .. Capacity - 1 /\ e \in 0 .. n /\ After(g, e) \in Indices
  <2>1. n \in 0 .. Capacity - 1 /\ e \in 0 .. n
    BY <1>4, <1>5 DEF Indices
  <2> QED BY <1>4, <2>1, AfterInTable
<1>7. After(g, e) \in Occupied(t)
  BY <1>5, <1>6 DEF Probing, Occupied
<1>8. After(g, e) # hole
  <2> SUFFICES ASSUME After(g, e) = hole PROVE FALSE
    OBVIOUS
  <2>1. e # d
    BY <1>3, <1>5
  <2>2. e + 1 \in 1 .. d /\ e + 1 \in 0 .. n /\ e + 1 \in Int
    BY <1>4, <1>5, <2>1
  <2>3. After(g, e + 1) = After(hole, 1)
    BY <1>4, AfterNext
  <2>4. After(g, e + 1) \in Indices /\ t[After(g, e + 1)].id # NoId
    BY <1>5, <2>2, AfterInTable DEF Probing, Occupied
  <2>5. AtHome(t, After(g, e + 1))
    BY <1>2, <2>3, <2>4 DEF Occupied
  <2>6. CASE e + 1 \in 1 .. n - 1
    BY <1>5, <2>5, <2>6 DEF NonePassed
  <2>7. CASE e + 1 \notin 1 .. n - 1
    <3>1. e + 1 = n /\ x = i /\ n = d
      BY <1>4, <1>5, <1>6, <2>2, <2>7
    <3>2. g = After(g, n) /\ n # 0
      BY <1>5, <2>2, <2>5, <3>1 DEF AtHome
    <3>3. After(g, 0) = g /\ 0 \in Indices
      BY AfterNothing, TableAssumption DEF Indices
    <3> QED BY <3>2, <3>3, AfterOnce
  <2> QED BY <2>6, <2>7
<1> QED BY <1>2, <1>5, <1>6, <1>7, <1>8 DEF Occupied

\* If one has, the erase of what lies before the entry at home breaks it.
LEMMA EraseBreaksProbing ==
  ASSUME NEW t \in Tables, Cardinality(Occupied(t)) < Capacity, Once(t), Probing(t),
         ~NonePassed(t)
  PROVE  \E id \in Ids : ~Probing(HashErase(t, id))
<1>1. PICK i \in Occupied(t), d \in Indices, e \in Nat :
        /\ After(Ideal[t[i].id], d) = i
        /\ e \in 1 .. d - 1 /\ AtHome(t, After(Ideal[t[i].id], e))
  <2>1. \A d \in Indices : \A e \in 1 .. d - 1 : e \in Nat
    OBVIOUS
  <2> QED BY <2>1 DEF NonePassed
<1>2. /\ i \in Indices /\ t[i].id # NoId /\ t[i].id \in Ids
      /\ Capacity \in Nat /\ d \in 0 .. Capacity - 1 /\ e \in 1 .. d - 1
  <2>1. i \in Indices /\ t[i].id # NoId /\ t[i] \in Entries
    BY DEF Occupied, Tables
  <2> QED BY <1>1, <2>1, TableAssumption DEF Entries, Indices
<1>3. PICK g \in Indices : g = Ideal[t[i].id]
  BY <1>2, TableAssumption
<1>4. PICK k \in Indices : k + 1 = e /\ k \in 0 .. d /\ k # d /\ k \in Int
  <2>1. e - 1 \in Indices /\ (e - 1) + 1 = e /\ e - 1 \in 0 .. d /\ e - 1 # d
    BY <1>2 DEF Indices
  <2> QED BY <2>1, <1>2
<1>5. PICK p \in Indices : p = After(g, k)
  BY <1>3, <1>4, AfterInTable
<1>6. t[p].id # NoId /\ t[p].id \in Ids
  <2>1. t[p].id # NoId
    BY <1>1, <1>2, <1>3, <1>4, <1>5 DEF Probing
  <2> QED BY <2>1 DEF Tables, Entries
<1>7. PICK id \in Ids : id = t[p].id
  BY <1>6
<1>8. SlotFor(t, id) = p /\ Holds(t, id)
  BY <1>7, StoredIsFound
<1>9. PICK last \in Nat :
        /\ last < Capacity - 1
        /\ HashErase(t, id) = Shifted(t, p, last)
        /\ \A c \in 1 .. last : c \notin ShiftEnds(t, p)
  BY <1>8, EraseShifts
\* The shift stops before its first step.
<1>10. last = 0
  <2>1. After(p, 1) = After(g, e)
    BY <1>4, <1>5, AfterNext
  <2>2. 1 \in ShiftEnds(t, p)
    BY <1>1, <1>2, <1>3, <2>1 DEF ShiftEnds, AtHome
  <2> QED BY <1>9, <2>2
<1> DEFINE r == Shifted(t, p, 0)
<1>11. r[p].id = NoId /\ \A s \in Indices : s # p => r[s] = t[s]
  <2>1. After(p, 0) = p /\ t[p] \in Entries
    BY AfterNothing DEF Tables
  <2>2. 0 .. 0 - 1 = {}
    OBVIOUS
  <2>3. r = [s \in Indices |-> IF s = p THEN [t[s] EXCEPT !.id = NoId] ELSE t[s]]
    BY <2>1, <2>2 DEF Shifted
  <2> QED BY <2>1, <2>3 DEF Entries
<1> HIDE DEF r
<1>12. i # p
  BY <1>1, <1>3, <1>4, <1>5, AfterOnce
<1>13. ~Probing(r)
  <2>1. r[i] = t[i] /\ After(Ideal[r[i].id], d) = i /\ After(Ideal[r[i].id], k) = p
    BY <1>1, <1>2, <1>3, <1>5, <1>11, <1>12
  <2> QED BY <1>2, <1>4, <1>11, <2>1 DEF Probing
<1> QED BY <1>9, <1>10, <1>13 DEF r

\* Exactly when erase is safe.  In a table that searches are right about, no
\* erase breaks LinearProbing if and only if no entry has passed another in its
\* ideal slot: the entry that "we must not move" (order_id_map.hpp:84) does no
\* harm as long as nothing behind it has to be.
THEOREM BackshiftExact ==
  ASSUME NEW t \in Tables, Cardinality(Occupied(t)) < Capacity, Once(t), Probing(t)
  PROVE  NonePassed(t) <=> \A id \in Ids : Probing(HashErase(t, id))
<1>1. ASSUME NonePassed(t), NEW id \in Ids PROVE Probing(HashErase(t, id))
  <2>1. CASE Holds(t, id)
    BY <1>1, <2>1, EraseKeepsProbing
  <2>2. CASE ~Holds(t, id)
    BY <2>2 DEF HashErase
  <2> QED BY <2>1, <2>2
<1> QED BY <1>1, EraseBreaksProbing

\* So no call breaks LinearProbing ...
LEMMA NextKeepsProbing ==
  ASSUME Agreement, LinearProbing, NonePassed(table), [Next]_vars
  PROVE  LinearProbing'
<1>1. /\ table \in Tables /\ Once(table) /\ Probing(table)
      /\ Cardinality(Occupied(table)) < Capacity
  BY AgreementLeavesRoom DEF Agreement, LinearProbing, Probing
<1>2. ASSUME NEW id \in Ids, NEW v \in Values, Insert(id, v) PROVE Probing(table')
  <2>1. CASE Holds(table, id)
    BY <1>1, <1>2, <2>1 DEF Insert, HashInsert
  <2>2. CASE ~Holds(table, id)
    BY <1>1, <1>2, <2>2, InsertKeepsProbing DEF Insert
  <2> QED BY <2>1, <2>2
<1>3. ASSUME NEW id \in Ids, Erase(id) PROVE Probing(table')
  BY <1>1, <1>3, BackshiftExact DEF Erase
<1>4. CASE UNCHANGED table
  BY <1>4 DEF LinearProbing
<1>5. Probing(table') => LinearProbing'
  BY DEF LinearProbing, Probing
<1> QED BY <1>2, <1>3, <1>4, <1>5 DEF Next, Find, vars

\* ... while no entry passes another at home: overtaking one, and not colliding
\* or touching, is what the backshift does not deal with.
THEOREM RunsStayWhole ==
  Spec /\ []NonePassed(table) => []LinearProbing
<1>1. Init => LinearProbing
  BY DEF Init, NewTable, LinearProbing
<1> QED BY <1>1, InitAgrees, NextKeepsAgreement, NextKeepsProbing, PTL DEF Spec

\* Three ids are enough to break it, in a table of any size that has room for
\* them: two that collide and one whose ideal slot is the next.  Inserted in the
\* order `first`, `neighbour`, `second`, they leave `second` two slots from home;
\* the erase of `first` stops at `neighbour`, and `second` is there and is not
\* found.  cancel() then answers false for an order that rests
\* (order_book.hpp:188).
THEOREM TouchingIdsAreLost ==
  ASSUME NEW first \in Ids, NEW neighbour \in Ids, NEW second \in Ids,
         first # second,
         Ideal[second] = Ideal[first], Ideal[neighbour] = After(Ideal[first], 1),
         NEW u \in Values, NEW v \in Values, NEW w \in Values, Capacity > 3
  PROVE  LET t == HashInsert(HashInsert(HashInsert(NewTable, first, u), neighbour, v),
                             second, w)
         IN  /\ HashFind(t, first) = u /\ HashFind(t, neighbour) = v
             /\ HashFind(t, second) = w
             /\ HashFind(HashErase(t, first), second) = Null
             /\ \E i \in Indices : HashErase(t, first)[i].id = second
<1> DEFINE t1 == HashInsert(NewTable, first, u)
           t2 == HashInsert(t1, neighbour, v)
           t3 == HashInsert(t2, second, w)
           r  == HashErase(t3, first)
<1>1. PICK h \in Indices : h = Ideal[first]
  BY TableAssumption
<1>2. PICK a \in Indices, b \in Indices : a = After(h, 1) /\ b = After(h, 2)
  BY AfterInTable
<1>3. 0 \in Indices /\ 1 \in Indices /\ 2 \in Indices
  BY TableAssumption DEF Indices
<1>4. /\ After(h, 0) = h /\ After(a, 0) = a /\ After(a, 1) = b
      /\ h # a /\ a # b /\ h # b
  <2>1. After(h, 0) = h /\ After(a, 0) = a /\ After(a, 1) = b
    BY <1>2, AfterNothing, AfterNext
  <2>2. \A d, e \in Indices : After(h, d) = After(h, e) => d = e
    BY AfterOnce
  <2> QED BY <1>2, <1>3, <2>1, <2>2
<1>5. /\ first # NoId /\ neighbour # NoId /\ second # NoId
      /\ Ideal[first] = h /\ Ideal[second] = h /\ Ideal[neighbour] = a
      /\ first # neighbour /\ second # neighbour
  BY <1>1, <1>2, <1>4, TableAssumption
\* A search that has gone through `d` slots stops at the next, if it may.
<1>6. ASSUME NEW t, NEW id \in Ids, NEW d \in Indices,
             \A e \in 0 .. d - 1 : t[After(Ideal[id], e)].id \notin {id, NoId},
             t[After(Ideal[id], d)].id \in {id, NoId}
      PROVE  SlotFor(t, id) = After(Ideal[id], d)
  <2>1. d \in Stops(t, id) /\ Stops(t, id) \subseteq Nat
    BY <1>6, TableAssumption DEF Stops, Indices
  <2>2. Min(Stops(t, id)) \in Stops(t, id) /\ Min(Stops(t, id)) <= d
    BY <2>1, LeastDistance
  <2>3. PICK m \in Nat : m = Min(Stops(t, id)) /\ m <= d /\ m \in Stops(t, id)
    BY <2>1, <2>2
  <2>4. m \notin 0 .. d - 1
    BY <1>6, <2>3 DEF Stops
  <2>5. d \in Nat
    BY TableAssumption DEF Indices
  <2>6. m = d
    BY <2>3, <2>4, <2>5
  <2> QED BY <2>3, <2>6 DEF SlotFor
<1>7. ASSUME NEW t, NEW id \in Ids, t[Ideal[id]].id \in {id, NoId}
      PROVE  SlotFor(t, id) = Ideal[id]
  <2>1. Ideal[id] \in Indices /\ After(Ideal[id], 0) = Ideal[id] /\ 0 .. 0 - 1 = {}
    BY AfterNothing, TableAssumption
  <2> QED BY <1>3, <1>6, <1>7, <2>1
<1>8. NewTable \in Tables /\ \A i \in Indices : NewTable[i].id = NoId
  BY DEF NewTable, Tables, Entries
<1>9. t1 = [NewTable EXCEPT ![h] = [id |-> first, value |-> u]]
  BY <1>1, <1>5, <1>7, <1>8 DEF HashInsert, Holds
<1>10. /\ t1[h] = [id |-> first, value |-> u] /\ DOMAIN t1 = Indices
       /\ \A i \in Indices \ {h} : t1[i].id = NoId
  BY <1>8, <1>9 DEF Tables
<1> HIDE DEF t1
<1>11. t2 = [t1 EXCEPT ![a] = [id |-> neighbour, value |-> v]]
  BY <1>4, <1>5, <1>7, <1>10 DEF HashInsert, Holds
<1>12. /\ t2[h] = [id |-> first, value |-> u] /\ DOMAIN t2 = Indices
       /\ t2[a] = [id |-> neighbour, value |-> v]
       /\ \A i \in Indices \ {h, a} : t2[i].id = NoId
  BY <1>4, <1>10, <1>11
<1> HIDE DEF t2
<1>13. SlotFor(t2, second) = b
  <2>1. \A e \in 0 .. 2 - 1 : e = 0 \/ e = 1
    OBVIOUS
  <2>2. \A e \in 0 .. 2 - 1 : t2[After(Ideal[second], e)].id \notin {second, NoId}
    BY <1>2, <1>4, <1>5, <1>12, <2>1
  <2>3. t2[After(Ideal[second], 2)].id \in {second, NoId}
    BY <1>2, <1>4, <1>5, <1>12
  <2> QED BY <1>2, <1>3, <1>5, <1>6, <2>2, <2>3
<1>14. t3 = [t2 EXCEPT ![b] = [id |-> second, value |-> w]]
  BY <1>4, <1>5, <1>12, <1>13 DEF HashInsert, Holds
<1>15. /\ t3[h] = [id |-> first, value |-> u] /\ DOMAIN t3 = Indices
       /\ t3[a] = [id |-> neighbour, value |-> v]
       /\ t3[b] = [id |-> second, value |-> w]
  BY <1>4, <1>12, <1>14
<1> HIDE DEF t3
<1>16. HashFind(t3, first) = u /\ Holds(t3, first) /\ SlotFor(t3, first) = h
  BY <1>5, <1>7, <1>15 DEF HashFind, Holds
<1>17. HashFind(t3, neighbour) = v
  BY <1>5, <1>7, <1>15 DEF HashFind, Holds
<1>18. HashFind(t3, second) = w
  <2>1. \A e \in 0 .. 2 - 1 : e = 0 \/ e = 1
    OBVIOUS
  <2>2. \A e \in 0 .. 2 - 1 : t3[After(Ideal[second], e)].id \notin {second, NoId}
    BY <1>2, <1>4, <1>5, <1>15, <2>1
  <2>3. t3[After(Ideal[second], 2)].id \in {second, NoId}
    BY <1>2, <1>5, <1>15
  <2>4. SlotFor(t3, second) = b
    BY <1>2, <1>3, <1>5, <1>6, <2>2, <2>3
  <2> QED BY <1>15, <2>4 DEF HashFind, Holds
\* The shift stops before its first step, at neighbour's ideal slot.
<1>19. r = Shifted(t3, h, 0)
  <2>1. 1 \in ShiftEnds(t3, h)
    BY <1>2, <1>5, <1>15, TableAssumption DEF ShiftEnds
  <2>2. ShiftEnds(t3, h) \subseteq Nat /\ \A d \in ShiftEnds(t3, h) : d >= 1
    BY TableAssumption DEF ShiftEnds
  <2>3. Min(ShiftEnds(t3, h)) \in ShiftEnds(t3, h) /\ Min(ShiftEnds(t3, h)) <= 1
    BY <2>1, <2>2, LeastDistance
  <2>4. Min(ShiftEnds(t3, h)) - 1 = 0
    BY <2>2, <2>3
  <2> QED BY <1>16, <2>1, <2>4 DEF HashErase
<1>20. r[h].id = NoId /\ r[b] = t3[b]
  <2>1. 0 .. 0 - 1 = {}
    OBVIOUS
  <2>2. r = [s \in Indices |-> IF s = h THEN [t3[s] EXCEPT !.id = NoId] ELSE t3[s]]
    BY <1>4, <1>19, <2>1 DEF Shifted
  <2> QED BY <1>4, <1>15, <2>2
<1> HIDE DEF r
<1>21. HashFind(r, second) = Null
  BY <1>5, <1>7, <1>20 DEF HashFind, Holds
<1>22. \E i \in Indices : r[i].id = second
  BY <1>15, <1>20
<1> QED BY <1>16, <1>17, <1>18, <1>21, <1>22 DEF r, t3, t2, t1

-----------------------------------------------------------------------------
(* Ids that keep LinearProbing for good.                                   *)

Colliders(id) == {other \in Ids : Ideal[other] = Ideal[id]}

\* No group of colliding ids is so large that its run, should all of them be
\* live, reaches the ideal slot of another id.  Ids that do not collide satisfy
\* it however close they lie.
CollidersApart ==
  \A a, b \in Ids : Ideal[a] # Ideal[b] =>
    Distance(Ideal[a], Ideal[b]) >= Cardinality(Colliders(a))

\* Then every entry lies among those it collides with.
AmongColliders(t) ==
  \A i \in Indices : t[i].id # NoId =>
    Distance(Ideal[t[i].id], i) < Cardinality(Colliders(t[i].id))

\* The runs of two ideal slots have no slot in common.
LEMMA GroupsDisjoint ==
  ASSUME CollidersApart, NEW a \in Ids, NEW b \in Ids, NEW e \in Indices, NEW d \in Indices,
         e < Cardinality(Colliders(a)), d < Cardinality(Colliders(b)),
         Cardinality(Colliders(a)) \in Nat, Cardinality(Colliders(b)) \in Nat,
         After(Ideal[a], e) = After(Ideal[b], d)
  PROVE  Ideal[a] = Ideal[b]
<1>1. PICK h \in Indices, g \in Indices : h = Ideal[a] /\ g = Ideal[b]
  BY TableAssumption
<1>2. PICK m \in Nat, n \in Nat : m = Cardinality(Colliders(a)) /\ n = Cardinality(Colliders(b))
  OBVIOUS
<1>3. e \in Nat /\ d \in Nat /\ (d <= e \/ e <= d)
  BY TableAssumption DEF Indices
<1>4. CASE d <= e
  <2>1. Distance(h, g) = e - d
    BY <1>1, <1>4, StepBack
  <2>2. h # g => Distance(h, g) >= m
    BY <1>1, <1>2 DEF CollidersApart
  <2> QED BY <1>1, <1>2, <1>3, <2>1, <2>2
<1>5. CASE e <= d
  <2>1. Distance(g, h) = d - e
    BY <1>1, <1>5, StepBack
  <2>2. h # g => Distance(g, h) >= n
    BY <1>1, <1>2 DEF CollidersApart
  <2> QED BY <1>1, <1>2, <1>3, <2>1, <2>2
<1> QED BY <1>3, <1>4, <1>5

\* An insert puts the new entry among its colliders: the slots it passes hold
\* no other entries, and one of the colliders, the new one, is in none of them.
LEMMA InsertKeepsGroups ==
  ASSUME CollidersApart, IsFiniteSet(Ids), NEW t \in Tables, Once(t), Probing(t),
         AmongColliders(t), NEW id \in Ids, NEW v \in Values,
         Stops(t, id) # {}, ~Holds(t, id)
  PROVE  AmongColliders(HashInsert(t, id, v))
<1> DEFINE p == SlotFor(t, id)
           r == HashInsert(t, id, v)
           m == Min(Stops(t, id))
<1>1. \A a \in Ids : IsFiniteSet(Colliders(a)) /\ Cardinality(Colliders(a)) \in Nat
  BY FS_Subset, FS_CardinalityType DEF Colliders
<1>2. PICK g \in Indices : g = Ideal[id]
  BY TableAssumption
<1>3. Stops(t, id) \subseteq Nat /\ Stops(t, id) \subseteq Indices
  BY TableAssumption DEF Stops, Indices
<1>4. m \in Stops(t, id) /\ \A d \in Stops(t, id) : m <= d
  BY <1>3, LeastDistance
<1>5. PICK n \in Indices : n = m /\ p = After(g, n)
  BY <1>2, <1>3, <1>4 DEF SlotFor
<1>6. p \in Indices /\ t[p].id = NoId
  BY SearchFinds DEF Holds
<1>7. \A i \in Indices : t[i].id # id
  BY StoredIsFound
<1>8. /\ r = [t EXCEPT ![p] = [id |-> id, value |-> v]]
      /\ r[p].id = id /\ \A i \in Indices \ {p} : r[i] = t[i]
  BY <1>6 DEF HashInsert, Tables
<1> HIDE DEF p, r, m
<1>9. n < Cardinality(Colliders(id))
  <2> SUFFICES ASSUME n >= Cardinality(Colliders(id)) PROVE FALSE
    BY <1>1, TableAssumption DEF Indices
  <2>1. PICK k \in Nat : k = Cardinality(Colliders(id))
    BY <1>1
  <2>2. \A c \in 0 .. k - 1 : c \in Indices /\ c \in Int /\ c < n
    BY <2>1, TableAssumption DEF Indices
  <2>3. ASSUME NEW c \in 0 .. k - 1
        PROVE  /\ After(g, c) \in Indices /\ t[After(g, c)].id \in Colliders(id) \ {id}
    <3>1. c \in Indices /\ c \in Int /\ c < n
      BY <2>2
    <3>2. After(g, c) \in Indices /\ c \notin Stops(t, id)
      BY <1>3, <1>4, <1>5, <3>1, AfterInTable
    <3>3. PICK s \in Indices : s = After(g, c) /\ t[s].id # NoId
      BY <1>2, <3>1, <3>2 DEF Stops
    <3>4. PICK x \in Ids : x = t[s].id
      BY <3>3 DEF Tables, Entries
    <3>5. PICK f \in Indices : f = Distance(Ideal[x], s) /\ After(Ideal[x], f) = s
      BY AfterReaches, TableAssumption
    <3>6. f < Cardinality(Colliders(x))
      BY <3>3, <3>4, <3>5 DEF AmongColliders
    <3>7. Ideal[id] = Ideal[x]
      BY <1>1, <1>2, <2>1, <3>1, <3>3, <3>5, <3>6, GroupsDisjoint
    <3> QED BY <1>7, <3>3, <3>4, <3>7 DEF Colliders
  <2> DEFINE f == [c \in 0 .. k - 1 |-> t[After(g, c)].id]
  <2>4. f \in Injection(0 .. k - 1, Colliders(id) \ {id})
    <3>1. ASSUME NEW c \in 0 .. k - 1, NEW d \in 0 .. k - 1, f[c] = f[d] PROVE c = d
      <4>1. t[After(g, c)].id = t[After(g, d)].id /\ t[After(g, c)].id \in Ids
        BY <2>3, <3>1 DEF Colliders
      <4>2. After(g, c) = After(g, d)
        BY <2>3, <4>1, TableAssumption DEF Once
      <4> QED BY <2>2, <4>2, AfterOnce
    <3> QED BY <2>3, <3>1 DEF Injection, IsInjective
  <2> HIDE DEF f
  <2>5. IsFiniteSet(Colliders(id) \ {id}) /\ Cardinality(Colliders(id) \ {id}) = k - 1
    <3>1. id \in Colliders(id)
      BY DEF Colliders
    <3> QED BY <1>1, <2>1, <3>1, FS_RemoveElement
  <2>6. Cardinality(0 .. k - 1) <= k - 1
    BY <2>4, <2>5, FS_Injection
  <2>7. Cardinality(0 .. k - 1) = k
    <3>1. k - 1 \in Int
      BY <2>1
    <3>2. \A b \in Int : Cardinality(0 .. b) = IF 0 > b THEN 0 ELSE b - 0 + 1
      BY FS_Interval
    <3> QED BY <3>1, <3>2, <2>1
  <2> QED BY <2>1, <2>6, <2>7
<1>10. Distance(g, p) = n
  BY <1>5, DistanceWalked
<1> SUFFICES ASSUME NEW i \in Indices, r[i].id # NoId
             PROVE  Distance(Ideal[r[i].id], i) < Cardinality(Colliders(r[i].id))
  BY DEF AmongColliders, r
<1>11. CASE i = p
  BY <1>2, <1>8, <1>9, <1>10, <1>11
<1>12. CASE i # p
  BY <1>8, <1>12 DEF AmongColliders
<1> QED BY <1>11, <1>12

\* An erase moves entries towards their ideal slots.
LEMMA EraseKeepsGroups ==
  ASSUME IsFiniteSet(Ids), NEW t \in Tables, Cardinality(Occupied(t)) < Capacity,
         AmongColliders(t), NEW id \in Ids, Holds(t, id)
  PROVE  AmongColliders(HashErase(t, id))
<1>1. PICK p \in Indices, last \in Nat :
        /\ last < Capacity - 1
        /\ \A d \in 0 .. last : After(p, d) \in Occupied(t)
        /\ HashErase(t, id) = Shifted(t, p, last)
        /\ \A d \in 1 .. last : d \notin ShiftEnds(t, p)
  BY EraseShifts
<1> DEFINE r == Shifted(t, p, last)
<1> SUFFICES ASSUME NEW i \in Indices, r[i].id # NoId
             PROVE  Distance(Ideal[r[i].id], i) < Cardinality(Colliders(r[i].id))
  BY <1>1 DEF AmongColliders
<1>2. /\ i \in Occupied(t)
      /\ \/ r[i] = t[i]
         \/ /\ After(i, 1) \in Occupied(t) /\ r[i] = t[After(i, 1)]
            /\ ~AtHome(t, After(i, 1))
  <2>1. i \in Occupied(r)
    BY DEF Occupied
  <2> QED BY <1>1, <2>1, ShiftMoves
<1> HIDE DEF r
<1>3. CASE r[i] = t[i]
  BY <1>2, <1>3 DEF AmongColliders, Occupied
<1>4. CASE After(i, 1) \in Occupied(t) /\ r[i] = t[After(i, 1)] /\ ~AtHome(t, After(i, 1))
  <2>1. PICK s \in Indices : s = After(i, 1) /\ s \in Occupied(t) /\ r[i] = t[s] /\ ~AtHome(t, s)
    BY <1>4 DEF Occupied
  <2>2. PICK x \in Ids : x = t[s].id
    BY <2>1 DEF Occupied, Tables, Entries
  <2>3. PICK g \in Indices : g = Ideal[x]
    BY TableAssumption
  <2>4. PICK d \in Indices : d = Distance(g, s) /\ After(g, d) = s
    BY AfterReaches
  <2>5. d # 0
    BY <2>1, <2>2, <2>3, <2>4, AfterNothing DEF AtHome, Occupied
  <2>6. PICK c \in Indices : c + 1 = d /\ c \in Int
    <3>1. d - 1 \in Indices /\ (d - 1) + 1 = d /\ d - 1 \in Int
      BY <2>5, TableAssumption DEF Indices
    <3> QED BY <3>1
  <2>7. After(g, c) = i
    <3>1. PICK j \in Indices : j = After(g, c)
      BY <2>6, AfterInTable
    <3>2. After(j, 1) = After(i, 1)
      BY <2>1, <2>4, <2>6, <3>1, AfterNext
    <3> QED BY <3>1, <3>2, NextSlotOnce
  <2>8. Distance(g, i) = c
    BY <2>7, DistanceWalked
  <2>9. d < Cardinality(Colliders(x)) /\ Cardinality(Colliders(x)) \in Nat
    <3>1. IsFiniteSet(Colliders(x))
      BY FS_Subset DEF Colliders
    <3> QED BY <2>1, <2>2, <2>3, <2>4, <3>1, FS_CardinalityType DEF AmongColliders, Occupied
  <2>10. c < Cardinality(Colliders(x))
    BY <2>4, <2>6, <2>9, TableAssumption DEF Indices
  <2> QED BY <2>1, <2>2, <2>3, <2>8, <2>10
<1> QED BY <1>2, <1>3, <1>4

\* And none of them has an entry at home to pass.
LEMMA GroupsPassNone ==
  ASSUME CollidersApart, IsFiniteSet(Ids), NEW t \in Tables, AmongColliders(t)
  PROVE  NonePassed(t)
<1> SUFFICES ASSUME NEW i \in Occupied(t), NEW d \in Indices,
                    After(Ideal[t[i].id], d) = i, NEW e \in 1 .. d - 1,
                    AtHome(t, After(Ideal[t[i].id], e))
             PROVE  FALSE
  BY DEF NonePassed
<1>1. i \in Indices /\ t[i].id # NoId /\ t[i].id \in Ids
  BY DEF Occupied, Tables, Entries
<1>2. PICK x \in Ids, g \in Indices : x = t[i].id /\ g = Ideal[x]
  BY <1>1, TableAssumption
<1>3. e \in Indices /\ e \in Int /\ d \in Int /\ e < d /\ e # 0
  BY TableAssumption DEF Indices
<1>4. PICK s \in Indices : s = After(g, e)
  BY <1>3, AfterInTable
<1>5. PICK y \in Ids : y = t[s].id /\ Ideal[y] = s
  BY <1>2, <1>4 DEF AtHome, Tables, Entries
<1>6. s # g
  <2>1. After(g, 0) = g /\ 0 \in Indices
    BY AfterNothing, TableAssumption DEF Indices
  <2> QED BY <1>3, <1>4, <2>1, AfterOnce
<1>7. Distance(g, s) = e /\ Distance(g, i) = d
  BY <1>2, <1>3, <1>4, DistanceWalked
<1>8. Cardinality(Colliders(x)) \in Nat
  BY FS_Subset, FS_CardinalityType DEF Colliders
<1>9. e >= Cardinality(Colliders(x))
  BY <1>2, <1>5, <1>6, <1>7 DEF CollidersApart
<1>10. d < Cardinality(Colliders(x))
  BY <1>1, <1>2, <1>7 DEF AmongColliders
<1> QED BY <1>3, <1>8, <1>9, <1>10

\* The steps of the map.
LEMMA NextKeepsGroups ==
  ASSUME CollidersApart, IsFiniteSet(Ids),
         Agreement, LinearProbing, AmongColliders(table), [Next]_vars
  PROVE  LinearProbing' /\ AmongColliders(table)'
<1>1. /\ table \in Tables /\ Once(table) /\ Probing(table)
      /\ Cardinality(Occupied(table)) < Capacity
  BY AgreementLeavesRoom DEF Agreement, LinearProbing, Probing
<1>2. LinearProbing'
  BY <1>1, GroupsPassNone, NextKeepsProbing
<1>3. ASSUME NEW id \in Ids, NEW v \in Values, Insert(id, v) PROVE AmongColliders(table')
  <2>1. CASE Holds(table, id)
    BY <1>3, <2>1 DEF Insert, HashInsert
  <2>2. CASE ~Holds(table, id)
    BY <1>1, <1>3, <2>2, InsertKeepsGroups DEF Insert
  <2> QED BY <2>1, <2>2
<1>4. ASSUME NEW id \in Ids, Erase(id) PROVE AmongColliders(table')
  <2>1. CASE Holds(table, id)
    BY <1>1, <1>4, <2>1, EraseKeepsGroups DEF Erase
  <2>2. CASE ~Holds(table, id)
    BY <1>4, <2>2 DEF Erase, HashErase
  <2> QED BY <2>1, <2>2
<1>5. ASSUME UNCHANGED table PROVE AmongColliders(table')
  BY <1>5
<1>6. AmongColliders(table') => AmongColliders(table)'
  BY DEF AmongColliders
<1> QED BY <1>2, <1>3, <1>4, <1>5, <1>6 DEF Next, Find, vars

\* Ids that satisfy CollidersApart keep LinearProbing for good, through any calls.
\* The hash of the code satisfies it for the ids from 1 to 32247 in the table of
\* the default size.
THEOREM ApartKeepsProbing ==
  ASSUME CollidersApart, IsFiniteSet(Ids)
  PROVE  Spec => []LinearProbing
<1>1. Init => LinearProbing
  BY DEF Init, NewTable, LinearProbing
<1>2. Init => AmongColliders(table)
  BY DEF Init, NewTable, AmongColliders
<1> QED BY <1>1, <1>2, InitAgrees, NextKeepsAgreement, NextKeepsGroups, PTL DEF Spec

\* Then the map is a dictionary, ...
THEOREM ApartIsDictionary ==
  ASSUME CollidersApart, IsFiniteSet(Ids)
  PROVE  Spec => ImplementsDictionary
BY ApartKeepsProbing, DictionaryWhileProbing, PTL

\* ... it holds the live orders and nothing else, and every call returns.
THEOREM ApartHoldsLiveOrders ==
  ASSUME CollidersApart, IsFiniteSet(Ids)
  PROVE  Spec => []HoldsLiveOrders
BY ApartKeepsProbing, LiveOrdersHeld, PTL

-----------------------------------------------------------------------------
(* What the engine relies on.                                              *)

\* The tables that calls of the engine lead to: every id and every value lies
\* in one slot, among those it collides with, and no search passes an empty one.
WholeTables ==
  {t \in Tables : /\ Once(t) /\ Probing(t) /\ Valued(t) /\ AmongColliders(t)
                  /\ \A i, j \in Indices :
                       /\ t[i].id # NoId /\ t[j].id # NoId
                       /\ t[i].value = t[j].value
                       => i = j}

\* Such a table has no more entries than there are values.
LEMMA WholeTablesFit ==
  ASSUME NEW t \in WholeTables
  PROVE  /\ t \in Tables /\ Once(t) /\ Probing(t) /\ Valued(t)
         /\ AmongColliders(t) /\ Cardinality(Occupied(t)) < Capacity
<1> DEFINE f == [i \in Occupied(t) |-> t[i].value]
<1>1. t \in Tables /\ Once(t) /\ Probing(t) /\ Valued(t) /\ AmongColliders(t)
  BY DEF WholeTables
<1>2. f \in Injection(Occupied(t), Values)
  BY DEF WholeTables, Valued, Occupied, Injection, IsInjective
<1>3. Cardinality(Occupied(t)) <= Cardinality(Values)
  BY <1>2, FS_Injection, MapAssumption
<1>4. /\ Cardinality(Values) \in Nat /\ Cardinality(Occupied(t)) \in Nat
      /\ Capacity \in Nat /\ Cardinality(Values) < Capacity
  BY FS_CardinalityType, OccupiedFinite, MapAssumption, TableAssumption
<1> QED BY <1>1, <1>3, <1>4

\* The new table.
LEMMA NewTableIsWhole ==
  /\ NewTable \in WholeTables
  /\ \A i \in Indices : NewTable[i] = [id |-> NoId, value |-> Null]
BY DEF NewTable, WholeTables, Tables, Entries, Once, Probing, Valued, AmongColliders

\* What find says, in terms of what lies in the slots.
LEMMA WholeLookup ==
  ASSUME NEW t \in WholeTables, NEW id \in Ids
  PROVE  /\ Stops(t, id) # {}
         /\ Holds(t, id) <=> HashFind(t, id) # Null
         /\ Holds(t, id) <=> \E i \in Indices : t[i].id = id
         /\ \A i \in Indices : t[i].id = id => HashFind(t, id) = t[i].value
         /\ HashFind(t, id) \in Values \cup {Null}
<1>1. /\ t \in Tables /\ Once(t) /\ Probing(t) /\ Valued(t)
      /\ Cardinality(Occupied(t)) < Capacity
  BY WholeTablesFit
<1>2. /\ AbstractDict(t)[id] = HashFind(t, id)
      /\ Holds(t, id) <=> AbstractDict(t)[id] # Null
      /\ Holds(t, id) <=> \E i \in Indices : t[i].id = id
      /\ \A i \in Indices : t[i].id = id => AbstractDict(t)[id] = t[i].value
  BY <1>1, Lookup
<1>3. Stops(t, id) # {}
  BY <1>1, SearchEnds
<1>4. ASSUME Holds(t, id) PROVE HashFind(t, id) \in Values
  <2>1. PICK i \in Indices : t[i].id = id
    BY <1>2, <1>4
  <2>2. id # NoId
    BY TableAssumption
  <2> QED BY <1>1, <1>2, <2>1, <2>2 DEF Valued
<1> QED BY <1>2, <1>3, <1>4

\* insert, of an id that is not there and a value that is nowhere.
LEMMA InsertKeepsWhole ==
  ASSUME CollidersApart, IsFiniteSet(Ids), NEW t \in WholeTables, NEW id \in Ids, NEW v \in Values,
         HashFind(t, id) = Null, \A other \in Ids : HashFind(t, other) # v
  PROVE  /\ HashInsert(t, id, v) \in WholeTables
         /\ \A other \in Ids :
              HashFind(HashInsert(t, id, v), other) = IF other = id THEN v
                                                      ELSE HashFind(t, other)
<1> DEFINE p == SlotFor(t, id)
           r == HashInsert(t, id, v)
<1>1. /\ t \in Tables /\ Once(t) /\ Probing(t) /\ Valued(t) /\ AmongColliders(t)
      /\ Stops(t, id) # {} /\ ~Holds(t, id)
  BY WholeTablesFit, WholeLookup
<1>2. /\ p \in Indices /\ r[p] = [id |-> id, value |-> v] /\ t[p].id = NoId
      /\ \A i \in Indices \ {p} : r[i] = t[i]
      /\ Once(r) /\ Valued(r)
  BY <1>1, InsertKeepsOthers
<1>3. r \in Tables
  BY <1>1, InsertOccupies
<1>4. Probing(r) /\ AmongColliders(r)
  BY <1>1, InsertKeepsProbing, InsertKeepsGroups
<1> HIDE DEF p, r
<1>5. ASSUME NEW i \in Indices, t[i].id # NoId PROVE t[i].value # v
  <2>1. t[i].id \in Ids
    BY <1>1, <1>5 DEF Tables, Entries
  <2>2. HashFind(t, t[i].id) = t[i].value
    BY <2>1, WholeLookup
  <2> QED BY <2>1, <2>2
<1>6. r \in WholeTables
  <2> SUFFICES ASSUME NEW i \in Indices, NEW j \in Indices,
                      r[i].id # NoId, r[j].id # NoId, r[i].value = r[j].value
               PROVE  i = j
    BY <1>2, <1>3, <1>4 DEF WholeTables
  <2>1. CASE i = p /\ j # p
    BY <1>2, <1>5, <2>1
  <2>2. CASE i # p /\ j = p
    BY <1>2, <1>5, <2>2
  <2>3. CASE i # p /\ j # p
    BY <1>2, <2>3 DEF WholeTables
  <2> QED BY <2>1, <2>2, <2>3
<1>7. HashFind(r, id) = v
  BY <1>2, <1>6, WholeLookup
<1>8. ASSUME NEW other \in Ids, other # id PROVE HashFind(r, other) = HashFind(t, other)
  <2>1. other # NoId
    BY TableAssumption
  <2>2. \A i \in Indices : r[i].id = other <=> i # p /\ t[i].id = other
    BY <1>2, <1>8, <2>1
  <2>3. \A i \in Indices : t[i].id = other <=> r[i].id = other
    BY <1>2, <2>1, <2>2
  <2>4. CASE \E i \in Indices : t[i].id = other
    BY <1>2, <1>6, <2>2, <2>3, <2>4, WholeLookup
  <2>5. CASE ~\E i \in Indices : t[i].id = other
    <3>1. HashFind(t, other) = Null
      BY <2>5, WholeLookup
    <3>2. HashFind(r, other) = Null
      BY <1>6, <2>3, <2>5, WholeLookup
    <3> QED BY <3>1, <3>2
  <2> QED BY <2>4, <2>5
<1> QED BY <1>6, <1>7, <1>8 DEF r

\* erase, of any id.
LEMMA EraseKeepsWhole ==
  ASSUME CollidersApart, IsFiniteSet(Ids),
         NEW t \in WholeTables, NEW id \in Ids
  PROVE  /\ HashErase(t, id) \in WholeTables
         /\ \A other \in Ids :
              HashFind(HashErase(t, id), other) = IF other = id THEN Null
                                                  ELSE HashFind(t, other)
<1> DEFINE p == SlotFor(t, id)
           r == HashErase(t, id)
<1>1. /\ t \in Tables /\ Once(t) /\ Probing(t) /\ Valued(t) /\ AmongColliders(t)
      /\ Cardinality(Occupied(t)) < Capacity
  BY WholeTablesFit
<1>2. CASE ~Holds(t, id)
  <2>1. r = t /\ HashFind(t, id) = Null
    BY <1>2, WholeLookup DEF HashErase
  <2> QED BY <2>1
<1>3. CASE Holds(t, id)
  <2>1. /\ \A j \in Indices : r[j].id # NoId => \E i \in Indices \ {p} : t[i] = r[j]
        /\ \A i \in Indices \ {p} : t[i].id # NoId => \E j \in Indices : r[j] = t[i]
        /\ Once(r)
    BY <1>1, <1>3, EraseKeepsOthers
  <2>2. r \in Tables /\ Probing(r) /\ AmongColliders(r)
    BY <1>1, <1>3, EraseVacates, GroupsPassNone, EraseKeepsProbing, EraseKeepsGroups
  <2>3. p \in Indices /\ t[p].id = id /\ id # NoId
    BY <1>1, <1>3, SearchEnds, FoundIsStored, TableAssumption
  <2> HIDE DEF p, r
  <2>4. Valued(r)
    BY <1>1, <2>1 DEF Valued
  <2>5. r \in WholeTables
    <3> SUFFICES ASSUME NEW i \in Indices, NEW j \in Indices,
                        r[i].id # NoId, r[j].id # NoId, r[i].value = r[j].value
                 PROVE  i = j
      BY <2>1, <2>2, <2>4 DEF WholeTables
    <3>1. PICK k \in Indices : t[k] = r[i]
      BY <2>1
    <3>2. PICK n \in Indices : t[n] = r[j]
      BY <2>1
    <3>3. k = n
      BY <3>1, <3>2 DEF WholeTables
    <3>4. r[i].id = r[j].id
      BY <3>1, <3>2, <3>3
    <3> QED BY <2>1, <3>4 DEF Once
  <2>6. HashFind(r, id) = Null
    <3>1. ~\E j \in Indices : r[j].id = id
      BY <1>1, <2>1, <2>3 DEF Once
    <3> QED BY <2>5, <3>1, WholeLookup
  <2>7. ASSUME NEW other \in Ids, other # id PROVE HashFind(r, other) = HashFind(t, other)
    <3>1. other # NoId
      BY TableAssumption
    <3>2. CASE \E i \in Indices : t[i].id = other
      <4>1. PICK i \in Indices : t[i].id = other
        BY <3>2
      <4>2. PICK j \in Indices : r[j] = t[i]
        BY <2>1, <2>3, <2>7, <3>1, <4>1
      <4>3. HashFind(t, other) = t[i].value
        BY <4>1, WholeLookup
      <4>4. HashFind(r, other) = r[j].value
        BY <2>5, <4>1, <4>2, WholeLookup
      <4> QED BY <4>2, <4>3, <4>4
    <3>3. CASE ~\E i \in Indices : t[i].id = other
      <4>1. ~\E j \in Indices : r[j].id = other
        BY <2>1, <3>1, <3>3
      <4>2. HashFind(t, other) = Null
        BY <3>3, WholeLookup
      <4>3. HashFind(r, other) = Null
        BY <2>5, <4>1, WholeLookup
      <4> QED BY <4>2, <4>3
    <3> QED BY <3>2, <3>3
  <2> QED BY <2>5, <2>6, <2>7 DEF r
<1> QED BY <1>2, <1>3

\* The table keeps the contract that the theorems about the matching engine
\* rest on, for any number of calls, if the ids satisfy CollidersApart.
THEOREM TableKeepsContract ==
  ASSUME CollidersApart, IsFiniteSet(Ids)
  PROVE  KeepsContract(Ids, Values, Null, WholeTables, NewTable,
                       HashFind, HashInsert, HashErase)
<1>1. NewTable \in WholeTables /\ \A id \in Ids : HashFind(NewTable, id) = Null
  <2> SUFFICES ASSUME NEW id \in Ids PROVE HashFind(NewTable, id) = Null
    BY NewTableIsWhole
  <2>1. id # NoId /\ ~\E i \in Indices : NewTable[i].id = id
    BY NewTableIsWhole, TableAssumption
  <2> QED BY <2>1, NewTableIsWhole, WholeLookup
<1>2. \A t \in WholeTables : \A id \in Ids :
        /\ HashFind(t, id) \in Values \cup {Null}
        /\ HashErase(t, id) \in WholeTables
        /\ \A other \in Ids :
             HashFind(HashErase(t, id), other) = IF other = id THEN Null
                                                 ELSE HashFind(t, other)
  BY WholeLookup, EraseKeepsWhole
<1>3. \A t \in WholeTables : \A id \in Ids : \A v \in Values :
        HashFind(t, id) = Null /\ (\A other \in Ids : HashFind(t, other) # v) =>
          /\ HashInsert(t, id, v) \in WholeTables
          /\ \A other \in Ids :
               HashFind(HashInsert(t, id, v), other) = IF other = id THEN v
                                                       ELSE HashFind(t, other)
  BY InsertKeepsWhole
<1> QED BY <1>1, <1>2, <1>3 DEF KeepsContract

=============================================================================
