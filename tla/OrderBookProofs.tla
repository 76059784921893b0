--------------------------- MODULE OrderBookProofs ---------------------------
(***************************************************************************)
(* Proofs about the matching engine, for any number of levels, slots and   *)
(* orders, over any id map that keeps the contract of DictionaryBook: the  *)
(* invariant of its state, then what a step may do to it, then quantities. *)
(*                                                                         *)
(* The invariant has three parts.  LevelsInv: per side, the lists, counts, *)
(* bitmap and best index agree.  SlotsInv: the slab, the lists and the id  *)
(* map agree on which orders rest.  CallInv: what the call in progress has *)
(* established, and still relies on after each trade.                      *)
(*                                                                         *)
(* A quantity is counted three times: in the slot of its order, in the     *)
(* list that links the slot, and in the level's 32-bit total.  A step of   *)
(* the book changes all three by the same amount (QtyStep), from which     *)
(* follow the exactness of the totals, of the fill-or-kill pre-walk that   *)
(* trusts them, and of the snapshot that shows them.                       *)
(***************************************************************************)
EXTENDS DictionaryBook, OperatorLemmas

LevelsTypeOK ==
  /\ fifo \in [Sides -> [Levels -> Seq(Slots)]]
  /\ totalQty \in [Sides -> [Levels -> Quantity]]
  /\ count \in [Sides -> [Levels -> Nat]]
  /\ bits \in [Sides -> SUBSET Levels]
  /\ best \in [Sides -> Levels \cup {kNoBest}]

LevelsInv == LevelsTypeOK /\ LevelsShadowQueues /\ BestIsExtremal

SlotsTypeOK ==
  /\ order \in [Slots -> Orders \cup {FreeSlot}]
  /\ free \in Seq(Slots)
  /\ idMap \in Maps

SlotsInv == SlotsTypeOK /\ BookIntegrity

\* Every bid is below every ask.
SidesApart == \A b \in Occupied("Buy"), a \in Occupied("Sell") : b < a

CallInv ==
  /\ pc \in {"resubmit", "match", "finish"} =>
       taker \in Submissions /\ (pc # "resubmit" => ~BadInput(taker))
  /\ pc = "resubmit" => taker.id \in OrderIds /\ MapFind(idMap, taker.id) = nullptr
  /\ pc \in {"match", "finish"} => remaining <= taker.qty
  /\ pc = "finish" => IsMarket(taker) \/ ~WouldCross(taker.side, taker.price)

IInv == LevelsInv /\ SlotsInv /\ SidesApart /\ CallTypeOK /\ CallInv

-----------------------------------------------------------------------------
(* Levels.                                                                 *)

\* 32-bit subtraction and addition stay within 32 bits.
LEMMA WrapsIntoQuantity ==
  ASSUME NEW n \in Int
  PROVE  n % QuantityMod \in Quantity
BY ConfigAssumption DEF Quantity

\* What Unlink leaves: a slot less, and each of the others once.
LEMMA UnlinkProperties ==
  ASSUME NEW S, NEW q \in Seq(S), IsInjective(q), NEW s \in Range(q)
  PROVE  /\ Unlink(q, s) \in Seq(S) /\ Len(Unlink(q, s)) = Len(q) - 1
         /\ IsInjective(Unlink(q, s))
         /\ Range(Unlink(q, s)) = Range(q) \ {s}
<1>1. \E i \in DOMAIN q : q[i] = s
  BY DEF Range
<1>2. Position(q, s) \in DOMAIN q /\ q[Position(q, s)] = s
  BY <1>1 DEF Position
<1>3. Position(q, s) \in 1 .. Len(q)
  BY <1>2, LenProperties
<1> QED BY <1>2, <1>3, RemoveAtProperties, RemoveFromQueue DEF Unlink

\* The bitmap search returns the nearest occupied level behind i.
LEMMA NextBestProperties ==
  ASSUME NEW side \in Sides, NEW set \in SUBSET Levels, NEW i \in Levels
  PROVE  \/ /\ NextBest(side, set, i) = kNoBest
            /\ \A j \in set : ~Ahead(side, i, j)
         \/ /\ NextBest(side, set, i) \in set
            /\ Ahead(side, i, NextBest(side, set, i))
            /\ \A j \in set : Ahead(side, i, j) => ~Ahead(side, j, NextBest(side, set, i))
<1> DEFINE behind == {j \in set : Ahead(side, i, j)}
<1>1. behind \subseteq 0 .. NumLevels - 1 /\ NumLevels - 1 \in Nat
  <2>1. \A j \in behind : j \in Levels
    OBVIOUS
  <2> HIDE DEF behind
  <2>2. NumLevels - 1 \in Nat
    BY ConfigAssumption
  <2> QED BY <2>1, <2>2 DEF Levels
<1>2. CASE behind = {}
  BY <1>2 DEF NextBest
<1>3. CASE behind # {}
  <2>1. /\ Min(behind) \in behind /\ \A y \in behind : Min(behind) <= y
        /\ Max(behind) \in behind /\ \A y \in behind : y <= Max(behind)
    BY <1>1, <1>3, MinMaxProperties
  <2>2. NextBest(side, set, i) = IF side = "Buy" THEN Max(behind) ELSE Min(behind)
    BY <1>3 DEF NextBest
  <2>3. \A y \in behind : y \in Int
    BY <1>1
  <2> HIDE DEF behind
  <2>4. NextBest(side, set, i) \in behind
        /\ \A y \in behind : ~Ahead(side, y, NextBest(side, set, i))
    BY <2>1, <2>2, <2>3 DEF Ahead, Sides
  <2> QED BY <2>4 DEF behind
<1> QED BY <1>2, <1>3

\* Emptying a level.
LEMMA LeaveLevelKeepsBest ==
  ASSUME LevelsInv, NEW side \in Sides, NEW l \in Occupied(side),
         LeaveLevel(side, l),
         NEW q, fifo' = [fifo EXCEPT ![side][l] = q], q = <<>>
  PROVE  /\ bits' \in [Sides -> SUBSET Levels]
         /\ best' \in [Sides -> Levels \cup {kNoBest}]
         /\ \A sd \in Sides : bits'[sd] = Occupied(sd)'
         /\ BestIsExtremal'
<1> USE DEF LevelsInv, LevelsTypeOK
<1>1. l \in Levels /\ bits[side] = Occupied(side)
  BY DEF Occupied, LevelsShadowQueues
<1>2. \A sd \in Sides : Occupied(sd)' = IF sd = side THEN Occupied(sd) \ {l} ELSE Occupied(sd)
  BY <1>1 DEF Occupied
<1>3. bits' = [bits EXCEPT ![side] = bits[side] \ {l}]
  BY DEF LeaveLevel
<1>4. \A sd \in Sides : bits'[sd] = Occupied(sd)'
  BY <1>2, <1>3 DEF LevelsShadowQueues
<1>5. /\ best[side] \in Levels /\ best[side] \in Occupied(side)
      /\ \A k \in Occupied(side) : ~Ahead(side, k, best[side])
  BY <1>1 DEF BestIsExtremal, Occupied
<1>6. \A sd \in Sides \ {side} : best'[sd] = best[sd]
  BY DEF LeaveLevel
<1>7. best' \in [Sides -> Levels \cup {kNoBest}]
      /\ IF Occupied(side)' = {} THEN best'[side] = kNoBest
         ELSE /\ best'[side] \in Occupied(side)'
              /\ \A k \in Occupied(side)' : ~Ahead(side, k, best'[side])
  <2>1. CASE best[side] # l
    BY <1>2, <1>5, <2>1 DEF LeaveLevel
  <2>2. CASE best[side] = l
    <3> DEFINE nb == NextBest(side, bits[side] \ {l}, l)
    <3>1. best' = [best EXCEPT ![side] = nb]
      BY <2>2 DEF LeaveLevel
    <3>2. bits[side] \ {l} \in SUBSET Levels
      BY <1>1
    <3>3. \/ /\ nb = kNoBest
             /\ \A j \in bits[side] \ {l} : ~Ahead(side, l, j)
          \/ /\ nb \in bits[side] \ {l}
             /\ \A j \in bits[side] \ {l} : Ahead(side, l, j) => ~Ahead(side, j, nb)
      BY <1>1, <3>2, NextBestProperties
    <3> HIDE DEF nb
    <3>4. \A j \in bits[side] \ {l} : Ahead(side, l, j)
      <4> TAKE j \in bits[side] \ {l}
      <4>1. ~Ahead(side, j, l) /\ j # l /\ j \in Int /\ l \in Int
        BY <1>1, <1>5, <2>2, ConfigAssumption DEF Levels
      <4> QED BY <4>1 DEF Ahead
    <3>5. bits[side] \ {l} = Occupied(side)'
      BY <1>1, <1>2
    <3>6. best'[side] = nb /\ (nb \in Levels \cup {kNoBest})
      BY <3>1, <3>2, <3>3
    <3> QED BY <3>1, <3>3, <3>4, <3>5, <3>6
  <2> QED BY <2>1, <2>2
<1>8. BestIsExtremal'
  <2> SUFFICES ASSUME NEW sd \in Sides
               PROVE  IF Occupied(sd)' = {} THEN best'[sd] = kNoBest
                      ELSE /\ best'[sd] \in Occupied(sd)'
                           /\ \A k \in Occupied(sd)' : ~Ahead(sd, k, best'[sd])
    BY DEF BestIsExtremal
  <2>1. CASE sd = side
    BY <1>7, <2>1
  <2>2. CASE sd # side
    <3>1. Occupied(sd)' = Occupied(sd) /\ best'[sd] = best[sd]
      BY <1>2, <1>6, <2>2
    <3> QED BY <3>1 DEF BestIsExtremal
  <2> QED BY <2>1, <2>2
<1> QED BY <1>3, <1>4, <1>7, <1>8

\* Taking quantity or an order out of a level.
LEMMA ShrinkLevelKeepsLevels ==
  ASSUME LevelsInv, NEW side \in Sides, NEW l \in Occupied(side),
         NEW q \in Seq(Slots), Len(q) <= Len(fifo[side][l]),
         NEW delta \in Int, ShrinkLevel(side, l, q, delta)
  PROVE  /\ LevelsInv'
         /\ \A sd \in Sides : Occupied(sd)' \subseteq Occupied(sd)
<1> USE DEF LevelsInv, LevelsTypeOK
<1>1. l \in Levels /\ fifo[side][l] \in Seq(Slots) /\ fifo[side][l] # <<>>
  BY DEF Occupied
<1>2. /\ Len(q) \in Nat /\ (Len(q) = 0 <=> q = <<>>)
      /\ count[side][l] = Len(fifo[side][l]) /\ count[side][l] \in Nat
  BY <1>1, EmptySeq, LenProperties DEF LevelsShadowQueues
<1>3. /\ fifo' = [fifo EXCEPT ![side][l] = q]
      /\ totalQty' = [totalQty EXCEPT ![side][l] = (totalQty[side][l] - delta) % QuantityMod]
      /\ count' = [count EXCEPT ![side][l] = count[side][l] - (Len(fifo[side][l]) - Len(q))]
  BY DEF ShrinkLevel
<1>4. /\ fifo' \in [Sides -> [Levels -> Seq(Slots)]]
      /\ totalQty' \in [Sides -> [Levels -> Quantity]]
      /\ count' \in [Sides -> [Levels -> Nat]]
  <2>1. (totalQty[side][l] - delta) % QuantityMod \in Quantity
    <3>1. totalQty[side][l] - delta \in Int
      BY <1>1 DEF Quantity
    <3> QED BY <3>1, WrapsIntoQuantity
  <2>2. count[side][l] - (Len(fifo[side][l]) - Len(q)) \in Nat
    BY <1>2
  <2> QED BY <1>1, <1>3, <2>1, <2>2
<1>5. \A sd \in Sides, k \in Levels : count'[sd][k] = Len(fifo'[sd][k])
  BY <1>1, <1>2, <1>3 DEF LevelsShadowQueues
<1>6. count'[side][l] = Len(q)
  BY <1>1, <1>2, <1>3
<1>7. CASE q = <<>>
  <2>1. LeaveLevel(side, l)
    BY <1>2, <1>6, <1>7 DEF ShrinkLevel
  <2>2. /\ bits' \in [Sides -> SUBSET Levels]
        /\ best' \in [Sides -> Levels \cup {kNoBest}]
        /\ \A sd \in Sides : bits'[sd] = Occupied(sd)'
        /\ BestIsExtremal'
    BY <1>3, <1>7, <2>1, LeaveLevelKeepsBest
  <2>3. \A sd \in Sides : Occupied(sd)' \subseteq Occupied(sd)
    BY <1>1, <1>3, <1>7 DEF Occupied
  <2> QED BY <1>4, <1>5, <2>2, <2>3 DEF LevelsShadowQueues
<1>8. CASE q # <<>>
  <2>1. bits' = bits /\ best' = best
    BY <1>2, <1>6, <1>8 DEF ShrinkLevel
  <2>2. \A sd \in Sides : Occupied(sd)' = Occupied(sd)
    BY <1>1, <1>3, <1>8 DEF Occupied
  <2> QED BY <1>4, <1>5, <2>1, <2>2 DEF LevelsShadowQueues, BestIsExtremal
<1> QED BY <1>7, <1>8

\* Adding an order at the back of a level.
LEMMA GrowLevelKeepsLevels ==
  ASSUME LevelsInv, NEW side \in Sides, NEW l \in Levels,
         NEW q \in Seq(Slots), Len(q) = Len(fifo[side][l]) + 1,
         NEW qty \in Int,
         fifo' = [fifo EXCEPT ![side][l] = q],
         totalQty' = [totalQty EXCEPT ![side][l] = (totalQty[side][l] + qty) % QuantityMod],
         count' = [count EXCEPT ![side][l] = count[side][l] + 1],
         IF count[side][l] = 0 THEN JoinLevel(side, l) ELSE UNCHANGED <<bits, best>>
  PROVE  /\ LevelsInv'
         /\ \A sd \in Sides :
              Occupied(sd)' = IF sd = side THEN Occupied(sd) \cup {l} ELSE Occupied(sd)
<1> USE DEF LevelsInv, LevelsTypeOK
<1>1. /\ fifo[side][l] \in Seq(Slots) /\ Len(fifo[side][l]) \in Nat
      /\ count[side][l] = Len(fifo[side][l])
      /\ (fifo[side][l] = <<>> <=> count[side][l] = 0)
  BY EmptySeq, LenProperties DEF LevelsShadowQueues
<1>2. q # <<>>
  BY <1>1, EmptySeq
<1>3. /\ fifo' \in [Sides -> [Levels -> Seq(Slots)]]
      /\ totalQty' \in [Sides -> [Levels -> Quantity]]
      /\ count' \in [Sides -> [Levels -> Nat]]
  <2>1. (totalQty[side][l] + qty) % QuantityMod \in Quantity
    <3>1. totalQty[side][l] + qty \in Int
      BY DEF Quantity
    <3> QED BY <3>1, WrapsIntoQuantity
  <2> QED BY <1>1, <2>1
<1>4. \A sd \in Sides, k \in Levels : count'[sd][k] = Len(fifo'[sd][k])
  BY <1>1 DEF LevelsShadowQueues
<1>5. \A sd \in Sides :
        Occupied(sd)' = IF sd = side THEN Occupied(sd) \cup {l} ELSE Occupied(sd)
  BY <1>2 DEF Occupied
<1>6. CASE count[side][l] # 0
  <2>1. l \in Occupied(side) /\ bits' = bits /\ best' = best
    BY <1>1, <1>6 DEF Occupied
  <2>2. \A sd \in Sides : Occupied(sd)' = Occupied(sd)
    BY <1>5, <2>1
  <2> QED BY <1>3, <1>4, <1>5, <2>1, <2>2 DEF LevelsShadowQueues, BestIsExtremal
<1>7. CASE count[side][l] = 0
  <2>1. JoinLevel(side, l)
    BY <1>7
  <2>2. bits' = [bits EXCEPT ![side] = bits[side] \cup {l}]
    BY <2>1 DEF JoinLevel
  <2>3. bits' \in [Sides -> SUBSET Levels] /\ \A sd \in Sides : bits'[sd] = Occupied(sd)'
    BY <1>5, <2>2 DEF LevelsShadowQueues
  <2>4. best' \in [Sides -> Levels \cup {kNoBest}]
        /\ \A sd \in Sides \ {side} : best'[sd] = best[sd]
    BY <2>1 DEF JoinLevel
  <2>5. best'[side] \in Occupied(side)' /\ \A k \in Occupied(side)' : ~Ahead(side, k, best'[side])
    <3>0. Occupied(side) \subseteq Levels /\ \A k \in Levels : k \in Int /\ k >= 0
      BY ConfigAssumption DEF Occupied, Levels
    <3>1. CASE best[side] = kNoBest
      <4>1. Occupied(side) = {}
        <5>1. best[side] \notin Levels
          BY <3>0, <3>1 DEF kNoBest
        <5>2. best[side] \notin Occupied(side)
          BY <3>0, <5>1
        <5> QED BY <5>2 DEF BestIsExtremal
      <4>2. best'[side] = l
        BY <2>1, <3>1 DEF JoinLevel
      <4>3. Occupied(side)' = {l} /\ l \in Int
        BY <1>5, <3>0, <4>1
      <4> QED BY <4>2, <4>3 DEF Ahead
    <3>2. CASE best[side] # kNoBest
      <4>1. /\ best[side] \in Occupied(side)
            /\ \A k \in Occupied(side) : ~Ahead(side, k, best[side])
        BY <3>2 DEF BestIsExtremal
      <4>2. best'[side] = IF Ahead(side, l, best[side]) THEN l ELSE best[side]
        BY <2>1, <3>2 DEF JoinLevel
      <4>3. Occupied(side)' = Occupied(side) \cup {l}
        BY <1>5
      <4>4. best[side] \in Int /\ l \in Int /\ \A k \in Occupied(side) : k \in Int
        BY <3>0, <4>1
      <4>5. CASE Ahead(side, l, best[side])
        <5>1. best'[side] = l
          BY <4>2, <4>5
        <5>2. \A k \in Occupied(side) : ~Ahead(side, k, l)
          BY <4>1, <4>4, <4>5 DEF Ahead
        <5>3. ~Ahead(side, l, l)
          BY <4>4 DEF Ahead
        <5> QED BY <4>3, <5>1, <5>2, <5>3
      <4>6. CASE ~Ahead(side, l, best[side])
        <5>1. best'[side] = best[side]
          BY <4>2, <4>6
        <5> QED BY <4>1, <4>3, <4>6, <5>1
      <4> QED BY <4>5, <4>6
    <3> QED BY <3>1, <3>2
  <2>6. BestIsExtremal'
    <3> SUFFICES ASSUME NEW sd \in Sides
                 PROVE  IF Occupied(sd)' = {} THEN best'[sd] = kNoBest
                        ELSE /\ best'[sd] \in Occupied(sd)'
                             /\ \A k \in Occupied(sd)' : ~Ahead(sd, k, best'[sd])
      BY DEF BestIsExtremal
    <3>1. CASE sd = side
      BY <2>5, <3>1
    <3>2. CASE sd # side
      <4>1. Occupied(sd)' = Occupied(sd) /\ best'[sd] = best[sd]
        BY <1>5, <2>4, <3>2
      <4> QED BY <4>1 DEF BestIsExtremal
    <3> QED BY <3>1, <3>2
  <2> QED BY <1>3, <1>4, <1>5, <2>3, <2>4, <2>6 DEF LevelsShadowQueues
<1> QED BY <1>6, <1>7

-----------------------------------------------------------------------------
(* Orders.                                                                 *)

\* The fields of an order, which no free slot has.
LEMMA OrderFields ==
  ASSUME NEW o \in Orders
  PROVE  /\ o.id \in OrderIds /\ o.side \in Sides /\ o.level \in Levels
         /\ o.quantity \in Quantity /\ o.quantity \in Nat /\ o.quantity # 0
         /\ o # FreeSlot
<1>1. /\ o.id \in OrderIds /\ o.side \in Sides /\ o.level \in Levels
      /\ o.quantity \in Quantity /\ o.quantity # 0
  BY DEF Orders
<1>2. o.quantity \in Nat
  BY <1>1, ConfigAssumption DEF Quantity
<1>3. o # FreeSlot
  BY <1>1, CallerAssumption DEF FreeSlot
<1> QED BY <1>1, <1>2, <1>3

\* An order that rests, as the callers of the update operators know it.
Rests(s) ==
  /\ s \in Slots /\ order[s] \in Orders
  /\ s \in Range(fifo[order[s].side][order[s].level])
  /\ MapFind(idMap, order[s].id) = s

\* What the id map leads to rests in the book, under that id.
LEMMA FoundRests ==
  ASSUME SlotsInv, NEW id \in OrderIds, MapFind(idMap, id) # nullptr
  PROVE  Rests(MapFind(idMap, id)) /\ order[MapFind(idMap, id)].id = id
BY DEF SlotsInv, BookIntegrity, FoundOrdersAreLinked, Rests

\* It never leads to a free slot, so that one can be given to a new id.
LEMMA FreeSlotInserted ==
  ASSUME SlotsInv, NEW s \in Slots, order[s] = FreeSlot,
         NEW id \in OrderIds, MapFind(idMap, id) = nullptr
  PROVE  /\ MapInsert(idMap, id, s) \in Maps
         /\ \A other \in OrderIds :
              MapFind(MapInsert(idMap, id, s), other) = IF other = id THEN s
                                                        ELSE MapFind(idMap, other)
<1>1. s # nullptr
  BY DEF Slots, nullptr
<1>2. \A other \in OrderIds : MapFind(idMap, other) # s
  BY <1>1, FoundRests, OrderFields DEF Rests
<1>3. PICK m \in Maps : m = idMap
  BY DEF SlotsInv, SlotsTypeOK
<1>4. MapFind(m, id) = nullptr /\ \A other \in OrderIds : MapFind(m, other) # s
  BY <1>2, <1>3
<1>5. /\ MapInsert(m, id, s) \in Maps
      /\ \A other \in OrderIds :
           MapFind(MapInsert(m, id, s), other) = IF other = id THEN s ELSE MapFind(m, other)
  BY <1>4, MapContract DEF KeepsContract
<1> QED BY <1>3, <1>5

\* So does what a level links, at that level.
LEMMA LinkedRests ==
  ASSUME LevelsInv, SlotsInv, NEW side \in Sides, NEW l \in Levels,
         NEW s \in Range(fifo[side][l])
  PROVE  Rests(s) /\ order[s].side = side /\ order[s].level = l
<1>1. fifo[side][l] \in Seq(Slots)
  BY DEF LevelsInv, LevelsTypeOK
<1>2. s \in Slots
  BY <1>1, LenProperties DEF Range
<1> QED BY <1>2 DEF SlotsInv, BookIntegrity, LinkedOrdersAreFound, Rests

\* Where an order rests, its level is occupied.
LEMMA RestsInOccupied ==
  ASSUME LevelsInv, NEW s, Rests(s)
  PROVE  /\ order[s].level \in Occupied(order[s].side)
         /\ fifo[order[s].side][order[s].level] \in Seq(Slots)
<1>1. order[s].side \in Sides /\ order[s].level \in Levels
  BY OrderFields DEF Rests
<1>2. fifo[order[s].side][order[s].level] \in Seq(Slots)
  BY <1>1 DEF LevelsInv, LevelsTypeOK
<1>3. fifo[order[s].side][order[s].level] # <<>>
  BY DEF Rests, Range
<1> QED BY <1>1, <1>2, <1>3 DEF Occupied

\* Fewer occupied levels are as far apart as before.
LEMMA ApartAfterShrinking ==
  ASSUME SidesApart, \A sd \in Sides : Occupied(sd)' \subseteq Occupied(sd)
  PROVE  SidesApart'
BY DEF SidesApart, Sides

\* Taking an order off the book: by cancel, reduce, modify, or a full fill.
LEMMA RemoveOrderKeeps ==
  ASSUME LevelsInv, SlotsInv, SidesApart, NEW s, Rests(s), RemoveOrder(s)
  PROVE  /\ LevelsInv' /\ SlotsInv' /\ SidesApart'
         /\ \A id \in OrderIds :
              MapFind(idMap', id) = IF id = order[s].id THEN nullptr ELSE MapFind(idMap, id)
<1> DEFINE o    == order[s]
           side == o.side
           l    == o.level
           q    == Unlink(fifo[side][l], s)
<1>1. /\ s \in Slots /\ o \in Orders /\ o # FreeSlot
      /\ o.id \in OrderIds /\ side \in Sides /\ l \in Levels /\ o.quantity \in Int
      /\ s \in Range(fifo[side][l]) /\ MapFind(idMap, o.id) = s
  BY OrderFields DEF Rests
<1>2. l \in Occupied(side) /\ fifo[side][l] \in Seq(Slots) /\ Len(fifo[side][l]) \in Nat
  BY RestsInOccupied, LenProperties
<1>3. /\ \A sd \in Sides, k \in Levels : IsInjective(fifo[sd][k])
      /\ IsInjective(free) /\ free \in Seq(Slots)
      /\ \A x \in Slots : order[x] = FreeSlot <=> x \in Range(free)
      /\ order \in [Slots -> Orders \cup {FreeSlot}] /\ idMap \in Maps
  BY DEF SlotsInv, SlotsTypeOK, BookIntegrity, SlotsUsedOnce
<1>4. /\ ShrinkLevel(side, l, q, o.quantity)
      /\ idMap' = MapErase(idMap, o.id)
      /\ free' = <<s>> \o free
      /\ order' = [order EXCEPT ![s] = FreeSlot]
  BY DEF RemoveOrder, Deallocate
<1>5. /\ q \in Seq(Slots) /\ Len(q) = Len(fifo[side][l]) - 1
      /\ IsInjective(q) /\ Range(q) = Range(fifo[side][l]) \ {s}
  BY <1>1, <1>2, <1>3, UnlinkProperties
<1> HIDE DEF q
<1>6. LevelsInv' /\ \A sd \in Sides : Occupied(sd)' \subseteq Occupied(sd)
  <2> DEFINE n == Len(fifo[side][l])
  <2>1. n \in Nat /\ Len(q) = n - 1
    BY <1>2, <1>5
  <2>2. Len(q) <= n
    <3> HIDE DEF n
    <3> QED BY <2>1
  <2> QED BY <1>1, <1>2, <1>4, <1>5, <2>2, ShrinkLevelKeepsLevels
<1>7. SidesApart'
  BY <1>6, ApartAfterShrinking
<1>8. \A id \in OrderIds :
        MapFind(idMap', id) = IF id = o.id THEN nullptr ELSE MapFind(idMap, id)
  BY <1>1, <1>3, <1>4, MapContract DEF KeepsContract
<1>9. fifo' = [fifo EXCEPT ![side][l] = q] /\ fifo \in [Sides -> [Levels -> Seq(Slots)]]
  BY <1>4 DEF ShrinkLevel, LevelsInv, LevelsTypeOK
<1>10. \A sd \in Sides, k \in Levels :
         /\ IsInjective(fifo'[sd][k])
         /\ Range(fifo'[sd][k]) = Range(fifo[sd][k]) \ {s}
  <2> TAKE sd \in Sides, k \in Levels
  <2>1. CASE sd = side /\ k = l
    BY <1>1, <1>5, <1>9, <2>1
  <2>2. CASE ~(sd = side /\ k = l)
    <3>1. fifo'[sd][k] = fifo[sd][k]
      BY <1>1, <1>9, <2>2
    <3>2. s \notin Range(fifo[sd][k])
      BY <2>2, LinkedRests
    <3> QED BY <1>3, <3>1, <3>2
  <2> QED BY <2>1, <2>2
<1>11. SlotsTypeOK'
  <2>1. s \notin Range(free)
    BY <1>1, <1>3
  <2>2. free' \in Seq(Slots)
    BY <1>1, <1>3, <1>4, <2>1, PutInFront
  <2>3. idMap' \in Maps
    BY <1>1, <1>3, <1>4, MapContract DEF KeepsContract
  <2> QED BY <1>3, <1>4, <2>2, <2>3 DEF SlotsTypeOK
<1>12. LinkedOrdersAreFound'
  <2> SUFFICES ASSUME NEW sd \in Sides, NEW k \in Levels, NEW x \in Range(fifo'[sd][k])
               PROVE  /\ order'[x] \in Orders
                      /\ order'[x].side = sd /\ order'[x].level = k
                      /\ MapFind(idMap', order'[x].id) = x
    BY DEF LinkedOrdersAreFound
  <2>1. x \in Range(fifo[sd][k]) /\ x # s
    BY <1>10
  <2>2. Rests(x) /\ order[x].side = sd /\ order[x].level = k
    BY <2>1, LinkedRests
  <2>3. order'[x] = order[x]
    BY <1>3, <1>4, <2>1, <2>2 DEF Rests
  <2>4. order[x].id \in OrderIds /\ MapFind(idMap, order[x].id) = x
    BY <2>2, OrderFields DEF Rests
  <2>5. order[x].id # o.id
    BY <1>1, <2>1, <2>4
  <2> QED BY <1>8, <2>2, <2>3, <2>4, <2>5 DEF Rests
<1>13. FoundOrdersAreLinked'
  <2> SUFFICES ASSUME NEW id \in OrderIds, NEW x, x = MapFind(idMap', id), x # nullptr
               PROVE  /\ x \in Slots /\ order'[x] \in Orders /\ order'[x].id = id
                      /\ x \in Range(fifo'[order'[x].side][order'[x].level])
    BY DEF FoundOrdersAreLinked
  <2>1. id # o.id /\ x = MapFind(idMap, id)
    BY <1>8
  <2>2. Rests(x) /\ order[x].id = id
    BY <2>1, FoundRests
  <2>3. x # s
    BY <2>1, <2>2
  <2>4. order'[x] = order[x] /\ order[x].side \in Sides /\ order[x].level \in Levels
    BY <1>3, <1>4, <2>2, <2>3, OrderFields DEF Rests
  <2> QED BY <1>10, <2>2, <2>3, <2>4 DEF Rests
<1>14. SlotsUsedOnce'
  <2>1. s \notin Range(free)
    BY <1>1, <1>3
  <2>2. IsInjective(free') /\ Range(free') = Range(free) \cup {s}
    BY <1>1, <1>3, <1>4, <2>1, PutInFront
  <2>3. \A x \in Slots : order'[x] = FreeSlot <=> x \in Range(free')
    BY <1>3, <1>4, <2>2
  <2> QED BY <1>10, <2>2, <2>3 DEF SlotsUsedOnce
<1> QED BY <1>6, <1>7, <1>8, <1>11, <1>12, <1>13, <1>14 DEF SlotsInv, BookIntegrity

\* Taking quantity from an order that stays.
LEMMA DecreaseOrderKeeps ==
  ASSUME LevelsInv, SlotsInv, SidesApart, NEW s, Rests(s),
         NEW by \in Nat, by < order[s].quantity, DecreaseOrder(s, by)
  PROVE  /\ LevelsInv' /\ SlotsInv' /\ SidesApart'
         /\ idMap' = idMap
<1> DEFINE o    == order[s]
           side == o.side
           l    == o.level
<1>1. /\ s \in Slots /\ o \in Orders /\ o # FreeSlot
      /\ side \in Sides /\ l \in Levels /\ o.quantity \in Quantity
  BY OrderFields DEF Rests
<1>2. l \in Occupied(side) /\ fifo[side][l] \in Seq(Slots) /\ Len(fifo[side][l]) \in Nat
  BY RestsInOccupied, LenProperties
<1>3. /\ ShrinkLevel(side, l, fifo[side][l], by)
      /\ order' = [order EXCEPT ![s].quantity = o.quantity - by]
      /\ free' = free /\ idMap' = idMap
  BY DEF DecreaseOrder
<1>4. LevelsInv' /\ \A sd \in Sides : Occupied(sd)' \subseteq Occupied(sd)
  BY <1>1, <1>2, <1>3, ShrinkLevelKeepsLevels
<1>5. SidesApart'
  BY <1>4, ApartAfterShrinking
<1>6. fifo' = fifo
  BY <1>1, <1>3 DEF ShrinkLevel, LevelsInv, LevelsTypeOK
<1>7. o.quantity - by \in Quantity \ {0}
  BY <1>1, ConfigAssumption DEF Quantity
<1>8. \A x \in Slots :
        /\ order[x] = FreeSlot <=> order'[x] = FreeSlot
        /\ order[x] \in Orders => /\ order'[x] \in Orders
                                  /\ order'[x].id = order[x].id
                                  /\ order'[x].side = order[x].side
                                  /\ order'[x].level = order[x].level
  <2> DEFINE new == [o EXCEPT !.quantity = o.quantity - by]
  <2>1. /\ new \in Orders /\ new.id = o.id /\ new.side = o.side /\ new.level = o.level
    BY <1>1, <1>7 DEF Orders
  <2>2. new # FreeSlot
    BY <2>1, OrderFields
  <2>3. order' = [order EXCEPT ![s] = new] /\ order \in [Slots -> Orders \cup {FreeSlot}]
    BY <1>3 DEF SlotsInv, SlotsTypeOK
  <2> HIDE DEF new
  <2> QED BY <1>1, <2>1, <2>2, <2>3
<1>9. SlotsTypeOK'
  <2>1. DOMAIN order' = Slots /\ order' = [x \in Slots |-> order'[x]]
    BY <1>3 DEF SlotsInv, SlotsTypeOK
  <2>2. \A x \in Slots : order'[x] \in Orders \cup {FreeSlot}
    BY <1>8 DEF SlotsInv, SlotsTypeOK
  <2> QED BY <1>3, <2>1, <2>2 DEF SlotsInv, SlotsTypeOK
<1>10. LinkedOrdersAreFound'
  <2> SUFFICES ASSUME NEW sd \in Sides, NEW k \in Levels, NEW x \in Range(fifo[sd][k])
               PROVE  /\ order'[x] \in Orders
                      /\ order'[x].side = sd /\ order'[x].level = k
                      /\ MapFind(idMap, order'[x].id) = x
    BY <1>3, <1>6 DEF LinkedOrdersAreFound
  <2> QED BY <1>8, LinkedRests DEF Rests
<1>11. FoundOrdersAreLinked'
  <2> SUFFICES ASSUME NEW id \in OrderIds, MapFind(idMap, id) # nullptr,
                      NEW x, x = MapFind(idMap, id)
               PROVE  /\ x \in Slots /\ order'[x] \in Orders /\ order'[x].id = id
                      /\ x \in Range(fifo[order'[x].side][order'[x].level])
    BY <1>3, <1>6 DEF FoundOrdersAreLinked
  <2> QED BY <1>8, FoundRests DEF Rests
<1>12. SlotsUsedOnce'
  BY <1>3, <1>6, <1>8 DEF SlotsInv, BookIntegrity, SlotsUsedOnce
<1> QED BY <1>3, <1>4, <1>5, <1>9, <1>10, <1>11, <1>12 DEF SlotsInv, BookIntegrity

\* A new order at the back of its level, when nothing opposite is in its reach.
LEMMA InsertRestingKeeps ==
  ASSUME LevelsInv, SlotsInv, SidesApart,
         NEW id \in OrderIds, MapFind(idMap, id) = nullptr,
         NEW side \in Sides, NEW l \in Levels, NEW qty \in Quantity \ {0},
         free # <<>>,
         \A k \in Occupied(Opposite(side)) : IF side = "Buy" THEN l < k ELSE k < l,
         InsertResting(id, side, l, qty)
  PROVE  LevelsInv' /\ SlotsInv' /\ SidesApart'
<1> DEFINE s   == Head(free)
           q   == Append(fifo[side][l], s)
           new == [id |-> id, quantity |-> qty, level |-> l, side |-> side]
<1>1. /\ \A sd \in Sides, k \in Levels : IsInjective(fifo[sd][k])
      /\ \A sd \in Sides, k \in Levels : fifo[sd][k] \in Seq(Slots)
      /\ IsInjective(free) /\ free \in Seq(Slots)
      /\ \A x \in Slots : order[x] = FreeSlot <=> x \in Range(free)
      /\ order \in [Slots -> Orders \cup {FreeSlot}] /\ idMap \in Maps
      /\ fifo \in [Sides -> [Levels -> Seq(Slots)]]
  BY DEF SlotsInv, SlotsTypeOK, BookIntegrity, SlotsUsedOnce, LevelsInv, LevelsTypeOK
<1>2. /\ s \in Slots /\ s \in Range(free) /\ order[s] = FreeSlot
      /\ Tail(free) \in Seq(Slots) /\ IsInjective(Tail(free))
      /\ Range(Tail(free)) = Range(free) \ {s}
  BY <1>1, TakeFromFront
<1>3. new \in Orders /\ new # FreeSlot /\ new.id = id /\ new.side = side /\ new.level = l
  <2>1. new \in Orders
    BY DEF Orders
  <2> QED BY <2>1, OrderFields
<1> HIDE DEF new
<1>4. \A sd \in Sides, k \in Levels : s \notin Range(fifo[sd][k])
  BY <1>2, LinkedRests, OrderFields DEF Rests
<1>5. /\ q \in Seq(Slots) /\ Len(q) = Len(fifo[side][l]) + 1
      /\ IsInjective(q) /\ Range(q) = Range(fifo[side][l]) \cup {s}
  BY <1>1, <1>2, <1>4, AppendToQueue
<1>6. /\ free' = Tail(free)
      /\ order' = [order EXCEPT ![s] = new]
      /\ fifo' = [fifo EXCEPT ![side][l] = q]
      /\ totalQty' = [totalQty EXCEPT ![side][l] = (totalQty[side][l] + qty) % QuantityMod]
      /\ count' = [count EXCEPT ![side][l] = count[side][l] + 1]
      /\ IF count[side][l] = 0 THEN JoinLevel(side, l) ELSE UNCHANGED <<bits, best>>
      /\ idMap' = MapInsert(idMap, id, s)
  BY DEF InsertResting, new
<1> HIDE DEF q, s
<1>7. /\ LevelsInv'
      /\ \A sd \in Sides :
           Occupied(sd)' = IF sd = side THEN Occupied(sd) \cup {l} ELSE Occupied(sd)
  <2>1. qty \in Int
    BY ConfigAssumption DEF Quantity
  <2> QED BY <1>5, <1>6, <2>1, GrowLevelKeepsLevels
<1>8. SidesApart'
  BY <1>7 DEF SidesApart, Sides, Opposite
<1>9. idMap' \in Maps /\ \A other \in OrderIds :
        MapFind(idMap', other) = IF other = id THEN s ELSE MapFind(idMap, other)
  BY <1>1, <1>2, <1>6, FreeSlotInserted
<1>10. \A sd \in Sides, k \in Levels :
         /\ IsInjective(fifo'[sd][k])
         /\ Range(fifo'[sd][k]) = IF sd = side /\ k = l THEN Range(fifo[sd][k]) \cup {s}
                                  ELSE Range(fifo[sd][k])
  BY <1>1, <1>5, <1>6
<1>11. \A x \in Slots : order'[x] = IF x = s THEN new ELSE order[x]
  BY <1>1, <1>6
<1>12. SlotsTypeOK'
  BY <1>1, <1>2, <1>3, <1>6, <1>9 DEF SlotsTypeOK
<1>13. LinkedOrdersAreFound'
  <2> SUFFICES ASSUME NEW sd \in Sides, NEW k \in Levels, NEW x \in Range(fifo'[sd][k])
               PROVE  /\ order'[x] \in Orders
                      /\ order'[x].side = sd /\ order'[x].level = k
                      /\ MapFind(idMap', order'[x].id) = x
    BY DEF LinkedOrdersAreFound
  <2>1. CASE x = s
    <3>1. sd = side /\ k = l
      BY <1>4, <1>10, <2>1
    <3> QED BY <1>2, <1>3, <1>9, <1>11, <2>1, <3>1
  <2>2. CASE x # s
    <3>1. x \in Range(fifo[sd][k])
      BY <1>10, <2>2
    <3>2. Rests(x) /\ order[x].side = sd /\ order[x].level = k
      BY <3>1, LinkedRests
    <3>3. x \in Slots /\ order[x] \in Orders /\ MapFind(idMap, order[x].id) = x /\ x # nullptr
      BY <3>2 DEF Rests, Slots, nullptr
    <3>4. order[x].id \in OrderIds /\ order[x].id # id
      BY <3>3, OrderFields
    <3> QED BY <1>9, <1>11, <2>2, <3>2, <3>3, <3>4
  <2> QED BY <2>1, <2>2
<1>14. FoundOrdersAreLinked'
  <2> SUFFICES ASSUME NEW other \in OrderIds, NEW x, x = MapFind(idMap', other), x # nullptr
               PROVE  /\ x \in Slots /\ order'[x] \in Orders /\ order'[x].id = other
                      /\ x \in Range(fifo'[order'[x].side][order'[x].level])
    BY DEF FoundOrdersAreLinked
  <2>1. CASE other = id
    <3>1. x = s
      BY <1>9, <2>1
    <3> QED BY <1>2, <1>3, <1>10, <1>11, <2>1, <3>1
  <2>2. CASE other # id
    <3>1. x = MapFind(idMap, other)
      BY <1>9, <2>2
    <3>2. Rests(x) /\ order[x].id = other
      BY <3>1, FoundRests
    <3>3. x \in Slots /\ order[x] \in Orders /\ x # s
      BY <1>2, <3>2, OrderFields DEF Rests
    <3>4. order[x].side \in Sides /\ order[x].level \in Levels
      BY <3>3, OrderFields
    <3>5. order'[x] = order[x]
      BY <1>11, <3>3
    <3>6. x \in Range(fifo'[order[x].side][order[x].level])
      BY <1>10, <3>2, <3>4 DEF Rests
    <3> QED BY <3>2, <3>3, <3>5, <3>6
  <2> QED BY <2>1, <2>2
<1>15. SlotsUsedOnce'
  <2>1. \A x \in Slots : order'[x] = FreeSlot <=> x \in Range(free')
    BY <1>1, <1>2, <1>3, <1>6, <1>11
  <2> QED BY <1>2, <1>6, <1>10, <2>1 DEF SlotsUsedOnce
<1> QED BY <1>7, <1>8, <1>12, <1>13, <1>14, <1>15 DEF SlotsInv, BookIntegrity

\* A price in the window that does not cross lies apart from the other side.
LEMMA RestsApart ==
  ASSUME LevelsInv, NEW side \in Sides, NEW p \in Int, InRange(p), ~WouldCross(side, p)
  PROVE  /\ PriceToIdx(p) \in Levels
         /\ \A k \in Occupied(Opposite(side)) :
              IF side = "Buy" THEN PriceToIdx(p) < k ELSE k < PriceToIdx(p)
<1> DEFINE i   == PriceToIdx(p)
           opp == Opposite(side)
           b   == best[opp]
<1>1. i \in Levels
  BY ConfigAssumption DEF InRange, PriceToIdx, Levels
<1>2. opp \in Sides /\ (side = "Buy" <=> opp # "Buy")
  BY DEF Opposite, Sides
<1>3. SUFFICES ASSUME NEW k \in Occupied(opp)
               PROVE  IF side = "Buy" THEN i < k ELSE k < i
  BY <1>1
<1>4. k \in Levels /\ b \in Occupied(opp) /\ b \in Levels /\ ~Ahead(opp, k, b)
  BY <1>2 DEF LevelsInv, BestIsExtremal, Occupied
<1>5. b # kNoBest /\ b \in Int /\ k \in Int /\ i \in Int
  BY <1>1, <1>4, ConfigAssumption DEF Levels, kNoBest
<1>6. ~Reaches(side, i, b)
  BY <1>5 DEF WouldCross
<1> HIDE DEF i, b, opp
<1> QED BY <1>2, <1>4, <1>5, <1>6 DEF Reaches, Ahead

-----------------------------------------------------------------------------
(* Calls.                                                                  *)

\* A return leaves nothing of the call behind.
LEMMA ReturnKeeps ==
  ASSUME NEW status \in Statuses, NEW filled \in Quantity, NEW left \in Quantity,
         Return(status, filled, left)
  PROVE  CallTypeOK' /\ CallInv'
<1>1. pc' = "idle" /\ taker' = NoSubmission /\ remaining' = 0 /\ trade' = NoTrade
  BY DEF Return
<1>2. result' \in Results
  BY DEF Return, Results
<1>3. 0 \in Quantity
  BY ConfigAssumption DEF Quantity
<1> QED BY <1>1, <1>2, <1>3 DEF CallTypeOK, CallInv

\* A step that leaves the book alone keeps what is said of the book.
LEMMA BookUnchanged ==
  ASSUME LevelsInv, SlotsInv, SidesApart, UNCHANGED bookVars
  PROVE  LevelsInv' /\ SlotsInv' /\ SidesApart'
<1>1. LevelsInv'
  BY DEF bookVars, LevelsInv, LevelsTypeOK, LevelsShadowQueues, BestIsExtremal, Occupied
<1>2. SlotsInv'
  BY DEF bookVars, SlotsInv, SlotsTypeOK, BookIntegrity, LinkedOrdersAreFound,
         FoundOrdersAreLinked, SlotsUsedOnce
<1>3. SidesApart'
  BY DEF bookVars, SidesApart, Occupied
<1> QED BY <1>1, <1>2, <1>3

\* The fields of a submission.
LEMMA SubmissionFields ==
  ASSUME NEW req \in Submissions
  PROVE  /\ req.id \in OrderIds \cup {kInvalidOrderId} /\ req.side \in Sides
         /\ req.price \in Int /\ req.qty \in Quantity /\ req.qty \in Nat
<1>1. /\ req.id \in OrderIds \cup {kInvalidOrderId} /\ req.side \in Sides
      /\ req.price \in Prices /\ req.qty \in Quantities
  BY DEF Submissions
<1>2. req.qty \in Quantity
  BY <1>1, CallerAssumption
<1> QED BY <1>1, <1>2, ConfigAssumption DEF Prices, Quantity

\* submit() up to its matching loop.
LEMMA EnterKeeps ==
  ASSUME IInv, NEW req \in Submissions, Enter(req)
  PROVE  IInv'
<1>1. LevelsInv' /\ SlotsInv' /\ SidesApart'
  BY BookUnchanged DEF IInv, Enter
<1>2. 0 \in Quantity /\ req.qty \in Quantity /\ req.qty \in Nat
  BY SubmissionFields, ConfigAssumption DEF Quantity
<1>3. CASE BadInput(req) /\ Return("Rejected", 0, 0)
  BY <1>1, <1>2, <1>3, ReturnKeeps DEF IInv, Statuses
<1>4. CASE Killed(req) /\ Return("Cancelled", 0, req.qty)
  BY <1>1, <1>2, <1>4, ReturnKeeps DEF IInv, Statuses
<1>5. CASE /\ ~BadInput(req) /\ ~Killed(req)
           /\ pc' = (IF Aggressive(req) THEN "match" ELSE "finish")
           /\ taker' = req /\ remaining' = req.qty /\ trade' = NoTrade
           /\ UNCHANGED result
  <2>1. CallTypeOK'
    BY <1>2, <1>5 DEF CallTypeOK, IInv
  <2>2. ~BadInput(taker)'
    BY <1>5 DEF Enter, bookVars, BadInput
  <2>3. pc' = "finish" => IsMarket(taker)' \/ ~WouldCross(taker.side, taker.price)'
    <3> SUFFICES ASSUME pc' = "finish"
                 PROVE  IsMarket(req) \/ ~WouldCross(req.side, req.price)'
      BY <1>5 DEF IsMarket
    <3>1. ~Aggressive(req)
      BY <1>5
    <3>2. IsMarket(req) \/ ~WouldCross(req.side, req.price)
      BY <1>5, <3>1 DEF Aggressive, Killed
    <3> QED BY <3>2 DEF Enter, bookVars, WouldCross
  <2>4. CallInv'
    BY <1>2, <1>5, <2>2, <2>3 DEF CallInv
  <2> QED BY <1>1, <2>1, <2>4 DEF IInv
<1> QED BY <1>3, <1>4, <1>5 DEF Enter

\* What the end of the matching loop says about the remainder of a limit order.
LEMMA MatchOverApart ==
  ASSUME IInv, MatchOver, remaining # 0, ~IsMarket(taker)
  PROVE  ~WouldCross(taker.side, taker.price)
<1>1. CASE pc = "finish"
  BY <1>1 DEF IInv, CallInv
<1>2. CASE pc = "match" /\ ~CanFill
  <2>1. remaining > 0
    BY ConfigAssumption DEF IInv, CallTypeOK, Quantity
  <2> QED BY <1>2, <2>1 DEF CanFill, WouldCross
<1> QED BY <1>1, <1>2 DEF MatchOver

\* What the steps of a running call may use.
LEMMA RunningCall ==
  ASSUME IInv, pc \in {"match", "finish"}
  PROVE  /\ taker \in Submissions /\ ~BadInput(taker)
         /\ taker.id \in OrderIds /\ MapFind(idMap, taker.id) = nullptr
         /\ taker.side \in Sides /\ taker.price \in Int
         /\ taker.qty \in Quantity /\ taker.qty \in Nat
         /\ remaining \in Nat /\ remaining \in Quantity /\ remaining <= taker.qty
         /\ taker.qty - remaining \in Quantity
         /\ ~IsMarket(taker) => InRange(taker.price)
<1>1. taker \in Submissions /\ ~BadInput(taker) /\ remaining <= taker.qty
  BY DEF IInv, CallInv
<1>2. remaining \in Nat /\ remaining \in Quantity
  BY ConfigAssumption DEF IInv, CallTypeOK, Quantity
<1>3. /\ taker.id \in OrderIds \cup {kInvalidOrderId} /\ taker.side \in Sides
      /\ taker.price \in Int /\ taker.qty \in Quantity /\ taker.qty \in Nat
  BY <1>1, SubmissionFields
<1>4. taker.qty - remaining \in Quantity
  <2> DEFINE n == taker.qty
  <2>1. n \in Nat /\ n \in Quantity /\ remaining <= n
    BY <1>1, <1>3
  <2> HIDE DEF n
  <2>2. n - remaining \in Quantity
    BY <1>2, <2>1, ConfigAssumption DEF Quantity
  <2> QED BY <2>2 DEF n
<1> QED BY <1>1, <1>2, <1>3, <1>4 DEF BadInput

\* A trade at the head of the best opposite level.
LEMMA FillKeeps ==
  ASSUME IInv, Fill
  PROVE  IInv'
<1> DEFINE opp == Opposite(taker.side)
           i   == best[opp]
           q   == fifo[opp][i]
           s   == Head(q)
           o   == order[s]
           qty == IF remaining < o.quantity THEN remaining ELSE o.quantity
<1>1. /\ pc = "match" /\ remaining > 0 /\ i # kNoBest
      /\ q # <<>>
      /\ trade' = [resting |-> o.id, aggressor |-> taker.id, level |-> i,
                   quantity |-> qty, side |-> taker.side]
      /\ remaining' = remaining - qty
      /\ UNCHANGED <<pc, taker, result>>
  BY DEF Fill, CanFill
<1>2. /\ taker \in Submissions /\ ~BadInput(taker)
      /\ taker.id \in OrderIds /\ MapFind(idMap, taker.id) = nullptr
      /\ taker.side \in Sides /\ taker.qty \in Nat
      /\ remaining \in Nat /\ remaining <= taker.qty
  BY <1>1, RunningCall
<1>3. opp \in Sides /\ i \in Levels
  BY <1>1 DEF Opposite, Sides, IInv, LevelsInv, LevelsTypeOK
<1>4. q \in Seq(Slots) /\ IsInjective(q) /\ s \in Range(q)
  <2>1. q \in Seq(Slots) /\ IsInjective(q)
    BY <1>3 DEF IInv, LevelsInv, LevelsTypeOK, SlotsInv, BookIntegrity, SlotsUsedOnce
  <2> HIDE DEF q
  <2> QED BY <1>1, <2>1, TakeFromFront
<1>5. Rests(s) /\ o.side = opp /\ o.level = i
  BY <1>3, <1>4, LinkedRests DEF IInv
<1>6. o \in Orders /\ o.id \in OrderIds /\ o.quantity \in Nat /\ o.quantity # 0
      /\ o.quantity \in Quantity
  BY <1>5, OrderFields DEF Rests
<1>7. /\ qty \in Nat /\ qty # 0 /\ qty \in Quantity /\ remaining - qty \in Nat
      /\ qty <= o.quantity /\ remaining - qty \in Quantity
      /\ remaining - qty <= taker.qty
  <2> DEFINE n == o.quantity
             m == taker.qty
  <2>1. n \in Nat /\ n # 0 /\ n \in Quantity /\ m \in Nat /\ remaining <= m
        /\ remaining > 0 /\ remaining \in Quantity
    BY <1>1, <1>2, <1>6 DEF IInv, CallTypeOK
  <2>2. qty = IF remaining < n THEN remaining ELSE n
    OBVIOUS
  <2> HIDE DEF n, m, qty
  <2>3. /\ qty \in Nat /\ qty # 0 /\ qty \in Quantity /\ remaining - qty \in Nat
        /\ qty <= n /\ remaining - qty \in Quantity /\ remaining - qty <= m
    BY <1>2, <2>1, <2>2, ConfigAssumption DEF Quantity
  <2> QED BY <2>3 DEF n, m
<1> HIDE DEF qty
<1>8. /\ LevelsInv' /\ SlotsInv' /\ SidesApart'
      /\ MapFind(idMap', taker.id) = nullptr
  <2>1. CASE qty = o.quantity
    <3>1. RemoveOrder(s)
      BY <1>5, <2>1 DEF Fill, RemoveOrder, qty
    <3>2. /\ LevelsInv' /\ SlotsInv' /\ SidesApart'
          /\ \A id \in OrderIds :
               MapFind(idMap', id) = IF id = o.id THEN nullptr ELSE MapFind(idMap, id)
      BY <1>5, <3>1, RemoveOrderKeeps DEF IInv
    <3> QED BY <1>2, <3>2
  <2>2. CASE qty # o.quantity
    <3>1. DecreaseOrder(s, qty)
      BY <2>2 DEF Fill, qty
    <3>2. qty < o.quantity
      BY <1>6, <1>7, <2>2
    <3>3. LevelsInv' /\ SlotsInv' /\ SidesApart' /\ idMap' = idMap
      BY <1>5, <1>7, <3>1, <3>2, DecreaseOrderKeeps DEF IInv
    <3> QED BY <1>2, <3>3
  <2> QED BY <2>1, <2>2
<1>9. trade' \in Trades
  BY <1>1, <1>2, <1>3, <1>6, <1>7 DEF Trades
<1>10. CallTypeOK'
  BY <1>1, <1>7, <1>9 DEF CallTypeOK, IInv
<1>11. ~BadInput(taker)'
  BY <1>1, <1>2, <1>8 DEF BadInput, IsMarket
<1>12. CallInv'
  BY <1>1, <1>2, <1>7, <1>11 DEF CallInv
<1> QED BY <1>8, <1>10, <1>12 DEF IInv

-----------------------------------------------------------------------------
(* The invariant is inductive.                                             *)

\* The inductive invariant holds of a new engine ...
LEMMA InitEstablishes ==
  Init => IInv
<1> SUFFICES ASSUME Init PROVE IInv
  OBVIOUS
<1> USE DEF Init
<1>1. 0 \in Quantity /\ 0 \in Nat /\ \A s \in Slots : s # nullptr
  BY ConfigAssumption DEF Quantity, Slots, nullptr
<1>2. \A side \in Sides : Occupied(side) = {}
  BY DEF Occupied
<1>3. LevelsInv
  <2>1. LevelsTypeOK
    BY <1>1 DEF LevelsTypeOK
  <2>2. LevelsShadowQueues
    BY <1>2 DEF LevelsShadowQueues
  <2> QED BY <1>2, <2>1, <2>2 DEF LevelsInv, BestIsExtremal
<1>4. /\ free \in Seq(Slots) /\ IsInjective(free) /\ Range(free) = Slots
  <2>1. Slots = 1 .. MaxOrders /\ MaxOrders \in Nat
    BY ConfigAssumption DEF Slots
  <2>2. free \in Seq(Slots)
    BY <2>1, IsASeq
  <2> QED BY <2>2 DEF IsInjective, Range
<1>5. SlotsInv
  <2>1. SlotsTypeOK
    BY <1>4, MapContract DEF KeepsContract, SlotsTypeOK
  <2>2. \A side \in Sides, l \in Levels : fifo[side][l] = <<>>
    OBVIOUS
  <2>3. IsInjective(<<>>) /\ Range(<<>>) = {}
    BY DEF IsInjective, Range
  <2>4. LinkedOrdersAreFound
    BY <2>2, <2>3 DEF LinkedOrdersAreFound
  <2>5. FoundOrdersAreLinked
    BY MapContract DEF KeepsContract, FoundOrdersAreLinked
  <2>6. SlotsUsedOnce
    BY <1>4, <2>2, <2>3 DEF SlotsUsedOnce
  <2> QED BY <2>1, <2>4, <2>5, <2>6 DEF SlotsInv, BookIntegrity
<1>6. SidesApart
  BY <1>2 DEF SidesApart, Sides
<1>7. CallTypeOK /\ CallInv
  BY <1>1 DEF CallTypeOK, CallInv, Results, Statuses
<1> QED BY <1>3, <1>5, <1>6, <1>7 DEF IInv

\* The steps of a call that has begun.
LEMMA ContinueKeeps ==
  ASSUME IInv, Continue
  PROVE  IInv'
<1>0. /\ "FullyFilled" \in Statuses /\ "PartiallyFilled" \in Statuses
      /\ "Cancelled" \in Statuses /\ "Accepted" \in Statuses /\ 0 \in Quantity
  BY ConfigAssumption DEF Statuses, Quantity
<1>1. CASE Resubmit
  <2>1. taker \in Submissions /\ Enter(taker)
    BY <1>1 DEF Resubmit, IInv, CallInv
  <2> QED BY <2>1, EnterKeeps
<1>2. CASE Fill
  BY <1>2, FillKeeps
<1>3. ASSUME MatchOver PROVE pc \in {"match", "finish"}
  BY <1>3 DEF MatchOver
<1>4. CASE ReturnFilled
  <2>1. taker.qty \in Quantity
    BY <1>3, <1>4, RunningCall DEF ReturnFilled
  <2>2. CallTypeOK' /\ CallInv'
    BY <1>0, <1>4, <2>1, ReturnKeeps DEF ReturnFilled
  <2>3. LevelsInv' /\ SlotsInv' /\ SidesApart'
    BY <1>4, BookUnchanged DEF ReturnFilled, IInv
  <2> QED BY <2>2, <2>3 DEF IInv
<1>5. CASE DropRemainder
  <2> DEFINE filled == taker.qty - remaining
             status == IF filled > 0 THEN "PartiallyFilled" ELSE "Cancelled"
  <2>1. filled \in Quantity /\ remaining \in Quantity /\ status \in Statuses
    BY <1>0, <1>3, <1>5, RunningCall DEF DropRemainder
  <2>2. Return(status, filled, remaining)
    BY <1>5 DEF DropRemainder
  <2> HIDE DEF status, filled
  <2>3. CallTypeOK' /\ CallInv'
    BY <2>1, <2>2, ReturnKeeps
  <2>4. LevelsInv' /\ SlotsInv' /\ SidesApart'
    BY <1>5, BookUnchanged DEF DropRemainder, IInv
  <2> QED BY <2>3, <2>4 DEF IInv
<1>6. CASE Rest
  <2> DEFINE l      == PriceToIdx(taker.price)
             filled == taker.qty - remaining
             status == IF taker.qty = remaining THEN "Accepted" ELSE "PartiallyFilled"
  <2>1. /\ MatchOver /\ remaining # 0 /\ ~IsMarket(taker) /\ free # <<>>
        /\ InsertResting(taker.id, taker.side, l, remaining)
        /\ Return(status, filled, remaining)
    BY <1>6 DEF Rest, Resting, NeverRests
  <2>2. /\ taker.id \in OrderIds /\ MapFind(idMap, taker.id) = nullptr
        /\ taker.side \in Sides /\ taker.price \in Int /\ InRange(taker.price)
        /\ remaining \in Quantity \ {0} /\ filled \in Quantity /\ status \in Statuses
    BY <1>0, <1>3, <2>1, RunningCall
  <2>3. ~WouldCross(taker.side, taker.price)
    BY <2>1, MatchOverApart
  <2>4. /\ l \in Levels
        /\ \A k \in Occupied(Opposite(taker.side)) :
             IF taker.side = "Buy" THEN l < k ELSE k < l
    BY <2>2, <2>3, RestsApart DEF IInv
  <2> HIDE DEF l, filled, status
  <2>5. LevelsInv' /\ SlotsInv' /\ SidesApart'
    BY <2>1, <2>2, <2>4, InsertRestingKeeps DEF IInv
  <2>6. CallTypeOK' /\ CallInv'
    BY <2>1, <2>2, ReturnKeeps
  <2> QED BY <2>5, <2>6 DEF IInv
<1>7. CASE Abort
  <2>1. LevelsInv' /\ SlotsInv' /\ SidesApart'
    BY <1>7, BookUnchanged DEF Abort, IInv
  <2>2. CallTypeOK' /\ CallInv'
    BY <1>7 DEF Abort, IInv, CallTypeOK, CallInv
  <2> QED BY <2>1, <2>2 DEF IInv
<1> QED BY <1>1, <1>2, <1>4, <1>5, <1>6, <1>7 DEF Continue

\* reduce(), whatever the quantity it takes away.
LEMMA ReduceKeeps ==
  ASSUME IInv, NEW id \in OrderIds, NEW by \in Nat, ReduceOne(id, by)
  PROVE  IInv'
<1> DEFINE s == MapFind(idMap, id)
<1>1. "True" \in Statuses /\ "False" \in Statuses /\ 0 \in Quantity
  BY ConfigAssumption DEF Statuses, Quantity
<1>2. ASSUME NEW status \in {"True", "False"}, Return(status, 0, 0),
             LevelsInv' /\ SlotsInv' /\ SidesApart'
      PROVE  IInv'
  BY <1>1, <1>2, ReturnKeeps DEF IInv
<1>3. CASE s = nullptr /\ Return("False", 0, 0) /\ UNCHANGED bookVars
  BY <1>2, <1>3, BookUnchanged DEF IInv
<1>4. CASE /\ s # nullptr /\ Return("True", 0, 0)
           /\ IF by >= order[s].quantity THEN RemoveOrder(s) ELSE DecreaseOrder(s, by)
  <2>1. Rests(s)
    BY <1>4, FoundRests DEF IInv
  <2> HIDE DEF s
  <2>2. order[s].quantity \in Nat
    BY <2>1, OrderFields DEF Rests
  <2>3. CASE by >= order[s].quantity
    BY <1>2, <1>4, <2>1, <2>3, RemoveOrderKeeps DEF IInv
  <2>4. CASE ~(by >= order[s].quantity)
    <3>1. by < order[s].quantity
      BY <2>2, <2>4
    <3> QED BY <1>2, <1>4, <2>1, <2>4, <3>1, DecreaseOrderKeeps DEF IInv
  <2> QED BY <2>3, <2>4
<1> QED BY <1>3, <1>4 DEF ReduceOne

\* cancel(), reduce() and modify().
LEMMA RequestKeeps ==
  ASSUME IInv, Cancel \/ Reduce \/ Modify
  PROVE  IInv'
<1>0. /\ "True" \in Statuses /\ "False" \in Statuses /\ "Rejected" \in Statuses
      /\ "Accepted" \in Statuses /\ 0 \in Quantity
      /\ \A qty \in Quantities : qty \in Quantity /\ qty \in Nat
  BY ConfigAssumption, CallerAssumption DEF Statuses, Quantity
<1>1. ASSUME NEW status \in Statuses, NEW left \in Quantity, Return(status, 0, left),
             LevelsInv' /\ SlotsInv' /\ SidesApart'
      PROVE  IInv'
  BY <1>0, <1>1, ReturnKeeps DEF IInv
<1>2. ASSUME UNCHANGED bookVars PROVE LevelsInv' /\ SlotsInv' /\ SidesApart'
  BY <1>2, BookUnchanged DEF IInv
<1>3. CASE Cancel
  <2>1. PICK id \in OrderIds :
          LET s == MapFind(idMap, id)
          IN  \/ s = nullptr /\ Return("False", 0, 0) /\ UNCHANGED bookVars
              \/ s # nullptr /\ Return("True", 0, 0) /\ RemoveOrder(s)
    BY <1>3 DEF Cancel, CancelOne
  <2> DEFINE s == MapFind(idMap, id)
  <2>2. CASE s = nullptr /\ Return("False", 0, 0) /\ UNCHANGED bookVars
    BY <1>0, <1>1, <1>2, <2>2
  <2>3. CASE s # nullptr /\ Return("True", 0, 0) /\ RemoveOrder(s)
    <3>1. Rests(s)
      BY <2>3, FoundRests DEF IInv
    <3> HIDE DEF s
    <3>2. LevelsInv' /\ SlotsInv' /\ SidesApart'
      BY <2>3, <3>1, RemoveOrderKeeps DEF IInv
    <3> QED BY <1>0, <1>1, <2>3, <3>2
  <2> QED BY <2>1, <2>2, <2>3
<1>4. CASE Reduce
  BY <1>0, <1>4, ReduceKeeps DEF Reduce
<1>5. CASE Modify
  <2>1. PICK id \in OrderIds, qty \in Quantities, price \in Prices :
          LET s == MapFind(idMap, id)
          IN  \/ s = nullptr /\ Return("Rejected", 0, 0) /\ UNCHANGED bookVars
              \/ /\ s # nullptr /\ KeepsPriority(order[s], qty, price)
                 /\ DecreaseOrder(s, order[s].quantity - qty)
                 /\ Return("Accepted", 0, qty)
              \/ /\ s # nullptr /\ ~KeepsPriority(order[s], qty, price)
                 /\ RemoveOrder(s)
                 /\ pc'    = "resubmit"
                 /\ taker' = [id |-> id, side |-> order[s].side, type |-> "Limit",
                              tif |-> "GTC", price |-> price, qty |-> qty]
                 /\ trade' = NoTrade
                 /\ UNCHANGED <<remaining, result>>
    BY <1>5 DEF Modify
  <2> DEFINE s == MapFind(idMap, id)
  <2>2. CASE s = nullptr /\ Return("Rejected", 0, 0) /\ UNCHANGED bookVars
    BY <1>0, <1>1, <1>2, <2>2
  <2>3. ASSUME s # nullptr
        PROVE  /\ Rests(s) /\ order[s].id = id /\ order[s].side \in Sides
               /\ order[s].quantity \in Nat
    BY <2>3, FoundRests, OrderFields DEF IInv, Rests
  <2>4. CASE /\ s # nullptr /\ KeepsPriority(order[s], qty, price)
             /\ DecreaseOrder(s, order[s].quantity - qty)
             /\ Return("Accepted", 0, qty)
    <3> HIDE DEF s
    <3> DEFINE n  == order[s].quantity
               by == n - qty
    <3>1. n \in Nat /\ qty \in Nat /\ qty > 0 /\ qty <= n
      BY <1>0, <2>3, <2>4 DEF KeepsPriority
    <3>2. by \in Nat /\ by < n
      <4> HIDE DEF n
      <4> QED BY <3>1
    <3>3. DecreaseOrder(s, by)
      BY <2>4
    <3> HIDE DEF by
    <3>4. LevelsInv' /\ SlotsInv' /\ SidesApart'
      BY <2>3, <2>4, <3>2, <3>3, DecreaseOrderKeeps DEF IInv
    <3> QED BY <1>0, <1>1, <2>4, <3>4
  <2>5. CASE /\ s # nullptr /\ ~KeepsPriority(order[s], qty, price)
             /\ RemoveOrder(s)
             /\ pc'    = "resubmit"
             /\ taker' = [id |-> id, side |-> order[s].side, type |-> "Limit",
                          tif |-> "GTC", price |-> price, qty |-> qty]
             /\ trade' = NoTrade
             /\ UNCHANGED <<remaining, result>>
    <3> HIDE DEF s
    <3>1. /\ LevelsInv' /\ SlotsInv' /\ SidesApart'
          /\ MapFind(idMap', id) = nullptr
      BY <2>3, <2>5, RemoveOrderKeeps DEF IInv
    <3>2. taker' \in Submissions /\ taker'.id = id
      BY <2>3, <2>5 DEF Submissions
    <3>3. CallTypeOK'
      BY <2>5, <3>2 DEF CallTypeOK, IInv
    <3>4. CallInv'
      BY <2>5, <3>1, <3>2 DEF CallInv
    <3> QED BY <3>1, <3>3, <3>4 DEF IInv
  <2> QED BY <2>1, <2>2, <2>4, <2>5
<1> QED BY <1>3, <1>4, <1>5

\* ... and every step of the engine keeps it.
LEMMA NextKeeps ==
  ASSUME IInv, [Next]_vars
  PROVE  IInv'
<1>1. CASE Submit
  BY <1>1, EnterKeeps DEF Submit
<1>2. CASE Cancel \/ Reduce \/ Modify
  BY <1>2, RequestKeeps
<1>3. CASE Continue
  BY <1>3, ContinueKeeps
<1>4. CASE UNCHANGED vars
  <2>1. LevelsInv' /\ SlotsInv' /\ SidesApart'
    BY <1>4, BookUnchanged DEF IInv, vars
  <2>2. CallTypeOK' /\ CallInv'
    BY <1>4 DEF vars, callVars, bookVars, IInv, CallTypeOK, CallInv, BadInput, WouldCross
  <2> QED BY <2>1, <2>2 DEF IInv
<1>5. CASE SinkThrows
  <2>1. "Threw" \in Statuses /\ 0 \in Quantity
    BY ConfigAssumption DEF Statuses, Quantity
  <2>2. CallTypeOK' /\ CallInv'
    BY <1>5, <2>1, ReturnKeeps DEF SinkThrows
  <2>3. LevelsInv' /\ SlotsInv' /\ SidesApart'
    BY <1>5, BookUnchanged DEF SinkThrows, IInv
  <2> QED BY <2>2, <2>3 DEF IInv
<1> QED BY <1>1, <1>2, <1>3, <1>4, <1>5 DEF Next

\* The invariant holds in every state: between calls, at every trade callback,
\* and in the middle of a modify.
THEOREM Invariance == Spec => []IInv
<1>1. Init => IInv
  BY InitEstablishes
<1>2. IInv /\ [Next]_vars => IInv'
  BY NextKeeps
<1> QED BY <1>1, <1>2, PTL DEF Spec

-----------------------------------------------------------------------------
(* What the invariant says of the book.                                    *)

\* Every variable keeps its type: no level index leaves the window, no 32-bit
\* quantity leaves its range, no id map value is one the map cannot have.
THEOREM TypeCorrect == Spec => []TypeOK
<1>1. IInv => TypeOK
  BY DEF IInv, LevelsInv, LevelsTypeOK, SlotsInv, SlotsTypeOK, TypeOK, BookTypeOK
<1> QED BY <1>1, Invariance, PTL

\* The cached best index is the best occupied level, or kNoBest, whichever of
\* the three code paths that maintain it ran last.
THEOREM BestCorrect == Spec => []BestIsExtremal
<1>1. IInv => BestIsExtremal
  BY DEF IInv, LevelsInv
<1> QED BY <1>1, Invariance, PTL

\* The bitmap and the count of a level agree with its list.
THEOREM LevelsCorrect == Spec => []LevelsShadowQueues
<1>1. IInv => LevelsShadowQueues
  BY DEF IInv, LevelsInv
<1> QED BY <1>1, Invariance, PTL

\* Lists, id map and slab name the same orders: nothing is leaked, freed twice
\* or reached after it was freed.
THEOREM IntegrityHolds == Spec => []BookIntegrity
<1>1. IInv => BookIntegrity
  BY DEF IInv, SlotsInv
<1> QED BY <1>1, Invariance, PTL

\* The best bid stays below the best ask, also while an order trades.
THEOREM NeverCrossed == Spec => []NotCrossed
<1>1. IInv => NotCrossed
  <2> SUFFICES ASSUME IInv, best["Buy"] # kNoBest, best["Sell"] # kNoBest
               PROVE  best["Buy"] < best["Sell"]
    BY DEF NotCrossed
  <2>1. best["Buy"] \in Occupied("Buy") /\ best["Sell"] \in Occupied("Sell")
    BY DEF IInv, LevelsInv, BestIsExtremal, Sides
  <2> QED BY <2>1 DEF IInv, SidesApart
<1> QED BY <1>1, Invariance, PTL

-----------------------------------------------------------------------------
(* The slab runs out only before the first trade of a call.                *)

\* While a call has a remainder, it has not traded yet or a slot is free.
RoomInv ==
  /\ pc \in {"match", "finish"} /\ remaining # 0 =>
       (trade = NoTrade /\ remaining = taker.qty) \/ free # <<>>
  /\ pc = "aborted" => remaining = taker.qty /\ trade = NoTrade

\* Nothing is promised about the slab once a call has returned ...
LEMMA ReturnKeepsRoom ==
  ASSUME NEW status, NEW filled, NEW left, Return(status, filled, left)
  PROVE  RoomInv'
BY DEF Return, RoomInv

\* ... nor before it has traded.
LEMMA EnterKeepsRoom ==
  ASSUME NEW req, Enter(req)
  PROVE  RoomInv'
BY ReturnKeepsRoom DEF Enter, RoomInv

\* A fill that does not finish the aggressor empties a resting order.
LEMMA FillKeepsRoom ==
  ASSUME IInv, Fill
  PROVE  RoomInv'
<1> DEFINE s == Head(fifo[Opposite(taker.side)][best[Opposite(taker.side)]])
           n == order[s].quantity
           qty == IF remaining < n THEN remaining ELSE n
<1>1. pc' = "match" /\ remaining' = remaining - qty /\ remaining \in Int
  <2>1. pc' = "match" /\ remaining' = remaining - qty
    BY DEF Fill, CanFill
  <2>2. remaining \in Int
    BY ConfigAssumption DEF IInv, CallTypeOK, Quantity
  <2> QED BY <2>1, <2>2
<1>2. CASE qty = n
  <2>1. free' = <<s>> \o free
    BY <1>2 DEF Fill, Deallocate
  <2>2. Len(<<s>> \o free) = 1 + Len(free) /\ Len(free) \in Nat
    <3>1. free \in Seq(Slots)
      BY DEF IInv, SlotsInv, SlotsTypeOK
    <3> QED BY <3>1, LenProperties
  <2>3. free' # <<>>
    BY <2>1, <2>2
  <2> QED BY <1>1, <2>3 DEF RoomInv
<1>3. CASE qty # n
  <2>1. qty = remaining
    BY <1>3
  <2> HIDE DEF qty
  <2>2. remaining' = 0
    BY <1>1, <2>1
  <2> QED BY <1>1, <2>2 DEF RoomInv
<1> QED BY <1>2, <1>3

\* Every step keeps the promise that a call which traded has room to rest.
LEMMA NextKeepsRoom ==
  ASSUME IInv, RoomInv, [Next]_vars
  PROVE  RoomInv'
<1>1. CASE Submit
  BY <1>1, EnterKeepsRoom DEF Submit
<1>2. CASE Cancel
  BY <1>2, ReturnKeepsRoom DEF Cancel, CancelOne
<1>3. CASE Reduce
  BY <1>3, ReturnKeepsRoom DEF Reduce, ReduceOne
<1>4. CASE Modify
  <2>1. pc' = "resubmit" \/ \E status, filled, left : Return(status, filled, left)
    BY <1>4 DEF Modify
  <2> QED BY <2>1, ReturnKeepsRoom DEF RoomInv
<1>5. CASE Resubmit
  BY <1>5, EnterKeepsRoom DEF Resubmit
<1>6. CASE Fill
  BY <1>6, FillKeepsRoom
<1>7. CASE ReturnFilled
  BY <1>7, ReturnKeepsRoom DEF ReturnFilled
<1>8. CASE DropRemainder
  BY <1>8, ReturnKeepsRoom DEF DropRemainder
<1>9. CASE Rest
  BY <1>9, ReturnKeepsRoom DEF Rest
<1>10. CASE Abort
  <2>1. pc \in {"match", "finish"} /\ remaining # 0 /\ free = <<>>
    BY <1>10 DEF Abort, Resting, MatchOver
  <2> QED BY <1>10, <2>1 DEF Abort, RoomInv
<1>11. CASE UNCHANGED vars
  BY <1>11 DEF vars, bookVars, callVars, RoomInv
<1>12. CASE SinkThrows
  BY <1>12, ReturnKeepsRoom DEF SinkThrows
<1> QED BY <1>1, <1>2, <1>3, <1>4, <1>5, <1>6, <1>7, <1>8, <1>9, <1>10, <1>11, <1>12
        DEF Next, Continue

\* insert_resting_ finds the slab empty only in a call that has traded nothing:
\* no trade is reported to the sink by a call that then ends the process.
THEOREM AbortsOnlyUntraded == Spec => []AbortsBeforeTrading
<1>1. Init => RoomInv
  BY DEF Init, RoomInv
<1>2. IInv /\ RoomInv /\ [Next]_vars => RoomInv'
  BY NextKeepsRoom
<1>3. RoomInv => AbortsBeforeTrading
  BY DEF RoomInv, AbortsBeforeTrading
<1> QED BY <1>1, <1>2, <1>3, Invariance, PTL DEF Spec

-----------------------------------------------------------------------------
(* Steps.  Whatever the call, the book changes in one of three ways: an    *)
(* order is removed, an order that stays loses quantity, an order joins    *)
(* the back of its level.  The proofs below argue over these three.        *)

Removal(s) == Rests(s) /\ RemoveOrder(s)

Decrease(s, by) == Rests(s) /\ by < order[s].quantity /\ DecreaseOrder(s, by)

Arrival(id, side, l, qty) ==
  /\ side \in Sides /\ l \in Levels /\ qty \in Quantity \ {0}
  /\ MapFind(idMap, id) = nullptr /\ free # <<>>
  /\ InsertResting(id, side, l, qty)

\* The ways the book changes in one step.
BookStep ==
  \/ UNCHANGED bookVars
  \/ \E s \in Slots : Removal(s)
  \/ \E s \in Slots, by \in Nat : Decrease(s, by)
  \/ \E id \in OrderIds, side \in Sides, l \in Levels, qty \in Quantity \ {0} :
       taker \in Submissions /\ qty <= taker.qty /\ Arrival(id, side, l, qty)

\* The order at the head of the best opposite level, which a fill trades with.
LEMMA FillStep ==
  ASSUME IInv, Fill
  PROVE  \E s \in Slots, qty \in Nat \ {0} :
           /\ s \in Range(fifo[Opposite(taker.side)][best[Opposite(taker.side)]])
           /\ Rests(s) /\ order[s].side = Opposite(taker.side)
           /\ order[s].level = best[Opposite(taker.side)]
           /\ order[s].quantity \in Nat /\ qty <= order[s].quantity
           /\ remaining' = remaining - qty /\ qty <= remaining
           /\ remaining < order[s].quantity => qty = remaining
           /\ \/ qty = order[s].quantity /\ RemoveOrder(s)
              \/ qty < order[s].quantity /\ DecreaseOrder(s, qty)
<1> DEFINE opp == Opposite(taker.side)
           i   == best[opp]
           q   == fifo[opp][i]
           s   == Head(q)
           n   == order[s].quantity
           qty == IF remaining < n THEN remaining ELSE n
<1>1. pc = "match" /\ remaining > 0 /\ i # kNoBest /\ q # <<>>
      /\ remaining' = remaining - qty
  BY DEF Fill, CanFill
<1>2. taker.side \in Sides /\ remaining \in Nat
  BY <1>1, RunningCall
<1>3. opp \in Sides /\ i \in Levels
  BY <1>1, <1>2 DEF Opposite, Sides, IInv, LevelsInv, LevelsTypeOK
<1>4. s \in Range(q)
  <2>1. q \in Seq(Slots) /\ IsInjective(q)
    BY <1>3 DEF IInv, LevelsInv, LevelsTypeOK, SlotsInv, BookIntegrity, SlotsUsedOnce
  <2> HIDE DEF q
  <2> QED BY <1>1, <2>1, TakeFromFront
<1>5. Rests(s) /\ order[s].side = opp /\ order[s].level = i
  BY <1>3, <1>4, LinkedRests DEF IInv
<1>6. n \in Nat /\ n # 0 /\ s \in Slots
  BY <1>5, OrderFields DEF Rests
<1>7. qty = n => RemoveOrder(s)
  BY <1>5 DEF Fill, RemoveOrder
<1>8. qty # n => DecreaseOrder(s, qty)
  BY DEF Fill
<1> HIDE DEF n
<1>9. /\ qty \in Nat \ {0} /\ qty <= n /\ qty <= remaining
      /\ remaining < n => qty = remaining
      /\ qty = n \/ qty < n
  BY <1>1, <1>2, <1>6
<1> HIDE DEF qty, s
<1>10. \/ qty = n /\ RemoveOrder(s)
       \/ qty < n /\ DecreaseOrder(s, qty)
  <2>1. CASE qty = n
    BY <1>7, <2>1
  <2>2. CASE qty # n
    <3>1. qty < n
      BY <1>9, <2>2
    <3> QED BY <1>8, <2>2, <3>1
  <2> QED BY <2>1, <2>2
<1> QED BY <1>1, <1>4, <1>5, <1>6, <1>9, <1>10 DEF n

\* The three ways are all there are.
LEMMA BookSteps ==
  ASSUME IInv, [Next]_vars
  PROVE  BookStep
<1>1. ASSUME UNCHANGED bookVars PROVE BookStep
  BY <1>1 DEF BookStep
<1>2. ASSUME NEW s, Rests(s), RemoveOrder(s) PROVE BookStep
  <2>1. s \in Slots
    BY <1>2 DEF Rests
  <2> QED BY <1>2, <2>1 DEF BookStep, Removal
<1>3. ASSUME NEW s, NEW by \in Nat, Rests(s), by < order[s].quantity, DecreaseOrder(s, by)
      PROVE  BookStep
  <2>1. s \in Slots
    BY <1>3 DEF Rests
  <2> QED BY <1>3, <2>1 DEF BookStep, Decrease
<1>4. CASE Submit \/ Resubmit
  BY <1>1, <1>4 DEF Submit, Resubmit, Enter
<1>5. ASSUME NEW id \in OrderIds, MapFind(idMap, id) # nullptr
      PROVE  /\ Rests(MapFind(idMap, id))
             /\ order[MapFind(idMap, id)].quantity \in Nat
  BY <1>5, FoundRests, OrderFields DEF IInv, Rests
<1>6. CASE Cancel
  BY <1>1, <1>2, <1>5, <1>6 DEF Cancel, CancelOne
<1>7. \A qty \in Quantities : qty \in Nat
  BY ConfigAssumption, CallerAssumption DEF Quantity
<1>8. CASE Reduce
  <2>1. PICK id \in OrderIds, by \in Quantities : ReduceOne(id, by)
    BY <1>8 DEF Reduce
  <2> DEFINE s == MapFind(idMap, id)
  <2>2. CASE s # nullptr /\ by >= order[s].quantity
    BY <1>2, <1>5, <2>1, <2>2 DEF ReduceOne
  <2>3. CASE s # nullptr /\ ~(by >= order[s].quantity)
    <3>1. DecreaseOrder(s, by) /\ Rests(s)
      BY <1>5, <2>1, <2>3 DEF ReduceOne
    <3>2. by \in Nat /\ order[s].quantity \in Nat
      BY <1>5, <1>7, <2>3
    <3> HIDE DEF s
    <3>3. by < order[s].quantity
      BY <2>3, <3>2
    <3> QED BY <1>3, <3>1, <3>2, <3>3
  <2>4. CASE s = nullptr
    BY <1>1, <2>1, <2>4 DEF ReduceOne
  <2> QED BY <2>2, <2>3, <2>4
<1>9. CASE Modify
  <2>1. PICK id \in OrderIds, qty \in Quantities :
          LET s == MapFind(idMap, id)
          IN  \/ UNCHANGED bookVars
              \/ s # nullptr /\ RemoveOrder(s)
              \/ /\ s # nullptr /\ qty > 0 /\ qty <= order[s].quantity
                 /\ DecreaseOrder(s, order[s].quantity - qty)
    BY <1>9 DEF Modify, KeepsPriority
  <2> DEFINE s == MapFind(idMap, id)
             n == order[s].quantity
  <2>2. CASE /\ s # nullptr /\ qty > 0 /\ qty <= n
             /\ DecreaseOrder(s, n - qty)
    <3>1. Rests(s) /\ n \in Nat /\ qty \in Nat
      BY <1>5, <1>7, <2>2
    <3> HIDE DEF s
    <3>2. n - qty \in Nat /\ n - qty < n
      <4> HIDE DEF n
      <4> QED BY <2>2, <3>1
    <3> QED BY <1>3, <2>2, <3>1, <3>2
  <2> QED BY <1>1, <1>2, <1>5, <2>1, <2>2
<1>10. CASE Fill
  <2>1. PICK s \in Slots, qty \in Nat \ {0} :
          /\ Rests(s)
          /\ \/ RemoveOrder(s)
             \/ qty < order[s].quantity /\ DecreaseOrder(s, qty)
    BY <1>10, FillStep
  <2> QED BY <1>2, <1>3, <2>1
<1>11. CASE Rest
  <2> DEFINE l == PriceToIdx(taker.price)
  <2>1. /\ MatchOver /\ remaining # 0 /\ ~IsMarket(taker) /\ free # <<>>
        /\ InsertResting(taker.id, taker.side, l, remaining)
    BY <1>11 DEF Rest, Resting, NeverRests
  <2>2. pc \in {"match", "finish"}
    BY <2>1 DEF MatchOver
  <2>3. /\ taker.id \in OrderIds /\ taker.side \in Sides /\ taker.price \in Int
        /\ MapFind(idMap, taker.id) = nullptr
        /\ InRange(taker.price) /\ remaining \in Quantity \ {0}
        /\ taker \in Submissions /\ remaining <= taker.qty
    BY <2>1, <2>2, RunningCall
  <2>4. l \in Levels
    BY <2>3, ConfigAssumption DEF InRange, PriceToIdx, Levels
  <2> HIDE DEF l
  <2> QED BY <2>1, <2>3, <2>4 DEF BookStep, Arrival
<1>12. CASE ReturnFilled \/ DropRemainder \/ Abort \/ SinkThrows
  BY <1>1, <1>12 DEF ReturnFilled, DropRemainder, Abort, SinkThrows
<1>13. CASE UNCHANGED vars
  BY <1>1, <1>13 DEF vars
<1> QED BY <1>4, <1>6, <1>8, <1>9, <1>10, <1>11, <1>12, <1>13 DEF Next, Continue

-----------------------------------------------------------------------------
(* No order is lost.                                                       *)

\* Every order in the slab is linked where it says, and the id map leads to it.
NoOrderLost == \A s \in Slots : order[s] \in Orders => Rests(s)

\* A removal takes one order, a decrease none, and an arrival brings one that
\* is linked and found.
LEMMA StepLosesNoOrder ==
  ASSUME IInv, IInv', NoOrderLost, BookStep
  PROVE  NoOrderLost'
<1> SUFFICES ASSUME NEW x \in Slots, order'[x] \in Orders
             PROVE  Rests(x)'
  BY DEF NoOrderLost
<1>0. /\ order \in [Slots -> Orders \cup {FreeSlot}] /\ idMap \in Maps
      /\ order'[x].id \in OrderIds /\ order'[x] # FreeSlot /\ x # nullptr
  BY OrderFields DEF IInv, SlotsInv, SlotsTypeOK, Slots, nullptr
<1>1. ASSUME MapFind(idMap', order'[x].id) = x PROVE Rests(x)'
  BY <1>0, <1>1 DEF IInv, SlotsInv, BookIntegrity, FoundOrdersAreLinked, Rests
<1>2. ASSUME order[x] \in Orders
      PROVE  order[x].id \in OrderIds /\ MapFind(idMap, order[x].id) = x
  BY <1>2, OrderFields DEF NoOrderLost, Rests
<1>3. CASE UNCHANGED bookVars
  BY <1>1, <1>2, <1>3 DEF bookVars
<1>4. ASSUME NEW s \in Slots, Removal(s) PROVE Rests(x)'
  <2>1. Rests(s) /\ order' = [order EXCEPT ![s] = FreeSlot]
    BY <1>4 DEF Removal, RemoveOrder, Deallocate
  <2>2. x # s /\ order'[x] = order[x]
    BY <1>0, <2>1
  <2>3. order[x].id # order[s].id
    BY <1>2, <2>1, <2>2 DEF Rests
  <2>4. MapFind(idMap', order[x].id) = MapFind(idMap, order[x].id)
    BY <1>2, <1>4, <2>1, <2>2, <2>3, RemoveOrderKeeps DEF IInv, Removal
  <2> QED BY <1>1, <1>2, <2>2, <2>4
<1>5. ASSUME NEW s \in Slots, NEW by \in Nat, Decrease(s, by) PROVE Rests(x)'
  <2>1. idMap' = idMap /\ order' = [order EXCEPT ![s].quantity = @ - by] /\ order[s] \in Orders
    BY <1>5 DEF Decrease, DecreaseOrder, Rests
  <2>2. order[x] \in Orders /\ order'[x].id = order[x].id
    <3>1. CASE x = s
      BY <1>0, <2>1, <3>1 DEF Orders
    <3>2. CASE x # s
      BY <1>0, <2>1, <3>2
    <3> QED BY <3>1, <3>2
  <2> QED BY <1>1, <1>2, <2>1, <2>2
<1>6. ASSUME NEW id \in OrderIds, NEW side \in Sides, NEW l \in Levels,
             NEW qty \in Quantity \ {0}, Arrival(id, side, l, qty)
      PROVE  Rests(x)'
  <2> DEFINE s == Head(free)
  <2>1. s \in Slots
    BY <1>6, TakeFromFront DEF Arrival, IInv, SlotsInv, SlotsTypeOK, BookIntegrity, SlotsUsedOnce
  <2>2. /\ MapFind(idMap, id) = nullptr /\ idMap' = MapInsert(idMap, id, s)
        /\ order' = [order EXCEPT ![s] = [id |-> id, quantity |-> qty,
                                          level |-> l, side |-> side]]
    BY <1>6 DEF Arrival, InsertResting
  <2> HIDE DEF s
  <2>3. \A other \in OrderIds :
          MapFind(idMap', other) = IF other = id THEN s ELSE MapFind(idMap, other)
    <3>1. order[s] = FreeSlot
      BY <1>6, TakeFromFront DEF Arrival, IInv, SlotsInv, SlotsTypeOK, BookIntegrity, SlotsUsedOnce, s
    <3> QED BY <2>1, <2>2, <3>1, FreeSlotInserted DEF IInv
  <2>4. CASE x = s
    BY <1>0, <1>1, <2>1, <2>2, <2>3, <2>4
  <2>5. CASE x # s
    <3>1. order'[x] = order[x] /\ order[x] \in Orders
      BY <1>0, <2>2, <2>5
    <3>2. order[x].id # id
      BY <1>0, <1>2, <2>2, <3>1
    <3> QED BY <1>1, <1>2, <2>3, <3>1, <3>2
  <2> QED BY <2>4, <2>5
<1> QED BY <1>3, <1>4, <1>5, <1>6 DEF BookStep

-----------------------------------------------------------------------------
(* Priority within a level.                                                *)

\* The elements of q that r still has stand in r in the order they had in q.
OrderKept(q, r) ==
  \A i, j \in DOMAIN q, a, b \in DOMAIN r :
    i < j /\ r[a] = q[i] /\ r[b] = q[j] => a < b

\* A queue that does not change keeps its order, ...
LEMMA SameQueueKeepsOrder ==
  ASSUME NEW S, NEW q \in Seq(S), IsInjective(q)
  PROVE  OrderKept(q, q)
<1>1. \A i, j \in DOMAIN q : q[i] = q[j] => i = j
  BY DEF IsInjective
<1> QED BY <1>1 DEF OrderKept

\* ... one that loses an order keeps that of the others, ...
LEMMA RemovalKeepsOrder ==
  ASSUME NEW S, NEW q \in Seq(S), IsInjective(q), NEW s \in Range(q)
  PROVE  OrderKept(q, Unlink(q, s))
<1> DEFINE p == Position(q, s)
           r == RemoveAt(q, p)
<1>1. p \in 1 .. Len(q) /\ Len(q) \in Nat /\ DOMAIN q = 1 .. Len(q)
  <2>1. \E i \in DOMAIN q : q[i] = s
    BY DEF Range
  <2>2. p \in DOMAIN q
    BY <2>1 DEF Position
  <2> QED BY <2>2, LenProperties
<1> HIDE DEF p
<1>2. /\ r \in Seq(S) /\ Len(r) = Len(q) - 1
      /\ \A k \in 1 .. Len(q) - 1 : r[k] = IF k < p THEN q[k] ELSE q[k + 1]
  BY <1>1, RemoveAtProperties
<1>3. DOMAIN r = 1 .. Len(q) - 1
  BY <1>2, LenProperties
<1> HIDE DEF r
<1>4. \A j, k \in 1 .. Len(q) : q[j] = q[k] => j = k
  BY <1>1 DEF IsInjective
<1>5. \A k \in 1 .. Len(q) - 1, i \in 1 .. Len(q) :
        r[k] = q[i] => i = IF k < p THEN k ELSE k + 1
  <2> TAKE k \in 1 .. Len(q) - 1, i \in 1 .. Len(q)
  <2>1. k \in 1 .. Len(q) /\ k + 1 \in 1 .. Len(q)
    BY <1>1
  <2> QED BY <1>2, <1>4, <2>1
<1>6. OrderKept(q, r)
  <2> SUFFICES ASSUME NEW i \in 1 .. Len(q), NEW j \in 1 .. Len(q),
                      NEW a \in 1 .. Len(q) - 1, NEW b \in 1 .. Len(q) - 1,
                      i < j, r[a] = q[i], r[b] = q[j]
               PROVE  a < b
    BY <1>1, <1>3 DEF OrderKept
  <2>1. /\ i = IF a < p THEN a ELSE a + 1
        /\ j = IF b < p THEN b ELSE b + 1
    BY <1>5
  <2> QED BY <1>1, <2>1
<1> QED BY <1>6 DEF Unlink, r, p

\* ... and a new order queues behind all of them.
LEMMA ArrivalKeepsOrder ==
  ASSUME NEW S, NEW q \in Seq(S), IsInjective(q), NEW s \in S, s \notin Range(q)
  PROVE  OrderKept(q, Append(q, s))
<1>1. /\ Len(q) \in Nat /\ DOMAIN q = 1 .. Len(q)
      /\ DOMAIN Append(q, s) = 1 .. Len(q) + 1
      /\ \A k \in 1 .. Len(q) : Append(q, s)[k] = q[k]
      /\ Append(q, s)[Len(q) + 1] = s
  BY LenProperties
<1>2. \A j, k \in 1 .. Len(q) : q[j] = q[k] => j = k
  BY <1>1 DEF IsInjective
<1>3. \A k \in 1 .. Len(q) : q[k] # s
  BY <1>1 DEF Range
<1>4. \A a \in 1 .. Len(q) + 1, i \in 1 .. Len(q) : Append(q, s)[a] = q[i] => a = i
  BY <1>1, <1>2, <1>3
<1> QED BY <1>1, <1>4 DEF OrderKept

\* The lists a step leaves alone, and the one it changes.
LEMMA StepKeepsOrder ==
  ASSUME IInv, [Next]_vars, NEW side \in Sides, NEW l \in Levels
  PROVE  OrderKept(fifo[side][l], fifo'[side][l])
<1>1. /\ fifo[side][l] \in Seq(Slots) /\ IsInjective(fifo[side][l])
      /\ fifo \in [Sides -> [Levels -> Seq(Slots)]]
  BY DEF IInv, LevelsInv, LevelsTypeOK, SlotsInv, BookIntegrity, SlotsUsedOnce
<1>2. ASSUME fifo'[side][l] = fifo[side][l]
      PROVE  OrderKept(fifo[side][l], fifo'[side][l])
  BY <1>1, <1>2, SameQueueKeepsOrder
<1>3. CASE UNCHANGED bookVars
  BY <1>2, <1>3 DEF bookVars
<1>4. CASE \E s \in Slots : Removal(s)
  <2>1. PICK s \in Slots : Rests(s) /\ RemoveOrder(s)
    BY <1>4 DEF Removal
  <2> DEFINE sd == order[s].side
             k  == order[s].level
  <2>2. /\ fifo' = [fifo EXCEPT ![sd][k] = Unlink(fifo[sd][k], s)]
        /\ sd \in Sides /\ k \in Levels /\ s \in Range(fifo[sd][k])
    BY <2>1, OrderFields DEF RemoveOrder, ShrinkLevel, Rests
  <2> HIDE DEF sd, k
  <2>3. CASE side = sd /\ l = k
    <3>1. fifo'[side][l] = Unlink(fifo[side][l], s)
      BY <1>1, <2>2, <2>3
    <3> QED BY <1>1, <2>2, <2>3, <3>1, RemovalKeepsOrder
  <2>4. CASE ~(side = sd /\ l = k)
    BY <1>1, <1>2, <2>2, <2>4
  <2> QED BY <2>3, <2>4
<1>5. CASE \E s \in Slots, by \in Nat : Decrease(s, by)
  <2>1. PICK s \in Slots : Rests(s) /\ \E by \in Nat : DecreaseOrder(s, by)
    BY <1>5 DEF Decrease
  <2>2. fifo' = [fifo EXCEPT ![order[s].side][order[s].level] =
                               fifo[order[s].side][order[s].level]]
    BY <2>1 DEF DecreaseOrder, ShrinkLevel
  <2> QED BY <1>1, <1>2, <2>1, <2>2
<1>6. CASE \E id \in OrderIds, sd \in Sides, k \in Levels, qty \in Quantity \ {0} :
             Arrival(id, sd, k, qty)
  <2> DEFINE s == Head(free)
  <2>1. PICK sd \in Sides, k \in Levels :
          free # <<>> /\ fifo' = [fifo EXCEPT ![sd][k] = Append(fifo[sd][k], s)]
    BY <1>6 DEF Arrival, InsertResting
  <2>2. s \in Slots /\ s \in Range(free) /\ order[s] = FreeSlot
    <3>1. /\ free \in Seq(Slots) /\ IsInjective(free)
          /\ \A x \in Slots : order[x] = FreeSlot <=> x \in Range(free)
      BY DEF IInv, SlotsInv, SlotsTypeOK, BookIntegrity, SlotsUsedOnce
    <3> QED BY <2>1, <3>1, TakeFromFront
  <2> HIDE DEF s
  <2>3. s \notin Range(fifo[sd][k])
    BY <2>2, LinkedRests, OrderFields DEF IInv, Rests
  <2>4. CASE side = sd /\ l = k
    <3>1. fifo'[side][l] = Append(fifo[side][l], s)
      BY <1>1, <2>1, <2>4
    <3> QED BY <1>1, <2>2, <2>3, <2>4, <3>1, ArrivalKeepsOrder
  <2>5. CASE ~(side = sd /\ l = k)
    BY <1>1, <1>2, <2>1, <2>5
  <2> QED BY <2>4, <2>5
<1> QED BY <1>3, <1>4, <1>5, <1>6, BookSteps DEF BookStep

\* No call costs an order that stays in a level its place among the others that
\* stay: reduce and modify decrement in place, removal unlinks one node.
THEOREM PriorityKept == Spec => QueueOrderKept
<1>1. IInv /\ [Next]_vars =>
        [\A side \in Sides, l \in Levels : OrderKept(fifo[side][l], fifo'[side][l])]_vars
  BY StepKeepsOrder
<1>2. (\A side \in Sides, l \in Levels : OrderKept(fifo[side][l], fifo'[side][l]))
      <=> (\A side \in Sides, l \in Levels :
             LET q == fifo[side][l]
                 r == fifo'[side][l]
             IN  \A i, j \in DOMAIN q, a, b \in DOMAIN r :
                   i < j /\ r[a] = q[i] /\ r[b] = q[j] => a < b)
  BY DEF OrderKept
<1> QED BY <1>1, <1>2, Invariance, PTL DEF Spec, QueueOrderKept

-----------------------------------------------------------------------------
(* The sweep of one call.                                                  *)

\* While a call matches, no opposite order is left ahead of its last trade.
SweepInv ==
  pc = "match" /\ trade # NoTrade =>
    \A k \in Occupied(Opposite(taker.side)) :
      ~Ahead(Opposite(taker.side), k, trade.level)

\* A fill empties levels, and occupies none.
LEMMA FillOccupiesNothing ==
  ASSUME IInv, Fill, NEW side \in Sides
  PROVE  Occupied(side)' \subseteq Occupied(side)
<1>1. PICK s \in Slots : Rests(s) /\ (RemoveOrder(s) \/ \E by \in Nat : DecreaseOrder(s, by))
  BY FillStep
<1> DEFINE sd == order[s].side
           l  == order[s].level
<1>2. l \in Occupied(sd)
  BY <1>1, RestsInOccupied DEF IInv
<1>3. \E q : fifo' = [fifo EXCEPT ![sd][l] = q]
  BY <1>1 DEF RemoveOrder, DecreaseOrder, ShrinkLevel
<1>4. \A k \in Levels : ~(side = sd /\ k = l) => fifo'[side][k] = fifo[side][k]
  <2>1. fifo \in [Sides -> [Levels -> Seq(Slots)]]
    BY DEF IInv, LevelsInv, LevelsTypeOK
  <2> HIDE DEF sd, l
  <2> QED BY <1>3, <2>1
<1> HIDE DEF sd, l
<1> QED BY <1>2, <1>4 DEF Occupied

\* Where a fill trades.
LEMMA FillAtBest ==
  ASSUME IInv, Fill
  PROVE  /\ pc = "match" /\ Opposite(taker.side) \in Sides
         /\ trade'.level = best[Opposite(taker.side)]
         /\ best[Opposite(taker.side)] \in Occupied(Opposite(taker.side))
         /\ \A k \in Occupied(Opposite(taker.side)) :
              ~Ahead(Opposite(taker.side), k, best[Opposite(taker.side)])
         /\ IsMarket(taker) \/ Reaches(taker.side, PriceToIdx(taker.price),
                                       best[Opposite(taker.side)])
<1> DEFINE opp == Opposite(taker.side)
<1>1. /\ pc = "match" /\ trade'.level = best[opp] /\ best[opp] # kNoBest
      /\ IsMarket(taker) \/ Reaches(taker.side, PriceToIdx(taker.price), best[opp])
  BY DEF Fill, CanFill
<1>2. opp \in Sides
  BY <1>1, RunningCall DEF Opposite, Sides
<1>3. /\ best[opp] \in Occupied(opp)
      /\ \A k \in Occupied(opp) : ~Ahead(opp, k, best[opp])
  BY <1>1, <1>2 DEF IInv, LevelsInv, BestIsExtremal
<1> QED BY <1>1, <1>2, <1>3

\* Only a fill calls the sink.
LEMMA OnlyFillsTrade ==
  ASSUME [Next]_vars
  PROVE  \/ Fill
         \/ trade' = NoTrade
         \/ pc' # "match" /\ trade' = trade
         \/ UNCHANGED vars
BY DEF Next, Continue, Submit, Resubmit, Enter, Cancel, CancelOne, Reduce, ReduceOne,
       Modify, SinkThrows, ReturnFilled, DropRemainder, Rest, Abort, Return

\* Every step keeps the sweep of the matching loop within the levels not yet passed.
LEMMA NextKeepsSweep ==
  ASSUME IInv, SweepInv, [Next]_vars
  PROVE  SweepInv'
<1>1. CASE Fill
  <2> DEFINE opp == Opposite(taker.side)
  <2>1. /\ opp \in Sides /\ trade'.level = best[opp]
        /\ \A k \in Occupied(opp) : ~Ahead(opp, k, best[opp])
    BY <1>1, FillAtBest
  <2>2. Occupied(opp)' \subseteq Occupied(opp) /\ taker' = taker
    <3>1. taker' = taker
      BY <1>1 DEF Fill
    <3>2. Opposite(taker.side)' = opp
      BY <3>1
    <3>3. \A sd \in Sides : Occupied(sd)' \subseteq Occupied(sd)
      BY <1>1, FillOccupiesNothing
    <3> HIDE DEF opp
    <3>4. Occupied(opp)' = {k \in Levels : fifo'[opp'][k] # <<>>}
      BY DEF Occupied
    <3> QED BY <2>1, <3>1, <3>2, <3>3, <3>4 DEF opp, Occupied
  <2> QED BY <2>1, <2>2 DEF SweepInv
<1>2. CASE UNCHANGED vars
  BY <1>2 DEF vars, bookVars, callVars, SweepInv, Occupied
<1> QED BY <1>1, <1>2, OnlyFillsTrade DEF SweepInv

\* The trades of one call go from the touch into the book and stop at the
\* limit: the matching loop never returns to a level it has passed.
THEOREM SweepsOutward == Spec => TradesWalkAway
<1>1. Init => SweepInv
  BY DEF Init, SweepInv
<1>2. IInv /\ SweepInv /\ [Next]_vars => SweepInv'
  BY NextKeepsSweep
<1>3. IInv /\ SweepInv /\ [Next]_vars =>
        [(pc = "match" /\ trade' \notin {trade, NoTrade}) =>
           /\ trade # NoTrade => ~Ahead(Opposite(taker.side), trade'.level, trade.level)
           /\ IsMarket(taker) \/ Reaches(taker.side, PriceToIdx(taker.price), trade'.level)]_vars
  <2> SUFFICES ASSUME IInv, SweepInv, [Next]_vars,
                      pc = "match", trade' \notin {trade, NoTrade}
               PROVE  /\ trade # NoTrade =>
                           ~Ahead(Opposite(taker.side), trade'.level, trade.level)
                      /\ IsMarket(taker) \/ Reaches(taker.side, PriceToIdx(taker.price),
                                                    trade'.level)
    OBVIOUS
  <2>1. Fill
    <3>1. trade' # trade
      OBVIOUS
    <3>2. ~UNCHANGED vars
      BY <3>1 DEF vars, callVars
    <3> QED BY <3>1, <3>2, OnlyFillsTrade
  <2> QED BY <2>1, FillAtBest DEF SweepInv
<1> QED BY <1>1, <1>2, <1>3, Invariance, PTL DEF Spec, TradesWalkAway

-----------------------------------------------------------------------------
(* Quantities.                                                             *)

\* The quantities along the list of a level.
QtyList(side, l) ==
  [i \in DOMAIN fifo[side][l] |-> order[fifo[side][l][i]].quantity]

\* What slot contents o count for at the levels R of a side.
SlotQty(o, side, R) ==
  IF o \in Orders /\ o.side = side /\ o.level \in R THEN o.quantity ELSE 0

\* The quantities along a queue.
LEMMA QtyListProperties ==
  ASSUME IInv, NEW side \in Sides, NEW l \in Levels
  PROVE  /\ QtyList(side, l) \in Seq(Int)
         /\ Len(QtyList(side, l)) = Len(fifo[side][l])
         /\ \A i \in 1 .. Len(fifo[side][l]) :
              QtyList(side, l)[i] = order[fifo[side][l][i]].quantity
         /\ \A i \in 1 .. Len(QtyList(side, l)) : QtyList(side, l)[i] \in Nat
         /\ QueueQty(side, l) = TotalOf(QtyList(side, l))
<1> DEFINE q == fifo[side][l]
<1>1. q \in Seq(Slots)
  BY DEF IInv, LevelsInv, LevelsTypeOK
<1>2. \A i \in DOMAIN q : order[q[i]].quantity \in Nat
  <2> TAKE i \in DOMAIN q
  <2>1. q[i] \in Range(q)
    BY DEF Range
  <2>2. Rests(q[i])
    BY <2>1, LinkedRests DEF IInv
  <2> QED BY <2>2, OrderFields DEF Rests
<1>3. DOMAIN q = 1 .. Len(q) /\ Len(q) \in Nat
  BY <1>1, LenProperties
<1> DEFINE w == QtyList(side, l)
<1>4. w = [i \in 1 .. Len(q) |-> order[q[i]].quantity]
  BY <1>3 DEF QtyList
<1>5. w \in Seq(Int) /\ Len(w) = Len(q)
      /\ \A i \in 1 .. Len(q) : w[i] = order[q[i]].quantity /\ w[i] \in Nat
  <2>1. \A i \in 1 .. Len(q) : order[q[i]].quantity \in Nat
    BY <1>2, <1>3
  <2> HIDE DEF q, w
  <2>2. \A i \in 1 .. Len(q) : order[q[i]].quantity \in Int
    BY <2>1
  <2>3. w \in Seq(Int) /\ Len(w) = Len(q)
    BY <1>3, <1>4, <2>2, IsASeq
  <2>4. \A i \in 1 .. Len(q) : w[i] = order[q[i]].quantity
    BY <1>4
  <2> QED BY <2>1, <2>3, <2>4
<1>6. QueueQty(side, l) = TotalOf(w)
  BY DEF QueueQty, QtyList
<1> HIDE DEF w
<1> QED BY <1>5, <1>6 DEF w

\* The quantities over all slots.
SlotList(side, R) == [s \in Slots |-> SlotQty(order[s], side, R)]

\* The quantities slot by slot, 0 where no order of the side rests at R.
LEMMA SlotListProperties ==
  ASSUME SlotsTypeOK, NEW side, NEW R
  PROVE  /\ SlotList(side, R) \in Seq(Int) /\ Len(SlotList(side, R)) = MaxOrders
         /\ \A s \in Slots : /\ SlotList(side, R)[s] = SlotQty(order[s], side, R)
                             /\ SlotList(side, R)[s] \in Nat
         /\ SlotsQty(side, R) = TotalOf(SlotList(side, R))
<1>1. Slots = 1 .. MaxOrders /\ MaxOrders \in Nat
  BY ConfigAssumption DEF Slots
<1>2. \A s \in Slots : SlotQty(order[s], side, R) \in Nat
  <2> TAKE s \in Slots
  <2>1. order[s] \in Orders => order[s].quantity \in Nat
    BY OrderFields
  <2> QED BY <2>1 DEF SlotQty
<1>3. SlotList(side, R) \in Seq(Int) /\ Len(SlotList(side, R)) = MaxOrders
  <2>1. \A s \in 1 .. MaxOrders : SlotQty(order[s], side, R) \in Int
    BY <1>1, <1>2
  <2> QED BY <1>1, <2>1, IsASeq DEF SlotList
<1>4. SlotsQty(side, R) = TotalOf(SlotList(side, R))
  BY DEF SlotsQty, SlotList, SlotQty
<1> QED BY <1>2, <1>3, <1>4 DEF SlotList

-----------------------------------------------------------------------------
(* How a step changes quantities.                                          *)

\* d more (or less) rests in slot s, which level k of side sd links.
QtyStep(sd, k, s, d) ==
  /\ sd \in Sides /\ k \in Levels /\ s \in Slots /\ d \in Int
  /\ totalQty' = [totalQty EXCEPT ![sd][k] = (totalQty[sd][k] + d) % QuantityMod]
  /\ \A side \in Sides, l \in Levels :
       QueueQty(side, l)' = QueueQty(side, l) + (IF side = sd /\ l = k THEN d ELSE 0)
  /\ \A side \in Sides, R \in SUBSET Levels :
       SlotsQty(side, R)' = SlotsQty(side, R) + (IF side = sd /\ k \in R THEN d ELSE 0)

\* One slot changes.
LEMMA SlotChange ==
  ASSUME SlotsTypeOK, SlotsTypeOK', NEW s \in Slots,
         \A x \in Slots : x # s => order'[x] = order[x],
         NEW d \in Int, NEW side, NEW R,
         SlotQty(order'[s], side, R) = SlotQty(order[s], side, R) + d
  PROVE  SlotsQty(side, R)' = SlotsQty(side, R) + d
<1> DEFINE w == SlotList(side, R)
           v == SlotList(side, R)'
<1>1. /\ w \in Seq(Int) /\ Len(w) = MaxOrders
      /\ \A x \in Slots : w[x] = SlotQty(order[x], side, R)
      /\ SlotsQty(side, R) = TotalOf(w)
  BY SlotListProperties
<1>2. v = [x \in Slots |-> SlotQty(order'[x], side, R)]
  BY DEF SlotList, SlotQty
<1>3. v \in Seq(Int) /\ Len(v) = MaxOrders /\ SlotsQty(side, R)' = TotalOf(v)
  <2>1. Slots = 1 .. MaxOrders /\ MaxOrders \in Nat
    BY ConfigAssumption DEF Slots
  <2>2. \A x \in 1 .. MaxOrders : SlotQty(order'[x], side, R) \in Int
    <3> TAKE x \in 1 .. MaxOrders
    <3>1. order'[x] \in Orders => order'[x].quantity \in Int
      BY OrderFields
    <3> QED BY <3>1 DEF SlotQty
  <2>3. v \in Seq(Int) /\ Len(v) = MaxOrders
    BY <1>2, <2>1, <2>2, IsASeq
  <2>4. SlotsQty(side, R)' = TotalOf(v)
    BY <1>2 DEF SlotsQty, SlotQty
  <2> QED BY <2>3, <2>4
<1> HIDE DEF v, w
<1>4. v[s] = w[s] + d /\ \A x \in Slots : x # s => v[x] = w[x]
  BY <1>1, <1>2
<1>5. Slots = 1 .. Len(w)
  BY <1>1 DEF Slots
<1> QED BY <1>1, <1>3, <1>4, <1>5, TotalOfChange

\* The lists of levels whose slots a step leaves alone.
LEMMA ListUnchanged ==
  ASSUME NEW side, NEW l, fifo'[side][l] = fifo[side][l],
         \A i \in DOMAIN fifo[side][l] : order'[fifo[side][l][i]] = order[fifo[side][l][i]]
  PROVE  QueueQty(side, l)' = QueueQty(side, l)
BY DEF QueueQty

\* Slots of other levels are other slots.
LEMMA ListsApart ==
  ASSUME IInv, NEW sd \in Sides, NEW k \in Levels, NEW s, s \in Range(fifo[sd][k]),
         NEW side \in Sides, NEW l \in Levels, ~(side = sd /\ l = k)
  PROVE  \A i \in DOMAIN fifo[side][l] : fifo[side][l][i] # s /\ fifo[side][l][i] \in Slots
<1> TAKE i \in DOMAIN fifo[side][l]
<1> DEFINE x == fifo[side][l][i]
<1>1. x \in Range(fifo[side][l])
  BY DEF Range
<1>2. Rests(x) /\ order[x].side = side /\ order[x].level = l
  BY <1>1, LinkedRests DEF IInv
<1>3. order[s].side = sd /\ order[s].level = k
  BY LinkedRests DEF IInv
<1> QED BY <1>2, <1>3 DEF Rests

\* An order leaves the book.
LEMMA RemovalQty ==
  ASSUME IInv, IInv', NEW s \in Slots, Rests(s), RemoveOrder(s)
  PROVE  QtyStep(order[s].side, order[s].level, s, -order[s].quantity)
<1>0. PICK sd \in Sides, k \in Levels, n \in Nat :
        sd = order[s].side /\ k = order[s].level /\ n = order[s].quantity
  BY OrderFields DEF Rests
<1> DEFINE q == fifo[sd][k]
           p == Position(q, s)
<1>1. /\ sd \in Sides /\ k \in Levels /\ n \in Nat /\ -n \in Int
      /\ order[s] \in Orders /\ s \in Range(q)
  BY <1>0 DEF Rests
<1>2. /\ order' = [order EXCEPT ![s] = FreeSlot]
      /\ fifo' = [fifo EXCEPT ![sd][k] = RemoveAt(q, p)]
      /\ totalQty' = [totalQty EXCEPT ![sd][k] = (totalQty[sd][k] - n) % QuantityMod]
  BY <1>0 DEF RemoveOrder, Deallocate, ShrinkLevel, Unlink
<1>3. /\ fifo \in [Sides -> [Levels -> Seq(Slots)]] /\ IsInjective(q)
      /\ DOMAIN order = Slots /\ totalQty[sd][k] \in Int
      /\ totalQty \in [Sides -> [Levels -> Quantity]]
  BY <1>1 DEF IInv, LevelsInv, LevelsTypeOK, SlotsInv, BookIntegrity, SlotsUsedOnce,
              SlotsTypeOK, Quantity
<1>4. /\ q \in Seq(Slots) /\ DOMAIN q = 1 .. Len(q) /\ Len(q) \in Nat
      /\ p \in 1 .. Len(q) /\ q[p] = s
  <2>1. q \in Seq(Slots)
    BY <1>1, <1>3
  <2>2. \E i \in DOMAIN q : q[i] = s
    BY <1>1 DEF Range
  <2>3. p \in DOMAIN q /\ q[p] = s
    BY <2>2 DEF Position
  <2> QED BY <2>1, <2>3, LenProperties
<1>5. totalQty' = [totalQty EXCEPT ![sd][k] = (totalQty[sd][k] + -n) % QuantityMod]
  <2>1. totalQty[sd][k] - n = totalQty[sd][k] + -n
    BY <1>1, <1>3
  <2> QED BY <1>2, <2>1
<1> HIDE DEF p
<1>6. QueueQty(sd, k)' = QueueQty(sd, k) + -n
  <2> DEFINE w == QtyList(sd, k)
             r == RemoveAt(q, p)
             v == [i \in DOMAIN r |-> order'[r[i]].quantity]
  <2>1. /\ w \in Seq(Int) /\ Len(w) = Len(q) /\ QueueQty(sd, k) = TotalOf(w)
        /\ \A i \in 1 .. Len(q) : w[i] = order[q[i]].quantity
    BY <1>1, QtyListProperties
  <2>2. /\ r \in Seq(Slots) /\ Len(r) = Len(q) - 1 /\ DOMAIN r = 1 .. Len(q) - 1
        /\ \A i \in 1 .. Len(q) - 1 : r[i] = IF i < p THEN q[i] ELSE q[i + 1]
    <3> HIDE DEF q
    <3>1. /\ r \in Seq(Slots) /\ Len(r) = Len(q) - 1
          /\ \A i \in 1 .. Len(q) - 1 : r[i] = IF i < p THEN q[i] ELSE q[i + 1]
      BY <1>4, RemoveAtProperties
    <3> QED BY <3>1, LenProperties
  <2>3. /\ RemoveAt(w, p) \in Seq(Int) /\ Len(RemoveAt(w, p)) = Len(q) - 1
        /\ \A i \in 1 .. Len(q) - 1 : RemoveAt(w, p)[i] = IF i < p THEN w[i] ELSE w[i + 1]
        /\ DOMAIN RemoveAt(w, p) = 1 .. Len(q) - 1
    <3>1. p \in 1 .. Len(w)
      BY <1>4, <2>1
    <3> HIDE DEF w
    <3>2. /\ RemoveAt(w, p) \in Seq(Int) /\ Len(RemoveAt(w, p)) = Len(w) - 1
          /\ \A i \in 1 .. Len(w) - 1 : RemoveAt(w, p)[i] = IF i < p THEN w[i] ELSE w[i + 1]
      BY <2>1, <3>1, RemoveAtProperties
    <3> QED BY <2>1, <3>2, LenProperties
  <2>4. fifo'[sd][k] = r
    BY <1>1, <1>2, <1>3
  <2>5. QueueQty(sd, k)' = TotalOf(v)
    BY <2>4 DEF QueueQty
  <2> DEFINE u == RemoveAt(w, p)
  <2>6. \A i \in 1 .. Len(q) - 1 : order'[r[i]].quantity = u[i]
    <3> TAKE i \in 1 .. Len(q) - 1
    <3>1. r[i] = (IF i < p THEN q[i] ELSE q[i + 1]) /\ i \in 1 .. Len(q) /\ i + 1 \in 1 .. Len(q)
      BY <1>4, <2>2
    <3>2. r[i] \in Slots /\ r[i] # s
      <4>1. \A j \in 1 .. Len(q) : q[j] \in Slots
        BY <1>4, ElementOfSeq
      <4>2. \A j \in 1 .. Len(q) : q[j] = q[p] => j = p
        BY <1>3, <1>4 DEF IsInjective
      <4> HIDE DEF q, r
      <4> QED BY <1>4, <3>1, <4>1, <4>2
    <3>3. order'[r[i]] = order[r[i]]
      BY <1>2, <1>3, <3>2
    <3>4. u[i] = IF i < p THEN w[i] ELSE w[i + 1]
      BY <2>3
    <3> HIDE DEF q, r, w, u
    <3> QED BY <2>1, <3>1, <3>3, <3>4
  <2>7. v = u
    <3> HIDE DEF w
    <3>1. u = [i \in 1 .. Len(q) - 1 |-> u[i]]
      BY <2>3
    <3>2. v = [i \in 1 .. Len(q) - 1 |-> order'[r[i]].quantity]
      BY <2>2
    <3> HIDE DEF v, u, q, r
    <3> QED BY <2>6, <3>1, <3>2
  <2>8. w[p] = n
    <3> HIDE DEF w
    <3> QED BY <1>0, <1>4, <2>1
  <2>9. TotalOf(w) \in Int
    BY <2>1, TotalIsInt
  <2> HIDE DEF w, v, r, q
  <2>10. TotalOf(RemoveAt(w, p)) = TotalOf(w) - w[p]
    BY <1>4, <2>1, TotalOfRemoval
  <2>11. TotalOf(w) - n = TotalOf(w) + -n
    BY <1>1, <2>9
  <2> QED BY <2>1, <2>5, <2>7, <2>8, <2>10, <2>11 DEF u
<1>7. ASSUME NEW side \in Sides, NEW l \in Levels, ~(side = sd /\ l = k)
      PROVE  QueueQty(side, l)' = QueueQty(side, l) + 0
  <2>1. fifo'[side][l] = fifo[side][l]
    BY <1>2, <1>3, <1>7
  <2>2. \A i \in DOMAIN fifo[side][l] :
          fifo[side][l][i] # s /\ fifo[side][l][i] \in Slots
    BY <1>1, <1>7, ListsApart
  <2>3. QueueQty(side, l)' = QueueQty(side, l)
    BY <1>2, <1>3, <2>1, <2>2, ListUnchanged
  <2>4. QueueQty(side, l) \in Int
    BY QtyListProperties, TotalIsInt
  <2> QED BY <2>3, <2>4
<1>8. ASSUME NEW side \in Sides, NEW R \in SUBSET Levels
      PROVE  SlotsQty(side, R)' = SlotsQty(side, R) + (IF side = sd /\ k \in R THEN -n ELSE 0)
  <2> DEFINE d == IF side = sd /\ k \in R THEN -n ELSE 0
  <2>1. d \in Int
    BY <1>1
  <2>2. FreeSlot \notin Orders
    BY OrderFields
  <2>3. SlotQty(FreeSlot, side, R) = 0
    BY <2>2 DEF SlotQty
  <2>4. SlotQty(order[s], side, R) = IF side = sd /\ k \in R THEN n ELSE 0
    BY <1>0, <1>1 DEF SlotQty
  <2>5. 0 = SlotQty(order[s], side, R) + d
    BY <1>1, <2>4
  <2> HIDE DEF d
  <2>6. SlotsTypeOK /\ SlotsTypeOK'
    BY DEF IInv, SlotsInv
  <2>7. /\ SlotQty(order'[s], side, R) = SlotQty(order[s], side, R) + d
        /\ \A x \in Slots : x # s => order'[x] = order[x]
    BY <1>2, <1>3, <2>3, <2>5
  <2>8. SlotsQty(side, R)' = SlotsQty(side, R) + d
    BY <2>1, <2>6, <2>7, SlotChange
  <2> QED BY <2>8 DEF d
<1>9. \A side \in Sides, l \in Levels :
        QueueQty(side, l)' = QueueQty(side, l) + (IF side = sd /\ l = k THEN -n ELSE 0)
  <2> TAKE side \in Sides, l \in Levels
  <2>1. CASE side = sd /\ l = k
    BY <1>6, <2>1
  <2>2. CASE ~(side = sd /\ l = k)
    BY <1>7, <2>2
  <2> QED BY <2>1, <2>2
<1>10. \A side \in Sides, R \in SUBSET Levels :
        SlotsQty(side, R)' = SlotsQty(side, R) + (IF side = sd /\ k \in R THEN -n ELSE 0)
  BY <1>8
<1> HIDE DEF q
<1>11. QtyStep(sd, k, s, -n)
  BY <1>1, <1>5, <1>9, <1>10 DEF QtyStep
<1> QED BY <1>0, <1>11

\* An order that stays loses quantity.
LEMMA DecreaseQty ==
  ASSUME IInv, IInv', NEW s \in Slots, Rests(s), NEW by \in Nat,
         DecreaseOrder(s, by)
  PROVE  QtyStep(order[s].side, order[s].level, s, -by)
<1>0. PICK sd \in Sides, k \in Levels, n \in Nat :
        sd = order[s].side /\ k = order[s].level /\ n = order[s].quantity
  BY OrderFields DEF Rests
<1> DEFINE q == fifo[sd][k]
<1>1. /\ -by \in Int /\ order[s] \in Orders /\ s \in Range(q)
      /\ n - by = n + -by /\ n + -by \in Int
  BY <1>0 DEF Rests
<1>2. /\ order' = [order EXCEPT ![s].quantity = n - by]
      /\ fifo' = [fifo EXCEPT ![sd][k] = q]
      /\ totalQty' = [totalQty EXCEPT ![sd][k] = (totalQty[sd][k] - by) % QuantityMod]
  BY <1>0 DEF DecreaseOrder, ShrinkLevel
<1>3. /\ fifo \in [Sides -> [Levels -> Seq(Slots)]] /\ IsInjective(q)
      /\ DOMAIN order = Slots /\ totalQty[sd][k] \in Int
      /\ totalQty \in [Sides -> [Levels -> Quantity]]
  BY DEF IInv, LevelsInv, LevelsTypeOK, SlotsInv, BookIntegrity, SlotsUsedOnce,
         SlotsTypeOK, Quantity
<1>4. /\ fifo' = fifo
      /\ \A x \in Slots : x # s => order'[x] = order[x]
      /\ order'[s] = [order[s] EXCEPT !.quantity = n - by]
  BY <1>2, <1>3
<1>5. /\ order'[s].quantity = n + -by /\ order'[s].side = sd /\ order'[s].level = k
      /\ order'[s] \in Orders
  <2>1. /\ order'[s].quantity = n + -by /\ order'[s].side = sd /\ order'[s].level = k
        /\ order'[s].id = order[s].id
    BY <1>0, <1>1, <1>4 DEF Orders
  <2>2. order'[s] \in Orders \cup {FreeSlot} /\ s \in Range(fifo'[sd][k])
    BY <1>1, <1>4 DEF IInv, SlotsInv, SlotsTypeOK
  <2>3. order'[s] \in Orders
    BY <2>2 DEF IInv, SlotsInv, BookIntegrity, LinkedOrdersAreFound
  <2> QED BY <2>1, <2>3
<1>6. totalQty' = [totalQty EXCEPT ![sd][k] = (totalQty[sd][k] + -by) % QuantityMod]
  <2>1. totalQty[sd][k] - by = totalQty[sd][k] + -by
    BY <1>1, <1>3
  <2> QED BY <1>2, <2>1
<1>7. QueueQty(sd, k)' = QueueQty(sd, k) + -by
  <2> DEFINE w == QtyList(sd, k)
             v == [i \in DOMAIN q |-> order'[q[i]].quantity]
  <2>1. /\ w \in Seq(Int) /\ Len(w) = Len(q) /\ QueueQty(sd, k) = TotalOf(w)
        /\ \A i \in 1 .. Len(q) : w[i] = order[q[i]].quantity
    BY QtyListProperties
  <2>2. DOMAIN q = 1 .. Len(q) /\ Len(q) \in Nat /\ \A i \in 1 .. Len(q) : q[i] \in Slots
    <3>1. q \in Seq(Slots)
      BY <1>3
    <3> HIDE DEF q
    <3> QED BY <3>1, LenProperties, ElementOfSeq
  <2>3. PICK p \in 1 .. Len(q) : q[p] = s
    BY <1>1, <2>2 DEF Range
  <2>4. QueueQty(sd, k)' = TotalOf(v)
    BY <1>4 DEF QueueQty
  <2>5. v = [i \in 1 .. Len(q) |-> order'[q[i]].quantity]
    BY <2>2
  <2>6. \A i \in 1 .. Len(q) : i # p => q[i] # s
    BY <1>3, <2>2, <2>3 DEF IsInjective
  <2> HIDE DEF q, w, v
  <2>7. w[p] = n /\ v[p] = n + -by /\ \A i \in 1 .. Len(q) : i # p => v[i] = w[i]
    <3>1. w[p] = n /\ v[p] = n + -by
      BY <1>0, <1>5, <2>1, <2>3, <2>5
    <3>2. ASSUME NEW i \in 1 .. Len(q), i # p PROVE v[i] = w[i]
      BY <1>4, <2>1, <2>2, <2>5, <2>6, <3>2
    <3> QED BY <3>1, <3>2
  <2>8. v \in Seq(Int) /\ Len(v) = Len(w)
    <3>1. \A i \in 1 .. Len(q) : v[i] \in Int
      <4>1. \A i \in 1 .. Len(q) : w[i] \in Int
        BY <2>1, ElementOfSeq
      <4> QED BY <1>1, <2>7, <4>1
    <3>2. v = [i \in 1 .. Len(q) |-> v[i]]
      BY <2>5
    <3> QED BY <2>1, <2>2, <3>1, <3>2, IsASeq
  <2>9. TotalOf(v) = TotalOf(w) + -by
    <3>1. PICK d \in Int : d = -by
      BY <1>1
    <3>2. p \in 1 .. Len(w) /\ v[p] = w[p] + d
      BY <2>1, <2>7, <3>1
    <3>3. \A i \in 1 .. Len(w) : i # p => v[i] = w[i]
      BY <2>1, <2>7
    <3>4. w \in Seq(Int)
      BY <2>1
    <3>5. TotalOf(v) = TotalOf(w) + d
      BY <2>8, <3>2, <3>3, <3>4, TotalOfChange
    <3> QED BY <3>1, <3>5
  <2> QED BY <2>1, <2>4, <2>9
<1>8. ASSUME NEW side \in Sides, NEW l \in Levels, ~(side = sd /\ l = k)
      PROVE  QueueQty(side, l)' = QueueQty(side, l) + 0
  <2>1. fifo'[side][l] = fifo[side][l]
    BY <1>4
  <2>2. \A i \in DOMAIN fifo[side][l] :
          fifo[side][l][i] # s /\ fifo[side][l][i] \in Slots
    BY <1>1, <1>8, ListsApart
  <2>3. QueueQty(side, l)' = QueueQty(side, l)
    BY <1>4, <2>1, <2>2, ListUnchanged
  <2>4. QueueQty(side, l) \in Int
    BY QtyListProperties, TotalIsInt
  <2> QED BY <2>3, <2>4
<1>9. ASSUME NEW side \in Sides, NEW R \in SUBSET Levels
      PROVE  SlotsQty(side, R)' = SlotsQty(side, R) + (IF side = sd /\ k \in R THEN -by ELSE 0)
  <2> DEFINE d == IF side = sd /\ k \in R THEN -by ELSE 0
  <2>1. d \in Int
    BY <1>1
  <2>2. SlotQty(order[s], side, R) = IF side = sd /\ k \in R THEN n ELSE 0
    BY <1>0, <1>1 DEF SlotQty
  <2>3. SlotQty(order'[s], side, R) = IF side = sd /\ k \in R THEN n + -by ELSE 0
    BY <1>5 DEF SlotQty
  <2>4. SlotQty(order'[s], side, R) = SlotQty(order[s], side, R) + d
    BY <1>1, <2>2, <2>3
  <2> HIDE DEF d
  <2>5. SlotsTypeOK /\ SlotsTypeOK'
    BY DEF IInv, SlotsInv
  <2>6. SlotsQty(side, R)' = SlotsQty(side, R) + d
    BY <1>4, <2>1, <2>4, <2>5, SlotChange
  <2> QED BY <2>6 DEF d
<1>10. \A side \in Sides, l \in Levels :
        QueueQty(side, l)' = QueueQty(side, l) + (IF side = sd /\ l = k THEN -by ELSE 0)
  <2> TAKE side \in Sides, l \in Levels
  <2>1. CASE side = sd /\ l = k
    BY <1>7, <2>1
  <2>2. CASE ~(side = sd /\ l = k)
    BY <1>8, <2>2
  <2> QED BY <2>1, <2>2
<1>11. \A side \in Sides, R \in SUBSET Levels :
        SlotsQty(side, R)' = SlotsQty(side, R) + (IF side = sd /\ k \in R THEN -by ELSE 0)
  BY <1>9
<1> HIDE DEF q
<1>12. QtyStep(sd, k, s, -by)
  BY <1>1, <1>6, <1>10, <1>11 DEF QtyStep
<1> QED BY <1>0, <1>12

\* An order joins the back of its level.
LEMMA ArrivalQty ==
  ASSUME IInv, IInv', NEW id \in OrderIds, NEW sd \in Sides, NEW k \in Levels,
         NEW qty \in Quantity \ {0}, free # <<>>, InsertResting(id, sd, k, qty)
  PROVE  \E s \in Slots : QtyStep(sd, k, s, qty)
<1>0. PICK s : s = Head(free)
  OBVIOUS
<1> DEFINE q   == fifo[sd][k]
           new == [id |-> id, quantity |-> qty, level |-> k, side |-> sd]
<1>1. /\ order' = [order EXCEPT ![s] = new]
      /\ fifo' = [fifo EXCEPT ![sd][k] = Append(q, s)]
      /\ totalQty' = [totalQty EXCEPT ![sd][k] = (totalQty[sd][k] + qty) % QuantityMod]
  BY <1>0 DEF InsertResting
<1>2. /\ fifo \in [Sides -> [Levels -> Seq(Slots)]] /\ DOMAIN order = Slots
      /\ totalQty \in [Sides -> [Levels -> Quantity]] /\ qty \in Int
      /\ q \in Seq(Slots)
  BY ConfigAssumption DEF IInv, LevelsInv, LevelsTypeOK, SlotsInv, SlotsTypeOK, Quantity
<1>3. s \in Slots /\ order[s] = FreeSlot /\ FreeSlot \notin Orders
  <2>1. /\ free \in Seq(Slots) /\ IsInjective(free)
        /\ \A x \in Slots : order[x] = FreeSlot <=> x \in Range(free)
    BY DEF IInv, SlotsInv, SlotsTypeOK, BookIntegrity, SlotsUsedOnce
  <2> QED BY <1>0, <2>1, TakeFromFront, OrderFields
<1>4. /\ \A x \in Slots : x # s => order'[x] = order[x]
      /\ order'[s] = new
  BY <1>1, <1>2, <1>3
<1>5. /\ order'[s].quantity = qty /\ order'[s].side = sd /\ order'[s].level = k
      /\ order'[s] \in Orders
  BY <1>4 DEF Orders
<1>6. \A side \in Sides, l \in Levels : \A i \in DOMAIN fifo[side][l] :
        fifo[side][l][i] # s /\ fifo[side][l][i] \in Slots
  <2> TAKE side \in Sides, l \in Levels
  <2> TAKE i \in DOMAIN fifo[side][l]
  <2> DEFINE x == fifo[side][l][i]
  <2>1. x \in Range(fifo[side][l])
    BY DEF Range
  <2>2. Rests(x)
    BY <2>1, LinkedRests DEF IInv
  <2> QED BY <1>3, <2>2 DEF Rests
<1>7. QueueQty(sd, k)' = QueueQty(sd, k) + qty
  <2> DEFINE w == QtyList(sd, k)
             r == Append(q, s)
             v == [i \in DOMAIN r |-> order'[r[i]].quantity]
             n == Len(q)
  <2>1. /\ w \in Seq(Int) /\ Len(w) = n /\ QueueQty(sd, k) = TotalOf(w)
        /\ \A i \in 1 .. n : w[i] = order[q[i]].quantity
    BY QtyListProperties
  <2>2. /\ DOMAIN q = 1 .. n /\ n \in Nat /\ DOMAIN r = 1 .. n + 1
        /\ \A i \in 1 .. n : r[i] = q[i]
        /\ r[n + 1] = s
    <3> HIDE DEF q
    <3> QED BY <1>2, <1>3, LenProperties
  <2>3. fifo'[sd][k] = r
    BY <1>1, <1>2
  <2>4. QueueQty(sd, k)' = TotalOf(v)
    BY <2>3 DEF QueueQty
  <2> DEFINE u == Append(w, qty)
  <2>5. /\ DOMAIN u = 1 .. n + 1 /\ u = [i \in 1 .. n + 1 |-> u[i]]
        /\ \A i \in 1 .. n : u[i] = w[i]
        /\ u[n + 1] = qty
    <3> HIDE DEF q, w, r, n
    <3>1. /\ u \in Seq(Int) /\ Len(u) = Len(w) + 1
          /\ \A i \in 1 .. Len(w) : u[i] = w[i]
          /\ u[Len(w) + 1] = qty
      BY <1>2, <2>1
    <3>2. DOMAIN u = 1 .. n + 1
      BY <2>1, <3>1, LenProperties
    <3>3. u = [i \in 1 .. n + 1 |-> u[i]]
      BY <3>1, <3>2, LenProperties
    <3> HIDE DEF u
    <3> QED BY <2>1, <3>1, <3>2, <3>3
  <2>6. v = [i \in 1 .. n + 1 |-> order'[r[i]].quantity]
    BY <2>2
  <2>7. \A i \in 1 .. n : q[i] # s /\ q[i] \in Slots
    BY <1>6, <2>2
  <2> HIDE DEF q, w, r, v, u, n
  <2>8. \A i \in 1 .. n + 1 : order'[r[i]].quantity = u[i]
    <3> TAKE i \in 1 .. n + 1
    <3>1. CASE i = n + 1
      BY <1>5, <2>2, <2>5, <3>1
    <3>2. CASE i # n + 1
      <4>1. i \in 1 .. n
        BY <2>2, <3>2
      <4>2. order'[r[i]] = order[q[i]]
        BY <1>4, <2>2, <2>7, <4>1
      <4> QED BY <2>1, <2>5, <4>1, <4>2
    <3> QED BY <3>1, <3>2
  <2>9. v = u
    BY <2>5, <2>6, <2>8
  <2>10. TotalOf(u) = TotalOf(w) + qty
    BY <1>2, <2>1, TotalOfAppend DEF u
  <2> QED BY <2>1, <2>4, <2>9, <2>10
<1>8. ASSUME NEW side \in Sides, NEW l \in Levels, ~(side = sd /\ l = k)
      PROVE  QueueQty(side, l)' = QueueQty(side, l) + 0
  <2>1. fifo'[side][l] = fifo[side][l]
    BY <1>1, <1>2, <1>8
  <2>2. QueueQty(side, l)' = QueueQty(side, l)
    BY <1>4, <1>6, <2>1, ListUnchanged
  <2>3. QueueQty(side, l) \in Int
    BY QtyListProperties, TotalIsInt
  <2> QED BY <2>2, <2>3
<1>9. ASSUME NEW side \in Sides, NEW R \in SUBSET Levels
      PROVE  SlotsQty(side, R)' = SlotsQty(side, R) + (IF side = sd /\ k \in R THEN qty ELSE 0)
  <2> DEFINE d == IF side = sd /\ k \in R THEN qty ELSE 0
  <2>1. d \in Int
    BY <1>2
  <2>2. SlotQty(order[s], side, R) = 0
    BY <1>3 DEF SlotQty
  <2>3. SlotQty(order'[s], side, R) = d
    BY <1>5 DEF SlotQty
  <2>4. SlotQty(order'[s], side, R) = SlotQty(order[s], side, R) + d
    BY <2>1, <2>2, <2>3
  <2> HIDE DEF d
  <2>5. SlotsTypeOK /\ SlotsTypeOK'
    BY DEF IInv, SlotsInv
  <2>6. SlotsQty(side, R)' = SlotsQty(side, R) + d
    BY <1>3, <1>4, <2>1, <2>4, <2>5, SlotChange
  <2> QED BY <2>6 DEF d
<1>10. \A side \in Sides, l \in Levels :
        QueueQty(side, l)' = QueueQty(side, l) + (IF side = sd /\ l = k THEN qty ELSE 0)
  <2> TAKE side \in Sides, l \in Levels
  <2>1. CASE side = sd /\ l = k
    BY <1>7, <2>1
  <2>2. CASE ~(side = sd /\ l = k)
    BY <1>8, <2>2
  <2> QED BY <2>1, <2>2
<1>11. \A side \in Sides, R \in SUBSET Levels :
        SlotsQty(side, R)' = SlotsQty(side, R) + (IF side = sd /\ k \in R THEN qty ELSE 0)
  BY <1>9
<1> HIDE DEF q, new
<1>12. QtyStep(sd, k, s, qty)
  BY <1>1, <1>2, <1>3, <1>10, <1>11 DEF QtyStep
<1> QED BY <1>3, <1>12

\* These are all the steps.
LEMMA QtySteps ==
  ASSUME IInv, [Next]_vars
  PROVE  \/ UNCHANGED bookVars
         \/ \E sd \in Sides, k \in Levels, s \in Slots, d \in Int : QtyStep(sd, k, s, d)
<1>0. IInv'
  BY NextKeeps
<1> DEFINE Goal == \E sd \in Sides, k \in Levels, s \in Slots, d \in Int : QtyStep(sd, k, s, d)
<1>1. ASSUME NEW sd, NEW k, NEW s, NEW d, QtyStep(sd, k, s, d)
      PROVE  Goal
  <2>1. sd \in Sides /\ k \in Levels /\ s \in Slots /\ d \in Int
    BY <1>1 DEF QtyStep
  <2> QED BY <1>1, <2>1
<1> HIDE DEF Goal
<1>2. ASSUME \E s \in Slots : Removal(s)
      PROVE  Goal
  BY <1>0, <1>1, <1>2, RemovalQty DEF Removal
<1>3. ASSUME \E s \in Slots, by \in Nat : Decrease(s, by)
      PROVE  Goal
  BY <1>0, <1>1, <1>3, DecreaseQty DEF Decrease
<1>4. ASSUME \E id \in OrderIds, sd \in Sides, k \in Levels, qty \in Quantity \ {0} :
               Arrival(id, sd, k, qty)
      PROVE  Goal
  <2>1. PICK id \in OrderIds, sd \in Sides, k \in Levels, qty \in Quantity \ {0} :
          free # <<>> /\ InsertResting(id, sd, k, qty)
    BY <1>4 DEF Arrival
  <2>2. \E s \in Slots : QtyStep(sd, k, s, qty)
    BY <1>0, <2>1, ArrivalQty
  <2> QED BY <1>1, <2>2
<1> QED BY <1>2, <1>3, <1>4, BookSteps DEF BookStep, Goal

-----------------------------------------------------------------------------
(* The incremental totals.                                                 *)

\* Every step of the engine keeps the totals of the levels those of their queues.
LEMMA NextKeepsTotals ==
  ASSUME IInv, TotalsShadowQueues, [Next]_vars
  PROVE  TotalsShadowQueues'
<1>1. CASE UNCHANGED bookVars
  BY <1>1 DEF bookVars, TotalsShadowQueues, QueueQty
<1>2. CASE \E sd \in Sides, k \in Levels, s \in Slots, d \in Int : QtyStep(sd, k, s, d)
  <2>1. PICK sd \in Sides, k \in Levels, d \in Int : \E s \in Slots : QtyStep(sd, k, s, d)
    BY <1>2
  <2>2. SUFFICES ASSUME NEW side \in Sides, NEW l \in Levels
                 PROVE  totalQty'[side][l] = QueueQty(side, l)' % QuantityMod
    BY DEF TotalsShadowQueues
  <2>3. /\ totalQty' = [totalQty EXCEPT ![sd][k] = (totalQty[sd][k] + d) % QuantityMod]
        /\ QueueQty(side, l)' = QueueQty(side, l) + (IF side = sd /\ l = k THEN d ELSE 0)
    BY <2>1 DEF QtyStep
  <2>4. /\ totalQty \in [Sides -> [Levels -> Quantity]]
        /\ totalQty[side][l] = QueueQty(side, l) % QuantityMod
    BY DEF IInv, LevelsInv, LevelsTypeOK, TotalsShadowQueues
  <2>5. PICK Q \in Int : Q = QueueQty(side, l)
    BY QtyListProperties, TotalIsInt
  <2>6. CASE side = sd /\ l = k
    <3>1. totalQty'[side][l] = ((Q % QuantityMod) + d) % QuantityMod
      BY <2>3, <2>4, <2>5, <2>6
    <3>2. QuantityMod \in Nat \ {0}
      BY ConfigAssumption
    <3>3. ((Q % QuantityMod) + d) % QuantityMod = (Q + d) % QuantityMod
      BY <3>2, ModOfMod
    <3>4. QueueQty(side, l)' = Q + d
      BY <2>3, <2>5, <2>6
    <3> QED BY <3>1, <3>3, <3>4
  <2>7. CASE ~(side = sd /\ l = k)
    <3>1. totalQty'[side][l] = totalQty[side][l]
      BY <2>3, <2>4, <2>7
    <3>2. QueueQty(side, l)' = QueueQty(side, l)
      <4>1. QueueQty(side, l)' = Q + 0
        BY <2>3, <2>5, <2>7
      <4> QED BY <2>5, <4>1
    <3> QED BY <2>4, <3>1, <3>2
  <2> QED BY <2>6, <2>7
<1> QED BY <1>1, <1>2, QtySteps

\* Empty lists add up to nothing.
LEMMA InitQty ==
  ASSUME Init, NEW side \in Sides, NEW l \in Levels
  PROVE  QueueQty(side, l) = 0 /\ totalQty[side][l] = 0
<1>1. IInv
  BY InitEstablishes
<1>2. Len(fifo[side][l]) = 0 /\ totalQty[side][l] = 0
  BY DEF Init
<1>3. QueueQty(side, l) = TotalOf(QtyList(side, l)) /\ QtyList(side, l) \in Seq(Int)
      /\ Len(QtyList(side, l)) = 0
  BY <1>1, <1>2, QtyListProperties
<1>4. \A i \in 1 .. Len(QtyList(side, l)) : QtyList(side, l)[i] = 0
  BY <1>3
<1> QED BY <1>2, <1>3, <1>4, TotalOfZeros

\* However many fills, insertions, removals and in-place changes a level has
\* seen, its incremental total is the 32-bit sum of the orders it links.
THEOREM TotalsCorrect == Spec => []TotalsShadowQueues
<1>1. Init => TotalsShadowQueues
  <2> SUFFICES ASSUME Init, NEW side \in Sides, NEW l \in Levels
               PROVE  totalQty[side][l] = QueueQty(side, l) % QuantityMod
    BY DEF TotalsShadowQueues
  <2>1. \A n \in Nat : n = 0 => n % QuantityMod = 0
    <3>1. QuantityMod \in Nat \ {0}
      BY ConfigAssumption
    <3>2. \A n \in 0 .. QuantityMod - 1 : n % QuantityMod = n
      BY <3>1, SmallMod
    <3> QED BY <3>1, <3>2
  <2> QED BY <2>1, InitQty
<1>2. IInv /\ TotalsShadowQueues /\ [Next]_vars => TotalsShadowQueues'
  BY NextKeepsTotals
<1> QED BY <1>1, <1>2, Invariance, PTL DEF Spec

-----------------------------------------------------------------------------
(* Counting by slots and counting by levels.                               *)

\* The quantities of a side, level by level, as far as they lie in R.
LevelList(side, R) ==
  [i \in 1 .. NumLevels |-> IF i - 1 \in R THEN QueueQty(side, i - 1) ELSE 0]

LevelsQty(side, R) == TotalOf(LevelList(side, R))

\* What rests in the slots is what the levels link.
CountedTwice ==
  \A side \in Sides, R \in SUBSET Levels : SlotsQty(side, R) = LevelsQty(side, R)

QueueQtysNatural == \A side \in Sides, l \in Levels : QueueQty(side, l) \in Nat

\* The quantities of a queue add up to a natural number, before a step ...
LEMMA NaturalQuantities == IInv => QueueQtysNatural
BY QtyListProperties, TotalOfNaturals DEF QueueQtysNatural

\* ... and after it.
LEMMA NaturalAfterwards == IInv' => QueueQtysNatural'
BY NaturalQuantities, PTL

\* The quantities level by level, 0 outside R.
LEMMA LevelListProperties ==
  ASSUME IInv, NEW side \in Sides, NEW R \in SUBSET Levels
  PROVE  /\ LevelList(side, R) \in Seq(Int) /\ Len(LevelList(side, R)) = NumLevels
         /\ \A i \in 1 .. NumLevels :
              /\ LevelList(side, R)[i] = IF i - 1 \in R THEN QueueQty(side, i - 1) ELSE 0
              /\ LevelList(side, R)[i] \in Nat
<1> DEFINE w == LevelList(side, R)
<1>1. NumLevels \in Nat
  BY ConfigAssumption
<1>2. w = [i \in 1 .. NumLevels |-> w[i]]
      /\ \A i \in 1 .. NumLevels : w[i] = IF i - 1 \in R THEN QueueQty(side, i - 1) ELSE 0
  BY DEF LevelList
<1>3. \A l \in Levels : QueueQty(side, l) \in Nat
  BY NaturalQuantities DEF QueueQtysNatural
<1> HIDE DEF w
<1>4. \A i \in 1 .. NumLevels : w[i] \in Nat
  BY <1>2, <1>3
<1>5. \A i \in 1 .. NumLevels : w[i] \in Int
  BY <1>4
<1>6. w \in Seq(Int) /\ Len(w) = NumLevels
  BY <1>1, <1>2, <1>5, IsASeq
<1> QED BY <1>2, <1>4, <1>6 DEF w

\* The sum over the levels R moves by what is added or taken at one of them.
LEMMA LevelsQtyStep ==
  ASSUME IInv, IInv', NEW sd \in Sides, NEW k \in Levels, NEW s \in Slots, NEW d \in Int,
         QtyStep(sd, k, s, d), NEW side \in Sides, NEW R \in SUBSET Levels
  PROVE  LevelsQty(side, R)' = LevelsQty(side, R) + (IF side = sd /\ k \in R THEN d ELSE 0)
<1> DEFINE w == LevelList(side, R)
           v == LevelList(side, R)'
<1>1. /\ w \in Seq(Int) /\ Len(w) = NumLevels
      /\ \A i \in 1 .. NumLevels :
           w[i] = IF i - 1 \in R THEN QueueQty(side, i - 1) ELSE 0
  BY LevelListProperties
<1>2. \A l \in Levels :
        QueueQty(side, l)' = QueueQty(side, l) + (IF side = sd /\ l = k THEN d ELSE 0)
  BY DEF QtyStep
<1>3. \A l \in Levels : QueueQty(side, l) \in Nat /\ QueueQty(side, l)' \in Nat
  BY NaturalQuantities, NaturalAfterwards DEF QueueQtysNatural
<1>4. v = [i \in 1 .. NumLevels |-> IF i - 1 \in R THEN QueueQty(side, i - 1)' ELSE 0]
  BY DEF LevelList
<1>5. \A i \in 1 .. NumLevels :
        /\ i - 1 \in Levels
        /\ v[i] = IF i - 1 \in R THEN QueueQty(side, i - 1)' ELSE 0
        /\ v[i] \in Int
  BY <1>3, <1>4, ConfigAssumption DEF Levels
<1>6. v \in Seq(Int) /\ Len(v) = NumLevels
  <2>1. NumLevels \in Nat /\ v = [i \in 1 .. NumLevels |-> v[i]]
    BY <1>4, ConfigAssumption
  <2> HIDE DEF v
  <2> QED BY <1>5, <2>1, IsASeq
<1>7. LevelsQty(side, R) = TotalOf(w) /\ LevelsQty(side, R)' = TotalOf(v)
  BY DEF LevelsQty
<1> HIDE DEF v, w
<1>8. CASE side = sd /\ k \in R
  <2>1. k + 1 \in 1 .. NumLevels /\ (k + 1) - 1 = k
        /\ \A i \in 1 .. NumLevels : i # k + 1 => i - 1 # k
    BY ConfigAssumption DEF Levels
  <2>2. v[k + 1] = w[k + 1] + d
    BY <1>1, <1>2, <1>5, <1>8, <2>1
  <2>3. ASSUME NEW i \in 1 .. NumLevels, i # k + 1 PROVE v[i] = w[i]
    <3>1. i - 1 \in Levels /\ i - 1 # k
      BY <1>5, <2>1, <2>3
    <3>2. QueueQty(side, i - 1)' = QueueQty(side, i - 1) + 0
      BY <1>2, <3>1
    <3>3. QueueQty(side, i - 1)' = QueueQty(side, i - 1)
      BY <1>3, <3>1, <3>2
    <3> QED BY <1>1, <1>5, <3>3
  <2>4. TotalOf(v) = TotalOf(w) + d
    <3>1. k + 1 \in 1 .. Len(w) /\ Len(v) = Len(w)
          /\ \A i \in 1 .. Len(w) : i # k + 1 => v[i] = w[i]
      BY <1>1, <1>6, <2>1, <2>3
    <3> QED BY <1>1, <1>6, <2>2, <3>1, TotalOfChange
  <2> QED BY <1>7, <1>8, <2>4
<1>9. CASE ~(side = sd /\ k \in R)
  <2>1. ASSUME NEW i \in 1 .. NumLevels PROVE v[i] = w[i]
    <3>1. CASE i - 1 \in R
      <4>1. QueueQty(side, i - 1)' = QueueQty(side, i - 1) + 0
        BY <1>2, <1>5, <1>9, <3>1
      <4>2. QueueQty(side, i - 1)' = QueueQty(side, i - 1)
        BY <1>3, <1>5, <4>1
      <4> QED BY <1>1, <1>5, <4>2
    <3>2. CASE i - 1 \notin R
      BY <1>1, <1>5, <3>2
    <3> QED BY <3>1, <3>2
  <2>2. v = w
    BY <1>1, <1>6, <2>1, SeqEqual
  <2>3. TotalOf(w) \in Int
    BY <1>1, TotalIsInt
  <2>4. TotalOf(v) = TotalOf(w) + 0
    BY <2>2, <2>3
  <2> QED BY <1>7, <1>9, <2>4
<1> QED BY <1>8, <1>9

\* Every step keeps the sum by slots equal to the sum by levels.
LEMMA NextKeepsCounts ==
  ASSUME IInv, CountedTwice, [Next]_vars
  PROVE  CountedTwice'
<1>0. IInv'
  BY NextKeeps
<1>1. CASE UNCHANGED bookVars
  <2>1. SUFFICES ASSUME NEW side \in Sides, NEW R \in SUBSET Levels
                 PROVE  SlotsQty(side, R)' = LevelsQty(side, R)'
    BY DEF CountedTwice
  <2>2. order' = order /\ fifo' = fifo
    BY <1>1 DEF bookVars
  <2>3. SlotsQty(side, R)' = SlotsQty(side, R)
    BY <2>2 DEF SlotsQty
  <2>4. LevelList(side, R)' = LevelList(side, R)
    BY <2>2 DEF LevelList, QueueQty
  <2>5. LevelsQty(side, R)' = LevelsQty(side, R)
    BY <2>4 DEF LevelsQty
  <2> QED BY <2>3, <2>5 DEF CountedTwice
<1>2. CASE \E sd \in Sides, k \in Levels, s \in Slots, d \in Int : QtyStep(sd, k, s, d)
  <2>1. PICK sd \in Sides, k \in Levels, s \in Slots, d \in Int : QtyStep(sd, k, s, d)
    BY <1>2
  <2>2. SUFFICES ASSUME NEW side \in Sides, NEW R \in SUBSET Levels
                 PROVE  SlotsQty(side, R)' = LevelsQty(side, R)'
    BY DEF CountedTwice
  <2>3. LevelsQty(side, R)' = LevelsQty(side, R) + (IF side = sd /\ k \in R THEN d ELSE 0)
    BY <1>0, <2>1, LevelsQtyStep
  <2>4. SlotsQty(side, R)' = SlotsQty(side, R) + (IF side = sd /\ k \in R THEN d ELSE 0)
    BY <2>1 DEF QtyStep
  <2>5. SlotsQty(side, R) = LevelsQty(side, R)
    BY DEF CountedTwice
  <2> QED BY <2>3, <2>4, <2>5
<1> QED BY <1>1, <1>2, QtySteps

\* Both are 0 in a new book.
LEMMA InitCounts ==
  Init => CountedTwice
<1> SUFFICES ASSUME Init, NEW side \in Sides, NEW R \in SUBSET Levels
             PROVE  SlotsQty(side, R) = LevelsQty(side, R)
  BY DEF CountedTwice
<1>1. IInv
  BY InitEstablishes
<1>2. SlotsQty(side, R) = 0
  <2>1. /\ SlotList(side, R) \in Seq(Int) /\ Len(SlotList(side, R)) = MaxOrders
        /\ \A s \in Slots : SlotList(side, R)[s] = SlotQty(order[s], side, R)
        /\ SlotsQty(side, R) = TotalOf(SlotList(side, R))
    BY <1>1, SlotListProperties DEF IInv, SlotsInv
  <2>2. \A s \in Slots : order[s] \notin Orders
    BY OrderFields DEF Init
  <2>3. \A s \in 1 .. Len(SlotList(side, R)) : SlotList(side, R)[s] = 0
    BY <2>1, <2>2 DEF Slots, SlotQty
  <2> QED BY <2>1, <2>3, TotalOfZeros
<1>3. LevelsQty(side, R) = 0
  <2>1. /\ LevelList(side, R) \in Seq(Int) /\ Len(LevelList(side, R)) = NumLevels
        /\ \A i \in 1 .. NumLevels :
             LevelList(side, R)[i] = IF i - 1 \in R THEN QueueQty(side, i - 1) ELSE 0
    BY <1>1, LevelListProperties
  <2>2. \A l \in Levels : QueueQty(side, l) = 0
    BY InitQty
  <2>3. \A i \in 1 .. Len(LevelList(side, R)) : LevelList(side, R)[i] = 0
    BY <2>1, <2>2
  <2> QED BY <2>1, <2>3, TotalOfZeros DEF LevelsQty
<1> QED BY <1>2, <1>3

-----------------------------------------------------------------------------
(* The fill-or-kill pre-walk.                                              *)

\* The levels within a limit, which kInvalidPrice does not set.
Within(side, limit) ==
  {l \in Levels : limit = kInvalidPrice \/ Reaches(side, PriceToIdx(limit), l)}

\* What the pre-walk adds up when it visits the levels W.
WalkList(side, W) ==
  [i \in 1 .. NumLevels |-> IF i - 1 \in W THEN totalQty[side][i - 1] ELSE 0]

\* A quantity that wraps only gets smaller.
LEMMA SmallerMod ==
  ASSUME NEW n \in Nat
  PROVE  n % QuantityMod <= n /\ n % QuantityMod \in Nat
<1>1. QuantityMod \in Nat \ {0}
  BY ConfigAssumption
<1>2. n % QuantityMod \in 0 .. QuantityMod - 1
  BY <1>1, DivMod
<1>3. CASE n < QuantityMod
  <2>1. n % QuantityMod = n
    BY <1>1, <1>3, SmallMod
  <2> QED BY <2>1
<1>4. CASE n >= QuantityMod
  <2>1. PICK r \in 0 .. QuantityMod - 1 : r = n % QuantityMod
    BY <1>2
  <2>2. r <= n /\ r \in Nat
    BY <1>1, <1>4
  <2> QED BY <2>1, <2>2
<1> QED BY <1>1, <1>3, <1>4

\* The totals the pre-walk adds up, 0 at levels it does not visit.
LEMMA WalkListProperties ==
  ASSUME IInv, NEW side \in Sides, NEW W \in SUBSET Levels
  PROVE  /\ WalkList(side, W) \in Seq(Int) /\ Len(WalkList(side, W)) = NumLevels
         /\ \A i \in 1 .. NumLevels :
              /\ WalkList(side, W)[i] = IF i - 1 \in W THEN totalQty[side][i - 1] ELSE 0
              /\ WalkList(side, W)[i] \in Nat
         /\ TotalOf(WalkList(side, W)) \in Nat
<1> DEFINE w == WalkList(side, W)
<1>1. NumLevels \in Nat
  BY ConfigAssumption
<1>2. w = [i \in 1 .. NumLevels |-> w[i]]
      /\ \A i \in 1 .. NumLevels : w[i] = IF i - 1 \in W THEN totalQty[side][i - 1] ELSE 0
  BY DEF WalkList
<1>3. \A l \in Levels : totalQty[side][l] \in Nat
  BY ConfigAssumption DEF IInv, LevelsInv, LevelsTypeOK, Quantity
<1> HIDE DEF w
<1>4. \A i \in 1 .. NumLevels : w[i] \in Nat
  BY <1>2, <1>3
<1>5. \A i \in 1 .. NumLevels : w[i] \in Int
  BY <1>4
<1>6. w \in Seq(Int) /\ Len(w) = NumLevels
  BY <1>1, <1>2, <1>5, IsASeq
<1>7. TotalOf(w) \in Nat
  BY <1>4, <1>6, TotalOfNaturals
<1> QED BY <1>2, <1>4, <1>6, <1>7 DEF w

\* What is reached on the way out is reached earlier on the way out.
LEMMA OppositeSide ==
  ASSUME NEW side \in Sides
  PROVE  /\ Opposite(side) \in Sides
         /\ \A i, j \in Int, limit \in Int :
              /\ Ahead(Opposite(side), i, j) /\ Reaches(side, limit, j)
                   => Reaches(side, limit, i)
              /\ Ahead(Opposite(side), i, j) \/ i = j \/ Ahead(Opposite(side), j, i)
              /\ ~(Ahead(Opposite(side), i, j) /\ Ahead(Opposite(side), j, i))
BY DEF Opposite, Sides, Ahead, Reaches

\* "Yes" means that the levels within the limit link that much.
LEMMA PreWalkSound ==
  ASSUME IInv, TotalsShadowQueues, NEW side \in Sides, NEW limit, NEW qty \in Nat,
         CanFullyFill(side, limit, qty)
  PROVE  LevelsQty(Opposite(side), Within(side, limit)) >= qty
<1> DEFINE opp == Opposite(side)
           R   == Within(side, limit)
<1>1. opp \in Sides /\ R \in SUBSET Levels
  BY OppositeSide DEF Within
<1>2. PICK l \in Walk(side, limit) :
        TotalOf(WalkList(opp, {k \in Walk(side, limit) : ~Ahead(opp, l, k)}))
          % QuantityMod >= qty
  BY DEF CanFullyFill, WalkList
<1> DEFINE W == {k \in Walk(side, limit) : ~Ahead(opp, l, k)}
<1>3. W \subseteq R /\ W \in SUBSET Levels
  <2>1. bits[opp] \in SUBSET Levels
    BY <1>1 DEF IInv, LevelsInv, LevelsTypeOK
  <2> QED BY <2>1 DEF Walk, Within
<1>4. TotalOf(WalkList(opp, W)) % QuantityMod >= qty
  BY <1>2
<1> HIDE DEF opp, R, W
<1> DEFINE w == WalkList(opp, W)
           v == LevelList(opp, R)
<1>5. /\ w \in Seq(Int) /\ Len(w) = NumLevels /\ TotalOf(w) \in Nat
      /\ \A i \in 1 .. NumLevels : w[i] = IF i - 1 \in W THEN totalQty[opp][i - 1] ELSE 0
  BY <1>1, <1>3, WalkListProperties
<1>6. /\ v \in Seq(Int) /\ Len(v) = NumLevels
      /\ \A i \in 1 .. NumLevels :
           /\ v[i] = IF i - 1 \in R THEN QueueQty(opp, i - 1) ELSE 0
           /\ v[i] \in Nat
  BY <1>1, LevelListProperties
<1>7. \A l2 \in Levels : totalQty[opp][l2] <= QueueQty(opp, l2)
  <2> TAKE l2 \in Levels
  <2>1. QueueQty(opp, l2) \in Nat
    BY <1>1, NaturalQuantities DEF QueueQtysNatural
  <2>2. totalQty[opp][l2] = QueueQty(opp, l2) % QuantityMod
    BY <1>1 DEF TotalsShadowQueues
  <2> QED BY <2>1, <2>2, SmallerMod
<1> HIDE DEF w, v
<1>8. \A i \in 1 .. NumLevels : w[i] <= v[i]
  <2> TAKE i \in 1 .. NumLevels
  <2>1. CASE i - 1 \in W
    <3>1. i - 1 \in Levels /\ i - 1 \in R
      BY <1>3, <2>1
    <3>2. w[i] = totalQty[opp][i - 1] /\ v[i] = QueueQty(opp, i - 1)
      BY <1>5, <1>6, <2>1, <3>1
    <3> QED BY <1>7, <3>1, <3>2
  <2>2. CASE i - 1 \notin W
    BY <1>5, <1>6, <2>2
  <2> QED BY <2>1, <2>2
<1>9. TotalOf(w) <= TotalOf(v)
  BY <1>5, <1>6, <1>8, TotalIsMonotone
<1>10. TotalOf(w) % QuantityMod <= TotalOf(w) /\ TotalOf(w) % QuantityMod \in Nat
  BY <1>5, SmallerMod
<1>11. TotalOf(v) \in Int
  BY <1>6, TotalIsInt
<1>12. TotalOf(v) >= qty
  <2>1. PICK a \in Nat : a = TotalOf(w) % QuantityMod
    BY <1>10
  <2>2. a >= qty
    BY <1>4, <2>1 DEF w
  <2>3. a <= TotalOf(w)
    BY <1>10, <2>1
  <2> QED BY <1>5, <1>9, <1>11, <2>2, <2>3
<1> QED BY <1>12 DEF v, LevelsQty, opp, R

\* "No" means that they link less, unless their sum leaves 32 bits.
LEMMA PreWalkComplete ==
  ASSUME IInv, TotalsShadowQueues, NEW side \in Sides,
         NEW limit \in Int, NEW qty \in Nat \ {0},
         LevelsQty(Opposite(side), Within(side, limit)) >= qty,
         LevelsQty(Opposite(side), Within(side, limit)) < QuantityMod
  PROVE  CanFullyFill(side, limit, qty)
<1> DEFINE opp == Opposite(side)
           R   == Within(side, limit)
           v   == LevelList(opp, R)
           W   == Walk(side, limit)
<1>1. opp \in Sides /\ R \in SUBSET Levels
  BY OppositeSide DEF Within
<1>2. bits[opp] = Occupied(opp) /\ Occupied(opp) \subseteq Levels
  BY <1>1 DEF IInv, LevelsInv, LevelsShadowQueues, Occupied
<1>3. \A l \in Levels : l \in Int /\ l \in 0 .. NumLevels - 1 /\ NumLevels - 1 \in Nat
  BY ConfigAssumption DEF Levels
<1>4. W = Occupied(opp) \cap R
  <2>1. W \subseteq Occupied(opp) \cap R
    BY <1>2 DEF Walk, Within
  <2>2. ASSUME NEW l \in Occupied(opp) \cap R PROVE l \in W
    <3>1. /\ best[opp] \in Occupied(opp) /\ ~Ahead(opp, l, best[opp])
      BY <1>1 DEF IInv, LevelsInv, BestIsExtremal
    <3>2. best[opp] \in Levels /\ l \in Levels /\ best[opp] # kNoBest
      BY <1>2, <1>3, <3>1 DEF kNoBest
    <3>3. l = best[opp] \/ Ahead(opp, best[opp], l)
      BY <1>3, <3>1, <3>2, OppositeSide
    <3>4. limit # kInvalidPrice => Reaches(side, PriceToIdx(limit), l)
      BY <2>2 DEF Within
    <3> HIDE DEF opp
    <3> QED BY <1>2, <2>2, <3>2, <3>3, <3>4 DEF Walk, opp
  <2> QED BY <2>1, <2>2
<1>5. /\ v \in Seq(Int) /\ Len(v) = NumLevels /\ TotalOf(v) = LevelsQty(opp, R)
      /\ \A i \in 1 .. NumLevels :
           /\ v[i] = IF i - 1 \in R THEN QueueQty(opp, i - 1) ELSE 0
           /\ v[i] \in Nat
  BY <1>1, LevelListProperties DEF LevelsQty
<1>6. TotalOf(v) >= qty /\ TotalOf(v) < QuantityMod
  BY <1>5
<1>7. TotalOf(v) \in Nat /\ \A i \in 1 .. NumLevels : v[i] <= TotalOf(v)
  <2> HIDE DEF v
  <2> QED BY <1>5, TotalOfNaturals
<1>8. \A n \in Nat : n < QuantityMod => n % QuantityMod = n
  <2>1. QuantityMod \in Nat \ {0}
    BY ConfigAssumption
  <2>2. \A n \in 0 .. QuantityMod - 1 : n % QuantityMod = n
    BY <2>1, SmallMod
  <2> QED BY <2>1, <2>2
<1>9. \A l \in Levels : l \notin Occupied(opp) => QueueQty(opp, l) = 0
  <2> TAKE l \in Levels
  <2> HAVE l \notin Occupied(opp)
  <2>1. Len(fifo[opp][l]) = 0
    BY DEF Occupied
  <2>2. QtyList(opp, l) \in Seq(Int) /\ QueueQty(opp, l) = TotalOf(QtyList(opp, l))
        /\ Len(QtyList(opp, l)) = 0
    BY <1>1, <2>1, QtyListProperties
  <2>3. \A i \in 1 .. Len(QtyList(opp, l)) : QtyList(opp, l)[i] = 0
    BY <2>2
  <2> QED BY <2>2, <2>3, TotalOfZeros
<1> HIDE DEF v, W, R, opp
<1> DEFINE w == WalkList(opp, W)
<1>10. /\ w \in Seq(Int) /\ Len(w) = NumLevels
       /\ \A i \in 1 .. NumLevels : w[i] = IF i - 1 \in W THEN totalQty[opp][i - 1] ELSE 0
  BY <1>1, <1>4, WalkListProperties
<1> HIDE DEF w
<1>11. ASSUME NEW i \in 1 .. NumLevels PROVE w[i] = v[i]
  <2>1. i - 1 \in Levels
    BY ConfigAssumption DEF Levels
  <2>2. CASE i - 1 \in W
    <3>1. i - 1 \in R /\ w[i] = totalQty[opp][i - 1] /\ v[i] = QueueQty(opp, i - 1)
      BY <1>4, <1>5, <1>10, <2>2
    <3>2. totalQty[opp][i - 1] = QueueQty(opp, i - 1) % QuantityMod
      BY <1>1, <2>1 DEF TotalsShadowQueues
    <3>3. PICK n \in Nat : n = QueueQty(opp, i - 1)
      BY <1>5, <3>1
    <3>4. n < QuantityMod
      <4>1. n <= TotalOf(v)
        BY <1>7, <3>1, <3>3
      <4> QED BY <1>6, <1>7, <4>1, ConfigAssumption
    <3>5. n % QuantityMod = n
      BY <1>8, <3>4
    <3> QED BY <3>1, <3>2, <3>3, <3>5
  <2>3. CASE i - 1 \notin W
    <3>1. w[i] = 0
      BY <1>10, <2>3
    <3>2. v[i] = 0
      <4>1. CASE i - 1 \in R
        <5>1. i - 1 \notin Occupied(opp)
          BY <1>4, <2>3, <4>1
        <5> QED BY <1>5, <1>9, <2>1, <4>1, <5>1
      <4>2. CASE i - 1 \notin R
        BY <1>5, <4>2
      <4> QED BY <4>1, <4>2
    <3> QED BY <3>1, <3>2
  <2> QED BY <2>2, <2>3
<1>12. w = v
  BY <1>5, <1>10, <1>11, SeqEqual
<1>13. W # {}
  <2>1. SUFFICES ASSUME W = {} PROVE FALSE
    OBVIOUS
  <2>2. \A i \in 1 .. Len(v) : v[i] = 0
    BY <1>5, <1>10, <1>12, <2>1
  <2>3. TotalOf(v) = 0
    BY <1>5, <2>2, TotalOfZeros
  <2> QED BY <1>6, <2>3
<1>14. PICK l \in W : \A k \in W : ~Ahead(opp, l, k)
  <2>1. W \subseteq 0 .. NumLevels - 1 /\ NumLevels - 1 \in Nat
    BY <1>2, <1>3, <1>4, <1>13
  <2>2. /\ Min(W) \in W /\ \A y \in W : Min(W) <= y
        /\ Max(W) \in W /\ \A y \in W : y <= Max(W)
    BY <1>13, <2>1, MinMaxProperties
  <2>3. \A y \in W : y \in Int
    BY <2>1
  <2>4. CASE opp = "Buy"
    BY <2>2, <2>3, <2>4 DEF Ahead
  <2>5. CASE opp # "Buy"
    BY <2>2, <2>3, <2>5 DEF Ahead
  <2> QED BY <2>4, <2>5
<1>15. {k \in W : ~Ahead(opp, l, k)} = W
  BY <1>14
<1>16. TotalOf(w) % QuantityMod >= qty
  <2>1. PICK n \in Nat : n = TotalOf(v)
    BY <1>7
  <2>2. n % QuantityMod = n
    BY <1>6, <1>8, <2>1
  <2> QED BY <1>6, <1>12, <2>1, <2>2
<1>17. TotalOf(WalkList(opp, {k \in W : ~Ahead(opp, l, k)})) % QuantityMod >= qty
  BY <1>15, <1>16 DEF w
<1> QED BY <1>14, <1>17 DEF CanFullyFill, WalkList, opp, W

\* The pre-walk never promises more than the orders in reach add up to, although
\* its own sum wraps, and promises as much as that while nothing wraps.
THEOREM PreWalkExact == Spec => []FokPreCheckExact
<1>1. Init => CountedTwice
  BY InitCounts
<1>2. IInv /\ CountedTwice /\ [Next]_vars => CountedTwice'
  BY NextKeepsCounts
<1>3. IInv /\ CountedTwice /\ TotalsShadowQueues => FokPreCheckExact
  <2> SUFFICES ASSUME IInv, CountedTwice, TotalsShadowQueues, NEW side \in Sides,
                      NEW limit \in {p \in Prices : InRange(p)} \cup {kInvalidPrice},
                      NEW qty \in Quantities \ {0}
               PROVE  LET liquidity == SlotsQty(Opposite(side), Within(side, limit))
                      IN  /\ CanFullyFill(side, limit, qty) => liquidity >= qty
                          /\ liquidity >= qty /\ liquidity < QuantityMod
                               => CanFullyFill(side, limit, qty)
    BY DEF FokPreCheckExact, Within
  <2>1. SlotsQty(Opposite(side), Within(side, limit)) =
          LevelsQty(Opposite(side), Within(side, limit))
    BY OppositeSide DEF CountedTwice, Within
  <2>2. limit \in Int /\ qty \in Nat \ {0}
    BY ConfigAssumption, CallerAssumption DEF Prices, kInvalidPrice, Quantity
  <2> QED BY <2>1, <2>2, PreWalkSound, PreWalkComplete
<1> QED BY <1>1, <1>2, <1>3, Invariance, TotalsCorrect, PTL DEF Spec

-----------------------------------------------------------------------------
(* Fill-or-kill orders.                                                    *)

\* The limit submit() hands to the pre-walk.
FokLimit(req) == IF IsMarket(req) THEN kInvalidPrice ELSE req.price

\* While a fill-or-kill order matches, what is left in its reach covers what is
\* left of it; and it always enters the matching loop.
FokInv ==
  /\ pc = "match" /\ taker.tif = "FOK" =>
       LevelsQty(Opposite(taker.side), Within(taker.side, FokLimit(taker))) >= remaining
  /\ pc = "finish" => taker.tif # "FOK"

\* The limit of an order that passed the input checks.
LEMMA FokLimitReaches ==
  ASSUME NEW req \in Submissions, ~BadInput(req)
  PROVE  /\ FokLimit(req) \in Int
         /\ FokLimit(req) = kInvalidPrice <=> IsMarket(req)
         /\ ~IsMarket(req) => FokLimit(req) = req.price
<1>1. ~IsMarket(req) => req.price \in Int /\ req.price >= BasePrice
  BY SubmissionFields DEF BadInput, InRange
<1> QED BY <1>1, ConfigAssumption DEF FokLimit, kInvalidPrice

\* A fill-or-kill order enters matching only with its quantity within reach ...
LEMMA EnterKeepsFok ==
  ASSUME IInv, TotalsShadowQueues, NEW req \in Submissions, Enter(req)
  PROVE  FokInv'
<1>1. CASE \E status, filled, left : Return(status, filled, left)
  BY <1>1 DEF Return, FokInv
<1>2. CASE /\ ~BadInput(req) /\ ~Killed(req)
           /\ pc' = (IF Aggressive(req) THEN "match" ELSE "finish")
           /\ taker' = req /\ remaining' = req.qty
  <2>1. CASE req.tif # "FOK"
    BY <1>2, <2>1 DEF FokInv
  <2>2. CASE req.tif = "FOK"
    <3> DEFINE opp == Opposite(req.side)
               W   == Walk(req.side, FokLimit(req))
               b   == best[opp]
    <3>1. /\ FokLimit(req) \in Int
          /\ FokLimit(req) = kInvalidPrice <=> IsMarket(req)
          /\ ~IsMarket(req) => FokLimit(req) = req.price
      BY <1>2, FokLimitReaches
    <3>2. req.side \in Sides /\ req.qty \in Nat /\ opp \in Sides
      BY SubmissionFields, OppositeSide
    <3>3. CanFullyFill(req.side, FokLimit(req), req.qty)
      BY <1>2, <2>2 DEF Killed, FokLimit
    <3>4. LevelsQty(opp, Within(req.side, FokLimit(req))) >= req.qty
      BY <3>2, <3>3, PreWalkSound
    <3>5. PICK l \in W : TRUE
      BY <3>3 DEF CanFullyFill
    <3>6. /\ b # kNoBest /\ l \in Levels /\ b \in Levels
          /\ l = b \/ Ahead(opp, b, l)
          /\ ~IsMarket(req) => Reaches(req.side, PriceToIdx(req.price), l)
      BY <3>1, <3>2, <3>5 DEF Walk, IInv, LevelsInv, LevelsTypeOK
    <3>7. ~IsMarket(req) => WouldCross(req.side, req.price)
      <4> SUFFICES ASSUME ~IsMarket(req) PROVE WouldCross(req.side, req.price)
        OBVIOUS
      <4>1. PriceToIdx(req.price) \in Int /\ b \in Int /\ l \in Int
        BY <3>6, SubmissionFields, ConfigAssumption DEF PriceToIdx, Levels
      <4>2. Reaches(req.side, PriceToIdx(req.price), b)
        BY <3>2, <3>6, <4>1, OppositeSide
      <4> QED BY <3>6, <4>2 DEF WouldCross
    <3>8. Aggressive(req)
      BY <2>2, <3>7 DEF Aggressive
    <3>9. LevelsQty(opp, Within(req.side, FokLimit(req)))' =
            LevelsQty(opp, Within(req.side, FokLimit(req)))
      <4>1. fifo' = fifo /\ order' = order
        BY DEF Enter, bookVars
      <4>2. PICK sd, R : sd = opp /\ R = Within(req.side, FokLimit(req))
        OBVIOUS
      <4>3. LevelList(sd, R)' = LevelList(sd, R)
        BY <4>1 DEF LevelList, QueueQty
      <4>4. LevelsQty(sd, R)' = LevelsQty(sd, R)
        BY <4>3 DEF LevelsQty
      <4> QED BY <4>2, <4>4
    <3> QED BY <1>2, <3>4, <3>8, <3>9 DEF FokInv
  <2> QED BY <2>1, <2>2
<1> QED BY <1>1, <1>2 DEF Enter

\* A fill takes the same from both.
LEMMA FillKeepsFok ==
  ASSUME IInv, FokInv, Fill
  PROVE  FokInv'
<1>0. IInv'
  BY FillKeeps
<1>1. /\ pc = "match" /\ pc' = pc /\ taker' = taker
  BY DEF Fill, CanFill
<1>2. SUFFICES ASSUME taker.tif = "FOK"
               PROVE  LevelsQty(Opposite(taker.side), Within(taker.side, FokLimit(taker)))'
                        >= remaining'
  BY <1>1 DEF FokInv
<1>3. /\ taker \in Submissions /\ ~BadInput(taker) /\ remaining \in Nat
  BY <1>1, RunningCall
<1>4. PICK sd \in Sides, R \in SUBSET Levels :
        sd = Opposite(taker.side) /\ R = Within(taker.side, FokLimit(taker))
  BY <1>1, RunningCall, OppositeSide DEF Within
<1>5. PICK k : k = best[sd]
  OBVIOUS
<1>6. k \in Levels /\ k \in R
  <2>1. /\ k \in Occupied(sd)
        /\ IsMarket(taker) \/ Reaches(taker.side, PriceToIdx(taker.price), k)
    BY <1>4, <1>5, FillAtBest
  <2>2. /\ FokLimit(taker) = kInvalidPrice <=> IsMarket(taker)
        /\ ~IsMarket(taker) => FokLimit(taker) = taker.price
    BY <1>3, FokLimitReaches
  <2> QED BY <1>4, <2>1, <2>2 DEF Within, Occupied
<1>7. PICK s \in Slots, qty \in Nat \ {0} :
        /\ Rests(s) /\ order[s].side = sd /\ order[s].level = k
        /\ remaining' = remaining - qty
        /\ \/ qty = order[s].quantity /\ RemoveOrder(s)
           \/ qty < order[s].quantity /\ DecreaseOrder(s, qty)
  BY <1>4, <1>5, FillStep
<1>8. QtyStep(sd, k, s, -qty)
  BY <1>0, <1>7, RemovalQty, DecreaseQty
<1>9. LevelsQty(sd, R)' = LevelsQty(sd, R) + -qty
  <2>1. -qty \in Int
    OBVIOUS
  <2>2. LevelsQty(sd, R)' = LevelsQty(sd, R) + (IF sd = sd /\ k \in R THEN -qty ELSE 0)
    BY <1>0, <1>6, <1>8, <2>1, LevelsQtyStep
  <2> QED BY <1>6, <2>2
<1>10. LevelsQty(sd, R) \in Int /\ LevelsQty(sd, R) >= remaining
  <2>1. LevelsQty(sd, R) \in Int
    BY LevelListProperties, TotalIsInt DEF LevelsQty
  <2> QED BY <1>1, <1>2, <1>4, <2>1 DEF FokInv
<1>11. LevelsQty(sd, R)' >= remaining'
  BY <1>3, <1>7, <1>9, <1>10
<1>12. Opposite(taker.side)' = sd /\ Within(taker.side, FokLimit(taker))' = R
  BY <1>1, <1>4 DEF Within, FokLimit, IsMarket
<1> QED BY <1>11, <1>12 DEF LevelsQty, LevelList

\* ... and every step leaves as much as it still needs.
LEMMA NextKeepsFok ==
  ASSUME IInv, TotalsShadowQueues, FokInv, [Next]_vars
  PROVE  FokInv'
<1>1. CASE Submit
  BY <1>1, EnterKeepsFok DEF Submit
<1>2. CASE Resubmit
  <2>1. taker \in Submissions /\ Enter(taker)
    BY <1>2 DEF Resubmit, IInv, CallInv
  <2> QED BY <2>1, EnterKeepsFok
<1>3. CASE Fill
  BY <1>3, FillKeepsFok
<1>4. CASE pc' \notin {"match", "finish"}
  BY <1>4 DEF FokInv
<1>5. CASE UNCHANGED vars
  <2>1. /\ pc' = pc /\ taker' = taker /\ remaining' = remaining
        /\ fifo' = fifo /\ order' = order
    BY <1>5 DEF vars, bookVars, callVars
  <2>2. PICK sd, R : sd = Opposite(taker.side) /\ R = Within(taker.side, FokLimit(taker))
    OBVIOUS
  <2>3. LevelList(sd, R)' = LevelList(sd, R)
    BY <2>1 DEF LevelList, QueueQty
  <2>4. LevelsQty(sd, R)' = LevelsQty(sd, R)
    BY <2>3 DEF LevelsQty
  <2>5. Opposite(taker.side)' = sd /\ Within(taker.side, FokLimit(taker))' = R
    BY <2>1, <2>2 DEF Within, FokLimit, IsMarket
  <2> QED BY <2>1, <2>2, <2>4, <2>5 DEF FokInv, LevelsQty, LevelList
<1>6. ASSUME Cancel \/ Reduce \/ Modify \/ SinkThrows \/ ReturnFilled \/ DropRemainder
             \/ Rest \/ Abort
      PROVE  pc' \notin {"match", "finish"}
  BY <1>6 DEF Cancel, CancelOne, Reduce, ReduceOne, Modify, SinkThrows, ReturnFilled,
              DropRemainder, Rest, Abort, Return
<1> QED BY <1>1, <1>2, <1>3, <1>4, <1>5, <1>6 DEF Next, Continue

\* The matching loop stops only where nothing is left in reach.
LEMMA FokFills ==
  ASSUME IInv, FokInv, MatchOver, taker.tif = "FOK"
  PROVE  remaining = 0
<1>1. pc = "match" /\ ~CanFill
  BY DEF MatchOver, FokInv
<1>2. /\ taker \in Submissions /\ ~BadInput(taker) /\ remaining \in Nat
      /\ taker.side \in Sides /\ taker.price \in Int
  BY <1>1, RunningCall
<1> DEFINE opp == Opposite(taker.side)
           R   == Within(taker.side, FokLimit(taker))
           b   == best[opp]
<1>3. opp \in Sides /\ R \in SUBSET Levels
  BY <1>2, OppositeSide DEF Within
<1>4. SUFFICES ASSUME remaining # 0 PROVE FALSE
  OBVIOUS
<1>5. \/ b = kNoBest
      \/ ~IsMarket(taker) /\ ~Reaches(taker.side, PriceToIdx(taker.price), b)
  BY <1>1, <1>2, <1>4 DEF CanFill
<1>6. \A l \in R : l \notin Occupied(opp)
  <2> SUFFICES ASSUME NEW l \in R, l \in Occupied(opp) PROVE FALSE
    OBVIOUS
  <2>1. b \in Occupied(opp) /\ ~Ahead(opp, l, b) /\ b \in Levels /\ l \in Levels
    BY <1>3 DEF IInv, LevelsInv, BestIsExtremal, Occupied
  <2>2. b \in Int /\ l \in Int /\ b # kNoBest /\ PriceToIdx(taker.price) \in Int
    BY <1>2, <2>1, ConfigAssumption DEF Levels, kNoBest, PriceToIdx
  <2>3. ~IsMarket(taker) => Reaches(taker.side, PriceToIdx(taker.price), l)
    BY <1>2, FokLimitReaches DEF Within
  <2>4. ~IsMarket(taker) => Reaches(taker.side, PriceToIdx(taker.price), b)
    BY <1>2, <2>1, <2>2, <2>3, OppositeSide
  <2> QED BY <1>5, <2>2, <2>4
<1> HIDE DEF opp, R, b
<1>7. LevelsQty(opp, R) = 0
  <2> DEFINE v == LevelList(opp, R)
  <2>1. /\ v \in Seq(Int) /\ Len(v) = NumLevels
        /\ \A i \in 1 .. NumLevels : v[i] = IF i - 1 \in R THEN QueueQty(opp, i - 1) ELSE 0
    BY <1>3, LevelListProperties
  <2>2. \A l \in R : QueueQty(opp, l) = 0
    <3> TAKE l \in R
    <3>1. l \in Levels
      BY <1>3
    <3>2. Len(fifo[opp][l]) = 0
      BY <1>6, <3>1 DEF Occupied
    <3>3. QtyList(opp, l) \in Seq(Int) /\ QueueQty(opp, l) = TotalOf(QtyList(opp, l))
          /\ Len(QtyList(opp, l)) = 0
      BY <1>3, <3>1, <3>2, QtyListProperties
    <3>4. \A i \in 1 .. Len(QtyList(opp, l)) : QtyList(opp, l)[i] = 0
      BY <3>3
    <3> QED BY <3>3, <3>4, TotalOfZeros
  <2>3. \A i \in 1 .. Len(v) : v[i] = 0
    BY <2>1, <2>2
  <2> QED BY <2>1, <2>3, TotalOfZeros DEF LevelsQty
<1>8. LevelsQty(opp, R) >= remaining
  BY <1>1 DEF FokInv, opp, R
<1> QED BY <1>2, <1>4, <1>7, <1>8

\* A fill-or-kill order whose matching ends has traded in full, wherever the level
\* totals and the sum of the pre-walk have wrapped.
THEOREM FokHolds == Spec => []FokAllOrNone
<1>1. Init => FokInv
  BY DEF Init, FokInv
<1>2. IInv /\ TotalsShadowQueues /\ FokInv /\ [Next]_vars => FokInv'
  BY NextKeepsFok
<1>3. IInv /\ FokInv => FokAllOrNone
  BY FokFills DEF FokAllOrNone
<1> QED BY <1>1, <1>2, <1>3, Invariance, TotalsCorrect, PTL DEF Spec

-----------------------------------------------------------------------------
(* The snapshot.                                                           *)

\* Where the walk of top_n goes from x.
After(side, x) == IF x = kNoBest THEN kNoBest ELSE NextBest(side, bits[side], x)

\* The walk starts at the best level and goes on to the next best, for good.
LEMMA SweepSteps ==
  ASSUME LevelsInv, NEW side \in Sides
  PROVE  /\ Sweep(side) \in [1 .. NumLevels + 1 -> bits[side] \cup {kNoBest}]
         /\ Sweep(side)[1] = best[side]
         /\ \A k \in 1 .. NumLevels : Sweep(side)[k + 1] = After(side, Sweep(side)[k])
<1> DEFINE N == NumLevels
           S == bits[side] \cup {kNoBest}
           step == [x \in S |-> After(side, x)]
           Solves(h) == h = [k \in 1 .. N + 1 |->
                               IF k = 1 THEN best[side]
                               ELSE IF h[k - 1] = kNoBest THEN kNoBest
                               ELSE NextBest(side, bits[side], h[k - 1])]
           at == CHOOSE h : Solves(h)
<1>1. N \in Nat /\ bits[side] \in SUBSET Levels /\ best[side] \in S
  <2>1. bits[side] = Occupied(side) /\ bits[side] \in SUBSET Levels
    BY DEF LevelsInv, LevelsTypeOK, LevelsShadowQueues
  <2>2. best[side] \in Occupied(side) \/ best[side] = kNoBest
    BY DEF LevelsInv, BestIsExtremal
  <2> QED BY <2>1, <2>2, ConfigAssumption
<1>2. \A x \in S : After(side, x) \in S
  <2> TAKE x \in S
  <2>1. CASE x = kNoBest
    BY <2>1 DEF After
  <2>2. CASE x # kNoBest
    <3>1. x \in Levels
      BY <1>1, <2>2
    <3> QED BY <1>1, <2>2, <3>1, NextBestProperties DEF After
  <2> QED BY <2>1, <2>2
<1>3. step \in [S -> S]
  BY <1>2
<1>4. PICK f \in [1 .. N + 1 -> S] :
        f[1] = best[side] /\ \A k \in 1 .. N : f[k + 1] = step[f[k]]
  <2>1. PICK start \in S : start = best[side]
    BY <1>1
  <2> HIDE DEF S, step, N
  <2>2. \E f \in [1 .. N + 1 -> S] :
          f[1] = start /\ \A k \in 1 .. N : f[k + 1] = step[f[k]]
    BY <1>1, <1>3, IterationExists
  <2> QED BY <2>1, <2>2
<1> HIDE DEF N
<1>5. \A k \in 1 .. N + 1 : k # 1 => k - 1 \in 1 .. N /\ (k - 1) + 1 = k
  BY <1>1
<1>6. \A k \in 1 .. N : k + 1 \in 1 .. N + 1 /\ k \in 1 .. N + 1 /\ k + 1 # 1 /\ (k + 1) - 1 = k
  BY <1>1
<1>7. \A k \in 1 .. N + 1 :
        f[k] = IF k = 1 THEN best[side]
               ELSE IF f[k - 1] = kNoBest THEN kNoBest
               ELSE NextBest(side, bits[side], f[k - 1])
  <2> TAKE k \in 1 .. N + 1
  <2>1. CASE k = 1
    BY <1>4, <2>1
  <2>2. CASE k # 1
    <3>1. f[k] = step[f[k - 1]] /\ f[k - 1] \in S
      BY <1>4, <1>5, <1>6, <2>2
    <3> QED BY <2>2, <3>1 DEF After
  <2> QED BY <2>1, <2>2
<1>8. Solves(f)
  BY <1>7
<1>9. Solves(at)
  <2> HIDE DEF Solves
  <2> QED BY <1>8
<1>10. Sweep(side) = at
  BY DEF Sweep, N
<1> HIDE DEF at
<1>11. /\ at = [k \in 1 .. N + 1 |-> at[k]]
       /\ \A k \in 1 .. N + 1 :
            at[k] = IF k = 1 THEN best[side]
                    ELSE IF at[k - 1] = kNoBest THEN kNoBest
                    ELSE NextBest(side, bits[side], at[k - 1])
  BY <1>9
<1>12. at[1] = best[side] /\ \A k \in 1 .. N : at[k + 1] = After(side, at[k])
  <2>1. 1 \in 1 .. N + 1
    BY <1>1
  <2>2. at[1] = best[side]
    BY <1>11, <2>1
  <2>3. \A k \in 1 .. N : at[k + 1] = After(side, at[k])
    BY <1>6, <1>11 DEF After
  <2> QED BY <2>2, <2>3
<1>13. \A k \in 1 .. N + 1 : at[k] = f[k]
  <2> DEFINE Bad == {k \in 1 .. N + 1 : at[k] # f[k]}
  <2>1. SUFFICES ASSUME Bad # {} PROVE FALSE
    OBVIOUS
  <2>2. PICK k \in Bad : \A j \in Bad : k <= j
    <3>1. Bad \subseteq Nat
      BY <1>1
    <3> HIDE DEF Bad
    <3> QED BY <2>1, <3>1, LeastNatExists
  <2>3. k \in 1 .. N + 1 /\ at[k] # f[k]
    OBVIOUS
  <2>4. k # 1
    BY <1>4, <1>12, <2>3
  <2>5. k - 1 \in 1 .. N + 1 /\ ~(k <= k - 1)
    BY <1>1, <1>5, <1>6, <2>3, <2>4
  <2>6. at[k - 1] = f[k - 1]
    BY <2>2, <2>5
  <2> QED BY <1>7, <1>11, <2>3, <2>4, <2>6
<1>14. at \in [1 .. N + 1 -> S]
  <2>1. \A k \in 1 .. N + 1 : at[k] \in S
    BY <1>4, <1>13
  <2> QED BY <1>11, <2>1
<1> QED BY <1>10, <1>12, <1>14 DEF N

\* Ahead orders the levels of a side.
LEMMA AheadOrders ==
  ASSUME NEW side \in Sides, NEW x \in Levels, NEW y \in Levels
  PROVE  /\ ~Ahead(side, x, x)
         /\ ~Ahead(side, x, y) /\ ~Ahead(side, y, x) => x = y
         /\ \A z \in Levels : Ahead(side, x, y) /\ Ahead(side, y, z) => Ahead(side, x, z)
<1>1. \A z \in Levels : z \in Int
  BY ConfigAssumption DEF Levels
<1> QED BY <1>1 DEF Ahead

\* It lists every occupied level once, best first, and then kNoBest.
LEMMA SweepLists ==
  ASSUME LevelsInv, NEW side \in Sides, NEW at, at = Sweep(side)
  PROVE  \E m \in 0 .. NumLevels :
           /\ \A k \in 1 .. NumLevels + 1 : at[k] # kNoBest <=> k <= m
           /\ \A k \in 1 .. m : at[k] \in Occupied(side)
           /\ \A j, k \in 1 .. m : j < k => Ahead(side, at[j], at[k])
           /\ \A l \in Occupied(side) : \E k \in 1 .. m : at[k] = l
<1>1. PICK B \in SUBSET Levels : B = Occupied(side) /\ B = bits[side]
  BY DEF LevelsInv, LevelsTypeOK, LevelsShadowQueues
<1>2. PICK N \in Nat \ {0} : N = NumLevels
  BY ConfigAssumption
<1>3. \A k \in 1 .. N + 1 : at[k] # kNoBest => at[k] \in B /\ at[k] \in Levels
  BY <1>1, <1>2, SweepSteps
<1>4. IF B = {} THEN at[1] = kNoBest
      ELSE at[1] \in B /\ \A l \in B : ~Ahead(side, l, at[1])
  <2>1. at[1] = best[side]
    BY SweepSteps
  <2> QED BY <1>1, <2>1 DEF LevelsInv, BestIsExtremal
<1>5. ASSUME NEW k \in 1 .. N, at[k + 1] # kNoBest
      PROVE  /\ at[k] # kNoBest /\ Ahead(side, at[k], at[k + 1])
             /\ \A l \in B : Ahead(side, at[k], l) => ~Ahead(side, l, at[k + 1])
  <2>1. at[k + 1] = After(side, at[k])
    BY <1>2, SweepSteps
  <2>2. at[k] # kNoBest /\ at[k + 1] = NextBest(side, B, at[k])
    BY <1>1, <1>5, <2>1 DEF After
  <2>3. k \in 1 .. N + 1
    BY <1>2
  <2>4. at[k] \in Levels
    BY <1>3, <2>2, <2>3
  <2> QED BY <1>5, <2>2, <2>4, NextBestProperties
<1>6. ASSUME NEW k \in 1 .. N, at[k] # kNoBest, at[k + 1] = kNoBest
      PROVE  \A l \in B : ~Ahead(side, at[k], l)
  <2>1. at[k + 1] = After(side, at[k])
    BY <1>2, SweepSteps
  <2>2. at[k + 1] = NextBest(side, B, at[k])
    BY <1>1, <1>6, <2>1 DEF After
  <2>3. k \in 1 .. N + 1
    BY <1>2
  <2>4. at[k] \in Levels /\ \A l \in B : l # kNoBest
    BY <1>3, <1>6, <2>3, ConfigAssumption DEF Levels, kNoBest
  <2> QED BY <1>6, <2>2, <2>4, NextBestProperties
<1> DEFINE Good(k) == at[k] # kNoBest =>
             /\ \A j \in 1 .. k - 1 : at[j] # kNoBest /\ Ahead(side, at[j], at[k])
             /\ \A l \in B : ~Ahead(side, at[k], l) => \E j \in 1 .. k : at[j] = l
           Bad == {k \in 1 .. N + 1 : ~Good(k)}
<1>7. Bad = {}
  <2>1. SUFFICES ASSUME Bad # {} PROVE FALSE
    OBVIOUS
  <2>2. PICK k \in Bad : \A j \in Bad : k <= j
    <3>1. Bad \subseteq Nat
      BY <1>2
    <3> HIDE DEF Bad
    <3> QED BY <2>1, <3>1, LeastNatExists
  <2>3. k \in 1 .. N + 1 /\ ~Good(k)
    OBVIOUS
  <2>4. at[k] # kNoBest /\ at[k] \in B /\ at[k] \in Levels
    BY <1>3, <2>3
  <2>5. k # 1
    <3>1. SUFFICES ASSUME k = 1 PROVE Good(1)
      BY <2>3
    <3>2. \A l \in B : ~Ahead(side, at[1], l) => at[1] = l
      BY <1>4, <2>4, <3>1, AheadOrders
    <3> QED BY <3>2
  <2>6. PICK i \in 1 .. N : k = i + 1
    <3>1. k - 1 \in 1 .. N /\ (k - 1) + 1 = k
      BY <1>2, <2>3, <2>5
    <3> QED BY <3>1
  <2>7. /\ at[i] # kNoBest /\ Ahead(side, at[i], at[k])
        /\ \A l \in B : Ahead(side, at[i], l) => ~Ahead(side, l, at[k])
    BY <1>5, <2>4, <2>6
  <2>8. i \in 1 .. N + 1 /\ ~(k <= i) /\ k - 1 = i /\ i \in Nat
    BY <1>2, <2>6
  <2>9. /\ \A j \in 1 .. i - 1 : at[j] # kNoBest /\ Ahead(side, at[j], at[i])
        /\ \A l \in B : ~Ahead(side, at[i], l) => \E j \in 1 .. i : at[j] = l
    <3>1. i \notin Bad
      BY <2>2, <2>8
    <3> QED BY <2>7, <2>8, <3>1
  <2>10. at[i] \in Levels
    BY <1>3, <2>7, <2>8
  <2>11. ASSUME NEW j \in 1 .. k - 1
         PROVE  at[j] # kNoBest /\ Ahead(side, at[j], at[k])
    <3>1. j = i \/ j \in 1 .. i - 1
      BY <2>8
    <3>2. CASE j = i
      BY <2>7, <3>2
    <3>3. CASE j \in 1 .. i - 1
      <4>1. at[j] # kNoBest /\ Ahead(side, at[j], at[i]) /\ j \in 1 .. N + 1
        BY <1>2, <2>8, <2>9, <3>3
      <4>2. at[j] \in Levels
        BY <1>3, <4>1
      <4> QED BY <2>4, <2>7, <2>10, <4>1, <4>2, AheadOrders
    <3> QED BY <3>1, <3>2, <3>3
  <2>12. ASSUME NEW l \in B, ~Ahead(side, at[k], l)
         PROVE  \E j \in 1 .. k : at[j] = l
    <3>1. CASE ~Ahead(side, at[i], l)
      <4>1. PICK j \in 1 .. i : at[j] = l
        BY <2>9, <3>1
      <4>2. j \in 1 .. k
        BY <2>6, <2>8
      <4> QED BY <4>1, <4>2
    <3>2. CASE Ahead(side, at[i], l)
      <4>1. at[k] = l
        BY <2>4, <2>7, <2>12, <3>2, AheadOrders
      <4>2. k \in 1 .. k
        BY <2>3
      <4> QED BY <4>1, <4>2
    <3> QED BY <3>1, <3>2
  <2> QED BY <2>3, <2>11, <2>12
<1>8. \A k \in 1 .. N + 1 : at[k] # kNoBest =>
        /\ \A j \in 1 .. k - 1 : at[j] # kNoBest /\ Ahead(side, at[j], at[k])
        /\ \A l \in B : ~Ahead(side, at[k], l) => \E j \in 1 .. k : at[j] = l
  BY <1>7
<1> HIDE DEF Good, Bad
<1>9. ASSUME NEW j \in 1 .. N + 1, NEW k \in 1 .. N + 1, j < k, at[k] # kNoBest
      PROVE  at[j] # kNoBest /\ Ahead(side, at[j], at[k]) /\ at[j] # at[k]
  <2>1. j \in 1 .. k - 1
    BY <1>2, <1>9
  <2>2. at[j] # kNoBest /\ Ahead(side, at[j], at[k])
    BY <1>8, <1>9, <2>1
  <2> QED BY <1>3, <1>9, <2>2, AheadOrders
<1>10. \E k \in 1 .. N + 1 : at[k] = kNoBest
  <2> SUFFICES ASSUME \A k \in 1 .. N + 1 : at[k] # kNoBest PROVE FALSE
    OBVIOUS
  <2> DEFINE f == [k \in 1 .. N + 1 |-> at[k]]
  <2>1. f \in [1 .. N + 1 -> Levels]
    BY <1>3
  <2>2. /\ IsFiniteSet(1 .. N + 1) /\ Cardinality(1 .. N + 1) = N + 1
        /\ IsFiniteSet(Levels) /\ Cardinality(Levels) = N
    <3>1. \A a, b \in Int : IsFiniteSet(a .. b)
            /\ Cardinality(a .. b) = IF a > b THEN 0 ELSE b - a + 1
      BY FS_Interval
    <3>2. 1 \in Int /\ N + 1 \in Int /\ 0 \in Int /\ N - 1 \in Int /\ ~(1 > N + 1) /\ ~(0 > N - 1)
          /\ ((N + 1) - 1) + 1 = N + 1 /\ ((N - 1) - 0) + 1 = N
      BY <1>2
    <3> QED BY <1>2, <3>1, <3>2 DEF Levels
  <2>3. N < N + 1
    BY <1>2
  <2> HIDE DEF f
  <2>4. \E x, y \in 1 .. N + 1 : x # y /\ f[x] = f[y]
    BY <2>1, <2>2, <2>3, FS_PigeonHole
  <2>5. PICK x \in 1 .. N + 1, y \in 1 .. N + 1 : x # y /\ at[x] = at[y]
    BY <2>4 DEF f
  <2>6. x < y \/ y < x
    BY <1>2, <2>5
  <2> QED BY <1>9, <2>5, <2>6
<1>11. PICK e \in 1 .. N + 1 : at[e] = kNoBest /\ \A k \in 1 .. N + 1 : at[k] = kNoBest => e <= k
  <2> DEFINE Ends == {k \in 1 .. N + 1 : at[k] = kNoBest}
  <2>1. Ends # {} /\ Ends \subseteq Nat
    BY <1>2, <1>10
  <2>2. \E x \in Ends : \A y \in Ends : x <= y
    <3> HIDE DEF Ends
    <3> QED BY <2>1, LeastNatExists
  <2> QED BY <2>2
<1>12. PICK m \in 0 .. N : e = m + 1
  <2>1. e - 1 \in 0 .. N /\ (e - 1) + 1 = e
    BY <1>2
  <2> QED BY <2>1
<1>13. \A k \in 1 .. N + 1 : at[k] # kNoBest <=> k <= m
  <2> TAKE k \in 1 .. N + 1
  <2>1. k <= m <=> k < e
    BY <1>2, <1>12
  <2>2. CASE k < e
    <3>1. ~(e <= k)
      BY <1>2, <2>2
    <3> QED BY <1>11, <2>1, <2>2, <3>1
  <2>3. CASE ~(k < e)
    <3>1. k = e \/ e < k
      BY <1>2, <2>3
    <3> QED BY <1>9, <1>11, <2>1, <2>3, <3>1
  <2> QED BY <2>2, <2>3
<1>14. \A k \in 1 .. m : k \in 1 .. N + 1 /\ k <= m
  BY <1>2
<1>15. \A l \in B : \E k \in 1 .. m : at[k] = l
  <2> TAKE l \in B
  <2>1. m # 0
    <3>1. at[1] # kNoBest
      <4>1. at[1] \in Levels
        BY <1>4
      <4> QED BY <4>1, ConfigAssumption DEF Levels, kNoBest
    <3>2. 1 \in 1 .. N + 1
      BY <1>2
    <3>3. 1 <= m
      BY <1>13, <3>1, <3>2
    <3> QED BY <3>3
  <2>2. m \in 1 .. N /\ m \in 1 .. N + 1 /\ m <= m
    BY <1>2, <2>1
  <2>3. at[m] # kNoBest /\ at[m + 1] = kNoBest
    BY <1>11, <1>12, <1>13, <2>2
  <2>4. ~Ahead(side, at[m], l)
    BY <1>6, <2>2, <2>3
  <2> QED BY <1>8, <2>2, <2>3, <2>4
<1>16. \A k \in 1 .. m : at[k] \in B
  BY <1>3, <1>13, <1>14
<1>17. \A j, k \in 1 .. m : j < k => Ahead(side, at[j], at[k])
  BY <1>9, <1>13, <1>14
<1> QED BY <1>1, <1>2, <1>13, <1>15, <1>16, <1>17


\* The quantities of one level.
LEMMA OneLevelQty ==
  ASSUME IInv, NEW side \in Sides, NEW l \in Levels
  PROVE  LevelsQty(side, {l}) = QueueQty(side, l)
<1>1. PICK p \in 1 .. NumLevels : p = l + 1 /\ \A i \in 1 .. NumLevels : i - 1 = l <=> i = p
  <2>1. l + 1 \in 1 .. NumLevels /\ \A i \in 1 .. NumLevels : i - 1 = l <=> i = l + 1
    BY ConfigAssumption DEF Levels
  <2> QED BY <2>1
<1>2. PICK w \in Seq(Int) :
        Len(w) = NumLevels /\ (\A i \in 1 .. NumLevels : w[i] = 0) /\ TotalOf(w) = 0
  <2>1. PICK w \in Seq(Int) : w = LevelList(side, {}) /\ Len(w) = NumLevels
    BY LevelListProperties
  <2>2. \A i \in 1 .. NumLevels : w[i] = 0
    BY <2>1, LevelListProperties
  <2>3. TotalOf(w) = 0
    BY <2>1, <2>2, TotalOfZeros
  <2> QED BY <2>1, <2>2, <2>3
<1>3. PICK v \in Seq(Int) : /\ v = LevelList(side, {l}) /\ Len(v) = NumLevels
                            /\ \A i \in 1 .. NumLevels :
                                 v[i] = IF i - 1 \in {l} THEN QueueQty(side, i - 1) ELSE 0
  BY LevelListProperties
<1>4. PICK d \in Int : d = QueueQty(side, l)
  BY NaturalQuantities DEF QueueQtysNatural
<1>5. \A i \in 1 .. NumLevels : v[i] = IF i = p THEN d ELSE 0
  BY <1>1, <1>3, <1>4
<1>6. v[p] = w[p] + d
  BY <1>2, <1>4, <1>5
<1>7. \A i \in 1 .. Len(w) : i # p => v[i] = w[i]
  BY <1>2, <1>5
<1>8. TotalOf(v) = TotalOf(w) + d
  <2>1. Len(v) = Len(w) /\ p \in 1 .. Len(w)
    BY <1>2, <1>3
  <2> QED BY <1>6, <1>7, <2>1, TotalOfChange
<1> QED BY <1>2, <1>3, <1>4, <1>8 DEF LevelsQty

\* The orders of a side at a price.
OrdersAt(side, p) ==
  {s \in Slots : order[s] \in Orders /\ order[s].side = side
                 /\ IdxToPrice(order[s].level) = p}

\* They are what the level of that price links.
LEMMA OrdersAtLevel ==
  ASSUME IInv, NoOrderLost, NEW side \in Sides, NEW l \in Levels
  PROVE  OrdersAt(side, IdxToPrice(l)) = Range(fifo[side][l])
<1>1. \A k \in Levels : IdxToPrice(k) = IdxToPrice(l) <=> k = l
  BY ConfigAssumption DEF Levels, IdxToPrice
<1>2. ASSUME NEW s \in Range(fifo[side][l])
      PROVE  s \in OrdersAt(side, IdxToPrice(l))
  <2>1. Rests(s) /\ order[s].side = side /\ order[s].level = l
    BY LinkedRests DEF IInv
  <2> QED BY <2>1 DEF Rests, OrdersAt
<1>3. ASSUME NEW s \in OrdersAt(side, IdxToPrice(l))
      PROVE  s \in Range(fifo[side][l])
  <2>1. Rests(s) /\ order[s].side = side /\ order[s].level = l
    BY <1>1, OrderFields DEF NoOrderLost, OrdersAt
  <2> QED BY <2>1 DEF Rests
<1> QED BY <1>2, <1>3

\* The prices of a side are those of its occupied levels.
LEMMA OccupiedPrices ==
  ASSUME IInv, NoOrderLost, NEW side \in Sides
  PROVE  {p \in Prices : OrdersAt(side, p) # {}} = {IdxToPrice(l) : l \in Occupied(side)}
<1>1. ASSUME NEW p \in Prices, NEW s \in OrdersAt(side, p)
      PROVE  \E l \in Occupied(side) : p = IdxToPrice(l)
  <2>1. Rests(s) /\ order[s].side = side /\ p = IdxToPrice(order[s].level)
    BY DEF NoOrderLost, OrdersAt
  <2> QED BY <2>1, RestsInOccupied DEF IInv
<1>2. ASSUME NEW l \in Occupied(side)
      PROVE  IdxToPrice(l) \in Prices /\ OrdersAt(side, IdxToPrice(l)) # {}
  <2>1. l \in Levels /\ fifo[side][l] # <<>> /\ fifo[side][l] \in Seq(Slots)
    BY DEF Occupied, IInv, LevelsInv, LevelsTypeOK
  <2>2. Range(fifo[side][l]) # {}
    <3>1. 1 \in DOMAIN fifo[side][l]
      BY <2>1, LenProperties, EmptySeq
    <3> QED BY <3>1 DEF Range
  <2>3. IdxToPrice(l) \in Prices
    BY <2>1, ConfigAssumption DEF Levels, IdxToPrice, Prices
  <2> QED BY <2>1, <2>2, <2>3, OrdersAtLevel
<1> QED BY <1>1, <1>2

\* What top_n says of a level is what its orders say.
LEMMA LevelShown ==
  ASSUME IInv, TotalsShadowQueues, CountedTwice, NoOrderLost,
         NEW side \in Sides, NEW l \in Levels
  PROVE  /\ LevelSnapshot(side, l).price = IdxToPrice(l)
         /\ LevelSnapshot(side, l).qty =
              SlotsQty(side, {PriceToIdx(IdxToPrice(l))}) % QuantityMod
         /\ LevelSnapshot(side, l).count = Cardinality(OrdersAt(side, IdxToPrice(l)))
<1>1. PriceToIdx(IdxToPrice(l)) = l
  BY ConfigAssumption DEF Levels, IdxToPrice, PriceToIdx
<1>2. SlotsQty(side, {l}) = QueueQty(side, l)
  <2>1. {l} \in SUBSET Levels
    OBVIOUS
  <2> QED BY <2>1, OneLevelQty DEF CountedTwice
<1>3. totalQty[side][l] = QueueQty(side, l) % QuantityMod
  BY DEF TotalsShadowQueues
<1>4. fifo[side][l] \in Seq(Slots) /\ IsInjective(fifo[side][l])
  BY DEF IInv, LevelsInv, LevelsTypeOK, SlotsInv, BookIntegrity, SlotsUsedOnce
<1>5. Cardinality(OrdersAt(side, IdxToPrice(l))) = Len(fifo[side][l])
  BY <1>4, QueueCardinality, OrdersAtLevel
<1>6. count[side][l] = Len(fifo[side][l])
  BY DEF IInv, LevelsInv, LevelsShadowQueues
<1> QED BY <1>1, <1>2, <1>3, <1>5, <1>6 DEF LevelSnapshot

\* So a snapshot is the beginning of the list of prices.
LEMMA SnapshotFollows ==
  ASSUME IInv, TotalsShadowQueues, CountedTwice, NoOrderLost
  PROVE  SnapshotExact
<1> SUFFICES ASSUME NEW side \in Sides, NEW n \in 0 .. NumLevels + 1
             PROVE  LET top    == TopN(side, n)
                        prices == {p \in Prices : OrdersAt(side, p) # {}}
                        listed == {top[k].price : k \in DOMAIN top}
                    IN  /\ listed \subseteq prices
                        /\ Len(top) = Min({n, Cardinality(prices)})
                        /\ \A j, k \in DOMAIN top : j < k => Ahead(side, top[j].price, top[k].price)
                        /\ \A p \in prices \ listed, k \in DOMAIN top : Ahead(side, top[k].price, p)
                        /\ \A k \in DOMAIN top :
                             /\ top[k].qty = SlotsQty(side, {PriceToIdx(top[k].price)}) % QuantityMod
                             /\ top[k].count = Cardinality(OrdersAt(side, top[k].price))
  BY DEF SnapshotExact, OrdersAt
<1>1. PICK at : at = Sweep(side)
  OBVIOUS
<1>2. PICK N \in Nat : N = NumLevels
  BY ConfigAssumption
<1>3. PICK m \in 0 .. N :
        /\ \A k \in 1 .. N + 1 : at[k] # kNoBest <=> k <= m
        /\ \A k \in 1 .. m : at[k] \in Occupied(side)
        /\ \A j, k \in 1 .. m : j < k => Ahead(side, at[j], at[k])
        /\ \A l \in Occupied(side) : \E k \in 1 .. m : at[k] = l
  BY <1>1, <1>2, SweepLists DEF IInv
<1>4. PICK c \in Nat : c = IF n <= m THEN n ELSE m
  BY <1>2
<1>5. TopN(side, n) = [k \in 1 .. c |-> LevelSnapshot(side, at[k])]
  <2>1. DOMAIN at = 1 .. N + 1
    BY <1>1, <1>2, SweepSteps DEF IInv
  <2>2. {k \in DOMAIN at : k <= n /\ at[k] # kNoBest} = 1 .. c
    <3>1. \A k \in 1 .. N + 1 : k <= n /\ k <= m <=> k <= c
      BY <1>2, <1>4
    <3>2. \A k \in 1 .. c : k \in 1 .. N + 1 /\ k <= c
      BY <1>2, <1>4
    <3>3. \A k \in 1 .. N + 1 : k <= c => k \in 1 .. c
      BY <1>2
    <3> QED BY <1>3, <2>1, <3>1, <3>2, <3>3
  <2>3. Cardinality({k \in DOMAIN at : k <= n /\ at[k] # kNoBest}) = c
    BY <2>2, IntervalSize
  <2> QED BY <1>1, <2>3 DEF TopN
<1>6. PICK top : top = TopN(side, n)
  OBVIOUS
<1>7. /\ DOMAIN top = 1 .. c /\ Len(top) = c
      /\ \A k \in 1 .. c : top[k] = LevelSnapshot(side, at[k])
  BY <1>4, <1>5, <1>6
<1>8. \A k \in 1 .. m : at[k] \in Levels
  BY <1>3 DEF Occupied
<1>9. \A k \in 1 .. c : k \in 1 .. m
  BY <1>4, <1>2
<1>10. \A k \in 1 .. c :
         /\ top[k].price = IdxToPrice(at[k])
         /\ top[k].qty = SlotsQty(side, {PriceToIdx(top[k].price)}) % QuantityMod
         /\ top[k].count = Cardinality(OrdersAt(side, top[k].price))
  <2> TAKE k \in 1 .. c
  <2>1. PICK l \in Levels : l = at[k]
    BY <1>8, <1>9
  <2>2. top[k] = LevelSnapshot(side, l)
    BY <1>7, <2>1
  <2>3. /\ LevelSnapshot(side, l).price = IdxToPrice(l)
        /\ LevelSnapshot(side, l).qty =
             SlotsQty(side, {PriceToIdx(IdxToPrice(l))}) % QuantityMod
        /\ LevelSnapshot(side, l).count = Cardinality(OrdersAt(side, IdxToPrice(l)))
    BY LevelShown
  <2> QED BY <2>1, <2>2, <2>3
<1>11. PICK prices : prices = {p \in Prices : OrdersAt(side, p) # {}}
  OBVIOUS
<1>12. prices = {IdxToPrice(l) : l \in Occupied(side)}
  BY <1>11, OccupiedPrices
<1>13. \A x, y \in Levels : /\ Ahead(side, IdxToPrice(x), IdxToPrice(y)) <=> Ahead(side, x, y)
                            /\ IdxToPrice(x) = IdxToPrice(y) => x = y
  BY ConfigAssumption DEF Levels, IdxToPrice, Ahead
<1>14. \A k \in 1 .. m : IdxToPrice(at[k]) \in prices
  BY <1>3, <1>12
<1>15. \A p \in prices : \E k \in 1 .. m : p = IdxToPrice(at[k])
  BY <1>3, <1>12
<1>16. Cardinality(prices) = m
  <2> DEFINE g == [k \in 1 .. m |-> IdxToPrice(at[k])]
  <2>1. g \in [1 .. m -> prices]
    BY <1>14
  <2>2. \A j, k \in 1 .. m : g[j] = g[k] => j = k
    <3> TAKE j \in 1 .. m, k \in 1 .. m
    <3> HAVE g[j] = g[k]
    <3>1. at[j] = at[k]
      BY <1>8, <1>13
    <3>2. at[j] \in Levels /\ ~(j < k) /\ ~(k < j)
      BY <1>3, <1>8, <3>1, AheadOrders
    <3> QED BY <3>2
  <2>3. \A p \in prices : \E k \in 1 .. m : g[k] = p
    BY <1>15
  <2> HIDE DEF g
  <2>4. g \in Bijection(1 .. m, prices)
    <3>1. IsInjective(g)
      BY <2>1, <2>2 DEF IsInjective
    <3> QED BY <2>1, <2>3, <3>1 DEF Bijection, Injection, Surjection
  <2>5. ExistsBijection(1 .. m, prices)
    BY <2>4 DEF ExistsBijection
  <2>6. m \in Nat
    BY <1>2
  <2> QED BY <2>5, <2>6, FS_Bijection, IntervalSize
<1>17. Len(top) = Min({n, Cardinality(prices)})
  <2>1. n \in 0 .. N + 1 /\ m \in 0 .. N + 1 /\ N + 1 \in Nat
    BY <1>2
  <2>2. PICK T : T = {n, m}
    OBVIOUS
  <2>3. T \subseteq 0 .. N + 1 /\ T # {}
    BY <2>1, <2>2
  <2>4. Min(T) \in T /\ \A y \in T : Min(T) <= y
    BY <2>1, <2>3, MinMaxProperties
  <2>5. Min(T) = c
    BY <1>4, <2>1, <2>2, <2>4
  <2> QED BY <1>7, <1>16, <2>2, <2>5
<1>18. {top[k].price : k \in DOMAIN top} \subseteq prices
  BY <1>7, <1>9, <1>10, <1>14
<1>19. \A j, k \in DOMAIN top : j < k => Ahead(side, top[j].price, top[k].price)
  <2> TAKE j \in DOMAIN top, k \in DOMAIN top
  <2> HAVE j < k
  <2>1. j \in 1 .. c /\ k \in 1 .. c /\ j \in 1 .. m /\ k \in 1 .. m
    BY <1>7, <1>9
  <2>2. PICK x \in Levels, y \in Levels : x = at[j] /\ y = at[k]
    BY <1>8, <2>1
  <2>3. Ahead(side, x, y)
    BY <1>3, <2>1, <2>2
  <2>4. top[j].price = IdxToPrice(x) /\ top[k].price = IdxToPrice(y)
    BY <1>10, <2>1, <2>2
  <2> QED BY <1>13, <2>3, <2>4
<1>20. ASSUME NEW p \in prices \ {top[k].price : k \in DOMAIN top}, NEW k \in DOMAIN top
       PROVE  Ahead(side, top[k].price, p)
  <2>1. PICK j \in 1 .. m : p = IdxToPrice(at[j])
    BY <1>15
  <2>2. j \notin 1 .. c
    BY <1>7, <1>10, <2>1
  <2>3. k \in 1 .. c /\ k \in 1 .. m
    BY <1>7, <1>9
  <2>4. k < j
    BY <1>4, <2>2, <2>3
  <2>5. PICK x \in Levels, y \in Levels : x = at[k] /\ y = at[j]
    BY <1>8, <2>1, <2>3
  <2>6. Ahead(side, x, y)
    BY <1>3, <2>1, <2>3, <2>4, <2>5
  <2>7. top[k].price = IdxToPrice(x) /\ p = IdxToPrice(y)
    BY <1>10, <2>1, <2>3, <2>5
  <2> QED BY <1>13, <2>6, <2>7
<1> QED BY <1>6, <1>7, <1>10, <1>11, <1>17, <1>18, <1>19, <1>20

\* A snapshot of either side lists its best prices, best first, none skipped,
\* with what rests there.
THEOREM SnapshotsExact == Spec => []SnapshotExact
<1>1. Init => NoOrderLost
  BY OrderFields DEF Init, NoOrderLost
<1>2. IInv /\ IInv' /\ NoOrderLost /\ [Next]_vars => NoOrderLost'
  BY BookSteps, StepLosesNoOrder
<1>3. Init => CountedTwice
  BY InitCounts
<1>4. IInv /\ CountedTwice /\ [Next]_vars => CountedTwice'
  BY NextKeepsCounts
<1>5. IInv /\ TotalsShadowQueues /\ CountedTwice /\ NoOrderLost => SnapshotExact
  BY SnapshotFollows
<1> QED BY <1>1, <1>2, <1>3, <1>4, <1>5, Invariance, TotalsCorrect, PTL DEF Spec

=============================================================================
