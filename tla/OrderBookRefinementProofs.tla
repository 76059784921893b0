---------------------- MODULE OrderBookRefinementProofs ----------------------
(***************************************************************************)
(* The engine implements PriceTimeBook, for any number of levels, slots    *)
(* and orders: every step of the engine is the step of the same name of    *)
(* PriceTimeBook, under the mapping of OrderBookRefinement.                *)
(*                                                                         *)
(* The mapping reads the resting orders from the slab and their time       *)
(* priority from the lists; the proof reads both through the id map        *)
(* (RestingView, PriorityRead), and shows what each of the three ways the  *)
(* book changes is there (RemovalView, DecreaseView, ArrivalView).  Then   *)
(* it compares the conditions: what may be traded (TradableWhenReachable), *)
(* which order is first (HeadPrecedes), how much is in reach               *)
(* (LiquidityInSlots), and when the book is full (LiveCount).              *)
(***************************************************************************)
EXTENDS OrderBookRefinement, OrderBookProofs

-----------------------------------------------------------------------------
(* The resting orders, seen through the id map.                            *)

\* The ids the id map finds.
LiveIds == {id \in OrderIds : MapFind(idMap, id) # nullptr}

\* What PriceTimeBook sees of an order.
View(o) == [side |-> o.side, price |-> IdxToPrice(o.level), quantity |-> o.quantity]

RestingByMap ==
  RestingOrders = [id \in LiveIds |-> View(order[MapFind(idMap, id)])]

\* The ids in the slab are those in the map, and lead to the same orders.
LEMMA RestingView ==
  IInv /\ NoOrderLost => RestingByMap
<1> SUFFICES ASSUME IInv, NoOrderLost PROVE RestingByMap
  OBVIOUS
<1>1. \A s \in LiveSlots : /\ s \in Slots /\ s # nullptr /\ order[s].id \in OrderIds
                           /\ MapFind(idMap, order[s].id) = s
  <2> TAKE s \in LiveSlots
  <2>1. s \in Slots /\ order[s] \in Orders
    BY DEF LiveSlots, IInv, SlotsInv, SlotsTypeOK
  <2>2. Rests(s) /\ order[s].id \in OrderIds
    BY <2>1, OrderFields DEF NoOrderLost
  <2> QED BY <2>1, <2>2 DEF Rests, Slots, nullptr
<1>2. \A id \in LiveIds : /\ MapFind(idMap, id) \in LiveSlots
                          /\ order[MapFind(idMap, id)].id = id
  <2> TAKE id \in LiveIds
  <2>1. Rests(MapFind(idMap, id)) /\ order[MapFind(idMap, id)].id = id
    BY FoundRests DEF LiveIds, IInv
  <2> QED BY <2>1, OrderFields DEF Rests, LiveSlots
<1>3. {order[s].id : s \in LiveSlots} = LiveIds
  BY <1>1, <1>2 DEF LiveIds
<1>4. \A id \in LiveIds : SlotOf(id) = MapFind(idMap, id)
  BY <1>1, <1>2 DEF SlotOf
<1> QED BY <1>3, <1>4 DEF RestingByMap, RestingOrders, View

\* ... after a step too.
LEMMA RestingViewAfter ==
  IInv' /\ NoOrderLost' => RestingByMap'
BY RestingView, PTL

\* The same, order by order.
LEMMA RestingFields ==
  ASSUME IInv, NoOrderLost
  PROVE  /\ PTB!Live = LiveIds
         /\ \A id \in LiveIds :
              LET s == MapFind(idMap, id)
              IN  /\ Rests(s) /\ order[s].id = id
                  /\ RestingOrders[id].side = order[s].side
                  /\ RestingOrders[id].price = BasePrice + order[s].level
                  /\ RestingOrders[id].quantity = order[s].quantity
<1>1. RestingOrders = [id \in LiveIds |-> View(order[MapFind(idMap, id)])]
  BY RestingView DEF RestingByMap
<1>2. PTB!Live = LiveIds
  BY <1>1 DEF PTB!Live
<1>3. \A id \in LiveIds : Rests(MapFind(idMap, id)) /\ order[MapFind(idMap, id)].id = id
  BY FoundRests DEF LiveIds, IInv
<1> QED BY <1>1, <1>2, <1>3 DEF View, IdxToPrice

-----------------------------------------------------------------------------
(* Time priority.                                                          *)

\* s stands somewhere in front of t.
Before(q, s, t) == \E i, j \in DOMAIN q : i < j /\ q[i] = s /\ q[j] = t

\* The pairs of ids that one list puts in the relation, for slot contents o.
PairsOf(q, o) ==
  {<<o[q[ij[1]]].id, o[q[ij[2]]].id>> :
     ij \in {p \in (DOMAIN q) \X (DOMAIN q) : p[1] < p[2]}}

\* They are those of the slots that stand behind one another.
LEMMA PairsOfQueue ==
  ASSUME NEW q, NEW o, NEW x
  PROVE  x \in PairsOf(q, o) <=>
           \E s, t : Before(q, s, t) /\ x = <<o[s].id, o[t].id>>
<1>1. ASSUME x \in PairsOf(q, o)
      PROVE  \E s, t : Before(q, s, t) /\ x = <<o[s].id, o[t].id>>
  <2>1. PICK ij \in (DOMAIN q) \X (DOMAIN q) :
          ij[1] < ij[2] /\ x = <<o[q[ij[1]]].id, o[q[ij[2]]].id>>
    BY <1>1 DEF PairsOf
  <2>2. Before(q, q[ij[1]], q[ij[2]])
    BY <2>1 DEF Before
  <2> QED BY <2>1, <2>2
<1>2. ASSUME NEW s, NEW t, Before(q, s, t), x = <<o[s].id, o[t].id>>
      PROVE  x \in PairsOf(q, o)
  <2>1. PICK i, j \in DOMAIN q : i < j /\ q[i] = s /\ q[j] = t
    BY <1>2 DEF Before
  <2>2. PICK ij \in (DOMAIN q) \X (DOMAIN q) : ij = <<i, j>>
    OBVIOUS
  <2>3. ij[1] = i /\ ij[2] = j
    BY <2>2
  <2>4. x = <<o[q[ij[1]]].id, o[q[ij[2]]].id>> /\ ij[1] < ij[2]
    BY <1>2, <2>1, <2>3
  <2> QED BY <2>2, <2>4 DEF PairsOf
<1> QED BY <1>1, <1>2

\* The relation of PriceTimeBook, read off the lists.
LEMMA PriorityRead ==
  /\ \A x : x \in TimePriority <=>
       \E sd \in Sides, l \in Levels : \E s, t :
         Before(fifo[sd][l], s, t) /\ x = <<order[s].id, order[t].id>>
  /\ \A x : x \in TimePriority' <=>
       \E sd \in Sides, l \in Levels : \E s, t :
         Before(fifo'[sd][l], s, t) /\ x = <<order'[s].id, order'[t].id>>
<1>1. TimePriority = UNION {PairsOf(fifo[sd][l], order) : sd \in Sides, l \in Levels}
  BY DEF TimePriority, PairsOf
<1>2. TimePriority' = UNION {PairsOf(fifo'[sd][l], order') : sd \in Sides, l \in Levels}
  BY DEF TimePriority, PairsOf
<1>3. \A x : x \in TimePriority <=>
        \E sd \in Sides, l \in Levels : x \in PairsOf(fifo[sd][l], order)
  BY <1>1
<1>4. \A x : x \in TimePriority' <=>
        \E sd \in Sides, l \in Levels : x \in PairsOf(fifo'[sd][l], order')
  BY <1>2
<1>5. \A q, o, x : x \in PairsOf(q, o) <=>
        \E s, t : Before(q, s, t) /\ x = <<o[s].id, o[t].id>>
  BY PairsOfQueue
<1>6. \A x : x \in TimePriority <=>
        \E sd \in Sides, l \in Levels : \E s, t :
          Before(fifo[sd][l], s, t) /\ x = <<order[s].id, order[t].id>>
  BY <1>3, <1>5
<1>7. \A x : x \in TimePriority' <=>
        \E sd \in Sides, l \in Levels : \E s, t :
          Before(fifo'[sd][l], s, t) /\ x = <<order'[s].id, order'[t].id>>
  <2> TAKE x
  <2>1. \A sd \in Sides, l \in Levels : x \in PairsOf(fifo'[sd][l], order') <=>
          \E s, t : Before(fifo'[sd][l], s, t) /\ x = <<order'[s].id, order'[t].id>>
    BY <1>5
  <2> QED BY <1>4, <2>1
<1> QED BY <1>6, <1>7

\* Taking x out leaves the others as they stood, ...
LEMMA BeforeUnlink ==
  ASSUME NEW S, NEW q \in Seq(S), IsInjective(q), NEW x \in Range(q), NEW s, NEW t
  PROVE  Before(Unlink(q, x), s, t) <=> Before(q, s, t) /\ s # x /\ t # x
<1> DEFINE p == Position(q, x)
           r == RemoveAt(q, p)
           n == Len(q)
<1>1. p \in 1 .. n /\ q[p] = x /\ n \in Nat /\ DOMAIN q = 1 .. n
  <2>1. \E i \in DOMAIN q : q[i] = x
    BY DEF Range
  <2>2. p \in DOMAIN q /\ q[p] = x
    BY <2>1 DEF Position
  <2> QED BY <2>2, LenProperties
<1> HIDE DEF p
<1>2. /\ r \in Seq(S) /\ Len(r) = n - 1
      /\ \A k \in 1 .. n - 1 : r[k] = IF k < p THEN q[k] ELSE q[k + 1]
  BY <1>1, RemoveAtProperties
<1>3. DOMAIN r = 1 .. n - 1
  BY <1>2, LenProperties
<1>4. \A j, k \in 1 .. n : q[j] = q[k] => j = k
  BY <1>1 DEF IsInjective
<1> HIDE DEF r, n
<1>5. ASSUME Before(r, s, t) PROVE Before(q, s, t) /\ s # x /\ t # x
  <2>1. PICK a, b \in 1 .. n - 1 : a < b /\ r[a] = s /\ r[b] = t
    BY <1>3, <1>5 DEF Before
  <2>2. PICK i \in 1 .. n : i = IF a < p THEN a ELSE a + 1
    BY <1>1
  <2>3. PICK j \in 1 .. n : j = IF b < p THEN b ELSE b + 1
    BY <1>1
  <2>4. q[i] = s /\ q[j] = t
    BY <1>2, <2>1, <2>2, <2>3
  <2>5. i < j /\ i # p /\ j # p
    BY <1>1, <2>1, <2>2, <2>3
  <2> QED BY <1>1, <1>4, <2>4, <2>5 DEF Before
<1>6. ASSUME Before(q, s, t), s # x, t # x PROVE Before(r, s, t)
  <2>1. PICK i, j \in 1 .. n : i < j /\ q[i] = s /\ q[j] = t
    BY <1>1, <1>6 DEF Before
  <2>2. i # p /\ j # p
    BY <1>1, <1>6, <2>1
  <2>3. PICK a \in 1 .. n - 1 : a = IF i < p THEN i ELSE i - 1
    BY <1>1, <2>2
  <2>4. PICK b \in 1 .. n - 1 : b = IF j < p THEN j ELSE j - 1
    BY <1>1, <2>2
  <2>5. a < b /\ (a < p <=> i < p) /\ (b < p <=> j < p)
    BY <1>1, <2>1, <2>2, <2>3, <2>4
  <2>6. r[a] = q[i]
    <3>1. r[a] = IF a < p THEN q[a] ELSE q[a + 1]
      BY <1>2
    <3>2. IF a < p THEN i = a ELSE i = a + 1
      BY <2>2, <2>3, <2>5
    <3> QED BY <3>1, <3>2
  <2>7. r[b] = q[j]
    <3>1. r[b] = IF b < p THEN q[b] ELSE q[b + 1]
      BY <1>2
    <3>2. IF b < p THEN j = b ELSE j = b + 1
      BY <2>2, <2>4, <2>5
    <3> QED BY <3>1, <3>2
  <2> QED BY <1>3, <2>1, <2>5, <2>6, <2>7 DEF Before
<1> QED BY <1>5, <1>6 DEF Unlink, r, p

\* ... and a newcomer stands behind all of them.
LEMMA BeforeAppend ==
  ASSUME NEW S, NEW q \in Seq(S), NEW e \in S, NEW s, NEW t
  PROVE  Before(Append(q, e), s, t) <=> Before(q, s, t) \/ (s \in Range(q) /\ t = e)
<1> DEFINE r == Append(q, e)
           n == Len(q)
<1>1. /\ n \in Nat /\ DOMAIN q = 1 .. n /\ DOMAIN r = 1 .. n + 1
      /\ \A k \in 1 .. n : r[k] = q[k]
      /\ r[n + 1] = e
  BY LenProperties
<1> HIDE DEF r, n
<1>2. ASSUME Before(r, s, t) PROVE Before(q, s, t) \/ (s \in Range(q) /\ t = e)
  <2>1. PICK a, b \in 1 .. n + 1 : a < b /\ r[a] = s /\ r[b] = t
    BY <1>1, <1>2 DEF Before
  <2>2. a \in 1 .. n /\ q[a] = s
    BY <1>1, <2>1
  <2>3. CASE b = n + 1
    BY <1>1, <2>1, <2>2, <2>3 DEF Range
  <2>4. CASE b # n + 1
    <3>1. b \in 1 .. n /\ q[b] = t
      BY <1>1, <2>1, <2>4
    <3> QED BY <1>1, <2>1, <2>2, <3>1 DEF Before
  <2> QED BY <2>3, <2>4
<1>3. ASSUME Before(q, s, t) PROVE Before(r, s, t)
  <2>1. PICK a, b \in 1 .. n : a < b /\ q[a] = s /\ q[b] = t
    BY <1>1, <1>3 DEF Before
  <2>2. a \in 1 .. n + 1 /\ b \in 1 .. n + 1 /\ r[a] = s /\ r[b] = t
    BY <1>1, <2>1
  <2> QED BY <1>1, <2>1, <2>2 DEF Before
<1>4. ASSUME s \in Range(q), t = e PROVE Before(r, s, t)
  <2>1. PICK a \in 1 .. n : q[a] = s
    BY <1>1, <1>4 DEF Range
  <2>2. a \in 1 .. n + 1 /\ n + 1 \in 1 .. n + 1 /\ a < n + 1 /\ r[a] = s /\ r[n + 1] = t
    BY <1>1, <1>4, <2>1
  <2> QED BY <1>1, <2>2 DEF Before
<1> QED BY <1>2, <1>3, <1>4 DEF r

\* What stands in a list rests.
LEMMA BeforeRests ==
  ASSUME IInv, NEW sd \in Sides, NEW l \in Levels, NEW s, NEW t, Before(fifo[sd][l], s, t)
  PROVE  /\ Rests(s) /\ order[s].side = sd /\ order[s].level = l
         /\ Rests(t) /\ order[t].side = sd /\ order[t].level = l
         /\ s \in Range(fifo[sd][l]) /\ t \in Range(fifo[sd][l])
<1>1. s \in Range(fifo[sd][l]) /\ t \in Range(fifo[sd][l])
  BY DEF Before, Range
<1> QED BY <1>1, LinkedRests DEF IInv

-----------------------------------------------------------------------------
(* The three ways the book changes, as PriceTimeBook sees them.            *)

\* A slot that leaves its list takes its order out of the book.
LEMMA RemovalView ==
  ASSUME IInv, NoOrderLost, IInv', NoOrderLost', NEW s, Removal(s)
  PROVE  PTB!Remove(order[s].id)
<1> DEFINE id == order[s].id
           sd == order[s].side
           l  == order[s].level
<1>1. /\ Rests(s) /\ s \in Slots /\ s # nullptr /\ id \in OrderIds
      /\ sd \in Sides /\ l \in Levels /\ MapFind(idMap, id) = s
      /\ s \in Range(fifo[sd][l])
  BY OrderFields DEF Removal, Rests, Slots, nullptr
<1>2. \A x \in OrderIds :
        MapFind(idMap', x) = IF x = id THEN nullptr ELSE MapFind(idMap, x)
  BY RemoveOrderKeeps DEF Removal, IInv
<1>3. /\ order' = [order EXCEPT ![s] = FreeSlot]
      /\ fifo' = [fifo EXCEPT ![sd][l] = Unlink(fifo[sd][l], s)]
  BY DEF Removal, RemoveOrder, Deallocate, ShrinkLevel
<1>4. /\ order \in [Slots -> Orders \cup {FreeSlot}]
      /\ fifo \in [Sides -> [Levels -> Seq(Slots)]]
      /\ \A side \in Sides, k \in Levels : IsInjective(fifo[side][k])
  BY DEF IInv, SlotsInv, SlotsTypeOK, LevelsInv, LevelsTypeOK, BookIntegrity, SlotsUsedOnce
<1>5. \A x \in Slots : x # s => order'[x] = order[x]
  BY <1>3, <1>4
<1>6. \A x : Rests(x) => x \in Slots /\ (x = s <=> order[x].id = id)
  BY <1>1 DEF Rests
<1>7. RestingOrders' = [x \in PTB!Live \ {id} |-> RestingOrders[x]]
  <2>1. LiveIds' = LiveIds \ {id}
    BY <1>2 DEF LiveIds
  <2>2. \A x \in LiveIds \ {id} :
          View(order'[MapFind(idMap', x)]) = View(order[MapFind(idMap, x)])
    <3> TAKE x \in LiveIds \ {id}
    <3>1. MapFind(idMap', x) = MapFind(idMap, x)
      BY <1>2 DEF LiveIds
    <3>2. Rests(MapFind(idMap, x)) /\ order[MapFind(idMap, x)].id = x
      BY RestingFields
    <3> QED BY <1>5, <1>6, <3>1, <3>2
  <2>3. /\ RestingOrders = [x \in LiveIds |-> View(order[MapFind(idMap, x)])]
        /\ RestingOrders' = [x \in LiveIds' |-> View(order'[MapFind(idMap', x)])]
    BY RestingView, RestingViewAfter DEF RestingByMap, View, IdxToPrice
  <2>4. PTB!Live = LiveIds
    BY RestingFields
  <2> HIDE DEF id
  <2> QED BY <2>1, <2>2, <2>3, <2>4
<1>8. \A side \in Sides, k \in Levels : \A a, b :
        Before(fifo'[side][k], a, b) <=> Before(fifo[side][k], a, b) /\ a # s /\ b # s
  <2> TAKE side \in Sides, k \in Levels
  <2> TAKE a, b
  <2>1. CASE side = sd /\ k = l
    <3>1. fifo'[side][k] = Unlink(fifo[side][k], s)
      BY <1>1, <1>3, <1>4, <2>1
    <3> QED BY <1>1, <1>4, <2>1, <3>1, BeforeUnlink
  <2>2. CASE ~(side = sd /\ k = l)
    <3>1. fifo'[side][k] = fifo[side][k]
      BY <1>1, <1>3, <1>4, <2>2
    <3>2. ASSUME Before(fifo[side][k], a, b) PROVE a # s /\ b # s
      <4>1. /\ order[a].side = side /\ order[a].level = k
            /\ order[b].side = side /\ order[b].level = k
        BY <3>2, BeforeRests
      <4> QED BY <2>2, <4>1
    <3> QED BY <3>1, <3>2
  <2> QED BY <2>1, <2>2
<1>9. TimePriority' = {pair \in TimePriority : pair[1] # id /\ pair[2] # id}
  <2>1. ASSUME NEW x, x \in TimePriority'
        PROVE  x \in TimePriority /\ x[1] # id /\ x[2] # id
    <3>1. PICK side \in Sides, k \in Levels : \E a, b :
            Before(fifo'[side][k], a, b) /\ x = <<order'[a].id, order'[b].id>>
      BY <2>1, PriorityRead
    <3>2. PICK a, b : Before(fifo'[side][k], a, b) /\ x = <<order'[a].id, order'[b].id>>
      BY <3>1
    <3>3. Before(fifo[side][k], a, b) /\ a # s /\ b # s
      BY <1>8, <3>2
    <3>4. Rests(a) /\ Rests(b)
      BY <3>3, BeforeRests
    <3>5. /\ order'[a] = order[a] /\ order'[b] = order[b]
          /\ order[a].id # id /\ order[b].id # id
      BY <1>5, <1>6, <3>3, <3>4
    <3>6. x = <<order[a].id, order[b].id>>
      BY <3>2, <3>5
    <3>7. x \in TimePriority
      BY <3>3, <3>6, PriorityRead
    <3> QED BY <3>5, <3>6, <3>7
  <2>2. ASSUME NEW x, x \in TimePriority, x[1] # id, x[2] # id
        PROVE  x \in TimePriority'
    <3>1. PICK side \in Sides, k \in Levels : \E a, b :
            Before(fifo[side][k], a, b) /\ x = <<order[a].id, order[b].id>>
      BY <2>2, PriorityRead
    <3>2. PICK a, b : Before(fifo[side][k], a, b) /\ x = <<order[a].id, order[b].id>>
      BY <3>1
    <3>3. Rests(a) /\ Rests(b)
      BY <3>2, BeforeRests
    <3>4. order[a].id # id /\ order[b].id # id
      BY <2>2, <3>2
    <3>5. a # s /\ b # s /\ order'[a] = order[a] /\ order'[b] = order[b]
      BY <1>5, <1>6, <3>3, <3>4
    <3>6. Before(fifo'[side][k], a, b) /\ x = <<order'[a].id, order'[b].id>>
      BY <1>8, <3>2, <3>5
    <3> QED BY <3>6, PriorityRead
  <2> QED BY <2>1, <2>2
<1> QED BY <1>7, <1>9 DEF PTB!Remove

\* A slot that loses quantity keeps its order where it is.
LEMMA DecreaseView ==
  ASSUME IInv, NoOrderLost, IInv', NoOrderLost', NEW s, NEW by \in Nat, Decrease(s, by)
  PROVE  PTB!Shrink(order[s].id, order[s].quantity - by)
<1> DEFINE id == order[s].id
           n  == order[s].quantity - by
<1>1. /\ Rests(s) /\ s \in Slots /\ s # nullptr /\ id \in OrderIds
      /\ order[s].side \in Sides /\ order[s].level \in Levels
      /\ MapFind(idMap, id) = s /\ order[s] \in Orders
  BY OrderFields DEF Decrease, Rests, Slots, nullptr
<1>2. order' = [order EXCEPT ![s].quantity = n] /\ idMap' = idMap
  BY DEF Decrease, DecreaseOrder
<1>3. fifo' = fifo
  <2>1. fifo' = [fifo EXCEPT ![order[s].side][order[s].level] =
                               fifo[order[s].side][order[s].level]]
    BY DEF Decrease, DecreaseOrder, ShrinkLevel
  <2>2. fifo \in [Sides -> [Levels -> Seq(Slots)]]
    BY DEF IInv, LevelsInv, LevelsTypeOK
  <2> QED BY <1>1, <2>1, <2>2
<1>4. order \in [Slots -> Orders \cup {FreeSlot}]
  BY DEF IInv, SlotsInv, SlotsTypeOK
<1> HIDE DEF n
<1>5. /\ \A x \in Slots : x # s => order'[x] = order[x]
      /\ order'[s].id = id /\ order'[s].side = order[s].side
      /\ order'[s].level = order[s].level /\ order'[s].quantity = n
  BY <1>1, <1>2, <1>4 DEF Orders
<1>6. \A x : Rests(x) => x \in Slots /\ (x = s <=> order[x].id = id)
  BY <1>1 DEF Rests
<1>7. RestingOrders' = [RestingOrders EXCEPT ![id].quantity = n]
  <2>1. /\ RestingOrders = [x \in LiveIds |-> View(order[MapFind(idMap, x)])]
        /\ RestingOrders' = [x \in LiveIds' |-> View(order'[MapFind(idMap', x)])]
    BY RestingView, RestingViewAfter DEF RestingByMap, View, IdxToPrice
  <2>2. LiveIds' = LiveIds /\ id \in LiveIds
    BY <1>1, <1>2 DEF LiveIds
  <2>3. View(order'[s]) = [View(order[s]) EXCEPT !.quantity = n]
    BY <1>5 DEF View
  <2>4. \A x \in LiveIds : x # id =>
          View(order'[MapFind(idMap, x)]) = View(order[MapFind(idMap, x)])
    <3> TAKE x \in LiveIds
    <3> HAVE x # id
    <3>1. Rests(MapFind(idMap, x)) /\ order[MapFind(idMap, x)].id = x
      BY RestingFields
    <3> QED BY <1>5, <1>6, <3>1
  <2> HIDE DEF id
  <2> QED BY <1>1, <1>2, <2>1, <2>2, <2>3, <2>4
<1>8. TimePriority' = TimePriority
  <2>1. \A x \in Slots : order'[x].id = order[x].id
    BY <1>5
  <2>2. \A side \in Sides, k \in Levels : \A a, b :
          Before(fifo[side][k], a, b) => order'[a].id = order[a].id /\ order'[b].id = order[b].id
    BY <2>1, BeforeRests DEF Rests
  <2>3. ASSUME NEW x, x \in TimePriority PROVE x \in TimePriority'
    <3>1. PICK side \in Sides, k \in Levels : \E a, b :
            Before(fifo[side][k], a, b) /\ x = <<order[a].id, order[b].id>>
      BY <2>3, PriorityRead
    <3>2. PICK a, b : Before(fifo[side][k], a, b) /\ x = <<order[a].id, order[b].id>>
      BY <3>1
    <3>3. Before(fifo'[side][k], a, b) /\ x = <<order'[a].id, order'[b].id>>
      BY <1>3, <2>2, <3>2
    <3> QED BY <3>3, PriorityRead
  <2>4. ASSUME NEW x, x \in TimePriority' PROVE x \in TimePriority
    <3>1. PICK side \in Sides, k \in Levels : \E a, b :
            Before(fifo'[side][k], a, b) /\ x = <<order'[a].id, order'[b].id>>
      BY <2>4, PriorityRead
    <3>2. PICK a, b : Before(fifo'[side][k], a, b) /\ x = <<order'[a].id, order'[b].id>>
      BY <3>1
    <3>3. Before(fifo[side][k], a, b) /\ x = <<order[a].id, order[b].id>>
      BY <1>3, <2>2, <3>2
    <3> QED BY <3>3, PriorityRead
  <2> QED BY <2>3, <2>4
<1> QED BY <1>7, <1>8 DEF PTB!Shrink, n

\* A slot that joins the back of a level brings a new order, behind all others
\* at its side and price.
LEMMA ArrivalView ==
  ASSUME IInv, NoOrderLost, IInv', NoOrderLost',
         NEW id \in OrderIds, NEW sd, NEW l, NEW n, Arrival(id, sd, l, n)
  PROVE  /\ RestingOrders' =
              [x \in PTB!Live \cup {id} |->
                 IF x = id THEN [side |-> sd, price |-> BasePrice + l, quantity |-> n]
                 ELSE RestingOrders[x]]
         /\ TimePriority' = TimePriority \cup
              {<<x, id>> : x \in {y \in PTB!Live : /\ RestingOrders[y].side = sd
                                                 /\ RestingOrders[y].price = BasePrice + l}}
<1> DEFINE s   == Head(free)
           new == [id |-> id, quantity |-> n, level |-> l, side |-> sd]
<1>1. sd \in Sides /\ l \in Levels /\ MapFind(idMap, id) = nullptr /\ free # <<>>
  BY DEF Arrival
<1>2. /\ order \in [Slots -> Orders \cup {FreeSlot}] /\ idMap \in Maps
      /\ fifo \in [Sides -> [Levels -> Seq(Slots)]]
      /\ free \in Seq(Slots) /\ IsInjective(free)
      /\ \A x \in Slots : order[x] = FreeSlot <=> x \in Range(free)
  BY DEF IInv, SlotsInv, SlotsTypeOK, LevelsInv, LevelsTypeOK, BookIntegrity, SlotsUsedOnce
<1>3. s \in Slots /\ s \in Range(free) /\ order[s] = FreeSlot
  BY <1>1, <1>2, TakeFromFront
<1>4. /\ order' = [order EXCEPT ![s] = new]
      /\ fifo' = [fifo EXCEPT ![sd][l] = Append(fifo[sd][l], s)]
      /\ idMap' = MapInsert(idMap, id, s)
  BY DEF Arrival, InsertResting
<1>5. new.id = id /\ new.side = sd /\ new.level = l /\ new.quantity = n
  OBVIOUS
<1> HIDE DEF s, new
<1>6. \A x \in OrderIds : MapFind(idMap', x) = IF x = id THEN s ELSE MapFind(idMap, x)
  BY <1>1, <1>3, <1>4, FreeSlotInserted DEF IInv
<1>7. order'[s] = new /\ \A x \in Slots : x # s => order'[x] = order[x]
  BY <1>2, <1>3, <1>4
<1>8. \A x : Rests(x) => x \in Slots /\ x # s /\ order'[x] = order[x]
  BY <1>3, <1>7, OrderFields DEF Rests
<1>9. s # nullptr
  BY <1>3 DEF Slots, nullptr
<1>10. RestingOrders' =
         [x \in PTB!Live \cup {id} |->
            IF x = id THEN [side |-> sd, price |-> BasePrice + l, quantity |-> n]
            ELSE RestingOrders[x]]
  <2>1. /\ RestingOrders = [x \in LiveIds |-> View(order[MapFind(idMap, x)])]
        /\ RestingOrders' = [x \in LiveIds' |-> View(order'[MapFind(idMap', x)])]
    BY RestingView, RestingViewAfter DEF RestingByMap, View, IdxToPrice
  <2>2. LiveIds' = LiveIds \cup {id} /\ id \notin LiveIds
    BY <1>1, <1>6, <1>9 DEF LiveIds
  <2>3. View(order'[MapFind(idMap', id)]) =
          [side |-> sd, price |-> BasePrice + l, quantity |-> n]
    BY <1>5, <1>6, <1>7 DEF View, IdxToPrice
  <2>4. \A x \in LiveIds :
          View(order'[MapFind(idMap', x)]) = View(order[MapFind(idMap, x)])
    <3> TAKE x \in LiveIds
    <3>1. MapFind(idMap', x) = MapFind(idMap, x)
      BY <1>6, <2>2 DEF LiveIds
    <3>2. Rests(MapFind(idMap, x))
      BY RestingFields
    <3> QED BY <1>8, <3>1, <3>2
  <2>5. PTB!Live = LiveIds
    BY RestingFields
  <2> QED BY <2>1, <2>2, <2>3, <2>4, <2>5
<1> DEFINE queued == {y \in PTB!Live : /\ RestingOrders[y].side = sd
                                      /\ RestingOrders[y].price = BasePrice + l}
<1>11. \A x : x \in queued <=> \E a \in Range(fifo[sd][l]) : x = order[a].id
  <2>1. ASSUME NEW x \in queued PROVE \E a \in Range(fifo[sd][l]) : x = order[a].id
    <3>1. PICK a : a = MapFind(idMap, x)
      OBVIOUS
    <3>2. /\ Rests(a) /\ order[a].id = x
          /\ order[a].side = sd /\ BasePrice + order[a].level = BasePrice + l
      BY <3>1, RestingFields
    <3>3. order[a].level \in Int /\ l \in Int /\ BasePrice \in Int
      BY <1>1, <3>2, OrderFields, ConfigAssumption DEF Rests, Levels
    <3>4. order[a].level = l
      <4>1. PICK k \in Int : k = order[a].level
        BY <3>3
      <4>2. BasePrice + k = BasePrice + l
        BY <3>2, <4>1
      <4>3. k = l
        BY <3>3, <4>2
      <4> QED BY <4>1, <4>3
    <3> QED BY <3>2, <3>4 DEF Rests
  <2>2. ASSUME NEW a \in Range(fifo[sd][l]) PROVE order[a].id \in queued
    <3>1. Rests(a) /\ order[a].side = sd /\ order[a].level = l
      BY <1>1, LinkedRests DEF IInv
    <3>2. /\ order[a].id \in LiveIds /\ MapFind(idMap, order[a].id) = a
      BY <3>1, OrderFields DEF Rests, LiveIds, Slots, nullptr
    <3> QED BY <3>1, <3>2, RestingFields
  <2> QED BY <2>1, <2>2
<1> HIDE DEF queued
<1>12. \A side \in Sides, k \in Levels : \A a, b :
         Before(fifo'[side][k], a, b) <=>
           \/ Before(fifo[side][k], a, b)
           \/ side = sd /\ k = l /\ a \in Range(fifo[sd][l]) /\ b = s
  <2> TAKE side \in Sides, k \in Levels
  <2> TAKE a, b
  <2>1. CASE side = sd /\ k = l
    <3>1. fifo'[side][k] = Append(fifo[side][k], s) /\ fifo[side][k] \in Seq(Slots)
      BY <1>1, <1>2, <1>4, <2>1
    <3> QED BY <1>3, <2>1, <3>1, BeforeAppend
  <2>2. CASE ~(side = sd /\ k = l)
    <3>1. fifo'[side][k] = fifo[side][k]
      BY <1>1, <1>2, <1>4, <2>2
    <3> QED BY <2>2, <3>1
  <2> QED BY <2>1, <2>2
<1>13. \A side \in Sides, k \in Levels : \A a, b :
         Before(fifo[side][k], a, b) => order'[a] = order[a] /\ order'[b] = order[b]
  BY <1>8, BeforeRests
<1>14. order'[s].id = id /\ \A a \in Range(fifo[sd][l]) : order'[a] = order[a]
  BY <1>1, <1>5, <1>7, <1>8, LinkedRests DEF IInv
<1>15. TimePriority' = TimePriority \cup {<<x, id>> : x \in queued}
  <2>1. ASSUME NEW x, x \in TimePriority'
        PROVE  x \in TimePriority \cup {<<y, id>> : y \in queued}
    <3>1. PICK side \in Sides, k \in Levels : \E a, b :
            Before(fifo'[side][k], a, b) /\ x = <<order'[a].id, order'[b].id>>
      BY <2>1, PriorityRead
    <3>2. PICK a, b : Before(fifo'[side][k], a, b) /\ x = <<order'[a].id, order'[b].id>>
      BY <3>1
    <3>3. CASE Before(fifo[side][k], a, b)
      <4>1. x = <<order[a].id, order[b].id>>
        BY <1>13, <3>2, <3>3
      <4>2. x \in TimePriority
        BY <3>3, <4>1, PriorityRead
      <4> QED BY <4>2
    <3>4. CASE a \in Range(fifo[sd][l]) /\ b = s
      <4>1. x = <<order[a].id, id>> /\ order[a].id \in queued
        BY <1>11, <1>14, <3>2, <3>4
      <4> QED BY <4>1
    <3> QED BY <1>12, <3>2, <3>3, <3>4
  <2>2. ASSUME NEW x, x \in TimePriority PROVE x \in TimePriority'
    <3>1. PICK side \in Sides, k \in Levels : \E a, b :
            Before(fifo[side][k], a, b) /\ x = <<order[a].id, order[b].id>>
      BY <2>2, PriorityRead
    <3>2. PICK a, b : Before(fifo[side][k], a, b) /\ x = <<order[a].id, order[b].id>>
      BY <3>1
    <3>3. Before(fifo'[side][k], a, b) /\ x = <<order'[a].id, order'[b].id>>
      BY <1>12, <1>13, <3>2
    <3> QED BY <3>3, PriorityRead
  <2>3. ASSUME NEW y \in queued PROVE <<y, id>> \in TimePriority'
    <3>1. PICK a \in Range(fifo[sd][l]) : y = order[a].id
      BY <1>11
    <3>2. Before(fifo'[sd][l], a, s) /\ <<y, id>> = <<order'[a].id, order'[s].id>>
      BY <1>1, <1>12, <1>14, <3>1
    <3> QED BY <1>1, <3>2, PriorityRead
  <2> QED BY <2>1, <2>2, <2>3
<1> QED BY <1>10, <1>15 DEF queued

-----------------------------------------------------------------------------
(* What an order may trade with.                                           *)

\* The best opposite level is there, and within the limit.
Reachable(req) ==
  LET b == best[Opposite(req.side)]
  IN  b # kNoBest /\ (IsMarket(req) \/ Reaches(req.side, PriceToIdx(req.price), b))

\* Tradable orders are those at the levels within the limit.
LEMMA TradableOrders ==
  ASSUME IInv, NoOrderLost, NEW req \in Submissions, ~IsMarket(req) => InRange(req.price)
  PROVE  \A id : id \in PTB!Tradable(req) <=>
           /\ id \in LiveIds
           /\ order[MapFind(idMap, id)].side = Opposite(req.side)
           /\ order[MapFind(idMap, id)].level \in Within(req.side, FokLimit(req))
<1>1. req.side \in Sides /\ req.price \in Int
  BY SubmissionFields
<1>2. \A l \in Levels :
        l \in Within(req.side, FokLimit(req)) <=>
          \/ IsMarket(req)
          \/ ~PTB!Better(Opposite(req.side), req.price, BasePrice + l)
  <2> TAKE l \in Levels
  <2>1. l \in Int /\ BasePrice \in Nat
    BY ConfigAssumption DEF Levels
  <2>2. CASE IsMarket(req)
    BY <2>2 DEF Within, FokLimit
  <2>3. CASE ~IsMarket(req)
    <3>1. req.price >= BasePrice /\ FokLimit(req) = req.price
      BY <2>3 DEF InRange, FokLimit
    <3>2. req.price # kInvalidPrice /\ PriceToIdx(req.price) = req.price - BasePrice
      BY <1>1, <2>1, <3>1 DEF kInvalidPrice, PriceToIdx
    <3>3. Reaches(req.side, req.price - BasePrice, l) <=>
            ~PTB!Better(Opposite(req.side), req.price, BasePrice + l)
      BY <1>1, <2>1 DEF Reaches, PTB!Better, Opposite, Sides
    <3> QED BY <2>3, <3>1, <3>2, <3>3 DEF Within
  <2> QED BY <2>2, <2>3
<1>3. \A id : id \in PTB!Tradable(req) <=>
        /\ id \in LiveIds
        /\ RestingOrders[id].side = Opposite(req.side)
        /\ IsMarket(req) \/ ~PTB!Better(RestingOrders[id].side, req.price, RestingOrders[id].price)
  <2>1. PTB!Opposite(req.side) = Opposite(req.side) /\ (PTB!IsMarket(req) <=> IsMarket(req))
    BY DEF PTB!Opposite, Opposite, PTB!IsMarket, IsMarket
  <2>2. PTB!Live = LiveIds
    BY RestingFields
  <2> QED BY <2>1, <2>2 DEF PTB!Tradable
<1>4. \A id \in LiveIds :
        /\ RestingOrders[id].side = order[MapFind(idMap, id)].side
        /\ RestingOrders[id].price = BasePrice + order[MapFind(idMap, id)].level
        /\ order[MapFind(idMap, id)].level \in Levels
  BY RestingFields, OrderFields DEF Rests
<1> QED BY <1>2, <1>3, <1>4

\* There is one exactly when the best opposite level is within the limit.
LEMMA TradableWhenReachable ==
  ASSUME IInv, NoOrderLost, NEW req \in Submissions, ~IsMarket(req) => InRange(req.price)
  PROVE  PTB!Tradable(req) # {} <=> Reachable(req)
<1> DEFINE opp == Opposite(req.side)
           R   == Within(req.side, FokLimit(req))
           b   == best[opp]
<1>1. req.side \in Sides /\ req.price \in Int /\ opp \in Sides
  BY SubmissionFields, OppositeSide
<1>2. \A l \in Levels :
        l \in R <=> IsMarket(req) \/ Reaches(req.side, PriceToIdx(req.price), l)
  BY <1>1, ConfigAssumption DEF Within, FokLimit, InRange, kInvalidPrice
<1>3. ASSUME NEW id \in PTB!Tradable(req) PROVE Reachable(req)
  <2>1. PICK s : s = MapFind(idMap, id)
    OBVIOUS
  <2>2. Rests(s) /\ order[s].side = opp /\ order[s].level \in R
    BY <2>1, TradableOrders, RestingFields
  <2>3. PICK l : l = order[s].level
    OBVIOUS
  <2>4. l \in Occupied(opp) /\ l \in R /\ l \in Levels
    BY <2>2, <2>3, RestsInOccupied DEF IInv, Occupied
  <2>5. b \in Occupied(opp) /\ ~Ahead(opp, l, b) /\ b \in Levels
    BY <1>1, <2>4 DEF IInv, LevelsInv, BestIsExtremal, Occupied
  <2>6. b \in Int /\ l \in Int /\ b # kNoBest /\ PriceToIdx(req.price) \in Int
    BY <1>1, <2>4, <2>5, ConfigAssumption DEF Levels, kNoBest, PriceToIdx
  <2>7. IsMarket(req) \/ Reaches(req.side, PriceToIdx(req.price), l)
    BY <1>2, <2>4
  <2>8. IsMarket(req) \/ Reaches(req.side, PriceToIdx(req.price), b)
    BY <1>1, <2>5, <2>6, <2>7, OppositeSide
  <2> QED BY <2>6, <2>8 DEF Reachable
<1>4. ASSUME Reachable(req) PROVE PTB!Tradable(req) # {}
  <2>1. b \in Occupied(opp) /\ b \in Levels
    BY <1>1, <1>4 DEF Reachable, IInv, LevelsInv, BestIsExtremal, Occupied
  <2>2. fifo[opp][b] \in Seq(Slots) /\ IsInjective(fifo[opp][b]) /\ fifo[opp][b] # <<>>
    BY <1>1, <2>1 DEF IInv, LevelsInv, LevelsTypeOK, SlotsInv, BookIntegrity, SlotsUsedOnce,
                      Occupied
  <2>3. PICK s : s \in Range(fifo[opp][b])
    BY <2>2, TakeFromFront
  <2>4. Rests(s) /\ order[s].side = opp /\ order[s].level = b
    BY <1>1, <2>1, <2>3, LinkedRests DEF IInv
  <2>5. order[s].id \in LiveIds /\ MapFind(idMap, order[s].id) = s
    BY <2>4, OrderFields DEF Rests, LiveIds, Slots, nullptr
  <2>6. b \in R
    BY <1>2, <1>4, <2>1 DEF Reachable
  <2>7. order[s].id \in PTB!Tradable(req)
    BY <2>4, <2>5, <2>6, TradableOrders
  <2> QED BY <2>7
<1> QED BY <1>3, <1>4

-----------------------------------------------------------------------------
(* How many orders rest, and how much.                                     *)

\* There are as many ids as slots in use.
LEMMA LiveCount ==
  ASSUME IInv, NoOrderLost
  PROVE  /\ IsFiniteSet(LiveIds)
         /\ free # <<>> => Cardinality(LiveIds) < MaxOrders
         /\ free = <<>> => Cardinality(LiveIds) = MaxOrders
<1> DEFINE f == [id \in LiveIds |-> MapFind(idMap, id)]
<1>1. \A id \in LiveIds : Rests(f[id]) /\ order[f[id]].id = id
  BY RestingFields
<1>2. f \in Injection(LiveIds, Slots)
  <2>1. f \in [LiveIds -> Slots]
    BY <1>1 DEF Rests
  <2>2. \A x, y \in LiveIds : f[x] = f[y] => x = y
    BY <1>1
  <2> QED BY <2>1, <2>2 DEF Injection, IsInjective
<1>3. IsFiniteSet(Slots) /\ Cardinality(Slots) = MaxOrders
  BY IntervalSize, ConfigAssumption DEF Slots
<1>4. /\ IsFiniteSet(LiveIds) /\ Cardinality(LiveIds) <= MaxOrders
      /\ Cardinality(LiveIds) = MaxOrders <=> f \in Surjection(LiveIds, Slots)
  BY <1>2, <1>3, FS_Injection
<1>5. /\ free \in Seq(Slots) /\ IsInjective(free)
      /\ \A s \in Slots : order[s] = FreeSlot <=> s \in Range(free)
  BY DEF IInv, SlotsInv, SlotsTypeOK, BookIntegrity, SlotsUsedOnce
<1>6. ASSUME free # <<>> PROVE Cardinality(LiveIds) < MaxOrders
  <2>1. Head(free) \in Slots /\ order[Head(free)] = FreeSlot
    BY <1>5, <1>6, TakeFromFront
  <2>2. \A id \in LiveIds : f[id] # Head(free)
    BY <1>1, <2>1, OrderFields DEF Rests
  <2>3. f \notin Surjection(LiveIds, Slots)
    BY <2>1, <2>2 DEF Surjection
  <2>4. Cardinality(LiveIds) \in Nat
    BY <1>4, FS_CardinalityType
  <2> QED BY <1>4, <2>3, <2>4, ConfigAssumption
<1>7. ASSUME free = <<>> PROVE Cardinality(LiveIds) = MaxOrders
  <2>1. Range(free) = {}
    BY <1>7 DEF Range
  <2>2. \A s \in Slots : /\ Rests(s) /\ order[s].id \in LiveIds
                         /\ f[order[s].id] = s
    <3> TAKE s \in Slots
    <3>1. order[s] \in Orders
      BY <1>5, <2>1 DEF IInv, SlotsInv, SlotsTypeOK
    <3>2. Rests(s) /\ order[s].id \in OrderIds
      BY <3>1, OrderFields DEF NoOrderLost
    <3> QED BY <3>2 DEF Rests, LiveIds, Slots, nullptr
  <2>3. f \in Surjection(LiveIds, Slots)
    BY <1>1, <2>2 DEF Surjection, Rests
  <2> QED BY <1>4, <2>3
<1> QED BY <1>4, <1>6, <1>7

\* sum gives each subset of T the sum of its weights; g does so taking one
\* element, of its choice, after the other.
SumsOver(T, w, sum) ==
  /\ sum[{}] = 0
  /\ \A s \in SUBSET T : \A x \in s : sum[s] = w[x] + sum[s \ {x}]

AddsUp(T, w, g) ==
  /\ g[{}] = 0
  /\ \A s \in SUBSET T : s # {} => \E x \in s : g[s] = w[x] + g[s \ {x}]

\* The choice does not matter.
LEMMA SumByRecursion ==
  ASSUME NEW T, IsFiniteSet(T), NEW w, NEW sum, NEW g,
         SumsOver(T, w, sum), AddsUp(T, w, g)
  PROVE  g[T] = sum[T]
<1> DEFINE Bad == {s \in SUBSET T : g[s] # sum[s]}
           Sizes == {Cardinality(s) : s \in Bad}
<1>1. \A s \in SUBSET T : IsFiniteSet(s) /\ Cardinality(s) \in Nat
  BY FS_Subset, FS_CardinalityType
<1>2. SUFFICES ASSUME Bad # {} PROVE FALSE
  OBVIOUS
<1>3. PICK s \in Bad : \A r \in Bad : Cardinality(s) <= Cardinality(r)
  <2>1. Sizes \subseteq Nat /\ Sizes # {}
    BY <1>1, <1>2
  <2>2. PICK n \in Sizes : \A m \in Sizes : n <= m
    BY <2>1, LeastNatExists
  <2>3. PICK s \in Bad : n = Cardinality(s)
    BY <2>2
  <2>4. \A r \in Bad : Cardinality(s) <= Cardinality(r)
    BY <2>2, <2>3
  <2> QED BY <2>4
<1>4. s \in SUBSET T /\ g[s] # sum[s]
  BY <1>3
<1>5. s # {}
  BY <1>4 DEF SumsOver, AddsUp
<1>6. PICK x \in s : g[s] = w[x] + g[s \ {x}]
  BY <1>4, <1>5 DEF AddsUp
<1>8. s \ {x} \in SUBSET T /\ Cardinality(s \ {x}) = Cardinality(s) - 1
  BY <1>1, <1>4, <1>6, FS_RemoveElement
<1>9. s \ {x} \notin Bad
  <2>1. Cardinality(s) \in Nat
    BY <1>1, <1>4
  <2>2. ~(Cardinality(s) <= Cardinality(s) - 1)
    BY <2>1
  <2> QED BY <1>3, <1>8, <2>2
<1>10. g[s \ {x}] = sum[s \ {x}]
  BY <1>8, <1>9
<1>11. sum[s] = w[x] + sum[s \ {x}]
  BY <1>4 DEF SumsOver
<1> QED BY <1>4, <1>6, <1>10, <1>11

\* What the orders with the ids T add up to, slot by slot.
IdQty(o, T) == IF o \in Orders /\ o.id \in T THEN o.quantity ELSE 0

IdsQty(T) == TotalOf([s \in Slots |-> IdQty(order[s], T)])

\* It grows with each id by that id's quantity.
LEMMA IdsQtySteps ==
  ASSUME IInv, NoOrderLost
  PROVE  /\ IdsQty({}) = 0
         /\ \A T \in SUBSET LiveIds : \A x \in T :
              IdsQty(T) = RestingOrders[x].quantity + IdsQty(T \ {x})
<1> DEFINE list(T) == [s \in Slots |-> IdQty(order[s], T)]
<1>1. Slots = 1 .. MaxOrders /\ MaxOrders \in Nat
  BY ConfigAssumption DEF Slots
<1>2. \A T : list(T) \in Seq(Int) /\ Len(list(T)) = MaxOrders
  <2> TAKE T
  <2>1. \A s \in 1 .. MaxOrders : IdQty(order[s], T) \in Int
    <3> TAKE s \in 1 .. MaxOrders
    <3>1. order[s] \in Orders => order[s].quantity \in Int
      BY OrderFields
    <3> QED BY <3>1 DEF IdQty
  <2> QED BY <1>1, <2>1, IsASeq
<1>3. IdsQty({}) = 0
  <2>1. \A s \in 1 .. MaxOrders : list({})[s] = 0
    BY <1>1 DEF IdQty
  <2> HIDE DEF list
  <2>2. TotalOf(list({})) = 0
    BY <1>2, <2>1, TotalOfZeros
  <2> QED BY <2>2 DEF IdsQty, list
<1>4. ASSUME NEW T \in SUBSET LiveIds, NEW x \in T
      PROVE  IdsQty(T) = RestingOrders[x].quantity + IdsQty(T \ {x})
  <2>1. PICK p : p = MapFind(idMap, x)
    OBVIOUS
  <2>2. PICK d : d = RestingOrders[x].quantity
    OBVIOUS
  <2>3. /\ Rests(p) /\ order[p].id = x /\ d = order[p].quantity
        /\ p \in Slots /\ order[p] \in Orders
    BY <2>1, <2>2, RestingFields DEF Rests
  <2>4. d \in Int
    BY <2>3, OrderFields
  <2>5. \A s \in Slots : s # p /\ order[s] \in Orders => order[s].id # x
    BY <2>1 DEF NoOrderLost, Rests
  <2>6. IdQty(order[p], T) = IdQty(order[p], T \ {x}) + d
    <3>1. IdQty(order[p], T) = d /\ IdQty(order[p], T \ {x}) = 0
      BY <2>3 DEF IdQty
    <3> QED BY <2>4, <3>1
  <2>7. \A s \in Slots : s # p => IdQty(order[s], T) = IdQty(order[s], T \ {x})
    BY <2>5 DEF IdQty
  <2> DEFINE v == list(T)
             w == list(T \ {x})
  <2>8. v \in Seq(Int) /\ w \in Seq(Int) /\ Len(v) = MaxOrders /\ Len(w) = MaxOrders
    BY <1>2
  <2>9. v[p] = w[p] + d /\ \A s \in Slots : s # p => v[s] = w[s]
    BY <2>3, <2>6, <2>7
  <2>10. IdsQty(T) = TotalOf(v) /\ IdsQty(T \ {x}) = TotalOf(w)
    BY DEF IdsQty
  <2> HIDE DEF v, w
  <2>11. p \in 1 .. Len(w) /\ Len(v) = Len(w) /\ \A s \in 1 .. Len(w) : s # p => v[s] = w[s]
    BY <1>1, <2>3, <2>8, <2>9
  <2>12. TotalOf(v) = TotalOf(w) + d
    BY <2>4, <2>8, <2>9, <2>11, TotalOfChange
  <2>13. TotalOf(w) \in Int
    BY <2>8, TotalIsInt
  <2>14. TotalOf(v) = d + TotalOf(w)
    BY <2>4, <2>12, <2>13
  <2> QED BY <2>2, <2>10, <2>14
<1> QED BY <1>3, <1>4

\* The recursion that MapThenSumSet stands for in Liquidity.
LiquidityOf(req) ==
  CHOOSE g : g = [s \in SUBSET PTB!Tradable(req) |->
                    IF s = {} THEN 0
                    ELSE RestingOrders[CHOOSE y \in s : TRUE].quantity
                           + g[s \ {CHOOSE y \in s : TRUE}]]

\* It is what Liquidity says.
LEMMA LiquidityRead ==
  ASSUME NEW req
  PROVE  PTB!Liquidity(req) = LiquidityOf(req)[PTB!Tradable(req)]
BY DEF PTB!Liquidity, PTB!MapThenSumSet, PTB!MapThenFoldSet, LiquidityOf

\* Liquidity in reach is what the slots at the levels within the limit hold.
LEMMA LiquidityInSlots ==
  ASSUME IInv, NoOrderLost, NEW req \in Submissions, ~IsMarket(req) => InRange(req.price)
  PROVE  PTB!Liquidity(req) =
           SlotsQty(Opposite(req.side), Within(req.side, FokLimit(req)))
<1> DEFINE R   == Within(req.side, FokLimit(req))
           opp == Opposite(req.side)
<1>1. PICK T : T = PTB!Tradable(req)
  OBVIOUS
<1>2. T \subseteq LiveIds
  BY <1>1, TradableOrders
<1>3. IsFiniteSet(T)
  BY <1>2, LiveCount, FS_Subset
<1> DEFINE w   == [x \in T |-> RestingOrders[x].quantity]
           sum == [s \in SUBSET T |-> IdsQty(s)]
           Sums(g) == g = [s \in SUBSET T |->
                             IF s = {} THEN 0
                             ELSE RestingOrders[CHOOSE y \in s : TRUE].quantity
                                    + g[s \ {CHOOSE y \in s : TRUE}]]
<1>4. /\ sum[{}] = 0
      /\ \A s \in SUBSET T : \A x \in s : sum[s] = w[x] + sum[s \ {x}]
  <2>1. sum[{}] = 0
    BY IdsQtySteps
  <2>2. ASSUME NEW s \in SUBSET T, NEW x \in s PROVE sum[s] = w[x] + sum[s \ {x}]
    <3>1. s \in SUBSET LiveIds /\ s \ {x} \in SUBSET T /\ x \in T
      BY <1>2
    <3>2. IdsQty(s) = RestingOrders[x].quantity + IdsQty(s \ {x})
      BY <3>1, IdsQtySteps
    <3> QED BY <3>1, <3>2
  <2> QED BY <2>1, <2>2
<1>5. \A s \in SUBSET T : s # {} =>
        /\ (CHOOSE y \in s : TRUE) \in s
        /\ w[CHOOSE y \in s : TRUE] = RestingOrders[CHOOSE y \in s : TRUE].quantity
  <2> TAKE s \in SUBSET T
  <2> HAVE s # {}
  <2>1. PICK x \in s : x = CHOOSE y \in s : TRUE
    OBVIOUS
  <2>2. x \in T
    OBVIOUS
  <2>3. w[x] = RestingOrders[x].quantity
    BY <2>2
  <2> QED BY <2>1, <2>3
<1> HIDE DEF w
<1>6. Sums(sum)
  <2>1. \A s \in SUBSET T : sum[s] =
          IF s = {} THEN 0
          ELSE RestingOrders[CHOOSE y \in s : TRUE].quantity
                 + sum[s \ {CHOOSE y \in s : TRUE}]
    BY <1>4, <1>5
  <2>2. sum = [s \in SUBSET T |-> sum[s]]
    OBVIOUS
  <2> HIDE DEF sum
  <2> QED BY <2>1, <2>2
<1> HIDE DEF sum
<1>7. PICK g : g = LiquidityOf(req)
  OBVIOUS
<1>8. Sums(g)
  <2>1. g = CHOOSE h : Sums(h)
    BY <1>1, <1>7 DEF LiquidityOf
  <2> HIDE DEF Sums
  <2> QED BY <1>6, <2>1
<1>9. /\ g[{}] = 0
      /\ \A s \in SUBSET T : s # {} => \E x \in s : g[s] = w[x] + g[s \ {x}]
  <2>1. g[{}] = 0
    BY <1>8
  <2>2. ASSUME NEW s \in SUBSET T, s # {} PROVE \E x \in s : g[s] = w[x] + g[s \ {x}]
    <3>1. PICK x \in s : x = CHOOSE y \in s : TRUE
      BY <2>2
    <3>2. g[s] = RestingOrders[x].quantity + g[s \ {x}]
      BY <1>8, <2>2, <3>1
    <3>3. w[x] = RestingOrders[x].quantity
      BY <1>5, <2>2, <3>1
    <3> QED BY <3>2, <3>3
  <2> QED BY <2>1, <2>2
<1>10. g[T] = sum[T]
  <2>1. SumsOver(T, w, sum) /\ AddsUp(T, w, g)
    BY <1>4, <1>9 DEF SumsOver, AddsUp
  <2> QED BY <1>3, <2>1, SumByRecursion
<1>11. sum[T] = IdsQty(T)
  BY DEF sum
<1>12. IdsQty(T) = SlotsQty(opp, R)
  <2>1. \A s \in Slots : IdQty(order[s], T) =
          IF order[s] \in Orders /\ order[s].side = opp /\ order[s].level \in R
          THEN order[s].quantity ELSE 0
    <3> TAKE s \in Slots
    <3>1. CASE order[s] \in Orders
      <4>1. MapFind(idMap, order[s].id) = s /\ order[s].id \in OrderIds /\ s # nullptr
        BY <3>1, OrderFields DEF NoOrderLost, Rests, Slots, nullptr
      <4>2. order[s].id \in T <=> order[s].side = opp /\ order[s].level \in R
        BY <1>1, <4>1, TradableOrders DEF LiveIds
      <4> QED BY <4>2 DEF IdQty
    <3>2. CASE order[s] \notin Orders
      BY <3>2 DEF IdQty
    <3> QED BY <3>1, <3>2
  <2> HIDE DEF opp, R
  <2>2. [s \in Slots |-> IdQty(order[s], T)] =
          [s \in Slots |->
             IF order[s] \in Orders /\ order[s].side = opp /\ order[s].level \in R
             THEN order[s].quantity ELSE 0]
    BY <2>1
  <2> QED BY <2>2 DEF IdsQty, SlotsQty
<1> QED BY <1>1, <1>7, <1>10, <1>11, <1>12, LiquidityRead

-----------------------------------------------------------------------------
(* Calls, as PriceTimeBook sees them.                                      *)

\* While no sum of quantities reaches 2^32, ...
SumsFit == \A side \in Sides : SlotsQty(side, Levels) < QuantityMod

\* An order that skips the matching loop has nothing it may trade with.
PhaseInv ==
  /\ pc = "match" => taker.tif # "PostOnly"
  /\ pc = "finish" => \/ taker.tif = "PostOnly"
                      \/ ~IsMarket(taker) /\ ~WouldCross(taker.side, taker.price)

\* ... the pre-walk of an order that passed the input checks is exact.
LEMMA PreWalkView ==
  ASSUME IInv, NoOrderLost, FokPreCheckExact, SumsFit, NEW req \in Submissions, ~BadInput(req)
  PROVE  CanFullyFill(req.side, FokLimit(req), req.qty) <=> ~(PTB!Liquidity(req) < req.qty)
<1> DEFINE opp == Opposite(req.side)
           R   == Within(req.side, FokLimit(req))
<1>1. /\ req.side \in Sides /\ req.qty \in Quantities \ {0} /\ req.qty \in Nat
      /\ req.price \in Prices /\ opp \in Sides /\ R \in SUBSET Levels
      /\ ~IsMarket(req) => InRange(req.price)
  BY SubmissionFields, OppositeSide DEF Submissions, BadInput, Within
<1>2. FokLimit(req) \in {p \in Prices : InRange(p)} \cup {kInvalidPrice}
  BY <1>1 DEF FokLimit
<1>3. /\ CanFullyFill(req.side, FokLimit(req), req.qty) => SlotsQty(opp, R) >= req.qty
      /\ SlotsQty(opp, R) >= req.qty /\ SlotsQty(opp, R) < QuantityMod
           => CanFullyFill(req.side, FokLimit(req), req.qty)
  BY <1>1, <1>2 DEF FokPreCheckExact, Within
<1>4. SlotsQty(opp, R) \in Int /\ SlotsQty(opp, R) < QuantityMod
  <2> DEFINE w == SlotList(opp, R)
             v == SlotList(opp, Levels)
  <2>1. /\ w \in Seq(Int) /\ Len(w) = MaxOrders /\ SlotsQty(opp, R) = TotalOf(w)
        /\ \A s \in Slots : w[s] = SlotQty(order[s], opp, R)
    BY SlotListProperties DEF IInv, SlotsInv
  <2>2. /\ v \in Seq(Int) /\ Len(v) = MaxOrders /\ SlotsQty(opp, Levels) = TotalOf(v)
        /\ \A s \in Slots : v[s] = SlotQty(order[s], opp, Levels) /\ v[s] \in Nat
    BY SlotListProperties DEF IInv, SlotsInv
  <2> HIDE DEF v, w
  <2>3. \A s \in Slots : SlotQty(order[s], opp, R) = SlotQty(order[s], opp, Levels)
                         \/ SlotQty(order[s], opp, R) = 0
    BY <1>1 DEF SlotQty
  <2>4. \A s \in 1 .. Len(w) : w[s] <= v[s]
    <3> TAKE s \in 1 .. Len(w)
    <3>1. s \in Slots
      BY <2>1 DEF Slots
    <3> QED BY <2>1, <2>2, <2>3, <3>1
  <2>5. TotalOf(w) <= TotalOf(v)
    BY <2>1, <2>2, <2>4, TotalIsMonotone
  <2>6. TotalOf(w) \in Int /\ TotalOf(v) \in Int
    BY <2>1, <2>2, TotalIsInt
  <2>7. TotalOf(v) < QuantityMod
    BY <1>1, <2>2 DEF SumsFit
  <2> QED BY <2>1, <2>5, <2>6, <2>7, ConfigAssumption
<1>5. PTB!Liquidity(req) = SlotsQty(opp, R)
  BY <1>1, LiquidityInSlots
<1> HIDE DEF opp, R
<1> QED BY <1>1, <1>3, <1>4, <1>5

\* A return is an answer.
LEMMA ReturnView ==
  ASSUME NEW status, NEW filled, NEW left, Return(status, filled, left)
  PROVE  PTB!Answer(status, filled, left)
<1>1. /\ pc' = "idle" /\ taker' = NoSubmission /\ remaining' = 0 /\ trade' = NoTrade
      /\ result' = [status |-> status, filled |-> filled, left |-> left]
  BY DEF Return
<1>2. Tape' = [resting |-> kInvalidOrderId]
  BY <1>1 DEF Tape
<1> QED BY <1>1, <1>2 DEF PTB!Answer, NoSubmission

\* What leaves the book alone leaves it alone.
LEMMA BookViewUnchanged ==
  ASSUME UNCHANGED bookVars
  PROVE  UNCHANGED <<RestingOrders, TimePriority>>
<1>1. order' = order /\ fifo' = fifo
  BY DEF bookVars
<1>2. LiveSlots' = LiveSlots
  BY <1>1 DEF LiveSlots
<1>3. \A id : SlotOf(id)' = SlotOf(id)
  BY <1>1, <1>2 DEF SlotOf
<1>4. RestingOrders' = RestingOrders
  BY <1>1, <1>2, <1>3 DEF RestingOrders
<1>5. TimePriority' = TimePriority
  BY <1>1 DEF TimePriority
<1> QED BY <1>4, <1>5

\* The checks of submit().
LEMMA EnterView ==
  ASSUME IInv, NoOrderLost, FokPreCheckExact, SumsFit, NEW req \in Submissions, Enter(req)
  PROVE  PTB!Consider(req)
<1>1. UNCHANGED <<RestingOrders, TimePriority>>
  BY BookViewUnchanged DEF Enter
<1>2. /\ req.qty \in Nat /\ req.price \in Prices /\ req.side \in Sides
      /\ req.id \in OrderIds \cup {kInvalidOrderId}
  BY SubmissionFields DEF Submissions
<1>3. PTB!IsMarket(req) <=> IsMarket(req)
  BY DEF PTB!IsMarket, IsMarket
<1>4. PTB!Valid(req) <=> ~BadInput(req)
  <2>1. PTB!Live = LiveIds
    BY RestingFields
  <2>2. req.qty > 0 <=> req.qty # 0
    BY <1>2
  <2> QED BY <1>2, <1>3, <2>1, <2>2 DEF PTB!Valid, BadInput, LiveIds
<1>5. ASSUME ~BadInput(req)
      PROVE  /\ Killed(req) => PTB!Killed(req) \/ (IsMarket(req) /\ req.tif = "PostOnly")
             /\ ~Killed(req) => ~PTB!Killed(req)
  <2>1. CanFullyFill(req.side, FokLimit(req), req.qty) <=> ~(PTB!Liquidity(req) < req.qty)
    BY <1>5, PreWalkView
  <2>2. ~IsMarket(req) => (WouldCross(req.side, req.price) <=> PTB!Tradable(req) # {})
    <3>1. ~IsMarket(req) => InRange(req.price)
      BY <1>5 DEF BadInput
    <3>2. PTB!Tradable(req) # {} <=> Reachable(req)
      BY <3>1, TradableWhenReachable
    <3> QED BY <3>2 DEF Reachable, WouldCross
  <2> QED BY <1>3, <2>1, <2>2 DEF Killed, PTB!Killed, FokLimit
<1>6. CASE BadInput(req) /\ Return("Rejected", 0, 0)
  BY <1>1, <1>4, <1>6, ReturnView DEF PTB!Consider
<1>7. CASE ~BadInput(req) /\ Killed(req) /\ Return("Cancelled", 0, req.qty)
  BY <1>1, <1>3, <1>4, <1>5, <1>7, ReturnView DEF PTB!Consider
<1>8. CASE /\ ~BadInput(req) /\ ~Killed(req)
           /\ pc' = (IF Aggressive(req) THEN "match" ELSE "finish")
           /\ taker' = req /\ remaining' = req.qty /\ trade' = NoTrade
           /\ UNCHANGED result
  <2>1. Tape' = [resting |-> kInvalidOrderId]
    BY <1>8 DEF Tape
  <2> QED BY <1>1, <1>4, <1>5, <1>8, <2>1 DEF PTB!Consider
<1> QED BY <1>6, <1>7, <1>8 DEF Enter

\* When the matching loop is over, nothing that is left may be traded.
LEMMA NothingLeftToTrade ==
  ASSUME IInv, NoOrderLost, PhaseInv, MatchOver, remaining # 0
  PROVE  PTB!MayTrade = {}
<1>1. pc \in {"match", "finish"}
  BY DEF MatchOver
<1>2. /\ taker \in Submissions /\ remaining \in Nat
      /\ ~IsMarket(taker) => InRange(taker.price)
  BY <1>1, RunningCall
<1>3. CASE taker.tif = "PostOnly"
  BY <1>3 DEF PTB!MayTrade
<1>4. CASE taker.tif # "PostOnly"
  <2>1. ~Reachable(taker)
    <3>1. CASE pc = "finish"
      BY <1>4, <3>1 DEF PhaseInv, WouldCross, Reachable
    <3>2. CASE pc = "match" /\ ~CanFill
      BY <1>2, <3>2 DEF CanFill, Reachable
    <3> QED BY <3>1, <3>2 DEF MatchOver
  <2>2. PTB!Tradable(taker) = {}
    BY <1>2, <2>1, TradableWhenReachable
  <2> QED BY <2>2 DEF PTB!MayTrade
<1> QED BY <1>3, <1>4

\* The head of the best level comes before every other order it could trade with.
LEMMA HeadPrecedes ==
  ASSUME IInv, NoOrderLost, NEW req \in Submissions, ~IsMarket(req) => InRange(req.price),
         NEW b, b = best[Opposite(req.side)], b # kNoBest,
         NEW s, s = Head(fifo[Opposite(req.side)][b])
  PROVE  \A other \in PTB!Tradable(req) : ~PTB!Precedes(other, order[s].id)
<1> DEFINE opp == Opposite(req.side)
           q   == fifo[opp][b]
           id  == order[s].id
<1>1. req.side \in Sides /\ opp \in Sides
  BY SubmissionFields, OppositeSide
<1>2. b \in Occupied(opp) /\ b \in Levels /\ \A l \in Occupied(opp) : ~Ahead(opp, l, b)
  BY <1>1 DEF IInv, LevelsInv, BestIsExtremal, Occupied
<1>3. q \in Seq(Slots) /\ IsInjective(q) /\ q # <<>>
  BY <1>1, <1>2 DEF IInv, LevelsInv, LevelsTypeOK, SlotsInv, BookIntegrity, SlotsUsedOnce,
                    Occupied
<1>4. s \in Range(q) /\ s = q[1] /\ DOMAIN q = 1 .. Len(q) /\ Len(q) \in Nat /\ 1 \in DOMAIN q
  <2> HIDE DEF q
  <2>1. s = Head(q)
    BY DEF q
  <2> QED BY <1>3, <2>1, TakeFromFront, HeadTailProperties, LenProperties, EmptySeq
<1>5. Rests(s) /\ order[s].side = opp /\ order[s].level = b
  BY <1>1, <1>2, <1>4, LinkedRests DEF IInv
<1>6. id \in LiveIds /\ MapFind(idMap, id) = s
  BY <1>5, OrderFields DEF Rests, LiveIds, Slots, nullptr
<1>7. RestingOrders[id].price = BasePrice + b
  <2>1. PICK x : x = id
    OBVIOUS
  <2>2. x \in LiveIds /\ MapFind(idMap, x) = s
    BY <1>6, <2>1
  <2>3. RestingOrders[x].price = BasePrice + order[s].level
    BY <2>2, RestingFields
  <2> QED BY <1>5, <2>1, <2>3
<1> SUFFICES ASSUME NEW other \in PTB!Tradable(req), PTB!Precedes(other, id) PROVE FALSE
  OBVIOUS
<1>8. PICK a : a = MapFind(idMap, other)
  OBVIOUS
<1>9. /\ other \in LiveIds /\ Rests(a) /\ order[a].id = other /\ order[a].side = opp
      /\ RestingOrders[other].side = opp
      /\ RestingOrders[other].price = BasePrice + order[a].level
  BY <1>8, TradableOrders, RestingFields
<1>10. PICK l \in Levels : l = order[a].level /\ l \in Occupied(opp)
  BY <1>9, RestsInOccupied DEF IInv, Occupied
<1>11. l \in Int /\ b \in Int /\ BasePrice \in Int
  BY <1>2, <1>10, ConfigAssumption DEF Levels
<1>12. CASE PTB!Better(opp, BasePrice + l, BasePrice + b)
  <2>1. Ahead(opp, l, b)
    BY <1>1, <1>11, <1>12 DEF PTB!Better, Ahead, Sides
  <2> QED BY <1>2, <1>10, <2>1
<1>13. CASE <<other, id>> \in TimePriority
  <2>1. PICK sd \in Sides, k \in Levels : \E x, y :
          Before(fifo[sd][k], x, y) /\ <<other, id>> = <<order[x].id, order[y].id>>
    BY <1>13, PriorityRead
  <2>2. PICK x, y : Before(fifo[sd][k], x, y) /\ id = order[y].id
    BY <2>1
  <2>3. Rests(y) /\ order[y].side = sd /\ order[y].level = k
    BY <2>1, <2>2, BeforeRests
  <2>4. y = s
    BY <1>6, <2>2, <2>3 DEF Rests
  <2>5. sd = opp /\ k = b
    BY <1>5, <2>3, <2>4
  <2>6. PICK i, j \in DOMAIN q : i < j /\ q[j] = s
    BY <2>2, <2>4, <2>5 DEF Before
  <2>7. j = 1
    BY <1>3, <1>4, <2>6 DEF IsInjective
  <2> QED BY <1>4, <2>6, <2>7
<1> QED BY <1>7, <1>9, <1>10, <1>12, <1>13 DEF PTB!Precedes

\* A fill is a trade with the order that comes first.
LEMMA FillView ==
  ASSUME IInv, NoOrderLost, PhaseInv, IInv', NoOrderLost', Fill
  PROVE  PTB!Trade
<1> DEFINE opp == Opposite(taker.side)
           b   == best[opp]
           q   == fifo[opp][b]
           s   == Head(q)
           n   == order[s].quantity
           id  == order[s].id
           qty == IF remaining < n THEN remaining ELSE n
<1>1. /\ pc = "match" /\ remaining > 0 /\ b # kNoBest /\ Reachable(taker)
      /\ q # <<>>
      /\ trade' = [resting |-> id, aggressor |-> taker.id, level |-> b,
                   quantity |-> qty, side |-> taker.side]
      /\ remaining' = remaining - qty
      /\ UNCHANGED <<pc, taker, result>>
  BY DEF Fill, CanFill, Reachable
<1>2. /\ taker \in Submissions /\ taker.side \in Sides /\ remaining \in Nat
      /\ ~IsMarket(taker) => InRange(taker.price)
  BY <1>1, RunningCall
<1>3. opp \in Sides /\ b \in Levels
  BY <1>1, <1>2, OppositeSide DEF IInv, LevelsInv, LevelsTypeOK
<1>4. s \in Range(q)
  <2>1. q \in Seq(Slots) /\ IsInjective(q)
    BY <1>3 DEF IInv, LevelsInv, LevelsTypeOK, SlotsInv, BookIntegrity, SlotsUsedOnce
  <2> HIDE DEF q
  <2> QED BY <1>1, <2>1, TakeFromFront
<1>5. Rests(s) /\ order[s].side = opp /\ order[s].level = b
  BY <1>3, <1>4, LinkedRests DEF IInv
<1>6. /\ s \in Slots /\ n \in Nat /\ n # 0 /\ id \in OrderIds /\ id \in LiveIds
      /\ MapFind(idMap, id) = s
  BY <1>5, OrderFields DEF Rests, LiveIds, Slots, nullptr
<1>7. RestingOrders[id].quantity = n /\ RestingOrders[id].price = BasePrice + b
  BY <1>5, <1>6, RestingFields
<1>8. PTB!MayTrade = PTB!Tradable(taker)
  BY <1>1 DEF PhaseInv, PTB!MayTrade
<1>9. id \in PTB!Tradable(taker)
  <2>1. b \in Within(taker.side, FokLimit(taker))
    BY <1>1, <1>3 DEF Reachable, Within, FokLimit
  <2> QED BY <1>2, <1>5, <1>6, <2>1, TradableOrders
<1>10. \A other \in PTB!Tradable(taker) : ~PTB!Precedes(other, id)
  BY <1>1, <1>2, HeadPrecedes
<1>11. Tape' = [resting |-> id, price |-> BasePrice + b, quantity |-> qty]
  <2> HIDE DEF qty
  <2>1. /\ trade'.resting = id /\ trade'.level = b /\ trade'.quantity = qty
    BY <1>1
  <2>2. trade' # NoTrade
    BY <1>6, <2>1, CallerAssumption DEF NoTrade
  <2> QED BY <2>1, <2>2 DEF Tape, IdxToPrice
<1>12. qty = n => PTB!Remove(id)
  <2> SUFFICES ASSUME qty = n PROVE PTB!Remove(id)
    OBVIOUS
  <2>1. RemoveOrder(s)
    BY <1>5 DEF Fill, RemoveOrder
  <2> HIDE DEF s
  <2>2. Removal(s)
    BY <1>5, <2>1 DEF Removal
  <2> QED BY <2>2, RemovalView
<1>13. qty # n => PTB!Shrink(id, n - qty)
  <2> SUFFICES ASSUME qty # n PROVE PTB!Shrink(id, n - qty)
    OBVIOUS
  <2>1. DecreaseOrder(s, qty)
    BY DEF Fill
  <2>2. qty < n /\ qty \in Nat
    <3> HIDE DEF n
    <3> QED BY <1>2, <1>6
  <2> HIDE DEF s, qty
  <2>3. Decrease(s, qty)
    BY <1>5, <2>1, <2>2 DEF Decrease
  <2> QED BY <2>2, <2>3, DecreaseView
<1>14. PICK m : m = RestingOrders[id].quantity
  OBVIOUS
<1>15. /\ qty = IF remaining < m THEN remaining ELSE m
       /\ qty = m => PTB!Remove(id)
       /\ qty # m => PTB!Shrink(id, m - qty)
  BY <1>7, <1>12, <1>13, <1>14
<1> HIDE DEF qty, id, b
<1> QED BY <1>1, <1>7, <1>8, <1>9, <1>10, <1>11, <1>14, <1>15 DEF PTB!Trade

\* The size of PriceTimeBook's set of live ids is the size of this one.
LEMMA LiveSize == PTB!Cardinality(PTB!Live) = Cardinality(PTB!Live)
BY DEF PTB!Cardinality, Cardinality

\* The matching loop is over when nothing is left, or nothing may be traded.
LEMMA OverView ==
  ASSUME IInv, NoOrderLost, PhaseInv, MatchOver
  PROVE  PTB!Done
<1>1. pc \in {"match", "finish"}
  BY DEF MatchOver
<1>2. remaining = 0 \/ PTB!MayTrade = {}
  BY NothingLeftToTrade
<1> QED BY <1>1, <1>2 DEF PTB!Done

\* A sink that throws was called with an order that may be traded.
LEMMA ThrowView ==
  ASSUME IInv, NoOrderLost, PhaseInv, SinkThrows
  PROVE  PTB!Throw
<1>1. pc = "match" /\ remaining > 0 /\ Reachable(taker)
  BY DEF SinkThrows, CanFill, Reachable
<1>2. taker \in Submissions /\ (~IsMarket(taker) => InRange(taker.price))
  BY <1>1, RunningCall
<1>3. PTB!Tradable(taker) # {}
  BY <1>1, <1>2, TradableWhenReachable
<1>4. PTB!MayTrade # {}
  BY <1>1, <1>3 DEF PhaseInv, PTB!MayTrade
<1>5. PTB!Answer("Threw", 0, 0)
  BY ReturnView DEF SinkThrows
<1>6. UNCHANGED <<RestingOrders, TimePriority>>
  BY BookViewUnchanged DEF SinkThrows
<1> QED BY <1>1, <1>4, <1>5, <1>6 DEF PTB!Throw

\* An order that was filled.
LEMMA FilledView ==
  ASSUME IInv, NoOrderLost, PhaseInv, ReturnFilled
  PROVE  PTB!Fulfil
<1>1. PTB!Done /\ remaining = 0
  BY OverView DEF ReturnFilled
<1>2. PTB!Answer("FullyFilled", taker.qty, 0)
  <2>1. Return("FullyFilled", taker.qty, 0)
    BY DEF ReturnFilled
  <2> QED BY <2>1, ReturnView
<1>3. UNCHANGED <<RestingOrders, TimePriority>>
  BY BookViewUnchanged DEF ReturnFilled
<1> QED BY <1>1, <1>2, <1>3 DEF PTB!Fulfil

\* What a call has filled, as the two sides test it.
LEMMA FilledOrNot ==
  ASSUME IInv, MatchOver
  PROVE  /\ taker.qty - remaining > 0 <=> remaining < taker.qty
         /\ taker.qty = remaining <=> ~(remaining < taker.qty)
         /\ remaining # 0 <=> remaining > 0
<1>1. pc \in {"match", "finish"}
  BY DEF MatchOver
<1>2. taker.qty \in Nat /\ remaining \in Nat /\ remaining <= taker.qty
  BY <1>1, RunningCall
<1>3. PICK n \in Nat : n = taker.qty
  BY <1>2
<1>4. /\ n - remaining > 0 <=> remaining < n
      /\ n = remaining <=> ~(remaining < n)
      /\ remaining # 0 <=> remaining > 0
  BY <1>2, <1>3
<1> QED BY <1>3, <1>4

\* A remainder that never rests: a fill-or-kill order has none.
LEMMA DropView ==
  ASSUME IInv, NoOrderLost, PhaseInv, FokAllOrNone, DropRemainder
  PROVE  PTB!Drop
<1>1. MatchOver /\ remaining # 0 /\ NeverRests(taker)
  BY DEF DropRemainder
<1>2. PTB!Done /\ remaining > 0
  BY <1>1, OverView, FilledOrNot
<1>3. taker.tif = "IOC" \/ (PTB!IsMarket(taker) /\ taker.tif # "FOK")
  BY <1>1 DEF NeverRests, FokAllOrNone, IsMarket, PTB!IsMarket
<1>4. PICK status, filled :
        /\ filled = taker.qty - remaining
        /\ status = IF filled > 0 THEN "PartiallyFilled" ELSE "Cancelled"
        /\ Return(status, filled, remaining)
  BY DEF DropRemainder
<1>5. status = IF remaining < taker.qty THEN "PartiallyFilled" ELSE "Cancelled"
  BY <1>1, <1>4, FilledOrNot
<1>6. PTB!Answer(status, filled, remaining)
  BY <1>4, ReturnView
<1>7. UNCHANGED <<RestingOrders, TimePriority>>
  BY BookViewUnchanged DEF DropRemainder
<1> QED BY <1>2, <1>3, <1>4, <1>5, <1>6, <1>7 DEF PTB!Drop

\* A remainder that must rest.
LEMMA RestingRemainder ==
  ASSUME IInv, NoOrderLost, PhaseInv, FokAllOrNone, Resting
  PROVE  PTB!MustRest
<1>1. MatchOver /\ remaining # 0 /\ ~NeverRests(taker)
  BY DEF Resting
<1>2. pc \in {"match", "finish"}
  BY <1>1 DEF MatchOver
<1>3. PTB!Done /\ remaining > 0
  BY <1>1, OverView, FilledOrNot
<1>4. taker \in Submissions
  BY <1>2, RunningCall
<1>5. taker.tif \in TimeInForce
  BY <1>4, CallerAssumption DEF Submissions, TimeInForce
<1>6. taker.tif # "IOC" /\ taker.tif # "FOK" /\ ~PTB!IsMarket(taker)
  BY <1>1 DEF NeverRests, FokAllOrNone, IsMarket, PTB!IsMarket
<1> QED BY <1>3, <1>5, <1>6 DEF PTB!MustRest, TimeInForce

\* It joins the back of its level.
LEMMA RestView ==
  ASSUME IInv, NoOrderLost, PhaseInv, FokAllOrNone, IInv', NoOrderLost', Rest
  PROVE  PTB!Rest
<1>1. /\ MatchOver /\ remaining # 0 /\ free # <<>>
      /\ InsertResting(taker.id, taker.side, PriceToIdx(taker.price), remaining)
  BY DEF Rest, Resting
<1>2. pc \in {"match", "finish"} /\ ~IsMarket(taker)
  BY <1>1 DEF MatchOver, Rest, Resting, NeverRests
<1>3. /\ taker.id \in OrderIds /\ MapFind(idMap, taker.id) = nullptr
      /\ taker.side \in Sides /\ taker.price \in Int /\ InRange(taker.price)
      /\ remaining \in Quantity \ {0}
  BY <1>1, <1>2, RunningCall
<1>4. PICK l : l = PriceToIdx(taker.price)
  OBVIOUS
<1>5. l \in Levels /\ BasePrice + l = taker.price
  BY <1>3, <1>4, ConfigAssumption DEF InRange, PriceToIdx, Levels
<1>6. PICK id, sd, n : id = taker.id /\ sd = taker.side /\ n = remaining
  OBVIOUS
<1>7. Arrival(id, sd, l, n) /\ id \in OrderIds
  BY <1>1, <1>3, <1>4, <1>5, <1>6 DEF Arrival
<1>8. /\ RestingOrders' =
           [x \in PTB!Live \cup {id} |->
              IF x = id THEN [side |-> sd, price |-> BasePrice + l, quantity |-> n]
              ELSE RestingOrders[x]]
      /\ TimePriority' = TimePriority \cup
           {<<x, id>> : x \in {y \in PTB!Live : /\ RestingOrders[y].side = sd
                                              /\ RestingOrders[y].price = BasePrice + l}}
  BY <1>7, ArrivalView
<1>9. PTB!MustRest
  BY RestingRemainder DEF Rest
<1>10. PTB!Cardinality(PTB!Live) < MaxOrders
  BY <1>1, LiveCount, LiveSize, RestingFields
<1>11. PICK status, filled :
         /\ filled = taker.qty - remaining
         /\ status = IF taker.qty = remaining THEN "Accepted" ELSE "PartiallyFilled"
         /\ Return(status, filled, remaining)
  BY DEF Rest
<1>12. status = IF remaining < taker.qty THEN "PartiallyFilled" ELSE "Accepted"
  BY <1>1, <1>11, FilledOrNot
<1>13. PTB!Answer(status, filled, remaining)
  BY <1>11, ReturnView
<1> QED BY <1>5, <1>6, <1>8, <1>9, <1>10, <1>11, <1>12, <1>13 DEF PTB!Rest

\* A slab with no slot left means a book that is full.
LEMMA AbortView ==
  ASSUME IInv, NoOrderLost, PhaseInv, FokAllOrNone, RoomInv, Abort
  PROVE  PTB!Abort
<1>1. MatchOver /\ remaining # 0 /\ free = <<>> /\ PTB!MustRest
  BY RestingRemainder DEF Abort, Resting
<1>2. remaining = taker.qty
  BY <1>1 DEF MatchOver, RoomInv
<1>3. PTB!Cardinality(PTB!Live) = MaxOrders
  BY <1>1, LiveCount, LiveSize, RestingFields
<1>4. UNCHANGED <<RestingOrders, TimePriority>>
  BY BookViewUnchanged DEF Abort
<1>5. pc' = "aborted" /\ UNCHANGED <<taker, remaining, trade, result>>
  BY DEF Abort
<1>6. Tape' = Tape
  BY <1>5 DEF Tape
<1> QED BY <1>1, <1>2, <1>3, <1>4, <1>5, <1>6 DEF PTB!Abort

\* What cancel(), reduce() and modify() know of an id.
LEMMA KnownId ==
  ASSUME IInv, NoOrderLost, NEW id \in OrderIds
  PROVE  /\ id \in PTB!Live <=> MapFind(idMap, id) # nullptr
         /\ MapFind(idMap, id) # nullptr =>
              /\ Rests(MapFind(idMap, id)) /\ order[MapFind(idMap, id)].id = id
              /\ order[MapFind(idMap, id)].quantity \in Nat
              /\ order[MapFind(idMap, id)].level \in Levels
              /\ order[MapFind(idMap, id)].side \in Sides
              /\ RestingOrders[id].side = order[MapFind(idMap, id)].side
              /\ RestingOrders[id].price = BasePrice + order[MapFind(idMap, id)].level
              /\ RestingOrders[id].quantity = order[MapFind(idMap, id)].quantity
<1>1. PTB!Live = LiveIds
  BY RestingFields
<1>2. id \in LiveIds <=> MapFind(idMap, id) # nullptr
  BY DEF LiveIds
<1>3. ASSUME id \in LiveIds
      PROVE  /\ Rests(MapFind(idMap, id)) /\ order[MapFind(idMap, id)].id = id
             /\ RestingOrders[id].side = order[MapFind(idMap, id)].side
             /\ RestingOrders[id].price = BasePrice + order[MapFind(idMap, id)].level
             /\ RestingOrders[id].quantity = order[MapFind(idMap, id)].quantity
  BY <1>3, RestingFields
<1>4. \A s : Rests(s) => /\ order[s].quantity \in Nat /\ order[s].level \in Levels
                         /\ order[s].side \in Sides
  BY OrderFields DEF Rests
<1> QED BY <1>1, <1>2, <1>3, <1>4

\* A call that answers without a change of the book.
LEMMA QuietView ==
  ASSUME NEW status, NEW filled, NEW left, Return(status, filled, left), UNCHANGED bookVars
  PROVE  PTB!Answer(status, filled, left) /\ UNCHANGED <<RestingOrders, TimePriority>>
BY ReturnView, BookViewUnchanged

\* cancel()
LEMMA CancelView ==
  ASSUME IInv, NoOrderLost, IInv', NoOrderLost', Cancel
  PROVE  PTB!Cancel
<1>1. PICK id \in OrderIds : CancelOne(id)
  BY DEF Cancel
<1>2. PICK s : s = MapFind(idMap, id)
  OBVIOUS
<1>3. \/ s = nullptr /\ Return("False", 0, 0) /\ UNCHANGED bookVars
      \/ s # nullptr /\ Return("True", 0, 0) /\ RemoveOrder(s)
  BY <1>1, <1>2 DEF CancelOne
<1>4. /\ id \in PTB!Live <=> s # nullptr
      /\ s # nullptr => Rests(s) /\ order[s].id = id
  BY <1>2, KnownId
<1>5. CASE s = nullptr /\ Return("False", 0, 0) /\ UNCHANGED bookVars
  <2>1. PTB!Answer("False", 0, 0) /\ UNCHANGED <<RestingOrders, TimePriority>>
    BY <1>5, QuietView
  <2> QED BY <1>4, <1>5, <2>1 DEF PTB!Cancel, Cancel
<1>6. CASE s # nullptr /\ Return("True", 0, 0) /\ RemoveOrder(s)
  <2>1. PTB!Answer("True", 0, 0)
    BY <1>6, ReturnView
  <2>2. Removal(s)
    BY <1>4, <1>6 DEF Removal
  <2>3. PTB!Remove(id)
    BY <1>4, <1>6, <2>2, RemovalView
  <2> QED BY <1>4, <1>6, <2>1, <2>3 DEF PTB!Cancel, Cancel
<1> QED BY <1>3, <1>5, <1>6

\* reduce()
LEMMA ReduceView ==
  ASSUME IInv, NoOrderLost, IInv', NoOrderLost', Reduce
  PROVE  PTB!Reduce
<1>1. PICK id \in OrderIds, by \in Quantities : ReduceOne(id, by)
  BY DEF Reduce
<1>2. PICK s, n : s = MapFind(idMap, id) /\ n = order[s].quantity
  OBVIOUS
<1>3. \/ s = nullptr /\ Return("False", 0, 0) /\ UNCHANGED bookVars
      \/ /\ s # nullptr /\ Return("True", 0, 0)
         /\ IF by >= n THEN RemoveOrder(s) ELSE DecreaseOrder(s, by)
  BY <1>1, <1>2 DEF ReduceOne
<1>4. /\ id \in PTB!Live <=> s # nullptr
      /\ s # nullptr => Rests(s) /\ order[s].id = id /\ n \in Nat
                        /\ RestingOrders[id].quantity = n
  BY <1>2, KnownId
<1>5. by \in Nat
  BY <1>1, ConfigAssumption, CallerAssumption DEF Quantity
<1>6. CASE s = nullptr /\ Return("False", 0, 0) /\ UNCHANGED bookVars
  <2>1. PTB!Answer("False", 0, 0) /\ UNCHANGED <<RestingOrders, TimePriority>>
    BY <1>6, QuietView
  <2> QED BY <1>1, <1>4, <1>6, <2>1 DEF PTB!Reduce, Reduce
<1>7. CASE s # nullptr /\ Return("True", 0, 0) /\ by >= n /\ RemoveOrder(s)
  <2>1. PTB!Answer("True", 0, 0)
    BY <1>7, ReturnView
  <2>2. Removal(s)
    BY <1>4, <1>7 DEF Removal
  <2>3. PTB!Remove(id)
    BY <1>4, <1>7, <2>2, RemovalView
  <2>4. ~(by < n)
    BY <1>4, <1>5, <1>7
  <2> QED BY <1>1, <1>4, <1>7, <2>1, <2>3, <2>4 DEF PTB!Reduce, Reduce
<1>8. CASE s # nullptr /\ Return("True", 0, 0) /\ ~(by >= n) /\ DecreaseOrder(s, by)
  <2>1. PTB!Answer("True", 0, 0)
    BY <1>8, ReturnView
  <2>2. by < n
    BY <1>4, <1>5, <1>8
  <2>3. Decrease(s, by)
    BY <1>2, <1>4, <1>8, <2>2 DEF Decrease
  <2>4. PTB!Shrink(id, n - by)
    BY <1>2, <1>4, <1>5, <1>8, <2>3, DecreaseView
  <2> QED BY <1>1, <1>4, <1>8, <2>1, <2>2, <2>4 DEF PTB!Reduce, Reduce
<1> QED BY <1>3, <1>6, <1>7, <1>8

\* modify()
LEMMA ModifyView ==
  ASSUME IInv, NoOrderLost, IInv', NoOrderLost', Modify
  PROVE  PTB!Modify
<1>1. PICK id \in OrderIds, qty \in Quantities, price \in Prices :
        LET s == MapFind(idMap, id)
        IN  \/ s = nullptr /\ Return("Rejected", 0, 0) /\ UNCHANGED bookVars
            \/ /\ s # nullptr /\ KeepsPriority(order[s], qty, price)
               /\ DecreaseOrder(s, order[s].quantity - qty)
               /\ Return("Accepted", 0, qty)
            \/ /\ s # nullptr /\ ~KeepsPriority(order[s], qty, price)
               /\ RemoveOrder(s)
               /\ pc'    = "resubmit"
               /\ taker' = [id |-> id, side |-> order[s].side, type |-> "Limit",
                            tif |-> "GTC", price |-> price, qty |-> qty]
               /\ trade' = NoTrade
               /\ UNCHANGED <<remaining, result>>
  BY DEF Modify
<1>2. PICK s, n : s = MapFind(idMap, id) /\ n = order[s].quantity
  OBVIOUS
<1>3. /\ pc = "idle"
      /\ \/ s = nullptr /\ Return("Rejected", 0, 0) /\ UNCHANGED bookVars
         \/ /\ s # nullptr /\ KeepsPriority(order[s], qty, price)
            /\ DecreaseOrder(s, n - qty)
            /\ Return("Accepted", 0, qty)
         \/ /\ s # nullptr /\ ~KeepsPriority(order[s], qty, price)
            /\ RemoveOrder(s)
            /\ pc'    = "resubmit"
            /\ taker' = [id |-> id, side |-> order[s].side, type |-> "Limit",
                         tif |-> "GTC", price |-> price, qty |-> qty]
            /\ trade' = NoTrade
            /\ UNCHANGED <<remaining, result>>
  BY <1>1, <1>2 DEF Modify
<1>4. /\ id \in PTB!Live <=> s # nullptr
      /\ s # nullptr => /\ Rests(s) /\ order[s].id = id /\ n \in Nat
                        /\ RestingOrders[id].quantity = n
                        /\ RestingOrders[id].side = order[s].side
                        /\ RestingOrders[id].price = BasePrice + order[s].level
  BY <1>2, KnownId
<1>5. qty \in Nat
  BY <1>1, ConfigAssumption, CallerAssumption DEF Quantity
<1>6. s # nullptr =>
        (KeepsPriority(order[s], qty, price)
           <=> price = RestingOrders[id].price /\ qty \in 1 .. RestingOrders[id].quantity)
  <2>1. s # nullptr => (qty \in 1 .. n <=> qty > 0 /\ qty <= n)
    BY <1>4, <1>5
  <2> QED BY <1>2, <1>4, <2>1 DEF KeepsPriority, IdxToPrice
<1>7. CASE s = nullptr /\ Return("Rejected", 0, 0) /\ UNCHANGED bookVars
  <2>1. PTB!Answer("Rejected", 0, 0) /\ UNCHANGED <<RestingOrders, TimePriority>>
    BY <1>7, QuietView
  <2> QED BY <1>1, <1>3, <1>4, <1>7, <2>1 DEF PTB!Modify
<1>8. CASE /\ s # nullptr /\ KeepsPriority(order[s], qty, price)
           /\ DecreaseOrder(s, n - qty)
           /\ Return("Accepted", 0, qty)
  <2>1. PTB!Answer("Accepted", 0, qty)
    BY <1>8, ReturnView
  <2>2. qty > 0 /\ qty <= n /\ n \in Nat
    BY <1>2, <1>4, <1>8 DEF KeepsPriority
  <2>3. PICK by \in Nat : by = n - qty /\ by < n /\ n - by = qty
    BY <1>5, <2>2
  <2>4. Decrease(s, by)
    BY <1>2, <1>4, <1>8, <2>3 DEF Decrease
  <2>5. PTB!Shrink(id, n - by)
    BY <1>2, <1>4, <1>8, <2>3, <2>4, DecreaseView
  <2>6. PTB!Shrink(id, qty)
    BY <2>3, <2>5
  <2> QED BY <1>1, <1>3, <1>4, <1>6, <1>8, <2>1, <2>6 DEF PTB!Modify
<1>9. CASE /\ s # nullptr /\ ~KeepsPriority(order[s], qty, price)
           /\ RemoveOrder(s)
           /\ pc'    = "resubmit"
           /\ taker' = [id |-> id, side |-> order[s].side, type |-> "Limit",
                        tif |-> "GTC", price |-> price, qty |-> qty]
           /\ trade' = NoTrade
           /\ UNCHANGED <<remaining, result>>
  <2>1. Removal(s)
    BY <1>4, <1>9 DEF Removal
  <2>2. PTB!Remove(id)
    BY <1>4, <1>9, <2>1, RemovalView
  <2>3. Tape' = [resting |-> kInvalidOrderId]
    BY <1>9 DEF Tape
  <2> QED BY <1>1, <1>3, <1>4, <1>6, <1>9, <2>2, <2>3 DEF PTB!Modify
<1> QED BY <1>3, <1>7, <1>8, <1>9

-----------------------------------------------------------------------------
(* The refinement.                                                         *)

\* Every call starts in the phase it needs.
LEMMA InitPhase == Init => PhaseInv
BY DEF Init, PhaseInv

\* Every step keeps it.
LEMMA NextKeepsPhase ==
  ASSUME PhaseInv, [Next]_vars
  PROVE  PhaseInv'
<1>1. ASSUME NEW status, NEW filled, NEW left, Return(status, filled, left)
      PROVE  PhaseInv'
  BY <1>1 DEF Return, PhaseInv
<1>2. ASSUME NEW req, Enter(req) PROVE PhaseInv'
  <2>1. CASE \E status, filled, left : Return(status, filled, left)
    BY <1>1, <2>1
  <2>2. CASE /\ pc' = (IF Aggressive(req) THEN "match" ELSE "finish")
             /\ taker' = req
    <3>1. WouldCross(req.side, req.price)' = WouldCross(req.side, req.price)
      BY <1>2 DEF Enter, bookVars, WouldCross
    <3> QED BY <2>2, <3>1 DEF PhaseInv, Aggressive, IsMarket
  <2> QED BY <1>2, <2>1, <2>2 DEF Enter
<1>3. CASE Submit \/ Resubmit
  BY <1>2, <1>3 DEF Submit, Resubmit
<1>4. CASE Cancel \/ Reduce
  BY <1>1, <1>4 DEF Cancel, Reduce, CancelOne, ReduceOne
<1>5. CASE Modify
  <2>1. pc' = "resubmit" \/ \E status, filled, left : Return(status, filled, left)
    BY <1>5 DEF Modify
  <2> QED BY <1>1, <2>1 DEF PhaseInv
<1>6. CASE Fill
  BY <1>6 DEF Fill, CanFill, PhaseInv
<1>7. CASE ReturnFilled \/ DropRemainder \/ Rest \/ SinkThrows
  BY <1>1, <1>7 DEF ReturnFilled, DropRemainder, Rest, SinkThrows
<1>8. CASE Abort
  BY <1>8 DEF Abort, PhaseInv
<1>9. CASE UNCHANGED vars
  BY <1>9 DEF vars, bookVars, callVars, PhaseInv, IsMarket, WouldCross
<1> QED BY <1>3, <1>4, <1>5, <1>6, <1>7, <1>8, <1>9 DEF Next, Continue

\* An empty book is an empty book.
LEMMA InitView == Init => PTB!Init
<1> SUFFICES ASSUME Init PROVE PTB!Init
  OBVIOUS
<1>1. LiveSlots = {}
  BY DEF Init, LiveSlots
<1>2. {order[s].id : s \in LiveSlots} = {}
  BY <1>1
<1>3. RestingOrders = [id \in {} |-> 0]
  BY <1>2 DEF RestingOrders
<1>4. TimePriority = {}
  <2>1. \A pair : pair \notin TimePriority
    <3> SUFFICES ASSUME NEW pair \in TimePriority PROVE FALSE
      OBVIOUS
    <3>1. PICK sd \in Sides, l \in Levels : pair \in PairsOf(fifo[sd][l], order)
      BY DEF TimePriority, PairsOf
    <3>2. fifo[sd][l] = <<>>
      BY <3>1 DEF Init
    <3>3. DOMAIN fifo[sd][l] = {}
      BY <3>2
    <3> QED BY <3>1, <3>3 DEF PairsOf
  <2> QED BY <2>1
<1>5. Tape = [resting |-> kInvalidOrderId]
  BY DEF Init, Tape
<1> QED BY <1>3, <1>4, <1>5 DEF Init, PTB!Init, NoSubmission

\* What PriceTimeBook is seen doing, and what the steps below rely on.
ViewInv == IInv /\ NoOrderLost /\ PhaseInv /\ RoomInv /\ FokAllOrNone /\ FokPreCheckExact

\* Every step is one of PriceTimeBook's, or is not seen there.
LEMMA NextView ==
  ASSUME ViewInv, ViewInv', SumsFit, [Next]_vars
  PROVE  [PTB!Next]_(PTB!vars)
<1>0. /\ IInv /\ NoOrderLost /\ PhaseInv /\ RoomInv /\ FokAllOrNone /\ FokPreCheckExact
      /\ IInv' /\ NoOrderLost'
  BY DEF ViewInv
<1>1. CASE Submit
  <2>1. PICK req \in Submissions : Enter(req)
    BY <1>1 DEF Submit
  <2>2. PTB!Consider(req)
    BY <1>0, <2>1, EnterView
  <2>3. req \in PTB!Requests
    BY <2>1 DEF Submissions, PTB!Requests, Sides
  <2>4. PTB!Submit
    BY <1>1, <2>2, <2>3 DEF Submit, PTB!Submit
  <2> QED BY <2>4 DEF PTB!Next
<1>2. CASE Resubmit
  <2>1. taker \in Submissions /\ Enter(taker) /\ pc = "resubmit"
    BY <1>0, <1>2 DEF Resubmit, IInv, CallInv
  <2>2. PTB!Consider(taker)
    BY <1>0, <2>1, EnterView
  <2>3. PTB!Resubmit
    BY <2>1, <2>2 DEF PTB!Resubmit
  <2> QED BY <2>3 DEF PTB!Next
<1>3. CASE Cancel
  BY <1>0, <1>3, CancelView DEF PTB!Next
<1>4. CASE Reduce
  BY <1>0, <1>4, ReduceView DEF PTB!Next
<1>5. CASE Modify
  BY <1>0, <1>5, ModifyView DEF PTB!Next
<1>6. CASE Fill
  BY <1>0, <1>6, FillView DEF PTB!Next
<1>7. CASE SinkThrows
  BY <1>0, <1>7, ThrowView DEF PTB!Next
<1>8. CASE ReturnFilled
  BY <1>0, <1>8, FilledView DEF PTB!Next
<1>9. CASE DropRemainder
  BY <1>0, <1>9, DropView DEF PTB!Next
<1>10. CASE Rest
  BY <1>0, <1>10, RestView DEF PTB!Next
<1>11. CASE Abort
  BY <1>0, <1>11, AbortView DEF PTB!Next
<1>12. CASE UNCHANGED vars
  <2>1. UNCHANGED <<RestingOrders, TimePriority>>
    BY <1>12, BookViewUnchanged DEF vars
  <2>2. UNCHANGED <<pc, taker, remaining, trade, result>>
    BY <1>12 DEF vars, callVars
  <2>3. Tape' = Tape
    BY <2>2 DEF Tape
  <2> QED BY <2>1, <2>2, <2>3 DEF PTB!vars
<1> QED BY <1>1, <1>2, <1>3, <1>4, <1>5, <1>6, <1>7, <1>8, <1>9, <1>10, <1>11, <1>12
        DEF Next, Continue

\* What the steps rely on holds all along.
LEMMA ViewInvariance == Spec => []ViewInv
<1>1. Init => PhaseInv /\ RoomInv
  BY InitPhase DEF Init, RoomInv
<1>2. Init => NoOrderLost
  BY OrderFields DEF Init, NoOrderLost
<1>3. IInv /\ IInv' /\ NoOrderLost /\ PhaseInv /\ RoomInv /\ [Next]_vars
        => NoOrderLost' /\ PhaseInv' /\ RoomInv'
  BY BookSteps, StepLosesNoOrder, NextKeepsPhase, NextKeepsRoom
<1>4. IInv /\ NoOrderLost /\ PhaseInv /\ RoomInv /\ FokAllOrNone /\ FokPreCheckExact => ViewInv
  BY DEF ViewInv
<1> QED BY <1>1, <1>2, <1>3, <1>4, Invariance, FokHolds, PreWalkExact, PTL DEF Spec

\* The engine implements the price-time-priority book, call by call and trade
\* by trade, as long as the quantities resting on a side add up to less than
\* 2^32: beyond that the sum of the FOK pre-walk wraps, and an order that the
\* book could fill may be refused.
THEOREM RefinesPriceTimeBook == Spec /\ []SumsFit => ImplementsPriceTimeBook
<1>1. Init => PTB!Init
  BY InitView
<1>2. ViewInv /\ ViewInv' /\ SumsFit /\ [Next]_vars => [PTB!Next]_(PTB!vars)
  BY NextView
<1> QED BY <1>1, <1>2, ViewInvariance, PTL DEF Spec, ImplementsPriceTimeBook, PTB!Spec

\* No order exceeds m, and so none on its way into the book does.
SizesFit(m) ==
  /\ Quantities \subseteq 0 .. m
  /\ \A s \in Slots : order[s] \in Orders => order[s].quantity <= m

\* An order's quantity only ever drops from what a caller passed.
LEMMA StepKeepsSizes ==
  ASSUME NEW m \in Nat, IInv, SizesFit(m), BookStep
  PROVE  SizesFit(m)'
<1>1. order \in [Slots -> Orders \cup {FreeSlot}]
  BY DEF IInv, SlotsInv, SlotsTypeOK
<1> SUFFICES ASSUME NEW x \in Slots, order'[x] \in Orders
             PROVE  order'[x].quantity <= m
  BY DEF SizesFit
<1>2. order'[x] # FreeSlot
  BY OrderFields
<1>3. CASE UNCHANGED bookVars
  BY <1>3 DEF bookVars, SizesFit
<1>4. ASSUME NEW s \in Slots, Removal(s) PROVE order'[x].quantity <= m
  <2>1. order' = [order EXCEPT ![s] = FreeSlot]
    BY <1>4 DEF Removal, RemoveOrder, Deallocate
  <2> QED BY <1>1, <1>2, <2>1 DEF SizesFit
<1>5. ASSUME NEW s \in Slots, NEW by \in Nat, Decrease(s, by)
      PROVE  order'[x].quantity <= m
  <2>1. order' = [order EXCEPT ![s].quantity = @ - by] /\ order[s] \in Orders
    BY <1>5 DEF Decrease, DecreaseOrder, Rests
  <2>2. CASE x # s
    BY <1>1, <2>1, <2>2 DEF SizesFit
  <2>3. CASE x = s
    <3>1. PICK n \in Nat : n = order[s].quantity /\ n <= m
      BY <2>1, OrderFields DEF SizesFit
    <3>2. order'[x].quantity = n - by
      BY <1>1, <2>1, <2>3, <3>1 DEF Orders
    <3> QED BY <3>1, <3>2
  <2> QED BY <2>2, <2>3
<1>6. ASSUME NEW id \in OrderIds, NEW side \in Sides, NEW l \in Levels,
             NEW qty \in Quantity \ {0}, taker \in Submissions, qty <= taker.qty,
             Arrival(id, side, l, qty)
      PROVE  order'[x].quantity <= m
  <2>1. order' = [order EXCEPT ![Head(free)] = [id |-> id, quantity |-> qty,
                                                level |-> l, side |-> side]]
    BY <1>6 DEF Arrival, InsertResting
  <2>2. PICK n \in Nat : n = taker.qty /\ n <= m
    <3>1. taker.qty \in Quantities
      BY <1>6 DEF Submissions
    <3>2. taker.qty \in 0 .. m
      BY <3>1 DEF SizesFit
    <3>3. taker.qty \in Nat /\ taker.qty <= m
      BY <3>2
    <3> QED BY <3>3
  <2>3. qty \in Nat /\ qty <= m
    BY <1>6, <2>2, ConfigAssumption DEF Quantity
  <2>4. CASE x # Head(free)
    BY <1>1, <2>1, <2>4 DEF SizesFit
  <2>5. CASE x = Head(free)
    BY <1>1, <2>1, <2>3, <2>5
  <2> QED BY <2>4, <2>5
<1> QED BY <1>3, <1>4, <1>5, <1>6 DEF BookStep

\* A full slab of the largest orders bounds every sum.
LEMMA SizesBoundSums ==
  ASSUME NEW m \in Nat, MaxOrders * m < QuantityMod, IInv, SizesFit(m)
  PROVE  SumsFit
<1> SUFFICES ASSUME NEW side \in Sides PROVE SlotsQty(side, Levels) < QuantityMod
  BY DEF SumsFit
<1> DEFINE w == SlotList(side, Levels)
<1>1. /\ w \in Seq(Int) /\ Len(w) = MaxOrders /\ SlotsQty(side, Levels) = TotalOf(w)
      /\ \A s \in Slots : w[s] = SlotQty(order[s], side, Levels)
  BY SlotListProperties DEF IInv, SlotsInv
<1> HIDE DEF w
<1>2. \A s \in 1 .. Len(w) : w[s] <= m
  <2> TAKE s \in 1 .. Len(w)
  <2>1. s \in Slots
    BY <1>1 DEF Slots
  <2>2. w[s] = SlotQty(order[s], side, Levels)
    BY <1>1, <2>1
  <2> QED BY <2>1, <2>2 DEF SlotQty, SizesFit
<1>3. TotalOf(w) <= MaxOrders * m /\ TotalOf(w) \in Int
  BY <1>1, <1>2, TotalAtMost, TotalIsInt
<1>4. PICK b \in Int : b = MaxOrders * m
  BY ConfigAssumption
<1> QED BY <1>1, <1>3, <1>4, ConfigAssumption

\* In particular, an engine whose capacity times the largest quantity a caller
\* passes is below 2^32 implements the price-time-priority book.
THEOREM SmallSizesRefine ==
  ASSUME NEW m \in Nat, Quantities \subseteq 0 .. m, MaxOrders * m < QuantityMod
  PROVE  Spec => ImplementsPriceTimeBook
<1>1. Init => SizesFit(m)
  BY OrderFields DEF Init, SizesFit
<1>2. IInv /\ SizesFit(m) /\ [Next]_vars => SizesFit(m)'
  BY BookSteps, StepKeepsSizes
<1>3. IInv /\ SizesFit(m) => SumsFit
  BY SizesBoundSums
<1> QED BY <1>1, <1>2, <1>3, Invariance, RefinesPriceTimeBook, PTL DEF Spec

=============================================================================
