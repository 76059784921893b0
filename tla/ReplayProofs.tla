----------------------------- MODULE ReplayProofs -----------------------------
(***************************************************************************)
(* Proofs about the replay, for any tape whose prices are whole ticks, any *)
(* window, and any id map that keeps the contract of DictionaryBook.       *)
(*                                                                         *)
(* The argument: at every step, the book shows the orders of one list of   *)
(* exchange orders (Mirror).  The list is `listed`, or, between the cancel *)
(* and the submit of a replace and while an order is on its way into the   *)
(* book, `listed` without its newest order (MirrorInv).  An order on its   *)
(* way in does not cross, since whatever it could cross is listed too.     *)
(***************************************************************************)
EXTENDS Replay, OrderBookProofs

\* Every price of the tape is a multiple of the tick.
WholeTicks == \A wire \in WirePrices : wire % itch_tick = 0

Listings == [ref: OrderIds, locate: Locates, side: Sides, price: WirePrices,
             shares: Quantity \ {0}, unseen: BOOLEAN]

\* The engine is to know the order o.
Tracked(o) == o.locate = Wanted /\ ~o.unseen

\* The engine has the order o, in its place and with its quantity.
Shown(o) ==
  LET s == MapFind(idMap, o.ref)
  IN  /\ s # nullptr
      /\ order[s].side = o.side
      /\ order[s].level = PriceToIdx(EnginePrice(o.price))
      /\ order[s].quantity = o.shares

\* x stands before y in the queue q; the reference x before y in the list L.
InOrder(q, x, y) == \E i, j \in DOMAIN q : i < j /\ q[i] = x /\ q[j] = y
Before(L, x, y)  == \E i, j \in DOMAIN L : i < j /\ L[i].ref = x /\ L[j].ref = y

\* The book shows the tracked orders of the list L, in their order, and no other.
Mirror(L) ==
  /\ \A i \in DOMAIN L : Tracked(L[i]) => Shown(L[i])
  /\ \A id \in OrderIds :
       MapFind(idMap, id) # nullptr => \E i \in DOMAIN L : Tracked(L[i]) /\ L[i].ref = id
  /\ \A side \in Sides, l \in Levels, x, y \in Slots :
       InOrder(fifo[side][l], x, y) => Before(L, order[x].id, order[y].id)

Distinct(L) == \A i, j \in DOMAIN L : L[i].ref = L[j].ref => i = j

\* R is L with `by` less shares in the order at k.
Lessened(L, k, by, R) ==
  /\ DOMAIN R = DOMAIN L
  /\ \A i \in DOMAIN L : R[i] = IF i = k THEN [L[k] EXCEPT !.shares = @ - by] ELSE L[i]

AddRequest(o) == Passive(o.ref, o.side, o.price, o.shares)

\* L may be what an exchange has on its books: its references are unique, the
\* book of each symbol is not crossed, and what the engine is to know is in its
\* window.
Lawful(L) ==
  /\ L \in Seq(Listings) /\ Distinct(L)
  /\ \A i \in DOMAIN L : ~L[i].unseen => InRange(EnginePrice(L[i].price))
  /\ \A i, j \in DOMAIN L :
       L[i].locate = L[j].locate /\ L[i].side = "Buy" /\ L[j].side = "Sell"
         => L[i].price < L[j].price

\* The exchange's promises, and what the handler has learnt of the symbol.
ExchangeInv ==
  /\ announced \subseteq Locates
  /\ target_locate = IF Wanted \in announced THEN Wanted ELSE 0
  /\ Lawful(listed) /\ Len(listed) <= MaxListed
  /\ \A i \in DOMAIN listed : listed[i].locate \in announced

\* The order o, newest of the list, is on its way into the book.
Entering(o) ==
  /\ o.locate = Wanted /\ o.shares \in Quantities
  /\ o.unseen <=> ~InRange(EnginePrice(o.price))
  /\ \/ pc = "idle" /\ replacement = AddRequest(o)
     \/ /\ pc = "finish" /\ replacement = NoSubmission
        /\ taker = AddRequest(o) /\ remaining = o.shares
        /\ ~o.unseen

MirrorInv ==
  \/ Settled /\ Mirror(listed)
  \/ \E L \in Seq(Listings), o \in Listings :
       listed = Append(L, o) /\ Mirror(L) /\ Entering(o)
  \/ pc = "aborted" /\ MaxListed > MaxOrders

ReplayInv == IInv /\ NoOrderLost /\ ExchangeInv /\ MirrorInv

-----------------------------------------------------------------------------
(* Queues and lists.                                                       *)

\* Unlinking an order leaves the others in their order ...
LEMMA UnlinkInOrder ==
  ASSUME NEW S, NEW q \in Seq(S), IsInjective(q), NEW s \in Range(q),
         NEW x, NEW y, InOrder(Unlink(q, s), x, y)
  PROVE  InOrder(q, x, y) /\ x # s /\ y # s
<1> DEFINE p == Position(q, s)
           r == RemoveAt(q, p)
<1>1. p \in 1 .. Len(q) /\ Len(q) \in Nat /\ DOMAIN q = 1 .. Len(q) /\ q[p] = s
  <2>1. \E i \in DOMAIN q : q[i] = s
    BY DEF Range
  <2>2. p \in DOMAIN q /\ q[p] = s
    BY <2>1 DEF Position
  <2> QED BY <2>2, LenProperties
<1> HIDE DEF p
<1>2. /\ r \in Seq(S) /\ Len(r) = Len(q) - 1
      /\ \A k \in 1 .. Len(q) - 1 : r[k] = IF k < p THEN q[k] ELSE q[k + 1]
  BY <1>1, RemoveAtProperties
<1>3. DOMAIN r = 1 .. Len(q) - 1
  BY <1>2, LenProperties
<1>4. r = Unlink(q, s)
  BY DEF Unlink, p
<1> HIDE DEF r
<1>5. PICK a \in 1 .. Len(q) - 1, b \in 1 .. Len(q) - 1 : a < b /\ r[a] = x /\ r[b] = y
  BY <1>3, <1>4 DEF InOrder
<1>6. PICK i \in 1 .. Len(q) : i = IF a < p THEN a ELSE a + 1
  BY <1>1
<1>7. PICK j \in 1 .. Len(q) : j = IF b < p THEN b ELSE b + 1
  BY <1>1
<1>8. q[i] = x /\ q[j] = y /\ i < j /\ i # p /\ j # p
  BY <1>1, <1>2, <1>5, <1>6, <1>7
<1>9. x # s /\ y # s
  BY <1>1, <1>8 DEF IsInjective
<1> QED BY <1>1, <1>8, <1>9 DEF InOrder

\* ... and one that joins at the back stands behind all of them.
LEMMA AppendInOrder ==
  ASSUME NEW S, NEW q \in Seq(S), NEW s \in S, NEW x, NEW y, InOrder(Append(q, s), x, y)
  PROVE  InOrder(q, x, y) \/ (x \in Range(q) /\ y = s)
<1>1. /\ Len(q) \in Nat /\ DOMAIN q = 1 .. Len(q)
      /\ DOMAIN Append(q, s) = 1 .. Len(q) + 1
      /\ \A k \in 1 .. Len(q) : Append(q, s)[k] = q[k]
      /\ Append(q, s)[Len(q) + 1] = s
  BY LenProperties
<1>2. PICK a \in 1 .. Len(q) + 1, b \in 1 .. Len(q) + 1 :
        a < b /\ Append(q, s)[a] = x /\ Append(q, s)[b] = y
  BY <1>1 DEF InOrder
<1>3. a \in 1 .. Len(q) /\ q[a] = x
  BY <1>1, <1>2
<1>4. CASE b = Len(q) + 1
  BY <1>1, <1>2, <1>3, <1>4 DEF Range
<1>5. CASE b # Len(q) + 1
  <2>1. b \in 1 .. Len(q) /\ q[b] = y
    BY <1>1, <1>2, <1>5
  <2> QED BY <1>1, <1>2, <1>3, <2>1 DEF InOrder
<1> QED BY <1>4, <1>5

\* What leaves the exchange's list takes nobody else along, or past another.
LEMMA RemoveFromList ==
  ASSUME NEW L \in Seq(Listings), NEW k \in DOMAIN L
  PROVE  LET R == RemoveAt(L, k)
         IN  /\ R \in Seq(Listings) /\ Len(R) = Len(L) - 1
             /\ \A j \in DOMAIN R : \E i \in DOMAIN L : i # k /\ R[j] = L[i]
             /\ \A i \in DOMAIN L : i # k => \E j \in DOMAIN R : R[j] = L[i]
             /\ \A x, y : Before(L, x, y) /\ x # L[k].ref /\ y # L[k].ref => Before(R, x, y)
             /\ Distinct(L) => Distinct(R)
<1> DEFINE R == RemoveAt(L, k)
           to(j) == IF j < k THEN j ELSE j + 1
           from(i) == IF i < k THEN i ELSE i - 1
<1>1. Len(L) \in Nat /\ DOMAIN L = 1 .. Len(L) /\ k \in 1 .. Len(L)
  BY LenProperties
<1>2. /\ R \in Seq(Listings) /\ Len(R) = Len(L) - 1
      /\ \A j \in 1 .. Len(L) - 1 : R[j] = IF j < k THEN L[j] ELSE L[j + 1]
  BY <1>1, RemoveAtProperties
<1>3. DOMAIN R = 1 .. Len(L) - 1
  BY <1>2, LenProperties
<1> HIDE DEF R
<1>4. \A j \in DOMAIN R : to(j) \in DOMAIN L /\ to(j) # k /\ R[j] = L[to(j)]
  BY <1>1, <1>2, <1>3
<1>5. \A i \in DOMAIN L : i # k => from(i) \in DOMAIN R /\ to(from(i)) = i
  BY <1>1, <1>3
<1>6. \A i, j \in DOMAIN L : i # k /\ j # k /\ i < j => from(i) < from(j)
  BY <1>1
<1>7. \A i, j \in DOMAIN R : to(i) = to(j) => i = j
  BY <1>1, <1>3
<1> HIDE DEF to, from
<1>8. \A i \in DOMAIN L : i # k => R[from(i)] = L[i]
  BY <1>4, <1>5
<1>9. ASSUME NEW x, NEW y, Before(L, x, y), x # L[k].ref, y # L[k].ref PROVE Before(R, x, y)
  <2>1. PICK i \in DOMAIN L, j \in DOMAIN L : i < j /\ L[i].ref = x /\ L[j].ref = y
    BY <1>9 DEF Before
  <2>2. i # k /\ j # k
    BY <1>9, <2>1
  <2> QED BY <1>5, <1>6, <1>8, <2>1, <2>2 DEF Before
<1>10. Distinct(L) => Distinct(R)
  BY <1>4, <1>7 DEF Distinct
<1> QED BY <1>2, <1>4, <1>5, <1>8, <1>9, <1>10 DEF R

\* What joins the list stands last in it.
LEMMA AppendToList ==
  ASSUME NEW L \in Seq(Listings), NEW o \in Listings
  PROVE  LET A == Append(L, o)
         IN  /\ A \in Seq(Listings) /\ Len(A) = Len(L) + 1 /\ DOMAIN A = 1 .. Len(L) + 1
             /\ DOMAIN L = 1 .. Len(L) /\ Len(L) \in Nat
             /\ \A i \in DOMAIN L : i \in DOMAIN A /\ A[i] = L[i]
             /\ A[Len(L) + 1] = o
             /\ \A i \in DOMAIN A : i = Len(L) + 1 \/ i \in DOMAIN L
             /\ \A x, y : Before(L, x, y) => Before(A, x, y)
             /\ \A i \in DOMAIN L : Before(A, L[i].ref, o.ref)
<1>1. /\ Append(L, o) \in Seq(Listings) /\ Len(Append(L, o)) = Len(L) + 1
      /\ Len(L) \in Nat /\ DOMAIN L = 1 .. Len(L)
      /\ DOMAIN Append(L, o) = 1 .. Len(L) + 1
      /\ \A k \in 1 .. Len(L) : Append(L, o)[k] = L[k]
      /\ Append(L, o)[Len(L) + 1] = o
  BY LenProperties
<1>2. \A i \in DOMAIN L : i \in DOMAIN Append(L, o) /\ i < Len(L) + 1
  BY <1>1
<1>3. Len(L) + 1 \in DOMAIN Append(L, o)
  BY <1>1
<1> QED BY <1>1, <1>2, <1>3 DEF Before

-----------------------------------------------------------------------------
(* The book shows the list, before and after each change of both.          *)

\* What rests in the book is a tracked order of the list.
LEMMA RestingIsListed ==
  ASSUME IInv, NEW L, Mirror(L), NEW x, Rests(x)
  PROVE  /\ order[x].id \in OrderIds /\ MapFind(idMap, order[x].id) = x /\ x # nullptr
         /\ \E i \in DOMAIN L : Tracked(L[i]) /\ L[i].ref = order[x].id
<1>1. order[x].id \in OrderIds /\ MapFind(idMap, order[x].id) = x
  BY OrderFields DEF Rests
<1>2. x # nullptr
  BY ConfigAssumption DEF Rests, Slots, nullptr
<1> QED BY <1>1, <1>2 DEF Mirror

\* So is what stands in a queue.
LEMMA QueuedIsListed ==
  ASSUME IInv, NEW L, Mirror(L), NEW side \in Sides, NEW l \in Levels,
         NEW x, NEW y, InOrder(fifo[side][l], x, y)
  PROVE  /\ x \in Slots /\ y \in Slots /\ Rests(x) /\ Rests(y)
         /\ \E i \in DOMAIN L : Tracked(L[i]) /\ L[i].ref = order[x].id
         /\ \E i \in DOMAIN L : Tracked(L[i]) /\ L[i].ref = order[y].id
<1>1. x \in Range(fifo[side][l]) /\ y \in Range(fifo[side][l])
  BY DEF InOrder, Range
<1>2. Rests(x) /\ Rests(y)
  BY <1>1, LinkedRests DEF IInv
<1> QED BY <1>2, RestingIsListed DEF Rests

\* A tracked order of the list is found, and an untracked one is not.
LEMMA FoundIfTracked ==
  ASSUME IInv, NEW L \in Seq(Listings), Distinct(L), Mirror(L), NEW k \in DOMAIN L
  PROVE  /\ L[k] \in Listings /\ L[k].ref \in OrderIds
         /\ Tracked(L[k]) <=> MapFind(idMap, L[k].ref) # nullptr
         /\ Tracked(L[k]) => /\ Rests(MapFind(idMap, L[k].ref))
                             /\ order[MapFind(idMap, L[k].ref)].id = L[k].ref
<1>1. L[k] \in Listings /\ L[k].ref \in OrderIds
  <2>1. L[k] \in Listings
    BY ElementOfSeq, LenProperties
  <2> QED BY <2>1 DEF Listings
<1>2. Tracked(L[k]) => MapFind(idMap, L[k].ref) # nullptr
  BY DEF Mirror, Shown
<1>3. MapFind(idMap, L[k].ref) # nullptr => Tracked(L[k])
  BY <1>1 DEF Mirror, Distinct
<1> QED BY <1>1, <1>2, <1>3, FoundRests DEF IInv

\* A step that leaves the book alone.
LEMMA MirrorUnchanged ==
  ASSUME NEW L, Mirror(L), UNCHANGED bookVars
  PROVE  Mirror(L)'
BY DEF bookVars, Mirror, Shown

\* An untracked order leaves the list ...
LEMMA UntrackedLeaves ==
  ASSUME IInv, NEW L \in Seq(Listings), Distinct(L), Mirror(L),
         NEW k \in DOMAIN L, ~Tracked(L[k])
  PROVE  Mirror(RemoveAt(L, k))
<1> DEFINE R == RemoveAt(L, k)
<1>1. /\ \A j \in DOMAIN R : \E i \in DOMAIN L : i # k /\ R[j] = L[i]
      /\ \A i \in DOMAIN L : i # k => \E j \in DOMAIN R : R[j] = L[i]
      /\ \A x, y : Before(L, x, y) /\ x # L[k].ref /\ y # L[k].ref => Before(R, x, y)
  BY RemoveFromList
<1> HIDE DEF R
<1>2. \A i \in DOMAIN L : Tracked(L[i]) => L[i].ref # L[k].ref /\ i # k
  BY DEF Distinct
<1>3. \A j \in DOMAIN R : Tracked(R[j]) => Shown(R[j])
  BY <1>1 DEF Mirror
<1>4. \A id \in OrderIds :
        MapFind(idMap, id) # nullptr => \E j \in DOMAIN R : Tracked(R[j]) /\ R[j].ref = id
  BY <1>1, <1>2 DEF Mirror
<1>5. ASSUME NEW side \in Sides, NEW l \in Levels, NEW x \in Slots, NEW y \in Slots,
             InOrder(fifo[side][l], x, y)
      PROVE  Before(R, order[x].id, order[y].id)
  <2>1. Before(L, order[x].id, order[y].id)
    BY <1>5 DEF Mirror
  <2>2. /\ \E i \in DOMAIN L : Tracked(L[i]) /\ L[i].ref = order[x].id
        /\ \E i \in DOMAIN L : Tracked(L[i]) /\ L[i].ref = order[y].id
    <3>1. Rests(x) /\ Rests(y)
      BY <1>5, QueuedIsListed
    <3> QED BY <3>1, RestingIsListed
  <2>3. order[x].id # L[k].ref /\ order[y].id # L[k].ref
    BY <1>2, <2>2
  <2> QED BY <1>1, <2>1, <2>3
<1> QED BY <1>3, <1>4, <1>5 DEF Mirror, R

\* ... joins it ...
LEMMA UntrackedJoins ==
  ASSUME NEW L \in Seq(Listings), Mirror(L), NEW o \in Listings, ~Tracked(o)
  PROVE  Mirror(Append(L, o))
<1> DEFINE A == Append(L, o)
<1>1. /\ \A i \in DOMAIN L : i \in DOMAIN A /\ A[i] = L[i]
      /\ A[Len(L) + 1] = o
      /\ \A i \in DOMAIN A : i = Len(L) + 1 \/ i \in DOMAIN L
      /\ \A x, y : Before(L, x, y) => Before(A, x, y)
  BY AppendToList
<1> HIDE DEF A
<1> QED BY <1>1 DEF Mirror, A

\* ... or gets smaller.
LEMMA UntrackedShrinks ==
  ASSUME NEW L \in Seq(Listings), Mirror(L), NEW k \in DOMAIN L, ~Tracked(L[k]),
         NEW R, DOMAIN R = DOMAIN L, \A i \in DOMAIN L : i # k => R[i] = L[i],
         R[k].ref = L[k].ref, ~Tracked(R[k])
  PROVE  Mirror(R)
<1>1. \A x, y : Before(L, x, y) => Before(R, x, y)
  <2>1. \A i \in DOMAIN L : R[i].ref = L[i].ref
    OBVIOUS
  <2> QED BY <2>1 DEF Before
<1>2. \A i \in DOMAIN L : Tracked(L[i]) => i # k /\ R[i] = L[i]
  OBVIOUS
<1> QED BY <1>1, <1>2 DEF Mirror

\* A tracked order leaves list and book.
LEMMA TrackedLeaves ==
  ASSUME IInv, NEW L \in Seq(Listings), Distinct(L), Mirror(L),
         NEW k \in DOMAIN L, Tracked(L[k]), RemoveOrder(MapFind(idMap, L[k].ref))
  PROVE  Mirror(RemoveAt(L, k))'
<1> DEFINE R == RemoveAt(L, k)
           s == MapFind(idMap, L[k].ref)
<1>1. /\ R \in Seq(Listings)
      /\ \A j \in DOMAIN R : \E i \in DOMAIN L : i # k /\ R[j] = L[i]
      /\ \A i \in DOMAIN L : i # k => \E j \in DOMAIN R : R[j] = L[i]
      /\ \A x, y : Before(L, x, y) /\ x # L[k].ref /\ y # L[k].ref => Before(R, x, y)
  BY RemoveFromList
<1> HIDE DEF R
<1>2. /\ L[k].ref \in OrderIds /\ Rests(s) /\ order[s].id = L[k].ref
      /\ RemoveOrder(s) /\ s \in Slots
  BY FoundIfTracked DEF Rests
<1> HIDE DEF s
<1>3. \A id \in OrderIds :
        MapFind(idMap', id) = IF id = L[k].ref THEN nullptr ELSE MapFind(idMap, id)
  BY <1>2, RemoveOrderKeeps DEF IInv
<1>4. \A x \in Slots : x # s => order'[x] = order[x]
  BY <1>2 DEF RemoveOrder, Deallocate, IInv, SlotsInv, SlotsTypeOK
<1>5. ASSUME NEW i \in DOMAIN L, i # k
      PROVE  L[i].ref \in OrderIds /\ L[i].ref # L[k].ref
  BY <1>5, FoundIfTracked DEF Distinct
<1>6. ASSUME NEW i \in DOMAIN L, i # k, Tracked(L[i]) PROVE Shown(L[i])'
  <2>1. MapFind(idMap', L[i].ref) = MapFind(idMap, L[i].ref)
    BY <1>3, <1>5, <1>6
  <2>2. /\ MapFind(idMap, L[i].ref) \in Slots /\ MapFind(idMap, L[i].ref) # s
        /\ Shown(L[i])
    BY <1>2, <1>5, <1>6, FoundIfTracked DEF Mirror, Rests
  <2> QED BY <1>4, <2>1, <2>2 DEF Shown
<1>7. \A j \in DOMAIN R : Tracked(R[j]) => Shown(R[j])'
  BY <1>1, <1>6 DEF Shown
<1>8. ASSUME NEW id \in OrderIds, MapFind(idMap', id) # nullptr
      PROVE  \E j \in DOMAIN R : Tracked(R[j]) /\ R[j].ref = id
  <2>1. id # L[k].ref /\ MapFind(idMap, id) # nullptr
    BY <1>3, <1>8
  <2>2. PICK i \in DOMAIN L : Tracked(L[i]) /\ L[i].ref = id
    BY <2>1 DEF Mirror
  <2> QED BY <1>1, <2>1, <2>2
<1>9. ASSUME NEW side \in Sides, NEW l \in Levels, NEW x \in Slots, NEW y \in Slots,
             InOrder(fifo'[side][l], x, y)
      PROVE  Before(R, order'[x].id, order'[y].id)
  <2> DEFINE sd == order[s].side
             h  == order[s].level
  <2>1. /\ fifo' = [fifo EXCEPT ![sd][h] = Unlink(fifo[sd][h], s)]
        /\ sd \in Sides /\ h \in Levels /\ s \in Range(fifo[sd][h])
    BY <1>2, OrderFields DEF RemoveOrder, ShrinkLevel, Rests
  <2>2. /\ fifo \in [Sides -> [Levels -> Seq(Slots)]]
        /\ \A z \in Sides, n \in Levels : fifo[z][n] \in Seq(Slots) /\ IsInjective(fifo[z][n])
    BY DEF IInv, LevelsInv, LevelsTypeOK, SlotsInv, BookIntegrity, SlotsUsedOnce
  <2> HIDE DEF sd, h
  <2>3. InOrder(fifo[side][l], x, y) /\ x # s /\ y # s
    <3>1. CASE side = sd /\ l = h
      <4>1. fifo'[side][l] = Unlink(fifo[side][l], s)
        BY <2>1, <2>2, <3>1
      <4> QED BY <1>9, <2>1, <2>2, <3>1, <4>1, UnlinkInOrder
    <3>2. CASE ~(side = sd /\ l = h)
      <4>1. fifo'[side][l] = fifo[side][l]
        BY <2>1, <2>2, <3>2
      <4>2. s \notin Range(fifo[side][l])
        BY <3>2, LinkedRests DEF IInv, sd, h
      <4> QED BY <1>9, <4>1, <4>2 DEF InOrder, Range
    <3> QED BY <3>1, <3>2
  <2>4. Before(L, order[x].id, order[y].id)
    BY <2>3 DEF Mirror
  <2>5. MapFind(idMap, order[x].id) = x /\ MapFind(idMap, order[y].id) = y
        /\ MapFind(idMap, order[s].id) = s
    BY <1>2, <2>3, QueuedIsListed DEF Rests
  <2>6. order[x].id # L[k].ref /\ order[y].id # L[k].ref
    BY <1>2, <2>3, <2>5
  <2> QED BY <1>1, <1>4, <2>3, <2>4, <2>6
<1> QED BY <1>7, <1>8, <1>9 DEF Mirror, R

\* A tracked order gets smaller, in list and book.
LEMMA TrackedShrinks ==
  ASSUME IInv, NEW L \in Seq(Listings), Distinct(L), Mirror(L),
         NEW k \in DOMAIN L, Tracked(L[k]), NEW by,
         DecreaseOrder(MapFind(idMap, L[k].ref), by),
         NEW R, Lessened(L, k, by, R)
  PROVE  Mirror(R)'
<1> DEFINE s == MapFind(idMap, L[k].ref)
<1>1. /\ L[k].ref \in OrderIds /\ Rests(s) /\ order[s].id = L[k].ref
      /\ s \in Slots /\ DecreaseOrder(s, by) /\ Shown(L[k])
  BY FoundIfTracked DEF Rests, Mirror
<1>0. /\ DOMAIN R = DOMAIN L /\ \A i \in DOMAIN L : i # k => R[i] = L[i]
      /\ R[k] = [L[k] EXCEPT !.shares = @ - by]
  BY DEF Lessened
<1>2. L[k] \in Listings /\ order[s] \in Orders
  BY <1>1, ElementOfSeq, LenProperties DEF Rests
<1>3. /\ idMap' = idMap
      /\ order' = [order EXCEPT ![s].quantity = order[s].quantity - by]
      /\ fifo' = [fifo EXCEPT ![order[s].side][order[s].level] = fifo[order[s].side][order[s].level]]
  BY <1>1 DEF DecreaseOrder, ShrinkLevel
<1>4. order[s].quantity = L[k].shares /\ order[s].side = L[k].side
      /\ order[s].level = PriceToIdx(EnginePrice(L[k].price)) /\ s # nullptr
  BY <1>1 DEF Shown
<1> HIDE DEF s
<1>5. fifo' = fifo
  <2>1. order[s].side \in Sides /\ order[s].level \in Levels
    BY <1>2, OrderFields
  <2> QED BY <1>3, <2>1 DEF IInv, LevelsInv, LevelsTypeOK
<1>6. /\ \A x \in Slots : x # s => order'[x] = order[x]
      /\ order'[s].id = order[s].id /\ order'[s].side = order[s].side
      /\ order'[s].level = order[s].level
      /\ order'[s].quantity = L[k].shares - by
  <2>1. order \in [Slots -> Orders \cup {FreeSlot}]
    BY DEF IInv, SlotsInv, SlotsTypeOK
  <2> QED BY <1>1, <1>2, <1>3, <1>4, <2>1 DEF Orders
<1>7. /\ R[k].ref = L[k].ref /\ R[k].side = L[k].side /\ R[k].price = L[k].price
      /\ R[k].locate = L[k].locate /\ R[k].unseen = L[k].unseen
      /\ R[k].shares = L[k].shares - by
  BY <1>0, <1>2 DEF Listings
<1>8. \A i \in DOMAIN L : R[i].ref = L[i].ref /\ (Tracked(R[i]) <=> Tracked(L[i]))
  BY <1>0, <1>7 DEF Tracked
<1>9. ASSUME NEW i \in DOMAIN R, Tracked(R[i]) PROVE Shown(R[i])'
  <2>1. CASE i = k
    <3>1. MapFind(idMap', R[k].ref) = s
      BY <1>3, <1>7 DEF s
    <3> QED BY <1>4, <1>6, <1>7, <2>1, <3>1 DEF Shown
  <2>2. CASE i # k
    <3> DEFINE z == MapFind(idMap, L[i].ref)
    <3>1. R[i] = L[i] /\ Tracked(L[i]) /\ Shown(L[i]) /\ i \in DOMAIN L
      BY <1>0, <1>9, <2>2 DEF Mirror
    <3>2. z \in Slots /\ order[z].id = L[i].ref
      BY <3>1, FoundIfTracked DEF Rests
    <3>3. z # s
      BY <1>1, <2>2, <3>1, <3>2 DEF Distinct
    <3>4. order'[z] = order[z]
      BY <1>6, <3>2, <3>3
    <3> QED BY <1>3, <3>1, <3>4 DEF Shown
  <2> QED BY <2>1, <2>2
<1>10. \A id \in OrderIds :
         MapFind(idMap', id) # nullptr => \E i \in DOMAIN R : Tracked(R[i]) /\ R[i].ref = id
  BY <1>0, <1>3, <1>8 DEF Mirror
<1>11. ASSUME NEW side \in Sides, NEW l \in Levels, NEW x \in Slots, NEW y \in Slots,
              InOrder(fifo'[side][l], x, y)
       PROVE  Before(R, order'[x].id, order'[y].id)
  <2>1. Before(L, order[x].id, order[y].id)
    BY <1>5, <1>11 DEF Mirror
  <2>2. order'[x].id = order[x].id /\ order'[y].id = order[y].id
    BY <1>6
  <2> QED BY <1>0, <1>8, <2>1, <2>2 DEF Before
<1> QED BY <1>9, <1>10, <1>11 DEF Mirror

\* A tracked order joins both.
LEMMA TrackedJoins ==
  ASSUME IInv, NEW L \in Seq(Listings), Mirror(L), NEW o \in Listings, Tracked(o),
         MapFind(idMap, o.ref) = nullptr, free # <<>>,
         PriceToIdx(EnginePrice(o.price)) \in Levels,
         InsertResting(o.ref, o.side, PriceToIdx(EnginePrice(o.price)), o.shares)
  PROVE  Mirror(Append(L, o))'
<1> DEFINE A == Append(L, o)
           s == Head(free)
           l == PriceToIdx(EnginePrice(o.price))
<1>1. /\ \A i \in DOMAIN L : i \in DOMAIN A /\ A[i] = L[i]
      /\ A[Len(L) + 1] = o /\ Len(L) + 1 \in DOMAIN A
      /\ \A i \in DOMAIN A : i = Len(L) + 1 \/ i \in DOMAIN L
      /\ \A x, y : Before(L, x, y) => Before(A, x, y)
      /\ \A i \in DOMAIN L : Before(A, L[i].ref, o.ref)
  BY AppendToList
<1> HIDE DEF A
<1>2. o.ref \in OrderIds /\ o.side \in Sides /\ l \in Levels
  BY DEF Listings
<1>3. s \in Slots /\ order[s] = FreeSlot /\ s # nullptr
  <2>1. free \in Seq(Slots) /\ IsInjective(free) /\ \A z \in Range(free) : order[z] = FreeSlot
    <3>1. free \in Seq(Slots)
      BY DEF IInv, SlotsInv, SlotsTypeOK
    <3>2. \A z \in Range(free) : z \in Slots
      BY <3>1, LenProperties DEF Range
    <3> QED BY <3>1, <3>2 DEF IInv, SlotsInv, BookIntegrity, SlotsUsedOnce
  <2>2. s \in Slots /\ s \in Range(free)
    BY <2>1, TakeFromFront
  <2> QED BY <2>1, <2>2 DEF Slots, nullptr
<1>4. /\ idMap' = MapInsert(idMap, o.ref, s)
      /\ order' = [order EXCEPT ![s] = [id |-> o.ref, quantity |-> o.shares,
                                        level |-> l, side |-> o.side]]
      /\ fifo' = [fifo EXCEPT ![o.side][l] = Append(fifo[o.side][l], s)]
  BY DEF InsertResting
<1> HIDE DEF s, l
<1>5. \A id \in OrderIds : MapFind(idMap', id) = IF id = o.ref THEN s ELSE MapFind(idMap, id)
  BY <1>2, <1>3, <1>4, FreeSlotInserted DEF IInv
<1>6. /\ \A x \in Slots : x # s => order'[x] = order[x]
      /\ order'[s].id = o.ref /\ order'[s].quantity = o.shares
      /\ order'[s].level = l /\ order'[s].side = o.side
  BY <1>3, <1>4 DEF IInv, SlotsInv, SlotsTypeOK
<1>7. Shown(o)'
  BY <1>2, <1>3, <1>5, <1>6 DEF Shown, l
<1>8. ASSUME NEW i \in DOMAIN L, Tracked(L[i]) PROVE Shown(L[i])'
  <2> DEFINE z == MapFind(idMap, L[i].ref)
  <2>1. L[i] \in Listings
    BY ElementOfSeq, LenProperties
  <2>2. Shown(L[i]) /\ L[i].ref \in OrderIds /\ z # nullptr
    BY <1>8, <2>1 DEF Mirror, Shown, Listings
  <2>3. z \in Slots /\ order[z] \in Orders
    BY <2>2, FoundRests DEF IInv, Rests
  <2>4. z # s /\ L[i].ref # o.ref
    BY <1>3, <2>2, <2>3, OrderFields
  <2>5. order'[z] = order[z] /\ MapFind(idMap', L[i].ref) = z
    BY <1>5, <1>6, <2>2, <2>3, <2>4
  <2> QED BY <2>2, <2>5 DEF Shown
<1>9. \A i \in DOMAIN A : Tracked(A[i]) => Shown(A[i])'
  BY <1>1, <1>7, <1>8
<1>10. \A id \in OrderIds :
         MapFind(idMap', id) # nullptr => \E i \in DOMAIN A : Tracked(A[i]) /\ A[i].ref = id
  BY <1>1, <1>5 DEF Mirror
<1>11. ASSUME NEW side \in Sides, NEW k \in Levels, NEW x \in Slots, NEW y \in Slots,
              InOrder(fifo'[side][k], x, y)
       PROVE  Before(A, order'[x].id, order'[y].id)
  <2>1. /\ fifo \in [Sides -> [Levels -> Seq(Slots)]]
        /\ s \notin Range(fifo[side][k])
    <3>1. \A z \in Range(fifo[side][k]) : order[z] \in Orders
      BY LinkedRests DEF IInv, Rests
    <3> QED BY <1>3, <3>1, OrderFields DEF IInv, LevelsInv, LevelsTypeOK
  <2>2. InOrder(fifo[side][k], x, y) \/ (x \in Range(fifo[side][k]) /\ y = s)
    <3>1. CASE side = o.side /\ k = l
      <4>1. fifo'[side][k] = Append(fifo[side][k], s) /\ fifo[side][k] \in Seq(Slots)
        BY <1>4, <2>1, <3>1
      <4> QED BY <1>3, <1>11, <4>1, AppendInOrder
    <3>2. CASE ~(side = o.side /\ k = l)
      <4>1. fifo'[side][k] = fifo[side][k]
        BY <1>2, <1>4, <2>1, <3>2
      <4> QED BY <1>11, <4>1
    <3> QED BY <3>1, <3>2
  <2>3. CASE InOrder(fifo[side][k], x, y)
    <3>1. x # s /\ y # s
      BY <2>1, <2>3 DEF InOrder, Range
    <3>2. Before(L, order[x].id, order[y].id)
      BY <2>3 DEF Mirror
    <3> QED BY <1>1, <1>6, <3>1, <3>2
  <2>4. CASE x \in Range(fifo[side][k]) /\ y = s
    <3>1. Rests(x) /\ x # s
      BY <2>1, <2>4, LinkedRests DEF IInv
    <3>2. PICK i \in DOMAIN L : Tracked(L[i]) /\ L[i].ref = order[x].id
      BY <3>1, RestingIsListed
    <3>3. order'[x].id = L[i].ref /\ order'[y].id = o.ref
      BY <1>6, <2>4, <3>1, <3>2
    <3> QED BY <1>1, <3>3
  <2> QED BY <2>2, <2>3, <2>4
<1> QED BY <1>9, <1>10, <1>11 DEF Mirror, A

-----------------------------------------------------------------------------
(* The exchange keeps its promises.                                        *)

\* Prices of the tape that differ differ in the engine too, in the same way.
LEMMA EnginePrices ==
  ASSUME WholeTicks, NEW a \in WirePrices, NEW b \in WirePrices
  PROVE  /\ EnginePrice(a) \in Nat /\ EnginePrice(b) \in Nat
         /\ a < b => EnginePrice(a) < EnginePrice(b)
<1>1. a \in Nat /\ b \in Nat /\ itch_tick \in Nat \ {0} /\ a % itch_tick = 0 /\ b % itch_tick = 0
  BY ReplayAssumption DEF WholeTicks
<1>2. \A n \in Nat \ {0}, w \in Nat : w = n * (w \div n) + (w % n) /\ w \div n \in Nat
  OBVIOUS
<1>3. PICK x \in Nat : x = EnginePrice(a) /\ a = itch_tick * x
  BY <1>1, <1>2 DEF EnginePrice
<1>4. PICK y \in Nat : y = EnginePrice(b) /\ b = itch_tick * y
  BY <1>1, <1>2 DEF EnginePrice
<1>5. ASSUME a < b PROVE x < y
  <2>1. y <= x => itch_tick * y <= itch_tick * x
    BY <1>1
  <2> QED BY <1>1, <1>3, <1>4, <1>5, <2>1
<1> QED BY <1>3, <1>4, <1>5

\* A lawful list stays so when an order leaves it ...
LEMMA LawfulRemoval ==
  ASSUME NEW L, Lawful(L), NEW k \in DOMAIN L
  PROVE  /\ Lawful(RemoveAt(L, k)) /\ Len(RemoveAt(L, k)) = Len(L) - 1
         /\ \A j \in DOMAIN RemoveAt(L, k) : \E i \in DOMAIN L : i # k /\ RemoveAt(L, k)[j] = L[i]
<1> DEFINE R == RemoveAt(L, k)
<1>1. /\ R \in Seq(Listings) /\ Len(R) = Len(L) - 1 /\ Distinct(R)
      /\ \A j \in DOMAIN R : \E i \in DOMAIN L : i # k /\ R[j] = L[i]
  BY RemoveFromList DEF Lawful
<1> HIDE DEF R
<1>2. \A j \in DOMAIN R : ~R[j].unseen => InRange(EnginePrice(R[j].price))
  BY <1>1 DEF Lawful
<1>3. \A i, j \in DOMAIN R :
        R[i].locate = R[j].locate /\ R[i].side = "Buy" /\ R[j].side = "Sell"
          => R[i].price < R[j].price
  <2> TAKE i \in DOMAIN R, j \in DOMAIN R
  <2>1. PICK x \in DOMAIN L : R[i] = L[x]
    BY <1>1
  <2>2. PICK y \in DOMAIN L : R[j] = L[y]
    BY <1>1
  <2> QED BY <2>1, <2>2 DEF Lawful
<1>4. Lawful(R)
  BY <1>1, <1>2, <1>3 DEF Lawful
<1> QED BY <1>1, <1>4 DEF R

\* ... when a new one that does not cross joins it ...
LEMMA LawfulArrival ==
  ASSUME NEW L, Lawful(L), NEW o \in Listings, Uncrossed(o, L),
         \A i \in DOMAIN L : L[i].ref # o.ref,
         ~o.unseen => InRange(EnginePrice(o.price))
  PROVE  Lawful(Append(L, o))
<1> DEFINE A == Append(L, o)
           n == Len(L) + 1
<1>1. /\ A \in Seq(Listings)
      /\ \A i \in DOMAIN L : A[i] = L[i]
      /\ A[n] = o
      /\ \A i \in DOMAIN A : i = n \/ i \in DOMAIN L
  BY AppendToList DEF Lawful
<1> HIDE DEF A, n
<1>2. Distinct(A)
  BY <1>1 DEF Distinct, Lawful
<1>3. \A i \in DOMAIN A : ~A[i].unseen => InRange(EnginePrice(A[i].price))
  BY <1>1 DEF Lawful
<1>4. ASSUME NEW i \in DOMAIN A, NEW j \in DOMAIN A,
             A[i].locate = A[j].locate, A[i].side = "Buy", A[j].side = "Sell"
      PROVE  A[i].price < A[j].price
  <2>1. \A x \in DOMAIN L : L[x] \in Listings
    BY ElementOfSeq, LenProperties DEF Lawful
  <2>2. A[i].price \in Nat /\ A[j].price \in Nat
    BY <1>1, <2>1, ReplayAssumption DEF Listings
  <2>3. CASE i \in DOMAIN L /\ j \in DOMAIN L
    BY <1>1, <1>4, <2>3 DEF Lawful
  <2>4. CASE i = n /\ j \in DOMAIN L
    BY <1>1, <1>4, <2>4 DEF Uncrossed
  <2>5. CASE i \in DOMAIN L /\ j = n
    BY <1>1, <1>4, <2>2, <2>5 DEF Uncrossed
  <2> QED BY <1>1, <1>4, <2>3, <2>4, <2>5
<1>5. Lawful(A)
  BY <1>1, <1>2, <1>3, <1>4 DEF Lawful
<1> QED BY <1>5 DEF A

\* ... or when one gets smaller.
LEMMA LawfulDecrease ==
  ASSUME NEW L, Lawful(L), NEW k \in DOMAIN L, NEW by \in Nat, by < L[k].shares
  PROVE  LET R == [L EXCEPT ![k].shares = @ - by]
         IN  /\ Lawful(R) /\ Len(R) = Len(L) /\ DOMAIN R = DOMAIN L
             /\ \A i \in DOMAIN L : i # k => R[i] = L[i]
             /\ R[k] = [L[k] EXCEPT !.shares = @ - by]
             /\ \A i \in DOMAIN L :
                  R[i].ref = L[i].ref /\ R[i].locate = L[i].locate /\ R[i].unseen = L[i].unseen
<1> DEFINE new == [L[k] EXCEPT !.shares = @ - by]
           R   == [L EXCEPT ![k] = new]
<1>1. L \in Seq(Listings) /\ L[k] \in Listings /\ Len(L) \in Nat /\ DOMAIN L = 1 .. Len(L)
  BY ElementOfSeq, LenProperties DEF Lawful
<1>2. /\ new.ref = L[k].ref /\ new.locate = L[k].locate /\ new.side = L[k].side
      /\ new.price = L[k].price /\ new.unseen = L[k].unseen
      /\ new.shares = L[k].shares - by
  BY <1>1 DEF Listings
<1>3. new \in Listings
  <2> DEFINE m == L[k].shares
  <2>1. m \in Quantity \ {0}
    BY <1>1 DEF Listings
  <2>2. m - by \in Quantity \ {0}
    <3>1. m \in Quantity \ {0} /\ by < m
      BY <2>1
    <3> HIDE DEF m
    <3> QED BY <3>1, ConfigAssumption DEF Quantity
  <2> QED BY <1>1, <2>2 DEF Listings
<1> HIDE DEF new
<1>4. R \in Seq(Listings) /\ Len(R) = Len(L) /\ DOMAIN R = DOMAIN L
  BY <1>1, <1>3, ExceptSeq
<1>5. \A i \in DOMAIN L : R[i] = IF i = k THEN new ELSE L[i]
  OBVIOUS
<1> HIDE DEF R
<1>6. \A i \in DOMAIN L :
        /\ R[i].ref = L[i].ref /\ R[i].locate = L[i].locate /\ R[i].side = L[i].side
        /\ R[i].price = L[i].price /\ R[i].unseen = L[i].unseen
  BY <1>2, <1>5
<1>7. Lawful(R)
  BY <1>4, <1>6 DEF Lawful, Distinct
<1>8. R = [L EXCEPT ![k].shares = @ - by]
  BY DEF R, new
<1> QED BY <1>4, <1>5, <1>6, <1>7, <1>8 DEF new

-----------------------------------------------------------------------------
(* An order on its way into the book.                                      *)

\* A submit of the replay, for an order the engine is to know, meets nothing it
\* could trade with, is not taken for bad input, and is to rest.
LEMMA EntersQuietly ==
  ASSUME WholeTicks, IInv, NEW L \in Seq(Listings), NEW o \in Listings, Mirror(L),
         Lawful(Append(L, o)), o.locate = Wanted, o.shares \in Quantities,
         ~o.unseen, InRange(EnginePrice(o.price))
  PROVE  LET req == AddRequest(o)
         IN  req \in Submissions /\ ~BadInput(req) /\ ~Killed(req) /\ ~Aggressive(req)
<1> DEFINE p   == EnginePrice(o.price)
           req == AddRequest(o)
           A   == Append(L, o)
           opp == Opposite(o.side)
           n   == Len(L) + 1
<1>1. /\ o.ref \in OrderIds /\ o.side \in Sides /\ o.price \in WirePrices
      /\ o.shares \in Quantity \ {0} /\ p \in Nat
  BY EnginePrices DEF Listings
<1>2. /\ req.id = o.ref /\ req.side = o.side /\ req.type = "Limit" /\ req.tif = "GTC"
      /\ req.price = p /\ req.qty = o.shares
  BY DEF AddRequest, Passive
<1>3. req \in Submissions
  <2>1. p \in Prices
    BY <1>1, ConfigAssumption DEF InRange, Prices
  <2> HIDE DEF p
  <2> QED BY <1>1, <2>1 DEF Submissions, AddRequest, Passive, p
<1> HIDE DEF req, p
<1>4. /\ \A i \in DOMAIN L : i \in DOMAIN A /\ A[i] = L[i] /\ i # n
      /\ n \in DOMAIN A /\ A[n] = o
  <2>1. /\ \A i \in DOMAIN L : i \in DOMAIN A /\ A[i] = L[i]
        /\ A[n] = o /\ DOMAIN A = 1 .. n /\ DOMAIN L = 1 .. Len(L) /\ Len(L) \in Nat
    BY AppendToList
  <2> HIDE DEF A
  <2> QED BY <2>1
<1> HIDE DEF A, n
<1>5. ~BadInput(req)
  <2>1. MapFind(idMap, o.ref) = nullptr
    <3> SUFFICES ASSUME MapFind(idMap, o.ref) # nullptr PROVE FALSE
      OBVIOUS
    <3>1. PICK i \in DOMAIN L : L[i].ref = o.ref
      BY <1>1 DEF Mirror
    <3> QED BY <1>4, <3>1 DEF Lawful, Distinct, A
  <2> QED BY <1>1, <1>2, <2>1, CallerAssumption DEF BadInput, p
<1>6. ~WouldCross(o.side, p)
  <2> SUFFICES ASSUME WouldCross(o.side, p) PROVE FALSE
    OBVIOUS
  <2> DEFINE b == best[opp]
  <2>1. opp \in Sides /\ b # kNoBest /\ Reaches(o.side, PriceToIdx(p), b)
    BY <1>1 DEF WouldCross, Opposite, Sides
  <2>2. b \in Levels /\ fifo[opp][b] # <<>> /\ fifo[opp][b] \in Seq(Slots)
    BY <2>1 DEF IInv, LevelsInv, LevelsTypeOK, BestIsExtremal, Occupied
  <2>3. PICK x \in Range(fifo[opp][b]) : TRUE
    <3>1. Len(fifo[opp][b]) \in Nat /\ Len(fifo[opp][b]) # 0
      BY <2>2, EmptySeq, LenProperties
    <3>2. 1 \in DOMAIN fifo[opp][b]
      BY <2>2, <3>1, LenProperties
    <3> QED BY <3>2 DEF Range
  <2>4. Rests(x) /\ order[x].side = opp /\ order[x].level = b
    BY <2>1, <2>2, LinkedRests DEF IInv
  <2>5. PICK i \in DOMAIN L : Tracked(L[i]) /\ L[i].ref = order[x].id
    BY <2>4, RestingIsListed
  <2>6. Shown(L[i]) /\ MapFind(idMap, L[i].ref) = x
    BY <2>4, <2>5, RestingIsListed DEF Mirror
  <2>7. L[i].side = opp /\ PriceToIdx(EnginePrice(L[i].price)) = b
    BY <2>4, <2>6 DEF Shown
  <2>8. L[i].price \in WirePrices
    <3>1. L[i] \in Listings
      BY ElementOfSeq, LenProperties
    <3> QED BY <3>1 DEF Listings
  <2>9. InRange(EnginePrice(L[i].price)) /\ L[i].locate = o.locate
    BY <1>4, <2>5 DEF Lawful, Tracked, A
  <2>10. PICK q \in Nat : q = EnginePrice(L[i].price)
    BY <2>8, EnginePrices
  <2>11. b = q - BasePrice /\ PriceToIdx(p) = p - BasePrice
    BY <1>1, <2>7, <2>9, <2>10, ConfigAssumption DEF PriceToIdx, InRange, p
  <2>12. CASE o.side = "Buy"
    <3>1. opp = "Sell"
      BY <2>12 DEF Opposite
    <3>2. o.price < L[i].price
      BY <1>4, <2>7, <2>9, <2>12, <3>1 DEF Lawful, A
    <3>3. p < q
      BY <1>1, <2>8, <2>10, <3>2, EnginePrices DEF p
    <3>4. b <= PriceToIdx(p)
      BY <2>1, <2>12 DEF Reaches
    <3> HIDE DEF b
    <3> QED BY <1>1, <2>11, <3>3, <3>4, ConfigAssumption
  <2>13. CASE o.side = "Sell"
    <3>1. opp = "Buy"
      BY <2>13 DEF Opposite
    <3>2. L[i].price < o.price
      BY <1>4, <2>7, <2>9, <2>13, <3>1 DEF Lawful, A
    <3>3. q < p
      BY <1>1, <2>8, <2>10, <3>2, EnginePrices DEF p
    <3>4. b >= PriceToIdx(p)
      BY <2>1, <2>13 DEF Reaches
    <3> HIDE DEF b
    <3> QED BY <1>1, <2>11, <3>3, <3>4, ConfigAssumption
  <2> QED BY <1>1, <2>12, <2>13 DEF Sides
<1>7. ~Killed(req) /\ ~Aggressive(req)
  BY <1>2, <1>6 DEF Killed, Aggressive, IsMarket
<1> QED BY <1>3, <1>5, <1>7 DEF req

\* A submit of the replay leaves the order on its way into the book, or, outside
\* the engine's window, behind.
LEMMA EntersOrStays ==
  ASSUME WholeTicks, ReplayInv, NEW L \in Seq(Listings), NEW o \in Listings, Mirror(L),
         Lawful(Append(L, o)), o.locate = Wanted, o.shares \in Quantities,
         o.unseen <=> ~InRange(EnginePrice(o.price)),
         Enter(AddRequest(o)), pc = "idle", replacement' = NoSubmission,
         listed' = Append(L, o)
  PROVE  IInv' /\ NoOrderLost' /\ MirrorInv'
<1> DEFINE req == AddRequest(o)
<1>1. UNCHANGED bookVars
  BY DEF Enter
<1>2. NoOrderLost' /\ Mirror(L)'
  BY <1>1, MirrorUnchanged DEF NoOrderLost, Rests, bookVars, ReplayInv
<1>3. CASE o.unseen
  <2>1. BadInput(req)
    BY <1>3 DEF BadInput, IsMarket, AddRequest, Passive
  <2>2. Return("Rejected", 0, 0)
    BY <2>1 DEF Enter
  <2>3. "Rejected" \in Statuses /\ 0 \in Quantity
    BY ConfigAssumption DEF Statuses, Quantity
  <2>4. IInv'
    BY <1>1, <2>2, <2>3, ReturnKeeps, BookUnchanged DEF IInv, ReplayInv
  <2>5. Settled'
    BY <2>2 DEF Settled, Return
  <2>6. Mirror(Append(L, o))
    BY <1>3, UntrackedJoins DEF Tracked
  <2>7. Mirror(listed)'
    BY <1>1, <2>6, MirrorUnchanged DEF Mirror, Shown, bookVars
  <2> QED BY <1>2, <2>4, <2>5, <2>7 DEF MirrorInv
<1>4. CASE ~o.unseen
  <2>1. req \in Submissions /\ ~BadInput(req) /\ ~Killed(req) /\ ~Aggressive(req)
    BY <1>4, EntersQuietly DEF ReplayInv
  <2>2. IInv'
    BY <2>1, EnterKeeps DEF ReplayInv
  <2>3. pc' = "finish" /\ taker' = req /\ remaining' = req.qty
    BY <2>1 DEF Enter
  <2>4. Entering(o)'
    BY <1>4, <2>3 DEF Entering, AddRequest, Passive
  <2> QED BY <1>2, <2>2, <2>4 DEF MirrorInv
<1> QED BY <1>3, <1>4

-----------------------------------------------------------------------------
(* The steps of the replay.                                                *)

\* The fields of an order the exchange lists.
LEMMA ListingFields ==
  ASSUME NEW ref \in OrderIds, NEW locate \in Locates, NEW side \in Sides,
         NEW wire \in WirePrices, NEW shares \in Quantities \ {0}, NEW unseen \in BOOLEAN
  PROVE  LET o == Listing(ref, locate, side, wire, shares, unseen)
         IN  /\ o \in Listings
             /\ o.ref = ref /\ o.locate = locate /\ o.side = side /\ o.price = wire
             /\ o.shares = shares /\ o.shares \in Quantities
             /\ o.unseen <=> unseen \/ ~InRange(EnginePrice(o.price))
<1> DEFINE u == unseen \/ ~InRange(EnginePrice(wire))
           o == [ref |-> ref, locate |-> locate, side |-> side, price |-> wire,
                 shares |-> shares, unseen |-> u]
<1>1. u \in BOOLEAN /\ shares \in Quantity \ {0}
  BY CallerAssumption
<1>2. Listing(ref, locate, side, wire, shares, unseen) = o
  BY DEF Listing
<1> HIDE DEF u
<1>3. o \in Listings
  BY <1>1 DEF Listings
<1>4. o.unseen = u
  OBVIOUS
<1>5. o.unseen <=> unseen \/ ~InRange(EnginePrice(wire))
  BY <1>4 DEF u
<1> QED BY <1>2, <1>3, <1>5

\* What holds before a message is read.
LEMMA BeforeMessage ==
  ASSUME ReplayInv, Settled
  PROVE  /\ Mirror(listed) /\ Lawful(listed) /\ pc = "idle" /\ replacement = NoSubmission
         /\ announced \subseteq Locates
         /\ \A locate \in announced : Filtered(locate) <=> locate # Wanted
<1>1. pc = "idle" /\ replacement = NoSubmission
  BY DEF Settled
<1>2. \A o \in Listings : ~Entering(o)
  <2> SUFFICES ASSUME NEW o \in Listings, Entering(o) PROVE FALSE
    OBVIOUS
  <2>1. AddRequest(o).id \in OrderIds /\ replacement = AddRequest(o)
    BY <1>1 DEF Entering, AddRequest, Passive, Listings
  <2> QED BY <1>1, <2>1, CallerAssumption DEF NoSubmission
<1>3. Mirror(listed)
  BY <1>1, <1>2 DEF ReplayInv, MirrorInv
<1> QED BY <1>1, <1>3, LocatesAssumption DEF ReplayInv, ExchangeInv, Filtered

\* What holds after one that leaves nothing to do.
LEMMA AfterMessage ==
  ASSUME NEW R, Mirror(R)', listed' = R, pc' = "idle", replacement' = NoSubmission
  PROVE  MirrorInv'
BY DEF MirrorInv, Settled, Mirror, Shown

\* Every order the exchange lists is of an announced symbol.
LEMMA ListedFields ==
  ASSUME ReplayInv, Settled, NEW k \in DOMAIN listed
  PROVE  /\ listed[k] \in Listings /\ listed[k].ref \in OrderIds
         /\ listed[k].shares \in Nat /\ listed[k].locate \in announced
         /\ Filtered(listed[k].locate) => ~Tracked(listed[k])
<1>1. listed[k] \in Listings
  BY ElementOfSeq, LenProperties DEF ReplayInv, ExchangeInv, Lawful
<1>2. listed[k].ref \in OrderIds /\ listed[k].shares \in Quantity \ {0}
  BY <1>1 DEF Listings
<1>3. listed[k].shares \in Nat
  BY <1>2, ConfigAssumption DEF Quantity
<1>4. listed[k].locate \in announced
  BY DEF ReplayInv, ExchangeInv
<1> QED BY <1>1, <1>2, <1>3, <1>4, BeforeMessage DEF Tracked

\* A message that leaves the book alone and settles.
LEMMA BookAlone ==
  ASSUME IInv, NoOrderLost, UNCHANGED vars
  PROVE  IInv' /\ NoOrderLost'
<1>1. UNCHANGED bookVars
  BY DEF vars
<1>2. NoOrderLost'
  BY <1>1 DEF NoOrderLost, Rests, bookVars
<1> QED BY <1>2, NextKeeps

\* cancel() and reduce(), as the replay calls them.
LEMMA CancelStep ==
  ASSUME ReplayInv, pc = "idle", NEW id \in OrderIds, CancelOne(id)
  PROVE  IInv' /\ NoOrderLost' /\ pc' = "idle"
<1>1. Cancel
  BY DEF Cancel
<1>2. IInv' /\ BookStep
  BY <1>1, NextKeeps, BookSteps DEF Next, ReplayInv
<1>3. pc' = "idle"
  BY DEF CancelOne, Return
<1> QED BY <1>2, <1>3, StepLosesNoOrder DEF ReplayInv

\* reduce() takes any quantity a message may carry.
LEMMA ReduceStep ==
  ASSUME ReplayInv, NEW id \in OrderIds, NEW by \in Nat, ReduceOne(id, by)
  PROVE  IInv' /\ NoOrderLost' /\ pc' = "idle"
<1> DEFINE s == MapFind(idMap, id)
<1>1. IInv'
  BY ReduceKeeps DEF ReplayInv
<1>2. pc' = "idle"
  BY DEF ReduceOne, Return
<1>3. BookStep
  <2>1. CASE UNCHANGED bookVars
    BY <2>1 DEF BookStep
  <2>2. ASSUME s # nullptr PROVE Rests(s) /\ s \in Slots /\ order[s].quantity \in Nat
    BY <2>2, FoundRests, OrderFields DEF ReplayInv, IInv, Rests
  <2>3. CASE s # nullptr /\ RemoveOrder(s)
    BY <2>2, <2>3 DEF BookStep, Removal
  <2>4. CASE s # nullptr /\ ~(by >= order[s].quantity) /\ DecreaseOrder(s, by)
    <3>1. Rests(s) /\ s \in Slots /\ order[s].quantity \in Nat /\ DecreaseOrder(s, by)
          /\ ~(by >= order[s].quantity)
      BY <2>2, <2>4
    <3> HIDE DEF s
    <3>2. by < order[s].quantity
      BY <3>1
    <3> QED BY <3>1, <3>2 DEF BookStep, Decrease
  <2> QED BY <2>1, <2>3, <2>4 DEF ReduceOne
<1> QED BY <1>1, <1>2, <1>3, StepLosesNoOrder DEF ReplayInv

\* A new order at the exchange.
LEMMA ListKeeps ==
  ASSUME WholeTicks, ReplayInv, ListOrder
  PROVE  ReplayInv'
<1>1. PICK ref \in Unused, locate \in announced, side \in Sides,
           wire \in WirePrices, shares \in Quantities \ {0} :
        LET o == Listing(ref, locate, side, wire, shares, FALSE)
        IN  Uncrossed(o, listed) /\ listed' = Append(listed, o) /\ OnAddOrder(o)
  BY DEF ListOrder
<1>2. Settled /\ Len(listed) < MaxListed /\ target_locate' = target_locate /\ announced' = announced
  BY DEF ListOrder
<1>3. /\ Mirror(listed) /\ Lawful(listed) /\ pc = "idle" /\ replacement = NoSubmission
      /\ locate \in Locates /\ (Filtered(locate) <=> locate # Wanted)
  BY <1>2, BeforeMessage
<1>4. PICK o \in Listings :
        /\ o = Listing(ref, locate, side, wire, shares, FALSE)
        /\ o.ref = ref /\ o.locate = locate /\ o.shares \in Quantities
        /\ (o.unseen <=> ~InRange(EnginePrice(o.price)))
  <2>1. ref \in OrderIds
    BY DEF Unused
  <2>2. PICK u \in BOOLEAN : u = FALSE
    OBVIOUS
  <2> DEFINE n == Listing(ref, locate, side, wire, shares, u)
  <2>3. /\ n \in Listings /\ n.ref = ref /\ n.locate = locate /\ n.shares \in Quantities
        /\ (n.unseen <=> u \/ ~InRange(EnginePrice(n.price)))
    BY <1>3, <2>1, ListingFields
  <2> HIDE DEF n
  <2> QED BY <2>2, <2>3 DEF n
<1>5. Uncrossed(o, listed) /\ listed' = Append(listed, o) /\ OnAddOrder(o)
  BY <1>1, <1>4
<1>6. PICK L \in Seq(Listings) : L = listed
  BY <1>3 DEF Lawful
<1>7. Lawful(Append(L, o))
  <2>1. \A i \in DOMAIN listed : listed[i].ref # o.ref
    BY <1>4 DEF Unused
  <2> QED BY <1>3, <1>4, <1>5, <1>6, <2>1, LawfulArrival
<1>8. listed' = Append(L, o) /\ Mirror(L) /\ Len(L) < MaxListed
      /\ \A i \in DOMAIN L : L[i].locate \in announced
  BY <1>2, <1>3, <1>5, <1>6 DEF ReplayInv, ExchangeInv
<1>9. ExchangeInv'
  <2>1. /\ Len(Append(L, o)) = Len(L) + 1 /\ Len(L) \in Nat
        /\ \A i \in DOMAIN Append(L, o) : Append(L, o)[i] = o \/ \E j \in DOMAIN L : Append(L, o)[i] = L[j]
    BY AppendToList
  <2>2. Len(Append(L, o)) <= MaxListed
    BY <1>8, <2>1, ReplayAssumption
  <2>3. \A i \in DOMAIN Append(L, o) : Append(L, o)[i].locate \in announced
    BY <1>4, <1>8, <2>1
  <2>4. Lawful(listed)'
    BY <1>7, <1>8 DEF Lawful, Distinct
  <2> QED BY <1>2, <1>8, <2>2, <2>3, <2>4 DEF ReplayInv, ExchangeInv
<1>10. CASE Filtered(locate)
  <2>1. UNCHANGED <<vars, replacement>>
    BY <1>4, <1>5, <1>10 DEF OnAddOrder, Dropped
  <2>2. ~Tracked(o)
    BY <1>3, <1>4, <1>10 DEF Tracked
  <2>3. Mirror(Append(L, o))'
    <3>1. Mirror(Append(L, o)) /\ UNCHANGED bookVars
      BY <1>8, <2>1, <2>2, UntrackedJoins DEF vars
    <3> QED BY <3>1, MirrorUnchanged
  <2>4. pc' = "idle" /\ replacement' = NoSubmission
    BY <1>3, <2>1 DEF vars, callVars
  <2>5. MirrorInv'
    BY <1>8, <2>3, <2>4, AfterMessage
  <2> QED BY <1>9, <2>1, <2>5, BookAlone DEF ReplayInv
<1>11. CASE ~Filtered(locate)
  <2>1. Enter(AddRequest(o)) /\ replacement' = NoSubmission /\ o.locate = Wanted
    BY <1>3, <1>4, <1>5, <1>11 DEF OnAddOrder, AddRequest
  <2>2. IInv' /\ NoOrderLost' /\ MirrorInv'
    BY <1>3, <1>4, <1>7, <1>8, <2>1, EntersOrStays
  <2> QED BY <1>9, <2>2 DEF ReplayInv
<1> QED BY <1>10, <1>11

\* A trade or a cancellation of a part, or of all that is left.
LEMMA DecreaseKeeps ==
  ASSUME ReplayInv, DecreaseListed
  PROVE  ReplayInv'
<1>1. PICK k \in DOMAIN listed : \E shares \in 1 .. listed[k].shares :
        /\ listed' = IF shares = listed[k].shares THEN RemoveAt(listed, k)
                     ELSE [listed EXCEPT ![k].shares = @ - shares]
        /\ OnDecrease(listed[k], shares)
  BY DEF DecreaseListed
<1>2. PICK shares \in 1 .. listed[k].shares :
        /\ listed' = IF shares = listed[k].shares THEN RemoveAt(listed, k)
                     ELSE [listed EXCEPT ![k].shares = @ - shares]
        /\ OnDecrease(listed[k], shares)
  BY <1>1
<1>3. Settled /\ target_locate' = target_locate /\ announced' = announced
  BY DEF DecreaseListed
<1>4. /\ Mirror(listed) /\ Lawful(listed) /\ pc = "idle" /\ replacement = NoSubmission
      /\ listed[k].ref \in OrderIds /\ listed[k].shares \in Nat
      /\ Filtered(listed[k].locate) => ~Tracked(listed[k])
  BY <1>3, BeforeMessage, ListedFields
<1>5. PICK L \in Seq(Listings) : L = listed
  BY <1>4 DEF Lawful
<1>6. PICK by \in Nat : by = shares
  BY <1>4
<1>7. /\ L[k].shares \in Nat /\ 1 <= by /\ by <= L[k].shares
      /\ k \in DOMAIN L /\ Mirror(L) /\ Lawful(L) /\ Distinct(L)
      /\ Len(L) <= MaxListed /\ \A i \in DOMAIN L : L[i].locate \in announced
  <2>1. shares \in 1 .. L[k].shares /\ L[k].shares \in Nat
    BY <1>4, <1>5
  <2> QED BY <1>4, <1>5, <1>6, <2>1 DEF Lawful, ReplayInv, ExchangeInv
<1> DEFINE Rest1 == RemoveAt(L, k)
           Less  == [L EXCEPT ![k].shares = @ - by]
<1>8. PICK R : R = IF by = L[k].shares THEN Rest1 ELSE Less
  OBVIOUS
<1>9. listed' = R
  BY <1>2, <1>5, <1>6, <1>8
<1>10. Lawful(R) /\ Len(R) <= MaxListed /\ \A i \in DOMAIN R : R[i].locate \in announced
  <2>1. CASE by = L[k].shares
    <3>1. /\ Lawful(Rest1) /\ Len(Rest1) = Len(L) - 1
          /\ \A j \in DOMAIN Rest1 : \E i \in DOMAIN L : Rest1[j] = L[i]
      BY <1>7, LawfulRemoval
    <3> HIDE DEF Rest1
    <3>2. Len(L) \in Nat /\ MaxListed \in Nat
      BY ReplayAssumption, LenProperties
    <3> QED BY <1>7, <1>8, <2>1, <3>1, <3>2
  <2>2. CASE by # L[k].shares
    <3>0. by < L[k].shares
      BY <1>7, <2>2
    <3>1. /\ Lawful(Less) /\ Len(Less) = Len(L) /\ DOMAIN Less = DOMAIN L
          /\ \A i \in DOMAIN L : Less[i].locate = L[i].locate
      BY <1>7, <3>0, LawfulDecrease
    <3> HIDE DEF Less
    <3> QED BY <1>7, <1>8, <2>2, <3>1
  <2> QED BY <2>1, <2>2
<1>11. ExchangeInv'
  <2>1. Lawful(listed)'
    BY <1>9, <1>10 DEF Lawful, Distinct
  <2> QED BY <1>3, <1>9, <1>10, <2>1 DEF ReplayInv, ExchangeInv
<1>12. ASSUME ~Tracked(L[k]) PROVE Mirror(R)
  <2>1. CASE by = L[k].shares
    BY <1>7, <1>8, <1>12, <2>1, UntrackedLeaves DEF ReplayInv
  <2>2. CASE by # L[k].shares
    <3>0. by < L[k].shares
      BY <1>7, <2>2
    <3>1. /\ DOMAIN Less = DOMAIN L
          /\ \A i \in DOMAIN L : i # k => Less[i] = L[i]
          /\ \A i \in DOMAIN L :
               Less[i].ref = L[i].ref /\ Less[i].locate = L[i].locate /\ Less[i].unseen = L[i].unseen
      BY <1>7, <3>0, LawfulDecrease
    <3>2. R = Less
      BY <1>8, <2>2
    <3> HIDE DEF Less
    <3>3. /\ DOMAIN R = DOMAIN L /\ \A i \in DOMAIN L : i # k => R[i] = L[i]
          /\ R[k].ref = L[k].ref /\ ~Tracked(R[k])
      BY <1>7, <1>12, <3>1, <3>2 DEF Tracked
    <3> QED BY <1>7, <1>12, <3>3, UntrackedShrinks
  <2> QED BY <2>1, <2>2
<1>13. CASE Filtered(L[k].locate)
  <2>1. UNCHANGED <<vars, replacement>> /\ ~Tracked(L[k])
    BY <1>2, <1>4, <1>5, <1>13 DEF OnDecrease, Dropped
  <2>2. Mirror(R)'
    BY <1>12, <2>1, MirrorUnchanged DEF vars
  <2>3. pc' = "idle" /\ replacement' = NoSubmission
    BY <1>4, <2>1 DEF vars, callVars
  <2> QED BY <1>9, <1>11, <2>1, <2>2, <2>3, AfterMessage, BookAlone DEF ReplayInv
<1>14. CASE ~Filtered(L[k].locate)
  <2> DEFINE s == MapFind(idMap, L[k].ref)
  <2>1. ReduceOne(L[k].ref, by) /\ replacement' = NoSubmission
    BY <1>2, <1>4, <1>5, <1>6, <1>14 DEF OnDecrease
  <2>2. IInv' /\ NoOrderLost' /\ pc' = "idle"
    BY <1>4, <1>5, <2>1, ReduceStep
  <2>3. Mirror(R)'
    <3>1. CASE ~Tracked(L[k])
      <4>1. s = nullptr
        BY <1>7, <3>1, FoundIfTracked DEF ReplayInv
      <4>2. UNCHANGED bookVars
        BY <2>1, <4>1 DEF ReduceOne
      <4> QED BY <1>12, <3>1, <4>2, MirrorUnchanged
    <3>2. CASE Tracked(L[k])
      <4>1. s # nullptr /\ order[s].quantity = L[k].shares
        BY <1>7, <3>2 DEF Mirror, Shown
      <4>2. CASE by = L[k].shares
        <5>1. RemoveOrder(s)
          BY <1>7, <2>1, <4>1, <4>2 DEF ReduceOne
        <5> QED BY <1>7, <1>8, <3>2, <4>2, <5>1, TrackedLeaves DEF ReplayInv
      <4>3. CASE by # L[k].shares
        <5>0. by < L[k].shares /\ ~(by >= L[k].shares)
          BY <1>7, <4>3
        <5>1. DecreaseOrder(s, by)
          BY <2>1, <4>1, <5>0 DEF ReduceOne
        <5>2. /\ DOMAIN Less = DOMAIN L /\ \A i \in DOMAIN L : i # k => Less[i] = L[i]
              /\ Less[k] = [L[k] EXCEPT !.shares = @ - by]
          BY <1>7, <5>0, LawfulDecrease
        <5>3. R = Less
          BY <1>8, <4>3
        <5> HIDE DEF Less
        <5>4. Lessened(L, k, by, R)
          BY <5>2, <5>3 DEF Lessened
        <5>5. IInv /\ DecreaseOrder(MapFind(idMap, L[k].ref), by)
          BY <5>1 DEF ReplayInv
        <5> QED BY <1>7, <3>2, <5>4, <5>5, TrackedShrinks
      <4> QED BY <4>2, <4>3
    <3> QED BY <3>1, <3>2
  <2> QED BY <1>9, <1>11, <2>1, <2>2, <2>3, AfterMessage DEF ReplayInv
<1> QED BY <1>13, <1>14

\* The end of an order.
LEMMA DeleteKeeps ==
  ASSUME ReplayInv, DeleteListed
  PROVE  ReplayInv'
<1>1. PICK k \in DOMAIN listed : listed' = RemoveAt(listed, k) /\ OnOrderDelete(listed[k])
  BY DEF DeleteListed
<1>2. Settled /\ target_locate' = target_locate /\ announced' = announced
  BY DEF DeleteListed
<1>3. /\ Mirror(listed) /\ Lawful(listed) /\ pc = "idle" /\ replacement = NoSubmission
      /\ listed[k].ref \in OrderIds
      /\ Filtered(listed[k].locate) => ~Tracked(listed[k])
  BY <1>2, BeforeMessage, ListedFields
<1>4. PICK L \in Seq(Listings) : L = listed
  BY <1>3 DEF Lawful
<1>5. /\ k \in DOMAIN L /\ Mirror(L) /\ Lawful(L) /\ Distinct(L)
      /\ Len(L) <= MaxListed /\ \A i \in DOMAIN L : L[i].locate \in announced
  BY <1>3, <1>4 DEF Lawful, ReplayInv, ExchangeInv
<1>6. PICK R : R = RemoveAt(L, k)
  OBVIOUS
<1>7. listed' = R
  BY <1>1, <1>4, <1>6
<1>8. ExchangeInv'
  <2>1. /\ Lawful(R) /\ Len(R) = Len(L) - 1
        /\ \A j \in DOMAIN R : \E i \in DOMAIN L : R[j] = L[i]
    BY <1>5, <1>6, LawfulRemoval
  <2>2. Len(L) \in Nat /\ MaxListed \in Nat
    BY ReplayAssumption, LenProperties
  <2>3. Lawful(listed)'
    BY <1>7, <2>1 DEF Lawful, Distinct
  <2> QED BY <1>2, <1>5, <1>7, <2>1, <2>2, <2>3 DEF ReplayInv, ExchangeInv
<1>9. ASSUME ~Tracked(L[k]) PROVE Mirror(R)
  BY <1>5, <1>6, <1>9, UntrackedLeaves DEF ReplayInv
<1>10. CASE Filtered(L[k].locate)
  <2>1. UNCHANGED <<vars, replacement>> /\ ~Tracked(L[k])
    BY <1>1, <1>3, <1>4, <1>10 DEF OnOrderDelete, Dropped
  <2>2. Mirror(R)'
    BY <1>9, <2>1, MirrorUnchanged DEF vars
  <2>3. pc' = "idle" /\ replacement' = NoSubmission
    BY <1>3, <2>1 DEF vars, callVars
  <2> QED BY <1>7, <1>8, <2>1, <2>2, <2>3, AfterMessage, BookAlone DEF ReplayInv
<1>11. CASE ~Filtered(L[k].locate)
  <2>1. CancelOne(L[k].ref) /\ replacement' = NoSubmission
    BY <1>1, <1>3, <1>4, <1>11 DEF OnOrderDelete
  <2>2. IInv' /\ NoOrderLost' /\ pc' = "idle"
    BY <1>3, <1>4, <2>1, CancelStep
  <2>3. Mirror(R)'
    <3>1. CASE ~Tracked(L[k])
      <4>1. MapFind(idMap, L[k].ref) = nullptr
        BY <1>5, <3>1, FoundIfTracked DEF ReplayInv
      <4>2. UNCHANGED bookVars
        BY <2>1, <4>1 DEF CancelOne
      <4> QED BY <1>9, <3>1, <4>2, MirrorUnchanged
    <3>2. CASE Tracked(L[k])
      <4>1. MapFind(idMap, L[k].ref) # nullptr
        BY <1>5, <3>2 DEF Mirror, Shown
      <4>2. RemoveOrder(MapFind(idMap, L[k].ref))
        BY <2>1, <4>1 DEF CancelOne
      <4> QED BY <1>5, <1>6, <3>2, <4>2, TrackedLeaves DEF ReplayInv
    <3> QED BY <3>1, <3>2
  <2> QED BY <1>7, <1>8, <2>1, <2>2, <2>3, AfterMessage DEF ReplayInv
<1> QED BY <1>10, <1>11

\* A replacement at the exchange, up to the call that submits it.
LEMMA ReplaceKeeps ==
  ASSUME ReplayInv, ReplaceListed
  PROVE  ReplayInv'
<1>1. PICK k \in DOMAIN listed, ref \in Unused, wire \in WirePrices, shares \in Quantities \ {0} :
        LET old == listed[k]
            new == Listing(ref, old.locate, old.side, wire, shares, old.unseen)
        IN  /\ Uncrossed(new, RemoveAt(listed, k))
            /\ listed' = Append(RemoveAt(listed, k), new)
            /\ OnOrderReplace(old, ref, wire, shares)
  BY DEF ReplaceListed
<1>2. Settled /\ target_locate' = target_locate /\ announced' = announced
  BY DEF ReplaceListed
<1>3. /\ Mirror(listed) /\ Lawful(listed) /\ pc = "idle" /\ replacement = NoSubmission
      /\ listed[k] \in Listings /\ listed[k].ref \in OrderIds /\ listed[k].locate \in announced
      /\ Filtered(listed[k].locate) => ~Tracked(listed[k])
  BY <1>2, BeforeMessage, ListedFields
<1>4. PICK L \in Seq(Listings) : L = listed
  BY <1>3 DEF Lawful
<1>5. /\ k \in DOMAIN L /\ Mirror(L) /\ Lawful(L) /\ Distinct(L)
      /\ Len(L) <= MaxListed /\ \A i \in DOMAIN L : L[i].locate \in announced
  BY <1>3, <1>4 DEF Lawful, ReplayInv, ExchangeInv
<1>6. PICK R : R = RemoveAt(L, k)
  OBVIOUS
<1>7. PICK old \in Listings : old = L[k]
  BY <1>3, <1>4
<1>8. PICK o \in Listings :
        /\ o = Listing(ref, old.locate, old.side, wire, shares, old.unseen)
        /\ o.ref = ref /\ o.locate = old.locate /\ o.side = old.side /\ o.price = wire
        /\ o.shares = shares /\ o.shares \in Quantities
        /\ (o.unseen <=> old.unseen \/ ~InRange(EnginePrice(o.price)))
  <2>1. ref \in OrderIds /\ old.locate \in Locates /\ old.side \in Sides /\ old.unseen \in BOOLEAN
    BY DEF Unused, Listings
  <2> DEFINE n == Listing(ref, old.locate, old.side, wire, shares, old.unseen)
  <2>2. /\ n \in Listings
        /\ n.ref = ref /\ n.locate = old.locate /\ n.side = old.side /\ n.price = wire
        /\ n.shares = shares /\ n.shares \in Quantities
        /\ (n.unseen <=> old.unseen \/ ~InRange(EnginePrice(n.price)))
    BY <2>1, ListingFields
  <2> HIDE DEF n
  <2> QED BY <2>2 DEF n
<1>9. Uncrossed(o, R) /\ listed' = Append(R, o) /\ OnOrderReplace(old, ref, wire, shares)
  BY <1>1, <1>4, <1>6, <1>7, <1>8
<1>10. /\ Lawful(R) /\ R \in Seq(Listings) /\ Len(R) = Len(L) - 1
       /\ \A j \in DOMAIN R : \E i \in DOMAIN L : R[j] = L[i]
  <2>1. /\ Lawful(R) /\ Len(R) = Len(L) - 1
        /\ \A j \in DOMAIN R : \E i \in DOMAIN L : R[j] = L[i]
    BY <1>5, <1>6, LawfulRemoval
  <2> QED BY <2>1 DEF Lawful
<1>11. Lawful(Append(R, o))
  <2>1. \A i \in DOMAIN L : L[i].ref # o.ref
    BY <1>4, <1>8 DEF Unused
  <2>2. \A j \in DOMAIN R : R[j].ref # o.ref
    BY <1>10, <2>1
  <2> QED BY <1>8, <1>9, <1>10, <2>2, LawfulArrival
<1>12. ExchangeInv'
  <2>1. /\ Len(Append(R, o)) = Len(R) + 1 /\ Len(L) \in Nat
        /\ \A i \in DOMAIN Append(R, o) : Append(R, o)[i] = o \/ \E j \in DOMAIN R : Append(R, o)[i] = R[j]
    <3>1. /\ Len(Append(R, o)) = Len(R) + 1
          /\ \A i \in DOMAIN Append(R, o) : Append(R, o)[i] = o \/ \E j \in DOMAIN R : Append(R, o)[i] = R[j]
      BY <1>10, AppendToList
    <3> QED BY <3>1, LenProperties
  <2>2. Len(Append(R, o)) <= MaxListed
    BY <1>5, <1>10, <2>1, ReplayAssumption
  <2>3. \A i \in DOMAIN Append(R, o) : Append(R, o)[i].locate \in announced
    BY <1>5, <1>7, <1>8, <1>10, <2>1
  <2>4. Lawful(listed)'
    BY <1>9, <1>11 DEF Lawful, Distinct
  <2> QED BY <1>2, <1>9, <2>2, <2>3, <2>4 DEF ReplayInv, ExchangeInv
<1>13. Tracked(old) <=> MapFind(idMap, old.ref) # nullptr
  BY <1>5, <1>7, FoundIfTracked DEF ReplayInv
<1>14. CASE ~Tracked(old)
  <2>1. UNCHANGED <<vars, replacement>>
    BY <1>9, <1>13, <1>14 DEF OnOrderReplace, Dropped
  <2>2. Mirror(R)
    BY <1>5, <1>6, <1>7, <1>14, UntrackedLeaves DEF ReplayInv
  <2>3. ~Tracked(o)
    BY <1>8, <1>14 DEF Tracked
  <2>4. Mirror(Append(R, o))'
    <3>1. Mirror(Append(R, o)) /\ UNCHANGED bookVars
      BY <1>10, <2>1, <2>2, <2>3, UntrackedJoins DEF vars
    <3> QED BY <3>1, MirrorUnchanged
  <2>5. pc' = "idle" /\ replacement' = NoSubmission
    BY <1>3, <2>1 DEF vars, callVars
  <2>6. MirrorInv'
    BY <1>9, <2>4, <2>5, AfterMessage
  <2> QED BY <1>12, <2>1, <2>6, BookAlone DEF ReplayInv
<1>15. CASE Tracked(old)
  <2> DEFINE s == MapFind(idMap, old.ref)
  <2>1. s # nullptr /\ order[s].side = old.side /\ ~Filtered(old.locate)
    BY <1>3, <1>4, <1>5, <1>7, <1>15 DEF Mirror, Shown
  <2>2. CancelOne(old.ref) /\ replacement' = Passive(ref, order[s].side, wire, shares)
    BY <1>9, <2>1 DEF OnOrderReplace
  <2>3. IInv' /\ NoOrderLost' /\ pc' = "idle"
    <3>1. old.ref \in OrderIds
      BY DEF Listings
    <3> QED BY <1>3, <2>2, <3>1, CancelStep
  <2>4. Mirror(R)'
    <3>1. RemoveOrder(MapFind(idMap, L[k].ref)) /\ Tracked(L[k])
      BY <1>7, <1>15, <2>1, <2>2 DEF CancelOne
    <3> QED BY <1>5, <1>6, <3>1, TrackedLeaves DEF ReplayInv
  <2>5. replacement' = AddRequest(o)
    BY <1>8, <2>1, <2>2 DEF AddRequest
  <2>6. Entering(o)'
    BY <1>8, <1>15, <2>3, <2>5 DEF Entering, AddRequest, Tracked
  <2>7. MirrorInv'
    BY <1>9, <1>10, <2>4, <2>6 DEF MirrorInv
  <2> QED BY <1>12, <2>3, <2>7 DEF ReplayInv
<1> QED BY <1>14, <1>15

\* The second half of a replace.
LEMMA SubmitKeeps ==
  ASSUME WholeTicks, ReplayInv, SubmitReplacement
  PROVE  ReplayInv'
<1>1. /\ pc = "idle" /\ replacement # NoSubmission /\ Enter(replacement)
      /\ replacement' = NoSubmission
      /\ UNCHANGED <<target_locate, announced, listed>>
  BY DEF SubmitReplacement, tapeVars
<1>2. ExchangeInv'
  BY <1>1 DEF ReplayInv, ExchangeInv, Lawful, Distinct
<1>3. PICK L \in Seq(Listings), o \in Listings :
        listed = Append(L, o) /\ Mirror(L) /\ Entering(o)
  BY <1>1 DEF ReplayInv, MirrorInv, Settled
<1>4. /\ o.locate = Wanted /\ o.shares \in Quantities
      /\ o.unseen <=> ~InRange(EnginePrice(o.price))
      /\ Enter(AddRequest(o)) /\ Lawful(Append(L, o)) /\ listed' = Append(L, o)
  BY <1>1, <1>3 DEF Entering, ReplayInv, ExchangeInv
<1>5. IInv' /\ NoOrderLost' /\ MirrorInv'
  BY <1>1, <1>3, <1>4, EntersOrStays
<1> QED BY <1>2, <1>5 DEF ReplayInv

\* The directory message of a symbol.
LEMMA AnnounceKeeps ==
  ASSUME ReplayInv, AnnounceSymbol
  PROVE  ReplayInv'
<1>1. PICK locate \in Locates \ announced :
        announced' = announced \cup {locate} /\ OnStockDirectory(locate)
  BY DEF AnnounceSymbol
<1>2. Settled /\ UNCHANGED <<vars, replacement, listed>>
  BY DEF AnnounceSymbol
<1>3. ExchangeInv'
  <2>1. Lawful(listed)' /\ Len(listed)' <= MaxListed
    BY <1>2 DEF ReplayInv, ExchangeInv, Lawful, Distinct
  <2>2. /\ announced' \subseteq Locates
        /\ target_locate' = IF Wanted \in announced' THEN Wanted ELSE 0
    BY <1>1, LocatesAssumption DEF OnStockDirectory, ReplayInv, ExchangeInv
  <2>3. \A i \in DOMAIN listed' : listed'[i].locate \in announced'
    BY <1>1, <1>2 DEF ReplayInv, ExchangeInv
  <2> QED BY <2>1, <2>2, <2>3 DEF ExchangeInv
<1>4. PICK L : L = listed
  OBVIOUS
<1>5. Mirror(L)' /\ listed' = L /\ pc' = "idle" /\ replacement' = NoSubmission
  <2>1. Mirror(L) /\ pc = "idle" /\ replacement = NoSubmission
    BY <1>2, <1>4, BeforeMessage
  <2> QED BY <1>2, <1>4, <2>1, MirrorUnchanged DEF vars, callVars
<1> QED BY <1>2, <1>3, <1>5, AfterMessage, BookAlone DEF ReplayInv

\* Every slot that is not free holds an order of the list, and no two the same.
LEMMA RoomForListed ==
  ASSUME IInv, NoOrderLost, NEW L \in Seq(Listings), Mirror(L), free = <<>>
  PROVE  MaxOrders <= Len(L)
<1>1. \A s \in Slots : order[s] \in Orders /\ Rests(s)
  <2>1. Range(free) = {}
    BY DEF Range
  <2>2. \A s \in Slots : order[s] # FreeSlot
    BY <2>1 DEF IInv, SlotsInv, BookIntegrity, SlotsUsedOnce
  <2> QED BY <2>2 DEF NoOrderLost, IInv, SlotsInv, SlotsTypeOK
<1>2. \A s \in Slots : \E i \in 1 .. Len(L) : L[i].ref = order[s].id
  <2> TAKE s \in Slots
  <2>1. \E i \in DOMAIN L : Tracked(L[i]) /\ L[i].ref = order[s].id
    BY <1>1, RestingIsListed
  <2> QED BY <2>1, LenProperties
<1> DEFINE at(s) == CHOOSE i \in 1 .. Len(L) : L[i].ref = order[s].id
           f     == [s \in Slots |-> at(s)]
<1>3. \A s \in Slots : at(s) \in 1 .. Len(L) /\ L[at(s)].ref = order[s].id
  BY <1>2
<1>4. \A s, t \in Slots : at(s) = at(t) => s = t
  <2>1. \A s \in Slots : MapFind(idMap, order[s].id) = s
    BY <1>1 DEF Rests
  <2> HIDE DEF at
  <2> QED BY <1>3, <2>1
<1>5. f \in [Slots -> 1 .. Len(L)] /\ \A s, t \in Slots : s # t => f[s] # f[t]
  <2> HIDE DEF at
  <2> QED BY <1>3, <1>4
<1> HIDE DEF f
<1>6. Len(L) \in Nat /\ MaxOrders \in Nat
  BY ConfigAssumption, LenProperties
<1>7. /\ IsFiniteSet(Slots) /\ Cardinality(Slots) = MaxOrders
      /\ IsFiniteSet(1 .. Len(L)) /\ Cardinality(1 .. Len(L)) = Len(L)
  <2>1. \A n \in Nat : IsFiniteSet(1 .. n) /\ Cardinality(1 .. n) = n
    <3> TAKE n \in Nat
    <3>1. PICK one \in Int : one = 1
      OBVIOUS
    <3>2. IsFiniteSet(one .. n) /\ Cardinality(one .. n) = IF one > n THEN 0 ELSE n - one + 1
      BY FS_Interval
    <3> QED BY <3>1, <3>2
  <2> QED BY <1>6, <2>1 DEF Slots
<1>8. ~(Cardinality(1 .. Len(L)) < Cardinality(Slots))
  BY <1>5, <1>7, FS_PigeonHole
<1> QED BY <1>6, <1>7, <1>8

\* The engine's part of a submit: the order comes to rest.
LEMMA RestingKeeps ==
  ASSUME ReplayInv, EngineContinues
  PROVE  ReplayInv'
<1>1. Continue /\ UNCHANGED <<target_locate, replacement, announced, listed>>
  BY DEF EngineContinues, tapeVars
<1>2. pc \notin {"idle", "aborted"}
  BY <1>1 DEF Continue, Resubmit, Fill, CanFill, ReturnFilled, DropRemainder, Rest, Abort,
              Resting, MatchOver
<1>3. PICK L \in Seq(Listings), o \in Listings :
        listed = Append(L, o) /\ Mirror(L) /\ Entering(o)
  BY <1>2 DEF ReplayInv, MirrorInv, Settled
<1>4. /\ pc = "finish" /\ replacement = NoSubmission /\ taker = AddRequest(o)
      /\ remaining = o.shares /\ ~o.unseen /\ o.locate = Wanted
  BY <1>2, <1>3 DEF Entering
<1>5. /\ taker.id = o.ref /\ taker.side = o.side /\ taker.price = EnginePrice(o.price)
      /\ taker.type = "Limit" /\ taker.tif = "GTC" /\ remaining # 0
      /\ MapFind(idMap, o.ref) = nullptr /\ InRange(taker.price) /\ taker.price \in Int
  <2>1. /\ taker.id = o.ref /\ taker.side = o.side /\ taker.price = EnginePrice(o.price)
        /\ taker.type = "Limit" /\ taker.tif = "GTC"
    BY <1>4 DEF AddRequest, Passive
  <2>2. o.shares # 0
    BY DEF Listings
  <2> QED BY <1>4, <2>1, <2>2, RunningCall DEF ReplayInv, IsMarket
<1>6. IInv' /\ NoOrderLost'
  <2>1. IInv' /\ BookStep
    BY <1>1, NextKeeps, BookSteps DEF Next, ReplayInv
  <2> QED BY <2>1, StepLosesNoOrder DEF ReplayInv
<1>7. ExchangeInv'
  BY <1>1 DEF ReplayInv, ExchangeInv, Lawful, Distinct
<1>8. Rest \/ Abort
  BY <1>1, <1>4, <1>5 DEF Continue, Resubmit, Fill, CanFill, ReturnFilled, DropRemainder,
                          NeverRests, IsMarket
<1>9. ASSUME Rest PROVE MirrorInv'
  <2> DEFINE l == PriceToIdx(EnginePrice(o.price))
  <2>1. free # <<>> /\ InsertResting(o.ref, o.side, l, o.shares) /\ pc' = "idle"
    BY <1>4, <1>5, <1>9 DEF Rest, Return
  <2>2. l \in Levels
    BY <1>5, ConfigAssumption DEF InRange, PriceToIdx, Levels
  <2>3. Mirror(Append(L, o))'
    BY <1>3, <1>4, <1>5, <2>1, <2>2, TrackedJoins DEF ReplayInv, Tracked
  <2> QED BY <1>1, <1>3, <1>4, <2>1, <2>3, AfterMessage
<1>10. ASSUME Abort PROVE MirrorInv'
  <2>1. free = <<>> /\ pc' = "aborted"
    BY <1>10 DEF Abort
  <2>2. MaxOrders <= Len(L)
    BY <1>3, <2>1, RoomForListed DEF ReplayInv
  <2>3. Len(Append(L, o)) = Len(L) + 1 /\ Len(L) \in Nat
    BY AppendToList
  <2>4. Len(Append(L, o)) <= MaxListed
    BY <1>3 DEF ReplayInv, ExchangeInv
  <2>5. MaxListed > MaxOrders
    BY <2>2, <2>3, <2>4, ReplayAssumption, ConfigAssumption
  <2> QED BY <2>1, <2>5 DEF MirrorInv
<1> QED BY <1>6, <1>7, <1>8, <1>9, <1>10 DEF ReplayInv

\* The invariant holds before the tape is read ...
LEMMA ReplayInitEstablishes ==
  ReplayInit => ReplayInv
<1> SUFFICES ASSUME ReplayInit PROVE ReplayInv
  OBVIOUS
<1>1. IInv
  BY InitEstablishes DEF ReplayInit
<1>2. NoOrderLost
  BY OrderFields DEF ReplayInit, Init, NoOrderLost
<1>3. listed = <<>> /\ announced = {} /\ target_locate = 0 /\ replacement = NoSubmission
      /\ pc = "idle" /\ idMap = EmptyMap /\ \A side \in Sides, l \in Levels : fifo[side][l] = <<>>
  BY DEF ReplayInit, Init, NoTarget
<1>4. ExchangeInv
  <2>1. listed \in Seq(Listings) /\ Len(listed) = 0 /\ DOMAIN listed = {}
    BY <1>3, EmptySeq
  <2>2. Lawful(listed)
    BY <2>1 DEF Lawful, Distinct
  <2> QED BY <1>3, <2>1, <2>2, ReplayAssumption DEF ExchangeInv
<1>5. Mirror(listed)
  <2>1. DOMAIN <<>> = {}
    OBVIOUS
  <2> QED BY <1>3, <2>1, MapContract DEF KeepsContract, Mirror, InOrder
<1> QED BY <1>1, <1>2, <1>3, <1>4, <1>5 DEF ReplayInv, MirrorInv, Settled

\* ... and every message and every call it makes keep it.
LEMMA ReplayNextKeeps ==
  ASSUME WholeTicks, ReplayInv, [ReplayNext]_replayVars
  PROVE  ReplayInv'
<1>1. CASE UNCHANGED replayVars
  <2>1. UNCHANGED vars /\ UNCHANGED bookVars
    BY <1>1 DEF replayVars, vars
  <2>2. IInv' /\ NoOrderLost'
    BY <2>1, BookAlone DEF ReplayInv
  <2>3. ExchangeInv'
    BY <1>1 DEF ReplayInv, ExchangeInv, Lawful, Distinct, replayVars, tapeVars
  <2>4. \A L : Mirror(L) => Mirror(L)'
    BY <2>1, MirrorUnchanged
  <2>5. listed' = listed /\ replacement' = replacement /\ pc' = pc /\ taker' = taker
        /\ remaining' = remaining
    BY <1>1 DEF replayVars, tapeVars, vars, callVars
  <2>6. MirrorInv'
    <3>1. CASE Settled /\ Mirror(listed)
      <4>1. PICK L : L = listed
        OBVIOUS
      <4> QED BY <2>4, <2>5, <3>1, <4>1, AfterMessage DEF Settled
    <3>2. ASSUME NEW L \in Seq(Listings), NEW o \in Listings,
                 listed = Append(L, o), Mirror(L), Entering(o)
          PROVE  MirrorInv'
      <4>1. Mirror(L)' /\ Entering(o)' /\ listed' = Append(L, o)
        BY <2>4, <2>5, <3>2 DEF Entering
      <4> QED BY <4>1 DEF MirrorInv
    <3>3. CASE pc = "aborted" /\ MaxListed > MaxOrders
      BY <2>5, <3>3 DEF MirrorInv
    <3> QED BY <3>1, <3>2, <3>3 DEF ReplayInv, MirrorInv
  <2> QED BY <2>2, <2>3, <2>6 DEF ReplayInv
<1> QED BY <1>1, AnnounceKeeps, ListKeeps, DecreaseKeeps, DeleteKeeps, ReplaceKeeps,
           SubmitKeeps, RestingKeeps DEF ReplayNext, TapeMessage

\* On a tape of whole ticks the book shows, at every step of a message, all of the
\* list or all but the order on its way in.
THEOREM ReplayInvariance == WholeTicks => (ReplaySpec => []ReplayInv)
<1> SUFFICES ASSUME WholeTicks PROVE ReplaySpec => []ReplayInv
  OBVIOUS
<1>1. ReplayInit => ReplayInv
  BY ReplayInitEstablishes
<1>2. ReplayInv /\ [ReplayNext]_replayVars => ReplayInv'
  BY ReplayNextKeeps
<1> QED BY <1>1, <1>2, PTL DEF ReplaySpec

-----------------------------------------------------------------------------
(* What the invariant says of the replay.  A tape with prices between the  *)
(* ticks does make the engine match: see the run replay_subtick.           *)

\* After every message, the queues of the engine are those of the exchange: the
\* same orders at each level, with the same quantities, in the same order.
THEOREM MirrorHolds == WholeTicks => (ReplaySpec => []MirrorsExchange)
<1>1. ReplayInv => MirrorsExchange
  <2> SUFFICES ASSUME ReplayInv, Settled, NEW side \in Sides, NEW l \in Levels
               PROVE  LET here  == fifo[side][l]
                          there == {i \in DOMAIN listed :
                                      /\ listed[i].locate = Wanted /\ listed[i].side = side
                                      /\ EnginePrice(listed[i].price) = IdxToPrice(l)
                                      /\ ~listed[i].unseen}
                      IN  /\ \A i \in there : \E k \in DOMAIN here : Shows(here[k], listed[i])
                          /\ \A k \in DOMAIN here : \E i \in there : Shows(here[k], listed[i])
                          /\ \A i, j \in there, a, b \in DOMAIN here :
                               Shows(here[a], listed[i]) /\ Shows(here[b], listed[j]) /\ a < b => i < j
    BY DEF MirrorsExchange
  <2> DEFINE here  == fifo[side][l]
             there == {i \in DOMAIN listed :
                         /\ listed[i].locate = Wanted /\ listed[i].side = side
                         /\ EnginePrice(listed[i].price) = IdxToPrice(l)
                         /\ ~listed[i].unseen}
  <2>1. /\ Mirror(listed) /\ Lawful(listed) /\ Distinct(listed) /\ IInv
        /\ listed \in Seq(Listings)
    BY BeforeMessage DEF Lawful, ReplayInv
  <2>2. PriceToIdx(IdxToPrice(l)) = l
    BY ConfigAssumption DEF PriceToIdx, IdxToPrice, Levels
  <2>3. ASSUME NEW i \in there PROVE \E k \in DOMAIN here : Shows(here[k], listed[i])
    <3> DEFINE s == MapFind(idMap, listed[i].ref)
    <3>1. i \in DOMAIN listed /\ Tracked(listed[i]) /\ EnginePrice(listed[i].price) = IdxToPrice(l)
          /\ listed[i].side = side
      BY DEF Tracked
    <3>2. Rests(s) /\ order[s].id = listed[i].ref
      BY <2>1, <3>1, FoundIfTracked
    <3>3. order[s].side = side /\ order[s].level = l /\ order[s].quantity = listed[i].shares
      BY <2>1, <2>2, <3>1 DEF Mirror, Shown
    <3>4. PICK k \in DOMAIN here : here[k] = s
      BY <3>2, <3>3 DEF Rests, Range
    <3> QED BY <3>2, <3>3, <3>4 DEF Shows
  <2>4. ASSUME NEW k \in DOMAIN here PROVE \E i \in there : Shows(here[k], listed[i])
    <3> DEFINE s == here[k]
    <3>1. s \in Range(fifo[side][l])
      BY DEF Range
    <3>2. Rests(s) /\ order[s].side = side /\ order[s].level = l
      BY <2>1, <3>1, LinkedRests DEF IInv
    <3> HIDE DEF s
    <3>3. PICK i \in DOMAIN listed : Tracked(listed[i]) /\ listed[i].ref = order[s].id
      BY <2>1, <3>2, RestingIsListed
    <3>4. Shown(listed[i]) /\ MapFind(idMap, listed[i].ref) = s
      BY <2>1, <3>2, <3>3 DEF Mirror, Rests
    <3>5. /\ listed[i].side = side /\ listed[i].shares = order[s].quantity
          /\ PriceToIdx(EnginePrice(listed[i].price)) = l
      BY <3>2, <3>4 DEF Shown
    <3>6. EnginePrice(listed[i].price) = IdxToPrice(l)
      <4>1. InRange(EnginePrice(listed[i].price))
        BY <2>1, <3>3 DEF Lawful, Tracked
      <4>2. listed[i] \in Listings
        BY <2>1, ElementOfSeq, LenProperties
      <4>3. listed[i].price \in Nat
        BY <4>2, ReplayAssumption DEF Listings
      <4>4. EnginePrice(listed[i].price) \in Int
        BY <4>3, ReplayAssumption DEF EnginePrice
      <4> QED BY <3>5, <4>1, <4>4, ConfigAssumption DEF PriceToIdx, IdxToPrice, InRange
    <3>7. i \in there
      BY <3>3, <3>5, <3>6 DEF Tracked
    <3> QED BY <3>3, <3>5, <3>7 DEF Shows, s
  <2>5. ASSUME NEW i \in there, NEW j \in there, NEW a \in DOMAIN here, NEW b \in DOMAIN here,
               Shows(here[a], listed[i]), Shows(here[b], listed[j]), a < b
        PROVE  i < j
    <3>1. InOrder(fifo[side][l], here[a], here[b])
      BY <2>5 DEF InOrder
    <3>2. here[a] \in Slots /\ here[b] \in Slots
      BY <2>1, <3>1, QueuedIsListed
    <3>3. Before(listed, order[here[a]].id, order[here[b]].id)
      BY <2>1, <3>1, <3>2 DEF Mirror
    <3>4. Before(listed, listed[i].ref, listed[j].ref)
      BY <2>5, <3>3 DEF Shows
    <3> QED BY <2>1, <3>4 DEF Before, Distinct
  <2> QED BY <2>3, <2>4, <2>5
<1> QED BY <1>1, ReplayInvariance, PTL

\* The passive calls of the handler stay passive: an order never crosses what the
\* engine shows, since the engine shows no more than the exchange has.
THEOREM NoMatching == WholeTicks => (ReplaySpec => []NeverMatches)
<1>1. ReplayInv => NeverMatches
  BY DEF ReplayInv, MirrorInv, Settled, Entering, NeverMatches
<1> QED BY <1>1, ReplayInvariance, PTL

\* An engine configured for as many orders as the exchange ever lists has a slot
\* for each, also between the two calls of a replace.
THEOREM SlotsSuffice ==
  WholeTicks /\ MaxListed <= MaxOrders => (ReplaySpec => []NeverRunsOut)
<1> SUFFICES ASSUME WholeTicks, MaxListed <= MaxOrders PROVE ReplaySpec => []NeverRunsOut
  OBVIOUS
<1>1. ReplayInv => NeverRunsOut
  <2>1. ~(MaxListed > MaxOrders)
    BY ReplayAssumption, ConfigAssumption
  <2> QED BY <2>1 DEF ReplayInv, MirrorInv, Settled, Entering, NeverRunsOut
<1> QED BY <1>1, ReplayInvariance, PTL

=============================================================================
