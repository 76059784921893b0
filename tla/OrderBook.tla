------------------------------ MODULE OrderBook ------------------------------
(***************************************************************************)
(* The matching engine: class OrderBook of include/lob/order_book.hpp with *)
(* the slab free list, the level arrays, the bitmaps and the id map it     *)
(* owns.                                                                   *)
(*                                                                         *)
(* The engine is single-threaded, so a call is not interleaved with other  *)
(* calls; but it is not atomic either: submit() calls the trade sink once  *)
(* per fill, in the middle of match_(), and the sink may look at the book. *)
(* Every step of this module therefore runs from one point at which the    *)
(* rest of the program can see the book (a call, a trade callback, a       *)
(* return) to the next one.                                                *)
(*                                                                         *)
(* Data abstractions.  The intrusive list of a level is the sequence of    *)
(* the slots it links, oldest first; a bitmap is the set of its set bits;  *)
(* the slab's free list is the sequence of its free slots.  An order keeps *)
(* level_idx and drops the price field, which is idx_to_price(level_idx).  *)
(* Timestamps are passed through to the sink and never read: left out.     *)
(***************************************************************************)
EXTENDS Integers, SequencesExt, Totals

CONSTANTS
  OrderIds,          \* the non-zero order ids in use
  kInvalidOrderId,   \* OrderId 0, which marks an empty slot of the id map
  BasePrice,         \* Config::base_price
  NumLevels,         \* Config::num_levels
  MaxOrders,         \* Config::max_orders, the slab's capacity
  QuantityMod,       \* 2^32: Quantity is std::uint32_t
  Quantities,        \* the quantities callers pass
  Types, Tifs,       \* the order types and times in force callers pass
  Maps,              \* the values of the id map ...
  EmptyMap,          \* ... the one a new book starts with ...
  MapFind(_, _),     \* ... and OrderIdMap::find, insert and erase
  MapInsert(_, _, _),
  MapErase(_, _)

Sides       == {"Buy", "Sell"}
TimeInForce == {"GTC", "Day", "IOC", "FOK", "PostOnly"}
Levels      == 0 .. NumLevels - 1
Slots       == 1 .. MaxOrders
Quantity    == 0 .. QuantityMod - 1
Prices      == (BasePrice - 1) .. (BasePrice + NumLevels)

kInvalidPrice == -1
kNoBest       == -1   \* static_cast<std::size_t>(-1); never a level index
nullptr       == 0

\* "All prices are in engine ticks -- a non-negative integer": a base price
\* below 0 would make kInvalidPrice a price of the window.
ASSUME ConfigAssumption ==
  /\ BasePrice \in Nat
  /\ NumLevels \in Nat \ {0}
  /\ MaxOrders \in Nat
  /\ QuantityMod \in Nat \ {0}

ASSUME CallerAssumption ==
  /\ kInvalidOrderId \notin OrderIds
  /\ Quantities \subseteq Quantity
  /\ Types \subseteq {"Limit", "Market"}
  /\ Tifs \subseteq TimeInForce

Orders == [id: OrderIds, quantity: Quantity \ {0}, level: Levels, side: Sides]

\* While a slot is free its bytes hold the free-list link, not an order.
FreeSlot == [id |-> kInvalidOrderId]

Submissions ==
  [id: OrderIds \cup {kInvalidOrderId}, side: Sides, type: Types \cup {"Limit"},
   tif: Tifs \cup {"GTC"}, price: Prices, qty: Quantities]
NoSubmission == [id |-> kInvalidOrderId]

Trades == [resting: OrderIds, aggressor: OrderIds, level: Levels,
           quantity: Quantity \ {0}, side: Sides]
NoTrade == [resting |-> kInvalidOrderId]

VARIABLES
  order,      \* slab storage: the order in each slot
  free,       \* the slab's free list, next slot to hand out first
  idMap,      \* id_map_
  fifo,       \* PriceLevel::orders, per side and level
  totalQty,   \* PriceLevel::total_qty
  count,      \* PriceLevel::count
  bits,       \* bid_bitmap_ and ask_bitmap_
  best,       \* best_bid_idx_ and best_ask_idx_
  pc,         \* where the call in progress stands
  taker,      \* the arguments of the submit() in progress
  remaining,  \* its unfilled quantity
  trade,      \* what the sink was last called with, while matching
  result      \* what the last call returned

levelVars == <<fifo, totalQty, count, bits, best>>
bookVars  == <<order, free, idMap, fifo, totalQty, count, bits, best>>
callVars  == <<pc, taker, remaining, trade, result>>
vars      == <<bookVars, callVars>>

Statuses == {"None", "Accepted", "FullyFilled", "PartiallyFilled",
             "Cancelled", "Rejected", "True", "False", "Threw"}
Results  == [status: Statuses, filled: Quantity, left: Quantity]

-----------------------------------------------------------------------------
(* Prices and levels.                                                      *)

Opposite(side) == IF side = "Buy" THEN "Sell" ELSE "Buy"

InRange(p) == p >= BasePrice /\ p - BasePrice < NumLevels

\* The cast of a negative difference to size_t lies beyond every level.
PriceToIdx(p) == IF p < BasePrice THEN NumLevels ELSE p - BasePrice
IdxToPrice(i) == BasePrice + i

\* A resting order of `side` at level i trades before one at level j.
Ahead(side, i, j) == IF side = "Buy" THEN i > j ELSE i < j

\* (Mutant) The limit itself counts as out of reach.
ReachesStrictly(side, limit, i) == IF side = "Buy" THEN i < limit ELSE i > limit

\* An aggressor of `side` with limit index `limit` may trade at level i.
Reaches(side, limit, i) == IF side = "Buy" THEN i <= limit ELSE i >= limit

\* (Mutants) The search runs before the bit is cleared; the search goes from the
\* far end of the book.
NextBestUncleared(side, set, i) == i
NextBestFromFarEnd(side, set, i) ==
  IF set = {} THEN kNoBest ELSE IF side = "Buy" THEN Min(set) ELSE Max(set)

\* find_prev_set(i - 1) for bids, find_next_set(i + 1) for asks.
NextBest(side, set, i) ==
  LET behind == {j \in set : Ahead(side, i, j)}
  IN  IF behind = {} THEN kNoBest
      ELSE IF side = "Buy" THEN Max(behind) ELSE Min(behind)

WouldCross(side, p) ==
  LET b == best[Opposite(side)]
  IN  b # kNoBest /\ Reaches(side, PriceToIdx(p), b)

\* (Mutants) The pre-walk starts behind the best level; it ignores the limit.
WalkBehindBest(side, limitPrice) ==
  {l \in bits[Opposite(side)] : Ahead(Opposite(side), best[Opposite(side)], l)}
WalkAnyPrice(side, limitPrice) == bits[Opposite(side)]

\* The levels can_fully_fill() visits: from the best index along the bitmap,
\* up to the limit.  kInvalidPrice stands for "no limit".
Walk(side, limitPrice) ==
  LET opp == Opposite(side)
  IN  {l \in bits[opp] :
         /\ best[opp] # kNoBest
         /\ l = best[opp] \/ Ahead(opp, best[opp], l)
         /\ limitPrice # kInvalidPrice => Reaches(side, PriceToIdx(limitPrice), l)}

\* The pre-walk answers yes at the first level whose running 32-bit sum
\* reaches qty.
CanFullyFill(side, limitPrice, qty) ==
  LET opp     == Opposite(side)
      walk    == Walk(side, limitPrice)
      upTo(l) == {k \in walk : ~Ahead(opp, l, k)}
      Acc(l)  == TotalOf([i \in 1 .. NumLevels |->
                            IF i - 1 \in upTo(l) THEN totalQty[opp][i - 1] ELSE 0])
                   % QuantityMod
  IN  \E l \in walk : Acc(l) >= qty

\* The levels from the best one on, each found from the one before it.
Sweep(side) ==
  LET at[k \in 1 .. NumLevels + 1] ==
        IF k = 1 THEN best[side]
        ELSE IF at[k - 1] = kNoBest THEN kNoBest
        ELSE NextBest(side, bits[side], at[k - 1])
  IN  at

LevelSnapshot(side, l) ==
  [price |-> IdxToPrice(l), qty |-> totalQty[side][l], count |-> count[side][l]]

\* (Mutant) Level 0 ends the walk before it is written.
TopNWithoutEdge(side, n) ==
  LET at    == Sweep(side)
      found == Cardinality({k \in DOMAIN at : k <= n /\ at[k] \notin {kNoBest, 0}})
  IN  [k \in 1 .. found |-> LevelSnapshot(side, at[k])]

\* What top_n() writes.
TopN(side, n) ==
  LET at    == Sweep(side)
      found == Cardinality({k \in DOMAIN at : k <= n /\ at[k] # kNoBest})
  IN  [k \in 1 .. found |-> LevelSnapshot(side, at[k])]

-----------------------------------------------------------------------------
(* Updates of the book's parts.                                            *)

\* (Mutant) The slot never returns to the free list.
DeallocateLeak(s) ==
  /\ order' = [order EXCEPT ![s] = FreeSlot]
  /\ UNCHANGED free

Deallocate(s) ==
  /\ free'  = <<s>> \o free
  /\ order' = [order EXCEPT ![s] = FreeSlot]

Position(q, s) == CHOOSE i \in DOMAIN q : q[i] = s
Unlink(q, s)   == RemoveAt(q, Position(q, s))

\* (Mutant) A level that becomes occupied is not compared with the best one.
JoinLevelUncompared(side, l) ==
  /\ bits' = [bits EXCEPT ![side] = @ \cup {l}]
  /\ best' = IF best[side] = kNoBest THEN [best EXCEPT ![side] = l] ELSE best

\* Level l of `side` became occupied, or empty: was_empty in insert_resting_,
\* lvl.empty() in match_ and remove_from_book_.
JoinLevel(side, l) ==
  /\ bits' = [bits EXCEPT ![side] = @ \cup {l}]
  /\ best' = IF best[side] = kNoBest \/ Ahead(side, l, best[side])
             THEN [best EXCEPT ![side] = l] ELSE best

\* (Mutant) The bitmap keeps the bit of the emptied level.
LeaveLevelKeepBit(side, l) ==
  /\ UNCHANGED bits
  /\ best' = IF best[side] # l THEN best
             ELSE [best EXCEPT ![side] = NextBest(side, bits[side], l)]

LeaveLevel(side, l) ==
  /\ bits' = [bits EXCEPT ![side] = @ \ {l}]
  /\ best' = IF best[side] # l THEN best
             ELSE [best EXCEPT ![side] = NextBest(side, bits[side] \ {l}, l)]

\* Level l of `side` links q from now on, and its total drops by delta.
ShrinkLevel(side, l, q, delta) ==
  /\ fifo'     = [fifo EXCEPT ![side][l] = q]
  /\ totalQty' = [totalQty EXCEPT ![side][l] = (@ - delta) % QuantityMod]
  /\ count'    = [count EXCEPT ![side][l] = @ - (Len(fifo[side][l]) - Len(q))]
  /\ IF count'[side][l] = 0 THEN LeaveLevel(side, l) ELSE UNCHANGED <<bits, best>>

\* remove_from_book_, the erase and the deallocation that always follow it.
RemoveOrder(s) ==
  LET o == order[s]
  IN  /\ ShrinkLevel(o.side, o.level, Unlink(fifo[o.side][o.level], s), o.quantity)
      /\ idMap' = MapErase(idMap, o.id)
      /\ Deallocate(s)

\* (Mutants) The level's total is forgotten; the order goes to the back.
DecreaseOrderOnly(s, by) ==
  /\ order' = [order EXCEPT ![s].quantity = @ - by]
  /\ UNCHANGED <<free, idMap, levelVars>>
DecreaseOrderRequeue(s, by) ==
  LET o == order[s]
  IN  /\ order' = [order EXCEPT ![s].quantity = @ - by]
      /\ ShrinkLevel(o.side, o.level, Append(Unlink(fifo[o.side][o.level], s), s), by)
      /\ UNCHANGED <<free, idMap>>

\* A partial decrement in place: the order keeps its position.
DecreaseOrder(s, by) ==
  LET o == order[s]
  IN  /\ order' = [order EXCEPT ![s].quantity = @ - by]
      /\ ShrinkLevel(o.side, o.level, fifo[o.side][o.level], by)
      /\ UNCHANGED <<free, idMap>>

\* insert_resting_ when the slab has a slot left.
InsertResting(id, side, l, qty) ==
  LET s == Head(free)
  IN  /\ free'     = Tail(free)
      /\ order'    = [order EXCEPT ![s] = [id |-> id, quantity |-> qty,
                                           level |-> l, side |-> side]]
      /\ fifo'     = [fifo EXCEPT ![side][l] = Append(@, s)]
      /\ totalQty' = [totalQty EXCEPT ![side][l] = (@ + qty) % QuantityMod]
      /\ count'    = [count EXCEPT ![side][l] = @ + 1]
      /\ IF count[side][l] = 0 THEN JoinLevel(side, l) ELSE UNCHANGED <<bits, best>>
      /\ idMap'    = MapInsert(idMap, id, s)

-----------------------------------------------------------------------------
(* submit()                                                                *)

Return(status, filled, left) ==
  /\ pc'        = "idle"
  /\ taker'     = NoSubmission
  /\ remaining' = 0
  /\ trade'     = NoTrade
  /\ result'    = [status |-> status, filled |-> filled, left |-> left]

IsMarket(req) == req.type = "Market"

BadInput(req) ==
  \/ req.qty = 0 \/ req.id = kInvalidOrderId
  \/ MapFind(idMap, req.id) # nullptr
  \/ ~IsMarket(req) /\ ~InRange(req.price)

\* The pre-checks that end the call with nothing filled.
Killed(req) ==
  \/ /\ req.tif = "FOK"
     /\ ~CanFullyFill(req.side,
                      IF IsMarket(req) THEN kInvalidPrice ELSE req.price, req.qty)
  \/ req.tif = "PostOnly" /\ WouldCross(req.side, req.price)

Aggressive(req) ==
  /\ req.tif # "PostOnly"
  /\ IsMarket(req) \/ WouldCross(req.side, req.price)

\* submit() from its first line up to the matching loop or to its return.
Enter(req) ==
  /\ UNCHANGED bookVars
  /\ \/ /\ BadInput(req)
        /\ Return("Rejected", 0, 0)
     \/ /\ ~BadInput(req) /\ Killed(req)
        /\ Return("Cancelled", 0, req.qty)
     \/ /\ ~BadInput(req) /\ ~Killed(req)
        /\ pc'        = IF Aggressive(req) THEN "match" ELSE "finish"
        /\ taker'     = req
        /\ remaining' = req.qty
        /\ trade'     = NoTrade
        /\ UNCHANGED result

Submit == pc = "idle" /\ \E req \in Submissions : Enter(req)

\* The condition of the matching loop at its head: quantity left, a best
\* opposite level, and that level within the limit.
CanFill ==
  LET i == best[Opposite(taker.side)]
  IN  /\ pc = "match"
      /\ remaining > 0
      /\ i # kNoBest
      /\ IsMarket(taker) \/ Reaches(taker.side, PriceToIdx(taker.price), i)

\* One trip of the matching loop, from the sink call to the next one.
Fill ==
  /\ CanFill
  /\ LET opp == Opposite(taker.side)
         i   == best[opp]
         q   == fifo[opp][i]
         s   == Head(q)
         o   == order[s]
         qty == IF remaining < o.quantity THEN remaining ELSE o.quantity
     IN  /\ q # <<>>   \* !lvl.orders.empty()
         /\ trade' = [resting |-> o.id, aggressor |-> taker.id, level |-> i,
                      quantity |-> qty, side |-> taker.side]
         /\ remaining' = remaining - qty
         /\ IF qty = o.quantity
            THEN /\ ShrinkLevel(opp, i, Unlink(q, s), qty)
                 /\ idMap' = MapErase(idMap, o.id)
                 /\ Deallocate(s)
            ELSE DecreaseOrder(s, qty)
  /\ UNCHANGED <<pc, taker, result>>

\* The sink is called with the next fill and throws: the exception leaves
\* submit(), or modify(), before that fill is made, and the remainder is lost.
SinkThrows ==
  /\ CanFill /\ fifo[Opposite(taker.side)][best[Opposite(taker.side)]] # <<>>
  /\ Return("Threw", 0, 0)
  /\ UNCHANGED bookVars

MatchOver == pc = "finish" \/ (pc = "match" /\ ~CanFill)

ReturnFilled ==
  /\ MatchOver
  /\ remaining = 0
  /\ Return("FullyFilled", taker.qty, 0)
  /\ UNCHANGED bookVars

NeverRests(req) == req.tif = "IOC" \/ IsMarket(req)

DropRemainder ==
  /\ MatchOver
  /\ remaining # 0 /\ NeverRests(taker)
  /\ LET filled == taker.qty - remaining
     IN  Return(IF filled > 0 THEN "PartiallyFilled" ELSE "Cancelled", filled, remaining)
  /\ UNCHANGED bookVars

Resting == MatchOver /\ remaining # 0 /\ ~NeverRests(taker)

Rest ==
  /\ Resting
  /\ free # <<>>
  /\ InsertResting(taker.id, taker.side, PriceToIdx(taker.price), remaining)
  /\ Return(IF taker.qty = remaining THEN "Accepted" ELSE "PartiallyFilled",
            taker.qty - remaining, remaining)

\* allocate() returned nullptr: the assertion of insert_resting_ fails, and
\* without assertions the store through nullptr does.  The process is gone.
Abort ==
  /\ Resting
  /\ free = <<>>
  /\ pc' = "aborted"
  /\ UNCHANGED <<bookVars, taker, remaining, trade, result>>

-----------------------------------------------------------------------------
(* cancel(), reduce() and modify()                                         *)

CancelOne(id) ==
  LET s == MapFind(idMap, id)
  IN  \/ s = nullptr /\ Return("False", 0, 0) /\ UNCHANGED bookVars
      \/ s # nullptr /\ Return("True", 0, 0) /\ RemoveOrder(s)

Cancel == pc = "idle" /\ \E id \in OrderIds : CancelOne(id)

ReduceOne(id, by) ==
  LET s == MapFind(idMap, id)
  IN  \/ s = nullptr /\ Return("False", 0, 0) /\ UNCHANGED bookVars
      \/ /\ s # nullptr /\ Return("True", 0, 0)
         /\ IF by >= order[s].quantity THEN RemoveOrder(s) ELSE DecreaseOrder(s, by)

Reduce == pc = "idle" /\ \E id \in OrderIds, by \in Quantities : ReduceOne(id, by)

\* (Mutants) A quantity of 0 is applied in place; so is an increase.
KeepsPriorityAtZero(o, qty, price) == price = IdxToPrice(o.level) /\ qty <= o.quantity
KeepsPriorityUpward(o, qty, price) == price = IdxToPrice(o.level) /\ qty > 0

KeepsPriority(o, qty, price) ==
  price = IdxToPrice(o.level) /\ qty > 0 /\ qty <= o.quantity

Modify ==
  /\ pc = "idle"
  /\ \E id \in OrderIds, qty \in Quantities, price \in Prices :
       LET s == MapFind(idMap, id)
       IN  \/ s = nullptr /\ Return("Rejected", 0, 0) /\ UNCHANGED bookVars
           \/ /\ s # nullptr /\ KeepsPriority(order[s], qty, price)
              /\ DecreaseOrder(s, order[s].quantity - qty)
              /\ Return("Accepted", 0, qty)
           \/ /\ s # nullptr /\ ~KeepsPriority(order[s], qty, price)
              /\ RemoveOrder(s)
              /\ pc'    = "resubmit"
              /\ taker' = [id |-> id, side |-> order[s].side, type |-> "Limit",
                           tif |-> "GTC", price |-> price, qty |-> qty]
              /\ trade' = NoTrade
              /\ UNCHANGED <<remaining, result>>

\* The second half of modify(): submit the replacement.
Resubmit == pc = "resubmit" /\ Enter(taker)

-----------------------------------------------------------------------------

Init ==
  /\ order    = [s \in Slots |-> FreeSlot]
  /\ free     = [i \in Slots |-> i]
  /\ idMap    = EmptyMap
  /\ fifo     = [side \in Sides |-> [l \in Levels |-> <<>>]]
  /\ totalQty = [side \in Sides |-> [l \in Levels |-> 0]]
  /\ count    = [side \in Sides |-> [l \in Levels |-> 0]]
  /\ bits     = [side \in Sides |-> {}]
  /\ best     = [side \in Sides |-> kNoBest]
  /\ pc = "idle" /\ taker = NoSubmission /\ remaining = 0 /\ trade = NoTrade
  /\ result = [status |-> "None", filled |-> 0, left |-> 0]

\* The rest of a call that has begun.
Continue == Resubmit \/ Fill \/ ReturnFilled \/ DropRemainder \/ Rest \/ Abort

Next == Submit \/ Cancel \/ Reduce \/ Modify \/ Continue \/ SinkThrows

Spec == Init /\ [][Next]_vars

\* A call that has begun keeps running: nothing in it waits.  Callers are
\* under no obligation to call.
FairSpec == Spec /\ WF_vars(Continue)

-----------------------------------------------------------------------------
(* What must hold wherever the rest of the program can look at the book:   *)
(* between calls, at every trade callback, and in the middle of a modify.  *)

BookTypeOK ==
  /\ order \in [Slots -> Orders \cup {FreeSlot}]
  /\ free \in Seq(Slots)
  /\ idMap \in Maps
  /\ fifo \in [Sides -> [Levels -> Seq(Slots)]]
  /\ totalQty \in [Sides -> [Levels -> Quantity]]
  /\ count \in [Sides -> [Levels -> Nat]]
  /\ bits \in [Sides -> SUBSET Levels]
  /\ best \in [Sides -> Levels \cup {kNoBest}]

CallTypeOK ==
  /\ pc \in {"idle", "resubmit", "match", "finish", "aborted"}
  /\ taker \in Submissions \cup {NoSubmission}
  /\ remaining \in Quantity
  /\ trade \in Trades \cup {NoTrade}
  /\ result \in Results

\* Every variable has its type.
TypeOK == BookTypeOK /\ CallTypeOK

Occupied(side) == {l \in Levels : fifo[side][l] # <<>>}

\* The cached best index of a side is the level that trades first among those
\* with orders, and kNoBest when there are none, whichever of match_,
\* insert_resting_ and remove_from_book_ updated it last.
BestIsExtremal ==
  \A side \in Sides :
    IF Occupied(side) = {} THEN best[side] = kNoBest
    ELSE /\ best[side] \in Occupied(side)
         /\ \A l \in Occupied(side) : ~Ahead(side, l, best[side])

\* The incremental count and bitmap of a level say what walking its list
\* would say.
LevelsShadowQueues ==
  \A side \in Sides :
    /\ bits[side] = Occupied(side)
    /\ \A l \in Levels : count[side][l] = Len(fifo[side][l])

\* What the orders a level links add up to.
QueueQty(side, l) ==
  LET q == fifo[side][l]
  IN  TotalOf([i \in DOMAIN q |-> order[q[i]].quantity])

\* The incremental total of a level is the 32-bit sum of its orders.
TotalsShadowQueues ==
  \A side \in Sides, l \in Levels : totalQty[side][l] = QueueQty(side, l) % QuantityMod

\* What the orders of a side at the levels R, wherever they are linked, add up to.
SlotsQty(side, R) ==
  TotalOf([s \in Slots |->
             IF order[s] \in Orders /\ order[s].side = side /\ order[s].level \in R
             THEN order[s].quantity ELSE 0])

\* An order that a level links lies in that level's side and price, and the id
\* map leads to it: no level holds a dangling or a foreign order.
LinkedOrdersAreFound ==
  \A side \in Sides, l \in Levels : \A s \in Range(fifo[side][l]) :
    /\ order[s] \in Orders
    /\ order[s].side = side /\ order[s].level = l
    /\ MapFind(idMap, order[s].id) = s

\* What the id map leads to is an order that its level links: cancel, reduce
\* and modify never reach freed memory.
FoundOrdersAreLinked ==
  \A id \in OrderIds :
    LET s == MapFind(idMap, id)
    IN  s # nullptr => /\ s \in Slots
                       /\ order[s] \in Orders
                       /\ order[s].id = id
                       /\ s \in Range(fifo[order[s].side][order[s].level])

\* No list of slots names a slot twice, and a slot holds no order exactly when
\* it is on the free list: nothing is freed twice, leaked, or handed out live.
SlotsUsedOnce ==
  /\ \A side \in Sides, l \in Levels : IsInjective(fifo[side][l])
  /\ IsInjective(free)
  /\ \A s \in Slots : order[s] = FreeSlot <=> s \in Range(free)

BookIntegrity == LinkedOrdersAreFound /\ FoundOrdersAreLinked /\ SlotsUsedOnce

\* The book is never crossed or locked, not even while an order trades: the
\* best bid is below the best ask.
NotCrossed ==
  (best["Buy"] # kNoBest /\ best["Sell"] # kNoBest) => best["Buy"] < best["Sell"]

\* The FOK pre-walk, for every side, limit and quantity a caller may ask about:
\* it never promises more than the orders in reach add up to, although its sums
\* wrap, and promises as much as that while they do not.
FokPreCheckExact ==
  \A side \in Sides, limit \in {p \in Prices : InRange(p)} \cup {kInvalidPrice},
     qty \in Quantities \ {0} :
    LET reach     == {l \in Levels : \/ limit = kInvalidPrice
                                     \/ Reaches(side, PriceToIdx(limit), l)}
        liquidity == SlotsQty(Opposite(side), reach)
    IN  /\ CanFullyFill(side, limit, qty) => liquidity >= qty
        /\ liquidity >= qty /\ liquidity < QuantityMod => CanFullyFill(side, limit, qty)

\* The snapshot lists the n best prices of a side, best first and none skipped,
\* each with the quantity (in 32 bits) and the number of the orders that rest there.
SnapshotExact ==
  \A side \in Sides, n \in 0 .. NumLevels + 1 :
    LET top       == TopN(side, n)
        at(p)  == {s \in Slots : order[s] \in Orders /\ order[s].side = side
                                /\ IdxToPrice(order[s].level) = p}
        prices == {p \in Prices : at(p) # {}}
        listed == {top[k].price : k \in DOMAIN top}
    IN  /\ listed \subseteq prices
        /\ Len(top) = Min({n, Cardinality(prices)})
        /\ \A j, k \in DOMAIN top : j < k => Ahead(side, top[j].price, top[k].price)
        /\ \A p \in prices \ listed, k \in DOMAIN top : Ahead(side, top[k].price, p)
        /\ \A k \in DOMAIN top :
             /\ top[k].qty = SlotsQty(side, {PriceToIdx(top[k].price)}) % QuantityMod
             /\ top[k].count = Cardinality(at(top[k].price))

\* A fill-or-kill order whose matching ends has traded in full: the pre-walk and
\* the loop see the same liquidity.  A sink that throws ends the call before.
FokAllOrNone == MatchOver /\ taker.tif = "FOK" => remaining = 0

\* The slab never runs out after a trade was reported: a remainder rests only
\* when its last fill emptied a resting order, which gave its slot back.
AbortsBeforeTrading == pc = "aborted" => remaining = taker.qty /\ trade = NoTrade

\* "Rejected - rejected before any side-effects (bad input)", for a modify: a
\* replacement that will be Rejected is found out before the original goes.
RejectedBeforeSideEffects == pc = "resubmit" => ~BadInput(taker)

\* Successive trades of one call never move back towards the touch, and the
\* aggressor never trades through its limit.
TradesWalkAway ==
  [][(pc = "match" /\ trade' \notin {trade, NoTrade}) =>
       /\ trade # NoTrade => ~Ahead(Opposite(taker.side), trade'.level, trade.level)
       /\ IsMarket(taker) \/ Reaches(taker.side, PriceToIdx(taker.price), trade'.level)]_vars

\* Two orders queued at one price keep their order for as long as both stay:
\* a partial fill, a reduction or a smaller quantity costs no priority, and
\* taking an order out of the middle disturbs nobody else.
QueueOrderKept ==
  [][\A side \in Sides, l \in Levels :
       LET q == fifo[side][l]
           r == fifo'[side][l]
       IN  \A i, j \in DOMAIN q, a, b \in DOMAIN r :
             i < j /\ r[a] = q[i] /\ r[b] = q[j] => a < b]_vars

\* Every call returns, unless it ends the process: the matching loop neither
\* spins on an empty level nor walks for ever.
CallsReturn == pc \notin {"idle", "aborted"} ~> pc \in {"idle", "aborted"}

=============================================================================
