------------------------ MODULE OrderBookRefinement ------------------------
(***************************************************************************)
(* The engine, with its levels, bitmaps, slots and id map, implements the  *)
(* price-time-priority book of PriceTimeBook.                              *)
(***************************************************************************)
EXTENDS OrderBook

LiveSlots == {s \in Slots : order[s] # FreeSlot}

SlotOf(id) == CHOOSE s \in LiveSlots : order[s].id = id

\* An id's order, read from its slot and not through the id map.
RestingOrders ==
  [id \in {order[s].id : s \in LiveSlots} |->
     LET o == order[SlotOf(id)]
     IN  [side |-> o.side, price |-> IdxToPrice(o.level), quantity |-> o.quantity]]

\* Who waits in front of whom, read from the lists.
TimePriority ==
  UNION {LET q == fifo[side][l]
         IN  {<<order[q[ij[1]]].id, order[q[ij[2]]].id>> :
                ij \in {p \in (DOMAIN q) \X (DOMAIN q) : p[1] < p[2]}}
         : side \in Sides, l \in Levels}

Tape ==
  IF trade = NoTrade THEN [resting |-> kInvalidOrderId]
  ELSE [resting |-> trade.resting, price |-> IdxToPrice(trade.level),
        quantity |-> trade.quantity]

PTB == INSTANCE PriceTimeBook WITH
  NoId     <- kInvalidOrderId,
  Window   <- {p \in Prices : InRange(p)},
  Capacity <- MaxOrders,
  resting  <- RestingOrders,
  older    <- TimePriority,
  phase    <- IF pc \in {"match", "finish"} THEN "working" ELSE pc,
  call     <- taker,
  left     <- remaining,
  tape     <- Tape,
  answer   <- result

\* Every call of the engine answers, trades and queues as PriceTimeBook says:
\* best price first, oldest first, all or nothing for FOK, no trade for
\* post-only, priority lost and kept by modify as documented.
ImplementsPriceTimeBook == PTB!Spec

=============================================================================
