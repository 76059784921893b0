---------------------------- MODULE PriceTimeBook ----------------------------
(***************************************************************************)
(* What the matching engine promises, without levels, bitmaps, slots or id *)
(* map: "price-time-priority limit order book" (order_book.hpp), the times *)
(* in force of types.hpp, and the statuses of SubmitResult.                *)
(*                                                                         *)
(* The book is a set of orders by id and, between orders of one side and   *)
(* price, the relation "rested earlier than".                              *)
(***************************************************************************)
EXTENDS Integers, FiniteSetsExt

CONSTANTS OrderIds, NoId, \* the ids of orders, and the id no order has
          Window,         \* the prices the book covers
          Prices,         \* the prices callers pass
          Capacity,       \* how many orders may rest
          Quantities, Types, Tifs

VARIABLES resting,  \* the resting orders: id -> [side, price, quantity]
          older,    \* <<a, b>>: a has time priority over b
          phase,    \* "idle", "resubmit", "working" or "aborted"
          call,     \* the order being submitted
          left,     \* what is left to trade of it
          tape,     \* the last trade of this call
          answer    \* what the last call answered

vars == <<resting, older, phase, call, left, tape, answer>>

Opposite(side) == IF side = "Buy" THEN "Sell" ELSE "Buy"
IsMarket(req)  == req.type = "Market"
Live           == DOMAIN resting

Requests ==
  [id: OrderIds \cup {NoId}, side: {"Buy", "Sell"}, type: Types \cup {"Limit"},
   tif: Tifs \cup {"GTC"}, price: Prices, qty: Quantities]

Better(side, p, q) == IF side = "Buy" THEN p > q ELSE p < q

\* The resting orders an order may trade with.
Tradable(req) ==
  {id \in Live :
     /\ resting[id].side = Opposite(req.side)
     /\ IsMarket(req) \/ ~Better(resting[id].side, req.price, resting[id].price)}

\* Price first, then time.
Precedes(a, b) ==
  \/ Better(resting[a].side, resting[a].price, resting[b].price)
  \/ resting[a].price = resting[b].price /\ <<a, b>> \in older

Liquidity(req) == MapThenSumSet(LAMBDA id : resting[id].quantity, Tradable(req))

Remove(id) ==
  /\ resting' = [x \in Live \ {id} |-> resting[x]]
  /\ older'   = {pair \in older : pair[1] # id /\ pair[2] # id}

Shrink(id, qty) ==
  /\ resting' = [resting EXCEPT ![id].quantity = qty]
  /\ UNCHANGED older

Answer(status, filled, rest) ==
  /\ phase' = "idle" /\ call' = [id |-> NoId] /\ left' = 0
  /\ tape'   = [resting |-> NoId]
  /\ answer' = [status |-> status, filled |-> filled, left |-> rest]

Valid(req) ==
  /\ req.qty > 0 /\ req.id # NoId /\ req.id \notin Live
  /\ IsMarket(req) \/ req.price \in Window

\* A fill-or-kill order the book cannot absorb; a post-only one that would
\* trade.  (A post-only market order has no price to compare: it may be killed
\* either way, and neither trades nor rests.)
Killed(req) ==
  \/ req.tif = "FOK" /\ Liquidity(req) < req.qty
  \/ req.tif = "PostOnly" /\ ~IsMarket(req) /\ Tradable(req) # {}

Consider(req) ==
  \/ /\ Answer("Rejected", 0, 0)
     /\ ~Valid(req)
     /\ UNCHANGED <<resting, older>>
  \/ /\ Answer("Cancelled", 0, req.qty)
     /\ Valid(req)
     /\ Killed(req) \/ (IsMarket(req) /\ req.tif = "PostOnly")
     /\ UNCHANGED <<resting, older>>
  \/ /\ phase' = "working" /\ call' = req /\ left' = req.qty
     /\ tape' = [resting |-> NoId]
     /\ Valid(req) /\ ~Killed(req)
     /\ UNCHANGED <<resting, older, answer>>

Submit == phase = "idle" /\ \E req \in Requests : Consider(req)

MayTrade == IF call.tif = "PostOnly" THEN {} ELSE Tradable(call)

Trade ==
  /\ phase = "working" /\ left > 0
  /\ \E id \in MayTrade :
       LET qty == IF left < resting[id].quantity THEN left ELSE resting[id].quantity
       IN  /\ \A other \in MayTrade : ~Precedes(other, id)
           /\ tape' = [resting |-> id, price |-> resting[id].price, quantity |-> qty]
           /\ left' = left - qty
           /\ IF qty = resting[id].quantity THEN Remove(id)
              ELSE Shrink(id, resting[id].quantity - qty)
  /\ UNCHANGED <<phase, call, answer>>

\* The caller's trade callback may throw: the call ends, what it has traded
\* before stands, and the rest of the order is gone.
Throw ==
  /\ phase = "working" /\ left > 0 /\ MayTrade # {}
  /\ Answer("Threw", 0, 0)
  /\ UNCHANGED <<resting, older>>

Done == phase = "working" /\ (left = 0 \/ MayTrade = {})

Fulfil ==
  /\ Done /\ left = 0
  /\ Answer("FullyFilled", call.qty, 0)
  /\ UNCHANGED <<resting, older>>

Drop ==
  /\ Done /\ left > 0
  /\ call.tif = "IOC" \/ (IsMarket(call) /\ call.tif # "FOK")
  /\ Answer(IF left < call.qty THEN "PartiallyFilled" ELSE "Cancelled",
            call.qty - left, left)
  /\ UNCHANGED <<resting, older>>

\* Neither an IOC, a FOK nor a market order ever rests.
MustRest ==
  Done /\ left > 0 /\ ~IsMarket(call) /\ call.tif \in {"GTC", "Day", "PostOnly"}

Rest ==
  /\ MustRest /\ Cardinality(Live) < Capacity
  /\ LET new == [side |-> call.side, price |-> call.price, quantity |-> left]
     IN  /\ resting' = [x \in Live \cup {call.id} |-> IF x = call.id THEN new ELSE resting[x]]
         /\ older' = older \cup
              {<<x, call.id>> : x \in {y \in Live : /\ resting[y].side = call.side
                                                    /\ resting[y].price = call.price}}
  /\ Answer(IF left < call.qty THEN "PartiallyFilled" ELSE "Accepted",
            call.qty - left, left)

\* "Slab exhaustion = configuration bug": only when the book really is full,
\* and before anything traded.
Abort ==
  /\ MustRest /\ Cardinality(Live) = Capacity /\ left = call.qty
  /\ phase' = "aborted"
  /\ UNCHANGED <<resting, older, call, left, tape, answer>>

Cancel ==
  /\ phase = "idle"
  /\ \E id \in OrderIds :
       \/ id \notin Live /\ Answer("False", 0, 0) /\ UNCHANGED <<resting, older>>
       \/ id \in Live /\ Answer("True", 0, 0) /\ Remove(id)

Reduce ==
  /\ phase = "idle"
  /\ \E id \in OrderIds, by \in Quantities :
       \/ id \notin Live /\ Answer("False", 0, 0) /\ UNCHANGED <<resting, older>>
       \/ /\ id \in Live /\ Answer("True", 0, 0)
          /\ IF by < resting[id].quantity THEN Shrink(id, resting[id].quantity - by)
             ELSE Remove(id)

\* "A modify of price or an upward quantity revision loses time priority; a
\* same-or-lower quantity at the same price retains priority."
Modify ==
  /\ phase = "idle"
  /\ \E id \in OrderIds, qty \in Quantities, price \in Prices :
       \/ id \notin Live /\ Answer("Rejected", 0, 0) /\ UNCHANGED <<resting, older>>
       \/ /\ id \in Live /\ price = resting[id].price /\ qty \in 1 .. resting[id].quantity
          /\ Shrink(id, qty)
          /\ Answer("Accepted", 0, qty)
       \/ /\ id \in Live /\ ~(price = resting[id].price /\ qty \in 1 .. resting[id].quantity)
          /\ Remove(id)
          /\ phase' = "resubmit"
          /\ call' = [id |-> id, side |-> resting[id].side, type |-> "Limit",
                      tif |-> "GTC", price |-> price, qty |-> qty]
          /\ tape' = [resting |-> NoId]
          /\ UNCHANGED <<left, answer>>

Resubmit == phase = "resubmit" /\ Consider(call)

Init ==
  /\ resting = [id \in {} |-> 0] /\ older = {}
  /\ phase = "idle" /\ call = [id |-> NoId] /\ left = 0 /\ tape = [resting |-> NoId]
  /\ answer = [status |-> "None", filled |-> 0, left |-> 0]

Next == Submit \/ Trade \/ Throw \/ Fulfil \/ Drop \/ Rest \/ Abort
        \/ Cancel \/ Reduce \/ Modify \/ Resubmit

Spec == Init /\ [][Next]_vars

=============================================================================
