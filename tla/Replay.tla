-------------------------------- MODULE Replay --------------------------------
(***************************************************************************)
(* The replay of an exchange's tape into the engine: class ReplayHandler   *)
(* of src/replay.cpp, over OrderBook.                                      *)
(*                                                                         *)
(* The tape is external.  Here an exchange writes it, one message at a     *)
(* time, and the handler deals with each before the next is read, as       *)
(* parse() calls it.  What is assumed of the exchange is what the ITCH     *)
(* protocol says: a symbol is announced before its orders, references are  *)
(* unique over all symbols, an order's messages name orders that are on    *)
(* the book, and the book of a symbol is not crossed.                      *)
(*                                                                         *)
(* Two messages that call the same engine operation with the same fields   *)
(* are one action: E, C and X, and A and F.  Latencies are taken around    *)
(* the calls and are the subject of ReplayProgram.                         *)
(***************************************************************************)
EXTENDS OrderBook, TargetSymbol

CONSTANTS
  WirePrices,  \* the prices on the tape
  itch_tick,   \* wire prices per engine tick
  MaxListed    \* how many orders the exchange lists (bound of the model)

ASSUME ReplayAssumption ==
  WirePrices \subseteq Nat /\ itch_tick \in Nat \ {0} /\ MaxListed \in Nat

VARIABLES
  replacement,  \* what on_order_replace has still to submit, between its calls
  announced,    \* exchange: the locates whose directory message is out
  listed        \* exchange: the orders on its books, oldest first

tapeVars   == <<announced, listed>>
replayVars == <<vars, target_locate, replacement, tapeVars>>

EnginePrice(wire) == wire \div itch_tick

\* The handler has dealt with the last message.
Settled == pc = "idle" /\ replacement = NoSubmission

-----------------------------------------------------------------------------
(* ReplayHandler.                                                          *)

Dropped == UNCHANGED <<vars, replacement>>

Passive(ref, side, wire, shares) ==
  [id |-> ref, side |-> side, type |-> "Limit", tif |-> "GTC",
   price |-> EnginePrice(wire), qty |-> shares]

OnAddOrder(o) ==
  IF Filtered(o.locate) THEN Dropped
  ELSE Enter(Passive(o.ref, o.side, o.price, o.shares)) /\ UNCHANGED replacement

\* OrderExecuted, OrderExecutedWithPrice and OrderCancel.
OnDecrease(o, shares) ==
  IF Filtered(o.locate) THEN Dropped
  ELSE ReduceOne(o.ref, shares) /\ UNCHANGED replacement

OnOrderDelete(o) ==
  IF Filtered(o.locate) THEN Dropped
  ELSE CancelOne(o.ref) /\ UNCHANGED replacement

\* (Mutant) The new order is taken for a bid, since the message names no side.
OnOrderReplaceUnsided(o, ref, wire, shares) ==
  LET original == MapFind(idMap, o.ref)
  IN  IF Filtered(o.locate) \/ original = nullptr THEN Dropped
      ELSE /\ CancelOne(o.ref)
           /\ replacement' = Passive(ref, "Buy", wire, shares)

\* A replace of an order the engine does not hold is skipped; otherwise the
\* original is cancelled, and its side is kept for the submit that follows.
OnOrderReplace(o, ref, wire, shares) ==
  LET original == MapFind(idMap, o.ref)
  IN  IF Filtered(o.locate) \/ original = nullptr THEN Dropped
      ELSE /\ CancelOne(o.ref)
           /\ replacement' = Passive(ref, order[original].side, wire, shares)

SubmitReplacement ==
  /\ pc = "idle" /\ replacement # NoSubmission
  /\ Enter(replacement)
  /\ replacement' = NoSubmission
  /\ UNCHANGED <<target_locate, tapeVars>>

-----------------------------------------------------------------------------
(* The exchange.                                                           *)

Unused == OrderIds \ {listed[i].ref : i \in DOMAIN listed}

\* The order o would neither cross nor lock the book it joins.
Uncrossed(o, others) ==
  \A i \in DOMAIN others :
    others[i].locate = o.locate /\ others[i].side # o.side =>
      IF o.side = "Buy" THEN o.price < others[i].price ELSE o.price > others[i].price

\* unseen: the engine cannot know the order, since its price, or that of an
\* order it replaces, is outside the engine's window.
Listing(ref, locate, side, wire, shares, unseen) ==
  [ref |-> ref, locate |-> locate, side |-> side, price |-> wire, shares |-> shares,
   unseen |-> unseen \/ ~InRange(EnginePrice(wire))]

AnnounceSymbol ==
  /\ Settled
  /\ \E locate \in Locates \ announced :
       announced' = announced \cup {locate} /\ OnStockDirectory(locate)
  /\ UNCHANGED <<vars, replacement, listed>>

ListOrder ==
  /\ Settled /\ Len(listed) < MaxListed
  /\ \E ref \in Unused, locate \in announced, side \in Sides,
        wire \in WirePrices, shares \in Quantities \ {0} :
       LET o == Listing(ref, locate, side, wire, shares, FALSE)
       IN  Uncrossed(o, listed) /\ listed' = Append(listed, o) /\ OnAddOrder(o)
  /\ UNCHANGED <<target_locate, announced>>

\* A trade or a partial cancellation at the exchange.
DecreaseListed ==
  /\ Settled
  /\ \E i \in DOMAIN listed : \E shares \in 1 .. listed[i].shares :
       /\ listed' = IF shares = listed[i].shares THEN RemoveAt(listed, i)
                    ELSE [listed EXCEPT ![i].shares = @ - shares]
       /\ OnDecrease(listed[i], shares)
  /\ UNCHANGED <<target_locate, announced>>

DeleteListed ==
  /\ Settled
  /\ \E i \in DOMAIN listed : listed' = RemoveAt(listed, i) /\ OnOrderDelete(listed[i])
  /\ UNCHANGED <<target_locate, announced>>

\* The replacement has a reference of its own and queues last.
ReplaceListed ==
  /\ Settled
  /\ \E i \in DOMAIN listed, ref \in Unused, wire \in WirePrices, shares \in Quantities \ {0} :
       LET old == listed[i]
           new == Listing(ref, old.locate, old.side, wire, shares, old.unseen)
       IN  /\ Uncrossed(new, RemoveAt(listed, i))
           /\ listed' = Append(RemoveAt(listed, i), new)
           /\ OnOrderReplace(old, ref, wire, shares)
  /\ UNCHANGED <<target_locate, announced>>

TapeMessage == AnnounceSymbol \/ ListOrder \/ DecreaseListed \/ DeleteListed \/ ReplaceListed

-----------------------------------------------------------------------------

ReplayInit ==
  /\ Init
  /\ NoTarget /\ replacement = NoSubmission
  /\ announced = {} /\ listed = <<>>

\* The rest of a call into the engine.
EngineContinues == Continue /\ UNCHANGED <<target_locate, replacement, tapeVars>>

ReplayNext == TapeMessage \/ SubmitReplacement \/ EngineContinues

ReplaySpec == ReplayInit /\ [][ReplayNext]_replayVars

-----------------------------------------------------------------------------

\* The engine shows the exchange's order o in slot s.
Shows(s, o) == order[s].id = o.ref /\ order[s].quantity = o.shares

\* After every message the engine's queues are the exchange's: each level holds
\* the listed orders of the wanted symbol at that price, with what is left of
\* them, in the order in which the exchange queues them, and nothing else.  Not
\* expected are the orders marked unseen: those outside the price window, and
\* whatever replaces them, since the handler then finds no original to take the
\* side from (replay.cpp:160-161).
MirrorsExchange ==
  Settled =>
    \A side \in Sides, l \in Levels :
      LET here  == fifo[side][l]
          there == {i \in DOMAIN listed :
                      /\ listed[i].locate = Wanted /\ listed[i].side = side
                      /\ EnginePrice(listed[i].price) = IdxToPrice(l) /\ ~listed[i].unseen}
      IN  /\ \A i \in there : \E k \in DOMAIN here : Shows(here[k], listed[i])
          /\ \A k \in DOMAIN here : \E i \in there : Shows(here[k], listed[i])
          /\ \A i, j \in there, a, b \in DOMAIN here :
               Shows(here[a], listed[i]) /\ Shows(here[b], listed[j]) /\ a < b => i < j

\* "We use the book's passive primitives rather than running our own matching":
\* no message makes the engine match.
NeverMatches == pc # "match"

\* An engine with room for all the orders the exchange lists for the symbol
\* does not run out of slots, not even in the middle of a replace.
NeverRunsOut == pc # "aborted"

=============================================================================
