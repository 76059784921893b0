------------------------------ MODULE SpscRing ------------------------------
(***************************************************************************)
(* SpscRing<T> (include/lob/spsc_ring.hpp) with a producer that pushes the *)
(* numbers 1 .. Items, retrying when the ring is full, and a consumer that *)
(* polls, as in bench_spsc_ring.cpp and test_spsc_ring.cpp.                *)
(*                                                                         *)
(* Memory model.  head_ and tail_ each have one writer: their stores form  *)
(* a sequence.  A load by the other thread returns any store that is not   *)
(* older than the last one it saw; the writer's own relaxed load returns   *)
(* its last store.  A release store carries the count of buffer accesses   *)
(* its thread has made, and an acquire load that reads it makes them       *)
(* happen before what follows.  A buffer access the other side's access    *)
(* does not happen before is a data race.                                  *)
(***************************************************************************)
EXTENDS Integers, SequencesExt

CONSTANTS Capacity,    \* mask_ + 1
          CounterMod,  \* 2^64: the cursors are std::size_t and wrap
          Items        \* how many numbers are pushed (bound of the model)

ASSUME RingAssumption ==
  /\ Capacity \in Nat \ {0, 1}
  /\ CounterMod \in Nat /\ CounterMod > Capacity /\ CounterMod % Capacity = 0
  /\ Items \in Nat

VARIABLES
  buf,          \* buf_
  heads, tails, \* the stores to head_ and tail_, in modification order
  cachedTail, cachedHead,   \* cached_tail_ and cached_head_
  producer, consumer,       \* where try_push and try_pop stand
  writes, reads,            \* buffer accesses each thread has made
  readsSeen, writesSeen,    \* those of the other that happen before its own
  tailFloor, headFloor,     \* the oldest store a load may still return
  out                       \* the last number popped

producerVars == <<heads, cachedTail, producer, writes, readsSeen, tailFloor>>
consumerVars == <<tails, cachedHead, consumer, reads, writesSeen, headFloor, out>>
vars == <<buf, producerVars, consumerVars>>

Slots == 0 .. Capacity - 1

head == Last(heads).value   \* what the producer's relaxed load returns
tail == Last(tails).value   \* what the consumer's relaxed load returns

Minus(a, b) == (a - b) % CounterMod

\* (Mutant) One slot is kept empty.
FullTooEarly(cached) == Minus(head + 1, cached) >= Capacity

\* (Mutant) One item too many fits.
FullTooLate(cached) == Minus(head + 1, cached) > Capacity + 1

Full(cached) == Minus(head + 1, cached) > Capacity

-----------------------------------------------------------------------------
(* try_push                                                                *)

\* (Mutant) The cached tail is never refreshed.
PushCheckNoRefresh ==
  /\ producer = "idle" /\ writes < Items
  /\ ~Full(cachedTail) /\ producer' = "write"
  /\ UNCHANGED <<buf, heads, cachedTail, writes, readsSeen, tailFloor, consumerVars>>

\* Up to the two returns: the cached tail says there is room, or a load of
\* tail_ says so, or the push fails and the producer will try again.
PushCheck ==
  /\ producer = "idle" /\ writes < Items
  /\ \/ /\ ~Full(cachedTail)
        /\ producer' = "write"
        /\ UNCHANGED <<cachedTail, readsSeen, tailFloor>>
     \/ /\ Full(cachedTail)
        /\ \E i \in tailFloor .. Len(tails) :
             /\ cachedTail' = tails[i].value
             /\ readsSeen'  = tails[i].reads
             /\ tailFloor'  = i
             /\ producer'   = IF Full(tails[i].value) THEN "idle" ELSE "write"
  /\ UNCHANGED <<buf, heads, writes, consumerVars>>

PushWrite ==
  /\ producer = "write"
  /\ buf' = [buf EXCEPT ![head % Capacity] = writes + 1]
  /\ writes' = writes + 1
  /\ producer' = "publish"
  /\ UNCHANGED <<heads, cachedTail, readsSeen, tailFloor, consumerVars>>

PushPublish ==
  /\ producer = "publish"
  /\ heads' = Append(heads, [value |-> (head + 1) % CounterMod, writes |-> writes])
  /\ producer' = "idle"
  /\ UNCHANGED <<buf, cachedTail, writes, readsSeen, tailFloor, consumerVars>>

-----------------------------------------------------------------------------
(* try_pop                                                                 *)

PopCheck ==
  /\ consumer = "idle"
  /\ \/ /\ tail # cachedHead
        /\ consumer' = "read"
        /\ UNCHANGED <<cachedHead, writesSeen, headFloor>>
     \/ /\ tail = cachedHead
        /\ \E i \in headFloor .. Len(heads) :
             /\ cachedHead' = heads[i].value
             /\ writesSeen' = heads[i].writes
             /\ headFloor'  = i
             /\ consumer'   = IF tail = heads[i].value THEN "idle" ELSE "read"
  /\ UNCHANGED <<buf, tails, reads, out, producerVars>>

\* (Mutant) The slot is given back before it is read.
PopReadUnread ==
  /\ consumer = "read"
  /\ out' = buf[tail % Capacity]
  /\ consumer' = "publish"
  /\ UNCHANGED <<buf, tails, cachedHead, reads, writesSeen, headFloor, producerVars>>

PopRead ==
  /\ consumer = "read"
  /\ out' = buf[tail % Capacity]
  /\ reads' = reads + 1
  /\ consumer' = "publish"
  /\ UNCHANGED <<buf, tails, cachedHead, writesSeen, headFloor, producerVars>>

PopPublish ==
  /\ consumer = "publish"
  /\ tails' = Append(tails, [value |-> (tail + 1) % CounterMod, reads |-> reads])
  /\ consumer' = "idle"
  /\ UNCHANGED <<buf, cachedHead, reads, writesSeen, headFloor, out, producerVars>>

-----------------------------------------------------------------------------

\* A store becomes visible to the other thread in the end.
HeadArrives ==
  /\ headFloor < Len(heads) /\ headFloor' = Len(heads)
  /\ UNCHANGED <<buf, producerVars, tails, cachedHead, consumer, reads, writesSeen, out>>
TailArrives ==
  /\ tailFloor < Len(tails) /\ tailFloor' = Len(tails)
  /\ UNCHANGED <<buf, consumerVars, heads, cachedTail, producer, writes, readsSeen>>

Init ==
  /\ buf = [s \in Slots |-> 0]
  /\ heads = <<[value |-> 0, writes |-> 0]>> /\ tails = <<[value |-> 0, reads |-> 0]>>
  /\ cachedTail = 0 /\ cachedHead = 0
  /\ producer = "idle" /\ consumer = "idle"
  /\ writes = 0 /\ reads = 0 /\ readsSeen = 0 /\ writesSeen = 0
  /\ tailFloor = 1 /\ headFloor = 1
  /\ out = 0

Push == PushCheck \/ PushWrite \/ PushPublish
Pop  == PopCheck \/ PopRead \/ PopPublish

Next == Push \/ Pop \/ HeadArrives \/ TailArrives

\* Both threads keep running, and stores arrive.
Spec == Init /\ [][Next]_vars
             /\ WF_vars(Push) /\ WF_vars(Pop)
             /\ WF_vars(HeadArrives) /\ WF_vars(TailArrives)

-----------------------------------------------------------------------------

Threads == {"idle", "write", "read", "publish"}

\* Every variable has its type.
TypeOK ==
  /\ buf \in [Slots -> 0 .. Items]
  /\ heads \in Seq([value: 0 .. CounterMod - 1, writes: 0 .. Items])
  /\ tails \in Seq([value: 0 .. CounterMod - 1, reads: 0 .. Items])
  /\ {cachedTail, cachedHead} \subseteq 0 .. CounterMod - 1
  /\ {producer, consumer} \subseteq Threads
  /\ {writes, reads, readsSeen, writesSeen, out} \subseteq 0 .. Items
  /\ tailFloor \in 1 .. Len(tails) /\ headFloor \in 1 .. Len(heads)

\* A thread touches a slot only after the other's last access to it: the write
\* of the item it reads, or the read of the item it overwrites.  Unread items
\* are never overwritten and unwritten slots never read, with cached cursors
\* that are out of date and cursors that wrap around.
NoDataRace ==
  /\ producer = "write" => readsSeen >= writes + 1 - Capacity
  /\ consumer = "read"  => writesSeen >= reads + 1

\* size_approx(), called by the producer or the consumer between its own calls,
\* lies between 0 and the capacity whatever the other thread is doing.
SizeApproxInRange ==
  /\ producer = "idle" =>
       \A i \in tailFloor .. Len(tails) : Minus(head, tails[i].value) \in 0 .. Capacity
  /\ consumer = "idle" =>
       \A i \in headFloor .. Len(heads) : Minus(heads[i].value, tail) \in 0 .. Capacity

\* "Returns false if the ring is full", and "empty", at every value the wrapped
\* cursors take: the check of a thread that stands before a push or pop refuses
\* exactly if, as of the store its load returns, all the slots hold an item, or
\* none does.
RefusalsExact ==
  /\ producer = "idle" =>
       \A i \in tailFloor .. Len(tails) :
         Full(tails[i].value) <=> Len(heads) - i = Capacity
  /\ consumer = "idle" =>
       \A i \in headFloor .. Len(heads) :
         tail = heads[i].value <=> i = Len(tails)

Fifo == INSTANCE BoundedFifo WITH
  queue    <- [i \in 1 .. Len(heads) - Len(tails) |-> buf[(tail + i - 1) % Capacity]],
  sent     <- Len(heads) - 1,
  received <- IF consumer = "publish" THEN reads - 1 ELSE out

\* The ring is a bounded queue: a push takes effect when head_ is stored, a pop
\* when tail_ is, and each pop returns the oldest number still in the ring.
ImplementsBoundedFifo == Fifo!Spec

\* The two threads cannot wait for each other for ever, each on a cached cursor
\* or a store that has not arrived: every number gets through.
EveryItemArrives == <>(Len(tails) = Items + 1)

=============================================================================
