---------------------------- MODULE SpscRingProofs ----------------------------
(***************************************************************************)
(* The ring keeps its two threads apart and delivers every item once and   *)
(* in order, for every capacity, cursor width and number of items.         *)
(*                                                                         *)
(* The argument counts.  Every store, cached value and buffer access       *)
(* stands for a number of items, and the invariant puts these numbers in   *)
(* order:                                                                  *)
(*                                                                         *)
(*     readsSeen <= popped <= reads <= writesSeen <= pushed <= writes      *)
(*               <= readsSeen + Capacity                                   *)
(*                                                                         *)
(* An old cursor is a smaller number, so it errs on the side of refusing;  *)
(* and as all differences stay below the modulus, those of the wrapped     *)
(* cursors are exact.                                                      *)
(***************************************************************************)
EXTENDS SpscRing, OperatorLemmas

\* The items given to the consumer and given back to the producer.
pushed == Len(heads) - 1
popped == Len(tails) - 1

\* The cursor that stands for k items, and the slot of item k + 1.
Wrap(k) == k % CounterMod
Slot(k) == k % Capacity

\* Store number k + 1 publishes k items, and carries the accesses made to them.
Stores ==
  /\ Len(heads) >= 1
  /\ \A k \in 0 .. pushed :
       heads[k + 1] = [value |-> Wrap(k), writes |-> k]
  /\ Len(tails) >= 1
  /\ \A k \in 0 .. popped :
       tails[k + 1] = [value |-> Wrap(k), reads |-> k]

\* A thread is at most one access ahead of what it has published.
Accesses ==
  /\ writes = IF producer = "publish" THEN pushed + 1 ELSE pushed
  /\ reads  = IF consumer = "publish" THEN popped + 1 ELSE popped
  /\ producer = "write" => writes < Items
  /\ producer # "read" /\ consumer # "write"

\* A cached cursor is a store no newer than those a load may still return.
Seen ==
  /\ readsSeen < tailFloor  /\ cachedTail = Wrap(readsSeen)
  /\ writesSeen < headFloor /\ cachedHead = Wrap(writesSeen)

\* What has been seen of the other thread leaves room for one's own accesses.
Room ==
  /\ writes <= readsSeen + Capacity
  /\ producer = "write" => writes < readsSeen + Capacity
  /\ reads <= writesSeen
  /\ consumer = "read" => reads < writesSeen

\* Every item not yet given back is in its slot, and the last one read is out.
Contents ==
  /\ \A k \in popped .. writes - 1 : buf[Slot(k)] = k + 1
  /\ out = reads

IInv == TypeOK /\ Stores /\ Accesses /\ Seen /\ Room /\ Contents

-----------------------------------------------------------------------------
(* Counts and cursors                                                      *)

\* The cursors count further than the ring holds: whole multiples of Capacity,
\* and more than one of them.
LEMMA ModIsLarger ==
  /\ Capacity \in Nat \ {0} /\ Items \in Nat
  /\ CounterMod \in Nat \ {0} /\ CounterMod > Capacity + 1
<1>1. /\ Capacity \in Nat \ {0} /\ Capacity >= 2
      /\ CounterMod \in Nat \ {0} /\ CounterMod % Capacity = 0 /\ CounterMod > Capacity
      /\ Items \in Nat
  BY RingAssumption
<1>2. CounterMod >= 2 * Capacity
  BY <1>1, NextMultiple
<1> QED BY <1>1, <1>2

\* Where item number a goes.  Adding one to a wrapped cursor wraps the count, and
\* masking it names the slot of the count itself.
LEMMA Wraps ==
  ASSUME NEW a \in Nat
  PROVE  /\ Wrap(a) \in 0 .. CounterMod - 1
         /\ (Wrap(a) + 1) % CounterMod = Wrap(a + 1)
         /\ Wrap(a) % Capacity = Slot(a)
         /\ Slot(a) \in Slots
<1>1. /\ Capacity \in Nat \ {0} /\ CounterMod \in Nat \ {0} /\ CounterMod % Capacity = 0
      /\ a \in Int /\ a + 0 = a
  BY ModIsLarger, RingAssumption
<1>2. a % CounterMod \in 0 .. CounterMod - 1 /\ a % Capacity \in 0 .. Capacity - 1
  BY <1>1
<1>3. \A b \in Int : ((a % CounterMod) + b) % CounterMod = (a + b) % CounterMod
  BY <1>1, ModOfMod
<1>4. \A b \in Int : ((a % CounterMod) + b) % Capacity = (a + b) % Capacity
  BY <1>1, NestedMod
<1>5. (a % CounterMod) + 0 = a % CounterMod
  BY <1>2
<1> QED BY <1>1, <1>2, <1>3, <1>4, <1>5 DEF Slots, Wrap, Slot

\* Fewer than Capacity items apart, two items lie in different slots.
LEMMA SlotsApart ==
  ASSUME NEW a \in Nat, NEW b \in Nat, a < b, b < a + Capacity
  PROVE  Slot(a) # Slot(b)
<1>1. Capacity \in Nat \ {0}
  BY ModIsLarger
<1>2. a \in Int /\ b \in Int /\ a - b < Capacity /\ b - a < Capacity /\ a # b
  BY <1>1
<1> QED BY <1>1, <1>2, SameSlot DEF Slot

USE ModIsLarger

\* The difference of two wrapped cursors is the difference of the counts they
\* stand for, as long as that is a number of items the ring can hold.
LEMMA MinusExact ==
  ASSUME NEW a \in Int, NEW b \in Int, a - b \in 0 .. Capacity
  PROVE  /\ Minus(Wrap(a), Wrap(b)) = a - b
         /\ Minus(Wrap(a) + 1, Wrap(b)) = a + 1 - b
<1>1. CounterMod \in Nat \ {0} /\ CounterMod > Capacity + 1
  OBVIOUS
<1>2. \A d \in 0 .. Capacity + 1 : d % CounterMod = d
  BY <1>1, SmallMod
<1>3. \A c \in Int : (Wrap(a) + c - Wrap(b)) % CounterMod = (a + c - b) % CounterMod
  BY <1>1, Difference DEF Wrap
<1>4. a + 0 - b \in 0 .. Capacity + 1 /\ a + 1 - b \in 0 .. Capacity + 1
  OBVIOUS
<1>5. (a + 0 - b) % CounterMod = a + 0 - b /\ (a + 1 - b) % CounterMod = a + 1 - b
  BY <1>2, <1>4
<1>6. Wrap(a) \in Int /\ Wrap(b) \in Int
  BY <1>1 DEF Wrap
<1>7. Wrap(a) + 0 - Wrap(b) = Wrap(a) - Wrap(b) /\ a + 0 - b = a - b
  BY <1>6
<1>8. /\ (Wrap(a) + 0 - Wrap(b)) % CounterMod = a + 0 - b
      /\ (Wrap(a) + 1 - Wrap(b)) % CounterMod = a + 1 - b
  <2>1. /\ (Wrap(a) + 0 - Wrap(b)) % CounterMod = (a + 0 - b) % CounterMod
        /\ (Wrap(a) + 1 - Wrap(b)) % CounterMod = (a + 1 - b) % CounterMod
    BY <1>3
  <2> QED BY <1>5, <2>1
<1>9. (Wrap(a) - Wrap(b)) % CounterMod = a - b
  BY <1>7, <1>8
<1>10. Minus(Wrap(a), Wrap(b)) = a - b
  BY <1>9 DEF Minus
<1>11. \A c \in Int : Minus(c, Wrap(b)) = (c - Wrap(b)) % CounterMod
  BY DEF Minus
<1>12. Minus(Wrap(a) + 1, Wrap(b)) = (Wrap(a) + 1 - Wrap(b)) % CounterMod
  BY <1>6, <1>11
<1> QED BY <1>8, <1>10, <1>12

\* What the producer has seen read, what was given back, read, seen written,
\* published and written.
Ordered ==
  /\ pushed \in Nat /\ popped \in Nat
  /\ pushed + 1 = Len(heads) /\ popped + 1 = Len(tails)
  /\ readsSeen \in Nat /\ writesSeen \in Nat
  /\ reads \in Nat /\ writes \in Nat
  /\ headFloor \in Nat \ {0} /\ tailFloor \in Nat \ {0}
  /\ readsSeen <= tailFloor - 1 /\ tailFloor - 1 <= popped
  /\ popped <= reads /\ reads <= writesSeen
  /\ writesSeen <= headFloor - 1 /\ headFloor - 1 <= pushed
  /\ pushed <= writes /\ writes <= readsSeen + Capacity /\ writes <= Items

\* The handshake keeps the counts in this order.
LEMMA Order ==
  ASSUME IInv
  PROVE  Ordered
<1>1. Len(heads) \in Nat /\ Len(tails) \in Nat /\ Len(heads) >= 1 /\ Len(tails) >= 1
  BY LenProperties DEF IInv, TypeOK, Stores
<1>2. /\ pushed \in Nat /\ popped \in Nat
      /\ pushed + 1 = Len(heads) /\ popped + 1 = Len(tails)
  BY <1>1 DEF pushed, popped
<1>3. /\ readsSeen \in 0 .. Items /\ writesSeen \in 0 .. Items
      /\ reads \in 0 .. Items /\ writes \in 0 .. Items
      /\ tailFloor \in 1 .. Len(tails) /\ headFloor \in 1 .. Len(heads)
  BY DEF IInv, TypeOK
<1> QED BY <1>1, <1>2, <1>3 DEF IInv, Accesses, Seen, Room, Ordered

USE DEF Ordered

\* What the two cursors, the cached cursors and every store a load may return say
\* about the counts.
LEMMA Loads ==
  ASSUME IInv
  PROVE  /\ head = Wrap(pushed)
         /\ tail = Wrap(popped)
         /\ producer = "idle" =>
              /\ Full(cachedTail) <=> writes - readsSeen >= Capacity
              /\ \A k \in tailFloor - 1 .. popped :
                   /\ tails[k + 1].value = Wrap(k) /\ tails[k + 1].reads = k
                   /\ Minus(head, tails[k + 1].value) = pushed - k
                   /\ Full(tails[k + 1].value) <=> writes - k >= Capacity
         /\ consumer = "idle" =>
              /\ tail # cachedHead => reads < writesSeen
              /\ \A k \in headFloor - 1 .. pushed :
                   /\ heads[k + 1].value = Wrap(k) /\ heads[k + 1].writes = k
                   /\ Minus(heads[k + 1].value, tail) = k - popped
                   /\ tail # heads[k + 1].value => reads < k
<1>1. Ordered
  BY Order
<1>2. head = Wrap(pushed) /\ tail = Wrap(popped)
  <2>1. pushed \in 0 .. pushed /\ popped \in 0 .. popped
    BY <1>1
  <2>2. /\ heads[pushed + 1] = [value |-> Wrap(pushed), writes |-> pushed]
        /\ tails[popped + 1] = [value |-> Wrap(popped), reads |-> popped]
    BY <2>1 DEF IInv, Stores
  <2>3. /\ heads[Len(heads)] = [value |-> Wrap(pushed), writes |-> pushed]
        /\ tails[Len(tails)] = [value |-> Wrap(popped), reads |-> popped]
    BY <1>1, <2>2
  <2> QED BY <2>3 DEF head, tail, Last
<1>3. ASSUME producer = "idle"
      PROVE  Full(cachedTail) <=> writes - readsSeen >= Capacity
  <2>1. writes = pushed /\ cachedTail = Wrap(readsSeen)
    BY <1>1, <1>3 DEF IInv, Accesses, Seen
  <2>2. pushed - readsSeen \in 0 .. Capacity /\ pushed \in Int /\ readsSeen \in Int
    BY <1>1, <2>1
  <2>3. Minus(Wrap(pushed) + 1, Wrap(readsSeen)) = pushed + 1 - readsSeen
    BY <2>2, MinusExact
  <2> QED BY <1>1, <1>2, <2>1, <2>3 DEF Full
<1>4. ASSUME producer = "idle", NEW k \in tailFloor - 1 .. popped
      PROVE  /\ tails[k + 1].value = Wrap(k) /\ tails[k + 1].reads = k
             /\ Minus(head, tails[k + 1].value) = pushed - k
             /\ Full(tails[k + 1].value) <=> writes - k >= Capacity
  <2>1. writes = pushed
    BY <1>1, <1>4 DEF IInv, Accesses
  <2>2. tails[k + 1].value = Wrap(k) /\ tails[k + 1].reads = k
    <3>1. k \in 0 .. popped
      BY <1>1
    <3>2. tails[k + 1] = [value |-> Wrap(k), reads |-> k]
      BY <3>1 DEF IInv, Stores
    <3> QED BY <3>2
  <2>3. pushed - k \in 0 .. Capacity /\ pushed \in Int /\ k \in Int
    BY <1>1, <2>1
  <2>4. /\ Minus(Wrap(pushed), Wrap(k)) = pushed - k
        /\ Minus(Wrap(pushed) + 1, Wrap(k)) = pushed + 1 - k
    BY <2>3, MinusExact
  <2>5. Full(tails[k + 1].value) <=> writes - k >= Capacity
    <3>1. pushed + 1 - k > Capacity <=> writes - k >= Capacity
      BY <2>1, <2>3
    <3> QED BY <1>2, <2>2, <2>4, <3>1 DEF Full
  <2> QED BY <1>2, <2>2, <2>4, <2>5
<1>5. ASSUME consumer = "idle", tail # cachedHead
      PROVE  reads < writesSeen
  <2>1. reads = popped /\ cachedHead = Wrap(writesSeen)
    BY <1>1, <1>5 DEF IInv, Seen, Accesses
  <2> QED BY <1>1, <1>2, <1>5, <2>1
<1>6. ASSUME consumer = "idle", NEW k \in headFloor - 1 .. pushed
      PROVE  /\ heads[k + 1].value = Wrap(k) /\ heads[k + 1].writes = k
             /\ Minus(heads[k + 1].value, tail) = k - popped
             /\ tail # heads[k + 1].value => reads < k
  <2>1. reads = popped
    BY <1>1, <1>6 DEF IInv, Accesses
  <2>2. heads[k + 1].value = Wrap(k) /\ heads[k + 1].writes = k
    <3>1. k \in 0 .. pushed
      BY <1>1
    <3>2. heads[k + 1] = [value |-> Wrap(k), writes |-> k]
      BY <3>1 DEF IInv, Stores
    <3> QED BY <3>2
  <2>3. k - popped \in 0 .. Capacity /\ popped \in Int /\ k \in Int
    BY <1>1, <2>1
  <2>4. Minus(Wrap(k), Wrap(popped)) = k - popped
    BY <2>3, MinusExact
  <2>5. tail # heads[k + 1].value => k # popped
    BY <1>2, <2>2
  <2>6. tail # heads[k + 1].value => reads < k
    BY <1>1, <2>1, <2>5
  <2> QED BY <1>2, <2>2, <2>4, <2>6
<1> QED BY <1>2, <1>3, <1>4, <1>5, <1>6

-----------------------------------------------------------------------------
(* The invariant                                                           *)

\* The empty ring.
LEMMA InitInv == Init => IInv
<1> SUFFICES ASSUME Init PROVE IInv
  OBVIOUS
<1>1. CounterMod \in Nat \ {0} /\ Wrap(0) = 0 /\ Capacity \in Nat
  BY SmallMod DEF Wrap
<1>2. /\ Len(heads) = 1 /\ Len(tails) = 1
      /\ heads[1] = [value |-> 0, writes |-> 0] /\ tails[1] = [value |-> 0, reads |-> 0]
  BY DEF Init
<1>3. TypeOK
  <2>1. /\ heads \in Seq([value : 0 .. CounterMod - 1, writes : 0 .. Items])
        /\ tails \in Seq([value : 0 .. CounterMod - 1, reads : 0 .. Items])
    BY <1>1 DEF Init
  <2> QED BY <1>1, <1>2, <2>1 DEF Init, TypeOK, Threads
<1>4. Stores
  <2>1. pushed = 0 /\ popped = 0
    BY <1>2 DEF pushed, popped
  <2>2. /\ \A k \in 0 .. 0 : heads[k + 1] = [value |-> Wrap(k), writes |-> k]
        /\ \A k \in 0 .. 0 : tails[k + 1] = [value |-> Wrap(k), reads |-> k]
    BY <1>1, <1>2
  <2> QED BY <1>2, <2>1, <2>2 DEF Stores
<1>5. Accesses /\ Seen /\ Room /\ Contents
  BY <1>1, <1>2 DEF Init, Accesses, Seen, Room, Contents, pushed, popped
<1> QED BY <1>3, <1>4, <1>5 DEF IInv

\* Looking for room, in the cached tail or in any store to tail_ that a load may
\* return, finds none that is not there.
LEMMA PushCheckInv == IInv /\ PushCheck => IInv'
<1> SUFFICES ASSUME IInv, PushCheck PROVE IInv'
  OBVIOUS
<1>1. Ordered
  BY Order
<1>2. /\ producer = "idle" /\ writes < Items
      /\ UNCHANGED <<buf, heads, writes, tails, cachedHead, consumer, reads, writesSeen,
                     headFloor, out>>
      /\ pushed' = pushed /\ popped' = popped
  BY DEF PushCheck, consumerVars, pushed, popped
<1>3. PICK seen \in readsSeen .. popped :
        /\ readsSeen' = seen /\ cachedTail' = Wrap(seen)
        /\ tailFloor' \in seen + 1 .. Len(tails)
        /\ \/ producer' = "idle"
           \/ producer' = "write" /\ writes < seen + Capacity
  <2>1. CASE /\ ~Full(cachedTail) /\ producer' = "write"
             /\ UNCHANGED <<cachedTail, readsSeen, tailFloor>>
    <3>1. writes - readsSeen < Capacity
      BY <1>1, <1>2, <2>1, Loads
    <3>2. tailFloor \in readsSeen + 1 .. Len(tails) /\ readsSeen \in readsSeen .. popped
      BY <1>1
    <3>3. cachedTail = Wrap(readsSeen)
      BY DEF IInv, Seen
    <3> QED BY <1>1, <2>1, <3>1, <3>2, <3>3
  <2>2. CASE \E i \in tailFloor .. Len(tails) :
               /\ cachedTail' = tails[i].value /\ readsSeen' = tails[i].reads /\ tailFloor' = i
               /\ producer' = IF Full(tails[i].value) THEN "idle" ELSE "write"
    <3>1. PICK i \in tailFloor .. Len(tails) :
               /\ cachedTail' = tails[i].value /\ readsSeen' = tails[i].reads /\ tailFloor' = i
               /\ producer' = IF Full(tails[i].value) THEN "idle" ELSE "write"
      BY <2>2
    <3>2. PICK seen \in tailFloor - 1 .. popped : i = seen + 1
      <4>1. i - 1 \in tailFloor - 1 .. popped /\ i = (i - 1) + 1
        BY <1>1
      <4> QED BY <4>1
    <3>3. /\ tails[seen + 1].value = Wrap(seen) /\ tails[seen + 1].reads = seen
          /\ Full(tails[seen + 1].value) <=> writes - seen >= Capacity
      BY <1>2, Loads
    <3>4. seen \in readsSeen .. popped /\ i \in seen + 1 .. Len(tails)
      BY <1>1, <3>2
    <3> QED BY <1>1, <3>1, <3>2, <3>3, <3>4
  <2> QED BY <1>2, <2>1, <2>2 DEF PushCheck
<1>4. seen \in 0 .. Items /\ seen \in Nat /\ Wrap(seen) \in 0 .. CounterMod - 1
  BY <1>1, <1>3, Wraps
<1>5. TypeOK'
  <2>1. tailFloor' \in 1 .. Len(tails)
    BY <1>1, <1>3
  <2>2. readsSeen' \in 0 .. Items /\ cachedTail' \in 0 .. CounterMod - 1 /\ producer' \in Threads
    BY <1>3, <1>4 DEF Threads
  <2> QED BY <1>2, <2>1, <2>2 DEF IInv, TypeOK
<1>6. Stores' /\ Contents'
  BY <1>2 DEF IInv, Stores, Contents
<1>7. Accesses'
  BY <1>2, <1>3 DEF IInv, Accesses
<1>8. Seen'
  <2>1. readsSeen' < tailFloor'
    <3>1. PICK n \in seen + 1 .. Len(tails) : tailFloor' = n
      BY <1>3
    <3> QED BY <1>1, <1>3, <3>1
  <2> QED BY <1>2, <1>3, <2>1 DEF IInv, Seen
<1>9. Room'
  BY <1>1, <1>2, <1>3 DEF IInv, Room
<1> QED BY <1>5, <1>6, <1>7, <1>8, <1>9 DEF IInv

\* A write goes to a slot that holds no unread item.
LEMMA PushWriteInv == IInv /\ PushWrite => IInv'
<1> SUFFICES ASSUME IInv, PushWrite PROVE IInv'
  OBVIOUS
<1>1. Ordered
  BY Order
<1>2. /\ producer = "write" /\ producer' = "publish"
      /\ buf' = [buf EXCEPT ![head % Capacity] = writes + 1]
      /\ writes' = writes + 1
      /\ UNCHANGED <<heads, cachedTail, readsSeen, tailFloor, tails, cachedHead, consumer,
                     reads, writesSeen, headFloor, out>>
      /\ pushed' = pushed /\ popped' = popped
  BY DEF PushWrite, consumerVars, pushed, popped
<1>3. writes = pushed /\ writes < Items /\ writes < readsSeen + Capacity
  BY <1>2 DEF IInv, Accesses, Room
<1>4. buf \in [Slots -> 0 .. Items]
  BY DEF IInv, TypeOK
<1>5. head % Capacity = Slot(writes)
  <2>1. pushed \in Nat
    BY <1>1
  <2>2. Wrap(pushed) % Capacity = Slot(pushed)
    BY <2>1, Wraps
  <2> QED BY <1>3, <2>2, Loads
<1>6. TypeOK'
  <2>1. writes + 1 \in 0 .. Items
    BY <1>1, <1>3
  <2>2. buf' \in [Slots -> 0 .. Items]
    BY <1>2, <1>4, <2>1
  <2> QED BY <1>2, <2>1, <2>2 DEF IInv, TypeOK, Threads
<1>7. Stores'
  BY <1>2 DEF IInv, Stores
<1>8. Accesses'
  BY <1>1, <1>2, <1>3 DEF IInv, Accesses
<1>9. Seen'
  BY <1>2 DEF IInv, Seen
<1>10. Room'
  BY <1>1, <1>2, <1>3 DEF IInv, Room
<1>11. Contents'
  <2>1. ASSUME NEW k \in popped .. writes PROVE buf'[Slot(k)] = k + 1
    <3>1. Slot(k) \in Slots
      BY <1>1, Wraps
    <3>2. CASE k = writes
      BY <1>2, <1>4, <1>5, <3>1, <3>2
    <3>3. CASE k < writes
      <4>1. Slot(k) # Slot(writes)
        <5>1. k \in Nat /\ writes \in Nat /\ k < writes /\ writes < k + Capacity
          BY <1>1, <1>3, <3>3
        <5> QED BY <5>1, SlotsApart
      <4>2. buf[Slot(k)] = k + 1
        BY <1>1, <3>3 DEF IInv, Contents
      <4> QED BY <1>2, <1>4, <1>5, <3>1, <4>1, <4>2
    <3> QED BY <1>1, <3>2, <3>3
  <2> QED BY <1>1, <1>2, <2>1 DEF IInv, Contents
<1> QED BY <1>6, <1>7, <1>8, <1>9, <1>10, <1>11 DEF IInv

\* The store to head_ publishes exactly the items written.
LEMMA PushPublishInv == IInv /\ PushPublish => IInv'
<1> SUFFICES ASSUME IInv, PushPublish PROVE IInv'
  OBVIOUS
<1>1. Ordered
  BY Order
<1> DEFINE r == [value |-> (head + 1) % CounterMod, writes |-> writes]
<1>2. /\ producer = "publish" /\ producer' = "idle"
      /\ heads' = Append(heads, r)
      /\ UNCHANGED <<buf, writes, cachedTail, readsSeen, tailFloor, tails, cachedHead,
                     consumer, reads, writesSeen, headFloor, out>>
      /\ popped' = popped
  BY DEF PushPublish, consumerVars, popped
<1>3. writes = pushed + 1
  BY <1>2 DEF IInv, Accesses
<1>4. r = [value |-> Wrap(pushed + 1), writes |-> pushed + 1]
  <2>1. pushed \in Nat
    BY <1>1
  <2>2. (Wrap(pushed) + 1) % CounterMod = Wrap(pushed + 1)
    BY <2>1, Wraps
  <2> QED BY <1>3, <2>2, Loads
<1>5. r \in [value : 0 .. CounterMod - 1, writes : 0 .. Items]
  <2>1. pushed + 1 \in Nat /\ pushed + 1 \in 0 .. Items
    BY <1>1, <1>3
  <2>2. Wrap(pushed + 1) \in 0 .. CounterMod - 1
    BY <2>1, Wraps
  <2> QED BY <1>4, <2>1, <2>2
<1> HIDE DEF r
<1>6. heads \in Seq([value : 0 .. CounterMod - 1, writes : 0 .. Items])
  BY DEF IInv, TypeOK
<1>7. /\ heads' \in Seq([value : 0 .. CounterMod - 1, writes : 0 .. Items])
      /\ Len(heads') = Len(heads) + 1
      /\ \A i \in 1 .. Len(heads) : heads'[i] = heads[i]
      /\ heads'[Len(heads) + 1] = r
  BY <1>2, <1>5, <1>6, AppendProperties
<1>8. pushed' = pushed + 1
  BY <1>1, <1>7 DEF pushed
<1>9. TypeOK'
  <2>1. headFloor \in 1 .. Len(heads) + 1
    BY <1>1
  <2> QED BY <1>2, <1>7, <2>1 DEF IInv, TypeOK, Threads
<1>10. Stores'
  <2>1. ASSUME NEW k \in 0 .. pushed + 1
        PROVE  heads'[k + 1] = [value |-> Wrap(k), writes |-> k]
    <3>1. CASE k = pushed + 1
      BY <1>1, <1>4, <1>7, <3>1
    <3>2. CASE k <= pushed
      <4>1. heads[k + 1] = [value |-> Wrap(k), writes |-> k]
        BY <1>1, <3>2 DEF IInv, Stores
      <4>2. k + 1 \in 1 .. Len(heads)
        BY <1>1, <3>2
      <4> QED BY <1>7, <4>1, <4>2
    <3> QED BY <1>1, <3>1, <3>2
  <2>2. ASSUME NEW k \in 0 .. popped
        PROVE  tails'[k + 1] = [value |-> Wrap(k), reads |-> k]
    BY <1>2 DEF IInv, Stores
  <2>3. popped' = popped /\ Len(tails') = Len(tails) /\ Len(tails) >= 1 /\ Len(heads) + 1 >= 1
    BY <1>1, <1>2
  <2> QED BY <1>7, <1>8, <2>1, <2>2, <2>3 DEF Stores
<1>11. Accesses'
  BY <1>1, <1>2, <1>3, <1>8 DEF IInv, Accesses
<1>12. Seen' /\ Room' /\ Contents'
  BY <1>2 DEF IInv, Seen, Room, Contents
<1> QED BY <1>9, <1>10, <1>11, <1>12 DEF IInv

\* Looking for an item finds none that is not written.
LEMMA PopCheckInv == IInv /\ PopCheck => IInv'
<1> SUFFICES ASSUME IInv, PopCheck PROVE IInv'
  OBVIOUS
<1>1. Ordered
  BY Order
<1>2. /\ consumer = "idle"
      /\ UNCHANGED <<buf, tails, reads, out, heads, cachedTail, producer, writes, readsSeen,
                     tailFloor>>
      /\ pushed' = pushed /\ popped' = popped
  BY DEF PopCheck, producerVars, pushed, popped
<1>3. PICK seen \in writesSeen .. pushed :
        /\ writesSeen' = seen /\ cachedHead' = Wrap(seen)
        /\ headFloor' \in seen + 1 .. Len(heads)
        /\ \/ consumer' = "idle"
           \/ consumer' = "read" /\ reads < seen
  <2>1. CASE /\ tail # cachedHead /\ consumer' = "read"
             /\ UNCHANGED <<cachedHead, writesSeen, headFloor>>
    <3>1. reads < writesSeen
      BY <1>1, <1>2, <2>1, Loads
    <3>2. headFloor \in writesSeen + 1 .. Len(heads) /\ writesSeen \in writesSeen .. pushed
      BY <1>1
    <3>3. cachedHead = Wrap(writesSeen)
      BY DEF IInv, Seen
    <3> QED BY <1>1, <2>1, <3>1, <3>2, <3>3
  <2>2. CASE \E i \in headFloor .. Len(heads) :
               /\ cachedHead' = heads[i].value /\ writesSeen' = heads[i].writes /\ headFloor' = i
               /\ consumer' = IF tail = heads[i].value THEN "idle" ELSE "read"
    <3>1. PICK i \in headFloor .. Len(heads) :
               /\ cachedHead' = heads[i].value /\ writesSeen' = heads[i].writes /\ headFloor' = i
               /\ consumer' = IF tail = heads[i].value THEN "idle" ELSE "read"
      BY <2>2
    <3>2. PICK seen \in headFloor - 1 .. pushed : i = seen + 1
      <4>1. i - 1 \in headFloor - 1 .. pushed /\ i = (i - 1) + 1
        BY <1>1
      <4> QED BY <4>1
    <3>3. /\ heads[seen + 1].value = Wrap(seen) /\ heads[seen + 1].writes = seen
          /\ tail # heads[seen + 1].value => reads < seen
      BY <1>2, Loads
    <3>4. seen \in writesSeen .. pushed /\ i \in seen + 1 .. Len(heads)
      BY <1>1, <3>2
    <3> QED BY <1>1, <3>1, <3>2, <3>3, <3>4
  <2> QED BY <1>2, <2>1, <2>2 DEF PopCheck
<1>4. seen \in 0 .. Items /\ seen \in Nat /\ Wrap(seen) \in 0 .. CounterMod - 1
  BY <1>1, <1>3, Wraps
<1>5. TypeOK'
  <2>1. headFloor' \in 1 .. Len(heads)
    BY <1>1, <1>3
  <2>2. writesSeen' \in 0 .. Items /\ cachedHead' \in 0 .. CounterMod - 1 /\ consumer' \in Threads
    BY <1>3, <1>4 DEF Threads
  <2> QED BY <1>2, <2>1, <2>2 DEF IInv, TypeOK
<1>6. Stores' /\ Contents'
  BY <1>2 DEF IInv, Stores, Contents
<1>7. Accesses'
  BY <1>2, <1>3 DEF IInv, Accesses
<1>8. Seen'
  <2>1. writesSeen' < headFloor'
    <3>1. PICK n \in seen + 1 .. Len(heads) : headFloor' = n
      BY <1>3
    <3> QED BY <1>1, <1>3, <3>1
  <2> QED BY <1>2, <1>3, <2>1 DEF IInv, Seen
<1>9. Room'
  BY <1>1, <1>2, <1>3 DEF IInv, Room
<1> QED BY <1>5, <1>6, <1>7, <1>8, <1>9 DEF IInv

\* A read returns the oldest item not yet read.
LEMMA PopReadInv == IInv /\ PopRead => IInv'
<1> SUFFICES ASSUME IInv, PopRead PROVE IInv'
  OBVIOUS
<1>1. Ordered
  BY Order
<1>2. /\ consumer = "read" /\ consumer' = "publish"
      /\ out' = buf[tail % Capacity] /\ reads' = reads + 1
      /\ UNCHANGED <<buf, tails, cachedHead, writesSeen, headFloor, heads, cachedTail,
                     producer, writes, readsSeen, tailFloor>>
      /\ pushed' = pushed /\ popped' = popped
  BY DEF PopRead, producerVars, pushed, popped
<1>3. reads = popped /\ reads < writesSeen
  BY <1>2 DEF IInv, Accesses, Room
<1>4. out' = reads + 1
  <2>1. popped \in Nat
    BY <1>1
  <2>2. Wrap(popped) % Capacity = Slot(popped)
    BY <2>1, Wraps
  <2>4. tail % Capacity = Slot(popped)
    BY <2>2, Loads
  <2>5. buf[Slot(popped)] = popped + 1
    BY <1>1, <1>3 DEF IInv, Contents
  <2> QED BY <1>2, <1>3, <2>4, <2>5
<1>5. TypeOK'
  BY <1>1, <1>2, <1>3, <1>4 DEF IInv, TypeOK, Threads
<1>6. Stores'
  BY <1>2 DEF IInv, Stores
<1>7. Accesses'
  BY <1>1, <1>2, <1>3 DEF IInv, Accesses
<1>8. Seen'
  BY <1>2 DEF IInv, Seen
<1>9. Room'
  BY <1>1, <1>2, <1>3 DEF IInv, Room
<1>10. Contents'
  BY <1>2, <1>4 DEF IInv, Contents
<1> QED BY <1>5, <1>6, <1>7, <1>8, <1>9, <1>10 DEF IInv

\* The store to tail_ gives back exactly the items read.
LEMMA PopPublishInv == IInv /\ PopPublish => IInv'
<1> SUFFICES ASSUME IInv, PopPublish PROVE IInv'
  OBVIOUS
<1>1. Ordered
  BY Order
<1> DEFINE r == [value |-> (tail + 1) % CounterMod, reads |-> reads]
<1>2. /\ consumer = "publish" /\ consumer' = "idle"
      /\ tails' = Append(tails, r)
      /\ UNCHANGED <<buf, cachedHead, reads, writesSeen, headFloor, out, heads, cachedTail,
                     producer, writes, readsSeen, tailFloor>>
      /\ pushed' = pushed
  BY DEF PopPublish, producerVars, pushed
<1>3. reads = popped + 1
  BY <1>2 DEF IInv, Accesses
<1>4. r = [value |-> Wrap(popped + 1), reads |-> popped + 1]
  <2>1. popped \in Nat
    BY <1>1
  <2>2. (Wrap(popped) + 1) % CounterMod = Wrap(popped + 1)
    BY <2>1, Wraps
  <2> QED BY <1>3, <2>2, Loads
<1>5. r \in [value : 0 .. CounterMod - 1, reads : 0 .. Items]
  <2>1. popped + 1 \in Nat /\ popped + 1 \in 0 .. Items
    BY <1>1, <1>3
  <2>2. Wrap(popped + 1) \in 0 .. CounterMod - 1
    BY <2>1, Wraps
  <2> QED BY <1>4, <2>1, <2>2
<1> HIDE DEF r
<1>6. tails \in Seq([value : 0 .. CounterMod - 1, reads : 0 .. Items])
  BY DEF IInv, TypeOK
<1>7. /\ tails' \in Seq([value : 0 .. CounterMod - 1, reads : 0 .. Items])
      /\ Len(tails') = Len(tails) + 1
      /\ \A i \in 1 .. Len(tails) : tails'[i] = tails[i]
      /\ tails'[Len(tails) + 1] = r
  BY <1>2, <1>5, <1>6, AppendProperties
<1>8. popped' = popped + 1
  BY <1>1, <1>7 DEF popped
<1>9. TypeOK'
  <2>1. tailFloor \in 1 .. Len(tails) + 1
    BY <1>1
  <2> QED BY <1>2, <1>7, <2>1 DEF IInv, TypeOK, Threads
<1>10. Stores'
  <2>1. ASSUME NEW k \in 0 .. popped + 1
        PROVE  tails'[k + 1] = [value |-> Wrap(k), reads |-> k]
    <3>1. CASE k = popped + 1
      BY <1>1, <1>4, <1>7, <3>1
    <3>2. CASE k <= popped
      <4>1. tails[k + 1] = [value |-> Wrap(k), reads |-> k]
        BY <1>1, <3>2 DEF IInv, Stores
      <4>2. k + 1 \in 1 .. Len(tails)
        BY <1>1, <3>2
      <4> QED BY <1>7, <4>1, <4>2
    <3> QED BY <1>1, <3>1, <3>2
  <2>2. ASSUME NEW k \in 0 .. pushed
        PROVE  heads'[k + 1] = [value |-> Wrap(k), writes |-> k]
    BY <1>2 DEF IInv, Stores
  <2>3. pushed' = pushed /\ Len(heads') = Len(heads) /\ Len(heads) >= 1 /\ Len(tails) + 1 >= 1
    BY <1>1, <1>2
  <2> QED BY <1>7, <1>8, <2>1, <2>2, <2>3 DEF Stores
<1>11. Accesses'
  BY <1>1, <1>2, <1>3, <1>8 DEF IInv, Accesses
<1>12. Contents'
  BY <1>1, <1>2, <1>8 DEF IInv, Contents
<1>13. Seen' /\ Room'
  BY <1>2 DEF IInv, Seen, Room
<1> QED BY <1>9, <1>10, <1>11, <1>12, <1>13 DEF IInv

\* A store to head_ that arrives only narrows what a load may return.
LEMMA HeadArrivesInv == IInv /\ HeadArrives => IInv'
<1> SUFFICES ASSUME IInv, HeadArrives PROVE IInv'
  OBVIOUS
<1>1. Ordered
  BY Order
<1>2. /\ headFloor' = Len(heads) /\ headFloor < headFloor'
      /\ UNCHANGED <<buf, producerVars, tails, cachedHead, consumer, reads, writesSeen, out>>
      /\ pushed' = pushed /\ popped' = popped
  BY DEF HeadArrives, producerVars, consumerVars, pushed, popped
<1>3. TypeOK'
  <2>1. Len(heads) \in 1 .. Len(heads)
    BY <1>1
  <2> QED BY <1>2, <2>1 DEF IInv, TypeOK, producerVars, consumerVars
<1>4. Seen'
  BY <1>1, <1>2 DEF IInv, Seen, producerVars, consumerVars
<1>5. Stores' /\ Accesses' /\ Room' /\ Contents'
  BY <1>2 DEF IInv, Stores, Accesses, Room, Contents, producerVars, consumerVars
<1> QED BY <1>3, <1>4, <1>5 DEF IInv

\* A store to tail_ that arrives only narrows what a load may return.
LEMMA TailArrivesInv == IInv /\ TailArrives => IInv'
<1> SUFFICES ASSUME IInv, TailArrives PROVE IInv'
  OBVIOUS
<1>1. Ordered
  BY Order
<1>2. /\ tailFloor' = Len(tails) /\ tailFloor < tailFloor'
      /\ UNCHANGED <<buf, consumerVars, heads, cachedTail, producer, writes, readsSeen>>
      /\ pushed' = pushed /\ popped' = popped
  BY DEF TailArrives, producerVars, consumerVars, pushed, popped
<1>3. TypeOK'
  <2>1. Len(tails) \in 1 .. Len(tails)
    BY <1>1
  <2> QED BY <1>2, <2>1 DEF IInv, TypeOK, producerVars, consumerVars
<1>4. Seen'
  BY <1>1, <1>2 DEF IInv, Seen, producerVars, consumerVars
<1>5. Stores' /\ Accesses' /\ Room' /\ Contents'
  BY <1>2 DEF IInv, Stores, Accesses, Room, Contents, producerVars, consumerVars
<1> QED BY <1>3, <1>4, <1>5 DEF IInv

\* The invariant holds in every state of the ring, for every capacity, width of
\* the cursors and number of items.
THEOREM InvariantHolds == Spec => []IInv
<1>1. IInv /\ [Next]_vars => IInv'
  <2>1. IInv /\ UNCHANGED vars => IInv'
    <3> SUFFICES ASSUME IInv, UNCHANGED vars PROVE IInv'
      OBVIOUS
    <3>1. UNCHANGED <<buf, heads, cachedTail, producer, writes, readsSeen, tailFloor, tails,
                      cachedHead, consumer, reads, writesSeen, headFloor, out>>
      BY DEF vars, producerVars, consumerVars
    <3>2. pushed' = pushed /\ popped' = popped
      BY <3>1 DEF pushed, popped
    <3>3. TypeOK'
      BY <3>1 DEF IInv, TypeOK
    <3>4. Stores' /\ Accesses'
      BY <3>1, <3>2 DEF IInv, Stores, Accesses
    <3>5. Seen' /\ Room' /\ Contents'
      BY <3>1, <3>2 DEF IInv, Seen, Room, Contents
    <3> QED BY <3>3, <3>4, <3>5 DEF IInv
  <2> QED BY <2>1, PushCheckInv, PushWriteInv, PushPublishInv, PopCheckInv, PopReadInv,
             PopPublishInv, HeadArrivesInv, TailArrivesInv DEF Next, Push, Pop
<1> QED BY <1>1, InitInv, PTL DEF Spec

\* Every variable of the ring keeps its type; the cursors stay below 2^64.
THEOREM TypeCorrect == Spec => []TypeOK
<1>1. IInv => TypeOK
  BY DEF IInv
<1> QED BY <1>1, InvariantHolds, PTL

\* try_push never overwrites an unread item and try_pop never reads a slot that
\* is not written: of two accesses to a slot one happens before the other.
THEOREM RaceFree == Spec => []NoDataRace
<1>1. IInv => NoDataRace
  <2> SUFFICES ASSUME IInv PROVE NoDataRace
    OBVIOUS
  <2>1. /\ readsSeen \in Nat /\ writesSeen \in Nat /\ reads \in Nat /\ writes \in Nat
        /\ producer = "write" => writes < readsSeen + Capacity
        /\ consumer = "read" => reads < writesSeen
    BY Order DEF IInv, Room
  <2> QED BY <2>1 DEF NoDataRace
<1> QED BY <1>1, InvariantHolds, PTL

\* size_approx() between a thread's own calls is a number of items the ring can
\* hold, whichever store of the other thread it reads.
THEOREM SizesInRange == Spec => []SizeApproxInRange
<1>1. IInv => SizeApproxInRange
  <2> SUFFICES ASSUME IInv PROVE SizeApproxInRange
    OBVIOUS
  <2>1. Ordered
    BY Order
  <2>2. ASSUME producer = "idle", NEW i \in tailFloor .. Len(tails)
        PROVE  Minus(head, tails[i].value) \in 0 .. Capacity
    <3>1. PICK k \in tailFloor - 1 .. popped : i = k + 1
      <4>1. i - 1 \in tailFloor - 1 .. popped /\ i = (i - 1) + 1
        BY <2>1
      <4> QED BY <4>1
    <3>2. Minus(head, tails[k + 1].value) = pushed - k
      BY <2>2, Loads
    <3>3. pushed - k \in 0 .. Capacity
      BY <2>1
    <3> QED BY <3>1, <3>2, <3>3
  <2>3. ASSUME consumer = "idle", NEW i \in headFloor .. Len(heads)
        PROVE  Minus(heads[i].value, tail) \in 0 .. Capacity
    <3>1. PICK k \in headFloor - 1 .. pushed : i = k + 1
      <4>1. i - 1 \in headFloor - 1 .. pushed /\ i = (i - 1) + 1
        BY <2>1
      <4> QED BY <4>1
    <3>2. Minus(heads[k + 1].value, tail) = k - popped
      BY <2>3, Loads
    <3>3. k - popped \in 0 .. Capacity
      <4>1. reads = popped
        BY <2>3 DEF IInv, Accesses
      <4> QED BY <2>1, <4>1
    <3> QED BY <3>1, <3>2, <3>3
  <2> QED BY <2>2, <2>3 DEF SizeApproxInRange
<1> QED BY <1>1, InvariantHolds, PTL

\* A push is refused exactly when the ring is full and a pop exactly when it is
\* empty, as of the store of the other cursor that the refusing load returns,
\* however often the cursors have wrapped and however old that store is.
THEOREM RefusedWhenFullOrEmpty == Spec => []RefusalsExact
<1>1. IInv => RefusalsExact
  <2> SUFFICES ASSUME IInv PROVE RefusalsExact
    OBVIOUS
  <2>1. Ordered
    BY Order
  <2>2. ASSUME producer = "idle", NEW i \in tailFloor .. Len(tails)
        PROVE  Full(tails[i].value) <=> Len(heads) - i = Capacity
    <3>1. PICK k \in tailFloor - 1 .. popped : i = k + 1
      <4>1. i - 1 \in tailFloor - 1 .. popped /\ i = (i - 1) + 1
        BY <2>1
      <4> QED BY <4>1
    <3>2. Full(tails[k + 1].value) <=> writes - k >= Capacity
      BY <2>2, Loads
    <3>3. writes = pushed /\ Len(heads) - i = pushed - k /\ pushed - k <= Capacity
      BY <2>1, <2>2, <3>1 DEF IInv, Accesses
    <3>4. writes - k >= Capacity <=> Len(heads) - i = Capacity
      BY <2>1, <3>3
    <3> QED BY <3>1, <3>2, <3>4
  <2>3. ASSUME consumer = "idle", NEW i \in headFloor .. Len(heads)
        PROVE  tail = heads[i].value <=> i = Len(tails)
    <3>1. PICK k \in headFloor - 1 .. pushed : i = k + 1
      <4>1. i - 1 \in headFloor - 1 .. pushed /\ i = (i - 1) + 1
        BY <2>1
      <4> QED BY <4>1
    <3>2. /\ tail = Wrap(popped) /\ heads[k + 1].value = Wrap(k)
          /\ tail # heads[k + 1].value => reads < k
      BY <2>3, Loads
    <3>3. reads = popped /\ (i = Len(tails) <=> k = popped)
      BY <2>1, <2>3, <3>1 DEF IInv, Accesses
    <3>4. CASE k = popped
      BY <3>1, <3>2, <3>3, <3>4
    <3>5. CASE k # popped
      <4>1. Minus(heads[k + 1].value, tail) = k - popped
        BY <2>3, Loads
      <4>2. Minus(Wrap(popped), Wrap(popped)) = popped - popped
        <5>1. popped \in Int /\ popped - popped \in 0 .. Capacity
          BY <2>1
        <5> QED BY <5>1, MinusExact
      <4>3. heads[k + 1].value # tail
        <5>1. k \in Int /\ k - popped # popped - popped
          BY <2>1, <3>5
        <5> QED BY <3>2, <4>1, <4>2, <5>1
      <4> QED BY <3>1, <3>3, <3>5, <4>3
    <3> QED BY <3>4, <3>5
  <2> QED BY <2>2, <2>3 DEF RefusalsExact
<1> QED BY <1>1, InvariantHolds, PTL

-----------------------------------------------------------------------------
(* The abstract queue                                                      *)

\* The numbers after p, n of them.
Numbers(p, n) == [i \in 1 .. n |-> p + i]

\* The consecutive numbers p + 1 .. p + n as a queue: the next one joins at the
\* end, the first leaves.
LEMMA NumbersProperties ==
  ASSUME NEW p \in Nat, NEW n \in Nat
  PROVE  /\ Numbers(p, n) \in Seq(Nat) /\ Len(Numbers(p, n)) = n
         /\ Append(Numbers(p, n), p + n + 1) = Numbers(p, n + 1)
         /\ n > 0 => /\ Numbers(p, n) # <<>>
                     /\ Head(Numbers(p, n)) = p + 1
                     /\ Tail(Numbers(p, n)) = Numbers(p + 1, n - 1)
<1>1. Numbers(p, n) \in Seq(Nat) /\ Len(Numbers(p, n)) = n
  BY DEF Numbers
<1>2. Append(Numbers(p, n), p + n + 1) = Numbers(p, n + 1)
  BY DEF Numbers
<1>3. ASSUME n > 0
      PROVE  /\ Numbers(p, n) # <<>>
             /\ Head(Numbers(p, n)) = p + 1
             /\ Tail(Numbers(p, n)) = Numbers(p + 1, n - 1)
  BY <1>3 DEF Numbers
<1> QED BY <1>1, <1>2, <1>3

\* What the mapping of SpscRing substitutes for the queue and the last number
\* received.
ringItems == [i \in 1 .. Len(heads) - Len(tails) |-> buf[(tail + i - 1) % Capacity]]
received  == IF consumer = "publish" THEN reads - 1 ELSE out

Mapped == ringItems = Numbers(popped, pushed - popped) /\ received = popped

\* What the refinement mapping makes of a state that satisfies the invariant: the
\* items between the two cursors, in order.
LEMMA AbstractState == IInv => Mapped
<1> SUFFICES ASSUME IInv PROVE Mapped
  OBVIOUS
<1>1. Ordered
  BY Order
<1>2. received = popped
  BY <1>1 DEF IInv, Accesses, Contents, received
<1>3. Len(heads) - Len(tails) = pushed - popped
  BY <1>1
<1>4. ASSUME NEW i \in 1 .. pushed - popped
      PROVE  buf[(tail + i - 1) % Capacity] = popped + i
  <2>1. PICK k \in popped .. pushed - 1 : k = popped + (i - 1)
    <3>1. popped + (i - 1) \in popped .. pushed - 1
      BY <1>1
    <3> QED BY <3>1
  <2>2. (Wrap(popped) + (i - 1)) % Capacity = (popped + (i - 1)) % Capacity
    <3>1. /\ Capacity \in Nat \ {0} /\ CounterMod \in Nat \ {0}
          /\ CounterMod % Capacity = 0 /\ popped \in Int
      BY <1>1, RingAssumption
    <3>2. \A b \in Int : (Wrap(popped) + b) % Capacity = (popped + b) % Capacity
      BY <3>1, NestedMod DEF Wrap
    <3> QED BY <1>1, <3>2
  <2>3. tail = Wrap(popped) /\ Wrap(popped) \in Int
    BY <1>1, Loads, Wraps
  <2>4. tail + i - 1 = Wrap(popped) + (i - 1)
    BY <2>3
  <2>5. buf[Slot(k)] = k + 1
    BY <1>1, <2>1 DEF IInv, Contents
  <2>6. k + 1 = popped + i
    BY <1>1, <2>1
  <2> QED BY <2>1, <2>2, <2>4, <2>5, <2>6 DEF Slot
<1>5. ringItems = Numbers(popped, pushed - popped)
  BY <1>3, <1>4 DEF ringItems, Numbers
<1> QED BY <1>2, <1>5 DEF Mapped

\* The ring implements the bounded queue: a push takes effect when head_ is
\* stored, a pop when tail_ is, and every other step changes nothing.
THEOREM RefinesBoundedFifo == Spec => ImplementsBoundedFifo
<1>1. Init => Fifo!Init
  BY DEF Init, Fifo!Init
<1>2. IInv /\ IInv' /\ [Next]_vars => [Fifo!Next]_(Fifo!vars)
  <2>1. IInv' => Mapped'
    BY AbstractState, PTL
  <2> SUFFICES ASSUME IInv, IInv', [Next]_vars
               PROVE  [Fifo!Next]_(Fifo!vars)
    OBVIOUS
  <2>2. /\ ringItems = Numbers(popped, pushed - popped) /\ received = popped
        /\ ringItems' = Numbers(popped', pushed' - popped') /\ received' = popped'
    BY <2>1, AbstractState DEF Mapped
  <2>3. Ordered
    BY Order
  <2>4. CASE UNCHANGED <<heads, tails>>
    <3>1. pushed' = pushed /\ popped' = popped
      BY <2>4 DEF pushed, popped
    <3>2. UNCHANGED <<ringItems, pushed, received>>
      BY <2>2, <3>1
    <3> QED BY <3>2 DEF Fifo!vars, ringItems, pushed, received
  <2>5. CASE PushPublish
    <3>1. writes = pushed + 1
      BY <2>5 DEF IInv, Accesses, PushPublish
    <3>2. pushed' = pushed + 1 /\ popped' = popped
      BY <2>3, <2>5 DEF PushPublish, consumerVars, IInv, TypeOK, pushed, popped
    <3>3. PICK n \in 0 .. Capacity - 1 : n = pushed - popped
      BY <2>3, <3>1
    <3>4. pushed' - popped' = n + 1 /\ pushed + 1 = popped + n + 1
      BY <2>3, <3>2, <3>3
    <3>5. /\ ringItems = Numbers(popped, n) /\ ringItems' = Numbers(popped, n + 1)
          /\ received' = received
      BY <2>2, <3>2, <3>3, <3>4
    <3>6. /\ Len(ringItems) < Capacity
          /\ ringItems' = Append(ringItems, pushed + 1)
      <4>1. popped \in Nat /\ n \in Nat /\ n < Capacity
        BY <2>3
      <4>2. /\ Len(Numbers(popped, n)) = n
            /\ Append(Numbers(popped, n), popped + n + 1) = Numbers(popped, n + 1)
        BY <4>1, NumbersProperties
      <4> QED BY <3>4, <3>5, <4>1, <4>2
    <3>7. pushed < Items
      BY <2>3, <3>1
    <3> QED BY <3>2, <3>5, <3>6, <3>7 DEF Fifo!Next, Fifo!Send, ringItems, pushed, received
  <2>6. CASE PopPublish
    <3>1. reads = popped + 1
      BY <2>6 DEF IInv, Accesses, PopPublish
    <3>2. popped' = popped + 1 /\ pushed' = pushed
      BY <2>3, <2>6 DEF PopPublish, producerVars, IInv, TypeOK, pushed, popped
    <3>3. PICK n \in Nat : n = pushed - popped /\ n > 0
      BY <2>3, <3>1
    <3>4. pushed' - popped' = n - 1
      BY <2>3, <3>2, <3>3
    <3>5. /\ ringItems = Numbers(popped, n) /\ ringItems' = Numbers(popped + 1, n - 1)
          /\ received' = popped + 1
      BY <2>2, <3>2, <3>3, <3>4
    <3>6. /\ ringItems # <<>> /\ Head(ringItems) = popped + 1
          /\ Tail(ringItems) = ringItems'
      BY <2>3, <3>3, <3>5, NumbersProperties
    <3> QED BY <3>2, <3>5, <3>6 DEF Fifo!Next, Fifo!Receive, ringItems, pushed, received
  <2> QED BY <2>4, <2>5, <2>6 DEF Next, Push, Pop, PushCheck, PushWrite, PopCheck, PopRead,
              HeadArrives, TailArrives, vars, producerVars, consumerVars
<1> QED BY <1>1, <1>2, InvariantHolds, PTL DEF Spec, ImplementsBoundedFifo, Fifo!Spec
=============================================================================
