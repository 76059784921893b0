----------------------------- MODULE BoundedFifo -----------------------------
(***************************************************************************)
(* What SpscRing promises its two threads: a queue of at most Capacity     *)
(* items, received in the order they were sent, none lost or duplicated.   *)
(* The sender sends the numbers from 1 to Items.                           *)
(*                                                                         *)
(* A refused push or pop changes nothing, and is not restricted here: what *)
(* one thread has seen of the other may be out of date.                    *)
(***************************************************************************)
EXTENDS Integers, Sequences

CONSTANTS Capacity, Items

VARIABLES queue, sent, received

vars == <<queue, sent, received>>

Init == queue = <<>> /\ sent = 0 /\ received = 0

Send ==
  /\ sent < Items /\ Len(queue) < Capacity
  /\ sent'  = sent + 1
  /\ queue' = Append(queue, sent + 1)
  /\ UNCHANGED received

\* What is received is the number that was sent first.
Receive ==
  /\ queue # <<>>
  /\ received' = Head(queue)
  /\ queue'    = Tail(queue)
  /\ UNCHANGED sent

Next == Send \/ Receive

Spec == Init /\ [][Next]_vars

=============================================================================
