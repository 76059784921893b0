----------------------------- MODULE BookStorage -----------------------------
(***************************************************************************)
(* The memory under one side of the book: the slab with its embedded free  *)
(* list (slab_allocator.hpp), the intrusive list of each level             *)
(* (intrusive_list.hpp) and the bitmap over the levels (bitmap.hpp), as    *)
(* insert_resting_ and remove_from_book_ + deallocate drive them.          *)
(*                                                                         *)
(* A slot is the union of an Order and a free-list node.  The link of a    *)
(* free node occupies the first bytes of the slot, which are the `prev` of *)
(* an order: both are the field prev here, and `next` keeps what it held   *)
(* when a slot is freed.  A word of the bitmap is the set of its set bits. *)
(***************************************************************************)
EXTENDS Integers, SequencesExt, Totals

CONSTANTS NumLevels,  \* num_levels of the book: the bits of its bitmap
          NumSlots,   \* capacity_ of the slab
          WordBits    \* 64

ASSUME StorageAssumption ==
  /\ NumLevels \in Nat \ {0} /\ NumSlots \in Nat /\ WordBits \in Nat \ {0}

nullptr   == 0
kNotFound == -1

Slots    == 1 .. NumSlots
Levels   == 0 .. NumLevels - 1
NumWords == (NumLevels + WordBits - 1) \div WordBits
Bits     == 0 .. WordBits - 1

VARIABLES
  cells,       \* storage_: the links in each slot
  level,       \* Order::level_idx; kept, and meaningless, in a free slot
  freeHead, inUse,
  heads, tails, counts,  \* per level: head_, tail_ and PriceLevel::count
  words,       \* words_
  live         \* the orders the id map leads to, which the book may remove

vars == <<cells, level, freeHead, inUse, heads, tails, counts, words, live>>

-----------------------------------------------------------------------------
(* Bitmap                                                                  *)

SetBit(idx) ==
  words' = [words EXCEPT ![idx \div WordBits] = @ \cup {idx % WordBits}]

ClearBit(idx) ==
  words' = [words EXCEPT ![idx \div WordBits] = @ \ {idx % WordBits}]

\* find_next_set: the word of `from` under a mask, then the words after it.
FindNextSet(from) ==
  LET w     == from \div WordBits
      first == {b \in words[w] : b >= from % WordBits}
      later == {v \in w + 1 .. NumWords - 1 : words[v] # {}}
  IN  IF w >= NumWords THEN kNotFound
      ELSE IF first # {} THEN w * WordBits + Min(first)
      ELSE IF later # {} THEN Min(later) * WordBits + Min(words[Min(later)])
      ELSE kNotFound

\* (Mutant) (1 << (b + 1)) - 1 for the last bit of a word as well, where the
\* shift count wraps and the mask comes out empty.
UpToShifted(b) == IF b = WordBits - 1 THEN {} ELSE 0 .. b

\* The mask of the bits up to b.
UpTo(b) == IF b = WordBits - 1 THEN Bits ELSE 0 .. b

\* find_prev_set; an index beyond the last word starts at the last word.
FindPrevSet(from) ==
  LET w       == from \div WordBits
      first   == IF w >= NumWords THEN {} ELSE words[w] \cap UpTo(from % WordBits)
      earlier == {v \in 0 .. NumWords - 1 : v < w /\ words[v] # {}}
  IN  IF first # {} THEN w * WordBits + Max(first)
      ELSE IF earlier # {} THEN Max(earlier) * WordBits + Max(words[Max(earlier)])
      ELSE kNotFound

-----------------------------------------------------------------------------
(* IntrusiveList and SlabAllocator                                         *)

\* push_back of a node on level l.
PushBack(mem, node, l) ==
  LET linked == [mem EXCEPT ![node] = [prev |-> tails[l], next |-> nullptr]]
  IN  IF tails[l] = nullptr THEN linked ELSE [linked EXCEPT ![tails[l]].next = node]

\* (Mutant) The successor keeps its link to the node.
UnlinkForward(mem, node) ==
  LET p == mem[node].prev
      n == mem[node].next
  IN  IF p = nullptr THEN mem ELSE [mem EXCEPT ![p].next = n]

\* unlink of a node: its neighbours are joined, it keeps its own links.
Unlink(mem, node) ==
  LET p == mem[node].prev
      n == mem[node].next
      m == IF p = nullptr THEN mem ELSE [mem EXCEPT ![p].next = n]
  IN  IF n = nullptr THEN m ELSE [m EXCEPT ![n].prev = p]

\* allocate and deallocate: a slot's free-list link is where its prev is.
Allocate ==
  /\ freeHead # nullptr
  /\ freeHead' = cells[freeHead].prev
  /\ inUse' = inUse + 1

\* (Mutant) The slot is not counted out.
DeallocateUncounted(node) == freeHead' = node /\ UNCHANGED inUse

Deallocate(node) == freeHead' = node /\ inUse' = inUse - 1
Relinked(mem, node) == [mem EXCEPT ![node].prev = freeHead]

-----------------------------------------------------------------------------
(* The book's use of them.                                                 *)

\* insert_resting_ at level l.
InsertResting(l) ==
  /\ Allocate
  /\ cells'    = PushBack(cells, freeHead, l)
  /\ level'    = [level EXCEPT ![freeHead] = l]
  /\ heads'    = IF tails[l] = nullptr THEN [heads EXCEPT ![l] = freeHead] ELSE heads
  /\ tails'    = [tails EXCEPT ![l] = freeHead]
  /\ counts'   = [counts EXCEPT ![l] = @ + 1]
  /\ IF counts[l] = 0 THEN SetBit(l) ELSE UNCHANGED words
  /\ live'     = live \cup {freeHead}

\* (Mutant) The order goes back to the slab before it leaves its level.
CellsWithoutFreedFirst(s) == Unlink(Relinked(cells, s), s)

CellsWithout(s) == Relinked(Unlink(cells, s), s)

\* remove_from_book_, and the deallocate that follows.
RemoveFromBook(s) ==
  LET l == level[s]
      p == cells[s].prev
      n == cells[s].next
  IN  /\ cells'    = CellsWithout(s)
      /\ heads'    = IF p = nullptr THEN [heads EXCEPT ![l] = n] ELSE heads
      /\ tails'    = IF n = nullptr THEN [tails EXCEPT ![l] = p] ELSE tails
      /\ counts'   = [counts EXCEPT ![l] = @ - 1]
      /\ IF counts[l] = 1 THEN ClearBit(l) ELSE UNCHANGED words
      /\ Deallocate(s)
      /\ live'     = live \ {s}
      /\ UNCHANGED level

\* The slab's constructor threads the slots last to first.  What an unused
\* slot holds besides its link is never read: 0 here.
Init ==
  /\ cells  = [s \in Slots |-> [prev |-> IF s = NumSlots THEN nullptr ELSE s + 1,
                                next |-> nullptr]]
  /\ level  = [s \in Slots |-> 0]
  /\ freeHead = (IF NumSlots = 0 THEN nullptr ELSE 1) /\ inUse = 0
  /\ heads  = [l \in Levels |-> nullptr]
  /\ tails  = [l \in Levels |-> nullptr]
  /\ counts = [l \in Levels |-> 0]
  /\ words  = [w \in 0 .. NumWords - 1 |-> {}]
  /\ live   = {}

Next == (\E l \in Levels : InsertResting(l)) \/ (\E s \in live : RemoveFromBook(s))

Spec == Init /\ [][Next]_vars

-----------------------------------------------------------------------------

\* The slots met from `start` along `link`.  A cycle shows as a chain longer
\* than the slab.
Chain(start, link) ==
  LET hop[n \in 0 .. NumSlots] ==
        IF n = 0 THEN start
        ELSE IF hop[n - 1] = nullptr THEN nullptr ELSE link[hop[n - 1]]
  IN  [i \in 1 .. Cardinality({n \in 0 .. NumSlots : hop[n] # nullptr}) |-> hop[i - 1]]

NextLinks == [s \in Slots |-> cells[s].next]
PrevLinks == [s \in Slots |-> cells[s].prev]

Queue(l)  == Chain(heads[l], NextLinks)
FreeList  == Chain(freeHead, PrevLinks)
SetLevels == UNION {{w * WordBits + b : b \in words[w]} : w \in DOMAIN words}

\* A level reads the same from its tail along prev as from its head along
\* next, although freed slots keep the links they had and a free slot's prev
\* is the free list's.
ListsReadBothWays ==
  \A l \in Levels : Chain(tails[l], PrevLinks) = Reverse(Queue(l))

\* The word-wise searches find the nearest set bit on either side of every
\* index, up to the end of the last word and beyond it.
SearchesExact ==
  \A from \in 0 .. (NumWords + 1) * WordBits :
    LET above == {i \in SetLevels : i >= from}
        below == {i \in SetLevels : i <= from}
    IN  /\ FindNextSet(from) = IF above = {} THEN kNotFound ELSE Min(above)
        /\ FindPrevSet(from) = IF below = {} THEN kNotFound ELSE Max(below)

\* open_orders(), the count of the levels' orders, and the slots missing from
\* the free list are the same number.
OpenOrdersExact ==
  /\ inUse = NumSlots - Len(FreeList)
  /\ inUse = TotalOf([i \in 1 .. NumLevels |-> Len(Queue(i - 1))])

LQ == INSTANCE LevelQueues WITH
  fifo     <- [l \in Levels |-> Queue(l)],
  free     <- FreeList,
  occupied <- SetLevels

\* The links in the slots and the bits in the words are the queues and the set
\* that OrderBook works on: who joins waits last, who leaves disturbs nobody,
\* and no chain runs into another or into itself.
ImplementsLevelQueues == LQ!Spec

=============================================================================
