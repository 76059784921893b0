# A TLA+ model of the limit order book engine

The repository is a single-symbol limit order book in C++20: a matching engine
made of header files (`include/lob/`), a queue for inbound orders, and a replay
harness (`src/`) that feeds the engine a recorded NASDAQ ITCH 5.0 session. This
directory holds TLA+ modules that model the engine, its id map, its storage, its
queue and the replay harness, the TLC configurations that check them, and TLAPS
proofs about the engine, its id map and storage, the queue, the replay and the
program around it, for every size of each.

## Inventory of the system

| Component | State | Operations | Correct when |
|---|---|---|---|
| **Matching engine** `order_book.hpp`, `price_level.hpp`, `order.hpp`, `types.hpp` | two arrays of levels (list of orders, total, count), a best index per side, the three parts below | `submit` (limit, market; GTC, Day, IOC, FOK, PostOnly), `cancel`, `reduce`, `modify`; queries `best_bid`, `total_at`, `find`, `top_n` | it trades by price and then time, never rests a crossing order, and its incremental state (totals, counts, bitmaps, best indices, id map, slab) always says what a walk over the orders would say |
| **Order id map** `order_id_map.hpp` | an open-addressing table sized once, for twice the orders | `find`, `insert`, `erase` with backshift | it holds the live orders and nothing else, is a dictionary, and its unbounded probing loops end |
| **Slab allocator** `slab_allocator.hpp` | slots, a free list threaded through the free ones | `allocate`, `deallocate` | no slot is used twice or lost |
| **Intrusive list** `intrusive_list.hpp` | `prev`/`next` inside the orders | `push_back`, `unlink` | a level reads the same in both directions |
| **Bitmap** `bitmap.hpp` | 64-bit words, one bit per level | `set`, `clear`, `find_next_set`, `find_prev_set` | the searches find the nearest set bit across words |
| **Inbound queue** `spsc_ring.hpp` | a buffer, two atomic cursors, a cached copy of the other's cursor on each side | `try_push`, `try_pop`, `size_approx` | it is a bounded FIFO without data races |
| **Replay** `src/replay.cpp` | the target's locate code, counters, three histograms, an engine | one handler per ITCH message; `main` | the engine mirrors the exchange's book and never matches by itself; what is reported is what was counted and timed |
| **ITCH parser** `src/itch_parser.cpp`, `itch.hpp` | a position in the file | framing, dispatch | it stays in step with the frames, also at the end of a truncated file |
| **Latency histogram** `histogram.hpp` | buckets, total, maximum, sum | `record`, `percentile`, `write_csv` | a percentile is the bucket edge of the sample of its rank; the rows account for every sample |
| **File mapping** `mapped_file.hpp` | handles and a view | constructor, destructor | whichever step fails, what was taken before is given back |
| **Clock, compiler macros, benches, scripts** | none that matters here | measuring, plotting | - |

How they interact. The engine owns a slab, a bitmap per side and an id map, and
changes several of them in every call; an order is linked into a level through
links in its own slab slot, which double as the free-list link once the slot is
freed. `submit` calls the trade sink once per fill, in the middle of matching,
and the sink may query the book. `modify` is a removal followed by a `submit`.
The engine is single-threaded; the only concurrency is in the ring, whose two
ends run on two threads and share two atomics. The replay program maps a file,
and the parser calls a handler for each frame; the handlers drop messages about
other symbols, time each call into the engine and count the message. The tape
describes what an exchange has already done.

What is hard. In the engine: long sequences of calls over state that is kept
incrementally in six places, decisions taken before matching that are relied on
after it (the FOK pre-walk, the duplicate-id check), two-step calls whose
second step may refuse, a slab that runs out, 32-bit sums. In the id map:
deletion from probe runs that touch or wrap, and entries left behind in a table
that never grows. In the storage: a slot that is
reused while its old links are still in memory. In the ring: cursors that are
out of date, wrap, and are read by another thread. In the replay: orders the
engine has refused and the tape goes on talking about, a replace done in two
calls, prices that the tick rounds together, files cut anywhere, and system
calls that fail half-way. `PROJECT.json` lists these
hazards at their lines, each with the property that covers it or the reason
none does yet.

## The modules

| Module | What it is | Code |
|---|---|---|
| `OrderBook` | the engine: state, every call, its properties | `order_book.hpp` and what it calls |
| `IdMapContract` | what the engine relies on of its id map, as a formula about any map | external view of `order_id_map.hpp` |
| `DictionaryBook` | `OrderBook` with that contract as an assumption | - |
| `IdDictionary`, `DictionarySpec` | the id map as a function; as a state machine | what `OrderIdMap` promises |
| `HashTable`, `OrderIdMap` | the real table as operators; as a state machine with the slab of the engine as its client | `order_id_map.hpp` |
| `OrderIdSession` | that client restricted to a session: ids in order of arrival, each used once | `order_book.hpp` around the map |
| `PriceTimeBook` | abstract specification of the engine: a set of orders and "older than" | comments of `order_book.hpp`, `types.hpp` |
| `OrderBookRefinement` | the refinement mapping to `PriceTimeBook` | - |
| `BookStorage` | slab, intrusive lists and bitmap down to links and words | `slab_allocator.hpp`, `intrusive_list.hpp`, `bitmap.hpp` |
| `LevelQueues` | abstract specification of that storage: queues and a set | what `OrderBook` takes it to be |
| `SpscRing` | the ring under release/acquire memory | `spsc_ring.hpp` |
| `BoundedFifo` | abstract specification of the ring | what `SpscRing` promises |
| `Totals` | the sum of a sequence of numbers | the adding loops of `order_book.hpp` and `histogram.hpp` |
| `OrderBookProofs`, `OrderBookRefinementProofs` | theorems about the engine: its invariant, steps and quantities; the refinement of `PriceTimeBook` | - |
| `OrderIdMapProofs`, `BookStorageProofs`, `SpscRingProofs` | theorems about the id map, the storage and the ring | - |
| `ReplayProofs`, `ReplayProgramProofs` | theorems about the replay; about the program around it | - |
| `OperatorLemmas` | lemmas on sequences, sums, lists of lists and `%` that those cite | - |
| `Replay` | an exchange that writes the tape, and the handlers over `OrderBook` | `ReplayHandler` of `replay.cpp` |
| `ReplayProgram` | the program around the engine: composes the four below | `main` and the handlers of `replay.cpp` |
| `TargetSymbol` | which messages are about the wanted symbol; used by both | `replay.cpp` |
| `ItchParser` | the framing of a file that may be cut anywhere | `itch_parser.cpp` |
| `LatencyHistogram` | `record`, `percentile`, the CSV rows, and what they should be | `histogram.hpp` |
| `MappedFile` | acquiring and releasing a view of a file, both platforms | `mapped_file.hpp` |
| `MC*` | symmetry, id layouts and tapes for TLC | - |

Definitions marked *(Mutant)* are seeded faults: plausible mistakes in the code
(a forgotten update, a dropped comparison, an off-by-one). Nothing uses them;
`PROJECT.json` says which definition each one stands in for and which property
then fails, so that every checked property is known to be able to fail.

### OrderBook

One variable per field of the class: `order` (slab storage), `free` (free
list), `idMap`, and per side `fifo`, `totalQty`, `count`, `bits`, `best`. The
call in progress is `pc`, `taker` (the arguments), `remaining` and `trade` (what
the sink was last called with), and `result` is what the last call returned.

A call is not atomic: the sink sees the book between fills, and `modify` sees
its own intermediate state. An action therefore runs from one point at which
the book can be observed to the next: `Submit`, `Cancel`, `Reduce` and `Modify`
begin a call (and finish it if it returns without matching); `Fill` is one trip
of the loop of `match_`, from one sink call to the next; `ReturnFilled`,
`DropRemainder` and `Rest` are the ways `submit` ends; `Abort` is the assertion
on an exhausted slab; `Resubmit` is the second half of `modify`. The state in
which `Fill` is enabled is the state the sink sees, and `SinkThrows` is what
happens if the sink throws there: the exception leaves the call, that fill is
not made, and the book stays as the sink saw it.

Abstractions: an intrusive list is the sequence of its slots, a bitmap the set
of its bits, the free list a sequence - `BookStorage` justifies all three. An
order keeps its level and drops `price`, which is `base + level`. Timestamps
are passed through and left out. Quantities are integers modulo `QuantityMod`
(2^32 in the code). The id map is a parameter: `Maps`, `MapFind`, `MapInsert`,
`MapErase`. The configurations give it either the dictionary of `IdDictionary`
or the real table of `HashTable`.

A caller may pass anything the types allow: id 0, quantity 0, prices just
outside the window, ids that are live, all combinations of type and time in
force. Excluded is a sink that changes the book it is called from (listed as a
hazard).

### HashTable and OrderIdMap

`hash(id) & mask_` is a constant `Ideal[id]`, so a configuration decides which
ids collide; `id_map` and `id_map_fills_up` take the values of `splitmix64`. A
probing loop is the least distance at which it stops, and a loop that never
stops is an empty set of distances. `erase` follows the code: entries move back
by one until a hole, or an entry in its ideal slot, is met, and the freed slot
keeps its value (`Shifted`). In a full table without an entry at home the shift
goes round until one comes home (`Rotated`).

`OrderIdMap` has the table, `size_`, the last answer, and of the engine `order`:
which slots of the slab are taken, by the order of which id. What bounds the
inserts is that slab, as in the code: an order needs a free slot, and a slot is
given back when its order is filled, cancelled or reduced to nothing, whatever
the `erase` of that call answers. Nothing bounds the number of entries. A call
whose search would never end is no step; `SearchesEnd` says that there is none.
`HoldsLiveOrders` relates the two: the entries are the orders of the slab. In
`OrderIdSession` the calls are those of a trading session, where `submit` looks
an id up before it inserts it and only live orders leave.

### BookStorage

A slot has the fields `prev` and `next`; a free slot's link is in `prev`, as in
the union of the code, and `next` and `level_idx` keep what they held. The
bitmap is a function from word numbers to sets of bits, searched through masks.
The actions are the engine's uses: insert at a level, remove and deallocate.

### SpscRing

Each atomic is the sequence of its stores. A load by the other thread returns
any store not older than the last it saw; a release store carries how many
buffer accesses its thread has made, and an acquire load that reads it orders
those before what follows. `try_push` and `try_pop` are three steps each
(check with an optional reload, buffer access, publishing store). The producer
retries and the consumer polls, as in the test and the benchmark. Cursors are
taken modulo `CounterMod` (2^64).

### Replay

Two parties. The exchange is external: it announces symbols, lists orders,
executes or cancels part of them, deletes and replaces them, with what the ITCH
protocol says as its only rules (references are unique over all symbols, a
symbol is announced before its orders, a symbol's book is not crossed, a
replacement gets a new reference and queues last). It keeps its book in
`listed`. The handler deals with each message before the next is written, as
`parse` calls it; each order message is one action of the exchange with the
handler's part of it, and a replace is two calls into the engine
(`OnOrderReplace`, `SubmitReplacement`) with `replacement` between them.
`MirrorsExchange` compares the queues of the engine with `listed`, order by
order. `MirrorsExchange` excepts some orders: one priced outside the engine's
window cannot be mirrored; neither can what replaces it, since the handler finds
no original: `unseen` marks both. The engine runs over the real table of
`HashTable`. Its sink is `NullSink`, which does not throw.

### ReplayProgram

`main`, with the engine's calls as durations. A file is the frames of a tape,
cut at any byte. `MapFile` is one system call of `MappedFile`'s constructor,
`DispatchFrame` one trip of the parser's loop with the handler it calls,
`TimedCall` one call into the engine between two readings of the clock,
`ParseReturns` and `WriteReport` the end. Whether a replace finds its original
is up to the engine, hence nondeterministic here. `samples` is a history
variable: `Summarises` and `Tabulates` define from the samples themselves what
`percentile` and the CSV rows have to say. The loop of `record` that halves a
duration is the list of what each bucket leaves of it, and `1 << b` is
`Octave[b]`. The counts and the sum of a histogram do not wrap (64 bits of
nanoseconds are centuries), and a percentile is a fraction. Bytes count to
`ByteMod`, so that lengths and locate codes need both of theirs; a type is a
letter; the bodies are as long as their type says. Frames whose length does not
fit their type, which the parser does not look for, are outside the model.

## The runs

| Run | Question | Bounds |
|---|---|---|
| `book_structure` | does every part of the incremental state agree with the orders, at every observable point; are the FOK pre-walk and the `top_n` snapshot exact; does an abort come before any trade | 4 ids, 3 slots, 2 levels, quantities 0-2 modulo 4, all types and times in force, a sink that may throw |
| `book_calls` | step by step: trades never go back towards the touch or through the limit; queue order is kept | 4 ids, 3 slots, 3 levels |
| `book_returns` | does every call return | 3 ids, 2 slots, 3 levels, fairness |
| `book_refinement` | does the engine implement `PriceTimeBook` | 3 ids, 2 slots, 3 levels, all types and times in force, a sink that may throw |
| `book_storage` | are links and words the queues and the set that `OrderBook` uses | 3 slots, 5 levels, words of 2 bits |
| `id_map` | does the table hold the live orders, as a dictionary, and does every search end, for ids of which no colliding group reaches another's slot | 4 ids with their real hashes (three collide and wrap, the fourth is the next slot), 8 slots, 4 slots of slab |
| `spsc_ring` | is the ring a race-free bounded FIFO that refuses exactly when it is full or empty, and does every item arrive | capacity 4, cursors modulo 8, 12 items |
| `replay` | is the engine's book the exchange's after every message; does it never match or run out of slots | 2 symbols, 2 orders listed at a time under 3 references, 3 prices of which 2 in the window, colliding ids |
| `replay_program` | does the parser stay in step, are percentiles, rows and counters exact, is the file given back, does the program end | tapes of 2 messages out of 13, or 2 after the directory message, or 5 adds, cut at any byte; 4 durations |
| `id_map_fills_up` | shows the first divergence below: the search that does not end | ids 1 to 14 in order of arrival, at most 4 live, 8 slots |
| `modify_rejected`, `replay_subtick` | show the other two | - |

Why the bounds are enough. Three slots are what a level needs for a removal from
the middle of a queue, and what a sweep over three levels needs for a third
trade; a fourth id is needed for the order that does it, and for the one that
finds the slab full. Two levels have the bottom and the top edge of the window
in one another's place; three have a middle. Quantities up to 2 give partial and
full fills and sums that no single order reaches; modulo 4, three orders of 2
wrap, as sums do in the code at 2^32. `FokPreCheckExact` says what holds across
the wrap: the walk never promises too much, and refuses too much only when the
liquidity in reach is `QuantityMod` or more. Five levels in words of two bits
have full words, an empty word between set ones and a last word that is partly
used. The ring wraps its buffer three times and its cursors once and a half. In
`replay` two listed orders make a queue, and the third reference a replacement
while both are there; a refused order can be executed, deleted and replaced,
also back into the window. In `replay_program` the durations are one linear
bucket at each end of the range, the octave the range ends in, and the last
octave, which takes everything longer; five samples have four different ranks.
In `id_map` the slab holds all four orders, so that the collision run is as long
as it can be and touches the fourth id. `Day` and GTC are the same in the code;
`book_returns` uses the one, the runs with few times in force the other. Ids are
interchangeable in the engine, so its safety runs use them as a symmetry set;
`book_returns` checks a liveness property and does not.

Deadlock. The engine may stop: after `Abort` the process is gone, so its runs
do not check deadlock, and neither does the one of the replay program, which
ends. The id map, the storage, the ring and `Replay` are checked for it.

Fairness. `FairSpec` of the engine assumes only that a call in progress keeps
running, `WF_vars(Continue)`: a call waits for nothing. No caller is obliged to
call. `SpscRing` assumes that both threads keep running and that a store to an
atomic becomes visible in the end, which the C++ standard asks of
implementations. Neither is assumed to win any race. `ProgramSpec` assumes that
the replay program, which waits for nobody, keeps running.

## What is proved

TLAPS checks these theorems for every value of the constants that the named
assumptions allow; the runs check the same formulas on small instances.

| Module | Theorem | What it says |
|---|---|---|
| `OrderBookProofs` | `TypeCorrect` | every variable keeps its type |
| | `BestCorrect` | the cached best index is the best occupied level |
| | `LevelsCorrect` | counts and bitmap are those of the queues |
| | `IntegrityHolds` | levels, id map and slab agree; nothing dangles, leaks or is freed twice |
| | `NeverCrossed` | the book is never crossed or locked, during a call or between |
| | `AbortsOnlyUntraded` | a call that runs out of slots has traded nothing |
| | `PriorityKept` | no step reorders two orders that stay in a queue |
| | `SweepsOutward` | trades go from the touch into the book and stop at the limit |
| | `TotalsCorrect` | a level's total is the wrapped sum of its orders |
| | `PreWalkExact` | the FOK pre-walk promises no more than there is, and no less unless a sum wraps |
| | `FokHolds` | a fill-or-kill order whose matching ends has traded in full |
| | `SnapshotsExact` | a snapshot is the best levels of a side, with their true totals and numbers of orders |
| `OrderBookRefinementProofs` | `RefinesPriceTimeBook` | the engine implements `PriceTimeBook` while the quantities on a side add up to less than 2^32 |
| | `SmallSizesRefine` | in particular when capacity times the largest quantity passed is below 2^32 |
| `OrderIdMapProofs` | `SizeCounts` | `size()` is the number of entries, for any hash and whatever is left behind |
| | `LiveOrdersHeld` | while `LinearProbing` holds, the entries are the live orders, and every search ends |
| | `DictionaryWhileProbing` | and the table implements the dictionary |
| | `BackshiftExact` | no `erase` breaks a table if and only if no entry has passed another one in its ideal slot |
| | `RunsStayWhole` | `LinearProbing` holds for as long as no entry has |
| | `TouchingIdsAreLost` | three ids are enough for an `erase` to lose one, in a table of any size |
| | `ApartKeepsProbing` | `LinearProbing` holds for good if no colliding group reaches the slot of another id |
| | `ApartIsDictionary`, `ApartHoldsLiveOrders` | and so the table implements the dictionary, holds the live orders, and every search ends |
| | `TableKeepsContract` | and keeps the contract the theorems about the engine assume |
| `BookStorageProofs` | `RefinesLevelQueues` | slab, lists and bitmap implement the queues and the set of levels of `LevelQueues` |
| | `ListsSymmetric` | a level reads the same in both directions |
| | `BitmapExact` | the word-wise searches find the nearest set bit |
| | `OpenOrdersCounted` | `open_orders()` is what is linked, and what left the free list |
| `SpscRingProofs` | `TypeCorrect` | every variable keeps its type |
| | `RaceFree` | no data race on a buffer slot |
| | `SizesInRange` | `size_approx` is between 0 and the capacity |
| | `RefusedWhenFullOrEmpty` | a push is refused exactly when the ring is full, a pop exactly when it is empty, as of the store that is loaded |
| | `RefinesBoundedFifo` | the ring implements `BoundedFifo` |
| `ReplayProofs` | `MirrorHolds` | the engine's queues are the exchange's after every message |
| | `NoMatching` | the engine never matches by itself |
| | `SlotsSuffice` | as many slots as listed orders are enough |
| `ReplayProgramProofs` | `ParserInStep` | wherever the file is cut, exactly the messages with a complete frame are dispatched |
| | `CountersAgree` | counters and numbers of samples are those of the tape |
| | `SummariesAreOfTheSamples` | percentiles are the bucket edges of the samples of their rank; total, sum and maximum are exact |
| | `LatencyFilesAreOfTheSamples` | a latency file has every sample once, under its edge |
| | `NothingIsLeaked` | what mapping the file takes is given back once, whatever fails |

`Invariance`, `StorageInvariance`, `InvariantHolds` and `ReplayInvariance` are
the inductive invariants of the engine, the storage, the ring and the replay.

**Assumptions.** The engine: `ConfigAssumption` (a non-negative base price, at
least one level), `CallerAssumption` (ids in use are not 0; quantities have the
width of the type) and `MapContract` (find returns what was inserted and not
erased, as long as no id is inserted twice and no slot under two ids, which the
engine is proved never to do). A sink may throw at any fill. The table:
`TableAssumption` (at least two slots, ideal slots lie in the table; nothing
else is asked of the hash function) and `MapAssumption` (fewer slots in the slab
than in the table, which the constructor arranges by doubling). The storage:
`StorageAssumption` (at least one level, words of at least one bit, any number
of slots). The ring: `RingAssumption` (a capacity of at least 2 that divides the
cursors' modulus, as a power of two divides 2^64). The replay: the engine's
three and `ReplayAssumption` (the tape's prices are numbers, the tick is not 0).
The program: `WireAssumption` (a byte has at least two values; a body is long
enough for type and locate code, and its length fits two bytes),
`HistogramAssumption` (at least one octave), `LocatesAssumption` (the wanted
code is not 0, which the handler takes for "not known") and `ProgramAssumption`
(durations and the fractions of the summary are what they are called; no order
message carries the code 0). TLC evaluates each of them in the runs. The real
table does not keep `MapContract` for every hash function, see below: the
theorems about the engine and the replay say what they do over a map that does.
`TableKeepsContract` says when the real table is one: `KeepsContract`, the
formula of the assumption, holds of `HashFind`, `HashInsert` and `HashErase`,
for any number of calls, if the ids satisfy `CollidersApart`. `replay` runs the
engine over the real table under that condition.

Some theorems have hypotheses of their own. `LiveOrdersHeld` and
`DictionaryWhileProbing` assume `[]LinearProbing`, and `RunsStayWhole` assumes that
no entry ever passes another one in its ideal slot (`NonePassed`). `BackshiftExact`
shows that the latter is not more than needed: in a table where one has, there is
an id whose erase loses an entry. `ApartKeepsProbing` and the theorems after it
have a condition on the ids instead, `CollidersApart`: from one ideal slot to the
next that is in use it is at least as far as there are ids in use with the first.
Ids without colliders satisfy it however close they lie. `id_map` and `replay`
satisfy it, and so does `splitmix64` on the ids 1 to 32247 in the table of the
default size (2^21 slots; up to 1950 in 2^17, 584 in 2^16, 80 in 2^11). It does not
hold of all ids, and beyond such a set the code is not right for good:
`TouchingIdsAreLost`, and `id_map_fills_up`. The theorems about
the replay assume `WholeTicks`, that the prices on the tape are multiples of the
tick; `replay` satisfies it, and `replay_subtick` is what happens without.
`SlotsSuffice` assumes `MaxListed <= MaxOrders` as well; one order more and the
slab is empty when it arrives. `RefinesPriceTimeBook` assumes `[]SumsFit`, that
the orders of a side add up to less than `QuantityMod`: beyond that the 32-bit
sum of the pre-walk may refuse a FOK order that the book could fill, which
`PriceTimeBook` does not allow. `SmallSizesRefine` replaces the hypothesis by one
on constants, which `book_refinement` satisfies (2 slots, quantities up to 2,
modulo 16); with the default capacity of 2^20 it means quantities of at most 4095.

**The engine.** None of its properties is inductive. `NotCrossed` speaks of the
best indices, and says nothing of the next level once the best is emptied; the
invariant has `SidesApart` instead, that *every* bid is below *every* ask.
`BestIsExtremal` needs the bitmap to be exact, because the next best is found
there; the bitmap needs `count`, which needs the queues to be injective and
their orders to be where the order says it is (`BookIntegrity`). A remainder
that rests needs what the entry checks established - an unused id, a price in
the window - to be true still after any number of trades: `CallInv` carries
that through `Fill`, where ids are erased but never added. `IInv` is the
conjunction of `LevelsInv`, `SlotsInv`, `SidesApart`, the types of the call's
variables and `CallInv`. Its proof takes the engine apart as the code is: lemmas
for a level that shrinks or grows, for removing, decreasing and inserting an
order, then one step per action. `AbortsOnlyUntraded` has a small invariant of
its own on top, `RoomInv`: while something is left to fill after a trade, that
trade has emptied an order and its slot is free.

**Steps.** Whatever the call, the book changes in one of three ways (`BookStep`):
a resting order is removed, one that stays loses quantity, a new one joins the
back of its level. `PriorityKept` argues over these three instead of over the
actions. `SweepsOutward` needs `SweepInv`: while a call matches, no occupied
level is ahead of its last trade, since a fill empties levels and occupies none.

**Quantities.** A quantity is counted in the slot of its order, in the list that
links the slot, and in the 32-bit total of the level. Each of the three
`BookStep`s changes all three by the same amount (`QtyStep`), which gives
`TotalsCorrect`, and `CountedTwice`: over any set of levels, the slots and the
lists add up alike. The pre-walk's sum may wrap anywhere, so `PreWalkExact`
compares it with the unwrapped sum only through the first level at which the
32-bit sum suffices: a wrapped sum is at most the true one. `FokHolds` then has
`FokInv`: what is in reach of a FOK order that trades is never less than what
it still wants, because a fill lowers both by the same quantity.

**The snapshot.** `top_n` walks from the best level from search to search.
The walk is a recursion over levels; `SweepLists` shows that it meets the
occupied levels once each, best first, and that it ends, for a list without
repetition is no longer than the book has levels. What `SnapshotExact` demands
is said of orders in slots, and what the walk reads is kept with levels: a level
is occupied exactly when an order rests there, and `CountedTwice` makes its
total the sum over those orders.

**The refinement.** Each action of the engine is the action of the same name of
`PriceTimeBook`. The mapping reads the resting orders from the slab and the
time priority from the lists. Both are first read through the id map
(`RestingView`, `PriorityRead`), which `NoOrderLost` allows: every order in the
slab is linked and found. The three `BookStep`s then are `Remove`, `Shrink` and an
arrival behind its equals. What remains is to compare conditions. Something may
be traded exactly when the best opposite level is within the limit
(`TradableWhenReachable`, from `BestIsExtremal`). The head of that level comes
before everything else that may be traded (`HeadPrecedes`). What the abstract book
adds up over ids is what the slots at the levels within the limit hold
(`LiquidityInSlots`), so that `FokPreCheckExact` decides alike. The slab is empty
exactly when `Capacity` orders rest (`LiveCount`: ids and slots are in
bijection). A FOK remainder is never dropped or rested (`FokAllOrNone`), an abort
has traded nothing (`RoomInv`), and an order that skips the matching loop has
nothing to trade with (`PhaseInv`).

**The id map.** `insert` takes one slot and `erase` frees one, wherever its
backshift stops or however often it goes round, so that `size` counts the
entries for every hash function (`SizeCounts`). That they are the *orders* is
another matter, and needs `LinearProbing`. While that holds, `find` stops at the
entry of its id and at no other; so the `erase` of an order that leaves removes
its entry, and `Agreement` is kept: every entry leads to the slot of an order
with its id, and every order has an entry. Entries then are no more than the
slots of the slab, and every search meets an empty slot. `insert` always keeps
`LinearProbing`. An `erase` keeps it if no entry has passed one in its ideal
slot, since nothing behind the entry at home has then probed past the hole
(`EraseKeepsProbing`); and if one has, erasing what lies in front of the passed
one cuts it off (`EraseBreaksProbing`). With `CollidersApart`, an entry lies no
further from its ideal slot than it has colliders (`AmongColliders`): the groups
have no slot in common (`GroupsDisjoint`), so a search passes colliders only,
none of them at home but the first (`GroupsPassNone`). `TableKeepsContract`
speaks of tables instead of calls: `WholeTables`, those in which every id and
every value lies in one slot, no search passes an empty one and every entry is
among its colliders, are closed under `insert` and `erase`. A value in one slot
only is what bounds the entries by the slots of the slab, which are fewer than
those of the table; that is why the contract asks it of the caller.

**The storage.** The memory is links, and a property of it follows links of any
length. Its invariant, `StorageInv`, says instead that there *are* queues `q` and
a free list `f`, as sequences, of which the memory is a drawing (`Shape`): no
slot is at two places of them (`Separate`), the links of a slot name its
neighbours in its own queue (`LinkFields`), ends and counts are those of the
queues, the set bits are the levels with a queue. Each call redraws one queue and
the free list, `PushBack` and `Unlink` write exactly the links that differ, and
no link of another slot. `LinksAreQueues` comes back from the drawing: a walk
along `next` from a head, or along `prev` from a tail or from the first free
slot, visits the places of the sequence one by one and stops. That the union of
a slot is harmless shows in `Separate`: what is in `f` is in no level. The
searches are proved from what a word holds alone: a level's place is its word and
its bit, and places are ordered by word first (`PlaceOrder`).

**The ring.** The invariant counts. Every store, cached cursor and buffer access
stands for a number of items, and it keeps these numbers in order: `readsSeen <=
popped <= reads <= writesSeen <= pushed <= writes <= readsSeen + Capacity`. A
cursor that is out of date is a smaller number, so it errs on the side of
refusing; as all differences stay below the modulus, those of the wrapped
cursors are the true ones, which is what `SizeApproxInRange` and `RefusalsExact`
say of every store a load may return. `NoDataRace` is the outer part of that
chain. For the refinement a push takes effect with the release store of `head_`,
a pop with that of `tail_`, and the buffer between the two cursors is the queue.

**The replay.** At every step the book shows the orders of *one* list
(`Mirror`): what the exchange has listed, or, while an order is on its way into
the book and between the cancel and the submit of a replace, that without its
newest (`MirrorInv`). An arriving order does not cross, since all it could cross
is listed too and the exchange's book is not crossed; whole ticks carry that
over to levels. So it rests, at the back of its level, where the newest belongs.
`MirrorsExchange` follows: each order of one book has its counterpart in the
other, in the same sequence. `SlotsSuffice` is the pigeonhole principle: an
engine that has run out shows one order for each slot, and the newest besides.

**The program.** The file is one list of bytes, and the parser knows where it is
only by having added up lengths. `FrameAt` says where a frame lies: after those
before it, whatever follows it, and `FrameBytes` what the parser reads there, so
that `ParserInv` - the position is the end of the last frame dispatched - is kept
by each trip of the loop, and a cut anywhere only shortens what is read
(`NextFrame`). `HandlerInv` is about a message in the middle of its calls: the
counters are those of the messages *dealt with*, the calls that are left are those
of the type of the current one, and between the two calls of a replace the
histogram of the first is one sample ahead (`HalfReplace`). The symbol's directory
message may come at any time and again; the code in use is the wanted one exactly
if it has come before (`Known`).

**The histogram.** `Holds` says what a histogram is of a list of samples: in each
bucket as many as the bucket takes, for every bucket. `RecordHolds` is one more
sample; it needs the halving loop to stop in a bucket whose octave contains the
duration (`LogBucketProperties`: after `b` halvings, `v * 2^b <= ns < (v + 1) *
2^b`). The running count at a bucket then is the tally of all durations up to its
upper edge (`UptoLinear`, `UptoLog`), the buckets are in the order of the
durations they take (`LogBucketsGrow`), and so the first bucket that reaches a
rank is that of the sample of that rank (`PercentileOfRank`); `LeastOfRank` shows
that there is such a sample. In the CSV two buckets may share a label, the octave
that the linear range ends in and the linear bucket of the same value:
`RowsTabulate` adds up what each of the two parts says of a value.

**Induction over data.** The provers have no induction, so what a recursive
definition yields is argued from the least counterexample, a set of natural
numbers having a least element: for sums (`TotalOf`), for joined lists
(`FlattenSeq`), for octaves and halvings (`Iterates`), and for walks along links.

**Only model-checked.** The liveness properties, since TLAPS does not handle
fairness and `ENABLED` here: `CallsReturn`, `EveryItemArrives` and
`ProgramEnds`. Every other property of a passing run is stated by a theorem.
`SearchesEnd` alone, without a hypothesis, is not a theorem: `id_map_fills_up`
violates it.

## Where code and comments disagree

* **`OrderIdMap::erase` loses entries, and the table fills up** (`id_map_fills_up`,
  `order_id_map.hpp:84`). "Backshift deletion preserves the linear-probing
  invariant" is not so: the shift stops at the first entry in its ideal slot,
  while entries behind it may have probed past the hole. They stay in the table
  and are not found, so that `cancel` may answer false for an order that rests,
  against `order_book.hpp:188`. When such an order is filled, its `erase` answers
  false, which `order_book.hpp:339` ignores (193 and 208 would too), and the entry
  stays for good. "The table grows by reallocation" (`order_id_map.hpp:16-18`) is
  in no line of the code. In the run, the engine has a slab for 4 orders and so a
  table of 8 slots. Orders arrive with the ids 1, 2, 3 and so on, never more than 4
  of them live: with id 13 the table is full, and the search for the next id does
  not end. The same calls to the compiled header hang. In the loop of the
  repository's own stress test (`test_order_id_map.cpp:31`) operation 19589 is the
  first to be answered wrong, and the table of 16384 slots is full before operation
  68749. `BackshiftExact` says which tables are safe, `ApartHoldsLiveOrders` for
  which ids nothing is lost.
* **A `modify` may answer `Rejected` after a side effect** (`modify_rejected`,
  `order_book.hpp:240`). `types.hpp:64` says "rejected before any side-effects
  (bad input)"; a modify to quantity 0, or out of the window, removes the
  original before `submit` rejects the replacement.
* **The replay may match** (`replay_subtick`, `replay.cpp:121`).
  `replay.cpp:9-12` says that the book's passive primitives are used "rather
  than running our own matching". Prices are divided by the tick and submitted
  as ordinary limit orders: two orders that the exchange keeps less than a tick
  apart trade with each other in the engine.

Smaller ones, without a run of their own. The FOK pre-walk adds up in 32 bits
(`order_book.hpp:279`), so a book holding 2^32 or more may refuse an order it
can absorb, against `order_book.hpp:136-137`; `FokPreCheckExact` bounds the
damage. `--snapshot-only` is described as "skip latency capture"
(`replay.cpp:78`); the calls are timed all the same, and only the files are not
written. Percentiles need not grow with the fraction: the octave that the linear
range ends in is reported as 65536, which is below its last linear buckets, and
shares its label with one of them in the CSV.

## Not modelled, and the plan

* A sink that submits or cancels while it is called, an id of 0 in `cancel`,
  `reduce` or `modify` (the header of the id map excludes it), a third thread
  that asks a ring for its size, and frames whose length does not fit their
  type: the code states or implies that they do not happen, and `PROJECT.json`
  lists the first three as hazards without a property.
* The clock and the compiler macros keep no state; the benchmarks and scripts
  call or plot what is modelled. Timestamps, formatting, the command line and the
  layout of ITCH fields are data that no property needs.
