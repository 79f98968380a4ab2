# A TLA+ model of the HFT pipeline

This directory specifies and verifies the core of the repository beside it: an
exchange simulator, a market data handler and a strategy process, connected by
lock-free buffers inside a process and by UDP multicast and TCP between them.

## The system

| part | state it keeps | operations | talks to |
|---|---|---|---|
| order generator (`order-generator.cpp`, `random-container.hpp`) | ids of orders it believes are resting | new order, cancel, populate, purge | calls the matching engine (same thread) |
| matching engine (`clob.cpp`) | next order id, its `BookState` | submit Buy / Sell / Cancel / Update | publishes `MarketEvent`s to a `LazyRingBuffer` |
| `BookState` (`book-state.cpp`, `order-pool.hpp`, `closed-hash-map.hpp`) | order pool and free stack, price levels with linked queues, two hash maps, price sets, cached BBO | add, cancel, trade, update, best opposing order | used by the matching engine and by the strategy's `OrderBookEngine` |
| orchestrator, sequencer, broadcaster (`exchange-simulator.cpp`, `sequencer.hpp`, `broadcaster.cpp`) | sequence counter | start, sequence, cache, broadcast, stop | `CircularCache`, UDP |
| binary protocol (`binary-protocol.cpp`, `RetransmitRequest`) | none | encode, decode, serialize, parse | both sides of UDP and TCP |
| retransmit server (`tcp-retransmit.cpp`, `tcp-connection.hpp`, `circular-cache.hpp`) | connections with partial requests and messages, connection count | accept, receive, stream, close | reads the cache, kqueue, TCP clients |
| UDP listener, gap detector, handler loop, TCP client, publisher (`market-data-handler/`) | newest sequence number seen; three buffers | receive, detect gaps, request, write, publish | `LazyRingBuffer`, `SharedRingBuffer`, `ReorderBuffer` |
| `OrderBookEngine` (`engine.cpp`) | its own `BookState` | execute an event, write the BBO | `SeqLock` |
| trader and market maker (`trader.hpp`, `market-maker.cpp`) | its two quotes, filled quantity, queue of requests | quote, rebalance, risk checks, rejections | reads `SeqLock`s, `LazyRingBuffer` to the OMS |
| OMS (`oms.hpp`) | none: `oms.cpp` is empty | none | |

What is hard about it: every buffer is shared by two or three threads without
locks and relies on acquire/release ordering and on slots being reused only
after both sides have moved on; a stop request may come while any thread waits;
datagrams are lost, duplicated and reordered; TCP streams are cut anywhere; the
retransmit cache is overwritten while it is read; the book keeps the same facts
in six structures; and the generator's functions call one another in a cycle.

What makes each part correct, in a sentence: the rings are bounded FIFOs; the
reorder buffer hands out every packet once and in order; the book's structures
agree, the engine trades by price and time, and its events rebuild the book on
the other side; a seqlock reader gets a snapshot that was written, and the newest
one in the end; the generator never exhausts the pool and always comes to an end;
the retransmit server gives a client exactly what it asked for; the handler publishes
every message once and in order however the feed was damaged, or stops; the market
maker knows its orders and its position, quotes inside the market and withdraws on a halt.

## Modules

**LazyRingBuffer** (`includes/utils/lazy-ring-buffer.hpp`). Producer and consumer
threads as they use the ring: wait with a stop token, fill or read the claimed
slot, publish or consume. Each endpoint's load of the other's cursor may be stale
(any value since the one it saw last), and a slot is `Torn` between the first and
the last byte of a write. **BoundedFifo** is the abstract specification; the
refinement maps the published slots to its queue.

**ReorderBuffer** (`includes/utils/reorder-buffer.hpp`). One action per atomic access of
`try_write_to` by each writer, and of `wait_consume_next`. A packet may be offered
again (`MaxDuplicates`). A fatal `WriteStatus` requests the stop, as its callers do.

**ClosedHashMap, BookState** are operators: the open-addressing map with
tombstones, and the book as a record of its six structures. `QUANTITY_RANGE` keeps
the width of the unsigned quantities in the cached BBO.
**CentralLimitOrderBook** runs them: `submit()` cut at each published event (the
only place it waits), stop requests, and the strategy's engine replaying the
events. What lies between exchange and strategy appears as a bounded FIFO, which
is what LazyRingBuffer is shown to be, and what the reorder buffer promises.
**MatchingEngine** is the abstract specification: queues per price, best price
first, oldest order first. **BookLadder** adds to the book what it stands for, the ladder of
queues, as a history variable and states the refinement.

**BinaryProtocol** (`binary-protocol.cpp`, `RetransmitRequest` in `tcp-retransmit.cpp`). Integers
are written byte by byte, most significant first, signed prices through their unsigned
image. `CentralLimitOrderBook` puts encoded events into the feed and the strategy's
engine decodes them; `RetransmitServer` receives serialized requests.

**SeqLock** (`includes/utils/seq-lock.hpp`). All stores to `generation_` are kept in their
modification order; an acquire load may return any store from the one the reader
saw last, and the relaxed data load anything stored since.

**MarketRequestGenerator** (`order-generator.cpp`). The call stack is a variable. Of the
engine only the set of resting orders is kept; a submitted order may fill any.

**CircularCache** and **RetransmitServer**. The cache's accesses one by one,
composed with the exchange thread, the kqueue loop and its clients. A request and a
message have two halves each, so that both are cut everywhere. `kevent()` returns one or
two ready events in any order. The lifecycle is there too: the exchange's and the
server's start and its failures, fatal `accept()` and `kevent()` errors, error events of
a client, the stop and the return of both threads. A failed assertion ends the process
(`AssertFails`): the default build has assertions on. `notify_and_close` forgets what is left
of a cut message and sends its error header behind the half that went out; `left` keeps what
a client had got when its connection was closed, until the next `kevent()`. What the header
does to the client is in MarketDataHandler. The cache narrows its 64-bit index to the 32 bits
of `Index` (`Narrow`, `INDEX_RANGE`), and the largest one is the number of a locked slot.

**SharedRingBuffer** (`includes/utils/ring-buffer.hpp`). `try_push` and `try_pop` cut at the
load of the other cursor (which may be stale), the first byte and the last byte of an
item. It is a component: `MarketDataHandler` drives it.

**MarketDataHandler** (`market-data-handler/`). The four threads: UDP listener, handler
loop with the gap detector, TCP client, publisher. The network loses, delays, reorders
and duplicates: any message may arrive any number of times. The server answers, closes,
sends its error header, or cuts a message with it; a cut inside the last bytes of a
payload makes a `Garbled` payload, one inside a header trips the assertion in
`receive_payload` (`ClientAborts`). The request ring is SharedRingBuffer itself; the UDP
ring stands as the FIFO that LazyRingBuffer implements; the event ring may be full at any
time for a while. Of the reorder buffer the check of the index and the claim
of the slot are apart, which is where writers can overtake one another; the load of
`reader_index_` is fresh here, and stale loads are left to `ReorderBuffer`.

**PassiveMarketMaker** (`market-maker.cpp`) has the strategy's handlers as operators on a
record of its state, with the staging buffer and the client ids. Prices have a width
(`PRICE_RANGE`): the sum of the best prices of a one-sided market overflows, which is
undefined in C++; the debug build's sanitizer reports it and goes on with the wrapped sum,
which is what is modelled.
**Trader** (`trader.hpp`, `strategy-runner.cpp`) is the thread around it: fills, snapshots, the risk
gates, rejections that queue more requests while the queue is drained, a full trade
ring, the stop. `evaluate_risk` waits for risk data (`Evaluates`): the lock of `RiskData` starts
locked and is locked during a write. The OMS is external: it takes requests in order, fills
what is open and writes the risk data (`OmsWritesRisk`). A write counts as begun only when
the trader is about to look, since nobody else reads it.

The `MC*` modules and their `.cfg` files instantiate these.

## Runs

| run | shows | bounds |
|---|---|---|
| `ring` | `NoDataRace`, `ClaimStaysValid`, `ImplementsFifo`, `PublishedIsConsumed`, `StopEndsBothLoops` | 2 slots, 6 items: each slot used three times, full and empty rings with stale cursors |
| `reorder` | `SlotExclusion`, `InOrderWithoutDuplicates`, `NewDataIsNotDropped`, `WrittenIsConsumed` | 2 writers, 4 slots, 5 packets: a slot is reused, a writer can be too far ahead |
| `reorder_duplicates` | **violated**: `DeliveredInOrder` once a packet is duplicated | as above |
| `clob` | `BookStructure`, `BboConsistent`, `NotCrossed`, `FeedReplaysBook`, `PublicBboIsCurrent`, `ImplementsMatchingEngine` | 3 pool entries, 4 orders, 2 prices that collide in the level map, one of them negative, quantities 0..2; bytes of 4 values, words of 2 bytes |
| `book_update` | **violated**: `BboConsistent` when an update names an order at the best price | as above |
| `seqlock` | `ReadsNeverGoBack`, `LaterSnapshotsAreRead`, `StopEndsReaders` | 3 writes, one reader of each kind |
| `seqlock_first` | **violated**: `FirstSnapshotIsRead` | as above |
| `generator` | `RestingIsTracked`, `PoolNeverExhausted`, `PriceRangeIsLegal`, `ComesBackToLoop`, `StopEndsGenerator` | container and pool of 4, purge to 2, populate to 2; 9 ids, prices 1..12 |
| `retransmit` | `ConnectionsAreCounted`, `StreamIsFaithful`, `CutStreamIsWoken`, `RefusedWasOverwritten` | cache of 3, 7 messages and an index of 6 values (`INDEX_RANGE`), requests of up to 2 messages (`MaxAsk`), 2 sockets, 2 connects, the listener and 1 connection at a time |
| `retransmit_batch` | **violated**: `HandledConnectionIsOpen` | cache of 2, 3 messages, requests of up to 3, 2 clients for 1 connection |
| `handler` | `NothingIsLost`, `PublishedInOrder`, `GapsAreFilled`, `StopEndsThreads` | 5 messages (`LAST`), 3 datagrams (`MaxDatagrams`), reorder buffer of 4, UDP and request ring of 1 |
| `trader` | `OrdersAreKnown`, `ExposureIsKnown`, `QuotesFitMarket`, `HaltCancelsQuotes`, `DrainEnds` | 4 orders (`MaxOrders`), 2 fills (`MaxFills`), trade ring of 3, 6 markets, 6 kinds of risk data |

`ring`, `reorder`, `handler` and `trader` also check a type invariant, which says more than
types (the cursors' distance, no torn item popped, no order believed placed with nothing
left of it, a staging buffer that is never overrun). In `clob` the flag
`UpdateBest` keeps quantity updates away from the best price, because of the
finding below; the generator never sends an Update, so the exchange as it is run
stays within that restriction. Prices are signed and nothing in `submit()` refuses a
negative one, hence the negative price.

Some properties name an exception, each a behaviour of the code that a reader should know:
`lateCopy` (`NothingIsLost`, `PublishedInOrder`, `GapsAreFilled`) is the reorder buffer's duplicate
finding, met here by the two feeds; `Garbled` is the payload completed by the server's
error header, of which there is at most one; `crossed` (`OrdersAreKnown`, `ExposureIsKnown`)
records that a fill and a cancel or update of the same order were under way at once;
`Waiting` (`StopEndsThreads`, `GapsAreFilled`) is a client inside `recv()`, which has no timeout and
sees no stop: only an answer or the end of the connection brings it out, and it keeps no
other thread. `StreamIsFaithful` allows one error header at the end of a closed stream, also
behind half a message, and holds for requests that are `Fresh`: one that is 2^32 messages
old has an index the cache has used again, and is answered with the newer message.
`RefusedWasOverwritten` excepts the one index in 2^32 that is also `IS_LOCKED`: that message is
never found.

Why the bounds are enough: the buffers are symmetric in their slots, so reuse
of one slot shows what reuse can do; the hash maps are small enough that probing
wraps around and reuses tombstones; every limit (pool, container, connections,
cache, rings, staging buffer, trade ring) is reached in its run. In `handler` three
datagrams make two gaps, which fill the request ring, and five messages make a packet
too far ahead and a second lap of the reorder buffer. In `retransmit` seven messages are one more
than the index has values: a message is stored under `IS_LOCKED`, the index wraps, and every
slot of the cache is overwritten at least once, while an answer is cut between and inside its
messages. One client is served at a time, and a second one waits for its place and takes it
over; several open connections at once are left to the theorems, which hold for any
number. (The cache has three slots, where the code has a power of two: `%` stands for the
mask, and all that matters is that `INDEX_RANGE` is a multiple.) In `trader` quantities are in units
of 25, so that the configured 75, 25 and 150 keep their proportions, and the second pair
of orders replaces the first while fills of the first are under way. A small byte makes the
fields of an event two bytes wide with the sign in the first one. Deadlock is checked in `ring`, `reorder`,
`seqlock`, `generator`, `retransmit`, `handler` and `trader`; the book run ends when its order ids are
used up.

### Fairness

Threads keep running (weak fairness of each thread's steps). `ring` and `seqlock` also
assume that a store becomes visible to the other thread in finite time, as the C++
standard asks: strong fairness of a claim that can succeed, and of `StoresArrive`.
The ring's waiters use WFE behind SEVL and so never park for good. The seqlock's
writer must finish a write it began but never has to begin another. `generator`
assumes that not every one of an endless series of new orders is filled at once: each
takes quantity from the finitely many resting orders. `handler` assumes that its threads
run and that the engine behind the event ring drains it. A listener or a client inside
`recv()` may stay there: nothing makes a datagram arrive, and the server need not answer
(`Waiting`, above). `trader` assumes the trader thread only; `DrainEnds` is about the
behaviours in which, from some time on, the risk data is written and at rest or a stop is
requested, since `read_latest` spins otherwise. No other fairness is assumed of the
environment: nothing makes datagrams, clients, requests, answers, snapshots, risk data or
fills arrive.

## What the checks found

* **Reorder buffer** (`reorder-buffer.hpp:138`): the index check and the claim are two
  steps. A duplicate that passed the check before the reader consumed the first copy
  claims the released slot and is read as new data a whole round later.
* **BookState** (`book-state.cpp:256`, `:262`): `update_quantity` adjusts the cached BBO in
  the wrong direction.
* **SeqLock** (`seq-lock.hpp:91`): the first write has generation 0, which a new reader
  takes for seen; it misses the first snapshot unless it was already waiting.
* **Retransmit server** (`tcp-retransmit.cpp:196-224`): the read and the write event of one
  connection in one batch; the first closes the connection, the second trips the
  assertion in `receive()`.

Seen while modelling and written into the properties rather than into runs of their own:

* An error header sent behind a half-sent message (`tcp-retransmit.cpp:66`) completes it at the
  client: one garbled payload is published as market data, or an assertion fails.
* Joining the listener (`market-data-handler.cpp:94`) takes one more datagram after a stop, and
  joining the client inside `recv()` (`tcp-client.cpp:47`) an answer or the end of its connection. A
  client beyond `MAX_TOTAL_CONNECTIONS` gets neither: it stays in the listen queue
  (`tcp-retransmit.cpp:123`).
* The cache stores message 2^32 - 1 (counted from 0) under `IS_LOCKED` (`circular-cache.hpp:27`, `:76`), so it is
  refused although it is there; older indices are reused from then on.
* Nothing in the repository writes the `RiskData` that `evaluate_risk` waits for (`trader.hpp:82`): until an
  OMS does, the first request the strategy stages holds the trader until the stop.
* The risk gate counts the position and the one request, not the open orders (`trader.hpp`),
  while the comment at `strategy.hpp:50` speaks of a maximum position.
* `update()` ignores a fill of an order whose cancel is under way (`market-maker.cpp:151`), and
  a quantity update computed before a fill arrives restores the filled quantity: the
  strategy's position and its orders drift from the OMS's.
* The trader looks at fills only after the BBO has changed, since it waits there.

## Proofs

Each `*_proofs` module extends the module it is about. A theorem holds for every value of the
constants that meets the named assumptions; TLC evaluates those assumptions in the runs.
Every inductive invariant was checked by TLC on the instance of the run before it was proved.

| module | theorems | for every |
|---|---|---|
| `LazyRingBuffer_proofs` | `RingTypeCorrect`, `RingNoDataRace`, `RingClaimStaysValid`, `RingImplementsFifo` | capacity, number of items |
| `ReorderBuffer_proofs` | `ReorderTypeCorrect`, `ReorderSlotExclusion`, `ReorderInOrder`, `ReorderKeepsNewData` | capacity, number of writers, of packets and of duplicates |
| `SeqLock_proofs` | `LockReadsNeverGoBack`, `LockGenerationsDiffer` | number of readers and of writes |
| `MarketDataHandler_proofs` | `FeedTyped`, `FeedPublishesInOrder`, `FeedLosesNothing` | capacity of the three rings, number of messages and datagrams |
| `RetransmitServer_proofs` | `ServerCountsConnections`, `ServerWakesCutStreams`, `ServerStreamsFaithfully`, `ServerRefusesOnlyOverwritten` | number of sockets, connections and messages, size of the cache, width of its index |
| `MarketRequestGenerator_proofs` | `GeneratorTracksResting`, `GeneratorKeepsPool`, `GeneratorPricesLegal` | limits of the container and the pool, prices |
| `Trader_proofs` | `TraderTyped`, `TraderQuotesFitMarket`, `TraderHaltCancelsQuotes`, `TraderOrdersAreKnown`, `TraderExposureIsKnown` | size of the buffers, number of orders and fills, market, risk data, quantities |
| `CentralLimitOrderBook_proofs` | `EngineSnapshotIsCurrent` | size of the pool and of the maps, prices, event |
| | `StructureSafety`, `BboSafety`, `UncrossedSafety`, `ReplaySafety` | the same, quantities, width of the encoded integers, capacity of the feed; `~UpdateBest` |
| | `PriceTimePriority` | the same |

Each module also states its inductive invariant as a theorem of its own (`RingInvariant`,
`ExclusionInvariant`, `OrderInvariant`, `LockInvariant`, `FeedInvariant`, `ServerInvariant`,
`DataInvariant`, `GeneratorInvariant`, `TraderInvariant`, `LedgerInvariant`, `EngineInvariant`,
`BookInvariant`).

**The ring.** `RingInv` adds to the type invariant that each endpoint's view of the other's
cursor is never ahead of it, that a claim made on a stale view still holds, and that
every published slot has a whole value. `ModApart` (two cursors less than
CAPACITY apart name different slots) carries the argument. The refinement uses two lemmas,
that `publish()` appends to and `consume()` takes from the sequence of published slots.

**The reorder buffer.** `SlotExclusion` is not inductive:
`ExclusionInv` adds that the slot the reader is about to release is still Ready, that Ready
slots hold whole packets and that a writer about to mark a slot has filled it. The order of
delivery needs more (`OrderInv`): while no packet comes twice, a slot and a writer past the
check only ever hold packets of the reader's window, and no two hold the same packet.
That is where a duplicate breaks it (`reorder_duplicates`).

**The seqlock.** `GenerationInv` counts the stores to `generation_`; `ReaderInv` follows
happens-before: whoever has acquired a generation sees at least the snapshot stored before
it, and the copy is no older.

**The handler.** `FeedInv` has the ring argument again for the request ring (`RingInv`), the
window of the reorder buffer with two writers whose check and claim are apart (`WindowInv`),
that at most one garbled payload exists (`OnePlaceInv`), and who still has to bring each
packet the gap detector has counted (`CoverInv`).

**The retransmit server.** `ServerInv` is about events and `DataInv` about messages. A message
read from the cache may be overwritten between the two loads of its number, but its slot
does not get the same number again (`ItemInv`) before the index has gone round, which takes
`INDEX_RANGE` messages: hence `Fresh`, which `DataInv` carries from the request to the answer.
`LeftInv` is the same for a client that was disconnected: what it had got is a beginning of its answer,
perhaps with half a message, and then at most the error header. `PeerInv` and `RequestInv` tie what a client has
got to where the server goes on. What the server parses is what the client asked for
(`RequestRoundTrip`): the bytes of a request read as the numbers they were written from.

**The generator.** `GeneratorInv` describes the call stack: only five program points wait for a
call, and `new()` waits only for `purge()`, so control comes back to `submit()` when there is room.

**The trader.** The operators of `PassiveMarketMaker` have one lemma each. The heart of
`TraderInv` is `RoomInv`: a halt is noticed at a request in the middle of a batch, and
`queue_cancel_orders` gives up when the buffer has no room for the cancels. The longest batch
(two cancels and two new orders) starts with a cancel, which no gate refuses, and each
request taken out leaves room. That no quote survives in a one-sided market needs the
wrapped midpoint to be at most 0 and that of a pair in place to be at least 3 (`PairOK`).

**The trader's ledger.** `OrdersAreKnown` and `ExposureIsKnown` compare two processes through three
queues, so `LedgerInv` keeps an account of every order (`Account`): o is open at the OMS, p was
filled and is not yet heard of, q is believed by the strategy. If q is not 0, the requests under
way, first the sent ones and then the staged ones, lead from o + p to q when they are done in order
(`Tracked`: a new order starts from 0, an update from the quantity it replaces); if q is 0,
they close the order (`Settled`). Every operator of the strategy keeps all accounts
(`Moved`), and `get_orders` opens new ones under ids that were never used (`KeptFresh`,
`NumberInv`). A refusal takes a request out of the middle of the sequence; what is believed
can be set back because nothing but a cancel follows an update of the same order in the
staging buffer (`SoloInv`). A fill that meets an update breaks `Tracked`, one that meets a
cancel only the count: hence the two different conditions on `crossed`.

**The order book engine.** Every operation of `BookState` that changes the cached BBO reports it
(`Honest`), whatever the book holds, so the proof needs nothing of the pool or the maps. It is
also true where `update_quantity` gets the BBO wrong (`book_update`): what is published is
what the engine has.

**The book.** `Rep(b, q)` says that the six structures of b stand for the queues q, one sequence
of pool entries for each price: entries are linked as they stand there, levels know the ends
and the total, the order map leads to every entry, the free stack holds the others, every
bid is below every offer, and the BBO is right. Of the hash maps it keeps that each entry is on
the path of its key (`Reachable`): `erase()` leaves a tombstone, so no path is cut, and
`add()` reuses one only for a key that is nowhere on its path. Each operation has a lemma for
what it does to the fields and one for what that does to the queues
(`QueueAppend`, `QueueRemove`, `QueueQuantity`). `ExecuteKeepsBook` says that an event keeps
a book in order if it is `Legal` for it, and the CLOB publishes only such events; so there is a
book in order for every message on its way (`History`), and each leads to the next because
`decode(encode(event)) = event` (`RoundTrip`). `UpdateBest` is false in these theorems: run
`book_update` shows that they do not hold otherwise. The sums and walks in `BookStructure` and the
replay in `FeedReplaysBook` are recursive functions; lemmas show by a least counterexample
that they equal what the invariant describes (`ChainFollows`, `QuantityIs`, `ReplayedIs`, `HostIs`).

**Price-time priority.** The refinement mapping sends a book to its ladder, which `Rep` determines
(`LadderIs`): the line at a price is what its queue holds. `add()` appends to one line
(`AddLadder`), a removal takes one order out of one line (`RemoveLadder`), a partial trade or an
update changes one quantity in place (`ResizeLadder`); `LadderChanges` says that nothing else
moves, because the other queues hold orders of other prices. The order `ExecuteTrade` finds is the
first of its line (`OpponentIs`, `FirstPlace`) and its price is the best the taker accepts
(`AcceptableIs`), so the trade is the one `MatchingEngine` makes. An order that
waits to be added crosses nothing and has an id that no line holds (`FreshId`).

**Assumptions.** Those of the templates' static assertions (a capacity of at
least one; the power of two only makes `& MASK` equal to `%`), and that markers such as `NULL`
are not values (`MarkersAssumption`). The generator's limits are ordered as `config.hpp` orders
them, and there are enough ids to tell orders apart (`LimitsAssumption`, `IdsAssumption`). The set of
sockets is finite; the range of the cache's index is a multiple of its capacity
(`CacheAssumption`, both powers of two in the code), and sequence numbers fit the width they are sent in
(`ServerAssumption`). `SnapshotsAssumption` says that a side of a market is
empty or has a positive price at most half the largest one, so that the sum of two does not
overflow; the generator's prices are within that. `MakerAssumption` wants a staging buffer
of at least four requests (`config.hpp` has 32). For the book: `NullAssumption` and
`MarkerAssumption` (markers are no values), `PoolAssumption` (sizes and widths are positive, the order map has at
least as many slots as the pool entries; the code has twice as many), `LevelsAssumption` (no more
prices are quoted than the level map has slots, and quantities fit their type: the generator
quotes from an interval of prices smaller than `MAX_PRICE_LEVELS`), `PowerAssumption`
(the powers in the encoding are the repeated products they stand for).

**Only model-checked.** Everything under fairness (`PublishedIsConsumed`,
`WrittenIsConsumed`, `GapsAreFilled`, `DrainEnds` and the like), which the prover does not handle.
Every invariant, action property and refinement a run checks has a theorem.

## Not modelled

The OMS has no code (`oms.cpp` is empty): Trader takes it as an external. Message headers are
abstracted to their sequence numbers, since no component looks at another field except
to find the payload's end. Socket set-up, logging and error names have no behaviour to
check; failures of socket calls are choices of the actions that make them.
`wait_push` and `wait_get_item` have no caller, `send_to_exchange` no body. The models follow the
default build: with `NDEBUG` the assertions named above are not there, and the code goes on
with a closed connection or an empty payload. Overflow of the 64-bit cursors and ids is out
of reach of any run of the program; the 32-bit index of the retransmit cache is modelled.

## Plan

Every component with code of its own has a module, and every safety property of the runs a
theorem. A change of the code starts here: at the action that `map` in `PROJECT.json` names for the
lines that changed, then at the lemma about that action in the `*_proofs` module.
