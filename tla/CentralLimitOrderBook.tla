------------------------ MODULE CentralLimitOrderBook ------------------------
(***************************************************************************)
(* src/exchange/clob.cpp, driven by one thread that submits requests, and  *)
(* src/strategy-oms/engine.cpp, the strategy's thread that replays the     *)
(* events into a book of its own and publishes its BBO.  What lies between *)
(* them (sequencer, network, market data handler) encodes every event,     *)
(* hands it over once and in order, and decodes it (BinaryProtocol); here  *)
(* it is the bounded FIFO `feed' of the encoded events.                    *)
(*                                                                         *)
(* The submitting thread alone touches its book, so the steps of submit()  *)
(* are cut where it waits for a free slot of the ring: one action per      *)
(* published event.                                                        *)
(***************************************************************************)
EXTENDS BookState, BinaryProtocol

CONSTANTS Prices, Quantities,   \* what a request may carry
          FEED_CAPACITY,        \* MARKET_EVENT_BUFFER_CAPACITY
          MaxOrderId,           \* bound: how many orders are ever added
          UpdateBest            \* whether Update requests may name an order
                                \* at the best price of its side

ASSUME BookAssumption ==
    /\ Prices \subseteq Int /\ Quantities \subseteq Nat
    /\ \A p \in Prices : NO_BID < p /\ p < NO_OFFER
    /\ FEED_CAPACITY \in Nat \ {0} /\ MaxOrderId \in Nat
    /\ UpdateBest \in BOOLEAN
    /\ QUANTITY_RANGE = WORD_RANGE /\ MaxOrderId < BYTE ^ ID_BYTES
    /\ -WORD_RANGE <= 2 * NO_BID /\ 2 * NO_OFFER < WORD_RANGE

\* The caller quotes no more prices than the level map has room for, and every
\* quantity fits its type.
ASSUME LevelsAssumption ==
    /\ IsFiniteSet(Prices) /\ Cardinality(Prices) <= LEVEL_SLOTS
    /\ \A q \in Quantities : q < QUANTITY_RANGE
ASSUME MarkerAssumption ==
    NULL \notin [order_id : Int, price : Int, quantity : Int, side : Sides]
                 \cup [side : Sides, price : Int, quantity : Int]

VARIABLES book,             \* the exchange's state_
          next_order_id,
          order,            \* the local order of buy_order/sell_order, or NULL
          waiting,          \* the id given to `order' when add_order waits
          feed,             \* encoded events not yet executed by the engine
          stop,             \* stop_token.stop_requested()
          replica,          \* the OrderBookEngine's state_
          public_bbo        \* the last snapshot the engine wrote

clobVars == <<book, next_order_id, order, waiting>>
engineVars == <<replica, public_bbo>>
vars == <<clobVars, feed, stop, engineVars>>

Init == /\ book = EmptyBook
        /\ next_order_id = 1
        /\ order = NULL /\ waiting = NULL
        /\ feed = <<>>
        /\ stop = FALSE
        /\ replica = EmptyBook
        /\ public_bbo = EmptyBook.bbo

Idle == order = NULL

\* wait_get_head_ref saw no stop and returned a slot; publish() follows.
Publish(type, o) == /\ ~stop
                    /\ Len(feed) < FEED_CAPACITY
                    /\ feed' = Append(feed, encode([type |-> type, order |-> o]))

-----------------------------------------------------------------------------
(* submit(): buy_order and sell_order. *)

\* The caller keeps the number of orders it may rest below the pool's size:
\* BookState::add has no check of its own.
NewOrder(side, price, quantity) ==
    /\ Idle /\ ~stop
    /\ quantity > 0                 \* a zero quantity returns at once
    /\ CanAllocate(book)
    /\ next_order_id <= MaxOrderId
    /\ order' = [side |-> side, price |-> price, quantity |-> quantity]
    /\ UNCHANGED <<book, next_order_id, waiting, feed, stop, engineVars>>

\* Mutant: an equal price does not trade.
OpponentStrictly ==
    LET best == best_opposing_order(book, order.side)
    IN  IF best = NULL THEN NULL
        ELSE IF ~Better(order.side, order.price, best.price) THEN NULL ELSE best

\* The best opposing order, when the incoming order accepts its price.
Opponent ==
    LET best == best_opposing_order(book, order.side)
    IN  IF best = NULL THEN NULL
        ELSE IF Better(order.side, best.price, order.price) THEN NULL ELSE best

Smaller(x, y) == IF x < y THEN x ELSE y

\* Mutant: the event carries the resting order's whole quantity.
ExecuteTradeWholeEvent ==
    /\ ~Idle /\ waiting = NULL
    /\ Opponent # NULL
    /\ LET quantity == Smaller(order.quantity, Opponent.quantity)
       IN  /\ Publish("Trade", Opponent)
           /\ book' = trade(book, Opponent.order_id, quantity).book
           /\ order' = IF order.quantity = quantity THEN NULL
                       ELSE [order EXCEPT !.quantity = @ - quantity]
    /\ UNCHANGED <<next_order_id, waiting, stop, engineVars>>

ExecuteTrade ==
    /\ ~Idle /\ waiting = NULL
    /\ Opponent # NULL
    /\ LET quantity == Smaller(order.quantity, Opponent.quantity)
       IN  /\ Publish("Trade", [Opponent EXCEPT !.quantity = quantity])
           /\ book' = trade(book, Opponent.order_id, quantity).book
           /\ order' = IF order.quantity = quantity THEN NULL
                       ELSE [order EXCEPT !.quantity = @ - quantity]
    /\ UNCHANGED <<next_order_id, waiting, stop, engineVars>>

\* The matching loop ended with something left: give the order its id.
AssignId ==
    /\ ~Idle /\ waiting = NULL /\ ~stop
    /\ Opponent = NULL
    /\ waiting' = next_order_id
    /\ next_order_id' = next_order_id + 1
    /\ UNCHANGED <<book, order, feed, stop, engineVars>>

AddOrder ==
    /\ waiting # NULL
    /\ LET o == [order_id |-> waiting, price |-> order.price,
                 quantity |-> order.quantity, side |-> order.side]
       IN  Publish("Add", o) /\ book' = add(book, o).book
    /\ order' = NULL /\ waiting' = NULL
    /\ UNCHANGED <<next_order_id, stop, engineVars>>

\* A stop is seen at the head of execute_trade, in a wait for a slot, or
\* before the order is given an id: what is left of the order is dropped.
AbandonOrder ==
    /\ ~Idle /\ stop
    /\ order' = NULL /\ waiting' = NULL
    /\ UNCHANGED <<book, next_order_id, feed, stop, engineVars>>

-----------------------------------------------------------------------------
(* submit(): cancel_order and update_order.  A request for an order that   *)
(* does not exist is refused, one cut short by a stop does nothing: both   *)
(* leave the state as it is.                                               *)

IdOnly(id, quantity) == [order_id |-> id, price |-> 0, quantity |-> quantity,
                         side |-> "Buy"]

CancelOrder(id) ==
    /\ Idle
    /\ order_exists(book, id)
    /\ Publish("Cancel", IdOnly(id, 0))
    /\ book' = cancel(book, id).book
    /\ UNCHANGED <<next_order_id, order, waiting, stop, engineVars>>

AtBest(id) == LET o == RestingAt(book, id).order
              IN  o.price = book.bbo[o.side].price

UpdateOrder(id, quantity) ==
    /\ Idle
    /\ order_exists(book, id)
    /\ UpdateBest \/ quantity = 0 \/ ~AtBest(id)
    /\ Publish("Update", IdOnly(id, quantity))
    /\ book' = update_quantity(book, id, quantity).book
    /\ UNCHANGED <<next_order_id, order, waiting, stop, engineVars>>

-----------------------------------------------------------------------------
\* OrderBookEngine::start: execute the oldest event, which the handler's
\* publisher has decoded, and write the snapshot for the strategies when the
\* BBO is reported as changed.
EngineExecutes ==
    /\ feed # <<>>
    /\ LET result == execute(replica, decode(Head(feed)))
       IN  /\ replica' = result.book
           /\ public_bbo' = IF result.update \in {"NewBestBid", "NewBestOffer"}
                            THEN result.book.bbo ELSE public_bbo
    /\ feed' = Tail(feed)
    /\ UNCHANGED <<clobVars, stop>>

\* A stop request while submit() runs.  One that comes between two calls only
\* keeps the next call from being made.
RequestStop == /\ ~stop /\ ~Idle
               /\ stop' = TRUE
               /\ UNCHANGED <<clobVars, feed, engineVars>>

Ids == 1 .. MaxOrderId

Match == ExecuteTrade \/ AssignId \/ AddOrder \/ AbandonOrder

Request == \/ \E side \in Sides, p \in Prices, q \in Quantities :
                 NewOrder(side, p, q)
           \/ \E id \in Ids : CancelOrder(id)
           \/ \E id \in Ids, q \in Quantities : UpdateOrder(id, q)

Next == Request \/ Match \/ EngineExecutes \/ RequestStop

Spec == Init /\ [][Next]_vars

-----------------------------------------------------------------------------
\* Pool, free stack, the two hash maps, the price sets and the linked queues
\* agree with one another after every operation, however orders came and went.
BookStructure == StructureOK(book)

\* The cached best bid and offer are what the levels say.
BboConsistent == BboOK(book)

\* The queue of resting orders at every price of every side.
Ladder(b) == [side \in Sides |-> [p \in Prices |-> QueueAt(b, side, p)]]

\* A book is never crossed, at the exchange or in what strategies replay.
NotCrossed ==
    \A b \in {book, replica} : b.bbo["Buy"].price < b.bbo["Sell"].price

\* The encoded events are all a strategy needs: decoding and replaying the ones
\* still on their way turns its book into the exchange's, slot for slot.
FeedReplaysBook ==
    LET replayed[n \in 0 .. Len(feed)] ==
            IF n = 0 THEN replica
            ELSE execute(replayed[n - 1], decode(feed[n])).book
    IN  replayed[Len(feed)] = book

\* The engine tells strategies of every change of the BBO: the snapshot they
\* can read is the replica's BBO whenever the engine is between events.
PublicBboIsCurrent == public_bbo = replica.bbo
=============================================================================
