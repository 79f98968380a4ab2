------------------------------ MODULE BookState ------------------------------
(***************************************************************************)
(* src/order-book/book-state.cpp and includes/order-book/order-pool.hpp:   *)
(* the price-level book, as operators on a record                          *)
(*   pool    the resting orders, each with its previous and next in level  *)
(*   free    free_stack[0 .. top_index - 1], the top last                  *)
(*   levels  ClosedHashMap  price -> [head, tail, total_quantity]          *)
(*   orders  ClosedHashMap  order id -> index in the pool                  *)
(*   prices  the std::set of prices of each side (bids, offers)            *)
(*   bbo     the cached best price and quantity of each side               *)
(* The exchange's CLOB and the strategy's OrderBookEngine each keep one.   *)
(* An operation returns [book, update]: the new state and whether the BBO  *)
(* is reported as changed.                                                 *)
(*                                                                         *)
(* A freed pool entry is overwritten whole by the next allocate(), so its  *)
(* stale contents are not kept.                                            *)
(***************************************************************************)
EXTENDS ClosedHashMap, Sequences, SequencesExt, FiniteSetsExt

CONSTANTS MAX_CONCURRENT_ORDERS,
          ORDER_SLOTS,      \* MAX_CONCURRENT_ORDERS * 2
          LEVEL_SLOTS,      \* MAX_PRICE_LEVELS * 2
          NO_BID, NO_OFFER, \* below and above every price
          QUANTITY_RANGE    \* 2^32: Order::Quantity is unsigned 32 bits wide

ASSUME PoolAssumption ==
    /\ {MAX_CONCURRENT_ORDERS, LEVEL_SLOTS, QUANTITY_RANGE} \subseteq Nat \ {0}
    /\ ORDER_SLOTS \in Nat /\ ORDER_SLOTS >= MAX_CONCURRENT_ORDERS
    /\ {NO_BID, NO_OFFER} \subseteq Int /\ NO_BID < NO_OFFER

Sides == {"Buy", "Sell"}
Opposite(side) == IF side = "Buy" THEN "Sell" ELSE "Buy"
NoPrice(side) == IF side = "Buy" THEN NO_BID ELSE NO_OFFER
NewBest(side) == IF side = "Buy" THEN "NewBestBid" ELSE "NewBestOffer"

\* p is a better price than q to whoever trades against this side.
Better(side, p, q) == IF side = "Buy" THEN p > q ELSE p < q
\* *bids.begin() and *offers.begin()
BestPrice(side, prices) == CHOOSE p \in prices :
                               \A q \in prices : q # p => Better(side, p, q)

NoOrder == [order |-> NULL, previous |-> NULL, next |-> NULL]

EmptyBook ==
    [pool   |-> [i \in 0 .. MAX_CONCURRENT_ORDERS - 1 |-> NoOrder],
     free   |-> [i \in 1 .. MAX_CONCURRENT_ORDERS |-> i - 1],
     levels |-> EmptyMap(LEVEL_SLOTS),
     orders |-> EmptyMap(ORDER_SLOTS),
     prices |-> [side \in Sides |-> {}],
     bbo    |-> [side \in Sides |-> [price |-> NoPrice(side), quantity |-> 0]]]

Result(b, update) == [book |-> b, update |-> update]

-----------------------------------------------------------------------------
order_exists(b, id) == Has(b.orders, id)
Level(b, price) == Find(b.levels, price)
RestingAt(b, id) == b.pool[Find(b.orders, id)]

\* Mutant: the newest order at the best price.
newest_opposing_order(b, side) ==
    LET opposing == Opposite(side)
        best == b.bbo[opposing]
    IN  IF best.price = NoPrice(opposing) THEN NULL
        ELSE [b.pool[Level(b, best.price).tail].order EXCEPT
                !.price = best.price, !.side = opposing]

\* The head order of the best opposing level, or NULL when that side is empty.
best_opposing_order(b, side) ==
    LET opposing == Opposite(side)
        best == b.bbo[opposing]
    IN  IF best.price = NoPrice(opposing) THEN NULL
        ELSE [b.pool[Level(b, best.price).head].order EXCEPT
                !.price = best.price, !.side = opposing]

-----------------------------------------------------------------------------
\* Mutants: an order joining the best level does not count, or is counted
\* without being reported.
bbo_add_ignores_join(b, o) ==
    IF Better(o.side, o.price, b.bbo[o.side].price)
    THEN Result([b EXCEPT !.bbo[o.side] =
                    [price |-> o.price, quantity |-> o.quantity]],
                NewBest(o.side))
    ELSE Result(b, "NoChange")
bbo_add_silent_join(b, o) ==
    LET best == b.bbo[o.side]
    IN  CASE Better(o.side, o.price, best.price) ->
               Result([b EXCEPT !.bbo[o.side] =
                         [price |-> o.price, quantity |-> o.quantity]],
                      NewBest(o.side))
          [] o.price = best.price ->
               Result([b EXCEPT !.bbo[o.side].quantity =
                         (@ + o.quantity) % QUANTITY_RANGE], "NoChange")
          [] OTHER -> Result(b, "NoChange")

update_bbo_add(b, o) ==
    LET best == b.bbo[o.side]
    IN  CASE Better(o.side, o.price, best.price) ->
               Result([b EXCEPT !.bbo[o.side] =
                         [price |-> o.price, quantity |-> o.quantity]],
                      NewBest(o.side))
          [] o.price = best.price ->
               Result([b EXCEPT !.bbo[o.side].quantity =
                         (@ + o.quantity) % QUANTITY_RANGE],
                      NewBest(o.side))
          [] OTHER -> Result(b, "NoChange")

\* The best price of a side, read from its price set and level map.
BestFromLevels(b, side) ==
    IF b.prices[side] = {} THEN [price |-> NoPrice(side), quantity |-> 0]
    ELSE LET p == BestPrice(side, b.prices[side])
         IN  [price |-> p,
              quantity |-> Level(b, p).total_quantity % QUANTITY_RANGE]

update_bbo_reduce(b, o) ==
    LET best == b.bbo[o.side]
    IN  CASE o.price = best.price /\ o.quantity = best.quantity ->
               Result([b EXCEPT !.bbo[o.side] = BestFromLevels(b, o.side)],
                      NewBest(o.side))
          [] o.price = best.price /\ o.quantity # best.quantity ->
               Result([b EXCEPT !.bbo[o.side].quantity =
                         (@ - o.quantity) % QUANTITY_RANGE],
                      NewBest(o.side))
          [] OTHER -> Result(b, "NoChange")

-----------------------------------------------------------------------------
\* OrderPool::allocate and free.  An empty pool would underflow top_index.
CanAllocate(b) == b.free # <<>>
Allocate(b, resting) == [b EXCEPT !.pool[Last(b.free)] = resting,
                                  !.free = Front(@)]
Free(b, i) == [b EXCEPT !.pool[i] = NoOrder, !.free = Append(@, i)]

\* Appends pool entry i to the queue of its price, creating the level.
JoinLevel(b, i, o) ==
    IF ~Has(b.levels, o.price)
    THEN [b EXCEPT !.levels = Insert(@, o.price, [head |-> i, tail |-> i,
                                                  total_quantity |-> o.quantity]),
                   !.prices[o.side] = @ \cup {o.price}]
    ELSE LET level == Level(b, o.price)
         IN  [b EXCEPT !.levels = Assign(@, o.price,
                            [level EXCEPT !.total_quantity = @ + o.quantity,
                                          !.tail = i]),
                       !.pool[level.tail].next = i,
                       !.pool[i].previous = level.tail]

add(b, o) ==
    LET i == Last(b.free)
        allocated == Allocate(b, [NoOrder EXCEPT !.order = o])
        mapped == [allocated EXCEPT !.orders = Insert(@, o.order_id, i)]
    IN  update_bbo_add(JoinLevel(mapped, i, o), o)

-----------------------------------------------------------------------------
\* Mutant: the successor keeps its link to the order that left.
detach_one_way(b, r) ==
    LET p == r.order.price
        level == Level(b, p)
        head == IF r.previous = NULL THEN r.next ELSE level.head
        tail == IF r.next = NULL THEN r.previous ELSE level.tail
    IN  [b EXCEPT !.levels = Assign(@, p, [level EXCEPT !.head = head,
                                                        !.tail = tail]),
                  !.pool = [i \in DOMAIN @ |->
                      IF i = r.previous THEN [@[i] EXCEPT !.next = r.next]
                      ELSE @[i]]]

\* Unlinks r from its level's queue.
detach(b, r) ==
    LET p == r.order.price
        level == Level(b, p)
        head == IF r.previous = NULL THEN r.next ELSE level.head
        tail == IF r.next = NULL THEN r.previous ELSE level.tail
    IN  [b EXCEPT !.levels = Assign(@, p, [level EXCEPT !.head = head,
                                                        !.tail = tail]),
                  !.pool = [i \in DOMAIN @ |->
                      CASE i = r.previous -> [@[i] EXCEPT !.next = r.next]
                        [] i = r.next -> [@[i] EXCEPT !.previous = r.previous]
                        [] OTHER -> @[i]]]

\* The level shrinks by q.
Shrink(b, price, q) ==
    [b EXCEPT !.levels = Assign(@, price,
        [Level(b, price) EXCEPT !.total_quantity = @ - q])]

purge_order(b, id) ==
    LET i == Find(b.orders, id)
        r == b.pool[i]
        o == r.order
        shrunk == Shrink(b, o.price, o.quantity)
        unlinked ==
            IF Level(shrunk, o.price).total_quantity = 0
            THEN [shrunk EXCEPT !.levels = Erase(@, o.price),
                                !.prices[o.side] = @ \ {o.price}]
            ELSE detach(shrunk, r)
        reduced == update_bbo_reduce(
                       [unlinked EXCEPT !.orders = Erase(@, id)], o)
    IN  Result(Free(reduced.book, i), reduced.update)

cancel(b, id) == purge_order(b, id)

\* Sets the resting order's own quantity, after the BBO saw the delta.
WithQuantity(result, i, q) ==
    Result([result.book EXCEPT !.pool[i].order.quantity = q], result.update)

trade(b, id, q) ==
    LET i == Find(b.orders, id)
        o == b.pool[i].order
    IN  IF o.quantity = q THEN purge_order(b, id)
        ELSE WithQuantity(
               update_bbo_reduce(Shrink(b, o.price, q), [o EXCEPT !.quantity = q]),
               i, o.quantity - q)

\* The quantity deltas are handed to the BBO exactly as the code does: a
\* decrease goes to update_bbo_add and an increase to update_bbo_reduce.
update_quantity(b, id, q) ==
    LET i == Find(b.orders, id)
        o == b.pool[i].order
        Delta(d) == [o EXCEPT !.quantity = d]
    IN  CASE q = 0 -> purge_order(b, id)
          [] q > 0 /\ q < o.quantity ->
               WithQuantity(
                 update_bbo_add(Shrink(b, o.price, o.quantity - q),
                                Delta(o.quantity - q)), i, q)
          [] OTHER ->
               WithQuantity(
                 update_bbo_reduce(Shrink(b, o.price, o.quantity - q),
                                   Delta(q - o.quantity)), i, q)

\* BookState::execute on a market event.
execute(b, event) ==
    CASE event.type = "Add"    -> add(b, event.order)
      [] event.type = "Cancel" -> cancel(b, event.order.order_id)
      [] event.type = "Trade"  -> trade(b, event.order.order_id,
                                        event.order.quantity)
      [] event.type = "Update" -> update_quantity(b, event.order.order_id,
                                                  event.order.quantity)

-----------------------------------------------------------------------------
(* What a book stands for, and when its structures agree. *)

\* The pool indices of a level's queue, followed along next from the head.
Chain(b, price) ==
    LET follow[n \in 0 .. MAX_CONCURRENT_ORDERS] ==
            IF n = 0 THEN <<Level(b, price).head>>
            ELSE LET shorter == follow[n - 1]
                     next == b.pool[Last(shorter)].next
                 IN  IF next = NULL THEN shorter ELSE Append(shorter, next)
    IN  follow[MAX_CONCURRENT_ORDERS]

\* The queue of orders at a price of a side, oldest first.
QueueAt(b, side, price) ==
    IF price \notin b.prices[side] THEN <<>>
    ELSE LET chain == Chain(b, price)
         IN  [n \in 1 .. Len(chain) |->
                [id |-> b.pool[chain[n]].order.order_id,
                 quantity |-> b.pool[chain[n]].order.quantity]]

QuantityOf(queue) ==
    LET sum[n \in 0 .. Len(queue)] ==
            IF n = 0 THEN 0 ELSE sum[n - 1] + queue[n].quantity
    IN  sum[Len(queue)]

Live(b) == {i \in DOMAIN b.pool : b.pool[i] # NoOrder}

\* Every live entry is in exactly one queue, doubly linked, found through the
\* order map; free entries are exactly the others; the level map holds exactly
\* the prices of the two sides, with the sum of the quantities queued there.
StructureOK(b) ==
    /\ WellFormed(b.orders) /\ WellFormed(b.levels)
    /\ ToSet(b.free) = DOMAIN b.pool \ Live(b)
    /\ Len(b.free) = Cardinality(DOMAIN b.pool \ Live(b))
    /\ Keys(b.orders) = {b.pool[i].order.order_id : i \in Live(b)}
    /\ \A i \in Live(b) : Find(b.orders, b.pool[i].order.order_id) = i
    /\ b.prices["Buy"] \cap b.prices["Sell"] = {}
    /\ Keys(b.levels) = b.prices["Buy"] \cup b.prices["Sell"]
    /\ \A side \in Sides : \A p \in b.prices[side] :
         LET chain == Chain(b, p)
             level == Level(b, p)
         IN  /\ ToSet(chain) = {i \in Live(b) : b.pool[i].order.price = p}
             /\ Len(chain) = Cardinality(ToSet(chain))
             /\ level.tail = Last(chain)
             /\ b.pool[level.head].previous = NULL
             /\ \A n \in 1 .. Len(chain) - 1 :
                   b.pool[chain[n + 1]].previous = chain[n]
             /\ \A i \in ToSet(chain) : b.pool[i].order.side = side
             /\ level.total_quantity = QuantityOf(QueueAt(b, side, p))

\* The cached BBO is the best price of each side and the quantity there.
BboOK(b) ==
    \A side \in Sides :
        b.bbo[side] =
            IF b.prices[side] = {} THEN [price |-> NoPrice(side), quantity |-> 0]
            ELSE LET p == BestPrice(side, b.prices[side])
                 IN  [price |-> p, quantity |-> QuantityOf(QueueAt(b, side, p))
                                                    % QUANTITY_RANGE]
=============================================================================
