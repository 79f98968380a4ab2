------------------------- MODULE PassiveMarketMaker -------------------------
(***************************************************************************)
(* src/strategy-oms/market-maker.cpp: a strategy that keeps one buy and    *)
(* one sell order inside the spread.  Its state is a record                *)
(*   [buy, sell : what it believes of its two orders (PlacedOrder),        *)
(*    net       : net_filled_quantity_,                                    *)
(*    orders    : the trader's StrategyOrderBuffer,                        *)
(*    next_id   : the client order id to generate next]                    *)
(* and every handler an operator from one such record to the next.         *)
(***************************************************************************)
EXTENDS Integers, Sequences

CONSTANTS MARKET_MAKER_ORDER_QUANTITY,
          MIN_MARKET_MAKER_ORDER_QUANTITY,
          EXPOSURE_REBALANCE_THRESHOLD,
          MAX_ADDITIONAL_EXIT_QUANTITY,
          STRATEGY_ORDER_BUFFER_SIZE,
          PRICE_RANGE,      \* prices are integers modulo PRICE_RANGE
          NULL

ASSUME MakerAssumption ==
    /\ {MARKET_MAKER_ORDER_QUANTITY, MIN_MARKET_MAKER_ORDER_QUANTITY,
        EXPOSURE_REBALANCE_THRESHOLD, MAX_ADDITIONAL_EXIT_QUANTITY,
        STRATEGY_ORDER_BUFFER_SIZE} \subseteq Nat \ {0}
    /\ STRATEGY_ORDER_BUFFER_SIZE >= 4     \* two cancels and two new orders
    /\ PRICE_RANGE \in Nat \ {0} /\ PRICE_RANGE % 2 = 0
    /\ NULL \notin [bid : Int, offer : Int]

MIN_TICK_DIFF == 1
ONE_SIDED_MIN_SPREAD == 3
ONE_SIDED_MAX_SPREAD == 10
MAX_ALLOWED_DRIFT == 2
MIN_BID_PRICE == 1

NO_BID == -(PRICE_RANGE \div 2)
NO_OFFER == PRICE_RANGE \div 2 - 1

Larger(a, b) == IF a > b THEN a ELSE b
Smaller(a, b) == IF a < b THEN a ELSE b
Distance(a, b) == IF a > b THEN a - b ELSE b - a
Half(n) == IF n >= 0 THEN n \div 2 ELSE -((-n) \div 2)
Wrapped(n) == ((n - NO_BID) % PRICE_RANGE) + NO_BID

\* Between NO_OFFER and a bid the sum overflows; the addition wraps.
Midpoint(bid, offer) == Half(Wrapped(bid + offer))

NotPlaced == [status |-> "NotPlaced", id |-> 0, price |-> 0, quantity |-> 0]
Placed(maker, side) == maker[side].status = "Placed"

NewMaker == [buy |-> NotPlaced, sell |-> NotPlaced, net |-> 0, orders |-> <<>>,
             next_id |-> 1]

-----------------------------------------------------------------------------
(* SingleThreadRingBuffer, and the requests that go through it. *)

available(maker) == STRATEGY_ORDER_BUFFER_SIZE - Len(maker.orders)

NewOrderRequest(side, order) ==
    [type |-> "New", id |-> order.id, side |-> side, price |-> order.price,
     quantity |-> order.quantity, previous |-> 0]
CancelRequest(side, order) ==
    [type |-> "Cancel", id |-> order.id, side |-> side, price |-> 0,
     quantity |-> 0, previous |-> 0]
UpdateRequest(side, order, quantity) ==
    [type |-> "Update", id |-> order.id, side |-> side, price |-> 0,
     quantity |-> quantity, previous |-> order.quantity]

\* QuantityChange
Reducing(request) ==
    request.type = "Update" /\ request.quantity < request.previous

-----------------------------------------------------------------------------
(* get_orders *)

\* Mutant: the orders keep the largest distance from the midpoint, wherever
\* the best prices are.
price_far_from_market(bbo) ==
    IF \/ bbo.bid = NO_BID \/ bbo.offer = NO_OFFER \/ bbo.offer <= bbo.bid
       \/ (bbo.offer - MIN_TICK_DIFF) - (bbo.bid + MIN_TICK_DIFF)
             < 2 * ONE_SIDED_MIN_SPREAD
    THEN NULL
    ELSE [bid |-> Midpoint(bbo.bid, bbo.offer) - ONE_SIDED_MAX_SPREAD,
          offer |-> Midpoint(bbo.bid, bbo.offer) + ONE_SIDED_MAX_SPREAD]

price_new_order_pair(bbo) ==
    IF \/ bbo.bid = NO_BID \/ bbo.offer = NO_OFFER \/ bbo.offer <= bbo.bid
       \/ (bbo.offer - MIN_TICK_DIFF) - (bbo.bid + MIN_TICK_DIFF)
             < 2 * ONE_SIDED_MIN_SPREAD
    THEN NULL
    ELSE [bid |-> Larger(Midpoint(bbo.bid, bbo.offer) - ONE_SIDED_MAX_SPREAD,
                         bbo.bid + MIN_TICK_DIFF),
          offer |-> Smaller(Midpoint(bbo.bid, bbo.offer) + ONE_SIDED_MAX_SPREAD,
                            bbo.offer - MIN_TICK_DIFF)]

should_place_new_orders(maker, bbo) ==
    \/ ~Placed(maker, "buy") \/ ~Placed(maker, "sell")
    \/ Distance(Midpoint(bbo.bid, bbo.offer),
                Midpoint(maker.buy.price, maker.sell.price)) > MAX_ALLOWED_DRIFT

queue_cancel(maker, side) ==
    IF Placed(maker, side)
    THEN [maker EXCEPT ![side].status = "NotPlaced",
                       !.orders = Append(@, CancelRequest(side, maker[side]))]
    ELSE maker

PlacedCount(maker) == (IF Placed(maker, "buy") THEN 1 ELSE 0)
                        + (IF Placed(maker, "sell") THEN 1 ELSE 0)

queue_cancel_orders(maker) ==
    IF available(maker) < PlacedCount(maker) THEN maker
    ELSE queue_cancel(queue_cancel(maker, "buy"), "sell")

queue_new_order_pair(maker, bbo) ==
    LET prices == price_new_order_pair(bbo)
        order(id, price) == [status |-> "Placed", id |-> id, price |-> price,
                             quantity |-> MARKET_MAKER_ORDER_QUANTITY]
        buy == order(maker.next_id, prices.bid)
        sell == order(maker.next_id + 1, prices.offer)
    IN  IF prices = NULL THEN maker
        ELSE IF prices.bid < MIN_BID_PRICE \/ available(maker) < 2 THEN maker
        ELSE [maker EXCEPT !.buy = buy, !.sell = sell, !.next_id = @ + 2,
                 !.orders = @ \o <<NewOrderRequest("buy", buy),
                                   NewOrderRequest("sell", sell)>>]

get_orders(maker, bbo) ==
    IF ~should_place_new_orders(maker, bbo)
         \/ available(maker) < PlacedCount(maker) + 2
    THEN maker
    ELSE queue_new_order_pair(queue_cancel_orders(maker), bbo)

-----------------------------------------------------------------------------
(* update *)

queue_quantity_update(maker, side, quantity) ==
    IF \/ ~Placed(maker, side) \/ maker[side].quantity = quantity
       \/ available(maker) = 0
    THEN maker
    ELSE [maker EXCEPT ![side].quantity = quantity,
             !.orders = Append(@, UpdateRequest(side, maker[side], quantity))]

\* Mutant: no minimum for the side that gets smaller.
rebalance_to_nothing(maker) ==
    LET held == Distance(maker.net, 0)
        imbalance == Smaller(held, MAX_ADDITIONAL_EXIT_QUANTITY)
        less == Larger(0, MARKET_MAKER_ORDER_QUANTITY - imbalance)
        more == MARKET_MAKER_ORDER_QUANTITY + imbalance
        bid == IF maker.net > 0 THEN less ELSE more
        offer == IF maker.net > 0 THEN more ELSE less
    IN  IF held < EXPOSURE_REBALANCE_THRESHOLD THEN maker
        ELSE queue_quantity_update(queue_quantity_update(maker, "buy", bid),
                                   "sell", offer)

\* The side that would add to the inventory gets smaller, the other one larger.
rebalance_exposure(maker) ==
    LET held == Distance(maker.net, 0)
        imbalance == Smaller(held, MAX_ADDITIONAL_EXIT_QUANTITY)
        less == Larger(MIN_MARKET_MAKER_ORDER_QUANTITY,
                       MARKET_MAKER_ORDER_QUANTITY - imbalance)
        more == MARKET_MAKER_ORDER_QUANTITY + imbalance
        bid == IF maker.net > 0 THEN less ELSE more
        offer == IF maker.net > 0 THEN more ELSE less
    IN  IF held < EXPOSURE_REBALANCE_THRESHOLD THEN maker
        ELSE queue_quantity_update(queue_quantity_update(maker, "buy", bid),
                                   "sell", offer)

\* Mutant: a sold quantity is counted as bought.
update_counts_up(maker, fill) ==
    LET sides == {s \in {"buy", "sell"} : Placed(maker, s) /\ maker[s].id = fill.id}
        side == CHOOSE s \in sides : TRUE
        filled == Smaller(fill.quantity, maker[side].quantity)
        left == maker[side].quantity - filled
    IN  IF sides = {} THEN maker
        ELSE rebalance_exposure([maker EXCEPT
                !.net = @ + filled,
                ![side].quantity = left,
                ![side].status = IF left = 0 THEN "NotPlaced" ELSE @])

update(maker, fill) ==
    LET sides == {s \in {"buy", "sell"} : Placed(maker, s) /\ maker[s].id = fill.id}
        side == CHOOSE s \in sides : TRUE
        filled == Smaller(fill.quantity, maker[side].quantity)
        left == maker[side].quantity - filled
    IN  IF sides = {} THEN maker
        ELSE rebalance_exposure([maker EXCEPT
                !.net = IF side = "buy" THEN @ + filled ELSE @ - filled,
                ![side].quantity = left,
                ![side].status = IF left = 0 THEN "NotPlaced" ELSE @])

-----------------------------------------------------------------------------
(* notify_invalid *)

\* Mutant: a rejected order is still believed placed.
TakeBackUpdates(maker, rejected) ==
    IF maker[rejected.side].id = rejected.id /\ rejected.type = "Update"
    THEN [maker EXCEPT ![rejected.side].quantity = rejected.previous]
    ELSE maker

\* What the rejected request would have changed is taken back.  A rejected
\* order or update of an order the strategy has replaced changes nothing.
TakeBack(maker, rejected) ==
    LET side == rejected.side
    IN  IF maker[side].id # rejected.id \/ rejected.type = "Cancel" THEN maker
        ELSE IF rejected.type = "Update"
             THEN [maker EXCEPT ![side].quantity = rejected.previous]
             ELSE [maker EXCEPT ![side].status = "NotPlaced"]

cancel_for_risk(maker, rejected) ==
    IF available(maker) = 0 THEN maker ELSE queue_cancel(maker, rejected.side)

\* Mutant: only the side that was rejected is cancelled.
notify_one_side(maker, rejected, reason) ==
    LET restored == TakeBack(maker, rejected)
    IN  CASE reason \in {"Halted", "TooMuchLoss", "TooMuchExposure"} ->
               cancel_for_risk(restored, rejected)
          [] OTHER -> restored

notify_invalid(maker, rejected, reason) ==
    LET restored == TakeBack(maker, rejected)
    IN  CASE reason \in {"Halted", "TooMuchLoss"} -> queue_cancel_orders(restored)
          [] reason = "TooMuchExposure" -> cancel_for_risk(restored, rejected)
          [] OTHER -> restored
=============================================================================
