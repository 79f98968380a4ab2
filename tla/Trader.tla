------------------------------- MODULE Trader -------------------------------
(***************************************************************************)
(* The strategy process (strategy-runner.cpp) around its trader thread     *)
(* (trader.hpp): fills from the OMS and snapshots of the market go to the  *)
(* strategy, PassiveMarketMaker; what it queues is checked against the     *)
(* risk limits and passed to the OMS, or given back to the strategy.       *)
(*                                                                         *)
(* The rings to and from the OMS are LazyRingBuffers and stand here as the *)
(* bounded FIFOs those implement; a read of the risk data or of the BBO    *)
(* returns some snapshot that was written (SeqLock), and a read of the     *)
(* risk data waits for one.  External: the OMS, of which this repository   *)
(* holds only the interface.  It takes requests in order, fills open       *)
(* orders and publishes risk data whenever it likes, and reports every     *)
(* fill.                                                                   *)
(***************************************************************************)
EXTENDS PassiveMarketMaker, SequencesExt, FiniteSetsExt

CONSTANTS Snapshots,        \* the BBOs the order book engine may publish
          Risks,            \* the RiskData the OMS may publish
          TRADE_BUFFER_SIZE,
          ORDER_UPDATE_BUFFER_SIZE,
          MaxOrders,        \* bound: client order ids
          MaxFills          \* bound: fills by the OMS

ASSUME TraderAssumption ==
    /\ {TRADE_BUFFER_SIZE, ORDER_UPDATE_BUFFER_SIZE} \subseteq Nat \ {0}
    /\ MaxOrders \in Nat /\ MaxFills \in Nat
\* A side of the market is empty or has a price the exchange takes: positive,
\* and so far from the end of the range that the sum of two does not overflow.
ASSUME SnapshotsAssumption ==
    Snapshots \subseteq [bid : {NO_BID} \cup 1 .. NO_OFFER \div 2,
                        offer : {NO_OFFER} \cup 1 .. NO_OFFER \div 2]

VARIABLES maker,            \* strategy_ and order_buffer_
          trader,           \* where Trader::start is
          back,             \* where place_new_orders returns to
          snapshot,         \* the BBO that get_orders was called with
          trade_buffer,     \* to the OMS
          update_buffer,    \* from the OMS
          stop,             \* stop_source_
          open,             \* OMS: the quantity of each open order
          position,         \* OMS: bought minus sold
          risk_data,        \* OMS: public_risk_data_ is "locked" until it has
                            \*   been written, and while it is
          fills,            \* history: fills so far
          crossed,          \* history: kinds of request that met a fill of the
                            \*   same order on the way
          rejected          \* history: reasons of the current drain

traderVars == <<maker, trader, back, snapshot, rejected>>
omsVars == <<open, position, risk_data, fills>>
vars == <<traderVars, trade_buffer, update_buffer, stop, omsVars, crossed>>

Ids == 1 .. MaxOrders
Sides == {"buy", "sell"}

Init == /\ maker = NewMaker
        /\ trader = "loop" /\ back = "loop"
        /\ snapshot = NULL
        /\ trade_buffer = <<>> /\ update_buffer = <<>>
        /\ stop = FALSE
        /\ open = [id \in Ids |-> 0] /\ position = 0 /\ fills = 0
        /\ risk_data = "locked"
        /\ crossed = {} /\ rejected = {}

-----------------------------------------------------------------------------
(* Trader::start *)

\* StrategyRunner::start stops the other threads when the trader returns.
Return == trader' = "done" /\ stop' = TRUE

CheckStop ==
    /\ trader = "loop"
    /\ \/ stop /\ Return
       \/ ~stop /\ trader' = "updates" /\ UNCHANGED stop
    /\ UNCHANGED <<maker, back, snapshot, rejected, trade_buffer, update_buffer,
                   omsVars>>

\* forward_oms_updates: the next fill, and then the orders it gave rise to.
ForwardUpdate ==
    /\ trader = "updates" /\ update_buffer # <<>>
    /\ maker' = update(maker, Head(update_buffer))
    /\ update_buffer' = Tail(update_buffer)
    /\ trader' = "drain" /\ back' = "updates" /\ rejected' = {}
    /\ UNCHANGED <<snapshot, trade_buffer, stop, omsVars>>

NoMoreUpdates ==
    /\ trader = "updates" /\ update_buffer = <<>>
    /\ trader' = "bbo"
    /\ UNCHANGED <<maker, back, snapshot, rejected, trade_buffer, update_buffer,
                   stop, omsVars>>

\* wait_read_next returns a new BBO.
ReadBbo(bbo) ==
    /\ trader = "bbo" /\ ~stop
    /\ maker.next_id + 1 <= MaxOrders
    /\ maker' = get_orders(maker, bbo)
    /\ snapshot' = bbo
    /\ trader' = "drain" /\ back' = "loop" /\ rejected' = {}
    /\ UNCHANGED <<trade_buffer, update_buffer, stop, omsVars>>

StopAtBbo ==
    /\ trader = "bbo" /\ stop
    /\ Return
    /\ UNCHANGED <<maker, back, snapshot, rejected, trade_buffer, update_buffer,
                   omsVars>>

-----------------------------------------------------------------------------
(* place_new_orders *)

Reduces(request) == request.type = "Cancel" \/ Reducing(request)

\* What the request may add to the position at most.
SignedDelta(request) ==
    LET delta == request.quantity - request.previous
    IN  IF request.side = "buy" THEN delta ELSE -delta

\* The gates in the order of evaluate_risk; a request that reduces the
\* exposure passes all of them.
evaluate_risk(request, risk) ==
    CASE Reduces(request) -> "Good"
      [] ~Reduces(request) /\ risk.is_halted -> "Halted"
      [] OTHER ->
           IF risk.orders_sent_in_window >= risk.max_orders_per_window
           THEN "TooManyOrders"
           ELSE IF Distance(risk.net_position + SignedDelta(request), 0)
                     > risk.max_position
           THEN "TooMuchExposure"
           ELSE IF risk.pnl <= risk.max_loss_allowed THEN "TooMuchLoss"
           ELSE "Good"

Outbound == Head(maker.orders)
Popped == [maker EXCEPT !.orders = Tail(@)]

\* The buffer is empty, or a stop was requested: what is left stays unsent.
Drained ==
    /\ trader = "drain"
    /\ maker.orders = <<>> \/ stop
    /\ trader' = back /\ snapshot' = NULL
    /\ UNCHANGED <<maker, back, rejected, trade_buffer, update_buffer, stop,
                   omsVars>>

\* evaluate_risk has read the risk data: read_latest spins while it is locked.
Evaluates == /\ trader = "drain" /\ maker.orders # <<>> /\ ~stop
             /\ risk_data = "written"

\* Mutant: a rejected request is queued again.
RejectAndRetry(risk) ==
    /\ Evaluates
    /\ LET reason == evaluate_risk(Outbound, risk)
           again == [maker EXCEPT !.orders = Append(Tail(@), Outbound)]
       IN  /\ reason # "Good"
           /\ maker' = notify_invalid(again, Outbound, reason)
           /\ rejected' = rejected \cup {reason}
    /\ UNCHANGED <<trader, back, snapshot, trade_buffer, update_buffer, stop,
                   omsVars>>

Reject(risk) ==
    /\ Evaluates
    /\ LET reason == evaluate_risk(Outbound, risk)
       IN  /\ reason # "Good"
           /\ maker' = notify_invalid(Popped, Outbound, reason)
           /\ rejected' = rejected \cup {reason}
    /\ UNCHANGED <<trader, back, snapshot, trade_buffer, update_buffer, stop,
                   omsVars>>

\* send_to_exchange does nothing yet; the OMS executes the order on paper.
Forward(risk) ==
    /\ Evaluates
    /\ evaluate_risk(Outbound, risk) = "Good"
    /\ \/ /\ Len(trade_buffer) < TRADE_BUFFER_SIZE
          /\ trade_buffer' = Append(trade_buffer, Outbound)
          /\ maker' = Popped
          /\ UNCHANGED <<trader, stop>>
       \/ /\ Len(trade_buffer) = TRADE_BUFFER_SIZE      \* TradeBufferFull
          /\ Return
          /\ UNCHANGED <<trade_buffer, maker>>
    /\ UNCHANGED <<back, snapshot, rejected, update_buffer, omsVars>>

TraderStep ==
    \/ CheckStop \/ ForwardUpdate \/ NoMoreUpdates \/ StopAtBbo \/ Drained
    \/ \E risk \in Risks : Reject(risk) \/ Forward(risk)

-----------------------------------------------------------------------------
(* The OMS, external. *)

\* A request for an order that is not open any more does nothing.
OmsTakes ==
    /\ trade_buffer # <<>>
    /\ trade_buffer' = Tail(trade_buffer)
    /\ LET request == Head(trade_buffer)
       IN  open' = [open EXCEPT ![request.id] =
                      CASE request.type = "New" -> request.quantity
                        [] request.type = "Cancel" -> 0
                        [] OTHER -> IF @ = 0 THEN 0 ELSE request.quantity]
    /\ UNCHANGED <<traderVars, update_buffer, stop, position, risk_data, fills>>

\* queue_new_order_pair numbers the buy order first.
SideOf(id) == IF id % 2 = 1 THEN "buy" ELSE "sell"
Signed(fill) == IF SideOf(fill.id) = "buy" THEN fill.quantity ELSE -fill.quantity

OmsFills(id, quantity) ==
    /\ fills < MaxFills /\ Len(update_buffer) < ORDER_UPDATE_BUFFER_SIZE
    /\ quantity \in 1 .. open[id]
    /\ LET fill == [id |-> id, quantity |-> quantity]
       IN  /\ update_buffer' = Append(update_buffer, fill)
           /\ position' = position + Signed(fill)
    /\ open' = [open EXCEPT ![id] = @ - quantity]
    /\ fills' = fills + 1
    /\ UNCHANGED <<traderVars, trade_buffer, stop, risk_data>>

\* A write of the risk data ends, or begins.  Only evaluate_risk looks: a write
\* that has begun earlier is for it one that begins now.
OmsWritesRisk ==
    /\ \/ risk_data = "written" /\ Evaluates /\ risk_data' = "locked"
       \/ risk_data = "locked" /\ risk_data' = "written"
    /\ UNCHANGED <<traderVars, trade_buffer, update_buffer, stop, open, position,
                   fills>>

\* launch_order_book_engine, launch_oms, or the external stop token
RequestStop == /\ ~stop
               /\ stop' = TRUE
               /\ UNCHANGED <<traderVars, trade_buffer, update_buffer, omsVars>>

Ended == /\ trader = "done"
         /\ UNCHANGED <<traderVars, trade_buffer, update_buffer, stop, omsVars>>

-----------------------------------------------------------------------------
RequestsUnderWay == ToSet(maker.orders) \cup ToSet(trade_buffer)
FillsUnderWay == ToSet(update_buffer)

Crossing == {r.type : r \in {q \in RequestsUnderWay :
                q.type # "New" /\ \E f \in FillsUnderWay : f.id = q.id}}

Next == /\ \/ TraderStep \/ OmsTakes \/ OmsWritesRisk \/ RequestStop \/ Ended
           \/ \E bbo \in Snapshots : ReadBbo(bbo)
           \/ \E id \in Ids, q \in 1 .. 3 * MARKET_MAKER_ORDER_QUANTITY :
                OmsFills(id, q)
        /\ crossed' = crossed \cup Crossing'

Spec == Init /\ [][Next]_vars

\* The trader thread keeps running.  Nothing makes the market move, an order be
\* filled, or the OMS take its requests or write risk data.
FairSpec == Spec /\ WF_vars(TraderStep /\ crossed' = crossed \cup Crossing')

-----------------------------------------------------------------------------
Reasons == {"Halted", "TooManyOrders", "TooMuchExposure", "TooMuchLoss"}
Request == [type : {"New", "Cancel", "Update"}, id : Ids, side : Sides,
            price : Int, quantity : Nat, previous : Nat]

\* Every variable has its type; what the strategy queues is staged within its
\* buffer, whatever is rejected while the buffer is being drained.
TypeOK ==
    /\ \A side \in Sides :
         /\ maker[side].status \in {"NotPlaced", "Placed"}
         /\ maker[side].id \in 0 .. MaxOrders
         /\ maker[side].quantity \in Nat
         /\ Placed(maker, side) => SideOf(maker[side].id) = side
                                     /\ maker[side].quantity > 0
    /\ maker.orders \in Seq(Request)
    /\ Len(maker.orders) <= STRATEGY_ORDER_BUFFER_SIZE
    /\ maker.net \in Int
    /\ trader \in {"loop", "updates", "bbo", "drain", "done"}
    /\ back \in {"loop", "updates"}
    /\ trade_buffer \in Seq(Request)
    /\ update_buffer \in Seq([id : Ids, quantity : Nat \ {0}])
    /\ open \in [Ids -> Nat] /\ position \in Int
    /\ risk_data \in {"locked", "written"}
    /\ crossed \subseteq {"Cancel", "Update"}
    /\ rejected \subseteq Reasons

\* What the fills on the way will add to the strategy's count.
Unheard ==
    LET sum[n \in 0 .. Len(update_buffer)] ==
          IF n = 0 THEN 0 ELSE sum[n - 1] + Signed(update_buffer[n])
    IN  sum[Len(update_buffer)]

UnderWay(type, id) == \E r \in RequestsUnderWay : r.type = type /\ r.id = id
Live(id) == open[id] > 0 \/ UnderWay("New", id)
Believed(id) == \E side \in Sides : Placed(maker, side) /\ maker[side].id = id

\* The strategy knows its orders: one that is open, or going to be, is one it
\* believes placed or has a cancel on the way for, and one it believes placed is
\* open, going to be, or has a fill on the way.  It holds through every
\* rejection, as long as no quantity update crosses a fill: the update sets the
\* remaining quantity from a count that does not know of the fill
\* (market-maker.cpp:111), and the strategy then writes an order off that is
\* still open.
OrdersAreKnown ==
    trader # "done" /\ "Update" \notin crossed =>
        \A id \in Ids :
           /\ Live(id) => Believed(id) \/ UnderWay("Cancel", id)
           /\ Believed(id) => Live(id) \/ \E f \in FillsUnderWay : f.id = id

\* net_filled_quantity_ and the fills on the way are the position, as long as no
\* fill crosses a cancel or an update of its order: update() ignores the fill of
\* an order it has cancelled (market-maker.cpp:151).
ExposureIsKnown == crossed = {} => position = maker.net + Unheard

OneSided(bbo) == bbo.bid = NO_BID \/ bbo.offer = NO_OFFER

\* A new quote is inside the spread it was made for, between the smallest and
\* the largest distance from its midpoint (config.hpp:143-146), and a market
\* without bids or without offers, where the midpoint is computed from NO_BID
\* or NO_OFFER, leaves no quote in place.
QuotesFitMarket ==
    trader = "drain" /\ back = "loop" =>
        /\ OneSided(snapshot) => ~Placed(maker, "buy") /\ ~Placed(maker, "sell")
        /\ \A r \in ToSet(maker.orders) : r.type = "New" =>
             /\ snapshot.bid < r.price /\ r.price < snapshot.offer
             /\ Distance(r.price, Midpoint(snapshot.bid, snapshot.offer))
                  \in ONE_SIDED_MIN_SPREAD .. ONE_SIDED_MAX_SPREAD

\* Once an order was refused because of a halt or of too much loss, the
\* strategy has no quote in place when the buffer is drained, although the
\* requests behind the refused one are judged on risk data of their own.
HaltCancelsQuotes ==
    trader \in {"loop", "updates", "bbo"} /\ ~stop
      /\ rejected \cap {"Halted", "TooMuchLoss"} # {}
        => ~Placed(maker, "buy") /\ ~Placed(maker, "sell")

\* place_new_orders returns, once there is risk data to be read or a stop: a
\* rejection may queue requests into the buffer that is being drained, but only
\* such as are never rejected.  Without risk data (nothing in this repository
\* writes any), or with an OMS that is writing it all the time, the trader
\* spins in read_latest (trader.hpp:82) until a stop.
DrainEnds ==
    <>[](risk_data = "written" \/ stop) => (trader = "drain" ~> trader # "drain")
=============================================================================
