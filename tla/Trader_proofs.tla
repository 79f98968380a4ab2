---------------------------- MODULE Trader_proofs ----------------------------
(***************************************************************************)
(* Trader: what the strategy stages fits its buffer, its quotes fit the    *)
(* market they were made for, none survives a halt, and it knows its       *)
(* orders and its position; for every buffer size of at least two cancels  *)
(* and two new orders, every set of markets, risk data and quantities.     *)
(*                                                                         *)
(* The operators of PassiveMarketMaker come first, one lemma each: every   *)
(* one keeps MakerOK, and all but queue_new_order_pair add no quote and no *)
(* new order (Fewer).  The invariant TraderInv is then kept by each action *)
(* of the trader and of the OMS.  Its heart is RoomInv.  A halt is noticed *)
(* at a request in the middle of a batch, and queue_cancel_orders gives up *)
(* when the buffer has no room for a cancel of every quote in place.  It   *)
(* always has: the longest batch, two cancels and two new orders with both *)
(* quotes believed in place, starts with a cancel, which no gate refuses,  *)
(* and each request that is taken out makes room for one cancel.           *)
(*                                                                         *)
(* The second half is a ledger, LedgerInv.  The account of an order is     *)
(* about what the OMS holds open, what it filled and the strategy has not  *)
(* heard of, and what the strategy believes.  The requests under way, sent *)
(* or still in the buffer, take the first two to the third when they are   *)
(* done in order (Tracked), or close the order (Settled).  Each operator of *)
(* the strategy keeps every account (Moved) or opens accounts under new ids *)
(* (KeptFresh); a refusal in the middle of the buffer keeps them because   *)
(* nothing but a cancel follows an update of the same order (Solo).        *)
(***************************************************************************)
EXTENDS Trader, SequenceTheorems, WellFoundedInduction, TLAPS

Statuses == {"NotPlaced", "Placed"}
Orders == [status : Statuses, id : 0 .. MaxOrders, price : Int, quantity : Nat]

\* A request is about an order of its side; one that changes a quantity can be
\* taken back.
Requests == {r \in Request : /\ SideOf(r.id) = r.side
                             /\ r.type = "Update" => r.previous > 0}
Fills == [id : Ids, quantity : Nat \ {0}]
Makers == [buy : Orders, sell : Orders, net : Int, orders : Seq(Requests), next_id : Nat]

\* An order the strategy believes placed is one it numbered itself.
QuoteOK(o, side) == o.status = "Placed" => /\ o.id \in Ids /\ SideOf(o.id) = side
                                           /\ o.quantity > 0

\* The two orders of a pair are apart, and no price of theirs overflows.
PairOK(m) ==
    m.buy.status = "Placed" /\ m.sell.status = "Placed" =>
        /\ 1 <= m.buy.price /\ m.buy.price + 6 <= m.sell.price
        /\ m.sell.price <= NO_OFFER \div 2

MakerOK(m) ==
    /\ m \in Makers
    /\ QuoteOK(m.buy, "buy") /\ QuoteOK(m.sell, "sell") /\ PairOK(m)
    /\ Len(m.orders) <= STRATEGY_ORDER_BUFFER_SIZE
    /\ m.next_id % 2 = 1

-----------------------------------------------------------------------------
(* Sequences. *)

\* What is appended comes last.
LEMMA Appended ==
    ASSUME NEW S, NEW s \in Seq(S), NEW e \in S
    PROVE  /\ Append(s, e) \in Seq(S) /\ Len(Append(s, e)) = Len(s) + 1
           /\ ToSet(Append(s, e)) = ToSet(s) \cup {e}
  <1>1. /\ Append(s, e) \in Seq(S) /\ Len(Append(s, e)) = Len(s) + 1 /\ Len(s) \in Nat
        /\ \A i \in 1 .. Len(s) : Append(s, e)[i] = s[i]
        /\ Append(s, e)[Len(s) + 1] = e
        /\ DOMAIN s = 1 .. Len(s) /\ DOMAIN Append(s, e) = 1 .. Len(s) + 1
    BY AppendProperties, LenProperties
  <1>2. ASSUME NEW x \in ToSet(Append(s, e)) PROVE x \in ToSet(s) \cup {e}
    <2>1. PICK i \in 1 .. Len(s) + 1 : x = Append(s, e)[i]
      BY <1>1 DEF ToSet
    <2>2. CASE i = Len(s) + 1
      BY <1>1, <2>1, <2>2
    <2>3. CASE i # Len(s) + 1
      <3>1. i \in 1 .. Len(s)
        BY <1>1, <2>3
      <3> QED
        BY <1>1, <2>1, <3>1 DEF ToSet
    <2> QED
      BY <2>2, <2>3
  <1>3. ASSUME NEW x \in ToSet(s) \cup {e} PROVE x \in ToSet(Append(s, e))
    <2>1. CASE x \in ToSet(s)
      <3>1. PICK i \in 1 .. Len(s) : x = s[i]
        BY <1>1, <2>1 DEF ToSet
      <3>2. i \in 1 .. Len(s) + 1
        BY <1>1
      <3> QED
        BY <1>1, <3>1, <3>2 DEF ToSet
    <2>2. CASE x = e
      <3>1. Len(s) + 1 \in 1 .. Len(s) + 1
        BY <1>1
      <3> QED
        BY <1>1, <2>2, <3>1 DEF ToSet
    <2> QED
      BY <2>1, <2>2
  <1> QED
    BY <1>1, <1>2, <1>3

\* The head and the rest of a sequence.
LEMMA Parted ==
    ASSUME NEW S, NEW s \in Seq(S), s # <<>>
    PROVE  /\ Tail(s) \in Seq(S) /\ Head(s) \in S /\ Len(Tail(s)) = Len(s) - 1
           /\ ToSet(Tail(s)) \subseteq ToSet(s) /\ Head(s) \in ToSet(s)
           /\ Len(s) \in Nat /\ Len(s) > 0
  <1>1. /\ Tail(s) \in Seq(S) /\ Head(s) \in S /\ Head(s) = s[1]
        /\ Len(Tail(s)) = Len(s) - 1 /\ Len(s) \in Nat /\ Len(s) > 0
        /\ \A i \in 1 .. Len(Tail(s)) : Tail(s)[i] = s[i + 1]
        /\ DOMAIN s = 1 .. Len(s) /\ DOMAIN Tail(s) = 1 .. Len(Tail(s))
    BY HeadTailProperties, LenProperties, EmptySeq
  <1>2. ASSUME NEW i \in 1 .. Len(s) - 1 PROVE i + 1 \in 1 .. Len(s)
    BY <1>1
  <1>3. 1 \in 1 .. Len(s)
    BY <1>1
  <1> QED
    BY <1>1, <1>2, <1>3 DEF ToSet

-----------------------------------------------------------------------------
(* The strategy's operators. *)

\* c has no quote and no new order that m has not.
Fewer(m, c) ==
    /\ c.buy.status = "Placed" => m.buy.status = "Placed"
    /\ c.sell.status = "Placed" => m.sell.status = "Placed"
    /\ \A r \in ToSet(c.orders) : r.type = "New" => r \in ToSet(m.orders)

\* What is queued and what could still have to be cancelled.
Load(m) == Len(m.orders) + PlacedCount(m)

\* No quote is believed in place.
NoQuotes(m) == m.buy.status # "Placed" /\ m.sell.status # "Placed"

\* The parts of a state of the strategy.
LEMMA MakerFacts ==
    ASSUME NEW m, MakerOK(m)
    PROVE  /\ m.buy \in Orders /\ m.sell \in Orders /\ m.net \in Int /\ m.next_id \in Nat
           /\ m.orders \in Seq(Requests) /\ Len(m.orders) \in Nat
           /\ PlacedCount(m) \in {0, 1, 2} /\ Load(m) \in Nat
           /\ PlacedCount(m) = 0 <=> NoQuotes(m)
           /\ PlacedCount(m) = 2 <=> m.buy.status = "Placed" /\ m.sell.status = "Placed"
           /\ STRATEGY_ORDER_BUFFER_SIZE \in Nat /\ STRATEGY_ORDER_BUFFER_SIZE >= 4
  <1>1. m \in Makers
    BY DEF MakerOK
  <1>2. /\ m.buy \in Orders /\ m.sell \in Orders /\ m.net \in Int /\ m.next_id \in Nat
        /\ m.orders \in Seq(Requests)
    BY <1>1 DEF Makers
  <1>3. Len(m.orders) \in Nat
    BY <1>2, LenProperties
  <1>4. /\ PlacedCount(m) \in {0, 1, 2} /\ (PlacedCount(m) = 0 <=> NoQuotes(m))
        /\ PlacedCount(m) = 2 <=> m.buy.status = "Placed" /\ m.sell.status = "Placed"
    BY DEF PlacedCount, Placed, NoQuotes
  <1>5. STRATEGY_ORDER_BUFFER_SIZE \in Nat /\ STRATEGY_ORDER_BUFFER_SIZE >= 4
    BY MakerAssumption
  <1> QED
    BY <1>2, <1>3, <1>4, <1>5 DEF Load

\* The strategy with other quotes, none of them new, and another buffer.
With(m, b, o, orders) == [m EXCEPT !.buy = b, !.sell = o, !.orders = orders]
Holding(m, b, o, net) == [m EXCEPT !.buy = b, !.sell = o, !.net = net]
Known(m, b, o) ==
    /\ b \in Orders /\ o \in Orders /\ QuoteOK(b, "buy") /\ QuoteOK(o, "sell")
    /\ b.status = "Placed" => m.buy.status = "Placed" /\ b.price = m.buy.price
    /\ o.status = "Placed" => m.sell.status = "Placed" /\ o.price = m.sell.price

\* Another request in the buffer, about a quote that may have changed.
LEMMA Queued ==
    ASSUME NEW m, MakerOK(m), NEW b, NEW o, Known(m, b, o), NEW r \in Requests,
           Len(m.orders) < STRATEGY_ORDER_BUFFER_SIZE, r.type # "New",
           NEW c, c = With(m, b, o, Append(m.orders, r))
    PROVE  /\ MakerOK(c) /\ Fewer(m, c) /\ Len(c.orders) = Len(m.orders) + 1
           /\ c.buy = b /\ c.sell = o /\ c.orders = Append(m.orders, r)
           /\ c.next_id = m.next_id
  <1>1. m \in Makers /\ PairOK(m) /\ m.next_id % 2 = 1
    BY DEF MakerOK
  <1>2. /\ Append(m.orders, r) \in Seq(Requests) /\ Len(Append(m.orders, r)) = Len(m.orders) + 1
        /\ ToSet(Append(m.orders, r)) = ToSet(m.orders) \cup {r}
    BY MakerFacts, Appended
  <1>3. /\ c.buy = b /\ c.sell = o /\ c.orders = Append(m.orders, r) /\ c.net = m.net
        /\ c.next_id = m.next_id
    BY <1>1 DEF Makers, With
  <1>4. c \in Makers
    BY <1>1, <1>2 DEF Makers, With, Known
  <1>5. Len(c.orders) <= STRATEGY_ORDER_BUFFER_SIZE
    BY <1>2, <1>3, MakerFacts
  <1>6. PairOK(c)
    BY <1>1, <1>3 DEF PairOK, Known
  <1>7. MakerOK(c)
    BY <1>1, <1>3, <1>4, <1>5, <1>6 DEF MakerOK, Known
  <1>8. Fewer(m, c)
    BY <1>2, <1>3 DEF Fewer, Known
  <1> QED
    BY <1>2, <1>3, <1>7, <1>8

\* A quote that may have changed, and nothing queued.
LEMMA Changed ==
    ASSUME NEW m, MakerOK(m), NEW b, NEW o, Known(m, b, o), NEW net \in Int,
           NEW c, c = Holding(m, b, o, net)
    PROVE  /\ MakerOK(c) /\ Fewer(m, c) /\ c.orders = m.orders
           /\ c.buy = b /\ c.sell = o
  <1>1. m \in Makers /\ PairOK(m) /\ m.next_id % 2 = 1
        /\ Len(m.orders) <= STRATEGY_ORDER_BUFFER_SIZE
    BY DEF MakerOK
  <1>3. /\ c.buy = b /\ c.sell = o /\ c.orders = m.orders /\ c.net = net
        /\ c.next_id = m.next_id /\ c \in Makers
    BY <1>1 DEF Makers, Known, Holding
  <1>6. PairOK(c)
    BY <1>1, <1>3 DEF PairOK, Known
  <1> QED
    BY <1>1, <1>3, <1>6 DEF MakerOK, Fewer, Known

\* queue_cancel
LEMMA CancelOne ==
    ASSUME NEW m, MakerOK(m), NEW side \in Sides,
           Placed(m, side) => Len(m.orders) < STRATEGY_ORDER_BUFFER_SIZE,
           NEW c, c = queue_cancel(m, side)
    PROVE  /\ MakerOK(c) /\ Fewer(m, c) /\ Load(c) = Load(m) /\ c.next_id = m.next_id
           /\ IF side = "buy" THEN c.buy.status # "Placed" /\ c.sell = m.sell
                              ELSE c.sell.status # "Placed" /\ c.buy = m.buy
           /\ IF Placed(m, side) THEN c.orders = Append(m.orders, CancelRequest(side, m[side]))
                                 ELSE c.orders = m.orders
  <1>1. m \in Makers /\ QuoteOK(m.buy, "buy") /\ QuoteOK(m.sell, "sell")
    BY DEF MakerOK
  <1>2. CASE ~Placed(m, side)
    <2>1. c = m
      BY <1>2 DEF queue_cancel
    <2> QED
      BY <1>2, <2>1 DEF Fewer, Placed, Sides
  <1>3. CASE side = "buy" /\ Placed(m, side)
    <2> DEFINE b == [m.buy EXCEPT !.status = "NotPlaced"]
               r == CancelRequest("buy", m.buy)
    <2>1. b \in Orders /\ b.status = "NotPlaced" /\ m.buy.status = "Placed"
      BY <1>1, <1>3 DEF Makers, Orders, Statuses, Placed
    <2>2. r \in Requests /\ r.type = "Cancel"
      BY <1>1, <2>1 DEF CancelRequest, Requests, Request, Sides, QuoteOK
    <2>3. c = With(m, b, m.sell, Append(m.orders, r))
      BY <1>1, <1>3, Zenon DEF queue_cancel, Makers, With
    <2>4. Known(m, b, m.sell)
      BY <1>1, <2>1, MakerFacts DEF QuoteOK, Known
    <2> HIDE DEF b, r
    <2>5. /\ MakerOK(c) /\ Fewer(m, c) /\ Len(c.orders) = Len(m.orders) + 1
          /\ c.buy = b /\ c.sell = m.sell /\ c.orders = Append(m.orders, r)
          /\ c.next_id = m.next_id
      BY <1>3, <2>2, <2>3, <2>4, Queued
    <2>6. PlacedCount(c) + 1 = PlacedCount(m)
      BY <2>1, <2>5 DEF PlacedCount, Placed
    <2> QED
      BY ONLY <1>3, <2>1, <2>5, <2>6, MakerFacts, SMTT(60) DEF Load, r
  <1>4. CASE side = "sell" /\ Placed(m, side)
    <2> DEFINE o == [m.sell EXCEPT !.status = "NotPlaced"]
               r == CancelRequest("sell", m.sell)
    <2>1. o \in Orders /\ o.status = "NotPlaced" /\ m.sell.status = "Placed"
      BY <1>1, <1>4 DEF Makers, Orders, Statuses, Placed
    <2>2. r \in Requests /\ r.type = "Cancel"
      BY <1>1, <2>1 DEF CancelRequest, Requests, Request, Sides, QuoteOK
    <2>3. c = With(m, m.buy, o, Append(m.orders, r))
      BY <1>1, <1>4, Zenon DEF queue_cancel, Makers, With
    <2>4. Known(m, m.buy, o)
      BY <1>1, <2>1, MakerFacts DEF QuoteOK, Known
    <2> HIDE DEF o, r
    <2>5. /\ MakerOK(c) /\ Fewer(m, c) /\ Len(c.orders) = Len(m.orders) + 1
          /\ c.sell = o /\ c.buy = m.buy /\ c.orders = Append(m.orders, r)
          /\ c.next_id = m.next_id
      BY <1>4, <2>2, <2>3, <2>4, Queued
    <2>6. PlacedCount(c) + 1 = PlacedCount(m)
      BY <2>1, <2>5 DEF PlacedCount, Placed
    <2> QED
      BY <1>4, <2>1, <2>5, <2>6, MakerFacts, SMTT(60) DEF Load, r
  <1> QED
    BY <1>2, <1>3, <1>4 DEF Sides

\* queue_cancel_orders: with room for it no quote is left in place.
LEMMA CancelAll ==
    ASSUME NEW m, MakerOK(m), NEW c, c = queue_cancel_orders(m)
    PROVE  /\ MakerOK(c) /\ Fewer(m, c) /\ Load(c) = Load(m) /\ c.next_id = m.next_id
           /\ Load(m) <= STRATEGY_ORDER_BUFFER_SIZE => NoQuotes(c)
           /\ m.orders = <<>> /\ PlacedCount(m) = 2
                => c.orders # <<>> /\ Head(c.orders).type = "Cancel"
  <1>0. /\ Len(m.orders) \in Nat /\ PlacedCount(m) \in {0, 1, 2}
        /\ STRATEGY_ORDER_BUFFER_SIZE \in Nat /\ STRATEGY_ORDER_BUFFER_SIZE >= 4
    BY MakerFacts
  <1>1. CASE available(m) < PlacedCount(m)
    <2>1. c = m
      BY <1>1 DEF queue_cancel_orders
    <2>2. ~(Load(m) <= STRATEGY_ORDER_BUFFER_SIZE)
      BY <1>0, <1>1 DEF available, Load
    <2>3. m.orders # <<>>
      <3>1. ASSUME m.orders = <<>> PROVE FALSE
        BY <1>0, <1>1, <3>1 DEF available
      <3> QED
        BY <3>1
    <2> QED
      BY <2>1, <2>2, <2>3 DEF Fewer
  <1>2. CASE ~(available(m) < PlacedCount(m))
    <2> DEFINE d == queue_cancel(m, "buy")
    <2>1. c = queue_cancel(d, "sell")
      BY <1>2 DEF queue_cancel_orders
    <2>2. Len(m.orders) + PlacedCount(m) <= STRATEGY_ORDER_BUFFER_SIZE
      BY <1>0, <1>2 DEF available
    <2>3. Placed(m, "buy") => Len(m.orders) < STRATEGY_ORDER_BUFFER_SIZE
      <3>1. Placed(m, "buy") => PlacedCount(m) >= 1
        BY DEF Placed, PlacedCount
      <3> QED
        BY <1>0, <2>2, <3>1
    <2>4. /\ MakerOK(d) /\ Fewer(m, d) /\ Load(d) = Load(m) /\ d.next_id = m.next_id
          /\ d.buy.status # "Placed" /\ d.sell = m.sell
          /\ IF Placed(m, "buy") THEN d.orders = Append(m.orders, CancelRequest("buy", m.buy))
                                 ELSE d.orders = m.orders
      BY <2>3, CancelOne DEF Sides
    <2> HIDE DEF d
    <2>5. Len(d.orders) \in Nat /\ PlacedCount(d) \in {0, 1, 2}
      BY <2>4, MakerFacts
    <2>6. Placed(d, "sell") => Len(d.orders) < STRATEGY_ORDER_BUFFER_SIZE
      <3>1. Placed(d, "sell") => PlacedCount(d) >= 1
        BY DEF Placed, PlacedCount
      <3> QED
        BY <1>0, <2>2, <2>4, <2>5, <3>1 DEF Load
    <2>7. /\ MakerOK(c) /\ Fewer(d, c) /\ Load(c) = Load(d) /\ c.next_id = d.next_id
          /\ c.sell.status # "Placed" /\ c.buy = d.buy
          /\ IF Placed(d, "sell") THEN c.orders = Append(d.orders, CancelRequest("sell", d.sell))
                                  ELSE c.orders = d.orders
      BY <2>1, <2>4, <2>6, CancelOne DEF Sides
    <2>8. Fewer(m, c)
      BY <2>4, <2>7 DEF Fewer
    <2>9. ASSUME m.orders = <<>>, PlacedCount(m) = 2
          PROVE  c.orders # <<>> /\ Head(c.orders).type = "Cancel"
      <3>1. Placed(m, "buy") /\ Placed(d, "sell")
        BY <2>4, <2>9, MakerFacts DEF Placed
      <3> DEFINE r == CancelRequest("buy", m.buy)
                 q == CancelRequest("sell", d.sell)
      <3>2. c.orders = Append(Append(<<>>, r), q)
        BY <2>4, <2>7, <2>9, <3>1
      <3>3. r.type = "Cancel"
        BY DEF CancelRequest
      <3> HIDE DEF r, q
      <3>4. /\ Append(<<>>, r) \in Seq({r, q}) /\ Len(Append(<<>>, r)) = 1
            /\ Append(<<>>, r)[1] = r
        BY AppendProperties
      <3>5. /\ c.orders \in Seq({r, q}) /\ Len(c.orders) = 2
            /\ c.orders[1] = r
        BY <3>2, <3>4, AppendProperties
      <3>6. c.orders # <<>> /\ Head(c.orders) = c.orders[1]
        BY <3>5
      <3> QED
        BY <3>3, <3>5, <3>6
    <2> QED
      BY <2>4, <2>7, <2>8, <2>9 DEF NoQuotes
  <1> QED
    BY <1>1, <1>2

-----------------------------------------------------------------------------
(* Prices. *)

\* Half the range, and prices that do not overflow or do so once.
LEMMA PriceRange ==
    /\ NO_OFFER \in Int /\ NO_BID = -NO_OFFER - 1 /\ NO_OFFER >= 0
    /\ PRICE_RANGE = 2 * NO_OFFER + 2
    /\ NO_OFFER \div 2 \in Int /\ 2 * (NO_OFFER \div 2) <= NO_OFFER
  <1>1. PRICE_RANGE \in Nat \ {0} /\ PRICE_RANGE % 2 = 0
    BY MakerAssumption
  <1>2. PICK h \in Int : h = PRICE_RANGE \div 2
    BY <1>1
  <1>3. PRICE_RANGE = 2 * h /\ h >= 1
    BY <1>1, <1>2
  <1>4. NO_OFFER = h - 1 /\ NO_BID = -h
    BY <1>2 DEF NO_OFFER, NO_BID
  <1> QED
    BY <1>3, <1>4

\* A sum in the range is itself; one beyond its end wraps once.
LEMMA WrappedSum ==
    ASSUME NEW n \in Int
    PROVE  /\ NO_BID <= n /\ n <= NO_OFFER => Wrapped(n) = n
           /\ NO_OFFER < n /\ n <= 2 * NO_OFFER => Wrapped(n) = n - PRICE_RANGE
  <1>1. PICK k \in Int : k = NO_OFFER /\ k >= 0 /\ NO_BID = -k - 1 /\ PRICE_RANGE = 2 * k + 2
    BY PriceRange
  <1>2. Wrapped(n) = ((n + k + 1) % (2 * k + 2)) - k - 1
    BY <1>1 DEF Wrapped
  <1>3. ASSUME NEW a \in Int, NEW d \in Int, d > 0, 0 <= a, a < d PROVE a % d = a
    BY <1>3
  <1>4. ASSUME NEW a \in Int, NEW d \in Int, d > 0, d <= a, a < 2 * d PROVE a % d = a - d
    BY <1>4
  <1>5. ASSUME -k - 1 <= n, n <= k PROVE Wrapped(n) = n
    <2>1. (n + k + 1) % (2 * k + 2) = n + k + 1
      BY <1>1, <1>3, <1>5
    <2> QED
      BY <1>1, <1>2, <2>1
  <1>6. ASSUME k < n, n <= 2 * k PROVE Wrapped(n) = n - (2 * k + 2)
    <2>1. (n + k + 1) % (2 * k + 2) = (n + k + 1) - (2 * k + 2)
      BY <1>1, <1>4, <1>6
    <2> QED
      BY <1>1, <1>2, <2>1
  <1> QED
    BY <1>1, <1>5, <1>6

\* The midpoint of two prices that do not overflow.
LEMMA MidpointInside ==
    ASSUME NEW b \in Int, NEW o \in Int, 1 <= b, b <= o, o <= NO_OFFER \div 2
    PROVE  /\ Midpoint(b, o) = (b + o) \div 2 /\ Midpoint(b, o) \in Int
           /\ 2 * Midpoint(b, o) <= b + o /\ b + o <= 2 * Midpoint(b, o) + 1
  <1>1. NO_BID <= b + o /\ b + o <= NO_OFFER /\ b + o \in Int /\ b + o >= 0
    BY PriceRange
  <1>2. Wrapped(b + o) = b + o
    BY <1>1, WrappedSum
  <1>3. Midpoint(b, o) = (b + o) \div 2
    BY <1>1, <1>2 DEF Midpoint, Half
  <1>4. PICK n \in Int : n = b + o
    BY <1>1
  <1>5. n \div 2 \in Int /\ 2 * (n \div 2) <= n /\ n <= 2 * (n \div 2) + 1
    OBVIOUS
  <1> QED
    BY <1>3, <1>4, <1>5

\* With a side of the market missing, the midpoint is no price at all: the
\* addition overflows, or the missing bid outweighs the offer.
LEMMA MidpointOneSided ==
    ASSUME NEW bbo \in Snapshots, OneSided(bbo)
    PROVE  Midpoint(bbo.bid, bbo.offer) \in Int /\ Midpoint(bbo.bid, bbo.offer) <= 0
  <1>1. PICK b \in Int, o \in Int : b = bbo.bid /\ o = bbo.offer
    BY SnapshotsAssumption, PriceRange
  <1>2. PICK k \in Int : k = NO_OFFER /\ k >= 0 /\ NO_BID = -k - 1 /\ PRICE_RANGE = 2 * k + 2
    BY PriceRange
  <1>3. PICK h \in Int : h = NO_OFFER \div 2 /\ 2 * h <= k
    BY <1>2, PriceRange
  <1>4. b \in {-k - 1} \cup 1 .. h /\ o \in {k} \cup 1 .. h /\ (b = -k - 1 \/ o = k)
    BY <1>1, <1>2, <1>3, SnapshotsAssumption DEF OneSided
  <1>5. PICK n \in Int : n = b + o
    OBVIOUS
  <1>6. CASE n <= k
    <2>1. -k - 1 <= n /\ n <= 0
      BY <1>2, <1>3, <1>4, <1>5, <1>6
    <2>2. Wrapped(n) = n
      BY <1>2, <2>1, WrappedSum
    <2>3. Half(n) \in Int /\ Half(n) <= 0
      BY <2>1 DEF Half
    <2> QED
      BY <1>1, <1>5, <2>2, <2>3 DEF Midpoint
  <1>7. CASE n > k
    <2>1. n <= 2 * k /\ n - (2 * k + 2) <= 0
      BY <1>2, <1>3, <1>4, <1>5
    <2>2. PICK w \in Int : w = Wrapped(n) /\ w <= 0
      BY <1>2, <1>7, <2>1, WrappedSum
    <2>3. Half(w) \in Int /\ Half(w) <= 0
      BY <2>2 DEF Half
    <2> QED
      BY <1>1, <1>5, <2>2, <2>3 DEF Midpoint
  <1> QED
    BY <1>2, <1>5, <1>6, <1>7

\* A price at which the strategy may quote in the market bbo.
FitsMarket(price, bbo) ==
    /\ bbo.bid < price /\ price < bbo.offer
    /\ Distance(price, Midpoint(bbo.bid, bbo.offer))
         \in ONE_SIDED_MIN_SPREAD .. ONE_SIDED_MAX_SPREAD

\* price_new_order_pair: a market with both sides, and a pair inside it.
LEMMA PricedPair ==
    ASSUME NEW bbo \in Snapshots, NEW p, p = price_new_order_pair(bbo), p # NULL
    PROVE  /\ ~OneSided(bbo) /\ p.bid \in Int /\ p.offer \in Int
           /\ 1 <= p.bid /\ p.bid + 6 <= p.offer /\ p.offer <= NO_OFFER \div 2
           /\ FitsMarket(p.bid, bbo) /\ FitsMarket(p.offer, bbo)
  <1>1. PICK b \in Int, o \in Int : b = bbo.bid /\ o = bbo.offer
    BY SnapshotsAssumption, PriceRange
  <1>2. /\ b # NO_BID /\ o # NO_OFFER /\ b < o /\ o - b >= 8
    BY <1>1 DEF price_new_order_pair, MIN_TICK_DIFF, ONE_SIDED_MIN_SPREAD
  <1>3. 1 <= b /\ o <= NO_OFFER \div 2
    BY <1>1, <1>2, SnapshotsAssumption
  <1>4. PICK mid \in Int : /\ mid = Midpoint(b, o)
                           /\ 2 * mid <= b + o /\ b + o <= 2 * mid + 1
    BY <1>2, <1>3, MidpointInside
  <1>5. p = [bid |-> Larger(mid - 10, b + 1), offer |-> Smaller(mid + 10, o - 1)]
    BY <1>1, <1>4 DEF price_new_order_pair, MIN_TICK_DIFF, ONE_SIDED_MAX_SPREAD
  <1>6. PICK x \in Int, y \in Int : /\ x = p.bid /\ y = p.offer
                                    /\ x = Larger(mid - 10, b + 1)
                                    /\ y = Smaller(mid + 10, o - 1)
    BY <1>5 DEF Larger, Smaller
  <1>7. /\ b < x /\ x + 3 <= mid /\ mid <= x + 10
        /\ y < o /\ mid + 3 <= y /\ y <= mid + 10
    BY <1>2, <1>4, <1>6 DEF Larger, Smaller
  <1>8. Distance(x, mid) \in 3 .. 10 /\ Distance(y, mid) \in 3 .. 10
    BY <1>7 DEF Distance
  <1>9. x < o /\ b < y
    BY <1>2, <1>4, <1>7
  <1>10. FitsMarket(x, bbo) /\ FitsMarket(y, bbo)
    BY <1>1, <1>4, <1>7, <1>8, <1>9 DEF FitsMarket, ONE_SIDED_MIN_SPREAD, ONE_SIDED_MAX_SPREAD
  <1>11. 1 <= x /\ x + 6 <= y /\ y <= NO_OFFER \div 2
    BY <1>3, <1>7, PriceRange
  <1> QED
    BY <1>1, <1>2, <1>6, <1>10, <1>11 DEF OneSided

-----------------------------------------------------------------------------
(* get_orders *)

WithTwo(s, e, f) == s \o <<e, f>>
TwoLonger(s, e, f, t) ==
    /\ t \in Seq(Requests) /\ Len(t) = Len(s) + 2
    /\ \A r : r \in ToSet(t) <=> r \in ToSet(s) \/ r = e \/ r = f
    /\ s # <<>> => t # <<>> /\ Head(t) = Head(s)

\* Two more elements.
LEMMA TwoAppended ==
    ASSUME NEW s \in Seq(Requests), NEW e \in Requests, NEW f \in Requests,
           NEW t, t = WithTwo(s, e, f)
    PROVE  TwoLonger(s, e, f, t)
  <1>0. t = s \o <<e, f>>
    BY DEF WithTwo
  <1>1. t = Append(Append(s, e), f)
    BY <1>0
  <1>2. /\ Append(s, e) \in Seq(Requests) /\ Len(Append(s, e)) = Len(s) + 1
        /\ ToSet(Append(s, e)) = ToSet(s) \cup {e} /\ Len(s) \in Nat
    BY Appended, LenProperties
  <1>3. t \in Seq(Requests) /\ Len(t) = Len(s) + 2 /\ ToSet(t) = ToSet(s) \cup {e} \cup {f}
    <2>1. PICK u : u = Append(s, e)
      OBVIOUS
    <2>2. u \in Seq(Requests) /\ Len(u) = Len(s) + 1 /\ ToSet(u) = ToSet(s) \cup {e}
      BY <1>2, <2>1
    <2>3. PICK v : v = Append(u, f)
      OBVIOUS
    <2>4. t = v
      BY <1>1, <2>1, <2>3
    <2>5. v \in Seq(Requests) /\ Len(v) = Len(u) + 1 /\ ToSet(v) = ToSet(u) \cup {f}
      BY ONLY <2>2, <2>3, Appended, f \in Requests
    <2>6. Len(t) = Len(s) + 2
      BY ONLY <1>2, <2>2, <2>4, <2>5
    <2>7. t \in Seq(Requests) /\ ToSet(t) = ToSet(s) \cup {e} \cup {f}
      BY <2>2, <2>4, <2>5, Zenon
    <2> QED
      BY <2>6, <2>7, Zenon
  <1>4. ASSUME s # <<>> PROVE t # <<>> /\ Head(t) = Head(s)
    <2>1. Len(s) >= 1 /\ t[1] = s[1]
      BY <1>0, <1>2, <1>4
    <2> QED
      BY <1>3, <2>1
  <1> QED
    BY <1>3, <1>4 DEF TwoLonger

\* queue_new_order_pair: nothing, or a pair that fits the market.
LEMMA NewPair ==
    ASSUME NEW m, MakerOK(m), NoQuotes(m), NEW bbo \in Snapshots,
           m.next_id + 1 <= MaxOrders,
           NEW c, c = queue_new_order_pair(m, bbo)
    PROVE  /\ MakerOK(c)
           /\ \/ c = m
              \/ /\ ~OneSided(bbo) /\ Len(c.orders) = Len(m.orders) + 2
                 /\ m.orders # <<>> => c.orders # <<>> /\ Head(c.orders) = Head(m.orders)
           /\ \A r \in ToSet(c.orders) :
                r \in ToSet(m.orders) \/ FitsMarket(r.price, bbo)
  <1> DEFINE p == price_new_order_pair(bbo)
             order(id, price) == [status |-> "Placed", id |-> id, price |-> price,
                                  quantity |-> MARKET_MAKER_ORDER_QUANTITY]
             b == order(m.next_id, p.bid)
             o == order(m.next_id + 1, p.offer)
             rb == NewOrderRequest("buy", b)
             ro == NewOrderRequest("sell", o)
  <1>1. CASE p = NULL \/ p.bid < MIN_BID_PRICE \/ available(m) < 2
    <2>1. c = m
      BY <1>1 DEF queue_new_order_pair
    <2> QED
      BY <2>1
  <1>2. CASE ~(p = NULL \/ p.bid < MIN_BID_PRICE \/ available(m) < 2)
    <2>1. c = [m EXCEPT !.buy = b, !.sell = o, !.next_id = @ + 2,
                        !.orders = @ \o <<rb, ro>>]
      BY <1>2 DEF queue_new_order_pair
    <2>2. /\ ~OneSided(bbo) /\ p.bid \in Int /\ p.offer \in Int
          /\ 1 <= p.bid /\ p.bid + 6 <= p.offer /\ p.offer <= NO_OFFER \div 2
          /\ FitsMarket(p.bid, bbo) /\ FitsMarket(p.offer, bbo)
      BY <1>2, PricedPair
    <2> HIDE DEF p
    <2>3. /\ m \in Makers /\ m.next_id \in Nat /\ m.next_id % 2 = 1
          /\ m.orders \in Seq(Requests) /\ Len(m.orders) \in Nat
          /\ Len(m.orders) + 2 <= STRATEGY_ORDER_BUFFER_SIZE
      BY <1>2, MakerFacts DEF MakerOK, available
    <2>4. MARKET_MAKER_ORDER_QUANTITY \in Nat \ {0} /\ MaxOrders \in Nat
      BY MakerAssumption, TraderAssumption
    <2>5. /\ m.next_id \in Ids /\ m.next_id + 1 \in Ids
          /\ m.next_id \in 0 .. MaxOrders /\ m.next_id + 1 \in 0 .. MaxOrders
          /\ (m.next_id + 1) % 2 # 1 /\ (m.next_id + 2) % 2 = 1 /\ m.next_id + 2 \in Nat
      BY <2>3, <2>4, SMTT(60) DEF Ids
    <2>6. SideOf(m.next_id) = "buy" /\ SideOf(m.next_id + 1) = "sell"
      BY <2>3, <2>5 DEF SideOf
    <2>7. b \in Orders /\ o \in Orders
      BY <2>2, <2>4, <2>5 DEF Orders, Statuses
    <2>8. QuoteOK(b, "buy") /\ QuoteOK(o, "sell")
      BY <2>4, <2>5, <2>6 DEF QuoteOK
    <2>9. /\ rb \in Requests /\ ro \in Requests
          /\ rb.price = p.bid /\ ro.price = p.offer
      BY <2>2, <2>4, <2>5, <2>6 DEF NewOrderRequest, Requests, Request, Sides
    <2>10. b.price = p.bid /\ o.price = p.offer
      OBVIOUS
    <2> HIDE DEF b, o, rb, ro
    <2>0. PICK t : t = m.orders \o <<rb, ro>>
      OBVIOUS
    <2>11. /\ t \in Seq(Requests) /\ Len(t) = Len(m.orders) + 2
           /\ \A r : r \in ToSet(t) <=> r \in ToSet(m.orders) \/ r = rb \/ r = ro
           /\ m.orders # <<>> => t # <<>> /\ Head(t) = Head(m.orders)
      <3>1. PICK s : s = m.orders
        OBVIOUS
      <3>2. s \in Seq(Requests)
        BY <2>3, <3>1
      <3>3. PICK e \in Requests, f \in Requests : e = rb /\ f = ro
        BY <2>9
      <3>4. t = WithTwo(s, e, f)
        BY <2>0, <3>1, <3>3 DEF WithTwo
      <3>5. TwoLonger(s, e, f, t)
        BY ONLY <3>2, <3>4, TwoAppended, e \in Requests, f \in Requests
      <3> QED
        BY <3>1, <3>3, <3>5, Zenon DEF TwoLonger
    <2>12. /\ c.buy = b /\ c.sell = o /\ c.orders = t /\ c.net = m.net
           /\ c.next_id = m.next_id + 2
      BY <2>0, <2>1, <2>3, <2>11 DEF Makers
    <2>13. c \in Makers
      BY <2>0, <2>1, <2>3, <2>5, <2>7, <2>11 DEF Makers
    <2>14. PairOK(c)
      BY <2>2, <2>10, <2>12 DEF PairOK
    <2>15. MakerOK(c)
      BY <2>3, <2>5, <2>8, <2>11, <2>12, <2>13, <2>14 DEF MakerOK
    <2>16. ASSUME NEW r \in ToSet(c.orders)
           PROVE  r \in ToSet(m.orders) \/ FitsMarket(r.price, bbo)
      BY <2>2, <2>9, <2>11, <2>12
    <2> QED
      BY <2>2, <2>11, <2>12, <2>15, <2>16
  <1> QED
    BY <1>1, <1>2

\* get_orders on an empty buffer.  Where a side of the market is missing no
\* quote stays: the distance of the midpoints is larger than the drift allowed.
LEMMA GetOrders ==
    ASSUME NEW m, MakerOK(m), m.orders = <<>>, NEW bbo \in Snapshots,
           m.next_id + 1 <= MaxOrders, NEW c, c = get_orders(m, bbo)
    PROVE  /\ MakerOK(c) /\ Load(c) <= 6
           /\ Load(c) = 6 => Head(c.orders).type = "Cancel"
           /\ OneSided(bbo) => NoQuotes(c)
           /\ \A r \in ToSet(c.orders) : r.type = "New" => FitsMarket(r.price, bbo)
  <1>0. /\ Len(m.orders) = 0 /\ PlacedCount(m) \in {0, 1, 2} /\ Load(m) = PlacedCount(m)
        /\ STRATEGY_ORDER_BUFFER_SIZE \in Nat /\ STRATEGY_ORDER_BUFFER_SIZE >= 4
        /\ ToSet(m.orders) = {}
    BY MakerFacts DEF Load, ToSet
  <1>1. ~(available(m) < PlacedCount(m) + 2)
    BY <1>0 DEF available
  <1>2. CASE ~should_place_new_orders(m, bbo)
    <2>1. c = m
      BY <1>2 DEF get_orders
    <2>2. /\ m.buy.status = "Placed" /\ m.sell.status = "Placed"
          /\ ~(Distance(Midpoint(bbo.bid, bbo.offer),
                        Midpoint(m.buy.price, m.sell.price)) > 2)
      BY <1>2 DEF should_place_new_orders, Placed, MAX_ALLOWED_DRIFT
    <2>3. ~OneSided(bbo)
      <3>1. SUFFICES ASSUME OneSided(bbo) PROVE FALSE
        OBVIOUS
      <3>2. PICK low \in Int : low = Midpoint(bbo.bid, bbo.offer) /\ low <= 0
        BY <3>1, MidpointOneSided
      <3>3. PICK x \in Int, y \in Int : /\ x = m.buy.price /\ y = m.sell.price
                                        /\ 1 <= x /\ x + 6 <= y /\ y <= NO_OFFER \div 2
        <4>1. m.buy \in Orders /\ m.sell \in Orders /\ PairOK(m)
          BY MakerFacts DEF MakerOK
        <4> QED
          BY <2>2, <4>1 DEF Orders, PairOK
      <3>4. PICK mid \in Int : mid = Midpoint(x, y) /\ x + y <= 2 * mid + 1
        <4>1. x <= y
          BY <3>3
        <4>2. Midpoint(x, y) \in Int /\ x + y <= 2 * Midpoint(x, y) + 1
          BY <3>3, <4>1, MidpointInside
        <4> QED
          BY <4>2
      <3>5. mid >= 3
        <4>1. 1 <= x /\ x + 6 <= y
          BY <3>3
        <4>2. x + y <= 2 * mid + 1
          BY <3>4
        <4> QED
          BY ONLY <4>1, <4>2, x \in Int, y \in Int, mid \in Int
      <3> QED
        BY ONLY <2>2, <3>2, <3>3, <3>4, <3>5, SMTT(60) DEF Distance
    <2> QED
      BY <1>0, <2>1, <2>3
  <1>3. CASE should_place_new_orders(m, bbo)
    <2> DEFINE d == queue_cancel_orders(m)
    <2>1. c = queue_new_order_pair(d, bbo)
      BY <1>1, <1>3 DEF get_orders
    <2>2. /\ MakerOK(d) /\ Fewer(m, d) /\ Load(d) = Load(m) /\ d.next_id = m.next_id
          /\ NoQuotes(d)
          /\ PlacedCount(m) = 2 => d.orders # <<>> /\ Head(d.orders).type = "Cancel"
      BY <1>0, CancelAll
    <2> HIDE DEF d
    <2>3. /\ MakerOK(c)
          /\ \/ c = d
             \/ /\ ~OneSided(bbo) /\ Len(c.orders) = Len(d.orders) + 2
                /\ d.orders # <<>> => c.orders # <<>> /\ Head(c.orders) = Head(d.orders)
          /\ \A r \in ToSet(c.orders) : r \in ToSet(d.orders) \/ FitsMarket(r.price, bbo)
      BY <2>1, <2>2, NewPair
    <2>4. /\ Len(d.orders) \in Nat /\ PlacedCount(d) = 0 /\ Len(c.orders) \in Nat
          /\ PlacedCount(c) \in {0, 1, 2}
      BY <2>2, <2>3, MakerFacts
    <2>5. Len(d.orders) = PlacedCount(m)
      BY <1>0, <2>2, <2>4 DEF Load
    <2>6. Load(c) <= 6 /\ (Load(c) = 6 => PlacedCount(m) = 2 /\ c # d)
      BY <1>0, <2>3, <2>4, <2>5 DEF Load
    <2>7. Load(c) = 6 => Head(c.orders).type = "Cancel"
      BY <2>2, <2>3, <2>6
    <2>8. \A r \in ToSet(c.orders) : r.type = "New" => FitsMarket(r.price, bbo)
      BY <1>0, <2>2, <2>3 DEF Fewer
    <2> QED
      BY <2>2, <2>3, <2>6, <2>7, <2>8
  <1> QED
    BY <1>2, <1>3

-----------------------------------------------------------------------------
(* update *)

\* queue_quantity_update
LEMMA QuantityUpdate ==
    ASSUME NEW m, MakerOK(m), NEW side \in Sides, NEW q \in Nat \ {0},
           NEW c, c = queue_quantity_update(m, side, q)
    PROVE  MakerOK(c) /\ Fewer(m, c) /\ Len(c.orders) <= Len(m.orders) + 1
  <1>0. /\ m \in Makers /\ QuoteOK(m.buy, "buy") /\ QuoteOK(m.sell, "sell")
        /\ Len(m.orders) \in Nat /\ STRATEGY_ORDER_BUFFER_SIZE \in Nat
        /\ Len(m.orders) <= STRATEGY_ORDER_BUFFER_SIZE
    BY MakerFacts DEF MakerOK
  <1>1. CASE ~Placed(m, side) \/ m[side].quantity = q \/ available(m) = 0
    <2>1. c = m
      BY <1>1, Zenon DEF queue_quantity_update
    <2> QED
      BY <1>0, <2>1 DEF Fewer
  <1>2. CASE ~(~Placed(m, side) \/ m[side].quantity = q \/ available(m) = 0)
    <2>1. Len(m.orders) < STRATEGY_ORDER_BUFFER_SIZE
      BY <1>0, <1>2 DEF available
    <2>2. CASE side = "buy"
      <3> DEFINE b == [m.buy EXCEPT !.quantity = q]
                 r == UpdateRequest("buy", m.buy, q)
      <3>1. /\ b \in Orders /\ b.status = m.buy.status /\ b.price = m.buy.price
            /\ b.id = m.buy.id /\ b.quantity = q /\ m.buy.status = "Placed"
        BY <1>0, <1>2, <2>2 DEF Makers, Orders, Placed
      <3>2. r \in Requests /\ r.type = "Update"
        BY <1>0, <3>1, SMTT(60) DEF UpdateRequest, Requests, Request, Sides, QuoteOK, Makers, Orders
      <3>3. c = With(m, b, m.sell, Append(m.orders, r))
        BY <1>0, <1>2, <2>2, Zenon DEF queue_quantity_update, Makers, With
      <3>4. Known(m, b, m.sell)
        BY <1>0, <3>1, MakerFacts DEF QuoteOK, Known
      <3> HIDE DEF b, r
      <3>5. MakerOK(c) /\ Fewer(m, c) /\ Len(c.orders) = Len(m.orders) + 1
        BY <2>1, <3>2, <3>3, <3>4, Queued
      <3> QED
        BY <1>0, <3>5
    <2>3. CASE side = "sell"
      <3> DEFINE o == [m.sell EXCEPT !.quantity = q]
                 r == UpdateRequest("sell", m.sell, q)
      <3>1. /\ o \in Orders /\ o.status = m.sell.status /\ o.price = m.sell.price
            /\ o.id = m.sell.id /\ o.quantity = q /\ m.sell.status = "Placed"
        BY <1>0, <1>2, <2>3 DEF Makers, Orders, Placed
      <3>2. r \in Requests /\ r.type = "Update"
        BY <1>0, <3>1, SMTT(60) DEF UpdateRequest, Requests, Request, Sides, QuoteOK, Makers, Orders
      <3>3. c = With(m, m.buy, o, Append(m.orders, r))
        BY <1>0, <1>2, <2>3, Zenon DEF queue_quantity_update, Makers, With
      <3>4. Known(m, m.buy, o)
        BY <1>0, <3>1, MakerFacts DEF QuoteOK, Known
      <3> HIDE DEF o, r
      <3>5. MakerOK(c) /\ Fewer(m, c) /\ Len(c.orders) = Len(m.orders) + 1
        BY <2>1, <3>2, <3>3, <3>4, Queued
      <3> QED
        BY <1>0, <3>5
    <2> QED
      BY <2>2, <2>3 DEF Sides
  <1> QED
    BY <1>1, <1>2

\* rebalance_exposure: the quantities stay positive, whatever is held.
LEMMA Rebalance ==
    ASSUME NEW m, MakerOK(m), NEW c, c = rebalance_exposure(m)
    PROVE  MakerOK(c) /\ Fewer(m, c) /\ Len(c.orders) <= Len(m.orders) + 2
  <1> DEFINE held == Distance(m.net, 0)
             imbalance == Smaller(held, MAX_ADDITIONAL_EXIT_QUANTITY)
             less == Larger(MIN_MARKET_MAKER_ORDER_QUANTITY,
                            MARKET_MAKER_ORDER_QUANTITY - imbalance)
             more == MARKET_MAKER_ORDER_QUANTITY + imbalance
             bid == IF m.net > 0 THEN less ELSE more
             offer == IF m.net > 0 THEN more ELSE less
  <1>0. m.net \in Int /\ Len(m.orders) \in Nat
    BY MakerFacts
  <1>1. bid \in Nat \ {0} /\ offer \in Nat \ {0}
    <2>1. held \in Nat
      BY <1>0 DEF Distance
    <2>2. /\ MARKET_MAKER_ORDER_QUANTITY \in Nat \ {0}
          /\ MIN_MARKET_MAKER_ORDER_QUANTITY \in Nat \ {0}
          /\ MAX_ADDITIONAL_EXIT_QUANTITY \in Nat \ {0}
      BY MakerAssumption
    <2> HIDE DEF held
    <2>3. imbalance \in Nat
      BY <2>1, <2>2 DEF Smaller
    <2> HIDE DEF imbalance
    <2>4. less \in Nat \ {0} /\ more \in Nat \ {0}
      BY <2>2, <2>3 DEF Larger
    <2> HIDE DEF less, more
    <2> QED
      BY <2>4
  <1>2. CASE held < EXPOSURE_REBALANCE_THRESHOLD
    <2>1. c = m
      BY <1>2 DEF rebalance_exposure
    <2> QED
      BY <1>0, <2>1 DEF Fewer
  <1>3. CASE ~(held < EXPOSURE_REBALANCE_THRESHOLD)
    <2>1. c = queue_quantity_update(queue_quantity_update(m, "buy", bid), "sell", offer)
      BY <1>3 DEF rebalance_exposure
    <2> HIDE DEF held, imbalance, less, more, bid, offer
    <2>2. PICK d : d = queue_quantity_update(m, "buy", bid)
      OBVIOUS
    <2>3. MakerOK(d) /\ Fewer(m, d) /\ Len(d.orders) <= Len(m.orders) + 1
      BY <1>1, <2>2, QuantityUpdate DEF Sides
    <2>4. c = queue_quantity_update(d, "sell", offer)
      BY <2>1, <2>2
    <2>5. MakerOK(c) /\ Fewer(d, c) /\ Len(c.orders) <= Len(d.orders) + 1
      BY <1>1, <2>3, <2>4, QuantityUpdate DEF Sides
    <2>6. Fewer(m, c)
      BY <2>3, <2>5 DEF Fewer
    <2>7. Len(c.orders) \in Nat /\ Len(d.orders) \in Nat
      BY <2>3, <2>5, MakerFacts
    <2> QED
      BY <1>0, <2>3, <2>5, <2>6, <2>7, SMTT(60)
  <1> QED
    BY <1>2, <1>3

\* update
LEMMA Updated ==
    ASSUME NEW m, MakerOK(m), NEW fill \in Fills, NEW c, c = update(m, fill)
    PROVE  MakerOK(c) /\ Fewer(m, c) /\ Len(c.orders) <= Len(m.orders) + 2
  <1> DEFINE sides == {s \in {"buy", "sell"} : Placed(m, s) /\ m[s].id = fill.id}
             side == CHOOSE s \in sides : TRUE
             filled == Smaller(fill.quantity, m[side].quantity)
             left == m[side].quantity - filled
             d == [m EXCEPT !.net = IF side = "buy" THEN @ + filled ELSE @ - filled,
                            ![side].quantity = left,
                            ![side].status = IF left = 0 THEN "NotPlaced" ELSE @]
  <1>0. /\ m \in Makers /\ QuoteOK(m.buy, "buy") /\ QuoteOK(m.sell, "sell")
        /\ Len(m.orders) \in Nat /\ m.net \in Int /\ m.buy \in Orders /\ m.sell \in Orders
    BY MakerFacts DEF MakerOK
  <1>1. CASE sides = {}
    <2>1. c = m
      BY <1>1 DEF update
    <2> QED
      BY <1>0, <2>1, SMTT(60) DEF Fewer
  <1>2. CASE sides # {}
    <2>1. c = rebalance_exposure(d)
      BY <1>2 DEF update
    <2>2. side \in {"buy", "sell"} /\ Placed(m, side)
      BY <1>2
    <2> HIDE DEF sides, side
    <2>3. fill.quantity \in Nat \ {0} /\ m[side].quantity \in Nat
      BY <1>0, <2>2 DEF Fills, Orders, Makers
    <2>4. filled \in Nat /\ left \in Nat
      BY <2>3 DEF Smaller
    <2> HIDE DEF filled, left
    <2>5. MakerOK(d) /\ Fewer(m, d) /\ d.orders = m.orders
      <3>1. CASE side = "buy"
        <4> DEFINE b == [m.buy EXCEPT !.quantity = left,
                                      !.status = IF left = 0 THEN "NotPlaced" ELSE @]
                   net == m.net + filled
        <4>1. d = Holding(m, b, m.sell, net)
          BY <1>0, <3>1 DEF Makers, Orders, Holding
        <4>2. /\ b \in Orders /\ b.price = m.buy.price /\ b.id = m.buy.id /\ b.quantity = left
              /\ b.status = "Placed" => m.buy.status = "Placed" /\ left # 0
          BY <1>0, <2>4 DEF Orders, Statuses
        <4>3. Known(m, b, m.sell)
          BY <1>0, <2>4, <4>2 DEF Known, QuoteOK
        <4>4. net \in Int
          BY <1>0, <2>4
        <4> HIDE DEF b, net, d
        <4> QED
          BY <4>1, <4>3, <4>4, Changed
      <3>2. CASE side = "sell"
        <4> DEFINE o == [m.sell EXCEPT !.quantity = left,
                                       !.status = IF left = 0 THEN "NotPlaced" ELSE @]
                   net == m.net - filled
        <4>1. d = Holding(m, m.buy, o, net)
          BY <1>0, <3>2 DEF Makers, Orders, Holding
        <4>2. /\ o \in Orders /\ o.price = m.sell.price /\ o.id = m.sell.id /\ o.quantity = left
              /\ o.status = "Placed" => m.sell.status = "Placed" /\ left # 0
          BY <1>0, <2>4 DEF Orders, Statuses
        <4>3. Known(m, m.buy, o)
          BY <1>0, <2>4, <4>2 DEF Known, QuoteOK
        <4>4. net \in Int
          BY <1>0, <2>4
        <4> HIDE DEF o, net, d
        <4> QED
          BY <4>1, <4>3, <4>4, Changed
      <3> QED
        BY <2>2, <3>1, <3>2
    <2> HIDE DEF d
    <2>6. MakerOK(c) /\ Fewer(d, c) /\ Len(c.orders) <= Len(d.orders) + 2
      BY <2>1, <2>5, Rebalance
    <2> QED
      BY ONLY <2>5, <2>6, SMTT(60) DEF Fewer
  <1> QED
    BY <1>1, <1>2

-----------------------------------------------------------------------------
(* notify_invalid *)

\* TakeBack: nothing is queued, and no quote comes back.
LEMMA TakenBack ==
    ASSUME NEW m, MakerOK(m), NEW r \in Requests, NEW c, c = TakeBack(m, r)
    PROVE  MakerOK(c) /\ Fewer(m, c) /\ c.orders = m.orders
  <1>0. /\ m \in Makers /\ QuoteOK(m.buy, "buy") /\ QuoteOK(m.sell, "sell")
        /\ m.net \in Int /\ m.buy \in Orders /\ m.sell \in Orders
    BY MakerFacts DEF MakerOK
  <1>1. /\ r.side \in Sides /\ r.previous \in Nat /\ r.type \in {"New", "Cancel", "Update"}
        /\ r.type = "Update" => r.previous > 0
    BY DEF Requests, Request
  <1>2. CASE m[r.side].id # r.id \/ r.type = "Cancel"
    <2>1. c = m
      BY <1>2 DEF TakeBack
    <2> QED
      BY <2>1 DEF Fewer
  <1>3. CASE ~(m[r.side].id # r.id \/ r.type = "Cancel") /\ r.side = "buy"
    <2> DEFINE b == IF r.type = "Update" THEN [m.buy EXCEPT !.quantity = r.previous]
                                         ELSE [m.buy EXCEPT !.status = "NotPlaced"]
    <2>1. c = Holding(m, b, m.sell, m.net)
      BY <1>0, <1>3 DEF TakeBack, Makers, Holding
    <2>2. b \in Orders
      BY <1>0, <1>1 DEF Orders, Statuses
    <2>3. /\ b.price = m.buy.price /\ b.id = m.buy.id
          /\ b.status = "Placed" => m.buy.status = "Placed"
          /\ b.status = "Placed" => r.type = "Update" /\ b.quantity = r.previous
      BY <1>0 DEF Orders
    <2> HIDE DEF b
    <2>4. QuoteOK(b, "buy")
      BY <1>0, <1>1, <2>3 DEF QuoteOK
    <2>5. Known(m, b, m.sell)
      BY <1>0, <2>2, <2>3, <2>4 DEF Known
    <2> QED
      BY <1>0, <2>1, <2>5, Changed
  <1>4. CASE ~(m[r.side].id # r.id \/ r.type = "Cancel") /\ r.side = "sell"
    <2> DEFINE o == IF r.type = "Update" THEN [m.sell EXCEPT !.quantity = r.previous]
                                         ELSE [m.sell EXCEPT !.status = "NotPlaced"]
    <2>1. c = Holding(m, m.buy, o, m.net)
      BY <1>0, <1>4 DEF TakeBack, Makers, Holding
    <2>2. o \in Orders
      BY <1>0, <1>1 DEF Orders, Statuses
    <2>3. /\ o.price = m.sell.price /\ o.id = m.sell.id
          /\ o.status = "Placed" => m.sell.status = "Placed"
          /\ o.status = "Placed" => r.type = "Update" /\ o.quantity = r.previous
      BY <1>0 DEF Orders
    <2> HIDE DEF o
    <2>4. QuoteOK(o, "sell")
      BY <1>0, <1>1, <2>3 DEF QuoteOK
    <2>5. Known(m, m.buy, o)
      BY <1>0, <2>2, <2>3, <2>4 DEF Known
    <2> QED
      BY <1>0, <2>1, <2>5, Changed
  <1> QED
    BY <1>1, <1>2, <1>3, <1>4 DEF Sides

\* Fewer quotes, hence no more load for the same buffer.
LEMMA NoMoreLoad ==
    ASSUME NEW m, MakerOK(m), NEW c, MakerOK(c), Fewer(m, c)
    PROVE  PlacedCount(c) <= PlacedCount(m)
  BY DEF Fewer, PlacedCount, Placed

\* notify_invalid: no quote and no new order that was not there, and no quote at
\* all after a halt or too much loss, where the buffer has room for the cancels.
LEMMA Notified ==
    ASSUME NEW m, MakerOK(m), NEW r \in Requests, NEW reason,
           NEW c, c = notify_invalid(m, r, reason)
    PROVE  /\ MakerOK(c) /\ Fewer(m, c) /\ Load(c) <= Load(m)
           /\ reason \in {"Halted", "TooMuchLoss"} /\ Load(m) <= STRATEGY_ORDER_BUFFER_SIZE
                => NoQuotes(c)
  <1>1. PICK d : d = TakeBack(m, r)
    OBVIOUS
  <1>2. MakerOK(d) /\ Fewer(m, d) /\ d.orders = m.orders
    BY <1>1, TakenBack
  <1>3. /\ Load(d) <= Load(m) /\ Load(d) \in Nat /\ Load(m) \in Nat
        /\ Len(d.orders) \in Nat /\ Len(d.orders) <= STRATEGY_ORDER_BUFFER_SIZE
        /\ STRATEGY_ORDER_BUFFER_SIZE \in Nat
    <2>1. PlacedCount(d) <= PlacedCount(m)
      BY <1>2, NoMoreLoad
    <2>2. /\ PlacedCount(d) \in {0, 1, 2} /\ PlacedCount(m) \in {0, 1, 2}
          /\ Len(m.orders) \in Nat /\ Len(d.orders) \in Nat
      BY <1>2, MakerFacts
    <2>3. Load(d) <= Load(m)
      BY <1>2, <2>1, <2>2 DEF Load
    <2> QED
      BY <1>2, <2>3, MakerFacts DEF MakerOK
  <1>4. CASE reason \in {"Halted", "TooMuchLoss"}
    <2>1. c = queue_cancel_orders(d)
      BY <1>1, <1>4 DEF notify_invalid
    <2>2. /\ MakerOK(c) /\ Fewer(d, c) /\ Load(c) = Load(d)
          /\ Load(d) <= STRATEGY_ORDER_BUFFER_SIZE => NoQuotes(c)
      BY <1>2, <2>1, CancelAll
    <2>3. Fewer(m, c)
      BY <1>2, <2>2 DEF Fewer
    <2> QED
      BY <1>3, <2>2, <2>3
  <1>5. CASE reason = "TooMuchExposure"
    <2>1. c = cancel_for_risk(d, r)
      BY <1>1, <1>5 DEF notify_invalid
    <2>2. r.side \in Sides
      BY DEF Requests, Request
    <2>3. CASE available(d) = 0
      <3>1. c = d
        BY <2>1, <2>3 DEF cancel_for_risk
      <3> QED
        BY <1>2, <1>3, <1>5, <3>1
    <2>4. CASE available(d) # 0
      <3>1. c = queue_cancel(d, r.side)
        BY <2>1, <2>4 DEF cancel_for_risk
      <3>2. Len(d.orders) < STRATEGY_ORDER_BUFFER_SIZE
        BY <1>3, <2>4 DEF available
      <3>3. MakerOK(c) /\ Fewer(d, c) /\ Load(c) = Load(d)
        BY <1>2, <2>2, <3>1, <3>2, CancelOne
      <3>4. Fewer(m, c)
        BY <1>2, <3>3 DEF Fewer
      <3> QED
        BY <1>3, <1>5, <3>3, <3>4
    <2> QED
      BY <2>3, <2>4
  <1>6. CASE reason \notin {"Halted", "TooMuchLoss", "TooMuchExposure"}
    <2>1. c = d
      BY <1>1, <1>6 DEF notify_invalid
    <2> QED
      BY <1>2, <1>3, <1>6, <2>1
  <1> QED
    BY <1>4, <1>5, <1>6

\* Popped
LEMMA PoppedFacts ==
    ASSUME NEW m, MakerOK(m), m.orders # <<>>, NEW c, c = [m EXCEPT !.orders = Tail(@)]
    PROVE  /\ MakerOK(c) /\ Fewer(m, c) /\ Load(c) = Load(m) - 1
           /\ Head(m.orders) \in Requests
  <1>1. m \in Makers /\ PairOK(m) /\ m.next_id % 2 = 1 /\ m.orders \in Seq(Requests)
        /\ Len(m.orders) <= STRATEGY_ORDER_BUFFER_SIZE
        /\ QuoteOK(m.buy, "buy") /\ QuoteOK(m.sell, "sell")
    BY MakerFacts DEF MakerOK
  <1>2. /\ Tail(m.orders) \in Seq(Requests) /\ Head(m.orders) \in Requests
        /\ Len(Tail(m.orders)) = Len(m.orders) - 1 /\ Len(m.orders) \in Nat
        /\ ToSet(Tail(m.orders)) \subseteq ToSet(m.orders)
    BY <1>1, Parted
  <1>3. PICK t : t = Tail(m.orders)
    OBVIOUS
  <1>4. /\ c.buy = m.buy /\ c.sell = m.sell /\ c.net = m.net /\ c.next_id = m.next_id
        /\ c.orders = t /\ c \in Makers
    BY <1>1, <1>2, <1>3 DEF Makers
  <1>5. Len(c.orders) = Len(m.orders) - 1 /\ Len(c.orders) <= STRATEGY_ORDER_BUFFER_SIZE
    BY ONLY <1>1, <1>2, <1>3, <1>4, MakerAssumption, SMTT(60)
  <1>6. PairOK(c)
    BY <1>1, <1>4 DEF PairOK
  <1>7. MakerOK(c)
    BY <1>1, <1>4, <1>5, <1>6 DEF MakerOK
  <1>8. Fewer(m, c)
    BY <1>2, <1>3, <1>4 DEF Fewer
  <1>9. PlacedCount(c) = PlacedCount(m) /\ PlacedCount(m) \in {0, 1, 2}
    BY <1>4, MakerFacts DEF PlacedCount, Placed
  <1> QED
    BY <1>2, <1>5, <1>7, <1>8, <1>9, SMTT(60) DEF Load

\* evaluate_risk never refuses a cancel.
LEMMA RiskReasons ==
    ASSUME NEW r, NEW risk
    PROVE  /\ evaluate_risk(r, risk) \in Reasons \cup {"Good"}
           /\ r.type = "Cancel" => evaluate_risk(r, risk) = "Good"
  BY DEF evaluate_risk, Reduces, Reasons

-----------------------------------------------------------------------------
(* The inductive invariant. *)

TypeInv ==
    /\ trader \in {"loop", "updates", "bbo", "drain", "done"}
    /\ back \in {"loop", "updates"} /\ stop \in BOOLEAN
    /\ trade_buffer \in Seq(Requests) /\ update_buffer \in Seq(Fills)
    /\ open \in [Ids -> Nat] /\ position \in Int /\ rejected \subseteq Reasons

\* The trader leaves place_new_orders with an empty buffer, unless it was stopped.
EmptyInv == trader \in {"loop", "updates", "bbo"} /\ ~stop => maker.orders = <<>>

\* When a request is refused, the buffer has room for a cancel of every quote in
\* place: only a batch that starts with a cancel, which is never refused, is
\* longer.
RoomInv ==
    trader = "drain" /\ ~stop =>
        /\ Load(maker) <= 6
        /\ Load(maker) = 6 => Head(maker.orders).type = "Cancel"

\* From a halt on, and as long as the buffer is drained, there is no quote.
HaltInv == ~stop /\ rejected \cap {"Halted", "TooMuchLoss"} # {} => NoQuotes(maker)

\* The snapshot that is quoted for, and the quotes made for it.
MarketInv ==
    trader = "drain" /\ back = "loop" =>
        /\ snapshot \in Snapshots
        /\ OneSided(snapshot) => NoQuotes(maker)
        /\ \A r \in ToSet(maker.orders) : r.type = "New" => FitsMarket(r.price, snapshot)

StateInv == MakerOK(maker) /\ TypeInv /\ EmptyInv /\ RoomInv /\ HaltInv /\ MarketInv
TraderInv == /\ StateInv /\ crossed \subseteq {"Cancel", "Update"}
             /\ risk_data \in {"locked", "written"}

\* Only requests other than new orders are counted as crossed.
LEMMA CrossedTyped ==
    ASSUME NEW s \in Seq(Requests), NEW t \in Seq(Requests),
           NEW r \in ToSet(s) \cup ToSet(t), r.type # "New"
    PROVE  r.type \in {"Cancel", "Update"}
  BY SMTT(60) DEF ToSet, Requests, Request

\* A strategy without quotes, and nothing under way.
LEMMA TraderInit == Init => TraderInv
  <1>1. SUFFICES ASSUME Init PROVE TraderInv
    OBVIOUS
  <1>2. MakerOK(maker)
    <2>1. /\ maker = NewMaker /\ NotPlaced \in Orders /\ maker.buy = NotPlaced
          /\ maker.sell = NotPlaced /\ maker.orders = <<>> /\ maker.next_id = 1
          /\ NotPlaced.status = "NotPlaced"
      BY <1>1, TraderAssumption DEF Init, NewMaker, NotPlaced, Orders, Statuses
    <2>2. maker \in Makers
      BY <2>1, EmptySeq DEF Makers, NewMaker
    <2>3. QuoteOK(maker.buy, "buy") /\ QuoteOK(maker.sell, "sell") /\ PairOK(maker)
      BY <2>1 DEF QuoteOK, PairOK
    <2>4. Len(maker.orders) <= STRATEGY_ORDER_BUFFER_SIZE /\ maker.next_id % 2 = 1
      BY <2>1, MakerAssumption
    <2> QED
      BY <2>2, <2>3, <2>4 DEF MakerOK
  <1>3. TypeInv
    <2>1. trade_buffer \in Seq(Requests) /\ update_buffer \in Seq(Fills)
      BY <1>1, EmptySeq DEF Init
    <2>2. open \in [Ids -> Nat] /\ position \in Int
      BY <1>1 DEF Init
    <2>3. /\ trader = "loop" /\ back = "loop" /\ stop = FALSE /\ rejected = {}
      BY <1>1 DEF Init
    <2> QED
      BY <2>1, <2>2, <2>3 DEF TypeInv
  <1>4. EmptyInv
    BY <1>1 DEF Init, EmptyInv, NewMaker
  <1> QED
    BY <1>1, <1>2, <1>3, <1>4 DEF Init, TraderInv, StateInv, RoomInv, HaltInv, MarketInv

-----------------------------------------------------------------------------
(* One lemma per action. *)

\* Steps that leave the strategy alone and return to no earlier place.
LEMMA KeepsMaker ==
    ASSUME StateInv,
           CheckStop \/ NoMoreUpdates \/ StopAtBbo \/ OmsWritesRisk \/ RequestStop \/ Ended
    PROVE  StateInv'
  <1>1. /\ UNCHANGED <<maker, back, snapshot, rejected, trade_buffer, update_buffer>>
        /\ UNCHANGED <<open, position>>
    BY DEF CheckStop, NoMoreUpdates, StopAtBbo, OmsWritesRisk, RequestStop, Ended,
           traderVars, omsVars
  <1>2. \/ stop' = TRUE /\ trader' \in {trader, "done"}
        \/ stop' = stop /\ trader' = trader
        \/ stop' = stop /\ trader \in {"loop", "updates"} /\ trader' \in {"updates", "bbo"}
    BY DEF CheckStop, NoMoreUpdates, StopAtBbo, OmsWritesRisk, RequestStop, Ended,
           traderVars, Return
  <1>3. /\ MakerOK(maker) /\ TypeInv /\ EmptyInv /\ RoomInv /\ HaltInv /\ MarketInv
    BY DEF StateInv
  <1>4. MakerOK(maker)'
    BY <1>1, <1>3
  <1>5. TypeInv'
    BY <1>1, <1>2, <1>3 DEF TypeInv
  <1>6. EmptyInv'
    BY <1>1, <1>2, <1>3 DEF EmptyInv
  <1>7. RoomInv'
    BY <1>1, <1>2, <1>3 DEF RoomInv
  <1>8. HaltInv'
    BY <1>1, <1>2, <1>3 DEF HaltInv
  <1>9. MarketInv'
    BY <1>1, <1>2, <1>3 DEF MarketInv
  <1> QED
    BY <1>4, <1>5, <1>6, <1>7, <1>8, <1>9 DEF StateInv

\* ForwardUpdate: a fill queues at most two quantity updates.
LEMMA UpdateStep ==
    ASSUME StateInv, ForwardUpdate
    PROVE  StateInv'
  <1>1. /\ trader = "updates" /\ update_buffer # <<>>
        /\ maker' = update(maker, Head(update_buffer))
        /\ update_buffer' = Tail(update_buffer)
        /\ trader' = "drain" /\ back' = "updates" /\ rejected' = {}
        /\ UNCHANGED <<trade_buffer, stop, open, position>>
    BY DEF ForwardUpdate, omsVars
  <1>2. MakerOK(maker) /\ TypeInv /\ EmptyInv
    BY DEF StateInv
  <1>3. update_buffer' \in Seq(Fills) /\ Head(update_buffer) \in Fills
    BY <1>1, <1>2, Parted DEF TypeInv
  <1>4. MakerOK(maker') /\ Len(maker'.orders) <= Len(maker.orders) + 2
    BY <1>1, <1>2, <1>3, Updated
  <1>5. MakerOK(maker)'
    BY <1>4
  <1>6. TypeInv'
    BY <1>1, <1>2, <1>3 DEF TypeInv
  <1>7. RoomInv'
    <2>1. SUFFICES ASSUME ~stop PROVE Load(maker') <= 4
      BY <1>1, <1>4, MakerFacts DEF RoomInv
    <2>2. maker.orders = <<>>
      BY <1>1, <1>2, <2>1 DEF EmptyInv
    <2>3. Len(maker'.orders) \in Nat /\ Len(maker'.orders) <= 2
      BY <1>4, <2>2, MakerFacts
    <2> QED
      BY <1>4, <2>3, MakerFacts, SMTT(60) DEF Load
  <1> QED
    BY <1>1, <1>5, <1>6, <1>7 DEF StateInv, EmptyInv, HaltInv, MarketInv

\* ReadBbo: a market is answered with at most two cancels and two new orders.
LEMMA BboStep ==
    ASSUME StateInv, NEW bbo \in Snapshots, ReadBbo(bbo)
    PROVE  StateInv'
  <1>1. /\ trader = "bbo" /\ ~stop /\ maker.next_id + 1 <= MaxOrders
        /\ maker' = get_orders(maker, bbo) /\ snapshot' = bbo
        /\ trader' = "drain" /\ back' = "loop" /\ rejected' = {}
        /\ UNCHANGED <<trade_buffer, update_buffer, stop, open, position>>
    BY DEF ReadBbo, omsVars
  <1>2. MakerOK(maker) /\ TypeInv /\ EmptyInv
    BY DEF StateInv
  <1>3. maker.orders = <<>>
    BY <1>1, <1>2 DEF EmptyInv
  <1>4. /\ MakerOK(maker') /\ Load(maker') <= 6
        /\ Load(maker') = 6 => Head(maker'.orders).type = "Cancel"
        /\ OneSided(bbo) => NoQuotes(maker')
        /\ \A r \in ToSet(maker'.orders) : r.type = "New" => FitsMarket(r.price, bbo)
    BY <1>1, <1>2, <1>3, GetOrders
  <1>5. MakerOK(maker)' /\ RoomInv'
    BY <1>4 DEF RoomInv
  <1>6. TypeInv'
    BY <1>1, <1>2 DEF TypeInv
  <1>7. MarketInv'
    BY <1>1, <1>4 DEF MarketInv
  <1> QED
    BY <1>1, <1>5, <1>6, <1>7 DEF StateInv, EmptyInv, HaltInv

\* Drained: nothing is left, or the trader was stopped.
LEMMA DrainedStep ==
    ASSUME StateInv, Drained
    PROVE  StateInv'
  <1>1. /\ trader = "drain" /\ (maker.orders = <<>> \/ stop) /\ trader' = back
        /\ UNCHANGED <<maker, back, rejected, trade_buffer, update_buffer, stop,
                       open, position>>
    BY DEF Drained, omsVars
  <1>2. MakerOK(maker) /\ TypeInv /\ HaltInv
    BY DEF StateInv
  <1>3. trader' \in {"loop", "updates"}
    BY <1>1, <1>2 DEF TypeInv
  <1>4. MakerOK(maker)' /\ HaltInv'
    BY <1>1, <1>2 DEF HaltInv
  <1>5. TypeInv'
    BY <1>1, <1>2, <1>3 DEF TypeInv
  <1>6. EmptyInv' /\ RoomInv' /\ MarketInv'
    BY <1>1, <1>3 DEF EmptyInv, RoomInv, MarketInv
  <1> QED
    BY <1>4, <1>5, <1>6 DEF StateInv

\* A step of place_new_orders: a request is gone, and no quote is new.
LEMMA DrainStep ==
    ASSUME StateInv, trader = "drain", MakerOK(maker'), Fewer(maker, maker'),
           Load(maker') <= Load(maker) - 1, TypeInv', UNCHANGED <<trader, back, snapshot, stop>>,
           ~stop, rejected' \cap {"Halted", "TooMuchLoss"} # {} => NoQuotes(maker')
    PROVE  StateInv'
  <1>1. MakerOK(maker) /\ RoomInv /\ MarketInv
    BY DEF StateInv
  <1>2. RoomInv'
    <2>1. Load(maker) <= 6 /\ Load(maker) \in Nat /\ Load(maker') \in Nat
      BY <1>1, MakerFacts DEF RoomInv
    <2>2. Load(maker') <= 5
      BY <2>1
    <2> QED
      BY <2>1, <2>2 DEF RoomInv
  <1>3. MarketInv'
    BY <1>1 DEF MarketInv, Fewer, NoQuotes
  <1> QED
    BY <1>2, <1>3 DEF StateInv, EmptyInv, HaltInv

\* Reject: after a halt there is room to cancel every quote.
LEMMA RejectStep ==
    ASSUME StateInv, NEW risk \in Risks, Reject(risk)
    PROVE  StateInv'
  <1> DEFINE reason == evaluate_risk(Outbound, risk)
  <1>1. /\ trader = "drain" /\ maker.orders # <<>> /\ ~stop
        /\ reason # "Good" /\ maker' = notify_invalid(Popped, Outbound, reason)
        /\ rejected' = rejected \cup {reason}
        /\ UNCHANGED <<trader, back, snapshot, trade_buffer, update_buffer, stop,
                       open, position>>
    BY DEF Reject, Evaluates, omsVars
  <1>2. MakerOK(maker) /\ TypeInv /\ RoomInv /\ HaltInv
    BY DEF StateInv
  <1>3. reason \in Reasons /\ Head(maker.orders).type # "Cancel"
    BY <1>1, RiskReasons DEF Outbound
  <1> HIDE DEF reason
  <1>4. PICK p : p = Popped
    OBVIOUS
  <1>5. /\ MakerOK(p) /\ Fewer(maker, p) /\ Load(p) = Load(maker) - 1
        /\ Outbound \in Requests
    BY <1>1, <1>2, <1>4, PoppedFacts DEF Popped, Outbound
  <1>6. /\ MakerOK(maker') /\ Fewer(p, maker') /\ Load(maker') <= Load(p)
        /\ reason \in {"Halted", "TooMuchLoss"} /\ Load(p) <= STRATEGY_ORDER_BUFFER_SIZE
             => NoQuotes(maker')
    BY <1>1, <1>4, <1>5, Notified
  <1>7. Fewer(maker, maker')
    BY <1>5, <1>6 DEF Fewer
  <1>8. Load(p) <= 4
    <2>1. Load(maker) \in Nat /\ Load(maker) <= 6 /\ Load(maker) # 6
      BY <1>1, <1>2, <1>3, MakerFacts DEF RoomInv
    <2> QED
      BY <1>5, <2>1
  <1>9. Load(p) \in Nat /\ Load(maker') \in Nat /\ Load(p) <= STRATEGY_ORDER_BUFFER_SIZE
    BY <1>5, <1>6, <1>8, MakerFacts
  <1>10. rejected' \cap {"Halted", "TooMuchLoss"} # {} => NoQuotes(maker')
    <2>1. CASE reason \in {"Halted", "TooMuchLoss"}
      BY <1>6, <1>9, <2>1
    <2>2. CASE reason \notin {"Halted", "TooMuchLoss"}
      <3>1. rejected' \cap {"Halted", "TooMuchLoss"} # {} => NoQuotes(maker)
        BY <1>1, <1>2, <2>2 DEF HaltInv
      <3> QED
        BY <1>7, <3>1 DEF Fewer, NoQuotes
    <2> QED
      BY <2>1, <2>2
  <1>11. TypeInv'
    BY <1>1, <1>2, <1>3 DEF TypeInv
  <1>12. Load(maker') <= Load(maker) - 1
    BY <1>5, <1>6, <1>9
  <1> QED
    BY <1>1, <1>6, <1>7, <1>10, <1>11, <1>12, DrainStep

\* Forward: the request goes to the OMS, or the trader returns.
LEMMA ForwardStep ==
    ASSUME StateInv, NEW risk \in Risks, Forward(risk)
    PROVE  StateInv'
  <1>1. /\ trader = "drain" /\ maker.orders # <<>> /\ ~stop
        /\ UNCHANGED <<back, snapshot, rejected, update_buffer, open, position>>
    BY DEF Forward, Evaluates, omsVars
  <1>2. MakerOK(maker) /\ TypeInv /\ HaltInv
    BY DEF StateInv
  <1>3. CASE /\ trade_buffer' = Append(trade_buffer, Outbound) /\ maker' = Popped
             /\ UNCHANGED <<trader, stop>>
    <2>1. /\ MakerOK(maker') /\ Fewer(maker, maker') /\ Load(maker') = Load(maker) - 1
          /\ Outbound \in Requests
      BY <1>1, <1>2, <1>3, PoppedFacts DEF Popped, Outbound
    <2>2. Load(maker') <= Load(maker) - 1
      BY <2>1, <1>2, MakerFacts
    <2>3. trade_buffer' \in Seq(Requests)
      BY <1>2, <1>3, <2>1, Appended DEF TypeInv
    <2>4. TypeInv'
      BY <1>1, <1>2, <1>3, <2>3 DEF TypeInv
    <2>5. rejected' \cap {"Halted", "TooMuchLoss"} # {} => NoQuotes(maker')
      BY <1>1, <1>2, <2>1 DEF HaltInv, Fewer, NoQuotes
    <2> QED
      BY <1>1, <1>3, <2>1, <2>2, <2>4, <2>5, DrainStep
  <1>4. CASE Return /\ UNCHANGED <<trade_buffer, maker>>
    <2>1. trader' = "done" /\ stop' = TRUE /\ maker' = maker /\ trade_buffer' = trade_buffer
      BY <1>4 DEF Return
    <2>2. TypeInv'
      BY <1>1, <1>2, <2>1 DEF TypeInv
    <2> QED
      BY <1>2, <2>1, <2>2 DEF StateInv, EmptyInv, RoomInv, HaltInv, MarketInv
  <1> QED
    BY <1>3, <1>4 DEF Forward

\* The OMS
LEMMA OmsStep ==
    ASSUME StateInv,
           \/ OmsTakes
           \/ \E id \in Ids, q \in 1 .. 3 * MARKET_MAKER_ORDER_QUANTITY : OmsFills(id, q)
    PROVE  StateInv'
  <1>1. UNCHANGED <<maker, trader, back, snapshot, rejected, stop>>
    BY DEF OmsTakes, OmsFills, traderVars
  <1>2. MakerOK(maker) /\ TypeInv /\ EmptyInv /\ RoomInv /\ HaltInv /\ MarketInv
    BY DEF StateInv
  <1>3. /\ trade_buffer' \in Seq(Requests) /\ update_buffer' \in Seq(Fills)
        /\ open' \in [Ids -> Nat] /\ position' \in Int
    <2>1. CASE OmsTakes
      <3> DEFINE request == Head(trade_buffer)
      <3>1. /\ trade_buffer' \in Seq(Requests) /\ request \in Requests
            /\ update_buffer' = update_buffer /\ position' = position
        BY <1>2, <2>1, Parted DEF OmsTakes, TypeInv
      <3>2. request.id \in Ids /\ request.quantity \in Nat
        BY <3>1 DEF Requests, Request
      <3>3. open' = [open EXCEPT ![request.id] =
                      CASE request.type = "New" -> request.quantity
                        [] request.type = "Cancel" -> 0
                        [] OTHER -> IF @ = 0 THEN 0 ELSE request.quantity]
        BY <2>1 DEF OmsTakes
      <3> HIDE DEF request
      <3>4. open' \in [Ids -> Nat]
        BY <1>2, <3>2, <3>3 DEF TypeInv
      <3> QED
        BY <1>2, <3>1, <3>4 DEF TypeInv
    <2>2. CASE \E id \in Ids, q \in 1 .. 3 * MARKET_MAKER_ORDER_QUANTITY : OmsFills(id, q)
      <3>1. PICK id \in Ids, q \in 1 .. 3 * MARKET_MAKER_ORDER_QUANTITY : OmsFills(id, q)
        BY <2>2
      <3> DEFINE fill == [id |-> id, quantity |-> q]
      <3>2. /\ q \in 1 .. open[id] /\ update_buffer' = Append(update_buffer, fill)
            /\ position' = position + Signed(fill)
            /\ open' = [open EXCEPT ![id] = @ - q] /\ trade_buffer' = trade_buffer
        BY <3>1 DEF OmsFills
      <3>3. open[id] \in Nat /\ q \in Nat \ {0} /\ q <= open[id]
        BY <1>2, <3>2 DEF TypeInv
      <3>4. open' \in [Ids -> Nat]
        BY <1>2, <3>2, <3>3 DEF TypeInv
      <3>5. fill \in Fills /\ Signed(fill) \in Int
        BY <3>3 DEF Fills, Signed
      <3> HIDE DEF fill
      <3>6. update_buffer' \in Seq(Fills)
        BY <1>2, <3>2, <3>5, Appended DEF TypeInv
      <3> QED
        BY <1>2, <3>2, <3>4, <3>5, <3>6 DEF TypeInv
    <2> QED
      BY <2>1, <2>2
  <1>4. TypeInv'
    BY <1>1, <1>2, <1>3 DEF TypeInv
  <1>5. MakerOK(maker)' /\ EmptyInv'
    BY <1>1, <1>2 DEF EmptyInv
  <1>6. RoomInv' /\ HaltInv'
    BY <1>1, <1>2 DEF RoomInv, HaltInv
  <1>7. MarketInv'
    BY <1>1, <1>2 DEF MarketInv
  <1> QED
    BY <1>4, <1>5, <1>6, <1>7 DEF StateInv

\* Nothing changes.
LEMMA Stutter ==
    ASSUME TraderInv, UNCHANGED vars
    PROVE  TraderInv'
  <1>1. UNCHANGED <<maker, trader, back, snapshot, rejected, stop, trade_buffer,
                    update_buffer, open, position, risk_data, crossed>>
    BY DEF vars, traderVars, omsVars
  <1>2. TypeInv' /\ MakerOK(maker)' /\ EmptyInv'
    BY <1>1 DEF TraderInv, StateInv, TypeInv, EmptyInv
  <1>3. RoomInv' /\ HaltInv' /\ MarketInv'
    BY <1>1 DEF TraderInv, StateInv, RoomInv, HaltInv, MarketInv
  <1> QED
    BY <1>1, <1>2, <1>3 DEF TraderInv, StateInv

\* Every step keeps the invariant.
LEMMA NextStep ==
    ASSUME TraderInv, Next
    PROVE  TraderInv'
  <1>1. /\ StateInv /\ crossed \subseteq {"Cancel", "Update"}
        /\ risk_data \in {"locked", "written"}
    BY DEF TraderInv
  <1>2. StateInv'
    <2>1. CASE \/ CheckStop \/ NoMoreUpdates \/ StopAtBbo
               \/ OmsWritesRisk \/ RequestStop \/ Ended
      BY <1>1, <2>1, KeepsMaker
    <2>2. CASE ForwardUpdate
      BY <1>1, <2>2, UpdateStep
    <2>3. CASE Drained
      BY <1>1, <2>3, DrainedStep
    <2>4. CASE \E bbo \in Snapshots : ReadBbo(bbo)
      BY <1>1, <2>4, BboStep
    <2>5. CASE \E risk \in Risks : Reject(risk) \/ Forward(risk)
      BY <1>1, <2>5, RejectStep, ForwardStep
    <2>6. CASE \/ OmsTakes
               \/ \E id \in Ids, q \in 1 .. 3 * MARKET_MAKER_ORDER_QUANTITY : OmsFills(id, q)
      BY <1>1, <2>6, OmsStep
    <2> QED
      BY <2>1, <2>2, <2>3, <2>4, <2>5, <2>6 DEF Next, TraderStep
  <1>3. maker'.orders \in Seq(Requests) /\ trade_buffer' \in Seq(Requests)
    BY <1>2, MakerFacts DEF StateInv, TypeInv
  <1>4. ASSUME NEW x \in Crossing' PROVE x \in {"Cancel", "Update"}
    <2>1. PICK r \in ToSet(maker'.orders) \cup ToSet(trade_buffer') :
                x = r.type /\ r.type # "New"
      BY <1>4 DEF Crossing, RequestsUnderWay
    <2> QED
      BY <1>3, <2>1, CrossedTyped
  <1>5. crossed' = crossed \cup Crossing'
    BY DEF Next
  <1>6. risk_data' \in {"locked", "written"}
    <2>1. CASE OmsWritesRisk
      BY <2>1 DEF OmsWritesRisk
    <2>2. CASE OmsTakes \/ RequestStop \/ Ended
      BY <1>1, <2>2 DEF OmsTakes, RequestStop, Ended, omsVars
    <2>3. CASE \E id \in Ids, q \in 1 .. 3 * MARKET_MAKER_ORDER_QUANTITY : OmsFills(id, q)
      BY <1>1, <2>3 DEF OmsFills
    <2>4. CASE \E bbo \in Snapshots : ReadBbo(bbo)
      BY <1>1, <2>4 DEF ReadBbo, omsVars
    <2>5. CASE \E risk \in Risks : Reject(risk) \/ Forward(risk)
      BY <1>1, <2>5 DEF Reject, Forward, omsVars
    <2>6. CASE CheckStop \/ ForwardUpdate \/ NoMoreUpdates \/ StopAtBbo \/ Drained
      BY <1>1, <2>6 DEF CheckStop, ForwardUpdate, NoMoreUpdates, StopAtBbo, Drained, omsVars
    <2> QED
      BY <2>1, <2>2, <2>3, <2>4, <2>5, <2>6 DEF Next, TraderStep
  <1> QED
    BY <1>1, <1>2, <1>4, <1>5, <1>6 DEF TraderInv

\* The inductive invariant of the trader thread, the strategy and the OMS.
THEOREM TraderInvariant == Spec => []TraderInv
  <1>1. TraderInv /\ [Next]_vars => TraderInv'
    BY NextStep, Stutter
  <1> QED
    BY TraderInit, <1>1, PTL DEF Spec

\* For every size of the buffers, every risk data and every market: what is
\* staged fits the strategy's buffer, and what it believes placed has an id of
\* its side and a quantity.
THEOREM TraderTyped == Spec => []TypeOK
  <1>1. TraderInv => TypeOK
    <2>1. SUFFICES ASSUME TraderInv PROVE TypeOK
      OBVIOUS
    <2>2. /\ MakerOK(maker) /\ TypeInv /\ crossed \subseteq {"Cancel", "Update"}
          /\ risk_data \in {"locked", "written"}
      BY <2>1 DEF TraderInv, StateInv
    <2>3. /\ maker.buy \in Orders /\ maker.sell \in Orders /\ maker.net \in Int
          /\ maker.orders \in Seq(Requests)
      BY <2>2, MakerFacts
    <2>4. /\ QuoteOK(maker.buy, "buy") /\ QuoteOK(maker.sell, "sell")
          /\ Len(maker.orders) <= STRATEGY_ORDER_BUFFER_SIZE
      BY <2>2 DEF MakerOK
    <2>5. ASSUME NEW side \in Sides
          PROVE  /\ maker[side].status \in {"NotPlaced", "Placed"}
                 /\ maker[side].id \in 0 .. MaxOrders
                 /\ maker[side].quantity \in Nat
                 /\ Placed(maker, side) => SideOf(maker[side].id) = side
                                             /\ maker[side].quantity > 0
      <3>1. CASE side = "buy"
        BY <2>3, <2>4, <3>1 DEF Orders, Statuses, QuoteOK, Placed
      <3>2. CASE side = "sell"
        BY <2>3, <2>4, <3>2 DEF Orders, Statuses, QuoteOK, Placed
      <3> QED
        BY <3>1, <3>2 DEF Sides
    <2>6. Requests \subseteq Request
      BY DEF Requests
    <2>7. ASSUME NEW s \in Seq(Requests) PROVE s \in Seq(Request)
      BY <2>6
    <2>8. Fills = [id : Ids, quantity : Nat \ {0}]
      BY DEF Fills
    <2> QED
      BY <2>2, <2>3, <2>4, <2>5, <2>7, <2>8 DEF TypeOK, TypeInv
  <1> QED
    BY TraderInvariant, <1>1, PTL

\* A new quote is inside the spread it was made for and at a legal distance from
\* its midpoint, and no quote stays in a market with a side missing, for every
\* market the exchange's prices allow (market-maker.cpp, get_orders).
THEOREM TraderQuotesFitMarket == Spec => []QuotesFitMarket
  <1>1. TraderInv => QuotesFitMarket
    BY DEF TraderInv, StateInv, MarketInv, QuotesFitMarket, FitsMarket, NoQuotes, Placed
  <1> QED
    BY TraderInvariant, <1>1, PTL

\* After a refusal because of a halt or of too much loss no quote is in place
\* once the buffer is drained: the buffer always has room for the cancels.
THEOREM TraderHaltCancelsQuotes == Spec => []HaltCancelsQuotes
  <1>1. TraderInv => HaltCancelsQuotes
    BY DEF TraderInv, StateInv, HaltInv, HaltCancelsQuotes, NoQuotes, Placed
  <1> QED
    BY TraderInvariant, <1>1, PTL

-----------------------------------------------------------------------------
(* The ledger: one order, seen through the requests that are under way.     *)

\* S is the sequence of requests R without its k-th.
Removed(R, k, S) ==
    /\ R \in Seq(Requests) /\ S \in Seq(Requests)
    /\ Len(R) \in Nat /\ Len(S) \in Nat /\ k \in 1 .. Len(R) /\ Len(S) = Len(R) - 1
    /\ \A n \in 1 .. Len(S) : S[n] = IF n < k THEN R[n] ELSE R[n + 1]

\* T is R with r at its end.
Extended(R, r, T) ==
    /\ R \in Seq(Requests) /\ T \in Seq(Requests) /\ r \in Requests
    /\ Len(R) \in Nat /\ Len(T) = Len(R) + 1 /\ T[Len(R) + 1] = r
    /\ \A n \in 1 .. Len(R) : T[n] = R[n]

\* A request of an order with the quantity before leaves it with the quantity
\* after: a new order comes first, an update knows what it changes.
Sound(r, before, after) ==
    /\ after = r.quantity /\ after > 0
    /\ \/ r.type = "New" /\ before = 0
       \/ r.type = "Update" /\ before > 0 /\ before = r.previous

\* V is the quantity of order x after each of the requests in R.
Running(V, R, x, base, q) ==
    /\ V[0] = base /\ V[Len(R)] = q
    /\ \A n \in 1 .. Len(R) : R[n].id # x => V[n] = V[n - 1]
    /\ \A n \in 1 .. Len(R) : R[n].id = x => Sound(R[n], V[n - 1], V[n])
    /\ \A n \in 0 .. Len(R), k \in 0 .. Len(R) : n <= k /\ V[n] > 0 => V[k] > 0

\* The requests in R take order x from the quantity base to q.
Tracked(R, x, base, q) == \E V \in [0 .. Len(R) -> Nat] : Running(V, R, x, base, q)

\* An order with the quantity o will not be open once the requests in R are done.
Settled(R, x, o) ==
    \/ o = 0 /\ \A n \in 1 .. Len(R) : R[n].id = x => R[n].type # "New"
    \/ \E n \in 1 .. Len(R) :
         /\ R[n].id = x /\ R[n].type = "Cancel"
         /\ \A k \in n .. Len(R) : R[k].id = x => R[k].type # "New"

\* The account of order x: o is open, p filled and not yet heard of, q believed.
Account(R, x, o, p, q, all) ==
    IF q # 0 THEN Tracked(R, x, o + p, q)
    ELSE Settled(R, x, o) /\ (all => Settled(R, x, o + p))

\* Appending is extending, in the buffer and behind the requests sent earlier.
LEMMA AppendExtends ==
    ASSUME NEW T \in Seq(Requests), NEW s \in Seq(Requests), NEW r \in Requests
    PROVE  Extended(T \o s, r, T \o Append(s, r))
  <1>1. /\ T \o s \in Seq(Requests) /\ Append(s, r) \in Seq(Requests)
        /\ T \o Append(s, r) \in Seq(Requests) /\ Len(T) \in Nat /\ Len(s) \in Nat
    BY ConcatProperties, AppendProperties, LenProperties
  <1>2. /\ Len(T \o s) = Len(T) + Len(s) /\ Len(Append(s, r)) = Len(s) + 1
        /\ Len(T \o Append(s, r)) = Len(T) + Len(s) + 1
    BY <1>1
  <1>3. ASSUME NEW n \in 1 .. Len(T) + Len(s) PROVE (T \o Append(s, r))[n] = (T \o s)[n]
    BY <1>1, <1>2
  <1>4. (T \o Append(s, r))[Len(T) + Len(s) + 1] = r
    BY <1>1, <1>2
  <1> QED
    BY <1>1, <1>2, <1>3, <1>4 DEF Extended

\* Popping the buffer behind the requests sent earlier.
LEMMA PopRemoves ==
    ASSUME NEW T \in Seq(Requests), NEW s \in Seq(Requests), s # <<>>
    PROVE  /\ Removed(T \o s, Len(T) + 1, T \o Tail(s))
           /\ (T \o s)[Len(T) + 1] = Head(s) /\ Len(T) \in Nat
  <1>1. /\ T \o s \in Seq(Requests) /\ Tail(s) \in Seq(Requests)
        /\ T \o Tail(s) \in Seq(Requests) /\ Len(T) \in Nat /\ Len(s) \in Nat /\ Len(s) > 0
        /\ Len(Tail(s)) = Len(s) - 1
    BY ConcatProperties, LenProperties, Parted
  <1>2. /\ Len(T \o s) = Len(T) + Len(s) /\ Len(T \o Tail(s)) = Len(T) + Len(s) - 1
    BY <1>1
  <1>3. ASSUME NEW n \in 1 .. Len(T) + Len(s) - 1
        PROVE  (T \o Tail(s))[n] = IF n < Len(T) + 1 THEN (T \o s)[n] ELSE (T \o s)[n + 1]
    BY <1>1, <1>2
  <1>4. (T \o s)[Len(T) + 1] = Head(s)
    BY <1>1, <1>2
  <1> QED
    BY <1>1, <1>2, <1>3, <1>4 DEF Removed

\* Taking the first request.
LEMMA TakeRemoves ==
    ASSUME NEW T \in Seq(Requests), NEW s \in Seq(Requests), T # <<>>
    PROVE  Removed(T \o s, 1, Tail(T) \o s) /\ (T \o s)[1] = Head(T)
  <1>1. /\ T \o s \in Seq(Requests) /\ Tail(T) \in Seq(Requests)
        /\ Tail(T) \o s \in Seq(Requests) /\ Len(T) \in Nat /\ Len(s) \in Nat /\ Len(T) > 0
        /\ Len(Tail(T)) = Len(T) - 1
    BY ConcatProperties, LenProperties, Parted
  <1>2. /\ Len(T \o s) = Len(T) + Len(s) /\ Len(Tail(T) \o s) = Len(T) + Len(s) - 1
    BY <1>1
  <1>3. ASSUME NEW n \in 1 .. Len(T) + Len(s) - 1
        PROVE  (Tail(T) \o s)[n] = (T \o s)[n + 1]
    BY <1>1, <1>2
  <1>4. (T \o s)[1] = Head(T)
    BY <1>1, <1>2
  <1> QED
    BY <1>1, <1>2, <1>3, <1>4 DEF Removed

\* Forwarding a request leaves the requests under way as they are.
LEMMA ForwardKeeps ==
    ASSUME NEW T \in Seq(Requests), NEW s \in Seq(Requests), s # <<>>
    PROVE  Append(T, Head(s)) \o Tail(s) = T \o s
  <1>1. /\ Tail(s) \in Seq(Requests) /\ Head(s) \in Requests /\ Len(T) \in Nat
        /\ Len(s) \in Nat /\ Len(s) > 0 /\ Len(Tail(s)) = Len(s) - 1
        /\ Append(T, Head(s)) \in Seq(Requests) /\ Len(Append(T, Head(s))) = Len(T) + 1
    BY LenProperties, Parted, Appended
  <1>2. /\ Append(T, Head(s)) \o Tail(s) \in Seq(Requests) /\ T \o s \in Seq(Requests)
        /\ Len(Append(T, Head(s)) \o Tail(s)) = Len(T) + Len(s)
        /\ Len(T \o s) = Len(T) + Len(s)
    BY <1>1, ConcatProperties
  <1>3. ASSUME NEW n \in 1 .. Len(T) + Len(s)
        PROVE  (Append(T, Head(s)) \o Tail(s))[n] = (T \o s)[n]
    BY <1>1, <1>2
  <1> QED
    BY <1>2, <1>3, SeqEqual

\* A set of natural numbers has a least element.
LEMMA LeastNat ==
    ASSUME NEW T, T \subseteq Nat, T # {}
    PROVE  \E m \in T : \A k \in T : m <= k
  <1> DEFINE R == OpToRel(<, Nat)
  <1>1. IsWellFoundedOn(R, Nat)
    BY NatLessThanWellFounded, Zenon
  <1>2. \A x \in Nat, y \in Nat : <<y, x>> \in R <=> y < x
    BY DEF OpToRel
  <1> HIDE DEF R
  <1>3. PICK m \in T : \A y \in T : ~(<<y, m>> \in R)
    BY <1>1, WFMin
  <1>4. ASSUME NEW k \in T PROVE m <= k
    <2>1. m \in Nat /\ k \in Nat /\ ~(<<k, m>> \in R)
      BY <1>3
    <2>2. ~(k < m)
      BY <2>1, <1>2
    <2> QED
      BY <2>1, <2>2
  <1> QED
    BY <1>4

\* A function that no step changes is constant.
LEMMA Constant ==
    ASSUME NEW V, NEW a \in Nat, NEW l \in Nat, a <= l,
           \A n \in a + 1 .. l : V[n] = V[n - 1]
    PROVE  V[l] = V[a]
  <1> DEFINE T == {n \in a .. l : V[n] # V[a]}
  <1>1. T = {}
    <2>1. SUFFICES ASSUME T # {} PROVE FALSE
      OBVIOUS
    <2>2. PICK m \in T : \A i \in T : m <= i
      <3>1. T \subseteq Nat
        OBVIOUS
      <3> HIDE DEF T
      <3> QED
        BY <2>1, <3>1, LeastNat
    <2>3. m \in a .. l /\ V[m] # V[a]
      OBVIOUS
    <2>4. m # a
      BY <2>3
    <2>5. m - 1 \in a .. l /\ m \in a + 1 .. l
      BY <2>3, <2>4
    <2>6. m - 1 \notin T
      BY <2>2, <2>3
    <2>7. V[m - 1] = V[a]
      BY <2>5, <2>6
    <2> QED
      BY <2>3, <2>5, <2>7
  <1>2. l \in a .. l
    OBVIOUS
  <1> QED
    BY <1>1, <1>2

\* The account goes on with another request: one of another order changes
\* nothing, one of x must be sound.
LEMMA TrackedExtended ==
    ASSUME NEW R, NEW r, NEW T, Extended(R, r, T), NEW x, NEW b, NEW q \in Nat, NEW v \in Nat,
           Tracked(R, x, b, q),
           \/ r.id # x /\ v = q
           \/ r.id = x /\ Sound(r, q, v)
    PROVE  Tracked(T, x, b, v)
  <1>1. PICK l \in Nat : l = Len(R) /\ Len(T) = l + 1 /\ T[l + 1] = r
    BY DEF Extended
  <1>2. \A n \in 1 .. l : T[n] = R[n]
    BY <1>1 DEF Extended
  <1>3. PICK V \in [0 .. l -> Nat] : Running(V, R, x, b, q)
    BY <1>1 DEF Tracked
  <1>4. /\ V[0] = b /\ V[l] = q
        /\ \A n \in 1 .. l : R[n].id # x => V[n] = V[n - 1]
        /\ \A n \in 1 .. l : R[n].id = x => Sound(R[n], V[n - 1], V[n])
        /\ \A n \in 0 .. l, k \in 0 .. l : n <= k /\ V[n] > 0 => V[k] > 0
    BY <1>1, <1>3 DEF Running
  <1>5. PICK W : W = [n \in 0 .. l + 1 |-> IF n = l + 1 THEN v ELSE V[n]]
    OBVIOUS
  <1>6. W \in [0 .. l + 1 -> Nat] /\ W[l + 1] = v /\ \A n \in 0 .. l : W[n] = V[n]
    BY <1>5
  <1>7. ASSUME NEW n \in 1 .. l + 1
        PROVE  n = l + 1 \/ (n \in 1 .. l /\ n - 1 \in 0 .. l /\ n \in 0 .. l)
    OBVIOUS
  <1>8. ASSUME NEW n \in 1 .. l + 1
        PROVE  /\ T[n].id # x => W[n] = W[n - 1]
               /\ T[n].id = x => Sound(T[n], W[n - 1], W[n])
    <2>1. CASE n = l + 1
      <3>1. W[n - 1] = q /\ W[n] = v /\ T[n] = r
        BY <2>1, <1>1, <1>4, <1>6
      <3> QED
        BY <3>1
    <2>2. CASE n \in 1 .. l /\ n - 1 \in 0 .. l /\ n \in 0 .. l
      <3>1. W[n] = V[n] /\ W[n - 1] = V[n - 1] /\ T[n] = R[n]
        BY <2>2, <1>2, <1>6
      <3> QED
        BY <2>2, <3>1, <1>4
    <2> QED
      BY <1>7, <2>1, <2>2
  <1>9. ASSUME NEW n \in 0 .. l + 1, NEW k \in 0 .. l + 1, n <= k, W[n] > 0 PROVE W[k] > 0
    <2>1. CASE k \in 0 .. l
      <3>1. n \in 0 .. l
        BY <2>1, <1>9
      <3> QED
        BY <2>1, <3>1, <1>4, <1>6, <1>9
    <2>2. CASE k = l + 1
      <3>1. CASE n = l + 1
        BY <2>2, <3>1, <1>9
      <3>2. CASE n \in 0 .. l
        <4>1. V[n] > 0
          BY <3>2, <1>6, <1>9
        <4>2. q > 0
          BY <3>2, <4>1, <1>4
        <4> QED
          BY <2>2, <4>2, <1>6 DEF Sound
      <3> QED
        BY <3>1, <3>2
    <2> QED
      BY <2>1, <2>2
  <1>10. Running(W, T, x, b, v)
    <2>1. Len(T) = l + 1 /\ W[0] = b /\ W[Len(T)] = v
      BY <1>1, <1>4, <1>6
    <2> QED
      BY <2>1, <1>8, <1>9 DEF Running
  <1> QED
    BY <1>1, <1>6, <1>10 DEF Tracked

\* An order no request is about keeps its quantity.
LEMMA TrackedAlone ==
    ASSUME NEW R \in Seq(Requests), NEW x, NEW b \in Nat,
           \A n \in 1 .. Len(R) : R[n].id # x
    PROVE  Tracked(R, x, b, b)
  <1>1. PICK l \in Nat : l = Len(R)
    BY LenProperties
  <1>2. PICK V : V = [n \in 0 .. l |-> b]
    OBVIOUS
  <1>3. V \in [0 .. l -> Nat] /\ \A n \in 0 .. l : V[n] = b
    BY <1>2
  <1>4. \A n \in 1 .. l : n \in 0 .. l /\ n - 1 \in 0 .. l
    OBVIOUS
  <1>5. Running(V, R, x, b, b)
    BY <1>1, <1>3, <1>4 DEF Running
  <1> QED
    BY <1>1, <1>3, <1>5 DEF Tracked

\* Without a request of another order.
LEMMA TrackedRemoved ==
    ASSUME NEW R, NEW j, NEW S, Removed(R, j, S), NEW x, NEW b, NEW q \in Nat,
           Tracked(R, x, b, q), R[j].id # x
    PROVE  Tracked(S, x, b, q)
  <1>1. PICK l \in Nat : l = Len(S) /\ Len(R) = l + 1
    BY DEF Removed
  <1>2. j \in 1 .. l + 1 /\ \A n \in 1 .. l : S[n] = IF n < j THEN R[n] ELSE R[n + 1]
    BY <1>1 DEF Removed
  <1>3. PICK V \in [0 .. l + 1 -> Nat] : Running(V, R, x, b, q)
    BY <1>1 DEF Tracked
  <1>4. /\ V[0] = b /\ V[l + 1] = q
        /\ \A n \in 1 .. l + 1 : R[n].id # x => V[n] = V[n - 1]
        /\ \A n \in 1 .. l + 1 : R[n].id = x => Sound(R[n], V[n - 1], V[n])
        /\ \A n \in 0 .. l + 1, k \in 0 .. l + 1 : n <= k /\ V[n] > 0 => V[k] > 0
    BY <1>1, <1>3 DEF Running
  <1>5. PICK W : W = [n \in 0 .. l |-> IF n < j THEN V[n] ELSE V[n + 1]]
    OBVIOUS
  <1>6. W \in [0 .. l -> Nat] /\ \A n \in 0 .. l : W[n] = IF n < j THEN V[n] ELSE V[n + 1]
    BY <1>5
  <1>7. V[j] = V[j - 1]
    BY <1>2, <1>4
  <1>8. ASSUME NEW n \in 1 .. l
        PROVE  /\ S[n].id # x => W[n] = W[n - 1]
               /\ S[n].id = x => Sound(S[n], W[n - 1], W[n])
    <2>1. n \in 0 .. l /\ n - 1 \in 0 .. l /\ n \in 1 .. l + 1 /\ n + 1 \in 1 .. l + 1
      OBVIOUS
    <2>2. CASE n < j
      <3>1. W[n] = V[n] /\ W[n - 1] = V[n - 1] /\ S[n] = R[n]
        BY <2>1, <2>2, <1>2, <1>6
      <3> QED
        BY <2>1, <3>1, <1>4
    <2>3. CASE ~(n < j)
      <3>1. W[n] = V[n + 1] /\ S[n] = R[n + 1]
        BY <2>1, <2>3, <1>2, <1>6
      <3>2. W[n - 1] = V[n]
        <4>1. CASE n = j
          BY <2>1, <4>1, <1>2, <1>6, <1>7
        <4>2. CASE n # j
          <5>1. ~(n - 1 < j) /\ (n - 1) + 1 = n
            BY <2>3, <4>2, <1>2
          <5> QED
            BY <2>1, <5>1, <1>6
        <4> QED
          BY <4>1, <4>2
      <3>3. (n + 1) - 1 = n
        OBVIOUS
      <3> QED
        BY <2>1, <3>1, <3>2, <3>3, <1>4
    <2> QED
      BY <2>2, <2>3
  <1>9. ASSUME NEW n \in 0 .. l, NEW k \in 0 .. l, n <= k, W[n] > 0 PROVE W[k] > 0
    <2>1. PICK a \in 0 .. l + 1 : a = IF n < j THEN n ELSE n + 1
      OBVIOUS
    <2>2. PICK c \in 0 .. l + 1 : c = IF k < j THEN k ELSE k + 1
      OBVIOUS
    <2>3. W[n] = V[a] /\ W[k] = V[c]
      BY <2>1, <2>2, <1>6
    <2>4. a <= c
      BY <2>1, <2>2, <1>9, <1>2, SMTT(60)
    <2> QED
      BY <2>3, <2>4, <1>4, <1>9
  <1>10. W[0] = b /\ W[l] = q
    <2>1. W[0] = b
      BY <1>2, <1>4, <1>6
    <2>2. CASE l < j
      <3>1. j = l + 1 /\ j - 1 = l
        BY <2>2, <1>2
      <3>2. V[l + 1] = V[l]
        BY <3>1, <1>7
      <3>3. l \in 0 .. l
        OBVIOUS
      <3>4. W[l] = V[l]
        BY <2>2, <3>3, <1>6
      <3> QED
        BY <2>1, <3>2, <3>4, <1>4
    <2>3. CASE ~(l < j)
      BY <2>1, <2>3, <1>4, <1>6
    <2> QED
      BY <2>2, <2>3
  <1>11. Running(W, S, x, b, q)
    BY <1>1, <1>8, <1>9, <1>10 DEF Running
  <1> QED
    BY <1>1, <1>6, <1>11 DEF Tracked

\* The first request, one of x, is done.
LEMMA TrackedTaken ==
    ASSUME NEW R, NEW S, Removed(R, 1, S), NEW x, NEW b, NEW q \in Nat,
           Tracked(R, x, b, q), R[1].id = x
    PROVE  Sound(R[1], b, R[1].quantity) /\ Tracked(S, x, R[1].quantity, q)
  <1>1. PICK l \in Nat : l = Len(S) /\ Len(R) = l + 1
    BY DEF Removed
  <1>2. \A n \in 1 .. l : S[n] = R[n + 1]
    BY <1>1 DEF Removed
  <1>3. PICK V \in [0 .. l + 1 -> Nat] : Running(V, R, x, b, q)
    BY <1>1 DEF Tracked
  <1>4. /\ V[0] = b /\ V[l + 1] = q
        /\ \A n \in 1 .. l + 1 : R[n].id # x => V[n] = V[n - 1]
        /\ \A n \in 1 .. l + 1 : R[n].id = x => Sound(R[n], V[n - 1], V[n])
        /\ \A n \in 0 .. l + 1, k \in 0 .. l + 1 : n <= k /\ V[n] > 0 => V[k] > 0
    BY <1>1, <1>3 DEF Running
  <1>5. PICK W : W = [n \in 0 .. l |-> V[n + 1]]
    OBVIOUS
  <1>6. W \in [0 .. l -> Nat] /\ \A n \in 0 .. l : W[n] = V[n + 1]
    BY <1>5
  <1>7. Sound(R[1], b, V[1]) /\ V[1] = R[1].quantity
    <2>1. 1 \in 1 .. l + 1 /\ 1 - 1 = 0
      OBVIOUS
    <2>2. Sound(R[1], V[0], V[1])
      BY <2>1, <1>4
    <2> QED
      BY <2>2, <1>4 DEF Sound
  <1>8. ASSUME NEW n \in 1 .. l
        PROVE  /\ S[n].id # x => W[n] = W[n - 1]
               /\ S[n].id = x => Sound(S[n], W[n - 1], W[n])
    <2>1. n \in 0 .. l /\ n - 1 \in 0 .. l /\ n + 1 \in 1 .. l + 1 /\ (n + 1) - 1 = n
          /\ (n - 1) + 1 = n
      OBVIOUS
    <2>2. W[n] = V[n + 1] /\ W[n - 1] = V[n] /\ S[n] = R[n + 1]
      BY <2>1, <1>2, <1>6
    <2> QED
      BY <2>1, <2>2, <1>4
  <1>9. ASSUME NEW n \in 0 .. l, NEW k \in 0 .. l, n <= k, W[n] > 0 PROVE W[k] > 0
    BY <1>4, <1>6, <1>9
  <1>10. W[0] = R[1].quantity /\ W[l] = q
    BY <1>4, <1>6, <1>7
  <1>11. Running(W, S, x, R[1].quantity, q)
    BY <1>1, <1>8, <1>9, <1>10 DEF Running
  <1> QED
    BY <1>1, <1>6, <1>7, <1>11 DEF Tracked

\* The order x is not new in S.
NoNew(S, x) == \A n \in 1 .. Len(S) : S[n].id = x => S[n].type # "New"

\* A new order is the first that is said of it, and is said once.
LEMMA TrackedNew ==
    ASSUME NEW R, NEW j, NEW S, Removed(R, j, S), NEW x, NEW b, NEW q \in Nat,
           Tracked(R, x, b, q), R[j].id = x, R[j].type = "New"
    PROVE  b = 0 /\ NoNew(S, x)
  <1>1. PICK l \in Nat : l = Len(S) /\ Len(R) = l + 1
    BY DEF Removed
  <1>2. j \in 1 .. l + 1 /\ \A n \in 1 .. l : S[n] = IF n < j THEN R[n] ELSE R[n + 1]
    BY <1>1 DEF Removed
  <1>3. PICK V \in [0 .. l + 1 -> Nat] : Running(V, R, x, b, q)
    BY <1>1 DEF Tracked
  <1>4. /\ V[0] = b
        /\ \A n \in 1 .. l + 1 : R[n].id = x => Sound(R[n], V[n - 1], V[n])
        /\ \A n \in 0 .. l + 1, k \in 0 .. l + 1 : n <= k /\ V[n] > 0 => V[k] > 0
    BY <1>1, <1>3 DEF Running
  <1>5. j \in 0 .. l + 1 /\ j - 1 \in 0 .. l + 1 /\ 0 \in 0 .. l + 1 /\ 0 <= j - 1
    BY <1>2
  <1>6. V[j - 1] = 0 /\ V[j] > 0
    BY <1>2, <1>4 DEF Sound
  <1>7. b = 0
    <2>1. V[0] \in Nat /\ ~(V[0] > 0)
      BY <1>4, <1>5, <1>6
    <2> QED
      BY <2>1, <1>4
  <1>8. ASSUME NEW n \in 1 .. l + 1, n # j, R[n].id = x PROVE R[n].type # "New"
    <2>1. n \in 0 .. l + 1 /\ n - 1 \in 0 .. l + 1 /\ V[n] > 0
      BY <1>8, <1>4 DEF Sound
    <2>2. CASE n < j
      <3>1. n <= j - 1
        BY <2>2, <1>2
      <3> QED
        BY <3>1, <2>1, <1>4, <1>5, <1>6
    <2>3. CASE n > j
      <3>1. j <= n - 1
        BY <2>3, <1>2
      <3>2. V[n - 1] > 0
        BY <3>1, <2>1, <1>4, <1>5, <1>6
      <3> QED
        BY <3>2, <1>4, <1>8, SMTT(60) DEF Sound
    <2> QED
      BY <2>2, <2>3, <1>2, <1>8
  <1>9. ASSUME NEW n \in 1 .. l, S[n].id = x PROVE S[n].type # "New"
    <2>1. CASE n < j
      <3>1. n \in 1 .. l + 1 /\ n # j /\ S[n] = R[n]
        BY <2>1, <1>2
      <3> QED
        BY <3>1, <1>8, <1>9
    <2>2. CASE ~(n < j)
      <3>1. n + 1 \in 1 .. l + 1 /\ n + 1 # j /\ S[n] = R[n + 1]
        BY <2>2, <1>2
      <3> QED
        BY <3>1, <1>8, <1>9
    <2> QED
      BY <2>1, <2>2
  <1> QED
    BY <1>1, <1>7, <1>9 DEF NoNew

\* A request that nothing but cancels follows leaves the quantity believed; what
\* it changed is the quantity without it.
LEMMA TrackedBack ==
    ASSUME NEW R, NEW j, NEW S, Removed(R, j, S), NEW x, NEW b, NEW q \in Nat,
           Tracked(R, x, b, q), R[j].id = x, R[j].type = "Update",
           \A n \in j + 1 .. Len(R) : R[n].id = x => R[n].type = "Cancel"
    PROVE  R[j].previous > 0 /\ Tracked(S, x, b, R[j].previous)
  <1>1. PICK l \in Nat : l = Len(S) /\ Len(R) = l + 1
    BY DEF Removed
  <1>2. j \in 1 .. l + 1 /\ \A n \in 1 .. l : S[n] = IF n < j THEN R[n] ELSE R[n + 1]
    BY <1>1 DEF Removed
  <1>3. PICK V \in [0 .. l + 1 -> Nat] : Running(V, R, x, b, q)
    BY <1>1 DEF Tracked
  <1>4. /\ V[0] = b
        /\ \A n \in 1 .. l + 1 : R[n].id # x => V[n] = V[n - 1]
        /\ \A n \in 1 .. l + 1 : R[n].id = x => Sound(R[n], V[n - 1], V[n])
        /\ \A n \in 0 .. l + 1, k \in 0 .. l + 1 : n <= k /\ V[n] > 0 => V[k] > 0
    BY <1>1, <1>3 DEF Running
  <1>5. PICK v \in Nat : v = V[j - 1] /\ v > 0 /\ v = R[j].previous
    <2>1. j - 1 \in 0 .. l + 1
      BY <1>2
    <2> QED
      BY <2>1, <1>2, <1>4 DEF Sound
  <1>6. \A n \in j + 1 .. l + 1 : R[n].id # x
    BY <1>1, <1>2, <1>4, SMTT(60) DEF Sound
  <1>7. PICK W : W = [n \in 0 .. l |-> IF n < j THEN V[n] ELSE v]
    OBVIOUS
  <1>8. W \in [0 .. l -> Nat] /\ \A n \in 0 .. l : W[n] = IF n < j THEN V[n] ELSE v
    BY <1>5, <1>7
  <1>9. ASSUME NEW n \in 1 .. l
        PROVE  /\ S[n].id # x => W[n] = W[n - 1]
               /\ S[n].id = x => Sound(S[n], W[n - 1], W[n])
    <2>1. n \in 0 .. l /\ n - 1 \in 0 .. l /\ n \in 1 .. l + 1 /\ n + 1 \in 1 .. l + 1
      OBVIOUS
    <2>2. CASE n < j
      <3>1. W[n] = V[n] /\ W[n - 1] = V[n - 1] /\ S[n] = R[n]
        BY ONLY <2>1, <2>2, <1>2, <1>8, SMTT(60)
      <3> QED
        BY <2>1, <3>1, <1>4
    <2>3. CASE ~(n < j)
      <3>1. W[n] = v /\ S[n] = R[n + 1] /\ n + 1 \in j + 1 .. l + 1
        BY ONLY <2>1, <2>3, <1>2, <1>8
      <3>2. W[n - 1] = v
        <4>1. CASE n = j
          BY <2>1, <4>1, <1>2, <1>5, <1>8
        <4>2. CASE n # j
          <5>1. ~(n - 1 < j)
            BY <2>3, <4>2, <1>2
          <5> QED
            BY <2>1, <5>1, <1>8
        <4> QED
          BY <4>1, <4>2
      <3>3. S[n].id # x
        BY <3>1, <1>6
      <3> QED
        BY <3>1, <3>2, <3>3
    <2> QED
      BY <2>2, <2>3
  <1>10. ASSUME NEW n \in 0 .. l, NEW k \in 0 .. l, n <= k, W[n] > 0 PROVE W[k] > 0
    <2>1. CASE k < j
      <3>1. n < j /\ n \in 0 .. l + 1 /\ k \in 0 .. l + 1
        BY <2>1, <1>2, <1>10
      <3>2. W[n] = V[n] /\ W[k] = V[k]
        BY <2>1, <3>1, <1>8
      <3> QED
        BY <3>1, <3>2, <1>4, <1>10
    <2>2. CASE ~(k < j)
      BY <2>2, <1>5, <1>8
    <2> QED
      BY <2>1, <2>2
  <1>11. W[0] = b /\ W[l] = v
    <2>1. 0 \in 0 .. l /\ l \in 0 .. l /\ 0 < j
      BY <1>2
    <2>2. W[0] = b
      BY <2>1, <1>4, <1>8
    <2>3. CASE l < j
      <3>1. j - 1 = l
        BY <2>3, <1>2
      <3> QED
        BY <2>1, <2>2, <2>3, <3>1, <1>5, <1>8
    <2>4. CASE ~(l < j)
      BY <2>1, <2>2, <2>4, <1>8
    <2> QED
      BY <2>3, <2>4
  <1>12. Running(W, S, x, b, v)
    BY <1>1, <1>9, <1>10, <1>11 DEF Running
  <1> QED
    BY <1>1, <1>5, <1>8, <1>12 DEF Tracked

\* With fills on the way, and no request that would cross one, nothing is said of
\* the order and what is believed is what is open and what was filled.
LEMMA TrackedQuiet ==
    ASSUME NEW R \in Seq(Requests), NEW x, NEW b \in Nat, b > 0, NEW q \in Nat,
           Tracked(R, x, b, q),
           \A n \in 1 .. Len(R) : R[n].id = x => R[n].type # "Update"
    PROVE  b = q /\ \A n \in 1 .. Len(R) : R[n].id # x
  <1>1. PICK l \in Nat : l = Len(R)
    BY LenProperties
  <1>2. PICK V \in [0 .. l -> Nat] : Running(V, R, x, b, q)
    BY <1>1 DEF Tracked
  <1>3. /\ V[0] = b /\ V[l] = q
        /\ \A n \in 1 .. l : R[n].id # x => V[n] = V[n - 1]
        /\ \A n \in 1 .. l : R[n].id = x => Sound(R[n], V[n - 1], V[n])
        /\ \A n \in 0 .. l, k \in 0 .. l : n <= k /\ V[n] > 0 => V[k] > 0
    BY <1>1, <1>2 DEF Running
  <1>4. ASSUME NEW n \in 1 .. l, R[n].id = x PROVE FALSE
    <2>1. n - 1 \in 0 .. l /\ 0 \in 0 .. l /\ 0 <= n - 1
      OBVIOUS
    <2>2. V[n - 1] > 0
      BY <2>1, <1>3
    <2>3. Sound(R[n], V[n - 1], V[n])
      BY <1>3, <1>4
    <2> QED
      BY <2>2, <2>3, <1>1, <1>4 DEF Sound
  <1>5. V[l] = V[0]
    <2>1. \A n \in 1 .. l : V[n] = V[n - 1]
      <3>1. ASSUME NEW n \in 1 .. l PROVE V[n] = V[n - 1]
        <4>1. R[n].id # x
          BY <1>4
        <4> QED
          BY <4>1, <1>3
      <3> QED
        BY <3>1
    <2>2. PICK a \in Nat : a = 0
      OBVIOUS
    <2>3. a <= l /\ \A n \in a + 1 .. l : V[n] = V[n - 1]
      BY <2>1, <2>2
    <2>4. V[l] = V[a]
      BY ONLY <2>3, Constant, a \in Nat, l \in Nat
    <2> QED
      BY <2>2, <2>4
  <1> QED
    BY <1>1, <1>3, <1>4, <1>5

\* The quantity believed is positive only if the order was open or is going to be.
LEMMA TrackedLive ==
    ASSUME NEW R \in Seq(Requests), NEW x, NEW b \in Nat, NEW q \in Nat, q > 0,
           Tracked(R, x, b, q)
    PROVE  /\ b > 0 \/ \E n \in 1 .. Len(R) : R[n].id = x /\ R[n].type = "New"
           /\ \A n \in 1 .. Len(R) : R[n].id = x => R[n].type # "Cancel"
  <1>1. PICK l \in Nat : l = Len(R)
    BY LenProperties
  <1>2. PICK V \in [0 .. l -> Nat] : Running(V, R, x, b, q)
    BY <1>1 DEF Tracked
  <1>3. /\ V[0] = b /\ V[l] = q
        /\ \A n \in 1 .. l : R[n].id # x => V[n] = V[n - 1]
        /\ \A n \in 1 .. l : R[n].id = x => Sound(R[n], V[n - 1], V[n])
    BY <1>1, <1>2 DEF Running
  <1>4. \A n \in 1 .. l : R[n].id = x => R[n].type # "Cancel"
    BY <1>3 DEF Sound
  <1>5. ASSUME b = 0, \A n \in 1 .. l : R[n].id = x => R[n].type # "New" PROVE FALSE
    <2> DEFINE T == {n \in 0 .. l : V[n] # 0}
    <2>1. T # {}
      BY <1>3, SMTT(60)
    <2>2. PICK m \in T : \A i \in T : m <= i
      <3>1. T \subseteq Nat
        OBVIOUS
      <3> HIDE DEF T
      <3> QED
        BY <2>1, <3>1, LeastNat
    <2>3. m \in 0 .. l /\ V[m] # 0
      OBVIOUS
    <2>4. m # 0
      BY <2>3, <1>3, <1>5
    <2>5. m \in 1 .. l /\ m - 1 \in 0 .. l /\ m - 1 \notin T
      BY <2>2, <2>3, <2>4
    <2>6. V[m - 1] = 0
      BY <2>5
    <2>7. R[m].id = x
      BY <2>3, <2>5, <2>6, <1>3
    <2>8. Sound(R[m], V[m - 1], V[m]) /\ R[m].type # "New"
      BY <2>5, <2>7, <1>3, <1>5
    <2>9. V[m - 1] > 0
      BY <2>8 DEF Sound
    <2> QED
      BY <2>6, <2>9
  <1> QED
    BY <1>1, <1>4, <1>5

\* One more request, unless it is the new order itself, changes nothing for an
\* order that is settled, and a cancel settles every order.
LEMMA SettledExtended ==
    ASSUME NEW R, NEW r, NEW T, Extended(R, r, T), NEW x, NEW o \in Nat
    PROVE  /\ Settled(R, x, o) /\ (r.id = x => r.type # "New") => Settled(T, x, o)
           /\ r.id = x /\ r.type = "Cancel" => Settled(T, x, o)
  <1>1. PICK l \in Nat : l = Len(R) /\ Len(T) = l + 1 /\ T[l + 1] = r
    BY DEF Extended
  <1>2. \A n \in 1 .. l : T[n] = R[n]
    BY <1>1 DEF Extended
  <1>3. \A n \in 1 .. l + 1 : n = l + 1 \/ n \in 1 .. l
    OBVIOUS
  <1>4. ASSUME r.id = x, r.type = "Cancel" PROVE Settled(T, x, o)
    <2>1. l + 1 \in 1 .. l + 1 /\ \A k \in l + 1 .. l + 1 : k = l + 1
      OBVIOUS
    <2> QED
      BY <2>1, <1>1, <1>4 DEF Settled
  <1>5. ASSUME Settled(R, x, o), r.id = x => r.type # "New" PROVE Settled(T, x, o)
    <2>1. CASE o = 0 /\ \A n \in 1 .. Len(R) : R[n].id = x => R[n].type # "New"
      <3>1. \A n \in 1 .. l + 1 : T[n].id = x => T[n].type # "New"
        BY <2>1, <1>1, <1>2, <1>3, <1>5
      <3> QED
        BY <2>1, <3>1, <1>1 DEF Settled
    <2>2. CASE \E n \in 1 .. Len(R) :
                 /\ R[n].id = x /\ R[n].type = "Cancel"
                 /\ \A k \in n .. Len(R) : R[k].id = x => R[k].type # "New"
      <3>1. PICK n \in 1 .. l :
                 /\ R[n].id = x /\ R[n].type = "Cancel"
                 /\ \A k \in n .. l : R[k].id = x => R[k].type # "New"
        BY <2>2, <1>1
      <3>2. ASSUME NEW k \in n .. l + 1, T[k].id = x PROVE T[k].type # "New"
        <4>1. CASE k = l + 1
          BY <3>2, <4>1, <1>1, <1>5
        <4>2. CASE k \in n .. l
          <5>1. T[k] = R[k]
            BY <4>2, <1>2
          <5> QED
            BY <3>1, <3>2, <4>2, <5>1
        <4> QED
          BY <4>1, <4>2
      <3>3. n \in 1 .. l + 1 /\ T[n] = R[n]
        BY <1>2
      <3> QED
        BY <3>1, <3>2, <3>3, <1>1 DEF Settled
    <2> QED
      BY <2>1, <2>2, <1>5 DEF Settled
  <1> QED
    BY <1>4, <1>5

\* Without a request that is no cancel of the order.
LEMMA SettledRemoved ==
    ASSUME NEW R, NEW j, NEW S, Removed(R, j, S), NEW x, NEW o \in Nat, Settled(R, x, o),
           R[j].id = x => R[j].type # "Cancel"
    PROVE  Settled(S, x, o)
  <1>1. PICK l \in Nat : l = Len(S) /\ Len(R) = l + 1
    BY DEF Removed
  <1>2. j \in 1 .. l + 1 /\ \A n \in 1 .. l : S[n] = IF n < j THEN R[n] ELSE R[n + 1]
    BY <1>1 DEF Removed
  <1>3. CASE o = 0 /\ \A n \in 1 .. Len(R) : R[n].id = x => R[n].type # "New"
    <2>1. ASSUME NEW n \in 1 .. l, S[n].id = x PROVE S[n].type # "New"
      <3>1. n \in 1 .. l + 1 /\ n + 1 \in 1 .. l + 1
        OBVIOUS
      <3> QED
        BY <2>1, <3>1, <1>1, <1>2, <1>3
    <2> QED
      BY <2>1, <1>1, <1>3 DEF Settled
  <1>4. CASE \E n \in 1 .. Len(R) :
               /\ R[n].id = x /\ R[n].type = "Cancel"
               /\ \A k \in n .. Len(R) : R[k].id = x => R[k].type # "New"
    <2>1. PICK n \in 1 .. l + 1 :
               /\ R[n].id = x /\ R[n].type = "Cancel"
               /\ \A k \in n .. l + 1 : R[k].id = x => R[k].type # "New"
      BY <1>1, <1>4
    <2>2. n # j
      BY <2>1
    <2>3. PICK i \in 1 .. l : i = IF n < j THEN n ELSE n - 1
      BY <2>2, <1>2
    <2>4. S[i] = R[n]
      <3>1. CASE n < j
        BY <2>3, <3>1, <1>2
      <3>2. CASE ~(n < j)
        <4>1. i = n - 1 /\ ~(i < j) /\ i + 1 = n
          BY <2>2, <2>3, <3>2, <1>2
        <4> QED
          BY <4>1, <1>2
      <3> QED
        BY <3>1, <3>2
    <2>5. ASSUME NEW k \in i .. l, S[k].id = x PROVE S[k].type # "New"
      <3>1. PICK h \in n .. l + 1 : S[k] = R[h]
        <4>1. k \in 1 .. l
          BY <2>3
        <4>2. CASE k < j
          <5>1. S[k] = R[k] /\ k \in n .. l + 1
            BY <2>2, <2>3, <4>1, <4>2, <1>2
          <5> QED
            BY <5>1
        <4>3. CASE ~(k < j)
          <5>1. S[k] = R[k + 1] /\ k + 1 \in n .. l + 1
            BY <2>2, <2>3, <4>1, <4>3, <1>2
          <5> QED
            BY <5>1
        <4> QED
          BY <4>2, <4>3
      <3> QED
        BY <2>1, <2>5, <3>1
    <2> QED
      BY <2>1, <2>4, <2>5, <1>1 DEF Settled
  <1> QED
    BY <1>3, <1>4 DEF Settled

\* The first request, a cancel, is done.
LEMMA SettledTaken ==
    ASSUME NEW R, NEW S, Removed(R, 1, S), NEW x, NEW o \in Nat, Settled(R, x, o),
           R[1].id = x, R[1].type = "Cancel"
    PROVE  Settled(S, x, 0)
  <1>1. PICK l \in Nat : l = Len(S) /\ Len(R) = l + 1
    BY DEF Removed
  <1>2. \A n \in 1 .. l : S[n] = R[n + 1]
    BY <1>1 DEF Removed
  <1>3. CASE \A n \in 1 .. l + 1 : R[n].id = x => R[n].type # "New"
    <2>1. \A n \in 1 .. l : n + 1 \in 1 .. l + 1
      OBVIOUS
    <2>2. \A n \in 1 .. l : S[n].id = x => S[n].type # "New"
      BY <2>1, <1>2, <1>3
    <2> QED
      BY <2>2, <1>1 DEF Settled
  <1>4. CASE ~ \A n \in 1 .. l + 1 : R[n].id = x => R[n].type # "New"
    <2>1. PICK n \in 1 .. l + 1 :
               /\ R[n].id = x /\ R[n].type = "Cancel"
               /\ \A k \in n .. l + 1 : R[k].id = x => R[k].type # "New"
      BY <1>1, <1>4 DEF Settled
    <2>2. n # 1
      BY <2>1, <1>4
    <2>3. PICK i \in 1 .. l : i = n - 1 /\ i + 1 = n
      BY <2>2
    <2>4. S[i] = R[n]
      BY <2>3, <1>2
    <2>5. ASSUME NEW k \in i .. l, S[k].id = x PROVE S[k].type # "New"
      <3>1. k \in 1 .. l /\ k + 1 \in n .. l + 1
        BY <2>3
      <3> QED
        BY <2>1, <2>5, <3>1, <1>2
    <2> QED
      BY <2>1, <2>4, <2>5, <1>1 DEF Settled
  <1> QED
    BY <1>3, <1>4

\* A cancel is under way for a settled order that is open.
LEMMA SettledCancel ==
    ASSUME NEW R, NEW x, NEW o \in Nat, Settled(R, x, o),
           o > 0 \/ \E n \in 1 .. Len(R) : R[n].id = x /\ R[n].type = "New"
    PROVE  \E n \in 1 .. Len(R) : R[n].id = x /\ R[n].type = "Cancel"
  BY DEF Settled

\* A new order taken first is followed by the cancel.
LEMMA SettledNewTaken ==
    ASSUME NEW R, NEW S, Removed(R, 1, S), NEW x, NEW o \in Nat, Settled(R, x, o),
           R[1].id = x, R[1].type = "New", NEW v \in Nat
    PROVE  Settled(S, x, v)
  <1>1. 1 \in 1 .. Len(R)
    BY DEF Removed
  <1>2. Settled(R, x, v)
    BY <1>1 DEF Settled
  <1> QED
    BY <1>2, SettledRemoved

\* An update taken first.
LEMMA SettledUpdateTaken ==
    ASSUME NEW R, NEW S, Removed(R, 1, S), NEW x, NEW o \in Nat, Settled(R, x, o),
           R[1].id = x, R[1].type = "Update", NEW v \in Nat, o = 0 => v = 0
    PROVE  Settled(S, x, v)
  <1>1. Settled(R, x, v)
    BY DEF Settled
  <1> QED
    BY <1>1, SettledRemoved
-----------------------------------------------------------------------------
(* Accounts. *)

\* A request of another order.
LEMMA AccountOther ==
    ASSUME NEW R, NEW r, NEW T, Extended(R, r, T), NEW x, NEW o \in Nat, NEW p \in Nat,
           NEW q \in Nat, NEW all \in BOOLEAN, Account(R, x, o, p, q, all), r.id # x
    PROVE  Account(T, x, o, p, q, all)
  <1>1. PICK b \in Nat : b = o + p
    OBVIOUS
  <1>2. CASE q # 0
    <2>1. Tracked(R, x, b, q)
      BY <1>1, <1>2 DEF Account
    <2>2. Tracked(T, x, b, q)
      BY <2>1, TrackedExtended
    <2> QED
      BY <1>1, <1>2, <2>2 DEF Account
  <1>3. CASE q = 0
    <2>1. Settled(R, x, o) /\ (all => Settled(R, x, b))
      BY <1>1, <1>3 DEF Account
    <2>2. Settled(T, x, o) /\ (all => Settled(T, x, b))
      BY <2>1, SettledExtended
    <2> QED
      BY <1>1, <1>3, <2>2 DEF Account
  <1> QED
    BY <1>2, <1>3

\* A cancel closes the account.
LEMMA AccountCancel ==
    ASSUME NEW R, NEW r, NEW T, Extended(R, r, T), NEW x, NEW o \in Nat, NEW p \in Nat,
           NEW all \in BOOLEAN, r.id = x, r.type = "Cancel"
    PROVE  Account(T, x, o, p, 0, all)
  <1>1. PICK b \in Nat : b = o + p
    OBVIOUS
  <1>2. Settled(T, x, o) /\ Settled(T, x, b)
    BY SettledExtended
  <1> QED
    BY <1>1, <1>2 DEF Account

\* An update of the quantity believed.
LEMMA AccountUpdate ==
    ASSUME NEW R, NEW r, NEW T, Extended(R, r, T), NEW x, NEW o \in Nat, NEW p \in Nat,
           NEW q \in Nat, NEW all \in BOOLEAN, Account(R, x, o, p, q, all),
           r.id = x, r.type = "Update", NEW v \in Nat \ {0}, v = r.quantity,
           q > 0, r.previous = q
    PROVE  Account(T, x, o, p, v, all)
  <1>1. PICK b \in Nat : b = o + p
    OBVIOUS
  <1>2. Tracked(R, x, b, q) /\ Sound(r, q, v)
    BY <1>1 DEF Account, Sound
  <1>3. Tracked(T, x, b, v)
    BY <1>2, TrackedExtended
  <1> QED
    BY <1>1, <1>3 DEF Account

\* A new order opens an account.
LEMMA AccountNew ==
    ASSUME NEW R, NEW r, NEW T, Extended(R, r, T), NEW x, NEW all \in BOOLEAN,
           \A n \in 1 .. Len(R) : R[n].id # x,
           r.id = x, r.type = "New", NEW v \in Nat \ {0}, v = r.quantity
    PROVE  Account(T, x, 0, 0, v, all)
  <1>1. R \in Seq(Requests)
    BY DEF Extended
  <1>2. Tracked(R, x, 0, 0)
    BY <1>1, TrackedAlone
  <1>3. Sound(r, 0, v)
    BY DEF Sound
  <1>4. Tracked(T, x, 0, v)
    BY <1>2, <1>3, TrackedExtended
  <1>5. 0 + 0 = 0 /\ v # 0
    OBVIOUS
  <1> QED
    BY <1>4, <1>5 DEF Account

\* A request of another order is gone.
LEMMA AccountOtherGone ==
    ASSUME NEW R, NEW j, NEW S, Removed(R, j, S), NEW x, NEW o \in Nat, NEW p \in Nat,
           NEW q \in Nat, NEW all \in BOOLEAN, Account(R, x, o, p, q, all), R[j].id # x
    PROVE  Account(S, x, o, p, q, all)
  <1>1. PICK b \in Nat : b = o + p
    OBVIOUS
  <1>2. CASE q # 0
    <2>1. Tracked(R, x, b, q)
      BY <1>1, <1>2 DEF Account
    <2>2. Tracked(S, x, b, q)
      BY <2>1, TrackedRemoved
    <2> QED
      BY <1>1, <1>2, <2>2 DEF Account
  <1>3. CASE q = 0
    <2>1. Settled(R, x, o) /\ (all => Settled(R, x, b))
      BY <1>1, <1>3 DEF Account
    <2>2. Settled(S, x, o) /\ (all => Settled(S, x, b))
      BY <2>1, SettledRemoved
    <2> QED
      BY <1>1, <1>3, <2>2 DEF Account
  <1> QED
    BY <1>2, <1>3

\* A refused request: what it said of the order is taken back.
LEMMA AccountBack ==
    ASSUME NEW R, NEW j, NEW S, Removed(R, j, S), NEW x, NEW o \in Nat, NEW p \in Nat,
           NEW q \in Nat, NEW all \in BOOLEAN, Account(R, x, o, p, q, all),
           R[j].id = x, R[j].type \in {"New", "Update"},
           R[j].type = "Update" =>
             \A n \in j + 1 .. Len(R) : R[n].id = x => R[n].type = "Cancel"
    PROVE  Account(S, x, o, p, IF q = 0 \/ R[j].type = "New" THEN 0 ELSE R[j].previous, all)
  <1>1. PICK b \in Nat : b = o + p
    OBVIOUS
  <1>2. CASE q = 0
    <2>1. Settled(R, x, o) /\ (all => Settled(R, x, b))
      BY <1>1, <1>2 DEF Account
    <2>2. Settled(S, x, o) /\ (all => Settled(S, x, b))
      BY <2>1, SettledRemoved
    <2> QED
      BY <1>1, <1>2, <2>2 DEF Account
  <1>3. CASE q # 0 /\ R[j].type = "New"
    <2>1. Tracked(R, x, b, q)
      BY <1>1, <1>3 DEF Account
    <2>2. b = 0 /\ NoNew(S, x)
      <3>1. /\ Removed(R, j, S) /\ Tracked(R, x, b, q) /\ R[j].id = x /\ R[j].type = "New"
        BY <1>3, <2>1
      <3> QED
        BY ONLY <3>1, TrackedNew, q \in Nat
    <2>3. o = 0 /\ Settled(S, x, 0)
      BY <1>1, <2>2 DEF Settled, NoNew
    <2> QED
      BY <1>1, <1>3, <2>2, <2>3 DEF Account
  <1>4. CASE q # 0 /\ R[j].type = "Update"
    <2>1. Tracked(R, x, b, q)
      BY <1>1, <1>4 DEF Account
    <2>2. R[j].previous > 0 /\ Tracked(S, x, b, R[j].previous)
      BY <1>4, <2>1, TrackedBack
    <2> QED
      BY <1>1, <1>4, <2>2 DEF Account
  <1> QED
    BY <1>2, <1>3, <1>4

\* What the OMS makes of a request for an order with the quantity o.
Applied(r, o) == CASE r.type = "New" -> r.quantity
                   [] r.type = "Cancel" -> 0
                   [] OTHER -> IF o = 0 THEN 0 ELSE r.quantity

\* The OMS takes a request of the order, which no fill crosses.
LEMMA AccountTaken ==
    ASSUME NEW R, NEW S, Removed(R, 1, S), NEW x, NEW o \in Nat, NEW p \in Nat,
           NEW q \in Nat, NEW all \in BOOLEAN, Account(R, x, o, p, q, all),
           R[1].id = x, R[1] \in Requests,
           R[1].type = "Update" => p = 0, R[1].type = "Cancel" /\ all => p = 0
    PROVE  Account(S, x, Applied(R[1], o), p, q, all)
  <1>1. PICK b \in Nat : b = o + p
    OBVIOUS
  <1>2. PICK v \in Nat : v = Applied(R[1], o)
    BY DEF Applied, Requests, Request
  <1>3. R[1].type \in {"New", "Cancel", "Update"} /\ R[1].quantity \in Nat
    BY DEF Requests, Request
  <1>4. CASE q # 0
    <2>1. Tracked(R, x, b, q)
      BY <1>1, <1>4 DEF Account
    <2>2. Sound(R[1], b, R[1].quantity) /\ Tracked(S, x, R[1].quantity, q)
      BY <2>1, TrackedTaken
    <2>3. R[1].quantity = v + p
      BY <1>1, <1>2, <1>3, <2>2 DEF Sound, Applied
    <2> QED
      BY <1>2, <1>4, <2>2, <2>3 DEF Account
  <1>5. CASE q = 0
    <2>1. Settled(R, x, o) /\ (all => Settled(R, x, b))
      BY <1>1, <1>5 DEF Account
    <2>2. CASE R[1].type = "New"
      <3>1. Settled(S, x, v) /\ Settled(S, x, v + p)
        BY <2>1, <2>2, SettledNewTaken
      <3> QED
        BY <1>2, <1>5, <3>1 DEF Account
    <2>3. CASE R[1].type = "Cancel"
      <3>1. v = 0 /\ (all => v + p = 0)
        BY <1>2, <2>3 DEF Applied
      <3>2. Settled(S, x, 0)
        BY <2>1, <2>3, SettledTaken
      <3> QED
        BY <1>2, <1>5, <3>1, <3>2 DEF Account
    <2>4. CASE R[1].type = "Update"
      <3>1. (o = 0 => v = 0) /\ p = 0 /\ v + p = v
        BY <1>2, <2>4 DEF Applied
      <3>2. Settled(S, x, v)
        BY <2>1, <2>4, <3>1, SettledUpdateTaken
      <3> QED
        BY <1>2, <1>5, <3>1, <3>2 DEF Account
    <2> QED
      BY <1>3, <2>2, <2>3, <2>4
  <1> QED
    BY <1>4, <1>5

\* The OMS fills k of the order.
LEMMA AccountFilled ==
    ASSUME NEW R, NEW x, NEW o \in Nat, NEW p \in Nat, NEW q \in Nat, NEW all \in BOOLEAN,
           Account(R, x, o, p, q, all), NEW k \in Nat \ {0}, k <= o
    PROVE  Account(R, x, o - k, p + k, q, all)
  <1>1. (o - k) + (p + k) = o + p /\ o # 0
    OBVIOUS
  <1>2. CASE q # 0
    BY <1>1, <1>2 DEF Account
  <1>3. CASE q = 0
    <2>1. Settled(R, x, o) /\ (all => Settled(R, x, o + p))
      BY <1>3 DEF Account
    <2>2. Settled(R, x, o - k)
      BY <1>1, <2>1 DEF Settled
    <2> QED
      BY <1>1, <1>3, <2>1, <2>2 DEF Account
  <1> QED
    BY <1>2, <1>3

\* No request of the type is about order x.
Without(R, x, type) == \A n \in 1 .. Len(R) : R[n].id = x => R[n].type # type

\* The account when a fill of k is heard of.
Hears(R, x, o, p, q, k, all) ==
    IF q # 0 THEN k <= q /\ Account(R, x, o, p - k, q - k, all)
             ELSE ~all /\ Account(R, x, o, p - k, 0, all)

\* The strategy hears of a fill of k that no update crosses.  All of it is of the
\* quantity it believes in; if it believes in nothing, the order was cancelled.
LEMMA AccountHeard ==
    ASSUME NEW R \in Seq(Requests), NEW x, NEW o \in Nat, NEW p \in Nat, NEW q \in Nat,
           NEW all \in BOOLEAN, Account(R, x, o, p, q, all), NEW k \in Nat \ {0}, k <= p,
           Without(R, x, "Update"), all => Without(R, x, "Cancel")
    PROVE  Hears(R, x, o, p, q, k, all)
  <1> USE DEF Without, Hears
  <1>1. PICK b \in Nat : b = o + p /\ b > 0
    OBVIOUS
  <1>2. CASE q # 0
    <2>1. Tracked(R, x, b, q)
      BY <1>1, <1>2 DEF Account
    <2>2. b = q /\ \A n \in 1 .. Len(R) : R[n].id # x
      BY <1>1, <2>1, TrackedQuiet
    <2>3. PICK d \in Nat : d = p - k /\ k <= q /\ q - k = o + d
      BY <1>1, <2>2
    <2>4. PICK e \in Nat : e = q - k /\ e = o + d
      BY <2>3
    <2>5. CASE e # 0
      <3>1. Tracked(R, x, e, e)
        BY <2>2, TrackedAlone
      <3> QED
        BY <1>2, <2>3, <2>4, <2>5, <3>1 DEF Account
    <2>6. CASE e = 0
      <3>1. o = 0 /\ d = 0 /\ Settled(R, x, 0)
        BY <2>2, <2>4, <2>6 DEF Settled
      <3> QED
        BY <1>2, <2>3, <2>4, <2>6, <3>1 DEF Account
    <2> QED
      BY <2>5, <2>6
  <1>3. CASE q = 0
    <2>1. Settled(R, x, o) /\ (all => Settled(R, x, b))
      BY <1>1, <1>3 DEF Account
    <2>2. ~all
      BY <1>1, <2>1 DEF Settled
    <2> QED
      BY <1>3, <2>1, <2>2 DEF Account
  <1> QED
    BY <1>2, <1>3

-----------------------------------------------------------------------------
(* The fills on the way. *)

\* The weights w of the fills in u add up to t.
Summed(u, w, t) ==
    \E P \in [0 .. Len(u) -> Int] :
        /\ P[0] = 0 /\ P[Len(u)] = t
        /\ \A n \in 1 .. Len(u) : P[n] = P[n - 1] + w[u[n]]

\* What a fill means for order x, and for the position.
Share(x) == [f \in Fills |-> IF f.id = x THEN f.quantity ELSE 0]
Direction == [f \in Fills |-> Signed(f)]

\* What they are.
LEMMA WeightFacts ==
    ASSUME NEW f \in Fills, NEW x
    PROVE  /\ f.id \in Ids /\ f.quantity \in Nat \ {0}
           /\ Share(x)[f] = (IF f.id = x THEN f.quantity ELSE 0) /\ Share(x)[f] \in Nat
           /\ Direction[f] = Signed(f) /\ Direction[f] \in Int
           /\ Share(x) \in [Fills -> Int] /\ Direction \in [Fills -> Int]
  <1>1. \A g \in Fills : g.id \in Ids /\ g.quantity \in Nat \ {0}
    BY DEF Fills
  <1>2. \A g \in Fills : Signed(g) \in Int
    BY <1>1 DEF Signed
  <1>3. Direction \in [Fills -> Int] /\ Direction[f] = Signed(f)
    BY <1>2 DEF Direction
  <1>4. Share(x) \in [Fills -> Int] /\ Share(x)[f] = IF f.id = x THEN f.quantity ELSE 0
    BY <1>1 DEF Share
  <1> QED
    BY <1>1, <1>2, <1>3, <1>4

\* A function that no step lowers.
LEMMA Rising ==
    ASSUME NEW V, NEW a \in Nat, NEW l \in Nat, a <= l, \A n \in a .. l : V[n] \in Int,
           \A n \in a + 1 .. l : V[n - 1] <= V[n]
    PROVE  V[a] <= V[l]
  <1> DEFINE T == {n \in a .. l : ~(V[a] <= V[n])}
  <1>1. T = {}
    <2>1. SUFFICES ASSUME T # {} PROVE FALSE
      OBVIOUS
    <2>2. PICK m \in T : \A i \in T : m <= i
      <3>1. T \subseteq Nat
        OBVIOUS
      <3> HIDE DEF T
      <3> QED
        BY <2>1, <3>1, LeastNat
    <2>3. m \in a .. l /\ ~(V[a] <= V[m]) /\ V[a] \in Int /\ V[m] \in Int
      OBVIOUS
    <2>4. m # a
      BY <2>3
    <2>5. m - 1 \in a .. l /\ m \in a + 1 .. l
      BY <2>3, <2>4
    <2>6. m - 1 \notin T
      BY <2>2, <2>3
    <2>7. V[a] <= V[m - 1] /\ V[m - 1] \in Int /\ V[m - 1] <= V[m]
      BY <2>5, <2>6
    <2> QED
      BY <2>3, <2>7
  <1>2. l \in a .. l
    OBVIOUS
  <1> QED
    BY <1>1, <1>2

\* No fill on the way.
LEMMA SumNone == ASSUME NEW w PROVE Summed(<<>>, w, 0)
  <1>1. Len(<<>>) = 0
    OBVIOUS
  <1>2. PICK P : P = [n \in 0 .. 0 |-> 0]
    OBVIOUS
  <1>3. P \in [0 .. 0 -> Int] /\ P[0] = 0 /\ \A n \in 1 .. 0 : FALSE
    BY <1>2
  <1> QED
    BY <1>1, <1>3 DEF Summed

\* One more fill.
LEMMA SumAppended ==
    ASSUME NEW u \in Seq(Fills), NEW w \in [Fills -> Int], NEW t, Summed(u, w, t),
           NEW f \in Fills
    PROVE  Summed(Append(u, f), w, t + w[f])
  <1>1. PICK l \in Nat : l = Len(u)
    BY LenProperties
  <1>2. PICK v : v = Append(u, f)
    OBVIOUS
  <1>3. Len(v) = l + 1 /\ v[l + 1] = f /\ \A n \in 1 .. l : v[n] = u[n]
    BY <1>1, <1>2, AppendProperties
  <1>4. PICK P \in [0 .. l -> Int] : /\ P[0] = 0 /\ P[l] = t
                                     /\ \A n \in 1 .. l : P[n] = P[n - 1] + w[u[n]]
    BY <1>1 DEF Summed
  <1>5. PICK k \in Int : k = w[f]
    OBVIOUS
  <1>6. PICK Q : Q = [n \in 0 .. l + 1 |-> IF n = l + 1 THEN P[l] + k ELSE P[n]]
    OBVIOUS
  <1>7. Q \in [0 .. l + 1 -> Int] /\ Q[l + 1] = P[l] + k /\ \A n \in 0 .. l : Q[n] = P[n]
    BY <1>6
  <1>8. ASSUME NEW n \in 1 .. l + 1 PROVE Q[n] = Q[n - 1] + w[v[n]]
    <2>1. CASE n = l + 1
      BY <2>1, <1>3, <1>5, <1>7
    <2>2. CASE n \in 1 .. l
      <3>1. n \in 0 .. l /\ n - 1 \in 0 .. l
        BY <2>2
      <3> QED
        BY <2>2, <3>1, <1>3, <1>4, <1>7
    <2>3. n = l + 1 \/ n \in 1 .. l
      OBVIOUS
    <2> QED
      BY <2>1, <2>2, <2>3
  <1>9. Q[0] = 0 /\ Q[l + 1] = t + w[f]
    BY <1>4, <1>5, <1>7
  <1>10. Summed(v, w, t + w[f])
    <2>1. Q \in [0 .. Len(v) -> Int] /\ Q[0] = 0 /\ Q[Len(v)] = t + w[f]
      BY <1>3, <1>7, <1>9
    <2>2. \A n \in 1 .. Len(v) : Q[n] = Q[n - 1] + w[v[n]]
      BY <1>3, <1>8
    <2> QED
      BY ONLY <2>1, <2>2, ZenonT(60) DEF Summed
  <1> QED
    BY ONLY <1>2, <1>10, ZenonT(60)

\* The first fill is heard of.
LEMMA SumHeard ==
    ASSUME NEW u \in Seq(Fills), NEW w \in [Fills -> Int], NEW t \in Int, Summed(u, w, t),
           u # <<>>
    PROVE  Summed(Tail(u), w, t - w[Head(u)])
  <1>1. PICK l \in Nat : Len(u) = l + 1
    <2>1. Len(u) \in Nat /\ Len(u) > 0
      BY Parted
    <2> QED
      BY <2>1
  <1>2. PICK v : v = Tail(u)
    OBVIOUS
  <1>3. Len(v) = l /\ \A n \in 1 .. l : v[n] = u[n + 1]
    BY <1>1, <1>2, HeadTailProperties
  <1>4. PICK P \in [0 .. l + 1 -> Int] : /\ P[0] = 0 /\ P[l + 1] = t
                                     /\ \A n \in 1 .. l + 1 : P[n] = P[n - 1] + w[u[n]]
    BY <1>1 DEF Summed
  <1>5. PICK k \in Int : k = w[Head(u)] /\ P[1] = k
    <2>1. Head(u) \in Fills /\ Head(u) = u[1]
      BY Parted
    <2>2. PICK k \in Int : k = w[Head(u)]
      BY <2>1
    <2>3. 1 \in 1 .. l + 1 /\ 1 - 1 = 0
      OBVIOUS
    <2>4. P[1] = P[0] + k
      BY <2>1, <2>2, <2>3, <1>4
    <2> QED
      BY <2>2, <2>4, <1>4
  <1>6. PICK Q : Q = [n \in 0 .. l |-> P[n + 1] - k]
    OBVIOUS
  <1>7. Q \in [0 .. l -> Int] /\ \A n \in 0 .. l : Q[n] = P[n + 1] - k
    BY <1>6, SMTT(60)
  <1>8. ASSUME NEW n \in 1 .. l PROVE Q[n] = Q[n - 1] + w[v[n]]
    <2>1. n \in 0 .. l /\ n - 1 \in 0 .. l /\ n + 1 \in 1 .. l + 1 /\ (n + 1) - 1 = n
          /\ (n - 1) + 1 = n
      OBVIOUS
    <2>2. Q[n] = P[n + 1] - k /\ Q[n - 1] = P[n] - k /\ v[n] = u[n + 1]
      BY <2>1, <1>3, <1>7
    <2>3. P[n + 1] = P[n] + w[u[n + 1]]
      BY <2>1, <1>4
    <2>4. u[n + 1] \in Fills
      BY <2>1, <1>1, ElementOfSeq
    <2>5. PICK a \in Int, d \in Int : a = P[n] /\ d = w[u[n + 1]]
      BY <2>1, <2>4, SMTT(60)
    <2>6. (a + d) - k = (a - k) + d
      BY <2>5, SMTT(60)
    <2> QED
      BY <2>2, <2>3, <2>5, <2>6
  <1>9. Q[0] = 0 /\ Q[l] = t - k
    <2>1. 0 \in 0 .. l /\ l \in 0 .. l /\ 0 + 1 = 1 /\ k - k = 0
      OBVIOUS
    <2>2. Q[0] = P[0 + 1] - k /\ Q[l] = P[l + 1] - k
      BY <2>1, <1>7
    <2> QED
      BY <2>1, <2>2, <1>4, <1>5
  <1> QED
    BY <1>2, <1>3, <1>5, <1>7, <1>8, <1>9, ZenonT(60) DEF Summed

\* Of an order without a fill on the way nothing is owed.
LEMMA OwedNone ==
    ASSUME NEW u \in Seq(Fills), NEW x, NEW t, Summed(u, Share(x), t),
           \A f \in ToSet(u) : f.id # x
    PROVE  t = 0
  <1>1. PICK l \in Nat : l = Len(u)
    BY LenProperties
  <1>2. PICK P \in [0 .. l -> Int] : /\ P[0] = 0 /\ P[l] = t
                                     /\ \A n \in 1 .. l : P[n] = P[n - 1] + Share(x)[u[n]]
    BY <1>1 DEF Summed
  <1>3. ASSUME NEW n \in 1 .. l PROVE P[n] = P[n - 1]
    <2>1. u[n] \in Fills /\ u[n] \in ToSet(u)
      BY <1>1, ElementOfSeq, LenProperties DEF ToSet
    <2>2. Share(x)[u[n]] = 0
      BY <2>1, WeightFacts
    <2>3. n - 1 \in 0 .. l
      OBVIOUS
    <2> QED
      BY <2>2, <2>3, <1>2
  <1>4. PICK a \in Nat : a = 0
    OBVIOUS
  <1>5. a <= l /\ \A n \in a + 1 .. l : P[n] = P[n - 1]
    BY <1>3, <1>4
  <1>6. P[l] = P[a]
    BY ONLY <1>5, Constant, a \in Nat, l \in Nat
  <1> QED
    BY <1>2, <1>4, <1>6

\* What is owed of an order is at least the first fill of it.
LEMMA OwedSome ==
    ASSUME NEW u \in Seq(Fills), NEW x, NEW t \in Nat, Summed(u, Share(x), t), u # <<>>
    PROVE  Share(x)[Head(u)] \in Nat /\ Share(x)[Head(u)] <= t
  <1>1. PICK l \in Nat : l = Len(u) /\ l > 0
    BY Parted
  <1>2. PICK P \in [0 .. l -> Int] : /\ P[0] = 0 /\ P[l] = t
                                     /\ \A n \in 1 .. l : P[n] = P[n - 1] + Share(x)[u[n]]
    BY <1>1 DEF Summed
  <1>3. ASSUME NEW n \in 1 .. l PROVE P[n - 1] <= P[n] /\ Share(x)[u[n]] \in Nat
    <2>1. u[n] \in Fills
      BY <1>1, ElementOfSeq
    <2>2. PICK k \in Nat : k = Share(x)[u[n]]
      BY <2>1, WeightFacts
    <2>3. n - 1 \in 0 .. l
      OBVIOUS
    <2> QED
      BY <2>2, <2>3, <1>2, SMTT(60)
  <1>4. PICK a \in Nat : a = 1
    OBVIOUS
  <1>5. a <= l /\ (\A n \in a .. l : P[n] \in Int) /\ \A n \in a + 1 .. l : P[n - 1] <= P[n]
    BY ONLY <1>1, <1>3, <1>4, SMTT(60)
  <1>6. P[a] <= P[l]
    BY ONLY <1>5, Rising, a \in Nat, l \in Nat
  <1>7. Head(u) = u[1] /\ 1 \in 1 .. l /\ 1 - 1 = 0
    BY <1>1
  <1>8. P[1] = Share(x)[Head(u)] /\ Share(x)[Head(u)] \in Nat
    BY <1>2, <1>3, <1>7
  <1> QED
    BY <1>2, <1>4, <1>6, <1>8

\* A fill on the way is owed.
LEMMA OwedAny ==
    ASSUME NEW u \in Seq(Fills), NEW x, NEW t \in Int, Summed(u, Share(x), t), t # 0
    PROVE  \E f \in ToSet(u) : f.id = x
  BY OwedNone

\* Unheard is the sum of what the fills on the way mean for the position.
LEMMA UnheardIs ==
    ASSUME NEW t, update_buffer \in Seq(Fills), Summed(update_buffer, Direction, t)
    PROVE  Unheard = t
  <1> DEFINE u == update_buffer
             E(g) == g = [n \in 0 .. Len(u) |-> IF n = 0 THEN 0 ELSE g[n - 1] + Signed(u[n])]
  <1>1. PICK l \in Nat : l = Len(u)
    BY LenProperties
  <1>2. PICK P \in [0 .. l -> Int] : /\ P[0] = 0 /\ P[l] = t
                                     /\ \A n \in 1 .. l : P[n] = P[n - 1] + Direction[u[n]]
    BY <1>1 DEF Summed
  <1>3. \A n \in 1 .. l : P[n] = P[n - 1] + Signed(u[n])
    <2>1. ASSUME NEW n \in 1 .. l PROVE P[n] = P[n - 1] + Signed(u[n])
      <3>1. u[n] \in Fills
        BY <1>1, ElementOfSeq
      <3>2. Direction[u[n]] = Signed(u[n])
        BY <3>1, WeightFacts
      <3> QED
        BY <3>2, <1>2
    <2> QED
      BY <2>1
  <1>4. \A n \in 0 .. l : P[n] = IF n = 0 THEN 0 ELSE P[n - 1] + Signed(u[n])
    <2>1. \A n \in 0 .. l : n = 0 \/ n \in 1 .. l
      OBVIOUS
    <2> QED
      BY <2>1, <1>2, <1>3
  <1>5. E(P)
    <2>1. P = [n \in 0 .. l |-> P[n]]
      BY <1>2
    <2> QED
      BY <2>1, <1>1, <1>4
  <1>6. PICK g : g = CHOOSE y : E(y)
    OBVIOUS
  <1>7. E(g)
    <2> HIDE DEF E
    <2> QED
      BY <1>5, <1>6
  <1>8. Unheard = g[Len(u)]
    BY <1>6 DEF Unheard
  <1>9. \A n \in 0 .. l : g[n] = IF n = 0 THEN 0 ELSE g[n - 1] + Signed(u[n])
    BY <1>1, <1>7
  <1>10. \A n \in 0 .. l : g[n] = P[n]
    <2> DEFINE T == {n \in 0 .. l : g[n] # P[n]}
    <2>1. SUFFICES ASSUME T # {} PROVE FALSE
      OBVIOUS
    <2>2. PICK m \in T : \A i \in T : m <= i
      <3>1. T \subseteq Nat
        OBVIOUS
      <3> HIDE DEF T
      <3> QED
        BY <2>1, <3>1, LeastNat
    <2>3. m \in 0 .. l /\ g[m] # P[m]
      OBVIOUS
    <2>4. m # 0
      BY <2>3, <1>4, <1>9
    <2>5. m - 1 \in 0 .. l /\ m - 1 \notin T
      BY <2>2, <2>3, <2>4
    <2>6. g[m - 1] = P[m - 1]
      BY <2>5
    <2> QED
      BY <2>3, <2>4, <2>6, <1>4, <1>9
  <1> QED
    BY <1>1, <1>2, <1>8, <1>10

-----------------------------------------------------------------------------
(* The strategy's operators and the accounts. *)

\* The quantity the strategy believes each order to have.
Quotes(m) ==
    [x \in Ids |-> IF m.buy.status = "Placed" /\ m.buy.id = x THEN m.buy.quantity
                   ELSE IF m.sell.status = "Placed" /\ m.sell.id = x THEN m.sell.quantity
                   ELSE 0]

\* Every order has got its number.
Numbered(m) ==
    /\ \A x \in Ids : Quotes(m)[x] # 0 => x < m.next_id
    /\ \A r \in ToSet(m.orders) : r.id < m.next_id

\* Every account is as good with c as it was with m.
Kept(m, c) ==
    \A T \in Seq(Requests), x \in Ids, o \in Nat, p \in Nat, all \in BOOLEAN :
        Account(T \o m.orders, x, o, p, Quotes(m)[x], all)
          => Account(T \o c.orders, x, o, p, Quotes(c)[x], all)

\* A change of the strategy's state that creates no order.
Moved(m, c) ==
    /\ MakerOK(c) /\ Kept(m, c) /\ (Numbered(m) => Numbered(c))
    /\ c.next_id = m.next_id /\ c.net = m.net

\* The quote of a side, which was in place, has the quantity v now, if any.
OneChanged(a, b, v) ==
    a.status = "Placed" /\ b.id = a.id /\ v = IF b.status = "Placed" THEN b.quantity ELSE 0

\* The same, for a side given by name; the other side stays.
SideChanged(m, c, side, v) ==
    IF side = "buy" THEN OneChanged(m.buy, c.buy, v) /\ c.sell = m.sell
                    ELSE OneChanged(m.sell, c.sell, v) /\ c.buy = m.buy

\* An order that is believed placed is a quote of one side.
LEMMA QuoteFacts ==
    ASSUME NEW m, MakerOK(m)
    PROVE  /\ Quotes(m) \in [Ids -> Nat]
           /\ \A side \in Sides : Placed(m, side) =>
                /\ m[side].id \in Ids /\ SideOf(m[side].id) = side
                /\ Quotes(m)[m[side].id] = m[side].quantity /\ m[side].quantity > 0
           /\ \A x \in Ids : Quotes(m)[x] # 0 =>
                \E side \in Sides : Placed(m, side) /\ m[side].id = x
  <1>1. /\ m.buy \in Orders /\ m.sell \in Orders /\ QuoteOK(m.buy, "buy")
        /\ QuoteOK(m.sell, "sell")
    BY MakerFacts DEF MakerOK
  <1>2. m.buy.quantity \in Nat /\ m.sell.quantity \in Nat
    BY <1>1 DEF Orders
  <1>3. Quotes(m) \in [Ids -> Nat]
    BY <1>2 DEF Quotes
  <1>4. ASSUME m.buy.status = "Placed"
        PROVE  /\ m.buy.id \in Ids /\ SideOf(m.buy.id) = "buy" /\ m.buy.quantity > 0
               /\ Quotes(m)[m.buy.id] = m.buy.quantity
    BY <1>1, <1>4 DEF QuoteOK, Quotes
  <1>5. ASSUME m.sell.status = "Placed"
        PROVE  /\ m.sell.id \in Ids /\ SideOf(m.sell.id) = "sell" /\ m.sell.quantity > 0
               /\ Quotes(m)[m.sell.id] = m.sell.quantity
    <2>1. m.sell.id \in Ids /\ SideOf(m.sell.id) = "sell" /\ m.sell.quantity > 0
      BY <1>1, <1>5 DEF QuoteOK
    <2>2. ~(m.buy.status = "Placed" /\ m.buy.id = m.sell.id)
      BY <2>1, <1>4
    <2> QED
      BY <2>1, <2>2, <1>5 DEF Quotes
  <1>6. ASSUME NEW x \in Ids, Quotes(m)[x] # 0
        PROVE  \E side \in Sides : Placed(m, side) /\ m[side].id = x
    <2>1. \/ m.buy.status = "Placed" /\ m.buy.id = x
          \/ m.sell.status = "Placed" /\ m.sell.id = x
      BY <1>6 DEF Quotes
    <2>2. "buy" \in Sides /\ "sell" \in Sides
      BY DEF Sides
    <2> QED
      BY <2>1, <2>2 DEF Placed
  <1>7. ASSUME NEW side \in Sides, Placed(m, side)
        PROVE  /\ m[side].id \in Ids /\ SideOf(m[side].id) = side
               /\ Quotes(m)[m[side].id] = m[side].quantity /\ m[side].quantity > 0
    BY <1>4, <1>5, <1>7 DEF Sides, Placed
  <1> QED
    BY <1>3, <1>6, <1>7

\* A change of one quote.
LEMMA QuotesChanged ==
    ASSUME NEW m, MakerOK(m), NEW c, MakerOK(c), NEW side \in Sides, NEW v \in Nat,
           SideChanged(m, c, side, v)
    PROVE  /\ m[side].id \in Ids /\ Quotes(c)[m[side].id] = v
           /\ \A x \in Ids : x # m[side].id => Quotes(c)[x] = Quotes(m)[x]
  <1>1. /\ QuoteOK(m.buy, "buy") /\ QuoteOK(m.sell, "sell")
        /\ QuoteOK(c.buy, "buy") /\ QuoteOK(c.sell, "sell")
    BY DEF MakerOK
  <1>2. CASE side = "buy"
    <2>1. /\ m.buy.status = "Placed" /\ c.buy.id = m.buy.id /\ c.sell = m.sell
          /\ v = IF c.buy.status = "Placed" THEN c.buy.quantity ELSE 0
      BY <1>2 DEF SideChanged, OneChanged
    <2>2. m.buy.id \in Ids /\ SideOf(m.buy.id) = "buy"
      BY <1>1, <2>1 DEF QuoteOK
    <2>3. ~(m.sell.status = "Placed" /\ m.sell.id = m.buy.id)
      BY <1>1, <2>2 DEF QuoteOK
    <2>4. Quotes(c)[m.buy.id] = v
      BY <2>1, <2>2, <2>3 DEF Quotes
    <2>5. \A x \in Ids : x # m.buy.id => Quotes(c)[x] = Quotes(m)[x]
      BY <2>1 DEF Quotes
    <2> QED
      BY <1>2, <2>2, <2>4, <2>5
  <1>3. CASE side = "sell"
    <2>1. /\ m.sell.status = "Placed" /\ c.sell.id = m.sell.id /\ c.buy = m.buy
          /\ v = IF c.sell.status = "Placed" THEN c.sell.quantity ELSE 0
      BY <1>3 DEF SideChanged, OneChanged
    <2>2. m.sell.id \in Ids /\ SideOf(m.sell.id) = "sell"
      BY <1>1, <2>1 DEF QuoteOK
    <2>3. ~(m.buy.status = "Placed" /\ m.buy.id = m.sell.id)
      BY <1>1, <2>2 DEF QuoteOK
    <2>4. Quotes(c)[m.sell.id] = v
      BY <2>1, <2>2, <2>3 DEF Quotes
    <2>5. \A x \in Ids : x # m.sell.id => Quotes(c)[x] = Quotes(m)[x]
      BY <2>1 DEF Quotes
    <2> QED
      BY <1>3, <2>2, <2>4, <2>5
  <1> QED
    BY <1>2, <1>3 DEF Sides

\* Nothing changes.
LEMMA MovedNot == ASSUME NEW m, MakerOK(m) PROVE Moved(m, m)
  BY DEF Moved, Kept

\* One change after another.
LEMMA MovedTwice ==
    ASSUME NEW m, NEW d, NEW c, Moved(m, d), Moved(d, c)
    PROVE  Moved(m, c)
  <1>1. Kept(m, d) /\ Kept(d, c)
    BY DEF Moved
  <1>2. Kept(m, c)
    BY ONLY <1>1 DEF Kept
  <1> QED
    BY <1>2 DEF Moved

\* A request about a quote in place is queued: a cancel, and the quote is gone, or
\* an update, and it has its new quantity.
Staged(m, c, side, r, v) ==
    /\ MakerOK(m) /\ MakerOK(c) /\ side \in Sides /\ v \in Nat
    /\ SideChanged(m, c, side, v) /\ r \in Requests /\ r.id = m[side].id
    /\ c.orders = Append(m.orders, r) /\ c.next_id = m.next_id /\ c.net = m.net
    /\ \/ r.type = "Cancel" /\ v = 0
       \/ r.type = "Update" /\ v = r.quantity /\ v > 0 /\ r.previous = m[side].quantity

\* Such a request keeps every account.
LEMMA StagedMoves ==
    ASSUME NEW m, NEW c, NEW side, NEW r, NEW v, Staged(m, c, side, r, v)
    PROVE  Moved(m, c)
  <1>1. /\ MakerOK(m) /\ MakerOK(c) /\ side \in Sides /\ v \in Nat
        /\ SideChanged(m, c, side, v) /\ r \in Requests /\ r.id = m[side].id
        /\ c.orders = Append(m.orders, r) /\ c.next_id = m.next_id /\ c.net = m.net
    BY DEF Staged
  <1>2. \/ r.type = "Cancel" /\ v = 0
        \/ r.type = "Update" /\ v \in Nat \ {0} /\ v = r.quantity /\ r.previous = m[side].quantity
    BY <1>1 DEF Staged
  <1>3. Placed(m, side)
    BY <1>1 DEF SideChanged, OneChanged, Sides, Placed
  <1>4. /\ r.id \in Ids /\ Quotes(m)[r.id] = m[side].quantity /\ m[side].quantity > 0
        /\ Quotes(m) \in [Ids -> Nat] /\ Quotes(c) \in [Ids -> Nat]
    BY <1>1, <1>3, QuoteFacts
  <1>5. /\ Quotes(c)[r.id] = v /\ \A x \in Ids : x # r.id => Quotes(c)[x] = Quotes(m)[x]
    BY <1>1, QuotesChanged
  <1>6. m.orders \in Seq(Requests)
    BY <1>1, MakerFacts
  <1>7. ASSUME NEW T \in Seq(Requests), NEW x \in Ids, NEW o \in Nat, NEW p \in Nat,
               NEW all \in BOOLEAN, Account(T \o m.orders, x, o, p, Quotes(m)[x], all)
        PROVE  Account(T \o c.orders, x, o, p, Quotes(c)[x], all)
    <2>1. PICK R : R = T \o m.orders
      OBVIOUS
    <2>2. PICK S : S = T \o c.orders
      OBVIOUS
    <2>3. Extended(R, r, S)
      BY <2>1, <2>2, <1>1, <1>6, AppendExtends
    <2>4. PICK q \in Nat : q = Quotes(m)[x]
      BY <1>4
    <2>5. Account(R, x, o, p, q, all)
      BY <2>1, <2>4, <1>7
    <2>6. CASE x # r.id
      <3>1. Account(S, x, o, p, q, all)
        BY <2>3, <2>5, <2>6, AccountOther
      <3> QED
        BY <2>2, <2>4, <2>6, <3>1, <1>5
    <2>7. CASE x = r.id /\ r.type = "Cancel" /\ v = 0
      <3>1. Account(S, x, o, p, 0, all)
        BY <2>3, <2>7, AccountCancel
      <3> QED
        BY <2>2, <2>7, <3>1, <1>5
    <2>8. CASE x = r.id /\ r.type = "Update" /\ v \in Nat \ {0} /\ v = r.quantity
               /\ r.previous = m[side].quantity
      <3>1. q > 0 /\ r.previous = q
        BY <2>4, <2>8, <1>4
      <3>2. Account(S, x, o, p, v, all)
        BY <2>3, <2>5, <2>8, <3>1, AccountUpdate
      <3> QED
        BY <2>2, <2>8, <3>2, <1>5
    <2> QED
      BY <2>6, <2>7, <2>8, <1>2
  <1>8. Kept(m, c)
    BY ONLY <1>7 DEF Kept
  <1>9. ASSUME Numbered(m) PROVE Numbered(c)
    <2>1. r.id < m.next_id
      BY <1>4, <1>9 DEF Numbered
    <2>2. ToSet(c.orders) = ToSet(m.orders) \cup {r}
      BY <1>1, <1>6, Appended
    <2>3. \A x \in Ids : Quotes(c)[x] # 0 => x < c.next_id
      BY <2>1, <1>1, <1>5, <1>9 DEF Numbered
    <2>4. \A e \in ToSet(c.orders) : e.id < c.next_id
      BY <2>1, <2>2, <1>1, <1>9 DEF Numbered
    <2> QED
      BY <2>3, <2>4 DEF Numbered
  <1> QED
    BY <1>1, <1>8, <1>9 DEF Moved

\* Nothing but a cancel follows an update of the same order in the buffer.
Solo(s) ==
    \A i \in 1 .. Len(s), j \in 1 .. Len(s) :
        i < j /\ s[i].type = "Update" /\ s[j].id = s[i].id => s[j].type = "Cancel"

\* The buffer holds no update.
NoUpdates(s) == \A e \in ToSet(s) : e.type # "Update"

\* One more request.
LEMMA SoloAppended ==
    ASSUME NEW s \in Seq(Requests), NEW r \in Requests, Solo(s),
           r.type = "Cancel" \/ \A e \in ToSet(s) : e.type = "Update" => e.id # r.id
    PROVE  Solo(Append(s, r))
  <1>1. PICK l \in Nat : l = Len(s) /\ 1 .. l = DOMAIN s
    BY LenProperties
  <1>2. PICK t : t = Append(s, r)
    OBVIOUS
  <1>3. Len(t) = l + 1 /\ t[l + 1] = r /\ \A n \in 1 .. l : t[n] = s[n]
    BY <1>1, <1>2, AppendProperties
  <1>4. ASSUME NEW i \in 1 .. l + 1, NEW j \in 1 .. l + 1, i < j, t[i].type = "Update",
               t[j].id = t[i].id
        PROVE  t[j].type = "Cancel"
    <2>1. i \in 1 .. l /\ t[i] = s[i]
      BY <1>3, <1>4
    <2>2. CASE j \in 1 .. l
      BY <2>1, <2>2, <1>1, <1>3, <1>4 DEF Solo
    <2>3. CASE j = l + 1
      <3>1. s[i] \in ToSet(s)
        BY <2>1, <1>1 DEF ToSet
      <3> QED
        BY <2>1, <2>3, <3>1, <1>3, <1>4
    <2>4. j \in 1 .. l \/ j = l + 1
      OBVIOUS
    <2> QED
      BY <2>2, <2>3, <2>4
  <1> QED
    BY <1>2, <1>3, <1>4 DEF Solo

\* A buffer without updates, and the empty one.
LEMMA SoloNone ==
    ASSUME NEW s \in Seq(Requests), NoUpdates(s)
    PROVE  Solo(s)
  <1>1. \A i \in 1 .. Len(s) : s[i] \in ToSet(s)
    BY LenProperties DEF ToSet
  <1> QED
    BY <1>1 DEF NoUpdates, Solo

\* The empty buffer holds no update.
LEMMA NoUpdatesEmpty == NoUpdates(<<>>) /\ Solo(<<>>)
  <1>1. ToSet(<<>>) = {} /\ <<>> \in Seq(Requests)
    BY EmptySeq DEF ToSet
  <1> QED
    BY <1>1, SoloNone DEF NoUpdates

\* The buffer without its first request.
LEMMA SoloTail ==
    ASSUME NEW s \in Seq(Requests), s # <<>>, Solo(s)
    PROVE  Solo(Tail(s))
  <1>1. PICK l \in Nat : Len(s) = l + 1
    <2>1. Len(s) \in Nat /\ Len(s) > 0
      BY Parted
    <2> QED
      BY <2>1
  <1>2. PICK t : t = Tail(s)
    OBVIOUS
  <1>3. Len(t) = l /\ \A n \in 1 .. l : t[n] = s[n + 1]
    BY <1>1, <1>2, HeadTailProperties
  <1>4. ASSUME NEW i \in 1 .. l, NEW j \in 1 .. l, i < j, t[i].type = "Update", t[j].id = t[i].id
        PROVE  t[j].type = "Cancel"
    <2>1. i + 1 \in 1 .. l + 1 /\ j + 1 \in 1 .. l + 1 /\ i + 1 < j + 1
      BY <1>4
    <2> QED
      BY <2>1, <1>1, <1>3, <1>4 DEF Solo
  <1> QED
    BY <1>2, <1>3, <1>4 DEF Solo

\* What cancels leave of the buffer.
OnlyCancels(m, c) ==
    /\ Solo(m.orders) => Solo(c.orders)
    /\ NoUpdates(m.orders) => NoUpdates(c.orders)

\* queue_cancel
LEMMA CancelMoves ==
    ASSUME NEW m, MakerOK(m), NEW side \in Sides,
           Placed(m, side) => Len(m.orders) < STRATEGY_ORDER_BUFFER_SIZE,
           NEW c, c = queue_cancel(m, side)
    PROVE  Moved(m, c) /\ OnlyCancels(m, c)
  <1>1. CASE ~Placed(m, side)
    <2>1. c = m
      BY <1>1 DEF queue_cancel
    <2> QED
      BY <2>1, MovedNot DEF OnlyCancels
  <1>2. CASE Placed(m, side)
    <2>1. PICK r : r = CancelRequest(side, m[side])
      OBVIOUS
    <2>2. MakerOK(c) /\ c.next_id = m.next_id /\ c.orders = Append(m.orders, r)
      BY <1>2, <2>1, CancelOne
    <2>3. c = [m EXCEPT ![side].status = "NotPlaced", !.orders = Append(@, r)]
      BY <1>2, <2>1, Zenon DEF queue_cancel
    <2>4. m \in Makers /\ m.buy \in Orders /\ m.sell \in Orders /\ m.orders \in Seq(Requests)
      BY MakerFacts DEF MakerOK
    <2>5. SideChanged(m, c, side, 0) /\ c.net = m.net
      <3>1. CASE side = "buy"
        <4>1. /\ c.buy = [m.buy EXCEPT !.status = "NotPlaced"] /\ c.sell = m.sell
              /\ c.net = m.net /\ m.buy.status = "Placed"
          BY <1>2, <2>3, <2>4, <3>1, Zenon DEF Makers, Placed
        <4>2. c.buy.status = "NotPlaced" /\ c.buy.id = m.buy.id
          BY <4>1, <2>4 DEF Orders
        <4> QED
          BY <3>1, <4>1, <4>2 DEF SideChanged, OneChanged
      <3>2. CASE side = "sell"
        <4>1. /\ c.sell = [m.sell EXCEPT !.status = "NotPlaced"] /\ c.buy = m.buy
              /\ c.net = m.net /\ m.sell.status = "Placed"
          BY <1>2, <2>3, <2>4, <3>2, Zenon DEF Makers, Placed
        <4>2. c.sell.status = "NotPlaced" /\ c.sell.id = m.sell.id
          BY <4>1, <2>4 DEF Orders
        <4> QED
          BY <3>2, <4>1, <4>2 DEF SideChanged, OneChanged
      <3> QED
        BY <3>1, <3>2 DEF Sides
    <2>6. /\ r \in Requests /\ r.type = "Cancel" /\ r.id = m[side].id
      <3>1. m[side].id \in Ids /\ SideOf(m[side].id) = side
        BY <1>2, QuoteFacts
      <3> QED
        BY <2>1, <3>1 DEF CancelRequest, Requests, Request
    <2>7. Staged(m, c, side, r, 0)
      BY <2>2, <2>5, <2>6 DEF Staged
    <2>8. Moved(m, c)
      BY <2>7, StagedMoves
    <2>9. Solo(m.orders) => Solo(c.orders)
      BY <2>2, <2>4, <2>6, SoloAppended
    <2>10. NoUpdates(m.orders) => NoUpdates(c.orders)
      <3>1. ToSet(c.orders) = ToSet(m.orders) \cup {r}
        BY <2>2, <2>4, <2>6, Appended
      <3> QED
        BY <2>6, <3>1 DEF NoUpdates
    <2> QED
      BY <2>8, <2>9, <2>10 DEF OnlyCancels
  <1> QED
    BY <1>1, <1>2

\* queue_cancel_orders
LEMMA CancelAllMoves ==
    ASSUME NEW m, MakerOK(m), NEW c, c = queue_cancel_orders(m)
    PROVE  Moved(m, c) /\ OnlyCancels(m, c)
  <1>0. /\ Len(m.orders) \in Nat /\ PlacedCount(m) \in {0, 1, 2}
        /\ STRATEGY_ORDER_BUFFER_SIZE \in Nat /\ STRATEGY_ORDER_BUFFER_SIZE >= 4
    BY MakerFacts
  <1>1. CASE available(m) < PlacedCount(m)
    <2>1. c = m
      BY <1>1 DEF queue_cancel_orders
    <2> QED
      BY <2>1, MovedNot DEF OnlyCancels
  <1>2. CASE ~(available(m) < PlacedCount(m))
    <2>1. PICK d : d = queue_cancel(m, "buy")
      OBVIOUS
    <2>2. c = queue_cancel(d, "sell")
      BY <1>2, <2>1 DEF queue_cancel_orders
    <2>3. Len(m.orders) + PlacedCount(m) <= STRATEGY_ORDER_BUFFER_SIZE
      BY <1>0, <1>2 DEF available
    <2>4. Placed(m, "buy") => Len(m.orders) < STRATEGY_ORDER_BUFFER_SIZE
      <3>1. Placed(m, "buy") => PlacedCount(m) >= 1
        BY DEF Placed, PlacedCount
      <3> QED
        BY <1>0, <2>3, <3>1
    <2>5. MakerOK(d) /\ Load(d) = Load(m)
      BY <2>1, <2>4, CancelOne DEF Sides
    <2>6. Moved(m, d) /\ OnlyCancels(m, d)
      BY <2>1, <2>4, CancelMoves DEF Sides
    <2>7. Len(d.orders) \in Nat /\ PlacedCount(d) \in {0, 1, 2}
      BY <2>5, MakerFacts
    <2>8. Placed(d, "sell") => Len(d.orders) < STRATEGY_ORDER_BUFFER_SIZE
      <3>1. Placed(d, "sell") => PlacedCount(d) >= 1
        BY DEF Placed, PlacedCount
      <3> QED
        BY <1>0, <2>3, <2>5, <2>7, <3>1 DEF Load
    <2>9. Moved(d, c) /\ OnlyCancels(d, c)
      BY <2>2, <2>5, <2>8, CancelMoves DEF Sides
    <2> QED
      BY <2>6, <2>9, MovedTwice DEF OnlyCancels
  <1> QED
    BY <1>1, <1>2

\* queue_quantity_update
LEMMA ResizeMoves ==
    ASSUME NEW m, MakerOK(m), NEW side \in Sides, NEW q \in Nat \ {0},
           NEW c, c = queue_quantity_update(m, side, q)
    PROVE  /\ Moved(m, c)
           /\ \/ c.orders = m.orders
              \/ \E r \in Requests : SideOf(r.id) = side /\ c.orders = Append(m.orders, r)
  <1>0. MakerOK(c)
    BY QuantityUpdate
  <1>1. CASE ~Placed(m, side) \/ m[side].quantity = q \/ available(m) = 0
    <2>1. c = m
      BY <1>1 DEF queue_quantity_update
    <2> QED
      BY <2>1, MovedNot
  <1>2. CASE ~(~Placed(m, side) \/ m[side].quantity = q \/ available(m) = 0)
    <2>1. PICK r : r = UpdateRequest(side, m[side], q)
      OBVIOUS
    <2>3. c = [m EXCEPT ![side].quantity = q, !.orders = Append(@, r)] /\ Placed(m, side)
      BY <1>2, <2>1, Zenon DEF queue_quantity_update
    <2>4. m \in Makers /\ m.buy \in Orders /\ m.sell \in Orders /\ m.orders \in Seq(Requests)
      BY MakerFacts DEF MakerOK
    <2>5. /\ SideChanged(m, c, side, q) /\ c.net = m.net /\ c.next_id = m.next_id
          /\ c.orders = Append(m.orders, r)
      <3>1. CASE side = "buy"
        <4>1. /\ c.buy = [m.buy EXCEPT !.quantity = q] /\ c.sell = m.sell
              /\ c.net = m.net /\ m.buy.status = "Placed" /\ c.next_id = m.next_id
              /\ c.orders = Append(m.orders, r)
          BY <2>3, <2>4, <3>1, Zenon DEF Makers, Placed
        <4>2. c.buy.status = "Placed" /\ c.buy.id = m.buy.id /\ c.buy.quantity = q
          BY <4>1, <2>4 DEF Orders
        <4> QED
          BY <3>1, <4>1, <4>2 DEF SideChanged, OneChanged
      <3>2. CASE side = "sell"
        <4>1. /\ c.sell = [m.sell EXCEPT !.quantity = q] /\ c.buy = m.buy
              /\ c.net = m.net /\ m.sell.status = "Placed" /\ c.next_id = m.next_id
              /\ c.orders = Append(m.orders, r)
          BY <2>3, <2>4, <3>2, Zenon DEF Makers, Placed
        <4>2. c.sell.status = "Placed" /\ c.sell.id = m.sell.id /\ c.sell.quantity = q
          BY <4>1, <2>4 DEF Orders
        <4> QED
          BY <3>2, <4>1, <4>2 DEF SideChanged, OneChanged
      <3> QED
        BY <3>1, <3>2 DEF Sides
    <2>6. /\ r \in Requests /\ r.type = "Update" /\ r.id = m[side].id /\ r.quantity = q
          /\ r.previous = m[side].quantity /\ SideOf(r.id) = side
      <3>1. m[side].id \in Ids /\ SideOf(m[side].id) = side /\ m[side].quantity > 0
        BY <2>3, QuoteFacts, Zenon
      <3>2. m[side].quantity \in Nat
        BY <2>4 DEF Sides, Orders
      <3> QED
        BY <2>1, <3>1, <3>2 DEF UpdateRequest, Requests, Request
    <2>7. Staged(m, c, side, r, q)
      BY <2>5, <2>6, <1>0 DEF Staged
    <2>8. Moved(m, c)
      BY <2>7, StagedMoves
    <2> QED
      BY <2>5, <2>6, <2>8
  <1> QED
    BY <1>1, <1>2

\* rebalance_exposure: at most one update of each side.
LEMMA RebalanceMoves ==
    ASSUME NEW m, MakerOK(m), NEW c, c = rebalance_exposure(m)
    PROVE  Moved(m, c) /\ (m.orders = <<>> => Solo(c.orders))
  <1> DEFINE held == Distance(m.net, 0)
             imbalance == Smaller(held, MAX_ADDITIONAL_EXIT_QUANTITY)
             less == Larger(MIN_MARKET_MAKER_ORDER_QUANTITY,
                            MARKET_MAKER_ORDER_QUANTITY - imbalance)
             more == MARKET_MAKER_ORDER_QUANTITY + imbalance
             bid == IF m.net > 0 THEN less ELSE more
             offer == IF m.net > 0 THEN more ELSE less
  <1>0. m.net \in Int /\ m.orders \in Seq(Requests)
    BY MakerFacts
  <1>1. bid \in Nat \ {0} /\ offer \in Nat \ {0}
    <2>1. held \in Nat
      BY <1>0 DEF Distance
    <2>2. /\ MARKET_MAKER_ORDER_QUANTITY \in Nat \ {0}
          /\ MIN_MARKET_MAKER_ORDER_QUANTITY \in Nat \ {0}
          /\ MAX_ADDITIONAL_EXIT_QUANTITY \in Nat \ {0}
      BY MakerAssumption
    <2> HIDE DEF held
    <2>3. imbalance \in Nat
      BY <2>1, <2>2 DEF Smaller
    <2> HIDE DEF imbalance
    <2>4. less \in Nat \ {0} /\ more \in Nat \ {0}
      BY <2>2, <2>3 DEF Larger
    <2> HIDE DEF less, more
    <2> QED
      BY <2>4
  <1>2. CASE held < EXPOSURE_REBALANCE_THRESHOLD
    <2>1. c = m
      BY <1>2 DEF rebalance_exposure
    <2> QED
      BY <2>1, MovedNot, NoUpdatesEmpty
  <1>3. CASE ~(held < EXPOSURE_REBALANCE_THRESHOLD)
    <2>1. c = queue_quantity_update(queue_quantity_update(m, "buy", bid), "sell", offer)
      BY <1>3 DEF rebalance_exposure
    <2> HIDE DEF held, imbalance, less, more, bid, offer
    <2>2. PICK d : d = queue_quantity_update(m, "buy", bid)
      OBVIOUS
    <2>3. /\ Moved(m, d)
          /\ \/ d.orders = m.orders
             \/ \E r \in Requests : SideOf(r.id) = "buy" /\ d.orders = Append(m.orders, r)
      BY <1>1, <2>2, ResizeMoves DEF Sides
    <2>4. c = queue_quantity_update(d, "sell", offer)
      BY <2>1, <2>2
    <2>5. MakerOK(d)
      BY <2>3 DEF Moved
    <2>6. /\ Moved(d, c)
          /\ \/ c.orders = d.orders
             \/ \E r \in Requests : SideOf(r.id) = "sell" /\ c.orders = Append(d.orders, r)
      BY <1>1, <2>4, <2>5, ResizeMoves DEF Sides
    <2>7. Moved(m, c)
      BY <2>3, <2>6, MovedTwice
    <2>8. ASSUME m.orders = <<>> PROVE Solo(c.orders)
      <3>1. /\ d.orders \in Seq(Requests) /\ Solo(d.orders)
            /\ \A e \in ToSet(d.orders) : SideOf(e.id) = "buy"
        <4>1. CASE d.orders = m.orders
          <5>1. ToSet(<<>>) = {}
            BY DEF ToSet
          <5> QED
            BY <2>8, <4>1, <5>1, <1>0, NoUpdatesEmpty
        <4>2. CASE \E r \in Requests : SideOf(r.id) = "buy" /\ d.orders = Append(m.orders, r)
          <5>1. PICK r \in Requests : SideOf(r.id) = "buy" /\ d.orders = Append(m.orders, r)
            BY <4>2
          <5>2. PICK s : s = m.orders
            OBVIOUS
          <5>3. s \in Seq(Requests) /\ ToSet(s) = {} /\ Solo(s)
            BY <2>8, <5>2, <1>0, NoUpdatesEmpty DEF ToSet
          <5>4. Append(s, r) \in Seq(Requests) /\ ToSet(Append(s, r)) = ToSet(s) \cup {r}
            BY <5>3, Appended
          <5>5. Solo(Append(s, r))
            BY <5>3, SoloAppended
          <5> QED
            BY <5>1, <5>2, <5>3, <5>4, <5>5
        <4> QED
          BY <2>3, <4>1, <4>2
      <3>2. CASE c.orders = d.orders
        BY <3>1, <3>2
      <3>3. CASE \E r \in Requests : SideOf(r.id) = "sell" /\ c.orders = Append(d.orders, r)
        <4>1. PICK r \in Requests : SideOf(r.id) = "sell" /\ c.orders = Append(d.orders, r)
          BY <3>3
        <4>2. \A e \in ToSet(d.orders) : e.id # r.id
          BY <3>1, <4>1
        <4>3. Solo(Append(d.orders, r))
          BY <3>1, <4>2, SoloAppended
        <4> QED
          BY <4>1, <4>3
      <3> QED
        BY <2>6, <3>2, <3>3
    <2> QED
      BY <2>7, <2>8
  <1> QED
    BY <1>2, <1>3

\* What the strategy knows after a fill, before it rebalances: d is m with the
\* quantity n less for the order x, and n more, or less, in its count.
Counted(m, d, x, n) ==
    /\ MakerOK(d) /\ d.orders = m.orders /\ d.next_id = m.next_id
    /\ Quotes(d)[x] = Quotes(m)[x] - n
    /\ \A y \in Ids : y # x => Quotes(d)[y] = Quotes(m)[y]
    /\ d.net = IF SideOf(x) = "buy" THEN m.net + n ELSE m.net - n

\* update: the fill of an order it does not believe in is ignored, of another one
\* it counts what it believed to be open at most.
LEMMA FillCounted ==
    ASSUME NEW m, MakerOK(m), NEW fill \in Fills, NEW c, c = update(m, fill)
    PROVE  \/ Quotes(m)[fill.id] = 0 /\ c = m
           \/ /\ Quotes(m)[fill.id] # 0
              /\ \E d : /\ Counted(m, d, fill.id, Smaller(fill.quantity, Quotes(m)[fill.id]))
                        /\ Moved(d, c) /\ (m.orders = <<>> => Solo(c.orders))
  <1> DEFINE sides == {s \in {"buy", "sell"} : Placed(m, s) /\ m[s].id = fill.id}
             side == CHOOSE s \in sides : TRUE
             filled == Smaller(fill.quantity, m[side].quantity)
             left == m[side].quantity - filled
             d == [m EXCEPT !.net = IF side = "buy" THEN @ + filled ELSE @ - filled,
                            ![side].quantity = left,
                            ![side].status = IF left = 0 THEN "NotPlaced" ELSE @]
  <1>0. /\ m \in Makers /\ QuoteOK(m.buy, "buy") /\ QuoteOK(m.sell, "sell")
        /\ m.net \in Int /\ m.buy \in Orders /\ m.sell \in Orders
        /\ fill.id \in Ids /\ fill.quantity \in Nat \ {0} /\ Sides = {"buy", "sell"}
    BY MakerFacts DEF MakerOK, Fills, Sides
  <1>1. CASE sides = {}
    <2>1. c = m
      BY <1>1 DEF update
    <2>2. Quotes(m)[fill.id] = 0
      BY <1>0, <1>1, QuoteFacts
    <2> QED
      BY <2>1, <2>2
  <1>2. CASE sides # {}
    <2>1. c = rebalance_exposure(d)
      BY <1>2 DEF update
    <2>2. side \in Sides /\ Placed(m, side) /\ m[side].id = fill.id
      BY <1>0, <1>2
    <2> HIDE DEF sides, side
    <2>3. /\ m[side].quantity \in Nat /\ Quotes(m)[fill.id] = m[side].quantity
          /\ SideOf(fill.id) = side /\ Quotes(m)[fill.id] # 0
      <3>1. m[side].quantity \in Nat
        BY <1>0, <2>2 DEF Orders
      <3> QED
        BY <2>2, <3>1, QuoteFacts
    <2>4. filled \in Nat /\ left \in Nat
      BY <1>0, <2>3 DEF Smaller
    <2>5. filled = Smaller(fill.quantity, Quotes(m)[fill.id])
      BY <2>3
    <2>6. left = Quotes(m)[fill.id] - filled
      BY <2>3
    <2> HIDE DEF filled, left
    <2>7. /\ MakerOK(d) /\ d.orders = m.orders /\ d.next_id = m.next_id
          /\ SideChanged(m, d, side, left)
          /\ d.net = IF side = "buy" THEN m.net + filled ELSE m.net - filled
      <3>1. CASE side = "buy"
        <4> DEFINE b == [m.buy EXCEPT !.quantity = left,
                                      !.status = IF left = 0 THEN "NotPlaced" ELSE @]
                   net == m.net + filled
        <4>1. d = Holding(m, b, m.sell, net)
          BY <1>0, <3>1 DEF Makers, Orders, Holding
        <4>2. /\ b \in Orders /\ b.price = m.buy.price /\ b.id = m.buy.id /\ b.quantity = left
              /\ b.status = "Placed" => m.buy.status = "Placed" /\ left # 0
              /\ left # 0 => b.status = m.buy.status
          BY <1>0, <2>4 DEF Orders, Statuses
        <4>3. Known(m, b, m.sell)
          BY <1>0, <2>4, <4>2 DEF Known, QuoteOK
        <4>4. net \in Int /\ m.buy.status = "Placed"
          BY <1>0, <2>2, <2>4, <3>1 DEF Placed
        <4>5. d.net = net /\ d.next_id = m.next_id
          BY <1>0, <4>1 DEF Holding, Makers
        <4>6. net = m.net + filled
          OBVIOUS
        <4> HIDE DEF b, net, d
        <4>7. MakerOK(d) /\ d.orders = m.orders /\ d.buy = b /\ d.sell = m.sell
          BY <4>1, <4>3, <4>4, Changed
        <4>8. OneChanged(m.buy, d.buy, left)
          BY <2>4, <4>2, <4>4, <4>7 DEF OneChanged
        <4> QED
          BY <3>1, <4>5, <4>6, <4>7, <4>8 DEF SideChanged
      <3>2. CASE side = "sell"
        <4> DEFINE o == [m.sell EXCEPT !.quantity = left,
                                       !.status = IF left = 0 THEN "NotPlaced" ELSE @]
                   net == m.net - filled
        <4>1. d = Holding(m, m.buy, o, net)
          BY <1>0, <3>2 DEF Makers, Orders, Holding
        <4>2. /\ o \in Orders /\ o.price = m.sell.price /\ o.id = m.sell.id /\ o.quantity = left
              /\ o.status = "Placed" => m.sell.status = "Placed" /\ left # 0
              /\ left # 0 => o.status = m.sell.status
          BY <1>0, <2>4 DEF Orders, Statuses
        <4>3. Known(m, m.buy, o)
          BY <1>0, <2>4, <4>2 DEF Known, QuoteOK
        <4>4. net \in Int /\ m.sell.status = "Placed"
          BY <1>0, <2>2, <2>4, <3>2 DEF Placed
        <4>5. d.net = net /\ d.next_id = m.next_id
          BY <1>0, <4>1 DEF Holding, Makers
        <4>6. net = m.net - filled
          OBVIOUS
        <4> HIDE DEF o, net, d
        <4>7. MakerOK(d) /\ d.orders = m.orders /\ d.sell = o /\ d.buy = m.buy
          BY <4>1, <4>3, <4>4, Changed
        <4>8. OneChanged(m.sell, d.sell, left)
          BY <2>4, <4>2, <4>4, <4>7 DEF OneChanged
        <4> QED
          BY <3>2, <4>5, <4>6, <4>7, <4>8 DEF SideChanged
      <3> QED
        BY <2>2, <3>1, <3>2 DEF Sides
    <2> HIDE DEF d
    <2>8. /\ Quotes(d)[fill.id] = left
          /\ \A y \in Ids : y # fill.id => Quotes(d)[y] = Quotes(m)[y]
      BY <2>2, <2>4, <2>7, QuotesChanged
    <2>9. Counted(m, d, fill.id, filled)
      BY <2>3, <2>6, <2>7, <2>8 DEF Counted
    <2>10. Moved(d, c) /\ (d.orders = <<>> => Solo(c.orders))
      BY <2>1, <2>7, RebalanceMoves
    <2> QED
      BY <2>3, <2>5, <2>7, <2>9, <2>10
  <1> QED
    BY <1>1, <1>2

\* c is m with what the request r said of its order undone.
Undone(m, r, c) ==
    /\ MakerOK(c) /\ c.orders = m.orders /\ c.next_id = m.next_id /\ c.net = m.net
    /\ Quotes(c)[r.id] = IF Quotes(m)[r.id] = 0 \/ r.type = "New" THEN 0 ELSE r.previous
    /\ \A y \in Ids : y # r.id => Quotes(c)[y] = Quotes(m)[y]

\* TakeBack: what a refused request said of its order is undone.
LEMMA BackQuotes ==
    ASSUME NEW m, MakerOK(m), NEW r \in Requests, r.type # "Cancel", NEW c, c = TakeBack(m, r)
    PROVE  Undone(m, r, c)
  <1>0. /\ m \in Makers /\ m.buy \in Orders /\ m.sell \in Orders /\ MakerOK(c)
        /\ c.orders = m.orders
    BY TakenBack, MakerFacts DEF MakerOK
  <1>1. /\ r.side \in Sides /\ r.previous \in Nat /\ r.type \in {"New", "Update"}
        /\ r.id \in Ids /\ SideOf(r.id) = r.side
        /\ r.type = "Update" => r.previous > 0
    BY DEF Requests, Request
  <1>2. CASE m[r.side].id # r.id
    <2>1. c = m
      BY <1>2 DEF TakeBack
    <2>2. Quotes(m)[r.id] = 0
      BY <1>1, <1>2, QuoteFacts
    <2> QED
      BY <2>1, <2>2, <1>0 DEF Undone
  <1>3. CASE m[r.side].id = r.id
    <2>1. c = IF r.type = "Update" THEN [m EXCEPT ![r.side].quantity = r.previous]
                                   ELSE [m EXCEPT ![r.side].status = "NotPlaced"]
      BY <1>3 DEF TakeBack
    <2>2. c.next_id = m.next_id /\ c.net = m.net
      BY <2>1, <1>0, <1>1 DEF Makers, Sides
    <2>3. /\ r.side = "buy" => c.sell = m.sell /\ c.buy.id = m.buy.id
                /\ (r.type = "Update" => c.buy.status = m.buy.status /\ c.buy.quantity = r.previous)
                /\ (r.type = "New" => c.buy.status = "NotPlaced")
          /\ r.side = "sell" => c.buy = m.buy /\ c.sell.id = m.sell.id
                /\ (r.type = "Update" => c.sell.status = m.sell.status /\ c.sell.quantity = r.previous)
                /\ (r.type = "New" => c.sell.status = "NotPlaced")
      BY <2>1, <1>0, SMTT(60) DEF Makers, Orders
    <2>4. CASE ~Placed(m, r.side)
      <3>1. \A y \in Ids : Quotes(c)[y] = Quotes(m)[y]
        <4>1. CASE r.side = "buy"
          <5>1. m.buy.status # "Placed" /\ c.buy.status # "Placed" /\ c.sell = m.sell
            BY <2>3, <2>4, <4>1, <1>1 DEF Placed
          <5> QED
            BY <5>1 DEF Quotes
        <4>2. CASE r.side = "sell"
          <5>1. m.sell.status # "Placed" /\ c.sell.status # "Placed" /\ c.buy = m.buy
            BY <2>3, <2>4, <4>2, <1>1 DEF Placed
          <5> QED
            BY <5>1 DEF Quotes
        <4> QED
          BY <4>1, <4>2, <1>1 DEF Sides
      <3>2. Quotes(m)[r.id] = 0
        <4>1. SUFFICES ASSUME Quotes(m)[r.id] # 0 PROVE FALSE
          OBVIOUS
        <4>2. PICK s \in Sides : Placed(m, s) /\ m[s].id = r.id
          BY <4>1, <1>1, QuoteFacts
        <4>3. SideOf(r.id) = s
          BY <4>2, QuoteFacts
        <4> QED
          BY <2>4, <4>2, <4>3, <1>1
      <3> QED
        BY <3>1, <3>2, <2>2, <1>0, <1>1 DEF Undone
    <2>5. CASE Placed(m, r.side)
      <3>1. PICK v \in Nat : v = IF r.type = "New" THEN 0 ELSE r.previous
        BY <1>1
      <3>2. SideChanged(m, c, r.side, v)
        <4>1. CASE r.side = "buy"
          <5>1. /\ m.buy.status = "Placed" /\ c.sell = m.sell /\ c.buy.id = m.buy.id
                /\ r.type = "Update" => c.buy.status = "Placed" /\ c.buy.quantity = r.previous
                /\ r.type = "New" => c.buy.status = "NotPlaced"
            BY <2>3, <2>5, <4>1 DEF Placed
          <5> QED
            BY <3>1, <4>1, <5>1, <1>1 DEF SideChanged, OneChanged
        <4>2. CASE r.side = "sell"
          <5>1. /\ m.sell.status = "Placed" /\ c.buy = m.buy /\ c.sell.id = m.sell.id
                /\ r.type = "Update" => c.sell.status = "Placed" /\ c.sell.quantity = r.previous
                /\ r.type = "New" => c.sell.status = "NotPlaced"
            BY <2>3, <2>5, <4>2 DEF Placed
          <5> QED
            BY <3>1, <4>2, <5>1, <1>1 DEF SideChanged, OneChanged
        <4> QED
          BY <4>1, <4>2, <1>1 DEF Sides
      <3>3. Quotes(c)[r.id] = v /\ \A y \in Ids : y # r.id => Quotes(c)[y] = Quotes(m)[y]
        BY <3>2, <1>0, <1>1, <1>3, QuotesChanged
      <3>4. Quotes(m)[r.id] # 0
        <4>1. PICK k \in Nat : k = m[r.side].quantity
          BY <1>0, <1>1 DEF Orders, Sides
        <4>2. Quotes(m)[r.id] = k /\ k > 0
          BY <2>5, <4>1, <1>1, <1>3, QuoteFacts
        <4> QED
          BY <4>2
      <3> QED
        BY <3>1, <3>3, <3>4, <2>2, <1>0 DEF Undone
    <2> QED
      BY <2>4, <2>5
  <1> QED
    BY <1>2, <1>3

\* The refused request is taken out of the buffer and back.
LEMMA BackMoves ==
    ASSUME NEW m, MakerOK(m), m.orders # <<>>, Solo(m.orders), Head(m.orders).type # "Cancel",
           NEW p, p = [m EXCEPT !.orders = Tail(@)], NEW c, c = TakeBack(p, Head(m.orders))
    PROVE  Moved(m, c) /\ Solo(c.orders)
  <1>1. /\ m \in Makers /\ m.orders \in Seq(Requests)
    BY MakerFacts DEF MakerOK
  <1>2. PICK r \in Requests : r = Head(m.orders)
    BY <1>1, Parted
  <1>3. MakerOK(p)
    BY PoppedFacts
  <1>4. /\ p.buy = m.buy /\ p.sell = m.sell /\ p.net = m.net /\ p.next_id = m.next_id
        /\ p.orders = Tail(m.orders)
    BY <1>1 DEF Makers
  <1>5. \A x \in Ids : Quotes(p)[x] = Quotes(m)[x]
    BY <1>4 DEF Quotes
  <1>6. r.id \in Ids /\ r.type \in {"New", "Update"}
    BY <1>2 DEF Requests, Request
  <1>7. /\ MakerOK(c) /\ c.orders = Tail(m.orders) /\ c.next_id = m.next_id /\ c.net = m.net
        /\ Quotes(c)[r.id] = IF Quotes(m)[r.id] = 0 \/ r.type = "New" THEN 0 ELSE r.previous
        /\ \A y \in Ids : y # r.id => Quotes(c)[y] = Quotes(m)[y]
    <2>1. c = TakeBack(p, r) /\ r.type # "Cancel"
      BY <1>2
    <2>2. Undone(p, r, c)
      BY <1>3, <2>1, BackQuotes
    <2> QED
      BY <2>2, <1>4, <1>5, <1>6, ZenonT(60) DEF Undone
  <1>8. Quotes(m) \in [Ids -> Nat]
    BY QuoteFacts
  <1>9. ASSUME NEW T \in Seq(Requests), NEW x \in Ids, NEW o \in Nat, NEW w \in Nat,
               NEW all \in BOOLEAN, Account(T \o m.orders, x, o, w, Quotes(m)[x], all)
        PROVE  Account(T \o c.orders, x, o, w, Quotes(c)[x], all)
    <2>1. PICK R : R = T \o m.orders
      OBVIOUS
    <2>2. PICK S : S = T \o c.orders
      OBVIOUS
    <2>3. PICK j \in Nat : j = Len(T) + 1
      BY LenProperties, SMTT(60)
    <2>4. Removed(R, j, S) /\ R[j] = r
      BY <2>1, <2>2, <2>3, <1>1, <1>2, <1>7, PopRemoves, SMTT(60)
    <2>5. PICK q \in Nat : q = Quotes(m)[x]
      BY <1>8
    <2>6. Account(R, x, o, w, q, all)
      BY <2>1, <2>5, <1>9
    <2>7. CASE x # r.id
      <3>1. Account(S, x, o, w, q, all)
        BY <2>4, <2>6, <2>7, AccountOtherGone
      <3> QED
        BY <2>2, <2>5, <2>7, <3>1, <1>7
    <2>8. CASE x = r.id
      <3>1. ASSUME r.type = "Update", NEW n \in j + 1 .. Len(R), R[n].id = x
            PROVE  R[n].type = "Cancel"
        <4>1. PICK t \in Nat, l \in Nat : t = Len(T) /\ l = Len(m.orders) /\ j = t + 1 /\ l > 0
          BY <2>3, <1>1, LenProperties, Parted
        <4>2. Len(R) = t + l
          BY <2>1, <4>1, <1>1
        <4>3. PICK k \in 2 .. l : n = t + k
          <5>1. n - t \in 2 .. l /\ n = t + (n - t)
            BY ONLY <4>1, <4>2, SMTT(60)
          <5> QED
            BY <5>1
        <4>4. R[n] = m.orders[k] /\ m.orders[1] = r
          <5>1. R[n] = m.orders[n - t]
            BY ONLY <2>1, <4>1, <4>2, <4>3, <1>1, SMTT(60)
          <5>2. n - t = k
            BY <4>3
          <5> QED
            BY <5>1, <5>2, <1>1, <1>2, <4>1
        <4>5. 1 \in 1 .. Len(m.orders) /\ k \in 1 .. Len(m.orders) /\ 1 < k
          BY ONLY <4>1, <4>3, SMTT(60)
        <4> QED
          BY <2>8, <3>1, <4>4, <4>5 DEF Solo
      <3>2. /\ Removed(R, j, S) /\ Account(R, x, o, w, q, all) /\ R[j].id = x
            /\ R[j].type \in {"New", "Update"}
            /\ R[j].type = "Update" =>
                 \A n \in j + 1 .. Len(R) : R[n].id = x => R[n].type = "Cancel"
        BY <2>4, <2>6, <2>8, <3>1, <1>6
      <3>3. Account(S, x, o, w, IF q = 0 \/ R[j].type = "New" THEN 0 ELSE R[j].previous, all)
        BY ONLY <3>2, AccountBack, o \in Nat, w \in Nat, q \in Nat, all \in BOOLEAN
      <3> QED
        BY <2>2, <2>4, <2>5, <2>8, <3>3, <1>7
    <2> QED
      BY <2>7, <2>8
  <1>10. Kept(m, c)
    BY ONLY <1>9 DEF Kept
  <1>11. ASSUME Numbered(m) PROVE Numbered(c)
    <2>1. ToSet(c.orders) \subseteq ToSet(m.orders)
      BY <1>1, <1>7, Parted
    <2>2. \A x \in Ids : Quotes(c)[x] # 0 => Quotes(m)[x] # 0
      BY <1>7
    <2> QED
      BY <2>1, <2>2, <1>7, <1>11 DEF Numbered
  <1>12. Solo(c.orders)
    BY <1>1, <1>7, SoloTail
  <1> QED
    BY <1>7, <1>10, <1>11, <1>12 DEF Moved

\* notify_invalid
LEMMA RefusedMoves ==
    ASSUME NEW m, MakerOK(m), m.orders # <<>>, Solo(m.orders), Head(m.orders).type # "Cancel",
           NEW p, p = [m EXCEPT !.orders = Tail(@)],
           NEW reason, NEW c, c = notify_invalid(p, Head(m.orders), reason)
    PROVE  Moved(m, c) /\ Solo(c.orders)
  <1>1. PICK r : r = Head(m.orders)
    OBVIOUS
  <1>2. PICK d : d = TakeBack(p, r)
    OBVIOUS
  <1>3. Moved(m, d) /\ Solo(d.orders) /\ MakerOK(d)
    BY <1>1, <1>2, BackMoves DEF Moved
  <1>4. CASE reason \in {"Halted", "TooMuchLoss"}
    <2>1. c = queue_cancel_orders(d)
      BY <1>1, <1>2, <1>4 DEF notify_invalid
    <2>2. Moved(d, c) /\ OnlyCancels(d, c)
      BY <2>1, <1>3, CancelAllMoves
    <2> QED
      BY <2>2, <1>3, MovedTwice DEF OnlyCancels
  <1>5. CASE reason = "TooMuchExposure"
    <2>1. c = cancel_for_risk(d, r)
      BY <1>1, <1>2, <1>5 DEF notify_invalid
    <2>2. r.side \in Sides
      <3>1. m.orders \in Seq(Requests)
        BY MakerFacts
      <3>2. r \in Requests
        BY <3>1, <1>1, Parted
      <3> QED
        BY <3>2 DEF Requests, Request
    <2>3. CASE available(d) = 0
      <3>1. c = d
        BY <2>1, <2>3 DEF cancel_for_risk
      <3> QED
        BY <3>1, <1>3
    <2>4. CASE available(d) # 0
      <3>1. c = queue_cancel(d, r.side)
        BY <2>1, <2>4 DEF cancel_for_risk
      <3>2. Len(d.orders) < STRATEGY_ORDER_BUFFER_SIZE
        <4>1. /\ Len(d.orders) \in Nat /\ STRATEGY_ORDER_BUFFER_SIZE \in Nat
              /\ Len(d.orders) <= STRATEGY_ORDER_BUFFER_SIZE
          BY <1>3, MakerFacts DEF MakerOK
        <4> QED
          BY <2>4, <4>1 DEF available
      <3>3. Moved(d, c) /\ OnlyCancels(d, c)
        BY <2>2, <3>1, <3>2, <1>3, CancelMoves
      <3> QED
        BY <3>3, <1>3, MovedTwice DEF OnlyCancels
    <2> QED
      BY <2>3, <2>4
  <1>6. CASE reason \notin {"Halted", "TooMuchLoss", "TooMuchExposure"}
    <2>1. c = d
      BY <1>1, <1>2, <1>6 DEF notify_invalid
    <2> QED
      BY <2>1, <1>3
  <1> QED
    BY <1>4, <1>5, <1>6

\* An order that has no number yet: nothing is open, sent or owed.
Unused(T, x, o, p) == o = 0 /\ p = 0 /\ \A n \in 1 .. Len(T) : T[n].id # x

\* Every account is as good with c as it was with m; new ones are of unused ids.
KeptFresh(m, c) ==
    \A T \in Seq(Requests), x \in Ids, o \in Nat, p \in Nat, all \in BOOLEAN :
        Account(T \o m.orders, x, o, p, Quotes(m)[x], all)
          /\ (x >= m.next_id => Unused(T, x, o, p))
            => Account(T \o c.orders, x, o, p, Quotes(c)[x], all)

\* Two new orders, numbered n and n + 1.
Paired(m, c, rb, ro, n, k) ==
    /\ MakerOK(m) /\ MakerOK(c) /\ NoQuotes(m) /\ n = m.next_id /\ c.next_id = n + 2
    /\ n \in Nat \ {0} /\ n \in Ids /\ n + 1 \in Ids /\ c.net = m.net /\ k \in Nat \ {0}
    /\ rb \in Requests /\ ro \in Requests /\ rb.type = "New" /\ ro.type = "New"
    /\ rb.id = n /\ ro.id = n + 1 /\ rb.quantity = k /\ ro.quantity = k
    /\ c.orders = Append(Append(m.orders, rb), ro)
    /\ \A x \in Ids : Quotes(c)[x] = IF x \in {n, n + 1} THEN k ELSE 0

\* The accounts of the other orders stay, and the two new ones are opened.
LEMMA PairKept ==
    ASSUME NEW m, NEW c, NEW rb, NEW ro, NEW n, NEW k, Paired(m, c, rb, ro, n, k),
           Numbered(m)
    PROVE  KeptFresh(m, c) /\ Numbered(c)
           /\ (NoUpdates(m.orders) => NoUpdates(c.orders))
  <1>1. /\ MakerOK(m) /\ MakerOK(c) /\ n = m.next_id /\ c.next_id = n + 2
        /\ n \in Nat \ {0} /\ n \in Ids /\ n + 1 \in Ids /\ k \in Nat \ {0}
    BY DEF Paired
  <1>2. /\ rb \in Requests /\ ro \in Requests /\ rb.type = "New" /\ ro.type = "New"
        /\ rb.id = n /\ ro.id = n + 1 /\ rb.quantity = k /\ ro.quantity = k
    BY DEF Paired
  <1>3. c.orders = Append(Append(m.orders, rb), ro)
    BY DEF Paired
  <1>4. \A x \in Ids : Quotes(c)[x] = IF x \in {n, n + 1} THEN k ELSE 0
    BY DEF Paired
  <1>5. \A x \in Ids : Quotes(m)[x] = 0
    BY DEF Paired, NoQuotes, Quotes
  <1>6. PICK s : s = Append(m.orders, rb)
    OBVIOUS
  <1>7. m.orders \in Seq(Requests) /\ s \in Seq(Requests) /\ ToSet(s) = ToSet(m.orders) \cup {rb}
    BY <1>1, <1>2, <1>6, MakerFacts, Appended, SMTT(60)
  <1>8. c.orders = Append(s, ro) /\ ToSet(c.orders) = ToSet(s) \cup {ro}
    <2>1. c.orders = Append(s, ro)
      BY <1>3, <1>6
    <2>2. ToSet(Append(s, ro)) = ToSet(s) \cup {ro}
      BY <1>2, <1>7, Appended
    <2> QED
      BY <2>1, <2>2
  <1>9. ASSUME NEW T \in Seq(Requests), NEW x \in Ids, NEW o \in Nat, NEW p \in Nat,
               NEW all \in BOOLEAN, Account(T \o m.orders, x, o, p, Quotes(m)[x], all),
               x >= m.next_id => Unused(T, x, o, p)
        PROVE  Account(T \o c.orders, x, o, p, Quotes(c)[x], all)
    <2>1. PICK R : R = T \o m.orders
      OBVIOUS
    <2>2. PICK S : S = T \o s
      OBVIOUS
    <2>3. PICK U : U = T \o c.orders
      OBVIOUS
    <2>4. Extended(R, rb, S)
      BY <2>1, <2>2, <1>2, <1>6, <1>7, AppendExtends
    <2>5. Extended(S, ro, U)
      BY <2>2, <2>3, <1>2, <1>7, <1>8, AppendExtends
    <2>6. Account(R, x, o, p, 0, all)
      BY <2>1, <1>5, <1>9
    <2>7. n # n + 1 /\ n \in Nat /\ 0 \in Nat /\ x \in Nat
      BY <1>1 DEF Ids
    <2>0. ASSUME x >= n PROVE o = 0 /\ p = 0 /\ \A i \in 1 .. Len(R) : R[i].id # x
      <3>1. Unused(T, x, o, p)
        BY <2>0, <1>1, <1>9
      <3>2. PICK t \in Nat, l \in Nat : t = Len(T) /\ l = Len(m.orders) /\ Len(R) = t + l
        BY <2>1, <1>7, LenProperties
      <3>3. ASSUME NEW i \in 1 .. t + l PROVE R[i].id # x
        <4>1. CASE i \in 1 .. t
          <5>1. R[i] = T[i]
            BY <2>1, <3>2, <4>1, <1>7
          <5> QED
            BY <3>1, <3>2, <4>1, <5>1 DEF Unused
        <4>2. CASE i \notin 1 .. t
          <5>1. PICK j \in 1 .. l : j = i - t
            BY <4>2
          <5>2. R[i] = m.orders[j]
            BY <2>1, <3>2, <4>2, <5>1, <1>7
          <5>3. m.orders[j] \in ToSet(m.orders) /\ m.orders[j] \in Requests
            BY <3>2, <1>7, ElementOfSeq, LenProperties DEF ToSet
          <5>4. m.orders[j].id < n /\ m.orders[j].id \in Nat
            BY <5>3, <1>1, SMTT(60) DEF Numbered, Requests, Request, Ids
          <5> QED
            BY <2>0, <2>7, <5>2, <5>4
        <4> QED
          BY <4>1, <4>2
      <3> QED
        BY <3>1, <3>2, <3>3 DEF Unused
    <2>8. CASE x # n /\ x # n + 1
      <3>1. rb.id # x /\ ro.id # x
        BY <2>8, <1>2
      <3>2. Account(S, x, o, p, 0, all)
        BY <2>4, <2>6, <2>7, <3>1, AccountOther
      <3>3. Account(U, x, o, p, 0, all)
        BY <2>5, <2>7, <3>1, <3>2, AccountOther
      <3>4. Quotes(c)[x] = 0
        BY <2>8, <1>4
      <3> QED
        BY <2>3, <3>3, <3>4
    <2>9. CASE x = n
      <3>1. o = 0 /\ p = 0 /\ \A i \in 1 .. Len(R) : R[i].id # x
        BY <2>0, <2>7, <2>9
      <3>2. rb.id = x /\ ro.id # x
        BY <2>7, <2>9, <1>2
      <3>3. Account(S, x, 0, 0, k, all)
        BY <2>4, <3>1, <3>2, <1>1, <1>2, AccountNew, SMTT(60)
      <3>4. Account(U, x, 0, 0, k, all)
        <4>1. k \in Nat
          BY <1>1
        <4> QED
          BY <2>5, <2>7, <3>2, <3>3, <4>1, AccountOther
      <3>5. Quotes(c)[x] = k
        BY <2>9, <1>4
      <3> QED
        BY <2>3, <3>1, <3>4, <3>5
    <2>10. CASE x = n + 1
      <3>1. o = 0 /\ p = 0 /\ \A i \in 1 .. Len(R) : R[i].id # x
        BY <2>0, <2>7, <2>10
      <3>2. rb.id # x /\ ro.id = x
        BY <2>7, <2>10, <1>2
      <3>3. \A i \in 1 .. Len(S) : S[i].id # x
        <4>1. \A i \in 1 .. Len(S) : i = Len(R) + 1 \/ i \in 1 .. Len(R)
          BY <2>4 DEF Extended
        <4> QED
          BY <2>4, <3>1, <3>2, <4>1 DEF Extended
      <3>4. Account(U, x, 0, 0, k, all)
        BY <2>5, <3>2, <3>3, <1>1, <1>2, AccountNew, SMTT(60)
      <3>5. Quotes(c)[x] = k
        BY <2>10, <1>4
      <3> QED
        BY <2>3, <3>1, <3>4, <3>5
    <2> QED
      BY <2>8, <2>9, <2>10
  <1>10. KeptFresh(m, c)
    BY ONLY <1>9 DEF KeptFresh
  <1>11. Numbered(c)
    <2>1. \A x \in Ids : Quotes(c)[x] # 0 => x < c.next_id
      BY <1>1, <1>4
    <2>2. ASSUME NEW e \in ToSet(c.orders) PROVE e.id < c.next_id
      <3>1. CASE e = rb \/ e = ro
        BY <3>1, <1>1, <1>2
      <3>2. CASE e \in ToSet(m.orders)
        <4>1. PICK i \in Int : i = e.id
          <5>1. e \in Requests
            BY <3>2, <1>7 DEF ToSet
          <5> QED
            BY <5>1 DEF Requests, Request, Ids
        <4>2. i < n
          BY <3>2, <4>1, <1>1 DEF Numbered
        <4> QED
          BY <4>1, <4>2, <1>1
      <3> QED
        BY <2>2, <3>1, <3>2, <1>7, <1>8
    <2> QED
      BY <2>1, <2>2 DEF Numbered
  <1>12. ASSUME NoUpdates(m.orders) PROVE NoUpdates(c.orders)
    BY <1>2, <1>7, <1>8, <1>12 DEF NoUpdates
  <1> QED
    BY <1>10, <1>11, <1>12

\* queue_new_order_pair: nothing, or two new orders.
LEMMA PairMade ==
    ASSUME NEW m, MakerOK(m), NoQuotes(m), NEW bbo \in Snapshots,
           m.next_id + 1 <= MaxOrders,
           NEW c, c = queue_new_order_pair(m, bbo)
    PROVE  c = m \/ \E rb, ro, n, k : Paired(m, c, rb, ro, n, k)
  <1> DEFINE p == price_new_order_pair(bbo)
             order(id, price) == [status |-> "Placed", id |-> id, price |-> price,
                                  quantity |-> MARKET_MAKER_ORDER_QUANTITY]
             b == order(m.next_id, p.bid)
             o == order(m.next_id + 1, p.offer)
             rb == NewOrderRequest("buy", b)
             ro == NewOrderRequest("sell", o)
  <1>0. MakerOK(c)
    BY NewPair
  <1>1. CASE p = NULL \/ p.bid < MIN_BID_PRICE \/ available(m) < 2
    BY <1>1 DEF queue_new_order_pair
  <1>2. CASE ~(p = NULL \/ p.bid < MIN_BID_PRICE \/ available(m) < 2)
    <2>1. c = [m EXCEPT !.buy = b, !.sell = o, !.next_id = @ + 2,
                        !.orders = @ \o <<rb, ro>>]
      BY <1>2 DEF queue_new_order_pair
    <2>2. p.bid \in Int /\ p.offer \in Int
      BY <1>2, PricedPair
    <2> HIDE DEF p
    <2>3. /\ m \in Makers /\ m.next_id \in Nat /\ m.next_id % 2 = 1
          /\ m.orders \in Seq(Requests)
      BY MakerFacts DEF MakerOK
    <2>4. PICK k \in Nat \ {0} : k = MARKET_MAKER_ORDER_QUANTITY
      BY MakerAssumption
    <2>5. PICK n \in Nat \ {0} : n = m.next_id /\ n \in Ids /\ n + 1 \in Ids /\ (n + 1) % 2 # 1
      BY <2>3, TraderAssumption, SMTT(60) DEF Ids
    <2>6. SideOf(n) = "buy" /\ SideOf(n + 1) = "sell"
      BY <2>3, <2>5 DEF SideOf
    <2>7. /\ rb \in Requests /\ ro \in Requests /\ rb.type = "New" /\ ro.type = "New"
          /\ rb.id = n /\ ro.id = n + 1 /\ rb.quantity = k /\ ro.quantity = k
      BY <2>2, <2>4, <2>5, <2>6 DEF NewOrderRequest, Requests, Request, Sides
    <2>8. /\ b.status = "Placed" /\ o.status = "Placed" /\ b.id = n /\ o.id = n + 1
          /\ b.quantity = k /\ o.quantity = k
      BY <2>4, <2>5
    <2> HIDE DEF b, o, rb, ro
    <2>9. PICK t : t = m.orders \o <<rb, ro>>
      OBVIOUS
    <2>10. t = Append(Append(m.orders, rb), ro)
      <3>1. PICK s : s = m.orders
        OBVIOUS
      <3>2. s \in Seq(Requests)
        BY <2>3, <3>1
      <3>3. s \o <<rb, ro>> = Append(Append(s, rb), ro)
        BY <2>7, <3>2
      <3> QED
        BY <2>9, <3>1, <3>3
    <2>11. /\ c.buy = b /\ c.sell = o /\ c.orders = t /\ c.net = m.net
           /\ c.next_id = m.next_id + 2
      BY <2>1, <2>3, <2>9 DEF Makers
    <2>12. \A x \in Ids : Quotes(c)[x] = IF x \in {n, n + 1} THEN k ELSE 0
      BY <2>8, <2>11 DEF Quotes
    <2>13. Paired(m, c, rb, ro, n, k)
      BY <1>0, <2>5, <2>7, <2>10, <2>11, <2>12 DEF Paired
    <2> QED
      BY <2>13
  <1> QED
    BY <1>1, <1>2

\* get_orders on an empty buffer.
LEMMA QuotedKept ==
    ASSUME NEW m, MakerOK(m), m.orders = <<>>, NEW bbo \in Snapshots, Numbered(m),
           m.next_id + 1 <= MaxOrders, NEW c, c = get_orders(m, bbo)
    PROVE  /\ KeptFresh(m, c) /\ Numbered(c) /\ Solo(c.orders) /\ c.net = m.net
           /\ c.next_id >= m.next_id
  <1>1. /\ m.next_id \in Nat /\ NoUpdates(m.orders) /\ Solo(m.orders)
    BY MakerFacts, NoUpdatesEmpty
  <1>2. ASSUME Moved(m, c), OnlyCancels(m, c)
        PROVE  /\ KeptFresh(m, c) /\ Numbered(c) /\ Solo(c.orders) /\ c.net = m.net
               /\ c.next_id >= m.next_id
    <2>1. Kept(m, c) /\ Numbered(c) /\ c.net = m.net /\ c.next_id = m.next_id /\ Solo(c.orders)
      BY <1>1, <1>2 DEF Moved, OnlyCancels
    <2>2. KeptFresh(m, c)
      BY ONLY <2>1 DEF Kept, KeptFresh
    <2> QED
      BY <2>1, <2>2, <1>1
  <1>3. CASE ~should_place_new_orders(m, bbo) \/ available(m) < PlacedCount(m) + 2
    <2>1. c = m
      BY <1>3 DEF get_orders
    <2>2. Moved(m, c) /\ OnlyCancels(m, c)
      BY <2>1, MovedNot DEF OnlyCancels
    <2> QED
      BY <2>2, <1>2
  <1>4. CASE ~(~should_place_new_orders(m, bbo) \/ available(m) < PlacedCount(m) + 2)
    <2>1. PICK d : d = queue_cancel_orders(m)
      OBVIOUS
    <2>2. c = queue_new_order_pair(d, bbo)
      BY <1>4, <2>1 DEF get_orders
    <2>3. Moved(m, d) /\ OnlyCancels(m, d)
      BY <2>1, CancelAllMoves
    <2>4. /\ MakerOK(d) /\ Kept(m, d) /\ Numbered(d) /\ d.next_id = m.next_id /\ d.net = m.net
          /\ NoUpdates(d.orders) /\ d.orders \in Seq(Requests)
      BY <2>3, <1>1, MakerFacts DEF Moved, OnlyCancels
    <2>5. NoQuotes(d)
      <3>1. /\ Len(m.orders) = 0 /\ PlacedCount(m) \in {0, 1, 2} /\ Load(m) = PlacedCount(m)
            /\ STRATEGY_ORDER_BUFFER_SIZE \in Nat /\ STRATEGY_ORDER_BUFFER_SIZE >= 4
        BY MakerFacts DEF Load
      <3> QED
        BY <3>1, <2>1, CancelAll
    <2>6. c = d \/ \E rb, ro, n, k : Paired(d, c, rb, ro, n, k)
      BY <2>2, <2>4, <2>5, PairMade
    <2>7. CASE c = d
      BY <2>3, <2>7, <1>2
    <2>8. CASE \E rb, ro, n, k : Paired(d, c, rb, ro, n, k)
      <3>1. PICK rb, ro, n, k : Paired(d, c, rb, ro, n, k)
        BY <2>8
      <3>2. KeptFresh(d, c) /\ Numbered(c) /\ NoUpdates(c.orders)
        BY <2>4, <3>1, PairKept
      <3>3. /\ c.net = d.net /\ c.next_id = n + 2 /\ n = d.next_id /\ n \in Nat
            /\ MakerOK(c)
        BY <3>1 DEF Paired
      <3>4. KeptFresh(m, c)
        BY ONLY <2>4, <3>2 DEF Kept, KeptFresh
      <3>5. Solo(c.orders)
        BY <3>2, <3>3, MakerFacts, SoloNone
      <3> QED
        BY <2>4, <3>2, <3>3, <3>4, <3>5
    <2> QED
      BY <2>6, <2>7, <2>8
  <1> QED
    BY <1>3, <1>4

-----------------------------------------------------------------------------
(* The invariant of the accounts. *)

\* For every order, what is open, what was filled and not yet heard of, and what
\* is believed agree, once the requests under way are done.
Balanced(all) ==
    \A x \in Ids : \E p \in Nat :
        /\ Summed(update_buffer, Share(x), p)
        /\ Account(trade_buffer \o maker.orders, x, open[x], p, Quotes(maker)[x], all)

\* The strategy's count and the fills on the way are the position.
Tally == \E t \in Int : Summed(update_buffer, Direction, t) /\ position = maker.net + t

\* The ids that are in use.
NumberInv ==
    /\ Numbered(maker)
    /\ \A r \in ToSet(trade_buffer) : r.id < maker.next_id
    /\ \A f \in ToSet(update_buffer) : f.id < maker.next_id
    /\ \A x \in Ids : x >= maker.next_id => open[x] = 0

\* Nothing but a cancel follows an update of the same order, unless stopped.
SoloInv == ~stop => Solo(maker.orders)

\* As long as no update met a fill the accounts balance, and as long as no request
\* did nothing is lost of the count.
LedgerInv ==
    /\ NumberInv /\ SoloInv /\ Crossing \subseteq crossed
    /\ "Update" \notin crossed => Balanced(crossed = {})
    /\ crossed = {} => Tally

\* Less is asked of an account once a request met a fill.
LEMMA BalancedLess ==
    ASSUME NEW all \in BOOLEAN, NEW less \in BOOLEAN, less => all, Balanced(all)
    PROVE  Balanced(less)
  <1>1. ASSUME NEW R, NEW x, NEW o, NEW p, NEW q, Account(R, x, o, p, q, all)
        PROVE  Account(R, x, o, p, q, less)
    BY <1>1 DEF Account
  <1> QED
    BY <1>1 DEF Balanced

\* The requests under way, in the order in which the OMS will take them.
LEMMA RequestsListed ==
    ASSUME StateInv, NEW R, R = trade_buffer \o maker.orders
    PROVE  /\ R \in Seq(Requests)
           /\ \A n \in 1 .. Len(R) : R[n] \in RequestsUnderWay
           /\ \A r \in RequestsUnderWay : \E n \in 1 .. Len(R) : R[n] = r
  <1>1. trade_buffer \in Seq(Requests) /\ maker.orders \in Seq(Requests)
    BY MakerFacts DEF StateInv, TypeInv
  <1>2. PICK t \in Nat, l \in Nat : t = Len(trade_buffer) /\ l = Len(maker.orders)
                                    /\ Len(R) = t + l /\ R \in Seq(Requests)
    BY <1>1, LenProperties, ConcatProperties
  <1>3. ASSUME NEW n \in 1 .. t + l PROVE R[n] \in RequestsUnderWay
    <2>1. CASE n \in 1 .. t
      <3>1. R[n] = trade_buffer[n]
        BY <2>1, <1>1, <1>2
      <3> QED
        BY <2>1, <3>1, <1>1, <1>2, LenProperties DEF RequestsUnderWay, ToSet
    <2>2. CASE n \notin 1 .. t
      <3>1. PICK j \in 1 .. l : j = n - t
        BY <2>2
      <3>2. R[n] = maker.orders[j]
        BY <2>2, <3>1, <1>1, <1>2
      <3> QED
        BY <3>1, <3>2, <1>1, <1>2, LenProperties DEF RequestsUnderWay, ToSet
    <2> QED
      BY <2>1, <2>2
  <1>4. ASSUME NEW r \in RequestsUnderWay PROVE \E n \in 1 .. t + l : R[n] = r
    <2>1. CASE r \in ToSet(trade_buffer)
      <3>1. PICK j \in 1 .. t : trade_buffer[j] = r
        BY <2>1, <1>1, <1>2, LenProperties DEF ToSet
      <3>2. R[j] = r /\ j \in 1 .. t + l
        BY <3>1, <1>1, <1>2
      <3> QED
        BY <3>2
    <2>2. CASE r \in ToSet(maker.orders)
      <3>1. PICK j \in 1 .. l : maker.orders[j] = r
        BY <2>2, <1>1, <1>2, LenProperties DEF ToSet
      <3>2. R[t + j] = r /\ t + j \in 1 .. t + l
        BY <3>1, <1>1, <1>2
      <3> QED
        BY <3>2
    <2> QED
      BY <2>1, <2>2, <1>4 DEF RequestsUnderWay
  <1> QED
    BY <1>2, <1>3, <1>4

\* No fill meets a request of the type: none of its order is under way.
LEMMA NotCrossing ==
    ASSUME StateInv, NEW type, type # "New", type \notin Crossing,
           NEW f \in ToSet(update_buffer), NEW R, R = trade_buffer \o maker.orders
    PROVE  R \in Seq(Requests) /\ Without(R, f.id, type)
  <1>1. R \in Seq(Requests) /\ \A n \in 1 .. Len(R) : R[n] \in RequestsUnderWay
    BY RequestsListed
  <1>2. ASSUME NEW n \in 1 .. Len(R), R[n].id = f.id, R[n].type = type PROVE FALSE
    <2>1. type \in Crossing
      BY <1>1, <1>2 DEF Crossing, FillsUnderWay
    <2> QED
      BY <2>1
  <1> QED
    BY <1>1, <1>2 DEF Without

\* The accounts follow the strategy through a change that creates no order.
LEMMA FollowsMove ==
    ASSUME NEW m, NEW c, Moved(m, c), NEW T \in Seq(Requests), NEW x \in Ids, NEW o \in Nat,
           NEW p \in Nat, NEW all \in BOOLEAN,
           Account(T \o m.orders, x, o, p, Quotes(m)[x], all)
    PROVE  Account(T \o c.orders, x, o, p, Quotes(c)[x], all)
  BY DEF Moved, Kept

\* The state as the lemmas need it.
LEMMA LedgerTypes ==
    ASSUME StateInv
    PROVE  /\ MakerOK(maker) /\ trade_buffer \in Seq(Requests) /\ maker.orders \in Seq(Requests)
           /\ update_buffer \in Seq(Fills) /\ open \in [Ids -> Nat] /\ position \in Int
           /\ maker.net \in Int /\ maker.next_id \in Nat /\ Quotes(maker) \in [Ids -> Nat]
           /\ \A x \in Ids : Share(x) \in [Fills -> Int]
           /\ Direction \in [Fills -> Int] /\ MaxOrders \in Nat
  <1>1. /\ MakerOK(maker) /\ trade_buffer \in Seq(Requests) /\ update_buffer \in Seq(Fills)
        /\ open \in [Ids -> Nat] /\ position \in Int
    BY DEF StateInv, TypeInv
  <1>2. /\ maker.orders \in Seq(Requests) /\ maker.net \in Int /\ maker.next_id \in Nat
        /\ Quotes(maker) \in [Ids -> Nat]
    BY <1>1, MakerFacts, QuoteFacts
  <1>3. \A g \in Fills : g.id \in Ids /\ g.quantity \in Nat \ {0} /\ Signed(g) \in Int
    BY DEF Fills, Signed
  <1>4. Direction \in [Fills -> Int] /\ \A x \in Ids : Share(x) \in [Fills -> Int]
    BY <1>3 DEF Direction, Share
  <1> QED
    BY <1>1, <1>2, <1>4, TraderAssumption

\* ForwardUpdate
LEMMA LedgerHears ==
    ASSUME StateInv, ForwardUpdate, NumberInv, NEW all \in BOOLEAN, Balanced(all),
           "Update" \notin Crossing, all => "Cancel" \notin Crossing /\ Tally
    PROVE  Balanced(all)' /\ (all => Tally') 
  <1>1. /\ update_buffer # <<>> /\ maker' = update(maker, Head(update_buffer))
        /\ update_buffer' = Tail(update_buffer)
        /\ UNCHANGED <<trade_buffer, open, position>>
    BY DEF ForwardUpdate, omsVars
  <1>2. /\ MakerOK(maker) /\ trade_buffer \in Seq(Requests) /\ maker.orders \in Seq(Requests)
        /\ update_buffer \in Seq(Fills) /\ open \in [Ids -> Nat] /\ position \in Int
        /\ maker.net \in Int /\ maker.next_id \in Nat /\ Quotes(maker) \in [Ids -> Nat]
        /\ \A x \in Ids : Share(x) \in [Fills -> Int]
        /\ Direction \in [Fills -> Int]
    BY LedgerTypes
  <1>3. PICK f : f = Head(update_buffer)
    OBVIOUS
  <1>4. f \in Fills /\ f \in ToSet(update_buffer)
    BY <1>1, <1>2, <1>3, Parted
  <1>5. PICK z \in Ids, k \in Nat \ {0} : z = f.id /\ k = f.quantity
    BY <1>4 DEF Fills
  <1>6. PICK R : R = trade_buffer \o maker.orders
    OBVIOUS
  <1>7. /\ R \in Seq(Requests)
        /\ Without(R, z, "Update")
        /\ all => Without(R, z, "Cancel")
    <2>1. /\ R \in Seq(Requests)
          /\ Without(R, f.id, "Update")
      BY <1>4, <1>6, NotCrossing
    <2>2. all => Without(R, f.id, "Cancel")
      BY <1>4, <1>6, NotCrossing
    <2> QED
      BY <2>1, <2>2, <1>5
  \* What is owed of an order after the fill.
  <1>8. ASSUME NEW x \in Ids, NEW p \in Nat, Summed(update_buffer, Share(x), p)
        PROVE  /\ Share(x)[f] = (IF x = z THEN k ELSE 0) /\ p - Share(x)[f] \in Nat
               /\ Summed(Tail(update_buffer), Share(x), p - Share(x)[f])
    <2>1. Share(x)[f] = IF x = z THEN k ELSE 0
      BY <1>4, <1>5, WeightFacts
    <2>2. Share(x)[f] \in Nat /\ Share(x)[f] <= p
      BY <1>1, <1>2, <1>3, <1>8, OwedSome
    <2>3. Summed(Tail(update_buffer), Share(x), p - Share(x)[f])
      <3>1. PICK w \in [Fills -> Int] : w = Share(x)
        BY <1>2
      <3>2. PICK u \in Seq(Fills) : u = update_buffer
        BY <1>2
      <3>3. PICK t \in Int : t = p
        OBVIOUS
      <3>4. Summed(u, w, t) /\ u # <<>>
        BY <3>1, <3>2, <3>3, <1>1, <1>8
      <3>5. Summed(Tail(u), w, t - w[Head(u)])
        BY ONLY <3>4, SumHeard, u \in Seq(Fills), w \in [Fills -> Int], t \in Int
      <3> QED
        BY <3>1, <3>2, <3>3, <3>5, <1>3
    <2> QED
      BY <2>1, <2>2, <2>3
  \* The account of the order that was filled.
  <1>9. PICK q \in Nat : q = Quotes(maker)[z]
    BY <1>2, <1>5
  <1>10. ASSUME NEW p \in Nat, Summed(update_buffer, Share(z), p),
                Account(R, z, open[z], p, q, all)
         PROVE  IF q # 0 THEN k <= q /\ Account(R, z, open[z], p - k, q - k, all)
                         ELSE ~all /\ Account(R, z, open[z], p - k, 0, all)
    <2>1. PICK o \in Nat : o = open[z]
      BY <1>2
    <2>2. k <= p
      <3>1. Share(z)[f] = k /\ p - Share(z)[f] \in Nat
        BY <1>8, <1>10
      <3> QED
        BY <3>1
    <2>3. Account(R, z, o, p, q, all)
      BY <2>1, <1>10
    <2>5. /\ R \in Seq(Requests) /\ Account(R, z, o, p, q, all) /\ k <= p
          /\ Without(R, z, "Update")
          /\ all => Without(R, z, "Cancel")
      BY <2>2, <2>3, <1>7
    <2>4. Hears(R, z, o, p, q, k, all)
      BY ONLY <2>5, AccountHeard, o \in Nat, p \in Nat, q \in Nat, k \in Nat \ {0},
              all \in BOOLEAN
    <2> QED
      BY <2>1, <2>4 DEF Hears
  <1>11. IF q # 0 THEN k <= q ELSE ~all
    <2>1. PICK p \in Nat : /\ Summed(update_buffer, Share(z), p)
                           /\ Account(R, z, open[z], p, q, all)
      BY <1>6, <1>9 DEF Balanced
    <2> QED
      BY <2>1, <1>10
  \* d: the fill is counted, and nothing is rebalanced.
  <1>12. PICK d : /\ Moved(d, maker') /\ d.orders = maker.orders
                  /\ Quotes(d)[z] = (IF q # 0 THEN q - k ELSE 0)
                  /\ \A y \in Ids : y # z => Quotes(d)[y] = Quotes(maker)[y]
                  /\ all => d.net = maker.net + Signed(f)
    <2>0. maker' = update(maker, f)
      BY <1>1, <1>3
    <2>1. \/ Quotes(maker)[f.id] = 0 /\ maker' = maker
          \/ /\ Quotes(maker)[f.id] # 0
             /\ \E e : /\ Counted(maker, e, f.id, Smaller(f.quantity, Quotes(maker)[f.id]))
                       /\ Moved(e, maker') /\ (maker.orders = <<>> => Solo(maker'.orders))
      BY <2>0, <1>2, <1>4, FillCounted
    <2>2. CASE q = 0
      <3>1. maker' = maker /\ ~all
        BY <2>1, <2>2, <1>5, <1>9, <1>11
      <3>2. Moved(maker, maker')
        BY <3>1, <1>2, MovedNot
      <3> QED
        BY <2>2, <3>1, <3>2, <1>9
    <2>3. CASE q # 0
      <3>1. Smaller(k, q) = k
        BY <2>3, <1>11 DEF Smaller
      <3>2. PICK e : Counted(maker, e, z, k) /\ Moved(e, maker')
        BY <2>1, <2>3, <3>1, <1>5, <1>9
      <3>3. Signed(f) = IF SideOf(z) = "buy" THEN k ELSE -k
        BY <1>5 DEF Signed
      <3>4. /\ e.orders = maker.orders /\ Quotes(e)[z] = q - k
            /\ \A y \in Ids : y # z => Quotes(e)[y] = Quotes(maker)[y]
            /\ e.net = IF SideOf(z) = "buy" THEN maker.net + k ELSE maker.net - k
        BY <3>2, <1>9 DEF Counted
      <3>5. e.net = maker.net + Signed(f)
        BY <3>3, <3>4, <1>2
      <3> QED
        BY <2>3, <3>2, <3>4, <3>5
    <2> QED
      BY <2>2, <2>3
  <1>13. ASSUME NEW x \in Ids
         PROVE  \E p \in Nat :
                  /\ Summed(Tail(update_buffer), Share(x), p)
                  /\ Account(trade_buffer \o maker'.orders, x, open[x], p, Quotes(maker')[x], all)
    <2>1. PICK p \in Nat : /\ Summed(update_buffer, Share(x), p)
                           /\ Account(R, x, open[x], p, Quotes(maker)[x], all)
      BY <1>6 DEF Balanced
    <2>2. PICK w \in Nat : w = p - Share(x)[f] /\ Summed(Tail(update_buffer), Share(x), w)
                           /\ Share(x)[f] = IF x = z THEN k ELSE 0
      BY <2>1, <1>8
    <2>3. Account(trade_buffer \o d.orders, x, open[x], w, Quotes(d)[x], all)
      <3>1. CASE x # z
        BY <2>1, <2>2, <3>1, <1>6, <1>12
      <3>2. CASE x = z
        <4>1. w = p - k
          BY <2>2, <3>2
        <4> QED
          BY <2>1, <3>2, <4>1, <1>6, <1>9, <1>10, <1>12
      <3> QED
        BY <3>1, <3>2
    <2>4. open[x] \in Nat
      BY <1>2
    <2>5. Account(trade_buffer \o maker'.orders, x, open[x], w, Quotes(maker')[x], all)
      BY <2>3, <2>4, <1>2, <1>12, FollowsMove
    <2> QED
      BY <2>2, <2>5
  <1>14. Balanced(all)'
    BY <1>1, <1>13 DEF Balanced
  <1>15. ASSUME all PROVE Tally'
    <2>1. PICK t \in Int : Summed(update_buffer, Direction, t) /\ position = maker.net + t
      BY <1>15 DEF Tally
    <2>2. Summed(Tail(update_buffer), Direction, t - Direction[f])
      BY <2>1, <1>1, <1>2, <1>3, SumHeard
    <2>3. PICK s \in Int : s = Direction[f] /\ s = Signed(f)
      BY <1>4, WeightFacts
    <2>4. maker'.net = maker.net + s
      BY <2>3, <1>12, <1>15 DEF Moved
    <2>5. position = maker'.net + (t - s) /\ t - s \in Int
      BY <2>1, <2>3, <2>4, <1>2, SMTT(60)
    <2>6. Summed(update_buffer', Direction, t - s)
      BY <2>2, <2>3, <1>1
    <2>7. position' = maker'.net + (t - s)
      BY <2>5, <1>1
    <2> QED
      BY <2>5, <2>6, <2>7 DEF Tally
  <1> QED
    BY <1>14, <1>15

-----------------------------------------------------------------------------
(* One lemma per action: the ids in use and the order of the buffer. *)

\* ForwardUpdate: a fill creates no order, and is answered by one update a side.
LEMMA NumbersHear ==
    ASSUME StateInv, ForwardUpdate, NumberInv, SoloInv
    PROVE  NumberInv' /\ SoloInv'
  <1>1. /\ update_buffer # <<>> /\ maker' = update(maker, Head(update_buffer))
        /\ update_buffer' = Tail(update_buffer) /\ trader = "updates"
        /\ UNCHANGED <<trade_buffer, open, stop>>
    BY DEF ForwardUpdate, omsVars
  <1>2. MakerOK(maker) /\ update_buffer \in Seq(Fills) /\ maker.next_id \in Nat
    BY LedgerTypes
  <1>3. PICK f \in Fills : f = Head(update_buffer)
    BY <1>1, <1>2, Parted
  <1>4. maker' = update(maker, f)
    BY <1>1, <1>3
  <1>5. \/ Quotes(maker)[f.id] = 0 /\ maker' = maker
        \/ /\ Quotes(maker)[f.id] # 0
           /\ \E d : /\ Counted(maker, d, f.id, Smaller(f.quantity, Quotes(maker)[f.id]))
                     /\ Moved(d, maker') /\ (maker.orders = <<>> => Solo(maker'.orders))
    BY <1>2, <1>4, FillCounted
  <1>6. Numbered(maker') /\ maker'.next_id = maker.next_id
    <2>1. CASE maker' = maker
      BY <2>1 DEF NumberInv
    <2>2. ASSUME Quotes(maker)[f.id] # 0,
                 NEW d, Counted(maker, d, f.id, Smaller(f.quantity, Quotes(maker)[f.id])),
                 Moved(d, maker')
          PROVE  Numbered(maker') /\ maker'.next_id = maker.next_id
      <3>1. /\ d.orders = maker.orders /\ d.next_id = maker.next_id
            /\ \A y \in Ids : y # f.id => Quotes(d)[y] = Quotes(maker)[y]
        BY <2>2 DEF Counted
      <3>2. Numbered(maker)
        BY DEF NumberInv
      <3>3. \A y \in Ids : Quotes(d)[y] # 0 => Quotes(maker)[y] # 0
        BY <2>2, <3>1
      <3>4. Numbered(d)
        BY <3>1, <3>2, <3>3 DEF Numbered
      <3> QED
        BY <2>2, <3>1, <3>4 DEF Moved
    <2> QED
      BY <1>5, <2>1, <2>2
  <1>7. ToSet(update_buffer') \subseteq ToSet(update_buffer)
    BY <1>1, <1>2, Parted
  <1>8. NumberInv'
    BY <1>1, <1>6, <1>7 DEF NumberInv
  <1>9. ASSUME ~stop PROVE Solo(maker'.orders)
    <2>1. maker.orders = <<>>
      BY <1>1, <1>9 DEF StateInv, EmptyInv
    <2> QED
      BY <1>5, <2>1, NoUpdatesEmpty
  <1>10. SoloInv'
    BY <1>1, <1>9 DEF SoloInv
  <1> QED
    BY <1>8, <1>10

\* ReadBbo: new orders get new ids.
LEMMA NumbersQuote ==
    ASSUME StateInv, NEW bbo \in Snapshots, ReadBbo(bbo), NumberInv, SoloInv
    PROVE  NumberInv' /\ SoloInv'
  <1>1. /\ trader = "bbo" /\ ~stop /\ maker.next_id + 1 <= MaxOrders
        /\ maker' = get_orders(maker, bbo)
        /\ UNCHANGED <<trade_buffer, update_buffer, open, stop>>
    BY DEF ReadBbo, omsVars
  <1>2. /\ MakerOK(maker) /\ trade_buffer \in Seq(Requests) /\ update_buffer \in Seq(Fills)
        /\ maker.next_id \in Nat
    BY LedgerTypes
  <1>3. maker.orders = <<>>
    BY <1>1 DEF StateInv, EmptyInv
  <1>4. Numbered(maker)
    BY DEF NumberInv
  <1>5. Numbered(maker') /\ Solo(maker'.orders) /\ maker'.next_id >= maker.next_id
    BY <1>1, <1>2, <1>3, <1>4, QuotedKept
  <1>6. MakerOK(maker')
    BY <1>1, <1>2, <1>3, GetOrders
  <1>7. PICK n \in Nat, k \in Nat : n = maker.next_id /\ k = maker'.next_id /\ k >= n
    BY <1>2, <1>5, <1>6, MakerFacts
  <1>8. \A r \in ToSet(trade_buffer) : r.id \in Int /\ r.id < n
    BY <1>2, <1>7, SMTT(60) DEF NumberInv, ToSet, Requests, Request, Ids
  <1>9. \A f \in ToSet(update_buffer) : f.id \in Int /\ f.id < n
    <2>1. ASSUME NEW f \in ToSet(update_buffer) PROVE f \in Fills
      BY <1>2 DEF ToSet
    <2>2. \A f \in Fills : f.id \in Int
      BY TraderAssumption DEF Fills, Ids
    <2> QED
      BY <1>7, <2>1, <2>2 DEF NumberInv
  <1>10. \A x \in Ids : x >= n => open[x] = 0
    BY <1>7 DEF NumberInv
  <1>11. /\ \A r \in ToSet(trade_buffer) : r.id < k
         /\ \A f \in ToSet(update_buffer) : f.id < k
         /\ \A x \in Ids : x >= k => open[x] = 0
    BY <1>7, <1>8, <1>9, <1>10, TraderAssumption DEF Ids
  <1>12. NumberInv'
    BY <1>1, <1>5, <1>7, <1>11 DEF NumberInv
  <1>13. SoloInv'
    BY <1>5 DEF SoloInv
  <1> QED
    BY <1>12, <1>13

\* Reject: a refused request is no cancel.
LEMMA RefusedStep ==
    ASSUME StateInv, NEW risk, Reject(risk), SoloInv
    PROVE  Moved(maker, maker') /\ Solo(maker'.orders)
           /\ UNCHANGED <<trade_buffer, update_buffer, open, position, stop>>
  <1>1. /\ maker.orders # <<>> /\ ~stop /\ evaluate_risk(Outbound, risk) # "Good"
        /\ maker' = notify_invalid(Popped, Outbound, evaluate_risk(Outbound, risk))
        /\ UNCHANGED <<trade_buffer, update_buffer, open, position, stop>>
    BY DEF Reject, Evaluates, omsVars
  <1>2. MakerOK(maker) /\ Solo(maker.orders)
    BY <1>1, LedgerTypes DEF SoloInv
  <1>3. PICK p : p = [maker EXCEPT !.orders = Tail(@)]
    OBVIOUS
  <1>4. PICK reason : reason = evaluate_risk(Outbound, risk)
    OBVIOUS
  <1>5. Head(maker.orders).type # "Cancel"
    BY <1>1, RiskReasons DEF Outbound
  <1>6. maker' = notify_invalid(p, Head(maker.orders), reason)
    BY <1>1, <1>3, <1>4 DEF Outbound, Popped
  <1>7. Moved(maker, maker') /\ Solo(maker'.orders)
    BY <1>1, <1>2, <1>3, <1>5, <1>6, RefusedMoves
  <1> QED
    BY <1>1, <1>7

\* Reject: no id is new.
LEMMA NumbersRefuse ==
    ASSUME StateInv, NEW risk, Reject(risk), NumberInv, SoloInv
    PROVE  NumberInv' /\ SoloInv'
  <1>1. /\ Moved(maker, maker') /\ Solo(maker'.orders)
        /\ UNCHANGED <<trade_buffer, update_buffer, open, position, stop>>
    BY RefusedStep
  <1>2. Numbered(maker') /\ maker'.next_id = maker.next_id
    BY <1>1 DEF Moved, NumberInv
  <1> QED
    BY <1>1, <1>2 DEF NumberInv, SoloInv

\* Forward: the request goes from one buffer to the other, or stays.
LEMMA ForwardedStep ==
    ASSUME StateInv, NEW risk, Forward(risk)
    PROVE  /\ UNCHANGED <<update_buffer, open, position>>
           /\ \/ UNCHANGED <<maker, trade_buffer>> /\ stop'
              \/ /\ maker.orders # <<>> /\ maker' = Popped /\ UNCHANGED stop
                 /\ trade_buffer' = Append(trade_buffer, Head(maker.orders))
                 /\ maker'.orders = Tail(maker.orders) /\ maker'.next_id = maker.next_id
                 /\ maker'.net = maker.net /\ Quotes(maker') = Quotes(maker)
  <1>1. /\ maker.orders # <<>> /\ UNCHANGED <<update_buffer, open, position>>
        /\ \/ UNCHANGED <<maker, trade_buffer>> /\ stop'
           \/ /\ trade_buffer' = Append(trade_buffer, Head(maker.orders))
              /\ maker' = Popped /\ UNCHANGED stop
    BY DEF Forward, Evaluates, Return, omsVars, Outbound
  <1>2. maker \in Makers
    BY DEF StateInv, MakerOK
  <1>3. ASSUME maker' = Popped
        PROVE  /\ maker'.orders = Tail(maker.orders) /\ maker'.next_id = maker.next_id
               /\ maker'.net = maker.net /\ maker'.buy = maker.buy /\ maker'.sell = maker.sell
    BY <1>2, <1>3 DEF Popped, Makers
  <1>4. ASSUME maker' = Popped PROVE Quotes(maker') = Quotes(maker)
    BY <1>3, <1>4 DEF Quotes
  <1> QED
    BY <1>1, <1>3, <1>4

\* Forward: the ids in use stay.
LEMMA NumbersForward ==
    ASSUME StateInv, NEW risk, Forward(risk), NumberInv, SoloInv
    PROVE  NumberInv' /\ SoloInv'
  <1>1. /\ UNCHANGED <<update_buffer, open, position>>
        /\ \/ UNCHANGED <<maker, trade_buffer>> /\ stop'
           \/ /\ maker.orders # <<>> /\ UNCHANGED stop
              /\ trade_buffer' = Append(trade_buffer, Head(maker.orders))
              /\ maker'.orders = Tail(maker.orders) /\ maker'.next_id = maker.next_id
              /\ maker'.net = maker.net /\ Quotes(maker') = Quotes(maker)
    BY ForwardedStep
  <1>2. trade_buffer \in Seq(Requests) /\ maker.orders \in Seq(Requests)
    BY LedgerTypes
  <1>3. CASE UNCHANGED <<maker, trade_buffer>> /\ stop'
    BY <1>1, <1>3 DEF NumberInv, SoloInv
  <1>4. ASSUME maker.orders # <<>>, UNCHANGED stop,
               trade_buffer' = Append(trade_buffer, Head(maker.orders)),
               maker'.orders = Tail(maker.orders), maker'.next_id = maker.next_id,
               Quotes(maker') = Quotes(maker)
        PROVE  NumberInv' /\ SoloInv'
    <2>1. /\ Head(maker.orders) \in Requests /\ Head(maker.orders) \in ToSet(maker.orders)
          /\ ToSet(Tail(maker.orders)) \subseteq ToSet(maker.orders)
      BY <1>2, <1>4, Parted
    <2>2. ToSet(trade_buffer') = ToSet(trade_buffer) \cup {Head(maker.orders)}
      BY <1>2, <1>4, <2>1, Appended
    <2>3. Numbered(maker')
      BY <1>4, <2>1 DEF NumberInv, Numbered
    <2>4. \A r \in ToSet(trade_buffer') : r.id < maker'.next_id
      BY <1>4, <2>1, <2>2 DEF NumberInv, Numbered
    <2>5. NumberInv'
      BY <1>1, <1>4, <2>3, <2>4 DEF NumberInv
    <2>6. SoloInv'
      BY <1>2, <1>4, SoloTail DEF SoloInv
    <2> QED
      BY <2>5, <2>6
  <1> QED
    BY <1>1, <1>3, <1>4

\* OmsTakes: what is open has an id that was sent.
LEMMA NumbersTake ==
    ASSUME StateInv, OmsTakes, NumberInv, SoloInv
    PROVE  NumberInv' /\ SoloInv'
  <1>1. /\ trade_buffer # <<>> /\ trade_buffer' = Tail(trade_buffer)
        /\ UNCHANGED <<maker, update_buffer, stop>>
    BY DEF OmsTakes, traderVars
  <1>2. PICK r : r = Head(trade_buffer)
    OBVIOUS
  <1>3. trade_buffer \in Seq(Requests) /\ open \in [Ids -> Nat]
    BY LedgerTypes
  <1>4. /\ r \in Requests /\ r \in ToSet(trade_buffer)
        /\ ToSet(Tail(trade_buffer)) \subseteq ToSet(trade_buffer)
    BY <1>1, <1>2, <1>3, Parted
  <1>5. \A x \in Ids : x # r.id => open'[x] = open[x]
    BY <1>2, <1>3 DEF OmsTakes
  <1>6. r.id \in Ids /\ r.id < maker.next_id
    BY <1>4 DEF NumberInv, Requests, Request
  <1>7. maker.next_id \in Nat
    BY LedgerTypes
  <1>8. \A x \in Ids : x >= maker.next_id => open'[x] = 0
    <2>1. ASSUME NEW x \in Ids, x >= maker.next_id PROVE x # r.id
      BY <1>6, <1>7, <2>1, TraderAssumption DEF Ids
    <2> QED
      BY <1>5, <2>1 DEF NumberInv
  <1>9. NumberInv'
    BY <1>1, <1>4, <1>8 DEF NumberInv
  <1> QED
    BY <1>1, <1>9 DEF SoloInv

\* OmsFills: only what is open is filled.
LEMMA NumbersFill ==
    ASSUME StateInv, NEW id \in Ids, NEW q \in Nat, OmsFills(id, q), NumberInv, SoloInv
    PROVE  NumberInv' /\ SoloInv'
  <1>1. /\ q \in 1 .. open[id] /\ open' = [open EXCEPT ![id] = @ - q]
        /\ update_buffer' = Append(update_buffer, [id |-> id, quantity |-> q])
        /\ UNCHANGED <<maker, trade_buffer, stop>>
    BY DEF OmsFills, traderVars
  <1>2. /\ update_buffer \in Seq(Fills) /\ open \in [Ids -> Nat] /\ maker.next_id \in Nat
    BY LedgerTypes
  <1>3. PICK f : f = [id |-> id, quantity |-> q] /\ f \in Fills /\ f.id = id
    <2>1. q \in Nat \ {0}
      BY <1>1, <1>2
    <2>2. [id |-> id, quantity |-> q] \in Fills
      BY <2>1 DEF Fills
    <2> QED
      BY <2>2
  <1>4. ToSet(update_buffer') = ToSet(update_buffer) \cup {f}
    BY <1>1, <1>2, <1>3, Appended
  <1>5. open[id] # 0
    BY <1>1, <1>2
  <1>6. id < maker.next_id
    BY <1>2, <1>5, TraderAssumption DEF NumberInv, Ids
  <1>7. \A x \in Ids : x >= maker.next_id => open'[x] = 0
    <2>1. ASSUME NEW x \in Ids, x >= maker.next_id PROVE x # id
      BY <1>2, <1>6, <2>1, TraderAssumption DEF Ids
    <2>2. \A x \in Ids : x # id => open'[x] = open[x]
      BY <1>1, <1>2
    <2> QED
      BY <2>1, <2>2 DEF NumberInv
  <1>8. \A g \in ToSet(update_buffer') : g.id < maker.next_id
    BY <1>3, <1>4, <1>6 DEF NumberInv
  <1>9. NumberInv'
    BY <1>1, <1>7, <1>8 DEF NumberInv
  <1> QED
    BY <1>1, <1>9 DEF SoloInv

-----------------------------------------------------------------------------
(* One lemma per action: the accounts. *)

\* The accounts follow the strategy through a change that numbers new orders.
LEMMA FollowsFresh ==
    ASSUME NEW m, NEW c, KeptFresh(m, c), NEW T \in Seq(Requests), NEW x \in Ids, NEW o \in Nat,
           NEW p \in Nat, NEW all \in BOOLEAN,
           Account(T \o m.orders, x, o, p, Quotes(m)[x], all),
           x >= m.next_id => Unused(T, x, o, p)
    PROVE  Account(T \o c.orders, x, o, p, Quotes(c)[x], all)
  BY DEF KeptFresh

\* ReadBbo
LEMMA LedgerQuotes ==
    ASSUME StateInv, NEW bbo \in Snapshots, ReadBbo(bbo), NumberInv, NEW all \in BOOLEAN,
           Balanced(all), all => Tally
    PROVE  Balanced(all)' /\ (all => Tally')
  <1>1. /\ trader = "bbo" /\ ~stop /\ maker.next_id + 1 <= MaxOrders
        /\ maker' = get_orders(maker, bbo)
        /\ UNCHANGED <<trade_buffer, update_buffer, open, position>>
    BY DEF ReadBbo, omsVars
  <1>2. /\ MakerOK(maker) /\ trade_buffer \in Seq(Requests) /\ update_buffer \in Seq(Fills)
        /\ open \in [Ids -> Nat] /\ maker.next_id \in Nat
    BY LedgerTypes
  <1>3. maker.orders = <<>>
    BY <1>1 DEF StateInv, EmptyInv
  <1>4. Numbered(maker)
    BY DEF NumberInv
  <1>5. KeptFresh(maker, maker') /\ maker'.net = maker.net
    BY <1>1, <1>2, <1>3, <1>4, QuotedKept
  <1>6. ASSUME NEW x \in Ids
        PROVE  \E p \in Nat :
                 /\ Summed(update_buffer, Share(x), p)
                 /\ Account(trade_buffer \o maker'.orders, x, open[x], p, Quotes(maker')[x], all)
    <2>1. PICK p \in Nat :
            /\ Summed(update_buffer, Share(x), p)
            /\ Account(trade_buffer \o maker.orders, x, open[x], p, Quotes(maker)[x], all)
      BY DEF Balanced
    <2>2. PICK o \in Nat : o = open[x]
      BY <1>2
    <2>3. ASSUME x >= maker.next_id PROVE Unused(trade_buffer, x, o, p)
      <3>1. x \in Nat
        BY TraderAssumption DEF Ids
      <3>2. o = 0
        BY <2>2, <2>3 DEF NumberInv
      <3>3. ASSUME NEW f \in ToSet(update_buffer) PROVE f.id # x
        BY <2>3, <3>1, <1>2 DEF NumberInv
      <3>4. p = 0
        BY <3>3, <2>1, <1>2, OwedNone
      <3>5. ASSUME NEW n \in 1 .. Len(trade_buffer) PROVE trade_buffer[n].id # x
        <4>1. trade_buffer[n] \in ToSet(trade_buffer)
          BY DEF ToSet
        <4> QED
          BY <4>1, <2>3, <3>1, <1>2 DEF NumberInv
      <3> QED
        BY <3>2, <3>4, <3>5 DEF Unused
    <2>4. Account(trade_buffer \o maker.orders, x, o, p, Quotes(maker)[x], all)
      BY <2>1, <2>2
    <2>5. Account(trade_buffer \o maker'.orders, x, o, p, Quotes(maker')[x], all)
      BY <2>3, <2>4, <1>2, <1>5, FollowsFresh
    <2> QED
      BY <2>1, <2>2, <2>5
  <1>7. Balanced(all)'
    BY <1>1, <1>6 DEF Balanced
  <1> QED
    BY <1>1, <1>5, <1>7 DEF Tally

\* Reject
LEMMA LedgerRefuses ==
    ASSUME StateInv, NEW risk, Reject(risk), SoloInv, NEW all \in BOOLEAN,
           Balanced(all), all => Tally
    PROVE  Balanced(all)' /\ (all => Tally')
  <1>1. /\ Moved(maker, maker')
        /\ UNCHANGED <<trade_buffer, update_buffer, open, position, stop>>
    BY RefusedStep
  <1>2. trade_buffer \in Seq(Requests) /\ open \in [Ids -> Nat]
    BY LedgerTypes
  <1>3. ASSUME NEW x \in Ids
        PROVE  \E p \in Nat :
                 /\ Summed(update_buffer, Share(x), p)
                 /\ Account(trade_buffer \o maker'.orders, x, open[x], p, Quotes(maker')[x], all)
    <2>1. PICK p \in Nat :
            /\ Summed(update_buffer, Share(x), p)
            /\ Account(trade_buffer \o maker.orders, x, open[x], p, Quotes(maker)[x], all)
      BY DEF Balanced
    <2>2. open[x] \in Nat
      BY <1>2
    <2>3. Account(trade_buffer \o maker'.orders, x, open[x], p, Quotes(maker')[x], all)
      BY <2>1, <2>2, <1>1, <1>2, FollowsMove
    <2> QED
      BY <2>1, <2>3
  <1>4. Balanced(all)'
    BY <1>1, <1>3 DEF Balanced
  <1>5. maker'.net = maker.net
    BY <1>1 DEF Moved
  <1> QED
    BY <1>1, <1>4, <1>5 DEF Tally

\* Forward
LEMMA LedgerForwards ==
    ASSUME StateInv, NEW risk, Forward(risk), NEW all \in BOOLEAN, Balanced(all), all => Tally
    PROVE  Balanced(all)' /\ (all => Tally')
  <1>1. /\ UNCHANGED <<update_buffer, open, position>>
        /\ \/ UNCHANGED <<maker, trade_buffer>> /\ stop'
           \/ /\ maker.orders # <<>> /\ UNCHANGED stop
              /\ trade_buffer' = Append(trade_buffer, Head(maker.orders))
              /\ maker'.orders = Tail(maker.orders) /\ maker'.next_id = maker.next_id
              /\ maker'.net = maker.net /\ Quotes(maker') = Quotes(maker)
    BY ForwardedStep
  <1>2. trade_buffer \in Seq(Requests) /\ maker.orders \in Seq(Requests)
    BY LedgerTypes
  <1>3. /\ trade_buffer' \o maker'.orders = trade_buffer \o maker.orders
        /\ Quotes(maker') = Quotes(maker) /\ maker'.net = maker.net
    BY <1>1, <1>2, ForwardKeeps
  <1>4. Balanced(all)'
    BY <1>1, <1>3 DEF Balanced
  <1> QED
    BY <1>1, <1>3, <1>4 DEF Tally

\* Of the order of a request that no fill crosses nothing is owed.
LEMMA NothingOwed ==
    ASSUME StateInv, NEW r \in ToSet(trade_buffer), r.type # "New", r.type \notin Crossing,
           NEW p, Summed(update_buffer, Share(r.id), p)
    PROVE  p = 0
  <1>1. update_buffer \in Seq(Fills)
    BY LedgerTypes
  <1>2. ASSUME NEW f \in ToSet(update_buffer), f.id = r.id PROVE FALSE
    <2>1. r.type \in Crossing
      BY <1>2 DEF Crossing, FillsUnderWay, RequestsUnderWay
    <2> QED
      BY <2>1
  <1> QED
    BY <1>1, <1>2, OwedNone

\* OmsTakes
LEMMA LedgerTakes ==
    ASSUME StateInv, OmsTakes, NEW all \in BOOLEAN, Balanced(all),
           "Update" \notin Crossing, all => "Cancel" \notin Crossing /\ Tally
    PROVE  Balanced(all)' /\ (all => Tally')
  <1>1. /\ trade_buffer # <<>> /\ trade_buffer' = Tail(trade_buffer)
        /\ UNCHANGED <<maker, update_buffer, position>>
    BY DEF OmsTakes, traderVars
  <1>2. PICK r : r = Head(trade_buffer)
    OBVIOUS
  <1>3. /\ MakerOK(maker) /\ trade_buffer \in Seq(Requests) /\ maker.orders \in Seq(Requests)
        /\ open \in [Ids -> Nat] /\ Quotes(maker) \in [Ids -> Nat]
    BY LedgerTypes
  <1>4. r \in Requests /\ r \in ToSet(trade_buffer)
    BY <1>1, <1>2, <1>3, Parted
  <1>5. PICK z \in Ids : z = r.id
    BY <1>4 DEF Requests, Request
  <1>6. /\ \A x \in Ids : x # z => open'[x] = open[x]
        /\ open'[z] = Applied(r, open[z])
    BY <1>2, <1>3, <1>5 DEF OmsTakes, Applied
  <1>7. PICK R, S : /\ R = trade_buffer \o maker.orders /\ S = trade_buffer' \o maker.orders
                    /\ Removed(R, 1, S) /\ R[1] = r
    BY <1>1, <1>2, <1>3, TakeRemoves
  <1>8. ASSUME NEW x \in Ids
        PROVE  \E p \in Nat : /\ Summed(update_buffer, Share(x), p)
                              /\ Account(S, x, open'[x], p, Quotes(maker)[x], all)
    <2>1. PICK p \in Nat : /\ Summed(update_buffer, Share(x), p)
                           /\ Account(R, x, open[x], p, Quotes(maker)[x], all)
      BY <1>7 DEF Balanced
    <2>2. PICK o \in Nat, q \in Nat : o = open[x] /\ q = Quotes(maker)[x]
      BY <1>3
    <2>3. Account(R, x, o, p, q, all)
      BY <2>1, <2>2
    <2>4. CASE x # z
      <3>1. Account(S, x, o, p, q, all)
        <4>1. Removed(R, 1, S) /\ Account(R, x, o, p, q, all) /\ R[1].id # x
          BY <2>3, <2>4, <1>5, <1>7
        <4> QED
          BY ONLY <4>1, AccountOtherGone, o \in Nat, p \in Nat, q \in Nat, all \in BOOLEAN
      <3> QED
        BY <2>1, <2>2, <2>4, <3>1, <1>6
    <2>5. CASE x = z
      <3>1. /\ r.type = "Update" => p = 0
            /\ r.type = "Cancel" /\ all => p = 0
        BY <2>1, <2>5, <1>4, <1>5, NothingOwed
      <3>2. /\ Removed(R, 1, S) /\ Account(R, x, o, p, q, all) /\ R[1].id = x
            /\ R[1] \in Requests
            /\ R[1].type = "Update" => p = 0
            /\ R[1].type = "Cancel" /\ all => p = 0
        BY <3>1, <2>3, <2>5, <1>4, <1>5, <1>7
      <3>3. Account(S, x, Applied(R[1], o), p, q, all)
        BY ONLY <3>2, AccountTaken, o \in Nat, p \in Nat, q \in Nat, all \in BOOLEAN
      <3> QED
        BY <2>1, <2>2, <2>5, <3>3, <1>6, <1>7
    <2> QED
      BY <2>4, <2>5
  <1>9. Balanced(all)'
    BY <1>1, <1>7, <1>8 DEF Balanced
  <1> QED
    BY <1>1, <1>9 DEF Tally

\* OmsFills
LEMMA LedgerFills ==
    ASSUME StateInv, NEW id \in Ids, NEW k \in Nat, OmsFills(id, k), NEW all \in BOOLEAN,
           Balanced(all), all => Tally
    PROVE  Balanced(all)' /\ (all => Tally')
  <1>1. /\ k \in 1 .. open[id] /\ open' = [open EXCEPT ![id] = @ - k]
        /\ update_buffer' = Append(update_buffer, [id |-> id, quantity |-> k])
        /\ position' = position + Signed([id |-> id, quantity |-> k])
        /\ UNCHANGED <<maker, trade_buffer>>
    BY DEF OmsFills, traderVars
  <1>2. /\ MakerOK(maker) /\ update_buffer \in Seq(Fills) /\ open \in [Ids -> Nat]
        /\ position \in Int /\ maker.net \in Int /\ Quotes(maker) \in [Ids -> Nat]
        /\ \A x \in Ids : Share(x) \in [Fills -> Int]
        /\ Direction \in [Fills -> Int]
    BY LedgerTypes
  <1>3. k \in Nat \ {0} /\ k <= open[id]
    BY <1>1, <1>2
  <1>4. PICK f \in Fills : f = [id |-> id, quantity |-> k] /\ f.id = id /\ f.quantity = k
    <2>1. [id |-> id, quantity |-> k] \in Fills
      BY <1>3 DEF Fills
    <2> QED
      BY <2>1
  <1>5. update_buffer' = Append(update_buffer, f) /\ position' = position + Signed(f)
    BY <1>1, <1>4
  <1>6. /\ open'[id] = open[id] - k
        /\ \A x \in Ids : x # id => open'[x] = open[x]
    BY <1>1, <1>2
  <1>7. PICK R : R = trade_buffer \o maker.orders
    OBVIOUS
  <1>8. ASSUME NEW x \in Ids
        PROVE  \E p \in Nat : /\ Summed(update_buffer', Share(x), p)
                              /\ Account(R, x, open'[x], p, Quotes(maker)[x], all)
    <2>1. PICK p \in Nat : /\ Summed(update_buffer, Share(x), p)
                           /\ Account(R, x, open[x], p, Quotes(maker)[x], all)
      BY <1>7 DEF Balanced
    <2>2. PICK o \in Nat, q \in Nat : o = open[x] /\ q = Quotes(maker)[x]
      BY <1>2
    <2>3. Account(R, x, o, p, q, all)
      BY <2>1, <2>2
    <2>4. Summed(update_buffer', Share(x), p + Share(x)[f])
      BY <2>1, <1>2, <1>5, SumAppended
    <2>5. Share(x)[f] = IF id = x THEN k ELSE 0
      BY <1>4, WeightFacts
    <2>6. CASE x # id
      <3>1. p + Share(x)[f] = p
        BY <2>5, <2>6
      <3> QED
        BY <2>1, <2>4, <2>6, <3>1, <1>6
    <2>7. CASE x = id
      <3>1. PICK w \in Nat : w = p + k /\ w = p + Share(x)[f]
        BY <2>5, <2>7
      <3>2. Account(R, x, o, p, q, all) /\ k \in Nat \ {0} /\ k <= o
        BY <2>2, <2>3, <2>7, <1>3
      <3>3. Account(R, x, o - k, p + k, q, all)
        BY ONLY <3>2, AccountFilled, o \in Nat, p \in Nat, q \in Nat, all \in BOOLEAN
      <3> QED
        BY <2>2, <2>4, <2>7, <3>1, <3>3, <1>6
    <2> QED
      BY <2>6, <2>7
  <1>9. Balanced(all)'
    BY <1>1, <1>7, <1>8 DEF Balanced
  <1>10. ASSUME all PROVE Tally'
    <2>1. PICK t \in Int : Summed(update_buffer, Direction, t) /\ position = maker.net + t
      BY <1>10 DEF Tally
    <2>2. Summed(update_buffer', Direction, t + Direction[f])
      BY <2>1, <1>2, <1>5, SumAppended
    <2>3. PICK s \in Int : s = Direction[f] /\ s = Signed(f)
      BY <1>4, WeightFacts
    <2>4. position' = maker.net + (t + s) /\ t + s \in Int
      <3>1. PICK a \in Int, n \in Int : a = position /\ n = maker.net
        BY <1>2
      <3>2. a = n + t /\ position' = a + s
        BY <2>1, <2>3, <3>1, <1>5
      <3>3. a + s = n + (t + s)
        BY <3>2
      <3> QED
        BY <3>1, <3>2, <3>3
    <2>5. Summed(update_buffer', Direction, t + s)
      BY <2>2, <2>3
    <2>6. position' = maker'.net + (t + s)
      BY <2>4, <1>1
    <2> QED
      BY <2>4, <2>5, <2>6 DEF Tally
  <1> QED
    BY <1>9, <1>10

-----------------------------------------------------------------------------
(* The accounts balance in every state. *)

\* Without orders there is nothing to balance.
LEMMA LedgerInit == Init => LedgerInv
  <1> SUFFICES ASSUME Init PROVE LedgerInv
    OBVIOUS
  <1>1. /\ maker = NewMaker /\ trade_buffer = <<>> /\ update_buffer = <<>>
        /\ open = [x \in Ids |-> 0] /\ position = 0 /\ crossed = {}
    BY DEF Init
  <1>2. /\ maker.buy.status # "Placed" /\ maker.sell.status # "Placed"
        /\ maker.orders = <<>> /\ maker.net = 0
    BY <1>1 DEF NewMaker, NotPlaced
  <1>3. \A x \in Ids : Quotes(maker)[x] = 0
    BY <1>2 DEF Quotes
  <1>4. ToSet(<<>>) = {}
    BY DEF ToSet
  <1>5. NumberInv
    BY <1>1, <1>2, <1>3, <1>4 DEF NumberInv, Numbered
  <1>6. SoloInv
    BY <1>2, NoUpdatesEmpty DEF SoloInv
  <1>7. Crossing \subseteq crossed
    BY <1>1, <1>2, <1>4 DEF Crossing, RequestsUnderWay
  <1>8. ASSUME NEW x \in Ids, NEW all
        PROVE  /\ Summed(update_buffer, Share(x), 0)
               /\ Account(trade_buffer \o maker.orders, x, open[x], 0, Quotes(maker)[x], all)
    <2>1. trade_buffer \o maker.orders = <<>>
      BY <1>1, <1>2
    <2>2. Settled(<<>>, x, 0)
      BY DEF Settled
    <2>3. open[x] = 0 /\ Quotes(maker)[x] = 0
      BY <1>1, <1>3
    <2>4. Account(<<>>, x, 0, 0, 0, all)
      BY <2>2 DEF Account
    <2> QED
      BY <2>1, <2>3, <2>4, <1>1, SumNone
  <1>9. Balanced(crossed = {})
    BY <1>8 DEF Balanced
  <1>10. Tally
    BY <1>1, <1>2, SumNone DEF Tally
  <1> QED
    BY <1>5, <1>6, <1>7, <1>9, <1>10 DEF LedgerInv

\* Steps that touch neither the orders nor the fills.
LEMMA LedgerRests ==
    ASSUME NumberInv, SoloInv, UNCHANGED <<maker, trade_buffer, update_buffer, open, position>>,
           stop => stop'
    PROVE  /\ NumberInv' /\ SoloInv'
           /\ \A all \in BOOLEAN : Balanced(all) => Balanced(all)'
           /\ Tally => Tally'
  <1>1. NumberInv' /\ SoloInv'
    BY DEF NumberInv, SoloInv
  <1>2. ASSUME NEW all \in BOOLEAN, Balanced(all) PROVE Balanced(all)'
    BY <1>2 DEF Balanced
  <1>3. Tally => Tally'
    BY DEF Tally
  <1> QED
    BY <1>1, <1>2, <1>3

\* What a step must carry over.
Carried(all) ==
    Balanced(all) /\ "Update" \notin Crossing /\ (all => "Cancel" \notin Crossing /\ Tally)
      => Balanced(all)' /\ (all => Tally')

\* A step of the system.
LEMMA LedgerStep ==
    ASSUME StateInv, NumberInv, SoloInv, [Next]_vars, NEW all \in BOOLEAN
    PROVE  NumberInv' /\ SoloInv' /\ Carried(all)
  <1>1. CASE \/ CheckStop \/ NoMoreUpdates \/ StopAtBbo \/ Drained
             \/ OmsWritesRisk \/ RequestStop \/ Ended \/ UNCHANGED vars
    <2>1. /\ UNCHANGED <<maker, trade_buffer, update_buffer, open, position>>
          /\ stop => stop'
      BY <1>1 DEF CheckStop, NoMoreUpdates, StopAtBbo, Drained, OmsWritesRisk, RequestStop,
                  Ended, Return, vars, omsVars, traderVars
    <2> QED
      BY <2>1, LedgerRests DEF Carried
  <1>2. CASE ForwardUpdate
    BY <1>2, NumbersHear, LedgerHears DEF Carried
  <1>3. ASSUME NEW bbo \in Snapshots, ReadBbo(bbo)
        PROVE  NumberInv' /\ SoloInv' /\ Carried(all)
    BY <1>3, NumbersQuote, LedgerQuotes DEF Carried
  <1>4. ASSUME NEW risk \in Risks, Reject(risk)
        PROVE  NumberInv' /\ SoloInv' /\ Carried(all)
    BY <1>4, NumbersRefuse, LedgerRefuses DEF Carried
  <1>5. ASSUME NEW risk \in Risks, Forward(risk)
        PROVE  NumberInv' /\ SoloInv' /\ Carried(all)
    BY <1>5, NumbersForward, LedgerForwards DEF Carried
  <1>6. CASE OmsTakes
    BY <1>6, NumbersTake, LedgerTakes DEF Carried
  <1>7. ASSUME NEW id \in Ids, NEW q \in 1 .. 3 * MARKET_MAKER_ORDER_QUANTITY, OmsFills(id, q)
        PROVE  NumberInv' /\ SoloInv' /\ Carried(all)
    <2>1. q \in Nat
      BY MakerAssumption
    <2> QED
      BY <1>7, <2>1, NumbersFill, LedgerFills DEF Carried
  <1> QED
    BY <1>1, <1>2, <1>3, <1>4, <1>5, <1>6, <1>7 DEF Next, TraderStep

\* Every step keeps the accounts.
LEMMA LedgerNext ==
    ASSUME TraderInv, LedgerInv, [Next]_vars
    PROVE  LedgerInv'
  <1>1. /\ StateInv /\ NumberInv /\ SoloInv /\ Crossing \subseteq crossed
        /\ "Update" \notin crossed => Balanced(crossed = {})
        /\ crossed = {} => Tally
    BY DEF TraderInv, LedgerInv
  <1>2. crossed \subseteq crossed' /\ Crossing' \subseteq crossed'
    <2>1. CASE Next
      BY <2>1 DEF Next
    <2>2. CASE UNCHANGED vars
      <3>1. Crossing' = Crossing /\ crossed' = crossed
        BY <2>2 DEF vars, traderVars, Crossing, RequestsUnderWay, FillsUnderWay
      <3> QED
        BY <3>1, <1>1
    <2> QED
      BY <2>1, <2>2
  <1>3. PICK all \in BOOLEAN : all <=> crossed' = {}
    OBVIOUS
  <1>4. NumberInv' /\ SoloInv' /\ Carried(all)
    BY <1>1, LedgerStep
  <1>5. ASSUME "Update" \notin crossed'
        PROVE  Balanced(all)' /\ (all => Tally')
    <2>1. PICK more \in BOOLEAN : more <=> crossed = {}
      OBVIOUS
    <2>2. Balanced(crossed = {})
      BY <1>1, <1>2, <1>5
    <2>3. Balanced(more)
      BY <2>1, <2>2 DEF Balanced, Account
    <2>4. all => more /\ Tally /\ "Cancel" \notin Crossing
      BY <1>1, <1>2, <1>3, <2>1
    <2>5. Balanced(all)
      BY <2>3, <2>4, BalancedLess
    <2>6. "Update" \notin Crossing
      BY <1>1, <1>2, <1>5
    <2> QED
      BY <1>4, <2>4, <2>5, <2>6 DEF Carried
  <1>6. ASSUME "Update" \notin crossed' PROVE Balanced(crossed = {})'
    BY <1>3, <1>5, <1>6 DEF Balanced, Account
  <1>7. crossed' = {} => Tally'
    BY <1>3, <1>5
  <1> QED
    BY <1>2, <1>4, <1>6, <1>7 DEF LedgerInv

\* The accounts of all orders, in every state of every instance.
THEOREM LedgerInvariant == Spec => []LedgerInv
  <1>1. TraderInv /\ LedgerInv /\ [Next]_vars => LedgerInv'
    BY LedgerNext
  <1> QED
    BY <1>1, LedgerInit, TraderInvariant, PTL DEF Spec

\* What the accounts say of the orders the strategy believes in.
LEMMA LedgerKnows ==
    ASSUME StateInv, LedgerInv, "Update" \notin crossed, NEW id \in Ids
    PROVE  /\ Live(id) => Believed(id) \/ UnderWay("Cancel", id)
           /\ Believed(id) => Live(id) \/ \E f \in FillsUnderWay : f.id = id
  <1>1. PICK R : R = trade_buffer \o maker.orders
    OBVIOUS
  <1>2. /\ R \in Seq(Requests)
        /\ \A n \in 1 .. Len(R) : R[n] \in RequestsUnderWay
        /\ \A r \in RequestsUnderWay : \E n \in 1 .. Len(R) : R[n] = r
    BY <1>1, RequestsListed
  <1>3. /\ MakerOK(maker) /\ update_buffer \in Seq(Fills) /\ open \in [Ids -> Nat]
        /\ Quotes(maker) \in [Ids -> Nat]
    BY LedgerTypes
  <1>4. PICK o \in Nat, q \in Nat : o = open[id] /\ q = Quotes(maker)[id]
    BY <1>3
  <1>5. PICK p \in Nat : /\ Summed(update_buffer, Share(id), p)
                         /\ Account(R, id, o, p, q, crossed = {})
    BY <1>1, <1>4 DEF LedgerInv, Balanced
  <1>6. ASSUME q # 0 PROVE Believed(id)
    BY <1>3, <1>4, <1>6, QuoteFacts DEF Believed
  <1>7. ASSUME q = 0, Live(id) PROVE UnderWay("Cancel", id)
    <2>1. Settled(R, id, o)
      BY <1>5, <1>7 DEF Account
    <2>2. o > 0 \/ \E n \in 1 .. Len(R) : R[n].id = id /\ R[n].type = "New"
      BY <1>2, <1>4, <1>7 DEF Live, UnderWay
    <2>3. \E n \in 1 .. Len(R) : R[n].id = id /\ R[n].type = "Cancel"
      BY <2>1, <2>2, SettledCancel
    <2> QED
      BY <2>3, <1>2 DEF UnderWay
  <1>8. ASSUME Believed(id) PROVE Live(id) \/ \E f \in FillsUnderWay : f.id = id
    <2>1. q > 0
      BY <1>3, <1>4, <1>8, QuoteFacts DEF Believed
    <2>2. PICK b \in Nat : b = o + p /\ Tracked(R, id, b, q)
      BY <1>5, <2>1 DEF Account
    <2>3. b > 0 \/ \E n \in 1 .. Len(R) : R[n].id = id /\ R[n].type = "New"
      BY <2>1, <2>2, <1>2, TrackedLive
    <2>4. CASE \E n \in 1 .. Len(R) : R[n].id = id /\ R[n].type = "New"
      BY <2>4, <1>2 DEF Live, UnderWay
    <2>5. CASE o > 0
      BY <2>5, <1>4 DEF Live
    <2>6. CASE p # 0
      <3>1. \E f \in ToSet(update_buffer) : f.id = id
        BY <2>6, <1>3, <1>5, OwedAny
      <3> QED
        BY <3>1 DEF FillsUnderWay
    <2> QED
      BY <2>2, <2>3, <2>4, <2>5, <2>6
  <1> QED
    BY <1>6, <1>7, <1>8

\* As long as no quantity update meets a fill of its order on the way, an order
\* that is open, or going to be, is one the strategy believes placed or has a
\* cancel on the way for, and the other way round: through every refusal of
\* evaluate_risk, for every market, risk data, buffer size and number of orders.
THEOREM TraderOrdersAreKnown == Spec => []OrdersAreKnown
  <1>1. TraderInv /\ LedgerInv => OrdersAreKnown
    BY LedgerKnows DEF TraderInv, OrdersAreKnown
  <1> QED
    BY <1>1, TraderInvariant, LedgerInvariant, PTL

\* As long as no request meets a fill of its order on the way,
\* net_filled_quantity_ and the fills that PassiveMarketMaker::update has still
\* to hear of are the position the OMS holds.
THEOREM TraderExposureIsKnown == Spec => []ExposureIsKnown
  <1>1. ASSUME TraderInv, LedgerInv, crossed = {} PROVE position = maker.net + Unheard
    <2>1. update_buffer \in Seq(Fills)
      BY <1>1, LedgerTypes DEF TraderInv
    <2>2. PICK t \in Int : Summed(update_buffer, Direction, t) /\ position = maker.net + t
      BY <1>1 DEF LedgerInv, Tally
    <2>3. Unheard = t
      BY <2>1, <2>2, UnheardIs
    <2> QED
      BY <2>2, <2>3
  <1>2. TraderInv /\ LedgerInv => ExposureIsKnown
    BY <1>1 DEF ExposureIsKnown
  <1> QED
    BY <1>2, TraderInvariant, LedgerInvariant, PTL
=============================================================================
