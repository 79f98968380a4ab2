----------------------- MODULE MarketRequestGenerator -----------------------
(***************************************************************************)
(* src/exchange/order-generator.cpp: the thread that feeds the matching    *)
(* engine with random new orders and cancels, and the only guard against   *)
(* an exhausted order pool (BookState::add has no check of its own).  Its  *)
(* functions call one another in a cycle, cancel -> populate -> new ->     *)
(* purge -> cancel, so the call stack is part of the state.                *)
(*                                                                         *)
(* Of the matching engine (CentralLimitOrderBook) only the set of resting  *)
(* order ids is kept: submitting an order may fill any of them.  An id no  *)
(* longer in use may be given again; ids are only compared for equality.   *)
(***************************************************************************)
EXTENDS Integers, Sequences, SequencesExt, FiniteSets, FiniteSetsExt

CONSTANTS Ids,                      \* order ids
          MAX_ACTIVE_ORDERS,        \* capacity of active_order_ids
          PURGE_UNTIL_WHEN_FULL,
          POPULATE_WHEN_EMPTY,
          MAX_CONCURRENT_ORDERS,    \* size of the book's order pool
          MIN_PRICE, MAX_PRICE,
          DEFAULT_BUY_PRICE, DEFAULT_SELL_PRICE,
          PRICE_VARIANCE, LARGE_PRICE_VARIANCE,
          NULL

\* How config.hpp orders its limits.
ASSUME LimitsAssumption ==
    /\ POPULATE_WHEN_EMPTY \in Nat \ {0}
    /\ PURGE_UNTIL_WHEN_FULL \in POPULATE_WHEN_EMPTY .. MAX_ACTIVE_ORDERS - 1
    /\ MAX_CONCURRENT_ORDERS \in Nat
    /\ MAX_ACTIVE_ORDERS \in 1 .. MAX_CONCURRENT_ORDERS
\* A counter of 64 bits does not run out of ids that are not in use.
ASSUME IdsAssumption ==
    /\ Ids \subseteq Nat
    /\ IsFiniteSet(Ids)
          => Cardinality(Ids) > MAX_ACTIVE_ORDERS + MAX_CONCURRENT_ORDERS
ASSUME PriceAssumption ==
    /\ MIN_PRICE \in Int /\ MAX_PRICE \in Int
    /\ DEFAULT_BUY_PRICE \in MIN_PRICE .. MAX_PRICE
    /\ DEFAULT_SELL_PRICE \in MIN_PRICE .. MAX_PRICE
    /\ PRICE_VARIANCE \in Nat /\ LARGE_PRICE_VARIANCE \in Nat
    /\ NULL \notin Int

VARIABLES stack,        \* where each active call is, the running one last
          active,       \* active_order_ids
          taken,        \* the cancel request's order_id, or NULL
          issued,       \* the id submit() returned, or NULL
          resting,      \* the orders on the book
          stop          \* stop_token.stop_requested()

vars == <<stack, active, taken, issued, resting, stop>>

Init == /\ stack = <<"loop", "populate">>
        /\ active = <<>>
        /\ taken = NULL /\ issued = NULL
        /\ resting = {}
        /\ stop = FALSE

-----------------------------------------------------------------------------
(* RandomContainer *)

is_full == Len(active) = MAX_ACTIVE_ORDERS
\* The result of add() is not looked at: a full container drops the id.
add(id) == active' = IF is_full THEN active ELSE Append(active, id)
is_empty == active = <<>>

\* Mutant: the last item is cut off instead of moved into the hole.
RemoveLast(i) == active' = Front(active)
\* Mutant: get_random in place of remove_random.
GetRandom(i) == active' = active
\* The last item moves into the hole of the removed one.
RemoveRandom(i) == active' = Front([active EXCEPT ![i] = Last(active)])

-----------------------------------------------------------------------------
(* generate_price: the interval a price is drawn from. *)

Largest(x, y) == IF x > y THEN x ELSE y
Smallest(x, y) == IF x < y THEN x ELSE y

Unclamped(type, aggressive, bid, ask) ==
    CASE type = "Buy" /\ ~aggressive ->
           [lo |-> bid - PRICE_VARIANCE, hi |-> bid + PRICE_VARIANCE]
      [] type = "Sell" /\ ~aggressive ->
           [lo |-> ask - PRICE_VARIANCE, hi |-> ask + PRICE_VARIANCE]
      [] type = "Buy" /\ aggressive ->
           [lo |-> ask, hi |-> ask + LARGE_PRICE_VARIANCE]
      [] type = "Sell" /\ aggressive ->
           [lo |-> bid - LARGE_PRICE_VARIANCE, hi |-> bid]

\* Mutant: the clamps are swapped.
PriceRangeSwapped(type, aggressive, best_bid, best_offer) ==
    LET bid == IF best_bid = NULL THEN DEFAULT_BUY_PRICE ELSE best_bid
        ask == IF best_offer = NULL THEN DEFAULT_SELL_PRICE ELSE best_offer
        range == Unclamped(type, aggressive, bid, ask)
    IN  [lo |-> Smallest(range.lo, MIN_PRICE), hi |-> Largest(range.hi, MAX_PRICE)]

\* NULL stands for an empty side of the book (NO_BID, NO_OFFER).
PriceRange(type, aggressive, best_bid, best_offer) ==
    LET bid == IF best_bid = NULL THEN DEFAULT_BUY_PRICE ELSE best_bid
        ask == IF best_offer = NULL THEN DEFAULT_SELL_PRICE ELSE best_offer
        range == Unclamped(type, aggressive, bid, ask)
    IN  [lo |-> Largest(range.lo, MIN_PRICE), hi |-> Smallest(range.hi, MAX_PRICE)]

-----------------------------------------------------------------------------
(* The call stack. *)

Running(pc) == stack # <<>> /\ Last(stack) = pc
Continue(pc) == stack' = Append(Front(stack), pc)
Call(pc, callee) == stack' = Append(Append(Front(stack), pc), callee)
Return == stack' = Front(stack)

\* start(), with generate_and_post_random_order_request: cancel or new order.
StartLoop ==
    /\ Running("loop")
    /\ \/ stop /\ Return
       \/ ~stop /\ \E callee \in {"cancel", "new"} : Call("loop", callee)
    /\ UNCHANGED <<active, taken, issued, resting, stop>>

populate_active_orders ==
    /\ Running("populate")
    /\ IF ~stop /\ Len(active) < POPULATE_WHEN_EMPTY
       THEN Call("populate", "new") ELSE Return
    /\ UNCHANGED <<active, taken, issued, resting, stop>>

\* Mutant: the purge goes on whatever the stop token says.
purge_ignoring_stop ==
    /\ Running("purge")
    /\ IF Len(active) > PURGE_UNTIL_WHEN_FULL THEN Call("purge", "cancel")
       ELSE Return
    /\ UNCHANGED <<active, taken, issued, resting, stop>>

purge_active_orders ==
    /\ Running("purge")
    /\ IF ~stop /\ Len(active) > PURGE_UNTIL_WHEN_FULL
       THEN Call("purge", "cancel") ELSE Return
    /\ UNCHANGED <<active, taken, issued, resting, stop>>

-----------------------------------------------------------------------------
(* generate_and_post_cancel_request *)

CancelLoop ==
    /\ Running("cancel")
    /\ CASE stop -> Return
         [] ~stop /\ is_empty -> Call("take", "populate")
         [] OTHER -> Continue("take")
    /\ UNCHANGED <<active, taken, issued, resting, stop>>

TakeRandom ==
    /\ Running("take")
    /\ \/ is_empty /\ Return /\ UNCHANGED <<active, taken>>
       \/ \E i \in DOMAIN active : /\ taken' = active[i]
                                   /\ RemoveRandom(i)
                                   /\ Continue("taken")
    /\ UNCHANGED <<issued, resting, stop>>

\* An order that was filled meanwhile is only forgotten; one that rests is
\* cancelled, unless submit() sees the stop and does nothing.
SubmitCancel ==
    /\ Running("taken")
    /\ taken' = NULL
    /\ \/ taken \notin resting /\ Continue("cancel") /\ UNCHANGED resting
       \/ taken \in resting /\ Return
          /\ resting' = IF stop THEN resting ELSE resting \ {taken}
    /\ UNCHANGED <<active, issued, stop>>

-----------------------------------------------------------------------------
(* generate_and_post_new_order_request *)

\* Mutant: the limit is not looked at.
MakeNoRoom ==
    /\ Running("new")
    /\ Continue("post")
    /\ UNCHANGED <<active, taken, issued, resting, stop>>

MakeRoom ==
    /\ Running("new")
    /\ IF is_full THEN Call("post", "purge") ELSE Continue("post")
    /\ UNCHANGED <<active, taken, issued, resting, stop>>

FreshId == CHOOSE id \in Ids : id \notin ToSet(active) \cup resting

\* submit() fills some resting orders and rests what is left of the new one.
SubmitRests ==
    /\ Running("post") /\ ~stop
    /\ \E filled \in SUBSET resting :
          resting' = (resting \ filled) \cup {FreshId}
    /\ issued' = FreshId
    /\ Continue("track")
    /\ UNCHANGED <<active, taken, stop>>

\* The new order is filled itself: against whole orders or part of one.
SubmitFilled ==
    /\ Running("post") /\ ~stop
    /\ resting # {}
    /\ \E filled \in SUBSET resting : resting' = resting \ filled
    /\ Return
    /\ UNCHANGED <<active, taken, issued, stop>>

\* The stop came while submit() ran: what is left of the order is dropped,
\* but when it came in the wait for a slot an id is returned all the same.
SubmitCut ==
    /\ Running("post") /\ stop
    /\ \E filled \in SUBSET resting : resting' = resting \ filled
    /\ \/ Return /\ UNCHANGED issued
       \/ Continue("track") /\ issued' = FreshId
    /\ UNCHANGED <<active, taken, stop>>

Track ==
    /\ Running("track")
    /\ add(issued)
    /\ issued' = NULL
    /\ Return
    /\ UNCHANGED <<taken, resting, stop>>

-----------------------------------------------------------------------------
RequestStop == /\ ~stop /\ stack # <<>>
               /\ stop' = TRUE
               /\ UNCHANGED <<stack, active, taken, issued, resting>>

\* start() has returned and its thread is joined.
Joined == stack = <<>> /\ UNCHANGED vars

Step == \/ StartLoop \/ populate_active_orders \/ purge_active_orders
        \/ CancelLoop \/ TakeRandom \/ SubmitCancel
        \/ MakeRoom \/ SubmitRests \/ SubmitFilled \/ SubmitCut \/ Track

Next == Step \/ RequestStop \/ Joined

Spec == Init /\ [][Next]_vars

\* The thread runs.  Every order that is filled at once takes quantity from
\* the finitely many resting ones, so not all of a series of orders are.
FairSpec == Spec /\ WF_vars(Step) /\ SF_vars(SubmitRests)

-----------------------------------------------------------------------------
\* Every order on the book can still be cancelled: it is tracked, or is the
\* one this very call is about.  Were one forgotten, the purge would miss it.
RestingIsTracked ==
    ~stop => resting \subseteq ToSet(active) \cup {taken, issued}

\* The pool has a free entry whenever submit() may rest an order: its
\* allocate() would otherwise read below the free stack (order-pool.hpp:21).
PoolNeverExhausted ==
    Running("post") /\ ~stop => Cardinality(resting) < MAX_CONCURRENT_ORDERS

\* Whenever a price is drawn, whatever the book's best prices are: an empty
\* interval would be undefined behaviour, a price outside the limits would
\* exceed the book's price levels.
PriceRangeIsLegal == Running("post") =>
    \A type \in {"Buy", "Sell"}, aggressive \in BOOLEAN,
       bid, ask \in (MIN_PRICE .. MAX_PRICE) \cup {NULL} :
        LET range == PriceRange(type, aggressive, bid, ask)
        IN  MIN_PRICE <= range.lo /\ range.lo <= range.hi /\ range.hi <= MAX_PRICE

\* Purging and repopulating come to an end: the generator always gets back to
\* its main loop, however many of the tracked orders were filled meanwhile.
ComesBackToLoop == []<>(Running("loop") \/ stop)

\* A stop request is seen at every depth of the recursion.
StopEndsGenerator == stop ~> stack = <<>>
=============================================================================
