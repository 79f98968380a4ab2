--------------------------- MODULE MatchingEngine ---------------------------
(***************************************************************************)
(* What an exchange promises: price-time priority.  An incoming order (the *)
(* taker) trades against the best opposing price, oldest order first, one  *)
(* resting order at a time, until it is filled or nothing it accepts is    *)
(* left; the rest of it then joins the back of the queue at its price.     *)
(* CentralLimitOrderBook is shown to implement this.                       *)
(***************************************************************************)
EXTENDS Integers, Sequences, SequencesExt

CONSTANTS Prices,       \* a set of integers
          Quantities,   \* a set of positive integers
          Ids, NULL

VARIABLES ladder,   \* ladder[side][price]: the queue of resting orders there
          taker     \* the order being matched, or NULL

engineVars == <<ladder, taker>>

BookSides == {"Buy", "Sell"}
Other(side) == IF side = "Buy" THEN "Sell" ELSE "Buy"

\* Whether an order of this side limited to `limit' accepts price p.
Accepts(side, limit, p) == IF side = "Buy" THEN p <= limit ELSE p >= limit
\* p is at least as good as q to an order of this side that takes it.
AtLeastAsGood(side, p, q) == IF side = "Buy" THEN p <= q ELSE p >= q

Quoted(side) == {p \in Prices : ladder[side][p] # <<>>}
Acceptable == {p \in Quoted(Other(taker.side)) :
                   Accepts(taker.side, taker.price, p)}

EngineInit == /\ ladder = [side \in BookSides |-> [p \in Prices |-> <<>>]]
              /\ taker = NULL

Arrive(side, price, quantity) ==
    /\ taker = NULL
    /\ taker' = [side |-> side, price |-> price, quantity |-> quantity]
    /\ UNCHANGED ladder

\* One trade: with the oldest order at the best price on the other side.
Match ==
    /\ taker # NULL
    /\ \E p \in Acceptable :
         /\ \A q \in Acceptable : AtLeastAsGood(taker.side, p, q)
         /\ LET queue == ladder[Other(taker.side)][p]
                maker == queue[1]
                traded == IF maker.quantity < taker.quantity
                          THEN maker.quantity ELSE taker.quantity
                left == IF maker.quantity = traded THEN Tail(queue)
                        ELSE [queue EXCEPT ![1].quantity = @ - traded]
            IN  /\ ladder' = [ladder EXCEPT ![Other(taker.side)][p] = left]
                /\ taker' = IF taker.quantity = traded THEN NULL
                            ELSE [taker EXCEPT !.quantity = @ - traded]

\* Nothing acceptable is left: the taker rests, behind everyone at its price.
Rest ==
    /\ taker # NULL
    /\ Acceptable = {}
    /\ \E id \in Ids :
         /\ \A side \in BookSides, p \in Prices :
              \A o \in ToSet(ladder[side][p]) : o.id # id
         /\ ladder' = [ladder EXCEPT ![taker.side][taker.price] =
                          Append(@, [id |-> id, quantity |-> taker.quantity])]
    /\ taker' = NULL

\* The exchange is stopping: the rest of the taker is dropped.
Withdraw == taker # NULL /\ taker' = NULL /\ UNCHANGED ladder

\* The n-th order at a price leaves: the others keep their turns.
Cancel(side, p, n) ==
    /\ taker = NULL
    /\ ladder' = [ladder EXCEPT ![side][p] = RemoveAt(@, n)]
    /\ UNCHANGED taker

\* It has its quantity changed where it stands.
Amend(side, p, n, quantity) ==
    /\ taker = NULL
    /\ ladder' = [ladder EXCEPT ![side][p][n].quantity = quantity]
    /\ UNCHANGED taker

EngineNext ==
    \/ \E side \in BookSides, p \in Prices, q \in Quantities : Arrive(side, p, q)
    \/ Match
    \/ Rest
    \/ Withdraw
    \/ \E side \in BookSides, p \in Prices :
         \E n \in 1 .. Len(ladder[side][p]) :
            Cancel(side, p, n) \/ \E q \in Quantities : Amend(side, p, n, q)

EngineSpec == EngineInit /\ [][EngineNext]_engineVars
=============================================================================
