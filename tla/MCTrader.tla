------------------------------ MODULE MCTrader ------------------------------
(* Quantities in units of 25: orders of 75 that shrink to 25, skewed from 25 *)
(* on and by at most 150.  Two pairs of orders, the second of which replaces *)
(* the first, and two fills.                                                 *)
EXTENDS Trader

\* A market with just room enough for a pair, one within the allowed drift of
\* it but too tight, a wide one, and those with a side missing.
MCSnapshots ==
    {[bid |-> 10, offer |-> 18], [bid |-> 12, offer |-> 18],
     [bid |-> 20, offer |-> 60], [bid |-> NO_BID, offer |-> 20],
     [bid |-> 10, offer |-> NO_OFFER], [bid |-> NO_BID, offer |-> NO_OFFER]}

\* Nothing in the way, and one limit reached at a time.
Calm == [is_halted |-> FALSE, orders_sent_in_window |-> 0,
         max_orders_per_window |-> 1, net_position |-> 0, max_position |-> 6,
         pnl |-> 0, max_loss_allowed |-> -1]

MCRisks == {Calm, [Calm EXCEPT !.is_halted = TRUE],
            [Calm EXCEPT !.orders_sent_in_window = 1],
            [Calm EXCEPT !.net_position = 6], [Calm EXCEPT !.net_position = -6],
            [Calm EXCEPT !.pnl = -1]}
=============================================================================
