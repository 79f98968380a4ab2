----------------------------- MODULE MCBookUpdate -----------------------------
(* The same book, when Update requests may also name an order at the best    *)
(* price.                                                                    *)
EXTENDS CentralLimitOrderBook

NoBid == -8
AnyPrice == {-3, 5}
===============================================================================
