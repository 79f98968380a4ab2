------------------------ MODULE MCMarketDataHandler ------------------------
(* Five messages through a reorder buffer of four, so that slots are reused  *)
(* and a packet can be too far ahead; a request ring of one, so that two     *)
(* gaps fill it.                                                             *)
EXTENDS MarketDataHandler
=============================================================================
