----------------------- MODULE MCCentralLimitOrderBook -----------------------
(***************************************************************************)
(* The CLOB and the replaying engine on a small book.                      *)
(* Prices -3 and 5 share a slot of the level map, so that probing past,    *)
(* and reusing, tombstones is exercised; words of 16 values hold -8 .. 7.  *)
(***************************************************************************)
EXTENDS BookLadder

NoBid == -8
AnyPrice == {-3, 5}
=============================================================================
