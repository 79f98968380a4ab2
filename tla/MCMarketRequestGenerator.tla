---------------------- MODULE MCMarketRequestGenerator ----------------------
(* A container of four ids, exactly as many as the pool has entries, purged *)
(* down to two and repopulated with two: every limit is met again and again. *)
EXTENDS MarketRequestGenerator
=============================================================================
