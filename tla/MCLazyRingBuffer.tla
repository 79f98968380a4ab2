-------------------------- MODULE MCLazyRingBuffer --------------------------
(* A ring of two slots that six items go through: each slot is used three  *)
(* times, and both a full and an empty ring are met with stale cursors.    *)
EXTENDS LazyRingBuffer
=============================================================================
