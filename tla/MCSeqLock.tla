------------------------------ MODULE MCSeqLock ------------------------------
(* One trader reading the BBO with wait_read_next, one thread reading with   *)
(* read_latest, and a writer that may stop writing at any time.              *)
EXTENDS SeqLock
==============================================================================
