------------------------- MODULE MCRetransmitServer -------------------------
(* A cache of three messages, so that two that a client misses and the one *)
(* that shows it the gap fit, and an index of six values: of the seven     *)
(* messages the sixth is put under the index that reads as IS_LOCKED, and  *)
(* the seventh under the index of the first.  Of the two clients one is    *)
(* served and one waits for its turn.                                      *)
EXTENDS RetransmitServer

AnySocket == Permutations(Sockets)
=============================================================================
