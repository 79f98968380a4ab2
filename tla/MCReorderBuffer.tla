--------------------------- MODULE MCReorderBuffer ---------------------------
(* Two writers, four slots, packets 1 .. 5: slot 1 is used twice, and a       *)
(* writer can be one packet too far ahead of the reader.                      *)
EXTENDS ReorderBuffer
=============================================================================
