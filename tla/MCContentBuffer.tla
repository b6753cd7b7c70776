--------------------------- MODULE MCContentBuffer ---------------------------
(* A ring of two packets, two writers whose positions know nothing of each *)
(* other, four writes and two headers: the ring wraps and the header       *)
(* changes on both sides of the wrap.                                      *)
EXTENDS ContentBuffer
==============================================================================
