---------------------------- MODULE MCHTTPStream ----------------------------
(* One viewer, a ring of two packets that two writes fill, and two header  *)
(* changes: the positions begin anew under a viewer that streams, with a   *)
(* new header and without.  One writer whose positions are free stands for *)
(* two that take turns; what they do at the same time is left to the       *)
(* proofs, which are for any number of them.                               *)
EXTENDS HTTPStream
==============================================================================
