----------------------------- MODULE MCYPClient -----------------------------
EXTENDS YPClient, TLC

(* Delays of 5, 10, 20 ... 120 seconds are stood for by 1 and 2: one       *)
(* failure gets the delay to its limit.                                    *)
==============================================================================
