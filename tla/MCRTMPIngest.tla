---------------------------- MODULE MCRTMPIngest -----------------------------
(* Two connections publish with one key, one with a picture and one with  *)
(* sound, and two channels follow each other under one ID.                 *)
EXTENDS RTMPIngest, TLC

CONSTANTS e1, e2

MCKinds == (e1 :> {"meta", "avc"}) @@ (e2 :> {"aac"})
==============================================================================
