---------------------------- MODULE MCRelayClient ----------------------------
EXTENDS RelayClient, TLC

CONSTANTS t, a, b, s1, s2

(* s1 is a host like any other, first connectable and later behind a       *)
(* firewall; s2 is behind our own NAT, with an address in the local net.   *)
MCAnnouncements ==
    {[session |-> s1, global |-> a, local |-> NoAddr, ourIP |-> FALSE,
      firewalled |-> fw, strong |-> TRUE] : fw \in BOOLEAN}
    \cup
    {[session |-> s2, global |-> t, local |-> b, ourIP |-> TRUE,
      firewalled |-> FALSE, strong |-> FALSE]}
==============================================================================
