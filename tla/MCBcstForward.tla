---------------------------- MODULE MCBcstForward ----------------------------
(* Node p connects twice, once anew before the old connection has ended;   *)
(* node q may read nothing of what p sends.                                *)
EXTENDS BcstForward, TLC

CONSTANTS c1, c2, c3, p, q, f

MCPeerOf == (c1 :> p) @@ (c2 :> p) @@ (c3 :> q)
MCReportsOf == (p :> {p, f, NoHost}) @@ (q :> {})
MCMaxChanges == (p :> 1) @@ (q :> 0) @@ (f :> 0)

(* A bcst to forward, the last time; one that has lived its life; our own. *)
MCLives == {[ttl |-> 1, hops |-> 255, ours |-> FALSE],
            [ttl |-> 0, hops |-> 0, ours |-> FALSE],
            [ttl |-> 2, hops |-> 0, ours |-> TRUE]}
==============================================================================
