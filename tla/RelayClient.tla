----------------------------- MODULE RelayClient -----------------------------
(***************************************************************************)
(* A relay client: Run and connectTo of internal/relay/client.go with the  *)
(* choice of a host in select.go, the hosts it has learned of in           *)
(* sourcenode.go, and those it ignores for a while in ignorednode.go.      *)
(*                                                                         *)
(* The client is one goroutine.  A second one, per connection, reports     *)
(* the audience upstream (bcstHostLoop); Stop cancels the context, which   *)
(* interrupts a dial and closes the connection.  What the upstream says    *)
(* and when it falls silent is left open.  The media it sends goes to the  *)
(* channel (HTTPStream has that writer) and is left out here.              *)
(***************************************************************************)
EXTENDS Naturals

CONSTANTS
    Addrs,         \* addresses of hosts
    Tracker,       \* trackerAddr
    Sessions,      \* session IDs of hosts
    Announcements, \* what a HOST atom may say
    NoAddr,        \* an address that a host does not have, or no upstream yet
    NoNode,        \* a session nothing, or nothing recent, is known of
    NoReport,      \* the present upstream has been told nothing yet
    Garbled,       \* a report broke off within an atom: whatever follows on
                   \* the connection cannot be understood
    MaxAudience    \* bound on listeners and relays

(* strong: the random part of the score, which counts the host's relays,   *)
(* may come out above the bonus of a host behind the same NAT.             *)
SourceNode ==
    [session : Sessions, global : Addrs \cup {NoAddr}, local : Addrs \cup {NoAddr},
     ourIP : BOOLEAN, firewalled : BOOLEAN, strong : BOOLEAN]

ASSUME AddrsAssumption == Tracker \in Addrs /\ NoAddr \notin Addrs
ASSUME NodesAssumption ==
    /\ Announcements \subseteq SourceNode /\ NoNode \notin Announcements
    /\ \A n \in Announcements : n.global # NoAddr \/ n.local # NoAddr
ASSUME AudienceAssumption ==
    MaxAudience \in Nat /\ NoReport \notin Nat /\ Garbled \notin Nat

VARIABLES
    pc,          \* where Run is
    target,      \* targetAddr
    reason,      \* why the connection to target ended
    sourceNodes, \* per session: the last announcement, for three minutes
    ignored,     \* the entries of ignoredNodes that have not expired
    recent,      \* the addresses whose last connection ended not longer ago
    knowsIP,     \* whether the global IP has been learned
    upstream,    \* the node that is named to downstream nodes on shutdown
    cancelled,   \* whether Stop has been called
    audience,    \* NumListeners and NumRelays of the channel
    bcst,        \* bcstHostLoop: where it is, and what it last saw
    reported     \* the audience that the present upstream was last told

reporting == <<audience, bcst, reported>>
hosts == <<sourceNodes, ignored, recent, knowsIP>>
vars == <<pc, target, reason, hosts, upstream, cancelled, reporting>>

Init ==
    /\ pc = "select" /\ target = Tracker /\ reason = "error"
    /\ sourceNodes = [s \in Sessions |-> NoNode]
    /\ ignored = {} /\ recent = {}
    /\ knowsIP = FALSE
    /\ upstream = NoAddr
    /\ cancelled = FALSE
    /\ audience = 0
    /\ bcst = [pc |-> "off", last |-> 0]
    /\ reported = NoReport

------------------------------------------------------------------------------
(* selectSourceHost.                                                       *)

SameNAT(n) == knowsIP /\ n.ourIP

AddrOf(n) == IF SameNAT(n) /\ n.local # NoAddr THEN n.local ELSE n.global

Known == {sourceNodes[s] : s \in Sessions} \ {NoNode}

Connectable ==
    {n \in Known : ~n.firewalled /\ AddrOf(n) # NoAddr /\ AddrOf(n) \notin ignored}

(* The score is random but for the bonus of the same NAT.                  *)
MayWin(n) == SameNAT(n) \/ n.strong \/ \A m \in Connectable : ~SameNAT(m)

Fallback_Unknown == IF Known = {} THEN {Tracker} \ ignored ELSE {}
Fallback == {Tracker} \ ignored

Choices ==
    IF Connectable # {} THEN {AddrOf(n) : n \in {m \in Connectable : MayWin(m)}}
                        ELSE Fallback

Select ==
    /\ pc = "select"
    /\ \/ /\ cancelled \/ Choices = {}
          /\ pc' = "ended"
          /\ UNCHANGED target
       \/ /\ ~cancelled
          /\ target' \in Choices
          /\ pc' = "dial"
    /\ UNCHANGED <<reason, hosts, upstream, cancelled, reporting>>

------------------------------------------------------------------------------
(* connectTo.                                                              *)

(* The connection is over, for the reason r; bcstHostLoop is told to stop. *)
Ended(r) ==
    /\ reason' = r
    /\ pc' = "decide"
    /\ bcst' = [bcst EXCEPT !.pc = "off"]

Dial ==
    /\ pc = "dial"
    /\ \/ ~cancelled /\ pc' = "handshake" /\ UNCHANGED <<reason, bcst>>
       \/ Ended("error")
    /\ UNCHANGED <<target, hosts, upstream, cancelled, audience, reported>>

(* The upstream answers 200 or 503 with an oleh atom, or with a quit atom. *)
QuitReasons == {"unavailable", "offAir"}

Accepted ==
    /\ pc = "handshake"
    /\ upstream' = target
    /\ \/ /\ pc' = "body"
          /\ bcst' = [pc |-> "sample", last |-> 0]
          /\ reported' = NoReport
       \/ pc' = "hosts" /\ UNCHANGED <<bcst, reported>>
    /\ UNCHANGED <<target, reason, hosts, cancelled, audience>>

HandshakeFails ==
    /\ pc = "handshake"
    /\ \E r \in QuitReasons \cup {"error"} : Ended(r)
    /\ UNCHANGED <<target, hosts, upstream, cancelled, audience, reported>>

(* The cancelled context closes the connection, which ends every read.     *)
Interrupted_Never == FALSE
Interrupted == cancelled

HandshakeInterrupted ==
    /\ pc = "handshake" /\ Interrupted
    /\ Ended("error")
    /\ UNCHANGED <<target, hosts, upstream, cancelled, audience, reported>>

(* processBody or processHosts reads an atom.  HOST atoms come by          *)
(* themselves and, to processBody, in BCST atoms.  An atom that came just  *)
(* before the context was cancelled is still processed.                    *)
Reading == pc \in {"body", "hosts"}

LearnHost ==
    /\ Reading
    /\ \E n \in Announcements :
         sourceNodes' = [sourceNodes EXCEPT ![n.session] = n]
    /\ UNCHANGED <<pc, target, reason, ignored, recent, knowsIP, upstream,
                   cancelled, reporting>>

(* A quit atom, a failed read or 60 s of silence, or the context: from     *)
(* processBody the client says goodbye, within 3 s.                        *)
ReadEnds(r) ==
    \/ pc = "body" /\ pc' = "quit" /\ reason' = r /\ UNCHANGED bcst
    \/ pc = "hosts" /\ Ended(r)

Leave ==
    /\ Reading
    /\ \E r \in QuitReasons \cup {"error"} : ReadEnds(r)
    /\ UNCHANGED <<target, hosts, upstream, cancelled, audience, reported>>

SendQuit ==
    /\ pc = "quit"
    /\ Ended(reason)
    /\ UNCHANGED <<target, hosts, upstream, cancelled, audience, reported>>

(* What follows from the reason.  A host that is full is ignored, and so   *)
(* is one that failed, unless it is the tracker: then the client ends.     *)
Ignore_IfFailed == IF reason = "unavailable" THEN ignored ELSE ignored \cup {target}
Ignore == ignored \cup {target}

Decide ==
    /\ pc = "decide"
    /\ recent' = recent \cup {target}
    /\ \/ /\ reason # "unavailable" /\ target = Tracker
          /\ pc' = "ended"
          /\ UNCHANGED ignored
       \/ /\ reason = "unavailable" \/ target # Tracker
          /\ pc' = "select"
          /\ ignored' = Ignore
    /\ UNCHANGED <<target, reason, sourceNodes, knowsIP, upstream, cancelled,
                   reporting>>

------------------------------------------------------------------------------
(* bcstHostLoop samples the audience, and then reports what it is by then. *)
(* It does so at once, every 120 s, and when it finds a change at 5 s.     *)
Sample ==
    bcst' = [pc |-> "write", last |-> audience]

FirstReport ==
    /\ bcst.pc = "sample" /\ Sample
    /\ UNCHANGED <<pc, target, reason, hosts, upstream, cancelled, audience, reported>>

ChangeReport ==
    /\ bcst.pc = "wait" /\ audience # bcst.last /\ Sample
    /\ UNCHANGED <<pc, target, reason, hosts, upstream, cancelled, audience, reported>>

PeriodicReport_Changed ==
    /\ bcst.pc = "wait" /\ audience # bcst.last /\ Sample
    /\ UNCHANGED <<pc, target, reason, hosts, upstream, cancelled, audience, reported>>
PeriodicReport ==
    /\ bcst.pc = "wait" /\ Sample
    /\ UNCHANGED <<pc, target, reason, hosts, upstream, cancelled, audience, reported>>

writeBcstHost ==
    /\ bcst.pc = "write"
    /\ bcst' = [bcst EXCEPT !.pc = "wait"]
    /\ reported' = IF reported = Garbled THEN Garbled ELSE audience
    /\ UNCHANGED <<pc, target, reason, hosts, upstream, cancelled, audience>>

(* The write times out, or the connection is broken.  Nobody looks at the  *)
(* error, and the loop goes on.                                            *)
writeBcstHostFails ==
    /\ bcst.pc = "write"
    /\ bcst' = [bcst EXCEPT !.pc = "wait"]
    /\ reported' \in {reported, Garbled}
    /\ UNCHANGED <<pc, target, reason, hosts, upstream, cancelled, audience>>

------------------------------------------------------------------------------
(* The surroundings.                                                       *)

Stop ==
    /\ ~cancelled
    /\ cancelled' = TRUE
    /\ UNCHANGED <<pc, target, reason, hosts, upstream, reporting>>

SetGlobalIP ==
    /\ ~knowsIP
    /\ knowsIP' = TRUE
    /\ UNCHANGED <<pc, target, reason, sourceNodes, ignored, recent, upstream,
                   cancelled, reporting>>

AudienceChanges ==
    /\ audience' \in 0..MaxAudience
    /\ UNCHANGED <<pc, target, reason, hosts, upstream, cancelled, bcst, reported>>

(* Three minutes have passed.                                              *)
NodeExpires(s) ==
    /\ sourceNodes' = [sourceNodes EXCEPT ![s] = NoNode]
    /\ UNCHANGED <<pc, target, reason, ignored, recent, knowsIP, upstream,
                   cancelled, reporting>>

IgnoreExpires(a) ==
    /\ ignored' = ignored \ {a}
    /\ recent' = recent \ {a}
    /\ UNCHANGED <<pc, target, reason, sourceNodes, knowsIP, upstream, cancelled,
                   reporting>>

------------------------------------------------------------------------------
Run ==
    \/ Select \/ Dial \/ Accepted \/ HandshakeFails \/ HandshakeInterrupted
    \/ LearnHost \/ Leave \/ SendQuit \/ Decide

bcstHostLoop ==
    \/ FirstReport \/ ChangeReport \/ PeriodicReport
    \/ writeBcstHost \/ writeBcstHostFails

Next ==
    \/ Run \/ bcstHostLoop
    \/ Stop \/ SetGlobalIP \/ AudienceChanges
    \/ \E s \in Sessions : NodeExpires(s)
    \/ \E a \in Addrs : IgnoreExpires(a)

(* The client goes on by itself, except that it waits for the upstream: in *)
(* the handshake without a limit, in the goodbye for 3 s, or without a     *)
(* limit when bcstHostLoop has just taken the deadline away, unless it is  *)
(* interrupted.  Dials and reports have deadlines; the tickers tick.       *)
Fairness ==
    /\ WF_vars(Select \/ Dial \/ Decide)
    /\ WF_vars(HandshakeInterrupted)
    /\ WF_vars(cancelled /\ (Leave \/ SendQuit))
    /\ WF_vars(FirstReport \/ writeBcstHost \/ writeBcstHostFails)
    /\ WF_vars(ChangeReport)
    /\ WF_vars(PeriodicReport)

Spec == Init /\ [][Next]_vars /\ Fairness

------------------------------------------------------------------------------
Places == {"select", "dial", "handshake", "body", "hosts", "quit", "decide", "ended"}

(* Type correctness; bcstHostLoop runs exactly while there is a relayed    *)
(* connection.                                                             *)
TypeOK ==
    /\ pc \in Places
    /\ target \in Addrs
    /\ reason \in QuitReasons \cup {"error"}
    /\ sourceNodes \in [Sessions -> Announcements \cup {NoNode}]
    /\ ignored \subseteq Addrs /\ recent \subseteq Addrs
    /\ knowsIP \in BOOLEAN
    /\ upstream \in Addrs \cup {NoAddr}
    /\ cancelled \in BOOLEAN
    /\ audience \in 0..MaxAudience
    /\ bcst \in [pc : {"off", "sample", "write", "wait"}, last : 0..MaxAudience]
    /\ reported \in (0..MaxAudience) \cup {NoReport, Garbled}
    /\ bcst.pc # "off" <=> pc \in {"body", "quit"}

(* The client never hammers a host: an address it has had to leave, for    *)
(* whatever reason, is not dialled again for three minutes.                *)
NoRedial == pc = "dial" => target \notin recent

(* Reports go out exactly while there is a relayed connection (TypeOK), and *)
(* that connection is never to a host just left.                           *)
DialInv == TypeOK /\ NoRedial

(* The client gives up only after the tracker itself has refused or failed *)
(* it within the last three minutes, whatever other hosts it knew of.      *)
GivesUpAfterTracker ==
    [][pc' = "ended" /\ ~cancelled => Tracker \in recent']_pc

(* A client that is stopped ends, wherever it is: in a dial, in a          *)
(* handshake with a silent host, or in the middle of the stream.           *)
StopEnds == cancelled ~> pc = "ended"

(* When the audience stays as it is and the connection lasts, the upstream *)
(* learns the audience, also when it has changed between being sampled and *)
(* being reported, and when reports were lost: all that is needed is that  *)
(* of many reports one gets through, and that none has broken off within   *)
(* an atom.                                                                *)
UpstreamLearnsAudience ==
    SF_vars(writeBcstHost) =>
        \A n \in 0..MaxAudience :
            <>[](pc = "body" /\ audience = n) => <>[](reported \in {n, Garbled})

==============================================================================
