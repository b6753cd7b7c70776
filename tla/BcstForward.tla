------------------------------ MODULE BcstForward ------------------------------
(***************************************************************************)
(* Bcst atoms from the nodes that relay a channel from here: readLoop,     *)
(* forwardBcst and SendBcst of internal/servent/pcp.go with the channel's  *)
(* statistics, known hosts and Broadcast (internal/channel/channel.go).    *)
(*                                                                         *)
(* Every connection has two goroutines: readLoop reads what the node       *)
(* sends, and the stream loop (PCPStream), of which there is here that it  *)
(* takes bcst atoms from bcstCh, and how it ends.  A step ends where the   *)
(* code releases the channel's lock.                                       *)
(***************************************************************************)
EXTENDS Integers, SequencesExt

CONSTANTS
    Conns,      \* connections
    Peers,      \* the nodes at the other end, by session ID
    PeerOf,     \* whose a connection is; a node may have several
    Hosts,      \* nodes whose host atoms travel: Peers and nodes below them
    NoHost,     \* stands for the host in a bcst with no host atom, or with
                \* one that does not name its host
    ReportsOf,  \* per peer: the hosts whose atoms it sends, NoHost included
    Lives,      \* the ttl, hops, and whether we sent it or are its
                \* destination, with which a bcst arrives
    MaxKnown,   \* maxKnownHosts
    QueueLen,   \* capacity of bcstCh
    MaxChanges  \* bound: per host, how often its audience changes

Byte == 0..255

ASSUME NodesAssumption ==
    /\ Peers \subseteq Hosts
    /\ PeerOf \in [Conns -> Peers]
    /\ NoHost \notin Hosts
    /\ ReportsOf \in [Peers -> SUBSET (Hosts \cup {NoHost})]
ASSUME SizesAssumption ==
    /\ MaxKnown \in Nat \ {0} /\ QueueLen \in Nat \ {0}
    /\ MaxChanges \in [Hosts -> Nat]
    /\ Lives \subseteq [ttl : Byte, hops : Byte, ours : BOOLEAN]

VARIABLES
    audience,   \* per host: its listeners, as it knows them
    outputs,    \* c.outputs
    nodeStats,  \* c.nodeStats: the listeners a host has reported, or None
    adrift,     \* hosts whose entry was written last by a connection of
                \* another node, or by one that had removed its own
    knownHosts, \* c.knownHosts, the oldest first
    bcstCh,     \* per connection: atoms waiting to be sent to the node
    loop,       \* per connection: where the stream loop is
    reader      \* per connection: the locals of readLoop

channelVars == <<outputs, nodeStats, adrift, knownHosts>>
vars == <<audience, channelVars, bcstCh, loop, reader>>

None == -1
Counts == UNION {0..MaxChanges[h] : h \in Hosts}

(* A bcst with the host atom in it, and the connection it came in by.      *)
Bcsts == [host : Hosts \cup {NoHost}, listeners : Counts \cup {None},
          ttl : Byte, hops : Byte]
NoBcst == [host |-> "none"]
Forwards == [host : Hosts \cup {NoHost}, ttl : Byte, hops : Byte, from : Peers]

Idle == [pc |-> "read", bcst |-> NoBcst, rest |-> {}]

Init ==
    /\ audience = [h \in Hosts |-> 0]
    /\ outputs = {}
    /\ nodeStats = [h \in Hosts |-> None] /\ adrift = {}
    /\ knownHosts = << >>
    /\ bcstCh = [c \in Conns |-> << >>]
    /\ loop = [c \in Conns |-> "new"]
    /\ reader = [c \in Conns |-> [Idle EXCEPT !.pc = "off"]]

------------------------------------------------------------------------------
(* A host's audience changes.                                              *)
AudienceChanges(h) ==
    /\ audience[h] < MaxChanges[h]
    /\ audience' = [audience EXCEPT ![h] = @ + 1]
    /\ UNCHANGED <<channelVars, bcstCh, loop, reader>>

------------------------------------------------------------------------------
(* The stream loop.  A node that has been admitted is registered; readLoop *)
(* starts once it has been sent the header.                                *)
Connect(c) ==
    /\ loop[c] = "new"
    /\ outputs' = outputs \cup {c}
    /\ loop' = [loop EXCEPT ![c] = "streaming"]
    /\ reader' = [reader EXCEPT ![c] = Idle]
    /\ UNCHANGED <<audience, nodeStats, adrift, knownHosts, bcstCh>>

(* A node that does not read stalls this.                                  *)
sendBcstAtom(c) ==
    /\ loop[c] = "streaming" /\ bcstCh[c] # << >>
    /\ bcstCh' = [bcstCh EXCEPT ![c] = Tail(@)]
    /\ UNCHANGED <<audience, channelVars, loop, reader>>

(* closeCh, a write error or the stall timer ends the loop.                *)
StreamLoopReturns(c) ==
    /\ loop[c] = "streaming"
    /\ loop' = [loop EXCEPT ![c] = "ended"]
    /\ UNCHANGED <<audience, channelVars, bcstCh, reader>>

(* The deferred calls of runStreaming, and what handlePCPRelay does then.  *)
RemoveNodeStats(c) ==
    /\ loop[c] = "ended"
    /\ nodeStats' = [nodeStats EXCEPT ![PeerOf[c]] = None]
    /\ adrift' = adrift \ {PeerOf[c]}
    /\ loop' = [loop EXCEPT ![c] = "removed"]
    /\ UNCHANGED <<audience, outputs, knownHosts, bcstCh, reader>>

CloseAndRemoveOutput(c) ==
    /\ loop[c] = "removed"
    /\ outputs' = outputs \ {c}
    /\ loop' = [loop EXCEPT ![c] = "gone"]
    /\ UNCHANGED <<audience, nodeStats, adrift, knownHosts, bcstCh, reader>>

Ends(c) == RemoveNodeStats(c) \/ CloseAndRemoveOutput(c)

------------------------------------------------------------------------------
(* readLoop.  What was in its buffer when the connection closed is still   *)
(* read.  A bcst may have a host atom in it, with the host's audience at   *)
(* the time; it may be from us or for us.  forwardBcst drops these and     *)
(* what has lived too long.  Without a host it is forwarded all the same.  *)
Dropped(life) == life.ttl = 0 \/ life.ours

Read(c, h, life) ==
    /\ reader[c].pc = "read" /\ h \in ReportsOf[PeerOf[c]]
    /\ ~Dropped(life)
    /\ reader' = [reader EXCEPT
                    ![c].pc = IF h = NoHost THEN "outputs" ELSE "host",
                    ![c].bcst =
                      [host |-> h,
                       listeners |-> IF h = NoHost THEN None ELSE audience[h],
                       ttl |-> life.ttl, hops |-> life.hops]]
    /\ UNCHANGED <<audience, channelVars, bcstCh, loop>>

(* A host that is known keeps its place; the oldest makes room.            *)
WithHost(h) ==
    IF h \in ToSet(knownHosts) THEN knownHosts
    ELSE Append(IF Len(knownHosts) >= MaxKnown THEN Tail(knownHosts)
                                               ELSE knownHosts, h)

AddKnownHost(c) ==
    /\ reader[c].pc = "host"
    /\ knownHosts' = WithHost(reader[c].bcst.host)
    /\ reader' = [reader EXCEPT ![c].pc = "stats"]
    /\ UNCHANGED <<audience, outputs, nodeStats, adrift, bcstCh, loop>>

Removes(c, h) == PeerOf[c] = h /\ loop[c] \in {"streaming", "ended"}

extractNodeStats(c) ==
    /\ reader[c].pc = "stats"
    /\ LET b == reader[c].bcst IN
       /\ nodeStats' = [nodeStats EXCEPT ![b.host] = b.listeners]
       /\ adrift' = IF Removes(c, b.host) THEN adrift \ {b.host}
                                        ELSE adrift \cup {b.host}
    /\ reader' = [reader EXCEPT ![c].pc = "outputs"]
    /\ UNCHANGED <<audience, outputs, knownHosts, bcstCh, loop>>

(* Broadcast copies the outputs and hands the atom to those of other nodes *)
(* one by one.                                                             *)
SendingTo(r, rest) ==
    IF rest = {} THEN Idle ELSE [r EXCEPT !.pc = "send", !.rest = rest]
(* Mutant: a node's other connection is forgotten.                         *)
BroadcastTo_ButSender(c) == outputs \ {c}

BroadcastTo(c) == {o \in outputs : PeerOf[o] # PeerOf[c]}

Broadcast(c) ==
    /\ reader[c].pc = "outputs"
    /\ reader' = [reader EXCEPT ![c] = SendingTo(@, BroadcastTo(c))]
    /\ UNCHANGED <<audience, channelVars, bcstCh, loop>>

(* ttl and hops are bytes.                                                 *)
rebuildBcst(b, c) ==
    [host |-> b.host, ttl |-> (b.ttl - 1) % 256, hops |-> (b.hops + 1) % 256,
     from |-> PeerOf[c]]

(* Mutant: readLoop waits for room in the queue of another connection.     *)
SendBcst_Blocks(c, o) ==
    /\ reader[c].pc = "send" /\ o \in reader[c].rest
    /\ Len(bcstCh[o]) < QueueLen
    /\ bcstCh' = [bcstCh EXCEPT ![o] = Append(@, rebuildBcst(reader[c].bcst, c))]
    /\ reader' = [reader EXCEPT ![c] = SendingTo(@, @.rest \ {o})]
    /\ UNCHANGED <<audience, channelVars, loop>>

(* An atom for which there is no room is dropped.                          *)
SendBcst(c, o) ==
    /\ reader[c].pc = "send" /\ o \in reader[c].rest
    /\ bcstCh' = IF Len(bcstCh[o]) >= QueueLen THEN bcstCh
                 ELSE [bcstCh EXCEPT ![o] = Append(@, rebuildBcst(reader[c].bcst, c))]
    /\ reader' = [reader EXCEPT ![c] = SendingTo(@, @.rest \ {o})]
    /\ UNCHANGED <<audience, channelVars, loop>>

(* The node goes away or says quit, or the connection has been closed.     *)
(* Close makes the loop return, if it has not.                             *)
ReadFails(c) ==
    /\ reader[c].pc = "read"
    /\ reader' = [reader EXCEPT ![c].pc = "done"]
    /\ UNCHANGED <<audience, channelVars, bcstCh, loop>>

ReadLoop(c) ==
    \/ AddKnownHost(c) \/ extractNodeStats(c)
    \/ Broadcast(c) \/ (\E o \in Conns : SendBcst(c, o))

------------------------------------------------------------------------------
Next ==
    \/ \E h \in Hosts : AudienceChanges(h)
    \/ \E c \in Conns :
        \/ Connect(c) \/ sendBcstAtom(c) \/ StreamLoopReturns(c) \/ Ends(c)
        \/ (\E h \in Hosts \cup {NoHost}, life \in Lives : Read(c, h, life))
        \/ ReadLoop(c) \/ ReadFails(c)

(* The loops go on by themselves.  Nodes need not read, send or leave, but *)
(* what has been closed is read to its end.                                *)
Fairness ==
    \A c \in Conns :
        /\ WF_vars(ReadLoop(c)) /\ WF_vars(Ends(c))
        /\ WF_vars(loop[c] = "gone" /\ ReadFails(c))
        /\ WF_vars(reader[c].pc = "done" /\ StreamLoopReturns(c))

Spec == Init /\ [][Next]_vars /\ Fairness

------------------------------------------------------------------------------
(* Type correctness.                                                       *)
TypeOK ==
    /\ audience \in [Hosts -> Counts]
    /\ outputs \subseteq Conns
    /\ nodeStats \in [Hosts -> Counts \cup {None}] /\ adrift \subseteq Hosts
    /\ knownHosts \in Seq(Hosts)
    /\ bcstCh \in [Conns -> Seq(Forwards)]
    /\ loop \in [Conns -> {"new", "streaming", "ended", "removed", "gone"}]
    /\ reader \in [Conns ->
            [pc : {"off", "read", "host", "stats", "outputs", "send", "done"},
             bcst : Bcsts \cup {NoBcst}, rest : SUBSET Conns]]

(* What a node sends is never on its way back to it, by any of its         *)
(* connections, and never with more life than it had (a ttl of 0 would     *)
(* become 255).                                                            *)
NoEcho ==
    \A o \in Conns : \A i \in DOMAIN bcstCh[o] :
        LET sent == bcstCh[o][i] IN
        /\ sent.from # PeerOf[o]
        /\ \E life \in Lives : life.ttl > sent.ttl /\ ~life.ours

(* The hosts handed out to a node there is no room for are different ones, *)
(* and as many as may be kept.                                             *)
KnownHostsDiffer ==
    /\ Len(knownHosts) <= MaxKnown /\ IsInjective(knownHosts)

(* Who is counted is connected, or was counted for a connection that had   *)
(* ended, or on another node's word: a node that connects anew before its  *)
(* old connection has ended included.                                      *)
StatsHaveSource ==
    \A h \in Hosts :
        nodeStats[h] # None => h \in adrift \/ \E c \in Conns : Removes(c, h)

BcstInv == TypeOK /\ NoEcho /\ KnownHostsDiffer /\ StatsHaveSource

(* A node that stays connected by one connection, its others having ended, *)
(* and goes on reporting is in the end counted with the audience it has:   *)
(* whatever the end of an old connection has removed, whatever late report *)
(* of it was read after, and though other nodes read nothing we forward.   *)
HandlesOwn(c) ==
    reader[c].pc \notin {"off", "read", "done"} /\ reader[c].bcst.host = PeerOf[c]

Remains(c) ==
    /\ loop[c] = "streaming" /\ reader[c].pc # "done"
    /\ \A d \in Conns \ {c} : PeerOf[d] = PeerOf[c] =>
            loop[d] \in {"new", "gone"} /\ reader[d].pc \in {"off", "done"}

StatsConverge ==
    \A c \in Conns :
        <>[]Remains(c) /\ []<>HandlesOwn(c)
        => <>[](nodeStats[PeerOf[c]] = audience[PeerOf[c]])

==============================================================================
