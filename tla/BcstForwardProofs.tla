------------------------- MODULE BcstForwardProofs --------------------------
(***************************************************************************)
(* Proofs about BcstForward, for any nodes and connections, any lives that *)
(* bcst atoms arrive with and any limits: what a node sends never returns  *)
(* to it, and the hosts kept and counted are what they are kept for.       *)
(***************************************************************************)
EXTENDS BcstForward, TLAPS

(* Where readLoop is while it has an atom in its hands.                    *)
Handled == {"host", "stats", "outputs", "send"}

(* Of a connection and the locals of its readLoop: the atom in its hands   *)
(* is well formed and one that readLoop does not drop, one whose host is   *)
(* still to be remembered or counted names it, and what is left to be sent *)
(* to is other nodes'.                                                     *)
Carries(c, r) ==
    /\ r.pc \in Handled =>
         /\ r.bcst \in Bcsts /\ r.bcst.ttl > 0
         /\ \E life \in Lives : life.ttl = r.bcst.ttl /\ ~life.ours
    /\ r.pc \in {"host", "stats"} =>
         r.bcst.host \in Hosts /\ r.bcst.listeners \in Counts
    /\ \A o \in r.rest : PeerOf[o] # PeerOf[c]

(* The inductive invariant.                                                *)
IInv == /\ BcstInv
        /\ \A c \in Conns : Carries(c, reader[c])

(* The locals of readLoop, by name.                                        *)
Readers == [pc : {"off", "read", "host", "stats", "outputs", "send", "done"},
            bcst : Bcsts \cup {NoBcst}, rest : SUBSET Conns]

LEMMA ReaderTyped == TypeOK => reader \in [Conns -> Readers]
BY DEF TypeOK, Readers

(* The invariant holds at first.                                           *)
LEMMA InitInv == Init => IInv
<1> SUFFICES ASSUME Init PROVE IInv
  OBVIOUS
<1>1. \A h \in Hosts : 0 \in Counts
  BY SizesAssumption DEF Counts
<1>2. Idle \in Readers /\ [Idle EXCEPT !.pc = "off"] \in Readers
  BY DEF Idle, Readers
<1>3. /\ reader \in [Conns -> Readers]
      /\ \A c \in Conns : reader[c].pc = "off" /\ reader[c].rest = {}
  BY <1>2 DEF Init, Idle
<1>4. TypeOK
  <2>1. reader \in [Conns ->
            [pc : {"off", "read", "host", "stats", "outputs", "send", "done"},
             bcst : Bcsts \cup {NoBcst}, rest : SUBSET Conns]]
    BY <1>3 DEF Readers
  <2>2. /\ audience \in [Hosts -> Counts]
        /\ outputs \subseteq Conns
        /\ nodeStats \in [Hosts -> Counts \cup {None}] /\ adrift \subseteq Hosts
        /\ knownHosts \in Seq(Hosts)
    BY <1>1 DEF Init
  <2>3. /\ bcstCh \in [Conns -> Seq(Forwards)]
        /\ loop \in [Conns -> {"new", "streaming", "ended", "removed", "gone"}]
    BY DEF Init
  <2> QED BY <2>1, <2>2, <2>3 DEF TypeOK
<1>5. NoEcho
  BY DEF Init, NoEcho
<1>6. KnownHostsDiffer
  BY SizesAssumption DEF Init, KnownHostsDiffer, IsInjective
<1>7. StatsHaveSource
  BY DEF Init, StatsHaveSource
<1>8. ASSUME NEW c \in Conns PROVE Carries(c, reader[c])
  BY <1>3 DEF Carries, Handled
<1> QED BY <1>4, <1>5, <1>6, <1>7, <1>8 DEF IInv, BcstInv

(* The hosts kept stay different and as many as may be kept.               *)
LEMMA HostsDiffer ==
    ASSUME TypeOK, KnownHostsDiffer, NEW h \in Hosts
    PROVE  /\ WithHost(h) \in Seq(Hosts)
           /\ Len(WithHost(h)) <= MaxKnown
           /\ IsInjective(WithHost(h))
<1>1. PICK s \in Seq(Hosts) : s = knownHosts
  BY DEF TypeOK
<1>2. Len(s) <= MaxKnown /\ \A i, j \in 1..Len(s) : s[i] = s[j] => i = j
  BY <1>1 DEF KnownHostsDiffer, IsInjective
<1>3. CASE h \in ToSet(s)
  BY <1>1, <1>3 DEF WithHost, KnownHostsDiffer
<1>4. CASE h \notin ToSet(s)
  <2>1. \A i \in 1..Len(s) : s[i] # h
    BY <1>4 DEF ToSet
  <2>2. PICK t : t = IF Len(s) >= MaxKnown THEN Tail(s) ELSE s
    OBVIOUS
  <2>3. /\ t \in Seq(Hosts) /\ Len(t) < MaxKnown
        /\ \A i \in 1..Len(t) : t[i] # h
        /\ \A i, j \in 1..Len(t) : t[i] = t[j] => i = j
    <3>1. CASE Len(s) >= MaxKnown
      <4>1. /\ t \in Seq(Hosts) /\ Len(t) = Len(s) - 1
            /\ \A i \in 1..Len(t) : t[i] = s[i + 1]
        BY <2>2, <3>1, SizesAssumption
      <4>2. Len(s) \in Nat /\ Len(t) < MaxKnown
        BY <1>2, <4>1, SizesAssumption
      <4>3. \A i \in 1..Len(t) : i + 1 \in 1..Len(s)
        BY <4>1, <4>2
      <4>4. \A i \in 1..Len(t) : t[i] # h
        BY <2>1, <4>1, <4>3
      <4>5. ASSUME NEW i \in 1..Len(t), NEW j \in 1..Len(t), t[i] = t[j]
            PROVE  i = j
        <5>1. i + 1 = j + 1
          BY <1>2, <4>1, <4>3, <4>5
        <5> QED BY <4>2, <5>1
      <4> QED BY <4>1, <4>2, <4>4, <4>5
    <3>2. CASE ~(Len(s) >= MaxKnown)
      BY <1>2, <2>1, <2>2, <3>2, SizesAssumption
    <3> QED BY <3>1, <3>2
  <2>4. WithHost(h) = Append(t, h)
    BY <1>1, <1>4, <2>2 DEF WithHost
  <2>5. PICK u : u = Append(t, h)
    OBVIOUS
  <2>6. /\ u \in Seq(Hosts) /\ Len(u) = Len(t) + 1 /\ u[Len(u)] = h
        /\ \A i \in 1..Len(t) : u[i] = t[i]
    BY <2>3, <2>5
  <2>7. \A i, j \in 1..Len(u) : u[i] = u[j] => i = j
    BY <2>3, <2>6
  <2>8. DOMAIN u = 1..Len(u)
    BY <2>6
  <2> QED BY <2>3, <2>4, <2>5, <2>6, <2>7, <2>8, SizesAssumption DEF IsInjective
<1> QED BY <1>1, <1>3, <1>4

(* What is handed on has less life than it came with.                      *)
LEMMA Shortened ==
    ASSUME NEW b \in Bcsts, b.ttl > 0, NEW c \in Conns
    PROVE  /\ rebuildBcst(b, c) \in Forwards
           /\ rebuildBcst(b, c).ttl = b.ttl - 1
           /\ rebuildBcst(b, c).from = PeerOf[c]
<1>1. b.ttl \in 0..255 /\ b.hops \in 0..255 /\ b.host \in Hosts \cup {NoHost}
  BY DEF Bcsts, Byte
<1>2. (b.ttl - 1) % 256 = b.ttl - 1 /\ (b.hops + 1) % 256 \in 0..255
  BY <1>1
<1>3. PeerOf[c] \in Peers
  BY NodesAssumption
<1>4. b.ttl - 1 \in Byte /\ (b.hops + 1) % 256 \in Byte
  BY <1>1, <1>2 DEF Byte
<1> QED BY <1>1, <1>2, <1>3, <1>4 DEF rebuildBcst, Forwards

(* A step of one connection's readLoop.                                    *)
LEMMA ReaderMoves ==
    ASSUME TypeOK, NEW c \in Conns, NEW r \in Readers,
           reader' = [reader EXCEPT ![c] = r],
           \A x \in Conns : Carries(x, reader[x]), Carries(c, r)
    PROVE  /\ reader' \in [Conns -> Readers]
           /\ \A x \in Conns : Carries(x, reader'[x])
BY ReaderTyped

(* The types after a step, variable by variable.                           *)
LEMMA TypeAgain ==
    ASSUME /\ audience' \in [Hosts -> Counts]
           /\ outputs' \subseteq Conns
           /\ nodeStats' \in [Hosts -> Counts \cup {None}]
           /\ adrift' \subseteq Hosts
           /\ knownHosts' \in Seq(Hosts)
           /\ bcstCh' \in [Conns -> Seq(Forwards)]
           /\ loop' \in
                [Conns -> {"new", "streaming", "ended", "removed", "gone"}]
           /\ reader' \in [Conns -> Readers]
    PROVE  TypeOK'
<1>1. reader' \in [Conns ->
            [pc : {"off", "read", "host", "stats", "outputs", "send", "done"},
             bcst : Bcsts \cup {NoBcst}, rest : SUBSET Conns]]
  BY DEF Readers
<1> QED BY <1>1 DEF TypeOK, Counts, Forwards, Bcsts, NoBcst

(* A step that leaves the channel alone and lets no reporter go.           *)
LEMMA ChannelSame ==
    ASSUME IInv, UNCHANGED <<nodeStats, adrift, knownHosts>>,
           \A c \in Conns, h \in Hosts : Removes(c, h) => Removes(c, h)'
    PROVE  KnownHostsDiffer' /\ StatsHaveSource'
<1>1. KnownHostsDiffer'
  BY DEF IInv, BcstInv, KnownHostsDiffer, IsInjective
<1>2. StatsHaveSource'
  BY DEF IInv, BcstInv, StatsHaveSource, Removes
<1> QED BY <1>1, <1>2

(* Nothing but SendBcst puts an atom into a queue.                         *)
LEMMA QueuesSame ==
    ASSUME NoEcho, bcstCh' = bcstCh
    PROVE  NoEcho'
BY DEF NoEcho

(* What a readLoop carries is a matter of its own locals.                  *)
LEMMA CarriedSame ==
    ASSUME \A x \in Conns : Carries(x, reader'[x])
    PROVE  (\A x \in Conns : Carries(x, reader[x]))'
BY DEF Carries, Handled, Bcsts, Counts

(* A step that moves one readLoop and nothing else.                        *)
LEMMA ReaderStep ==
    ASSUME IInv, NEW c \in Conns, NEW r \in Readers,
           reader' = [reader EXCEPT ![c] = r], Carries(c, r),
           UNCHANGED <<audience, channelVars, bcstCh, loop>>
    PROVE  IInv'
<1>1. TypeOK /\ NoEcho /\ \A x \in Conns : Carries(x, reader[x])
  BY DEF IInv, BcstInv
<1>2. reader' \in [Conns -> Readers] /\ \A x \in Conns : Carries(x, reader'[x])
  BY <1>1, ReaderMoves
<1>3. TypeOK'
  BY <1>1, <1>2, TypeAgain DEF TypeOK, channelVars
<1>4. KnownHostsDiffer' /\ StatsHaveSource'
  BY ChannelSame DEF channelVars, Removes
<1>5. NoEcho'
  BY <1>1, QueuesSame
<1> QED BY <1>2, <1>3, <1>4, <1>5, CarriedSame DEF IInv, BcstInv

(* The loops, and the hosts' audiences.                                    *)
LEMMA LoopStep ==
    ASSUME IInv, NEW c \in Conns,
           \/ Connect(c) \/ sendBcstAtom(c) \/ StreamLoopReturns(c)
           \/ RemoveNodeStats(c) \/ CloseAndRemoveOutput(c)
    PROVE  IInv'
<1>1. /\ TypeOK /\ NoEcho /\ KnownHostsDiffer /\ StatsHaveSource
      /\ \A x \in Conns : Carries(x, reader[x])
  BY DEF IInv, BcstInv
<1>2. reader \in [Conns -> Readers] /\ Idle \in Readers /\ Carries(c, Idle)
  BY <1>1, ReaderTyped DEF Idle, Readers, Carries, Handled
<1>3. reader' \in [Conns -> Readers] /\ \A x \in Conns : Carries(x, reader'[x])
  <2>1. CASE Connect(c)
    BY <1>1, <1>2, <2>1, ReaderMoves DEF Connect
  <2>2. CASE ~Connect(c)
    <3>1. reader' = reader
      BY <2>2
      DEF sendBcstAtom, StreamLoopReturns, RemoveNodeStats, CloseAndRemoveOutput
    <3> QED BY <1>1, <1>2, <3>1
  <2> QED BY <2>1, <2>2
<1>4. \A x \in Conns : /\ bcstCh'[x] \in Seq(Forwards)
                       /\ \A i \in DOMAIN bcstCh'[x] : \E j \in DOMAIN bcstCh[x] :
                              bcstCh'[x][i] = bcstCh[x][j]
  <2>1. CASE sendBcstAtom(c)
    <3>1. ASSUME NEW x \in Conns
          PROVE  \/ bcstCh'[x] = bcstCh[x]
                 \/ bcstCh[x] # << >> /\ bcstCh'[x] = Tail(bcstCh[x])
      BY <1>1, <2>1 DEF sendBcstAtom, TypeOK
    <3>2. ASSUME NEW s \in Seq(Forwards), s # << >>
          PROVE  /\ Tail(s) \in Seq(Forwards)
                 /\ \A i \in DOMAIN Tail(s) : i + 1 \in DOMAIN s /\ Tail(s)[i] = s[i + 1]
      <4>1. Len(s) \in Nat /\ Len(s) # 0 /\ DOMAIN s = 1..Len(s)
        BY <3>2
      <4>2. Len(Tail(s)) = Len(s) - 1 /\ DOMAIN Tail(s) = 1..Len(Tail(s))
            /\ Tail(s) \in Seq(Forwards)
        BY <3>2
      <4>3. \A i \in 1..Len(Tail(s)) : Tail(s)[i] = s[i + 1]
        BY <3>2
      <4> QED BY <4>1, <4>2, <4>3
    <3>3. \A x \in Conns : bcstCh[x] \in Seq(Forwards)
      BY <1>1 DEF TypeOK
    <3>4. ASSUME NEW x \in Conns
          PROVE  /\ bcstCh'[x] \in Seq(Forwards)
                 /\ \A i \in DOMAIN bcstCh'[x] : \E j \in DOMAIN bcstCh[x] :
                        bcstCh'[x][i] = bcstCh[x][j]
      <4>1. CASE bcstCh'[x] = bcstCh[x]
        BY <3>3, <4>1
      <4>2. CASE bcstCh[x] # << >> /\ bcstCh'[x] = Tail(bcstCh[x])
        BY <3>2, <3>3, <4>2
      <4> QED BY <3>1, <4>1, <4>2
    <3> QED BY <3>4
  <2>2. CASE ~sendBcstAtom(c)
    <3>1. bcstCh' = bcstCh
      BY <2>2
      DEF Connect, StreamLoopReturns, RemoveNodeStats, CloseAndRemoveOutput
    <3> QED BY <1>1, <3>1 DEF TypeOK
  <2> QED BY <2>1, <2>2
<1>5. NoEcho'
  BY <1>1, <1>4 DEF NoEcho
<1>6. DOMAIN bcstCh' = Conns /\ bcstCh' = [x \in Conns |-> bcstCh'[x]]
  BY <1>1 DEF TypeOK, Connect, sendBcstAtom, StreamLoopReturns, RemoveNodeStats,
              CloseAndRemoveOutput, channelVars
<1>7. bcstCh' \in [Conns -> Seq(Forwards)]
  BY <1>4, <1>6
<1>8. /\ audience' \in [Hosts -> Counts] /\ outputs' \subseteq Conns
      /\ knownHosts' = knownHosts
      /\ nodeStats' \in [Hosts -> Counts \cup {None}] /\ adrift' \subseteq Hosts
      /\ loop' \in [Conns -> {"new", "streaming", "ended", "removed", "gone"}]
  BY <1>1 DEF TypeOK, Connect, sendBcstAtom, StreamLoopReturns, RemoveNodeStats,
              CloseAndRemoveOutput, channelVars
<1>9. TypeOK'
  BY <1>1, <1>3, <1>7, <1>8, TypeAgain DEF TypeOK
<1>10. KnownHostsDiffer'
  BY <1>1, <1>8 DEF KnownHostsDiffer, IsInjective
<1>11. StatsHaveSource'
  <2> SUFFICES ASSUME NEW h \in Hosts, nodeStats'[h] # None, h \notin adrift'
               PROVE  \E x \in Conns : Removes(x, h)'
    BY DEF StatsHaveSource
  <2>1. CASE RemoveNodeStats(c)
    <3>1. h # PeerOf[c] /\ nodeStats[h] # None /\ h \notin adrift
      BY <1>1, <2>1, NodesAssumption DEF RemoveNodeStats, TypeOK
    <3>2. PICK x \in Conns : Removes(x, h)
      BY <1>1, <3>1 DEF StatsHaveSource
    <3> QED BY <1>1, <2>1, <3>1, <3>2 DEF Removes, RemoveNodeStats, TypeOK
  <2>2. CASE ~RemoveNodeStats(c)
    <3>1. nodeStats' = nodeStats /\ adrift' = adrift
      BY <2>2
      DEF Connect, sendBcstAtom, StreamLoopReturns, CloseAndRemoveOutput,
          channelVars
    <3>2. PICK x \in Conns : Removes(x, h)
      BY <1>1, <3>1 DEF StatsHaveSource
    <3>3. Removes(x, h)'
      BY <1>1, <2>2, <3>2
      DEF Removes, TypeOK, Connect, sendBcstAtom, StreamLoopReturns,
                              CloseAndRemoveOutput
    <3> QED BY <3>3
  <2> QED BY <2>1, <2>2
<1> QED BY <1>3, <1>5, <1>9, <1>10, <1>11, CarriedSame DEF IInv, BcstInv

LEMMA AudienceStep ==
    ASSUME IInv, NEW h \in Hosts, AudienceChanges(h)
    PROVE  IInv'
<1>1. TypeOK /\ NoEcho /\ \A x \in Conns : Carries(x, reader[x])
  BY DEF IInv, BcstInv
<1>2. audience[h] + 1 \in Counts
  <2>1. audience[h] \in Counts /\ Counts \subseteq Nat
    BY <1>1, SizesAssumption DEF TypeOK, Counts
  <2>2. MaxChanges[h] \in Nat
    BY SizesAssumption
  <2>3. audience[h] + 1 \in 0..MaxChanges[h]
    <3>1. audience[h] < MaxChanges[h]
      BY DEF AudienceChanges
    <3>2. audience[h] \in Nat
      BY <2>1
    <3> QED BY <2>2, <3>1, <3>2
  <2> QED BY <2>3 DEF Counts
<1>3. audience' \in [Hosts -> Counts]
  BY <1>1, <1>2 DEF AudienceChanges, TypeOK
<1>4. UNCHANGED <<channelVars, bcstCh, loop, reader>>
  BY DEF AudienceChanges
<1>5. TypeOK'
  BY <1>1, <1>3, <1>4, ReaderTyped, TypeAgain DEF TypeOK, channelVars
<1>6. KnownHostsDiffer' /\ StatsHaveSource'
  BY <1>4, ChannelSame DEF channelVars, Removes
<1>7. (\A x \in Conns : Carries(x, reader[x]))'
  BY <1>1, <1>4, CarriedSame
<1> QED BY <1>1, <1>4, <1>5, <1>6, <1>7, QueuesSame DEF IInv, BcstInv

(* readLoop reads an atom, drops it or takes it.                           *)
LEMMA ReadStep ==
    ASSUME IInv, NEW c \in Conns, NEW h \in Hosts \cup {NoHost}, NEW life \in Lives,
           Read(c, h, life)
    PROVE  IInv'
<1>1. TypeOK /\ \A x \in Conns : Carries(x, reader[x])
  BY DEF IInv, BcstInv
<1>2. PICK y \in Readers : y = reader[c]
  BY <1>1, ReaderTyped
<1>3. PICK b : b = [host |-> h,
                    listeners |-> IF h = NoHost THEN None ELSE audience[h],
                    ttl |-> life.ttl, hops |-> life.hops]
  OBVIOUS
<1>4. life.ttl \in Byte /\ life.hops \in Byte /\ life.ttl # 0 /\ ~life.ours
  BY SizesAssumption DEF Read, Dropped
<1>5. b \in Bcsts /\ b.ttl = life.ttl /\ b.ttl > 0
  <2>1. b.listeners \in Counts \cup {None}
    BY <1>1, <1>3 DEF TypeOK
  <2>2. b \in Bcsts /\ b.ttl = life.ttl
    BY <1>3, <1>4, <2>1 DEF Bcsts
  <2> QED BY <1>4, <2>2 DEF Byte
<1>6. PICK r : r = [y EXCEPT !.pc = IF h = NoHost THEN "outputs" ELSE "host",
                             !.bcst = b]
  OBVIOUS
<1>7. /\ r \in Readers /\ r.bcst = b /\ r.rest = y.rest
      /\ r.pc = IF h = NoHost THEN "outputs" ELSE "host"
  BY <1>5, <1>6 DEF Readers
<1>8. r.pc \in {"host", "stats"} =>
         r.bcst.host \in Hosts /\ r.bcst.listeners \in Counts
  BY <1>1, <1>3, <1>7 DEF TypeOK
<1>9. reader' = [reader EXCEPT ![c] = r]
  BY <1>1, <1>2, <1>3, <1>6, ReaderTyped DEF Read
<1>10. Carries(c, r)
  BY <1>1, <1>2, <1>4, <1>5, <1>7, <1>8 DEF Carries
<1>11. UNCHANGED <<audience, channelVars, bcstCh, loop>>
  BY DEF Read
<1> QED BY <1>7, <1>9, <1>10, <1>11, ReaderStep

(* A readLoop ends.                                                        *)
LEMMA ReaderEnds ==
    ASSUME IInv, NEW c \in Conns, ReadFails(c) \/ Broadcast(c)
    PROVE  IInv'
<1>1. TypeOK /\ \A x \in Conns : Carries(x, reader[x])
  BY DEF IInv, BcstInv
<1>2. PICK y \in Readers : y = reader[c]
  BY <1>1, ReaderTyped
<1>3. UNCHANGED <<audience, channelVars, bcstCh, loop>>
  BY DEF ReadFails, Broadcast
<1>4. CASE ReadFails(c)
  <2>1. PICK r : r = [y EXCEPT !.pc = "done"]
    OBVIOUS
  <2>2. r \in Readers /\ r.pc = "done" /\ r.rest = y.rest
    BY <2>1 DEF Readers
  <2>3. reader' = [reader EXCEPT ![c] = r]
    BY <1>1, <1>2, <1>4, <2>1, ReaderTyped DEF ReadFails
  <2>4. Carries(c, r)
    BY <1>1, <1>2, <2>2 DEF Carries, Handled
  <2> QED BY <1>3, <2>2, <2>3, <2>4, ReaderStep
<1>5. CASE Broadcast(c)
  <2>1. PICK r : r = SendingTo(y, BroadcastTo(c))
    OBVIOUS
  <2>2. /\ BroadcastTo(c) \subseteq Conns
        /\ \A o \in BroadcastTo(c) : PeerOf[o] # PeerOf[c]
    BY <1>1 DEF BroadcastTo, TypeOK
  <2>3. r \in Readers /\ Carries(c, r)
    <3>1. CASE BroadcastTo(c) = {}
      BY <2>1, <3>1 DEF SendingTo, Idle, Readers, Carries, Handled
    <3>2. CASE BroadcastTo(c) # {}
      <4>1. y.pc = "outputs"
        BY <1>2, <1>5 DEF Broadcast
      <4>2. r = [y EXCEPT !.pc = "send", !.rest = BroadcastTo(c)]
        BY <2>1, <3>2 DEF SendingTo
      <4>3. /\ r \in Readers /\ r.bcst = y.bcst /\ r.rest = BroadcastTo(c)
            /\ r.pc = "send"
        BY <2>2, <4>2 DEF Readers
      <4> QED BY <1>1, <1>2, <2>2, <4>1, <4>3 DEF Carries, Handled
    <3> QED BY <3>1, <3>2
  <2>4. reader' = [reader EXCEPT ![c] = r]
    BY <1>1, <1>2, <1>5, <2>1, ReaderTyped DEF Broadcast
  <2> QED BY <1>3, <2>3, <2>4, ReaderStep
<1> QED BY <1>4, <1>5

(* SendBcst hands a shortened atom to another node's connection.           *)
LEMMA SendStep ==
    ASSUME IInv, NEW c \in Conns, NEW o \in Conns, SendBcst(c, o)
    PROVE  IInv'
<1>1. TypeOK /\ NoEcho /\ \A x \in Conns : Carries(x, reader[x])
  BY DEF IInv, BcstInv
<1>2. PICK y \in Readers : y = reader[c]
  BY <1>1, ReaderTyped
<1>3. Carries(c, y) /\ y.pc = "send" /\ o \in y.rest
  BY <1>1, <1>2 DEF SendBcst
<1>4. PICK r : r = SendingTo(y, y.rest \ {o})
  OBVIOUS
<1>5. r \in Readers /\ Carries(c, r)
  <2>1. CASE y.rest \ {o} = {}
    BY <1>4, <2>1 DEF SendingTo, Idle, Readers, Carries, Handled
  <2>2. CASE y.rest \ {o} # {}
    <3>1. r = [y EXCEPT !.pc = "send", !.rest = y.rest \ {o}]
      BY <1>4, <2>2 DEF SendingTo
    <3>2. /\ r \in Readers /\ r.bcst = y.bcst /\ r.rest = y.rest \ {o}
          /\ r.pc = "send"
      BY <3>1 DEF Readers
    <3> QED BY <1>3, <3>2 DEF Carries, Handled
  <2> QED BY <2>1, <2>2
<1>6. reader' = [reader EXCEPT ![c] = r]
  BY <1>1, <1>2, <1>4, ReaderTyped DEF SendBcst
<1>7. reader' \in [Conns -> Readers] /\ \A x \in Conns : Carries(x, reader'[x])
  BY <1>1, <1>5, <1>6, ReaderMoves
<1>8. PICK b \in Bcsts : b = y.bcst
  BY <1>3 DEF Carries, Handled
<1>9. /\ b.ttl > 0 /\ PeerOf[o] # PeerOf[c]
      /\ \E life \in Lives : life.ttl = b.ttl /\ ~life.ours
  BY <1>3, <1>8 DEF Carries, Handled
<1>10. PICK f \in Forwards : f = rebuildBcst(b, c)
  BY <1>8, <1>9, Shortened
<1>11. f.from # PeerOf[o] /\ \E life \in Lives : life.ttl > f.ttl /\ ~life.ours
  <2>1. f.ttl = b.ttl - 1 /\ f.from = PeerOf[c] /\ b.ttl \in Int
    BY <1>8, <1>9, <1>10, Shortened DEF Bcsts, Byte
  <2> QED BY <1>9, <2>1
<1>12. bcstCh' = bcstCh \/ bcstCh' = [bcstCh EXCEPT ![o] = Append(@, f)]
  BY <1>2, <1>8, <1>10 DEF SendBcst
<1>13. bcstCh' \in [Conns -> Seq(Forwards)] /\ NoEcho'
  <2>1. CASE bcstCh' = bcstCh
    BY <1>1, <2>1, QueuesSame DEF TypeOK
  <2>2. CASE bcstCh' = [bcstCh EXCEPT ![o] = Append(@, f)]
    <3>1. PICK s \in Seq(Forwards) : s = bcstCh[o]
      BY <1>1 DEF TypeOK
    <3>2. PICK t : t = Append(s, f)
      OBVIOUS
    <3>3. /\ t \in Seq(Forwards) /\ DOMAIN t = 1..(Len(s) + 1)
          /\ t[Len(s) + 1] = f /\ \A i \in 1..Len(s) : t[i] = s[i]
      BY <3>2
    <3>4. \A i \in DOMAIN t : t[i] = f \/ (i \in DOMAIN s /\ t[i] = s[i])
      BY <3>3
    <3>5. bcstCh' = [bcstCh EXCEPT ![o] = t]
      BY <2>2, <3>1, <3>2
    <3>6. bcstCh' \in [Conns -> Seq(Forwards)]
      BY <1>1, <3>3, <3>5 DEF TypeOK
    <3>7. bcstCh'[o] = t /\ \A x \in Conns \ {o} : bcstCh'[x] = bcstCh[x]
      BY <1>1, <3>5 DEF TypeOK
    <3>8. ASSUME NEW x \in Conns, NEW i \in DOMAIN bcstCh'[x]
          PROVE  /\ bcstCh'[x][i].from # PeerOf[x]
                 /\ \E life \in Lives : life.ttl > bcstCh'[x][i].ttl /\ ~life.ours
      <4>1. CASE x = o /\ t[i] = f
        BY <1>11, <3>7, <4>1
      <4>2. CASE ~(x = o /\ t[i] = f)
        <5>1. i \in DOMAIN bcstCh[x] /\ bcstCh'[x][i] = bcstCh[x][i]
          BY <3>1, <3>4, <3>7, <3>8, <4>2
        <5> QED BY <1>1, <5>1 DEF NoEcho
      <4> QED BY <4>1, <4>2
    <3> QED BY <3>6, <3>8 DEF NoEcho
  <2> QED BY <1>12, <2>1, <2>2
<1>14. UNCHANGED <<audience, channelVars, loop>>
  BY DEF SendBcst
<1>15. TypeOK'
  BY <1>1, <1>7, <1>13, <1>14, TypeAgain DEF TypeOK, channelVars
<1>16. KnownHostsDiffer' /\ StatsHaveSource'
  BY <1>14, ChannelSame DEF channelVars, Removes
<1> QED BY <1>7, <1>13, <1>15, <1>16, CarriedSame DEF IInv, BcstInv

(* AddKnownHost and extractNodeStats.                                      *)
LEMMA AddStep ==
    ASSUME IInv, NEW c \in Conns, AddKnownHost(c) \/ extractNodeStats(c)
    PROVE  IInv'
<1>1. /\ TypeOK /\ NoEcho /\ KnownHostsDiffer /\ StatsHaveSource
      /\ \A x \in Conns : Carries(x, reader[x])
  BY DEF IInv, BcstInv
<1>2. PICK y \in Readers : y = reader[c]
  BY <1>1, ReaderTyped
<1>3. Carries(c, y) /\ y.pc \in Handled /\ y.bcst \in Bcsts
  BY <1>1, <1>2 DEF Carries, Handled, AddKnownHost, extractNodeStats
<1>4. y.bcst.host \in Hosts /\ y.bcst.listeners \in Counts
  BY <1>1, <1>2 DEF Carries, AddKnownHost, extractNodeStats
<1>5. PICK pc \in {"stats", "outputs"} : reader' = [reader EXCEPT ![c].pc = pc]
  BY DEF AddKnownHost, extractNodeStats
<1>6. PICK r : r = [y EXCEPT !.pc = pc]
  OBVIOUS
<1>7. r \in Readers /\ r.pc = pc /\ r.bcst = y.bcst /\ r.rest = y.rest
  BY <1>6 DEF Readers
<1>8. reader' = [reader EXCEPT ![c] = r]
  BY <1>1, <1>2, <1>5, <1>6, ReaderTyped
<1>9. Carries(c, r)
  BY <1>3, <1>4, <1>7 DEF Carries, Handled
<1>10. reader' \in [Conns -> Readers] /\ \A x \in Conns : Carries(x, reader'[x])
  BY <1>1, <1>7, <1>8, <1>9, ReaderMoves
<1>11. UNCHANGED <<audience, outputs, bcstCh, loop>>
  BY DEF AddKnownHost, extractNodeStats
<1>12. CASE AddKnownHost(c)
  <2>1. knownHosts' = WithHost(y.bcst.host) /\ UNCHANGED <<nodeStats, adrift>>
    BY <1>2, <1>12 DEF AddKnownHost
  <2>2. knownHosts' \in Seq(Hosts) /\ KnownHostsDiffer'
    BY <1>1, <1>4, <2>1, HostsDiffer DEF KnownHostsDiffer, IsInjective
  <2>3. TypeOK'
    BY <1>1, <1>10, <1>11, <2>1, <2>2, TypeAgain DEF TypeOK
  <2>4. StatsHaveSource'
    BY <1>1, <1>11, <2>1 DEF StatsHaveSource, Removes
  <2> QED BY <1>1, <1>10, <1>11, <2>2, <2>3, <2>4, CarriedSame, QueuesSame
          DEF IInv, BcstInv
<1>13. CASE extractNodeStats(c)
  <2>1. /\ nodeStats' = [nodeStats EXCEPT ![y.bcst.host] = y.bcst.listeners]
        /\ adrift' = IF Removes(c, y.bcst.host) THEN adrift \ {y.bcst.host}
                                                ELSE adrift \cup {y.bcst.host}
        /\ knownHosts' = knownHosts
    BY <1>2, <1>13 DEF extractNodeStats
  <2>2. nodeStats' \in [Hosts -> Counts \cup {None}] /\ adrift' \subseteq Hosts
    BY <1>1, <1>4, <2>1 DEF TypeOK
  <2>3. TypeOK'
    BY <1>1, <1>10, <1>11, <2>1, <2>2, TypeAgain DEF TypeOK
  <2>4. KnownHostsDiffer'
    BY <1>1, <2>1 DEF KnownHostsDiffer, IsInjective
  <2>5. ASSUME NEW h \in Hosts, nodeStats'[h] # None, h \notin adrift'
        PROVE  \E x \in Conns : Removes(x, h)'
    <3>1. \A x \in Conns : Removes(x, h)' <=> Removes(x, h)
      BY <1>11 DEF Removes
    <3>2. CASE h = y.bcst.host
      <4>1. Removes(c, h)
        BY <2>1, <2>5, <3>2
      <4> QED BY <3>1, <4>1
    <3>3. CASE h # y.bcst.host
      <4>1. nodeStats[h] # None /\ h \notin adrift
        BY <1>1, <2>1, <2>5, <3>3 DEF TypeOK
      <4> QED BY <1>1, <3>1, <4>1 DEF StatsHaveSource
    <3> QED BY <3>2, <3>3
  <2>6. StatsHaveSource'
    BY <2>5 DEF StatsHaveSource
  <2> QED BY <1>1, <1>10, <1>11, <2>3, <2>4, <2>6, CarriedSame, QueuesSame
          DEF IInv, BcstInv
<1> QED BY <1>12, <1>13

(* Every step keeps the invariant.                                         *)
LEMMA NextInv == IInv /\ [Next]_vars => IInv'
<1> SUFFICES ASSUME IInv, [Next]_vars PROVE IInv'
  OBVIOUS
<1>1. ASSUME NEW h \in Hosts, AudienceChanges(h) PROVE IInv'
  BY <1>1, AudienceStep
<1>2. ASSUME NEW c \in Conns,
             Connect(c) \/ sendBcstAtom(c) \/ StreamLoopReturns(c) \/ Ends(c)
      PROVE  IInv'
  BY <1>2, LoopStep DEF Ends
<1>3. ASSUME NEW c \in Conns, \E h \in Hosts \cup {NoHost}, life \in Lives :
                                 Read(c, h, life)
      PROVE  IInv'
  BY <1>3, ReadStep
<1>4. ASSUME NEW c \in Conns, ReadLoop(c) \/ ReadFails(c) PROVE IInv'
  BY <1>4, AddStep, ReaderEnds, SendStep DEF ReadLoop
<1>5. CASE UNCHANGED vars
  <2>1. UNCHANGED <<audience, outputs, nodeStats, adrift, knownHosts, bcstCh,
                    loop, reader>>
    BY <1>5 DEF vars, channelVars
  <2>2. TypeOK /\ NoEcho /\ KnownHostsDiffer /\ StatsHaveSource
        /\ \A x \in Conns : Carries(x, reader[x])
    BY DEF IInv, BcstInv
  <2>3. TypeOK'
    BY <2>1, <2>2, ReaderTyped, TypeAgain DEF TypeOK
  <2>4. KnownHostsDiffer' /\ StatsHaveSource'
    BY <2>1, ChannelSame DEF Removes
  <2> QED BY <2>1, <2>2, <2>3, <2>4, CarriedSame, QueuesSame DEF IInv, BcstInv
<1> QED BY <1>1, <1>2, <1>3, <1>4, <1>5 DEF Next

(* An atom is never sent to the node that it came from, nor with more life *)
(* than it arrived with; the known hosts are different and never too many; *)
(* and who is counted is connected or adrift: however the loops of any     *)
(* connections interleave.                                                 *)
THEOREM BcstCorrect == Spec => []BcstInv
<1>1. Spec => []IInv
  BY InitInv, NextInv, PTL DEF Spec
<1>2. IInv => BcstInv
  BY DEF IInv
<1> QED BY <1>1, <1>2, PTL

============================================================================
