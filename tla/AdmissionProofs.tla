--------------------------- MODULE AdmissionProofs ---------------------------
(***************************************************************************)
(* Theorems about Admission, for any channels, connections and limits.     *)
(***************************************************************************)
EXTENDS Admission, FiniteSetTheorems, TLAPS

(* A step of the handler of o that only changes its own locals.            *)
LEMMA Moves ==
    ASSUME TypeOK, NEW o \in Conns, NEW l \in Places, Goto(o, l)
    PROVE  /\ conn' \in [Conns -> Locals]
           /\ conn'[o].pc = l /\ conn'[o].ch = conn[o].ch
           /\ conn'[o].victim = conn[o].victim
           /\ \A u \in Conns \ {o} : conn'[u] = conn[u]
<1>1. PICK x \in Locals : x = conn[o]  BY DEF TypeOK
<1> DEFINE r == [x EXCEPT !.pc = l]
<1>2. r \in Locals /\ r.pc = l /\ r.ch = x.ch /\ r.victim = x.victim
  BY DEF Locals
<1>3. conn' = [conn EXCEPT ![o] = r]  BY <1>1 DEF Goto
<1> QED BY <1>1, <1>2, <1>3 DEF TypeOK

LEMMA AnswerMoves ==
    ASSUME TypeOK, NEW o \in Conns, NEW a \in BOOLEAN, Answered(o, a)
    PROVE  /\ conn' \in [Conns -> Locals]
           /\ conn'[o].pc = "handshake" /\ conn'[o].ch = conn[o].ch
           /\ \A u \in Conns \ {o} : conn'[u] = conn[u]
<1>1. PICK x \in Locals : x = conn[o]  BY DEF TypeOK
<1> DEFINE r == [x EXCEPT !.accepted = a, !.pc = "handshake"]
<1>2. r \in Locals /\ r.pc = "handshake" /\ r.ch = x.ch
  BY DEF Locals, Places
<1>3. conn' = [conn EXCEPT ![o] = r]  BY <1>1 DEF Answered
<1> QED BY <1>1, <1>2, <1>3 DEF TypeOK

LEMMA LookupMoves ==
    ASSUME TypeOK, NEW o \in Conns, Lookup(o)
    PROVE  /\ conn' \in [Conns -> Locals]
           /\ conn'[o].pc \in {"found", "admit"} /\ conn'[o].ch \in Channels
           /\ \A u \in Conns \ {o} : conn'[u] = conn[u]
<1> DEFINE l == IF o \in Relays THEN "found" ELSE "admit"
<1>1. PICK x \in Locals : x = conn[o]  BY DEF TypeOK
<1>2. PICK c \in Channels :
          conn' = [conn EXCEPT ![o].ch = c, ![o].pc = l]
  BY DEF Lookup, Listed
<1> DEFINE r == [x EXCEPT !.ch = c, !.pc = l]
<1>3. l \in {"found", "admit"}  OBVIOUS
<1> HIDE DEF l
<1>4. r \in Locals /\ r.pc = l /\ r.ch = c  BY <1>3 DEF Locals, Places
<1>5. conn' = [conn EXCEPT ![o] = r]  BY <1>1, <1>2
<1> QED BY <1>3, <1>4, <1>5 DEF TypeOK

LEMMA VictimMoves ==
    ASSUME TypeOK, NEW o \in Conns, NEW u \in Conns,
           conn' = [conn EXCEPT ![o].victim = u, ![o].pc = "evict"]
    PROVE  /\ conn' \in [Conns -> Locals]
           /\ conn'[o].pc = "evict" /\ conn'[o].ch = conn[o].ch
           /\ conn'[o].victim = u
           /\ \A w \in Conns \ {o} : conn'[w] = conn[w]
<1>1. PICK x \in Locals : x = conn[o]  BY DEF TypeOK
<1> DEFINE r == [x EXCEPT !.victim = u, !.pc = "evict"]
<1>2. r \in Locals /\ r.pc = "evict" /\ r.ch = x.ch /\ r.victim = u
  BY DEF Locals, Places
<1>3. conn' = [conn EXCEPT ![o] = r]  BY <1>1
<1> QED BY <1>1, <1>2, <1>3 DEF TypeOK

(* What every step of a handler does to the locals: they keep their type,  *)
(* and only an output that is registered now, by TryAddOutput, or was      *)
(* streaming before is streaming afterwards.                               *)
HandlerStep(o) ==
    /\ conn' \in [Conns -> Locals]
    /\ \A u \in Conns \ {o} : conn'[u] = conn[u]
    /\ conn'[o].ch \in Channels /\ (~at(o, "new") => conn'[o].ch = conn[o].ch)
    /\ conn'[o].pc # "new"
    /\ conn'[o].pc = "evict" => conn'[o].victim \in Conns

LEMMA HandlerMoves ==
    ASSUME TypeOK, NEW o \in Conns,
           Lookup(o) \/ NotReceiving(o) \/ Handle(o) \/ StreamEnds(o)
    PROVE  HandlerStep(o)
<1>1. ASSUME NEW l \in Places \ {"new", "evict"}, Goto(o, l), ~at(o, "new")
      PROVE  HandlerStep(o)
  BY <1>1, Moves DEF HandlerStep, TypeOK
<1>2. ASSUME NEW a \in BOOLEAN, Answered(o, a), ~at(o, "new")
      PROVE  HandlerStep(o)
  BY <1>2, AnswerMoves DEF HandlerStep, TypeOK
<1>3. CASE Lookup(o)
  BY <1>3, LookupMoves DEF HandlerStep, Lookup
<1>4. CASE NotReceiving(o) \/ StreamEnds(o) \/ Denied(o)
  BY <1>1, <1>4 DEF NotReceiving, StreamEnds, Denied, at, Places
<1>5. CASE AskTotal(o)
  BY <1>1, <1>2, <1>5 DEF AskTotal, at, Places
<1>6. CASE MakeRelayable(o)
  <2>1. ASSUME NEW u \in Victims(conn[o].ch),
               conn' = [conn EXCEPT ![o].victim = u, ![o].pc = "evict"]
        PROVE  HandlerStep(o)
    <3>1. u \in Conns  BY ConnsAssumption DEF Victims, Conns
    <3>2. ~at(o, "new") /\ conn[o].ch \in Channels
      BY <1>6 DEF MakeRelayable, NoneToEvict, ReleaseAdmitMu, at, TypeOK
    <3>3. /\ conn' \in [Conns -> Locals]
          /\ conn'[o].pc = "evict" /\ conn'[o].ch = conn[o].ch
          /\ conn'[o].victim = u
          /\ \A w \in Conns \ {o} : conn'[w] = conn[w]
      BY <2>1, <3>1, VictimMoves
    <3> QED BY <3>1, <3>2, <3>3 DEF HandlerStep
  <2> QED BY <1>2, <1>6, <2>1 DEF MakeRelayable, NoneToEvict, ReleaseAdmitMu, at
<1>7. CASE Evict(o)
  BY <1>2, <1>7 DEF Evict, ReleaseAdmitMu, at
<1>8. CASE handshake(o)
  BY <1>1, <1>8 DEF handshake, at, Places
<1>9. CASE AdmitTotal(o)
  BY <1>1, <1>9 DEF AdmitTotal, Refused, at, Places
<1>10. CASE TryAddOutput(o)
  BY <1>1, <1>10 DEF TryAddOutput, Refused, at, Places
<1>11. CASE RemoveOutput(o)
  BY <1>1, <1>11 DEF RemoveOutput, at, Places
<1> QED BY <1>3, <1>4, <1>5, <1>6, <1>7, <1>8, <1>9, <1>10, <1>11 DEF Handle

(* Type correctness.                                                       *)
LEMMA InitTypeOK == Init => TypeOK
BY ConnsAssumption DEF Init, TypeOK, Locals, Places, at

LEMMA HandlerType ==
    ASSUME TypeOK, NEW o \in Conns, HandlerStep(o)
    PROVE  /\ conn' \in [Conns -> Locals]
           /\ \A u \in Conns : /\ at(u, "new")' \/ conn'[u].ch \in Channels
                               /\ at(u, "evict")' => conn'[u].victim \in Conns
BY DEF HandlerStep, TypeOK, at

LEMMA ChannelType ==
    ASSUME TypeOK, NEW c \in Channels, Channel(c) PROVE TypeOK'
<1>1. CASE Publish(c) \/ Unlist(c)
  BY <1>1 DEF Publish, Unlist, TypeOK, at
<1>2. CASE SourceEnds(c) \/ StopCloses(c)
  BY <1>2 DEF SourceEnds, StopCloses, CloseAll, TypeOK, at
<1>3. ASSUME NEW o \in Conns, CloseOutput(c, o) PROVE TypeOK'
  BY <1>3 DEF CloseOutput, TypeOK, at
<1>4. ASSUME NEW o \in Conns, CloseConnection(c, o) PROVE TypeOK'
  BY <1>4 DEF CloseConnection, channelVars, TypeOK, at
<1> QED BY <1>1, <1>2, <1>3, <1>4 DEF Channel

LEMMA NextTypeOK == TypeOK /\ [Next]_vars => TypeOK'
<1> SUFFICES ASSUME TypeOK, [Next]_vars PROVE TypeOK'
  OBVIOUS
<1>1. CASE UNCHANGED vars
  BY <1>1 DEF vars, channelVars, TypeOK, at
<1>2. ASSUME NEW o \in Conns,
             Lookup(o) \/ NotReceiving(o) \/ Handle(o) \/ StreamEnds(o)
      PROVE  TypeOK'
  <2>1. HandlerStep(o)  BY <1>2, HandlerMoves
  <2>2. /\ conn' \in [Conns -> Locals]
        /\ \A u \in Conns : /\ at(u, "new")' \/ conn'[u].ch \in Channels
                            /\ at(u, "evict")' => conn'[u].victim \in Conns
    BY <2>1, HandlerType
  <2>3. CASE UNCHANGED <<channelVars, closed>> /\ admitMu' \in {admitMu, o, Nobody}
    BY <2>2, <2>3 DEF TypeOK, channelVars
  <2>4. CASE Evict(o)
    BY <2>2, <2>4 DEF Evict, ReleaseAdmitMu, TypeOK, channelVars, at
  <2>5. CASE TryAddOutput(o) \/ RemoveOutput(o)
    <3>1. outputs' \in [Channels -> SUBSET Conns]
      BY <2>5 DEF TryAddOutput, RemoveOutput, TypeOK
    <3>2. One(o, Relays) \in Int /\ One(o, Viewers) \in Int  BY DEF One
    <3>3. numRelays' \in [Channels -> Int] /\ numListeners' \in [Channels -> Int]
      BY <2>5, <3>2 DEF TryAddOutput, RemoveOutput, TypeOK
    <3>4. /\ UNCHANGED <<registry, ended, toClose, closed>>
          /\ admitMu' \in {admitMu, Nobody}
      BY <2>5 DEF TryAddOutput, ReleaseAdmitMu, RemoveOutput
    <3> QED BY <2>2, <3>1, <3>3, <3>4 DEF TypeOK
  <2>6. CASE \/ Lookup(o) \/ NotReceiving(o) \/ AskTotal(o) \/ MakeRelayable(o)
             \/ handshake(o) \/ AdmitTotal(o) \/ Denied(o) \/ StreamEnds(o)
    BY <2>3, <2>6 DEF Lookup, NotReceiving, AskTotal, MakeRelayable, NoneToEvict, handshake,
                      ReleaseAdmitMu, AdmitTotal, TakeAdmitMu, Denied, StreamEnds
  <2> QED BY <1>2, <2>4, <2>5, <2>6 DEF Handle
<1>3. ASSUME NEW c \in Channels, Channel(c) PROVE TypeOK'
  BY <1>3, ChannelType
<1> QED BY <1>1, <1>2, <1>3 DEF Next

(* The state is always well formed; a handler that evicts has a victim.    *)
THEOREM TypeCorrect == Spec => []TypeOK
BY InitTypeOK, NextTypeOK, PTL DEF Spec

------------------------------------------------------------------------------
(* Outputs belong to their channels: a step of a channel only forgets      *)
(* outputs, a step of a handler only moves its own output.                 *)
LEMMA NextOutputsBelong == TypeOK /\ OutputsBelong /\ [Next]_vars => OutputsBelong'
<1> SUFFICES ASSUME TypeOK, OutputsBelong, [Next]_vars PROVE OutputsBelong'
  OBVIOUS
<1>1. ASSUME conn' = conn, \A c \in Channels : outputs'[c] \subseteq outputs[c]
      PROVE  OutputsBelong'
  BY <1>1 DEF OutputsBelong
<1>2. CASE UNCHANGED vars
  BY <1>1, <1>2 DEF vars, channelVars
<1>3. ASSUME NEW c \in Channels, Channel(c) PROVE OutputsBelong'
  <2>1. CASE SourceEnds(c) \/ StopCloses(c)
    BY <1>1, <2>1 DEF SourceEnds, StopCloses, CloseAll, TypeOK
  <2>2. CASE \/ Publish(c) \/ Unlist(c)
             \/ \E o \in Conns : CloseOutput(c, o) \/ CloseConnection(c, o)
    BY <1>1, <2>2 DEF Publish, Unlist, CloseOutput, CloseConnection, channelVars
  <2> QED BY <1>3, <2>1, <2>2 DEF Channel
<1>4. ASSUME NEW o \in Conns,
             Lookup(o) \/ NotReceiving(o) \/ Handle(o) \/ StreamEnds(o)
      PROVE  OutputsBelong'
  <2>1. \A u \in Conns \ {o} : conn'[u] = conn[u]
    BY <1>4, HandlerMoves DEF HandlerStep
  <2>2. CASE TryAddOutput(o)
    <3>1. conn[o].ch \in Channels  BY <2>2 DEF TryAddOutput, TypeOK, at
    <3>2. \A c \in Channels : o \notin outputs[c]
      BY <2>2 DEF TryAddOutput, OutputsBelong, at
    <3>3. CASE Goto(o, "streaming")
      <4>1. conn'[o].pc = "streaming" /\ conn'[o].ch = conn[o].ch
        BY <3>3, Moves DEF Places
      <4>2. \A c \in Channels : \A u \in outputs'[c] :
                u \in outputs[c] \/ (u = o /\ c = conn[o].ch)
        BY <2>2, <3>1 DEF TryAddOutput, TypeOK
      <4> QED BY <2>1, <3>2, <4>1, <4>2 DEF OutputsBelong, TypeOK
    <3>4. CASE UNCHANGED outputs
      BY <2>1, <3>2, <3>4 DEF OutputsBelong, TypeOK
    <3> QED BY <2>2, <3>3, <3>4 DEF TryAddOutput
  <2>3. CASE RemoveOutput(o)
    <3>1. \A c \in Channels : outputs'[c] \subseteq outputs[c] \ {o}
      BY <2>3 DEF RemoveOutput, OutputsBelong, TypeOK
    <3> QED BY <2>1, <3>1 DEF OutputsBelong, TypeOK
  <2>4. CASE StreamEnds(o)
    <3>1. conn'[o].pc = "ended" /\ conn'[o].ch = conn[o].ch /\ outputs' = outputs
      BY <2>4, Moves DEF StreamEnds, Places, channelVars
    <3> QED BY <2>1, <3>1 DEF OutputsBelong, TypeOK
  <2>5. CASE \/ Lookup(o) \/ NotReceiving(o) \/ AskTotal(o) \/ MakeRelayable(o)
             \/ Evict(o) \/ handshake(o) \/ AdmitTotal(o) \/ Denied(o)
    <3>1. UNCHANGED outputs /\ conn[o].pc \notin {"streaming", "ended"}
      BY <2>5 DEF Lookup, NotReceiving, AskTotal, MakeRelayable, NoneToEvict, Evict,
                  handshake, ReleaseAdmitMu, AdmitTotal, Denied, at, channelVars
    <3> QED BY <2>1, <3>1 DEF OutputsBelong, TypeOK
  <2> QED BY <1>4, <2>2, <2>3, <2>4, <2>5 DEF Handle
<1> QED BY <1>2, <1>3, <1>4 DEF Next

(* An output holds a slot of the channel its handler asked for and of no   *)
(* other, and nobody whose handler has returned holds one (TryAddOutput,   *)
(* RemoveOutput and CloseAll).                                             *)
THEOREM BelongCorrect == Spec => []OutputsBelong
<1>1. Init => OutputsBelong  BY DEF Init, OutputsBelong
<1> QED BY <1>1, NextOutputsBelong, TypeCorrect, PTL DEF Spec

------------------------------------------------------------------------------
(* Counting.  Sides of the same kind: relays, or viewers.                  *)
LEMMA CountAdd ==
    ASSUME NEW S \in SUBSET Conns, NEW o \in Conns \ S,
           NEW T \in {Relays, Viewers}
    PROVE  Cardinality((S \cup {o}) \cap T) = Cardinality(S \cap T) + One(o, T)
<1>1. IsFiniteSet(S \cap T) /\ Cardinality(S \cap T) \in Nat
  BY ConnsAssumption, FS_Subset, FS_CardinalityType
<1>2. CASE o \in T
  <2>1. (S \cup {o}) \cap T = (S \cap T) \cup {o}  BY <1>2
  <2> QED BY <1>1, <1>2, <2>1, FS_AddElement DEF One
<1>3. CASE o \notin T
  <2>1. (S \cup {o}) \cap T = S \cap T  BY <1>3
  <2> QED BY <1>1, <1>3, <2>1 DEF One
<1> QED BY <1>2, <1>3

LEMMA CountDrop ==
    ASSUME NEW S \in SUBSET Conns, NEW o \in S, NEW T \in {Relays, Viewers}
    PROVE  Cardinality((S \ {o}) \cap T) = Cardinality(S \cap T) - One(o, T)
<1>1. IsFiniteSet(S \cap T) /\ Cardinality(S \cap T) \in Nat
  BY ConnsAssumption, FS_Subset, FS_CardinalityType
<1>2. CASE o \in T
  <2>1. (S \ {o}) \cap T = (S \cap T) \ {o}  OBVIOUS
  <2> QED BY <1>1, <1>2, <2>1, FS_RemoveElement DEF One
<1>3. CASE o \notin T
  <2>1. (S \ {o}) \cap T = S \cap T  BY <1>3
  <2> QED BY <1>1, <1>3, <2>1 DEF One
<1> QED BY <1>2, <1>3

(* What a step does to the outputs of all channels: nothing, or one of     *)
(* three things to those of one channel.                                   *)
Added(c, o) ==
    /\ o \in Conns \ outputs[c] /\ HasRoom(o, c)
    /\ outputs' = [outputs EXCEPT ![c] = @ \cup {o}]
    /\ numRelays' = [numRelays EXCEPT ![c] = @ + One(o, Relays)]
    /\ numListeners' = [numListeners EXCEPT ![c] = @ + One(o, Viewers)]

Dropped(c, o) ==
    /\ o \in outputs[c]
    /\ outputs' = [outputs EXCEPT ![c] = @ \ {o}]
    /\ numRelays' = [numRelays EXCEPT ![c] = @ - One(o, Relays)]
    /\ numListeners' = [numListeners EXCEPT ![c] = @ - One(o, Viewers)]

LEMMA OutputSteps ==
    ASSUME TypeOK, OutputsBelong, [Next]_vars
    PROVE  \/ UNCHANGED <<outputs, numRelays, numListeners>>
           \/ \E c \in Channels : CloseAll(c)
           \/ \E c \in Channels, o \in Conns : Added(c, o) \/ Dropped(c, o)
<1>1. CASE UNCHANGED vars
  BY <1>1 DEF vars, channelVars
<1>2. ASSUME NEW c \in Channels, Channel(c)
      PROVE  CloseAll(c) \/ UNCHANGED <<outputs, numRelays, numListeners>>
  BY <1>2 DEF Channel, Publish, SourceEnds, Unlist, StopCloses, CloseOutput,
              CloseConnection, channelVars
<1>3. ASSUME NEW o \in Conns, TryAddOutput(o)
      PROVE  \/ UNCHANGED <<outputs, numRelays, numListeners>>
             \/ \E c \in Channels : Added(c, o)
  <2>1. conn[o].ch \in Channels  BY <1>3 DEF TryAddOutput, TypeOK, at
  <2>2. o \notin outputs[conn[o].ch]
    BY <1>3, <2>1 DEF TryAddOutput, OutputsBelong, at
  <2> QED BY <1>3, <2>1, <2>2 DEF TryAddOutput, Added
<1>4. ASSUME NEW o \in Conns, RemoveOutput(o)
      PROVE  \/ UNCHANGED <<outputs, numRelays, numListeners>>
             \/ \E c \in Channels : Dropped(c, o)
  <2>1. conn[o].ch \in Channels  BY <1>4 DEF RemoveOutput, TypeOK, at
  <2> QED BY <1>4, <2>1 DEF RemoveOutput, Dropped
<1>5. ASSUME NEW o \in Conns,
             \/ Lookup(o) \/ NotReceiving(o) \/ AskTotal(o) \/ MakeRelayable(o)
             \/ Evict(o) \/ handshake(o) \/ AdmitTotal(o) \/ Denied(o)
             \/ StreamEnds(o)
      PROVE  UNCHANGED <<outputs, numRelays, numListeners>>
  BY <1>5 DEF Lookup, NotReceiving, AskTotal, MakeRelayable, NoneToEvict, Evict,
              handshake, ReleaseAdmitMu, AdmitTotal, Denied, StreamEnds, channelVars
<1> QED BY <1>1, <1>2, <1>3, <1>4, <1>5 DEF Next, Handle

LEMMA NextCountersExact ==
    TypeOK /\ OutputsBelong /\ CountersExact /\ [Next]_vars => CountersExact'
<1> SUFFICES ASSUME TypeOK, OutputsBelong, CountersExact, [Next]_vars
             PROVE  CountersExact'
  OBVIOUS
<1>1. CASE UNCHANGED <<outputs, numRelays, numListeners>>
  BY <1>1 DEF CountersExact
<1>2. ASSUME NEW c \in Channels, CloseAll(c) PROVE CountersExact'
  <2>1. {} \cap Relays = {} /\ {} \cap Viewers = {}  OBVIOUS
  <2> QED BY <1>2, <2>1, FS_EmptySet DEF CloseAll, CountersExact, TypeOK
<1>3. ASSUME NEW c \in Channels, NEW o \in Conns, Added(c, o)
      PROVE  CountersExact'
  <2>1. outputs[c] \in SUBSET Conns  BY DEF TypeOK
  <2>2. /\ Cardinality((outputs[c] \cup {o}) \cap Relays)
             = Cardinality(outputs[c] \cap Relays) + One(o, Relays)
        /\ Cardinality((outputs[c] \cup {o}) \cap Viewers)
             = Cardinality(outputs[c] \cap Viewers) + One(o, Viewers)
    BY <1>3, <2>1, CountAdd DEF Added
  <2> QED BY <1>3, <2>2 DEF Added, CountersExact, TypeOK
<1>4. ASSUME NEW c \in Channels, NEW o \in Conns, Dropped(c, o)
      PROVE  CountersExact'
  <2>1. outputs[c] \in SUBSET Conns  BY DEF TypeOK
  <2>2. /\ Cardinality((outputs[c] \ {o}) \cap Relays)
             = Cardinality(outputs[c] \cap Relays) - One(o, Relays)
        /\ Cardinality((outputs[c] \ {o}) \cap Viewers)
             = Cardinality(outputs[c] \cap Viewers) - One(o, Viewers)
    BY <1>4, <2>1, CountDrop DEF Dropped
  <2> QED BY <1>4, <2>2 DEF Dropped, CountersExact, TypeOK
<1> QED BY <1>1, <1>2, <1>3, <1>4, OutputSteps

(* The counters the limits are checked against count exactly the outputs   *)
(* registered, in any order of admissions, departures and CloseAlls: none  *)
(* is counted down twice.                                                  *)
THEOREM CountersCorrect == Spec => []CountersExact
<1>1. Init => CountersExact
  <2>1. {} \cap Relays = {} /\ {} \cap Viewers = {}  OBVIOUS
  <2> QED BY <2>1, FS_EmptySet DEF Init, CountersExact
<1> QED BY <1>1, NextCountersExact, TypeCorrect, BelongCorrect, PTL DEF Spec

CountersWithin ==
    \A c \in Channels : /\ MaxRelays > 0 => numRelays[c] <= MaxRelays
                        /\ MaxListeners > 0 => numListeners[c] <= MaxListeners

LEMMA NextCountersWithin ==
    TypeOK /\ OutputsBelong /\ CountersWithin /\ [Next]_vars => CountersWithin'
<1> SUFFICES ASSUME TypeOK, OutputsBelong, CountersWithin, [Next]_vars
             PROVE  CountersWithin'
  OBVIOUS
<1>3. CASE UNCHANGED <<outputs, numRelays, numListeners>>
  BY <1>3 DEF CountersWithin
<1>4. ASSUME NEW c \in Channels, CloseAll(c)
      PROVE  CountersWithin'
  BY <1>4, LimitsAssumption DEF CloseAll, TypeOK, CountersWithin
<1>5. ASSUME NEW c \in Channels, NEW o \in Conns, Added(c, o)
      PROVE  CountersWithin'
  <2>1. /\ numRelays' = [numRelays EXCEPT ![c] = @ + One(o, Relays)]
        /\ numListeners' = [numListeners EXCEPT ![c] = @ + One(o, Viewers)]
    BY <1>5 DEF Added
  <2>2. /\ numRelays \in [Channels -> Int] /\ numListeners \in [Channels -> Int]
        /\ MaxRelays \in Nat /\ MaxListeners \in Nat
    BY LimitsAssumption DEF TypeOK
  <2>3. CASE o \in Relays
    <3>1. /\ One(o, Relays) = 1 /\ One(o, Viewers) = 0
          /\ MaxRelays > 0 => numRelays[c] < MaxRelays
      BY <1>5, <2>2, <2>3, ConnsAssumption DEF Added, HasRoom, Below, One
    <3> QED BY <2>1, <2>2, <3>1 DEF CountersWithin
  <2>4. CASE o \notin Relays
    <3>1. /\ One(o, Relays) = 0 /\ One(o, Viewers) = 1
          /\ MaxListeners > 0 => numListeners[c] < MaxListeners
      BY <1>5, <2>2, <2>4 DEF Added, HasRoom, Below, One, Conns
    <3> QED BY <2>1, <2>2, <3>1 DEF CountersWithin
  <2> QED BY <2>3, <2>4
<1>6. ASSUME NEW c \in Channels, NEW o \in Conns, Dropped(c, o)
      PROVE  CountersWithin'
  <2>1. /\ numRelays' = [numRelays EXCEPT ![c] = @ - One(o, Relays)]
        /\ numListeners' = [numListeners EXCEPT ![c] = @ - One(o, Viewers)]
        /\ One(o, Relays) \in {0, 1} /\ One(o, Viewers) \in {0, 1}
    BY <1>6 DEF Dropped, One
  <2>2. /\ numRelays \in [Channels -> Int] /\ numListeners \in [Channels -> Int]
        /\ MaxRelays \in Nat /\ MaxListeners \in Nat
    BY LimitsAssumption DEF TypeOK
  <2> QED BY <2>1, <2>2 DEF CountersWithin
<1> QED BY <1>3, <1>4, <1>5, <1>6, OutputSteps

(* No channel ever has more relays or viewers than its limits allow,       *)
(* whoever asks, is evicted, leaves or is forgotten meanwhile              *)
(* (TryAddOutput's check and count under one lock).                        *)
THEOREM LimitsCorrect == Spec => []WithinLimits
<1>1. Init => CountersWithin
  BY LimitsAssumption DEF Init, CountersWithin
<1>2. CountersExact /\ CountersWithin => WithinLimits
  BY DEF CountersExact, CountersWithin, WithinLimits
<1> QED BY <1>1, <1>2, NextCountersWithin, TypeCorrect, BelongCorrect,
           CountersCorrect, PTL DEF Spec

(* Outputs, counters and handlers agree in every state, within the limits. *)
THEOREM AccountingCorrect == Spec => []AccountingInv
  BY TypeCorrect, BelongCorrect, CountersCorrect, LimitsCorrect, PTL
  DEF AccountingInv

------------------------------------------------------------------------------
(* The total over all channels.                                            *)

(* The listed channels' relays.                                            *)
ListedRelays == {r \in Relays : \E c \in Listed : r \in outputs[c]}

RelaySlots == UNION {{c} \X (1 .. numRelays[c]) : c \in Listed}

(* A channel's relays can be numbered: one slot each.                      *)
LEMMA SlotsNumbered ==
    ASSUME TypeOK, CountersExact, NEW c \in Channels
    PROVE  ExistsBijection(outputs[c] \cap Relays, 1 .. numRelays[c])
<1> DEFINE S == outputs[c] \cap Relays
           n == numRelays[c]
<1>1. IsFiniteSet(S) /\ Cardinality(S) \in Nat /\ Cardinality(S) = n
  BY ConnsAssumption, FS_Subset, FS_CardinalityType DEF TypeOK, CountersExact
<1>2. n >= 1 \/ n = 0  BY <1>1
<1>3. IsFiniteSet(1 .. n) /\ Cardinality(1 .. n) = n
  BY <1>1, <1>2, FS_Interval
<1> QED BY <1>1, <1>3, FS_SameCardinalityBij

(* The sum of the listed channels' counters is the number of their relays: *)
(* no relay is registered twice, with one channel or with two.             *)
LEMMA TotalIsExact ==
    ASSUME TypeOK, OutputsBelong, CountersExact
    PROVE  /\ IsFiniteSet(ListedRelays)
           /\ TotalRelays = Cardinality(ListedRelays)
<1> DEFINE S(c) == outputs[c] \cap Relays
           num == [c \in Channels |-> CHOOSE f : f \in Bijection(S(c), 1 .. numRelays[c])]
           slot == [r \in ListedRelays |-> <<conn[r].ch, num[conn[r].ch][r]>>]
<1>1. \A c \in Channels : num[c] \in Bijection(S(c), 1 .. numRelays[c])
  BY SlotsNumbered DEF ExistsBijection
<1> HIDE DEF num
<1>2. \A r \in ListedRelays : conn[r].ch \in Listed /\ r \in S(conn[r].ch)
  BY DEF ListedRelays, OutputsBelong, Listed
<1>3. \A c \in Listed : \A r \in S(c) : r \in ListedRelays /\ conn[r].ch = c
  BY DEF ListedRelays, OutputsBelong, Listed
<1>4. Listed \subseteq Channels  BY DEF Listed
<1>5. \A c \in Listed :
         /\ num[c] \in [S(c) -> 1 .. numRelays[c]]
         /\ \A r, u \in S(c) : num[c][r] = num[c][u] => r = u
         /\ \A i \in 1 .. numRelays[c] : \E r \in S(c) : num[c][r] = i
  BY <1>1, <1>4 DEF Bijection, Injection, IsInjective, Surjection
<1>6. slot \in [ListedRelays -> RelaySlots]
  <2> SUFFICES ASSUME NEW r \in ListedRelays
               PROVE  <<conn[r].ch, num[conn[r].ch][r]>> \in RelaySlots
    OBVIOUS
  <2> DEFINE c == conn[r].ch
  <2>0. c \in Listed /\ r \in S(c)  BY <1>2
  <2> HIDE DEF c, S
  <2>1. c \in Listed /\ num[c][r] \in 1 .. numRelays[c]  BY <1>5, <2>0
  <2>2. <<c, num[c][r]>> \in {c} \X (1 .. numRelays[c])  BY <2>1
  <2>3. <<c, num[c][r]>> \in RelaySlots  BY <2>1, <2>2, Zenon DEF RelaySlots
  <2> QED BY <2>3 DEF c
<1>7. \A r, u \in ListedRelays : slot[r] = slot[u] => r = u
  <2> SUFFICES ASSUME NEW r \in ListedRelays, NEW u \in ListedRelays,
                      slot[r] = slot[u]
               PROVE  r = u
    OBVIOUS
  <2>1. conn[r].ch = conn[u].ch /\ num[conn[r].ch][r] = num[conn[u].ch][u]
    OBVIOUS
  <2> HIDE DEF slot
  <2> DEFINE c == conn[r].ch
  <2>2. c \in Listed /\ r \in S(c) /\ u \in S(c)  BY <1>2, <2>1
  <2>3. num[c][r] = num[c][u]  BY <2>1
  <2> HIDE DEF c, S
  <2> QED BY <1>5, <2>2, <2>3
<1>8. \A s \in RelaySlots : \E r \in ListedRelays : slot[r] = s
  <2> SUFFICES ASSUME NEW s \in RelaySlots
               PROVE  \E r \in ListedRelays : slot[r] = s
    OBVIOUS
  <2>1. PICK c \in Listed : s \in {c} \X (1 .. numRelays[c])
    BY Zenon DEF RelaySlots
  <2>2. PICK i \in 1 .. numRelays[c] : s = <<c, i>>  BY <2>1
  <2>3. PICK r \in S(c) : num[c][r] = i  BY <1>5
  <2>4. r \in ListedRelays /\ conn[r].ch = c  BY <1>3
  <2> QED BY <2>2, <2>3, <2>4
<1>9. slot \in Bijection(ListedRelays, RelaySlots)
  BY <1>6, <1>7, <1>8 DEF Bijection, Injection, IsInjective, Surjection
<1>10. IsFiniteSet(ListedRelays)
  BY ConnsAssumption, FS_Subset DEF ListedRelays, Conns
<1> QED BY <1>9, <1>10, FS_Bijection DEF ExistsBijection, TotalRelays, RelaySlots

(* A channel that has not appeared was looked up by nobody, and whoever is *)
(* between a check of the totals and its use holds admitMu.                *)
LookedUp ==
    \A o \in Conns : conn[o].ch \in Channels => registry[conn[o].ch] # "new"
MuHeld ==
    \A o \in Conns : conn[o].pc \in {"makeRelayable", "evict", "add"} => admitMu = o

LEMMA NextLookedUp == TypeOK /\ LookedUp /\ [Next]_vars => LookedUp'
<1> SUFFICES ASSUME TypeOK, LookedUp, [Next]_vars PROVE LookedUp'
  OBVIOUS
<1>1. CASE UNCHANGED vars
  BY <1>1 DEF vars, channelVars, LookedUp
<1>2. ASSUME NEW c \in Channels, Channel(c) PROVE LookedUp'
  <2>1. conn' = conn /\ \A d \in Channels : registry[d] # "new" => registry'[d] # "new"
    BY <1>2 DEF Channel, Publish, SourceEnds, Unlist, StopCloses, CloseAll,
                CloseOutput, CloseConnection, channelVars, TypeOK
  <2> QED BY <2>1 DEF LookedUp
<1>3. ASSUME NEW o \in Conns, Lookup(o) PROVE LookedUp'
  <2> DEFINE l == IF o \in Relays THEN "found" ELSE "admit"
  <2>1. PICK c \in Listed : conn' = [conn EXCEPT ![o].ch = c, ![o].pc = l]
    BY <1>3 DEF Lookup
  <2>2. PICK x \in Locals : x = conn[o]  BY DEF TypeOK
  <2> DEFINE r == [x EXCEPT !.ch = c, !.pc = l]
  <2>3. r.ch = c  BY DEF Locals
  <2>4. conn' = [conn EXCEPT ![o] = r]  BY <2>1, <2>2
  <2>5. registry' = registry  BY <1>3 DEF Lookup, channelVars
  <2> HIDE DEF r
  <2> QED BY <2>3, <2>4, <2>5 DEF LookedUp, TypeOK, Listed
<1>4. ASSUME NEW o \in Conns, NotReceiving(o) \/ Handle(o) \/ StreamEnds(o)
      PROVE  LookedUp'
  <2>1. registry' = registry /\ ~at(o, "new")
    BY <1>4 DEF Handle, NotReceiving, AskTotal, MakeRelayable, NoneToEvict, Evict,
                handshake, AdmitTotal, TryAddOutput, Denied, StreamEnds,
                RemoveOutput, ReleaseAdmitMu, at, channelVars
  <2>2. conn'[o].ch = conn[o].ch /\ \A u \in Conns \ {o} : conn'[u] = conn[u]
    BY <1>4, <2>1, HandlerMoves DEF HandlerStep
  <2> QED BY <2>1, <2>2 DEF LookedUp
<1> QED BY <1>1, <1>2, <1>3, <1>4 DEF Next

(* A step that lengthens the list of relays is TryAddOutput's; all others  *)
(* leave it or shorten it.                                                 *)
LEMMA ListedShrinks ==
    ASSUME TypeOK, OutputsBelong, LookedUp, [Next]_vars,
           \A o \in Conns : ~TryAddOutput(o)
    PROVE  ListedRelays' \subseteq ListedRelays
<1>1. CASE UNCHANGED vars
  BY <1>1 DEF vars, channelVars, ListedRelays, Listed
<1>2. ASSUME NEW c \in Channels, Publish(c)
      PROVE  ListedRelays' \subseteq ListedRelays
  <2>1. outputs[c] = {}
    <3> SUFFICES ASSUME NEW o \in outputs[c] PROVE FALSE
      OBVIOUS
    <3> QED BY <1>2 DEF Publish, OutputsBelong, LookedUp, TypeOK
  <2>2. Listed' = Listed \cup {c} /\ outputs' = outputs
    BY <1>2 DEF Publish, Listed, TypeOK
  <2> QED BY <2>1, <2>2 DEF ListedRelays
<1>3. ASSUME Listed' \subseteq Listed,
             \A c \in Channels : outputs'[c] \subseteq outputs[c]
      PROVE  ListedRelays' \subseteq ListedRelays
  BY <1>3 DEF ListedRelays, Listed
<1>4. ASSUME NEW c \in Channels, Channel(c), ~Publish(c)
      PROVE  ListedRelays' \subseteq ListedRelays
  <2>1. Listed' \subseteq Listed
    BY <1>4 DEF Channel, SourceEnds, Unlist, StopCloses, CloseOutput,
                CloseConnection, channelVars, Listed, TypeOK
  <2>2. \A d \in Channels : outputs'[d] \subseteq outputs[d]
    BY <1>4 DEF Channel, SourceEnds, Unlist, StopCloses, CloseAll, CloseOutput,
                CloseConnection, channelVars, TypeOK
  <2> QED BY <1>3, <2>1, <2>2
<1>5. ASSUME NEW o \in Conns, RemoveOutput(o)
      PROVE  ListedRelays' \subseteq ListedRelays
  <2>1. Listed' = Listed  BY <1>5 DEF RemoveOutput, Listed
  <2>2. \A d \in Channels : outputs'[d] \subseteq outputs[d]
    BY <1>5 DEF RemoveOutput, TypeOK
  <2> QED BY <1>3, <2>1, <2>2
<1>6. ASSUME NEW o \in Conns,
             \/ Lookup(o) \/ NotReceiving(o) \/ AskTotal(o) \/ MakeRelayable(o)
             \/ Evict(o) \/ handshake(o) \/ AdmitTotal(o) \/ Denied(o)
             \/ StreamEnds(o)
      PROVE  ListedRelays' \subseteq ListedRelays
  <2>1. UNCHANGED <<registry, outputs>>
    BY <1>6 DEF Lookup, NotReceiving, AskTotal, MakeRelayable, NoneToEvict, Evict,
                handshake, ReleaseAdmitMu, AdmitTotal, Denied, StreamEnds, channelVars
  <2> QED BY <2>1 DEF ListedRelays, Listed
<1> QED BY <1>1, <1>2, <1>4, <1>5, <1>6 DEF Next, Handle

LEMMA NextMuHeld == TypeOK /\ MuHeld /\ [Next]_vars => MuHeld'
<1> SUFFICES ASSUME TypeOK, MuHeld, [Next]_vars PROVE MuHeld'
  OBVIOUS
<1> DEFINE Holds(u) == conn[u].pc \in {"makeRelayable", "evict", "add"}
<1>1. CASE UNCHANGED <<conn, admitMu>>
  BY <1>1 DEF MuHeld
<1>2. ASSUME NEW c \in Channels, Channel(c) PROVE MuHeld'
  BY <1>1, <1>2 DEF Channel, Publish, SourceEnds, Unlist, StopCloses, CloseOutput,
                    CloseConnection, channelVars
<1>3. ASSUME NEW o \in Conns,
             Lookup(o) \/ NotReceiving(o) \/ Handle(o) \/ StreamEnds(o)
      PROVE  MuHeld'
  <2>1. \A u \in Conns \ {o} : conn'[u] = conn[u]
    BY <1>3, HandlerMoves DEF HandlerStep
  (* o goes where admitMu is not needed, leaving it alone or giving it up.   *)
  <2>2. ASSUME ~Holds(o)', admitMu' = admitMu \/ Holds(o) PROVE MuHeld'
    BY <2>1, <2>2 DEF MuHeld
  (* o takes it while it is free.                                            *)
  <2>3. ASSUME admitMu = Nobody, admitMu' = o PROVE MuHeld'
    BY <2>1, <2>3, ConnsAssumption DEF MuHeld
  (* o keeps it.                                                             *)
  <2>4. ASSUME Holds(o), admitMu' = admitMu PROVE MuHeld'
    BY <2>1, <2>4 DEF MuHeld
  <2>5. ASSUME NEW l \in Places, Goto(o, l) PROVE conn'[o].pc = l
    BY <2>5, Moves
  <2>6. ASSUME NEW a \in BOOLEAN, Answered(o, a) PROVE ~Holds(o)'
    BY <2>6, AnswerMoves
  <2>7. CASE Lookup(o)
    BY <2>2, <2>7, LookupMoves DEF Lookup
  <2>8. CASE NotReceiving(o) \/ StreamEnds(o) \/ Denied(o) \/ handshake(o)
    BY <2>2, <2>5, <2>8 DEF NotReceiving, StreamEnds, Denied, handshake, Places
  <2>9. CASE AskTotal(o)
    BY <2>2, <2>3, <2>6, <2>9 DEF AskTotal
  <2>10. CASE MakeRelayable(o)
    BY <2>2, <2>4, <2>6, <2>10 DEF MakeRelayable, NoneToEvict, at
  <2>11. CASE Evict(o)
    BY <2>2, <2>6, <2>11 DEF Evict, at
  <2>12. CASE AdmitTotal(o)
    BY <2>2, <2>3, <2>5, <2>12 DEF AdmitTotal, TakeAdmitMu, Refused, Places
  <2>13. CASE TryAddOutput(o)
    BY <2>2, <2>5, <2>13 DEF TryAddOutput, Refused, Places, at
  <2>14. CASE RemoveOutput(o)
    BY <2>2, <2>5, <2>14 DEF RemoveOutput, Places
  <2> QED BY <1>3, <2>7, <2>8, <2>9, <2>10, <2>11, <2>12, <2>13, <2>14 DEF Handle
<1>4. CASE UNCHANGED vars
  BY <1>1, <1>4 DEF vars
<1> QED BY <1>2, <1>3, <1>4 DEF Next

(* The total is within its limit, with one to spare while a relay that     *)
(* passed the check has yet to be added.                                   *)
RoomInTotal ==
    MaxRelaysTotal > 0 =>
        /\ Cardinality(ListedRelays) <= MaxRelaysTotal
        /\ \A r \in Relays :
             at(r, "add") => Cardinality(ListedRelays) < MaxRelaysTotal

TotalInv == LookedUp /\ MuHeld /\ RoomInTotal

LEMMA NextRoomInTotal ==
    TypeOK /\ OutputsBelong /\ CountersExact /\ TotalInv /\ [Next]_vars
        => RoomInTotal'
<1> SUFFICES ASSUME TypeOK, OutputsBelong, CountersExact, TotalInv, [Next]_vars,
                    MaxRelaysTotal > 0
             PROVE  /\ Cardinality(ListedRelays') <= MaxRelaysTotal
                    /\ \A r \in Relays :
                         at(r, "add")' => Cardinality(ListedRelays') < MaxRelaysTotal
  BY DEF RoomInTotal
<1> DEFINE n == Cardinality(ListedRelays)
           m == Cardinality(ListedRelays')
<1>1. /\ IsFiniteSet(ListedRelays) /\ IsFiniteSet(ListedRelays')
      /\ n \in Nat /\ m \in Nat /\ MaxRelaysTotal \in Nat
  BY ConnsAssumption, LimitsAssumption, FS_Subset, FS_CardinalityType
  DEF ListedRelays, Conns
<1>2. /\ n <= MaxRelaysTotal
      /\ \A r \in Relays : at(r, "add") => n < MaxRelaysTotal
  BY DEF TotalInv, RoomInTotal
<1>3. CASE \A o \in Conns : ~TryAddOutput(o)
  <2>1. m <= n
    BY <1>1, <1>3, ListedShrinks, FS_Subset DEF TotalInv
  <2>2. ASSUME NEW r \in Relays, at(r, "add")', ~at(r, "add")
        PROVE  n < MaxRelaysTotal
    <3>1. r \in Conns  BY DEF Conns
    <3>2. conn' # conn  BY <2>2 DEF at
    <3>3. PICK o \in Conns :
              Lookup(o) \/ NotReceiving(o) \/ Handle(o) \/ StreamEnds(o)
      BY <3>2 DEF Next, vars, Channel, Publish, SourceEnds, Unlist, StopCloses,
                  CloseOutput, CloseConnection
    <3>4. o = r
      BY <2>2, <3>1, <3>3, HandlerMoves DEF HandlerStep, at
    <3>5. AdmitTotal(r) /\ Goto(r, "add")
      <4>1. ASSUME NEW l \in Places, Goto(r, l) PROVE l = "add"
        BY <2>2, <3>1, <4>1, Moves DEF at
      <4>2. ASSUME NEW a \in BOOLEAN, Answered(r, a) PROVE FALSE
        BY <2>2, <3>1, <4>2, AnswerMoves DEF at
      <4>3. ~Lookup(r)  BY <2>2, <3>1, LookupMoves DEF at
      <4>4. ~NotReceiving(r) /\ ~StreamEnds(r) /\ ~Denied(r)
        BY <4>1 DEF NotReceiving, StreamEnds, Denied, Places
      <4>5. ~handshake(r)
        BY <4>1 DEF handshake, Places
      <4>6. ~AskTotal(r)
        BY <4>1, <4>2 DEF AskTotal, Places
      <4>7. ~Evict(r) /\ ~RemoveOutput(r)
        BY <4>1, <4>2 DEF Evict, RemoveOutput, Places
      <4>8. ~MakeRelayable(r)
        <5>1. ASSUME NEW u \in Victims(conn[r].ch),
                     conn' = [conn EXCEPT ![r].victim = u, ![r].pc = "evict"],
                     MakeRelayable(r)
              PROVE  FALSE
          <6>1. conn[r].ch \in Channels
            BY <3>1, <5>1 DEF MakeRelayable, NoneToEvict, ReleaseAdmitMu, TypeOK, at
          <6>2. u \in Conns  BY <6>1 DEF Victims, TypeOK
          <6> QED BY <2>2, <3>1, <5>1, <6>2, VictimMoves DEF at
        <5> QED BY <4>2, <5>1 DEF MakeRelayable, NoneToEvict
      <4>9. AdmitTotal(r)
        BY <1>3, <3>1, <3>3, <3>4, <4>3, <4>4, <4>5, <4>6, <4>7, <4>8 DEF Handle
      <4> QED BY <4>1, <4>9 DEF AdmitTotal, Refused, Places
    <3>6. TotalIsBelow(r)
      <4>1. ~Goto(r, "denied")
        BY <2>2, <3>1, Moves DEF at, Places
      <4> QED BY <3>5, <4>1 DEF AdmitTotal, Refused
    <3> QED BY <1>1, <3>6, TotalIsExact DEF TotalIsBelow, Below
  <2> QED BY <1>1, <1>2, <2>1, <2>2
<1>4. ASSUME NEW o \in Conns, TryAddOutput(o)
      PROVE  /\ m <= MaxRelaysTotal
             /\ \A r \in Relays : at(r, "add")' => m < MaxRelaysTotal
  <2>1. admitMu = o /\ at(o, "add")
    BY <1>4 DEF TryAddOutput, TotalInv, MuHeld, at
  <2>2. \A r \in Relays : ~at(r, "add")'
    <3> SUFFICES ASSUME NEW r \in Relays, at(r, "add")' PROVE FALSE
      OBVIOUS
    <3>1. r \in Conns  BY DEF Conns
    <3>2. conn'[o].pc # "add"
      BY <1>4, Moves DEF TryAddOutput, Refused, Places
    <3>3. r # o /\ conn'[r] = conn[r]
      BY <1>4, <3>1, <3>2, HandlerMoves DEF HandlerStep, Handle, at
    <3> QED BY <2>1, <3>1, <3>3 DEF TotalInv, MuHeld, at
  <2>3. registry' = registry  BY <1>4 DEF TryAddOutput
  <2>4. \A c \in Channels : outputs'[c] \subseteq outputs[c] \cup {o}
    BY <1>4 DEF TryAddOutput, TypeOK
  <2>5. ListedRelays' \subseteq ListedRelays \cup ({o} \cap Relays)
    BY <2>3, <2>4 DEF ListedRelays, Listed
  <2>6. CASE o \in Relays
    <3>0. /\ IsFiniteSet(ListedRelays \cup {o})
          /\ Cardinality(ListedRelays \cup {o})
               = IF o \in ListedRelays THEN n ELSE n + 1
      BY <1>1, FS_AddElement
    <3>1. /\ IsFiniteSet(ListedRelays \cup {o})
          /\ Cardinality(ListedRelays \cup {o}) <= n + 1
          /\ Cardinality(ListedRelays \cup {o}) \in Nat
      BY <1>1, <3>0
    <3>2. m <= Cardinality(ListedRelays \cup {o})
      BY <2>5, <3>1, FS_Subset
    <3> QED BY <1>1, <1>2, <2>1, <2>2, <2>6, <3>1, <3>2
  <2>7. CASE o \notin Relays
    <3>1. m <= n  BY <1>1, <2>5, <2>7, FS_Subset
    <3> QED BY <1>1, <1>2, <2>2, <3>1
  <2> QED BY <2>6, <2>7
<1> QED BY <1>3, <1>4

(* All listed channels together never have more relays than the total      *)
(* limit: whoever has passed the check keeps admitMu until it is added, so *)
(* no second one passes on the same count (tryAdmit).                      *)
THEOREM TotalCorrect == Spec => []WithinTotal
<1>1. Init => TotalInv
  <2> SUFFICES ASSUME Init PROVE TotalInv
    OBVIOUS
  <2>1. LookedUp /\ MuHeld
    BY ChannelsAssumption DEF Init, LookedUp, MuHeld
  <2>2. ListedRelays = {} /\ \A r \in Relays : ~at(r, "add")
    BY DEF Init, ListedRelays, Listed, at, Conns
  <2>3. Cardinality(ListedRelays) = 0  BY <2>2, FS_EmptySet
  <2> QED BY <2>1, <2>2, <2>3, LimitsAssumption DEF TotalInv, RoomInTotal
<1>2. TypeOK /\ OutputsBelong /\ CountersExact /\ TotalInv /\ [Next]_vars
          => TotalInv'
  BY NextLookedUp, NextMuHeld, NextRoomInTotal DEF TotalInv
<1>3. TotalInv => WithinTotal
  BY DEF TotalInv, RoomInTotal, WithinTotal, ListedRelays
<1> QED BY <1>1, <1>2, <1>3, TypeCorrect, BelongCorrect, CountersCorrect, PTL
        DEF Spec

==============================================================================
