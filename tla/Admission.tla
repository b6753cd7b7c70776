------------------------------ MODULE Admission ------------------------------
(***************************************************************************)
(* Who may stream: internal/servent/listener.go (handlePCPRelay,           *)
(* handleHTTPStream, canAdmitRelay, tryAdmit) with the outputs and         *)
(* counters of internal/channel/channel.go and the Stop of manager.go.     *)
(*                                                                         *)
(* Every connection is a goroutine.  Downstream relays and viewers ask for *)
(* a slot, stream and leave, while channels appear, lose their source and  *)
(* are stopped.  admitMu serialises the checks; each channel guards its    *)
(* own outputs and counters by c.mu, and the registry guards byID by m.mu. *)
(* A step is one critical section of c.mu or m.mu, or one exchange with    *)
(* the peer.                                                               *)
(***************************************************************************)
EXTENDS Integers, FiniteSets

CONSTANTS
    Channels,       \* channel objects; every start of a channel is a new one
    Relayed,        \* those fed by a relay client, the others by an encoder
    Relays,         \* PCP connections
    Viewers,        \* HTTP connections
    Firewalled,     \* the relays whose port proves closed in the handshake
    MaxRelays,      \* per channel; 0 is no limit, here and below
    MaxListeners,   \* per channel
    MaxRelaysTotal, \* over all channels
    UpstreamLimited, \* whether there is a limit on the bandwidth in use
    Nobody,         \* nobody holds admitMu
    NoChannel       \* a connection that has not looked its channel up

Conns == Relays \cup Viewers

ASSUME ConnsAssumption ==
    /\ Relays \cap Viewers = {} /\ IsFiniteSet(Conns)
    /\ Firewalled \subseteq Relays
    /\ Nobody \notin Conns
ASSUME ChannelsAssumption ==
    Relayed \subseteq Channels /\ NoChannel \notin Channels
ASSUME LimitsAssumption ==
    /\ MaxRelays \in Nat /\ MaxListeners \in Nat /\ MaxRelaysTotal \in Nat
    /\ UpstreamLimited \in BOOLEAN

VARIABLES
    registry,     \* per channel: where it is in its life
    ended,        \* the relayed channels whose client's Run has closed all
    outputs,      \* per channel: c.outputs
    numRelays,    \* per channel
    numListeners, \* per channel
    toClose,      \* per channel: what a CloseAll has copied, not yet closed
    closed,       \* the outputs whose closeCh is closed
    admitMu,      \* who holds l.admitMu
    conn          \* per connection: the locals of its handler

channelVars == <<registry, ended, outputs, numRelays, numListeners, toClose>>
vars == <<channelVars, closed, admitMu, conn>>

Init ==
    /\ registry = [c \in Channels |-> "new"]
    /\ ended = {}
    /\ outputs = [c \in Channels |-> {}]
    /\ numRelays = [c \in Channels |-> 0]
    /\ numListeners = [c \in Channels |-> 0]
    /\ toClose = [c \in Channels |-> {}]
    /\ closed = {}
    /\ admitMu = Nobody
    /\ conn = [o \in Conns |-> [pc |-> "new", ch |-> NoChannel,
                                accepted |-> FALSE, victim |-> Nobody]]

at(o, l) == conn[o].pc = l
Goto(o, l) == conn' = [conn EXCEPT ![o].pc = l]

------------------------------------------------------------------------------
(* Channels.                                                               *)

Listed == {c \in Channels : registry[c] = "listed"}

(* Broadcast or AddRelayChannel.                                           *)
Publish(c) ==
    /\ registry[c] = "new"
    /\ registry' = [registry EXCEPT ![c] = "listed"]
    /\ UNCHANGED <<ended, outputs, numRelays, numListeners, toClose, closed,
                   admitMu, conn>>

(* CloseAll forgets the outputs under c.mu and then closes them.           *)
CloseAll(c) ==
    /\ outputs' = [outputs EXCEPT ![c] = {}]
    /\ numRelays' = [numRelays EXCEPT ![c] = 0]
    /\ numListeners' = [numListeners EXCEPT ![c] = 0]
    /\ toClose' = [toClose EXCEPT ![c] = outputs[c]]

CloseOutput(c, o) ==
    /\ o \in toClose[c]
    /\ toClose' = [toClose EXCEPT ![c] = @ \ {o}]
    /\ closed' = closed \cup {o}
    /\ UNCHANGED <<registry, ended, outputs, numRelays, numListeners, admitMu,
                   conn>>

(* A relay client's Run returns, because it has no host left or because    *)
(* Stop has cancelled it, and closes all outputs on its way out.  The      *)
(* channel stays listed until onStopped, or that Stop, gets to it.         *)
SourceEnds(c) ==
    /\ c \in Relayed \ ended
    /\ registry[c] \in {"listed", "unlisted"}
    /\ ended' = ended \cup {c}
    /\ CloseAll(c)
    /\ UNCHANGED <<registry, closed, admitMu, conn>>

(* Manager.Stop takes the channel off the registry, waits for the relay    *)
(* client, whose Run has then closed all outputs, and closes all outputs.  *)
Unlist(c) ==
    /\ registry[c] = "listed"
    /\ registry' = [registry EXCEPT ![c] = "unlisted"]
    /\ UNCHANGED <<ended, outputs, numRelays, numListeners, toClose, closed,
                   admitMu, conn>>

SourceGone(c) == c \in Relayed => c \in ended /\ toClose[c] = {}

StopCloses(c) ==
    /\ registry[c] = "unlisted"
    /\ SourceGone(c)
    /\ registry' = [registry EXCEPT ![c] = "stopped"]
    /\ CloseAll(c)
    /\ UNCHANGED <<ended, closed, admitMu, conn>>

------------------------------------------------------------------------------
(* The limits.                                                             *)

Below(n, limit) == limit = 0 \/ n < limit

(* The sum of the listed channels' counters: the slots they count, where   *)
(* each channel with n relays has the slots 1 to n.                        *)
TotalRelays == Cardinality(UNION {{c} \X (1 .. numRelays[c]) : c \in Listed})

RelayIsFull(c) == ~Below(numRelays[c], MaxRelays)

HasRoom(o, c) ==
    IF o \in Relays THEN Below(numRelays[c], MaxRelays)
                    ELSE Below(numListeners[c], MaxListeners)

------------------------------------------------------------------------------
(* A connection asks for a channel.  One that is not listed is answered    *)
(* 404 and never gets here; a relay asking for a channel without data is   *)
(* turned away as well.                                                    *)
Lookup(o) ==
    /\ at(o, "new")
    /\ \E c \in Listed :
         conn' = [conn EXCEPT ![o].ch = c,
                              ![o].pc = IF o \in Relays THEN "found" ELSE "admit"]
    /\ UNCHANGED <<channelVars, closed, admitMu>>

NotReceiving(r) ==
    /\ at(r, "found")
    /\ Goto(r, "gone")
    /\ UNCHANGED <<channelVars, closed, admitMu>>

(* Both checks, canAdmitRelay and tryAdmit, hold admitMu and release it    *)
(* when they return, whatever the answer is.                               *)
ReleaseAdmitMu_Never == UNCHANGED admitMu
ReleaseAdmitMu == admitMu' = Nobody

(* canAdmitRelay.  The checks of the two totals come first: on success the *)
(* relay keeps admitMu, else it is refused.  Only tryAdmit adds relays,    *)
(* and under admitMu, so the total, summed up here in one step, is in the  *)
(* code never lower.  Whether the bandwidth in use has reached its limit   *)
(* is left open.                                                           *)
TotalIsBelow_Unchecked(o) == TRUE
TotalIsBelow(o) == o \in Relays => Below(TotalRelays, MaxRelaysTotal)

TotalMayRefuse(o) == UpstreamLimited \/ ~TotalIsBelow(o)

Answered(r, answer) ==
    conn' = [conn EXCEPT ![r].accepted = answer, ![r].pc = "handshake"]

AskTotal(r) ==
    /\ at(r, "found")
    /\ admitMu = Nobody
    /\ \/ /\ TotalIsBelow(r)
          /\ admitMu' = r
          /\ Goto(r, "makeRelayable")
       \/ /\ TotalMayRefuse(r)
          /\ Answered(r, FALSE)
          /\ UNCHANGED admitMu
    /\ UNCHANGED <<channelVars, closed>>

(* MakeRelayable looks for a free slot, or for a firewalled relay to       *)
(* evict.  The code takes the one registered first; here it may be any.    *)
Victims(c) == outputs[c] \cap Firewalled

NoneToEvict(r) ==
    /\ Answered(r, FALSE)
    /\ ReleaseAdmitMu

MakeRelayable(r) ==
    LET c == conn[r].ch IN
    /\ at(r, "makeRelayable")
    /\ \/ /\ ~RelayIsFull(c)
          /\ Answered(r, TRUE) /\ ReleaseAdmitMu
       \/ /\ RelayIsFull(c) /\ Victims(c) = {}
          /\ NoneToEvict(r)
       \/ /\ RelayIsFull(c)
          /\ \E o \in Victims(c) :
               conn' = [conn EXCEPT ![r].victim = o, ![r].pc = "evict"]
          /\ UNCHANGED admitMu
    /\ UNCHANGED <<channelVars, closed>>

Evict(r) ==
    /\ at(r, "evict")
    /\ closed' = closed \cup {conn[r].victim}
    /\ Answered(r, TRUE)
    /\ ReleaseAdmitMu
    /\ UNCHANGED channelVars

(* The handshake tells the peer the answer: 200 and PCP_OK, or 503.  It    *)
(* may fail, at the latest by its deadline.                                *)
handshake(r) ==
    /\ at(r, "handshake")
    /\ \/ Goto(r, IF conn[r].accepted THEN "admit" ELSE "denied")
       \/ Goto(r, "gone")
    /\ UNCHANGED <<channelVars, closed, admitMu>>

(* tryAdmit: the totals again, keeping admitMu, and then the channel's own *)
(* limits in TryAddOutput.                                                 *)
Refused(o) == Goto(o, IF o \in Relays THEN "denied" ELSE "gone")

TakeAdmitMu_Shared(o) == UNCHANGED admitMu
TakeAdmitMu(o) == admitMu' = o

AdmitTotal(o) ==
    /\ at(o, "admit")
    /\ admitMu = Nobody
    /\ \/ /\ TotalIsBelow(o)
          /\ TakeAdmitMu(o)
          /\ Goto(o, "add")
       \/ /\ TotalMayRefuse(o)
          /\ Refused(o)
          /\ UNCHANGED admitMu
    /\ UNCHANGED <<channelVars, closed>>

One(o, S) == IF o \in S THEN 1 ELSE 0

TryAddOutput(o) ==
    LET c == conn[o].ch IN
    /\ at(o, "add")
    /\ \/ /\ HasRoom(o, c)
          /\ outputs' = [outputs EXCEPT ![c] = @ \cup {o}]
          /\ numRelays' = [numRelays EXCEPT ![c] = @ + One(o, Relays)]
          /\ numListeners' = [numListeners EXCEPT ![c] = @ + One(o, Viewers)]
          /\ Goto(o, "streaming")
       \/ /\ ~HasRoom(o, c)
          /\ Refused(o)
          /\ UNCHANGED <<outputs, numRelays, numListeners>>
    /\ ReleaseAdmitMu
    /\ UNCHANGED <<registry, ended, toClose, closed>>

(* sendRelayDenied.                                                        *)
Denied(r) ==
    /\ at(r, "denied")
    /\ Goto(r, "gone")
    /\ UNCHANGED <<channelVars, closed, admitMu>>

(* runStreaming or run returns: the output was closed, or its peer failed. *)
StreamEnds(o) ==
    /\ at(o, "streaming")
    /\ Goto(o, "ended")
    /\ UNCHANGED <<channelVars, closed, admitMu>>

(* Mutants: RemoveOutput counts down also what CloseAll has forgotten, or  *)
(* it is not called.                                                       *)
RemoveOutput_Always(o) ==
    LET c == conn[o].ch IN
    /\ at(o, "ended")
    /\ outputs' = [outputs EXCEPT ![c] = @ \ {o}]
    /\ numRelays' = [numRelays EXCEPT ![c] = @ - One(o, Relays)]
    /\ numListeners' = [numListeners EXCEPT ![c] = @ - One(o, Viewers)]
    /\ Goto(o, "gone")
    /\ UNCHANGED <<registry, ended, toClose, closed, admitMu>>

(* RemoveOutput counts down only what it finds registered: CloseAll may    *)
(* have forgotten the output, and the counters, before.                    *)
RemoveOutput(o) ==
    LET c == conn[o].ch IN
    /\ at(o, "ended")
    /\ \/ /\ o \in outputs[c]
          /\ outputs' = [outputs EXCEPT ![c] = @ \ {o}]
          /\ numRelays' = [numRelays EXCEPT ![c] = @ - One(o, Relays)]
          /\ numListeners' = [numListeners EXCEPT ![c] = @ - One(o, Viewers)]
       \/ /\ o \notin outputs[c]
          /\ UNCHANGED <<outputs, numRelays, numListeners>>
    /\ Goto(o, "gone")
    /\ UNCHANGED <<registry, ended, toClose, closed, admitMu>>

(* stopChannelConnection: CloseConnection closes a relay of a channel that *)
(* was listed when the request looked it up.                               *)
CloseConnection(c, r) ==
    /\ r \in outputs[c] \cap Relays
    /\ closed' = closed \cup {r}
    /\ UNCHANGED <<channelVars, admitMu, conn>>

------------------------------------------------------------------------------
Channel(c) ==
    \/ Publish(c) \/ SourceEnds(c) \/ Unlist(c) \/ StopCloses(c)
    \/ \E o \in Conns : CloseOutput(c, o) \/ CloseConnection(c, o)

(* A handler's own steps, up to its streaming and after it.                *)
Handle(o) ==
    \/ AskTotal(o) \/ MakeRelayable(o) \/ Evict(o) \/ handshake(o)
    \/ AdmitTotal(o) \/ TryAddOutput(o) \/ Denied(o) \/ RemoveOutput(o)

Next ==
    \/ \E c \in Channels : Channel(c)
    \/ \E o \in Conns :
         Lookup(o) \/ NotReceiving(o) \/ Handle(o) \/ StreamEnds(o)

(* A handler runs while it can, the handshake is ended by its deadline,    *)
(* and an output that is closed stops streaming.  A Go mutex is granted in *)
(* the end to whoever waits for it.  Nothing makes a peer connect or leave *)
(* or a channel appear or end; a Stop or CloseAll once begun is finished.  *)
Fairness ==
    /\ \A o \in Conns :
         /\ SF_vars(Handle(o))
         /\ WF_vars(o \in closed /\ StreamEnds(o))
         /\ \A c \in Channels : WF_vars(CloseOutput(c, o))
    /\ \A c \in Channels :
         /\ WF_vars(StopCloses(c))
         /\ WF_vars(registry[c] = "unlisted" /\ SourceEnds(c))

Spec == Init /\ [][Next]_vars /\ Fairness

------------------------------------------------------------------------------
Places == {"new", "found", "makeRelayable", "evict", "handshake", "admit",
           "add", "streaming", "ended", "denied", "gone"}
Locals == [pc : Places, ch : Channels \cup {NoChannel}, accepted : BOOLEAN,
           victim : Conns \cup {Nobody}]

(* Type correctness; whoever is past the lookup has a channel, and whoever *)
(* evicts has a victim.                                                    *)
TypeOK ==
    /\ registry \in [Channels -> {"new", "listed", "unlisted", "stopped"}]
    /\ ended \subseteq Relayed
    /\ outputs \in [Channels -> SUBSET Conns]
    /\ numRelays \in [Channels -> Int]
    /\ numListeners \in [Channels -> Int]
    /\ toClose \in [Channels -> SUBSET Conns]
    /\ closed \subseteq Conns
    /\ admitMu \in Conns \cup {Nobody}
    /\ conn \in [Conns -> Locals]
    /\ \A o \in Conns : /\ at(o, "new") \/ conn[o].ch \in Channels
                        /\ at(o, "evict") => conn[o].victim \in Conns

(* An output is registered only with the channel its handler asked for,    *)
(* and only while the handler streams or has yet to unregister it: nobody  *)
(* who has gone holds a slot.                                              *)
OutputsBelong ==
    \A c \in Channels : \A o \in outputs[c] :
        conn[o].ch = c /\ conn[o].pc \in {"streaming", "ended"}

(* The counters count the registered outputs, whatever the order in which  *)
(* outputs leave and CloseAll forgets them.                                *)
CountersExact ==
    \A c \in Channels :
        /\ numRelays[c] = Cardinality(outputs[c] \cap Relays)
        /\ numListeners[c] = Cardinality(outputs[c] \cap Viewers)

(* No channel has more relays or viewers than its limits, however many ask *)
(* at the same time and whoever is evicted meanwhile.                      *)
WithinLimits ==
    \A c \in Channels :
        /\ MaxRelays > 0 => Cardinality(outputs[c] \cap Relays) <= MaxRelays
        /\ MaxListeners > 0 =>
             Cardinality(outputs[c] \cap Viewers) <= MaxListeners

(* The books balance: what is registered, what is counted, and who is      *)
(* there to give it back agree in every state, within the limits.          *)
AccountingInv == TypeOK /\ OutputsBelong /\ CountersExact /\ WithinLimits

(* The listed channels together have no more relays than the total limit:  *)
(* two connections never both pass the check before either is added.       *)
WithinTotal ==
    MaxRelaysTotal > 0 =>
        Cardinality({r \in Relays : \E c \in Listed : r \in outputs[c]})
            <= MaxRelaysTotal

(* Everybody who asks is answered in the end; nobody keeps admitMu.        *)
EveryoneIsAnswered ==
    \A o \in Conns :
        conn[o].pc \in {"found", "admit"} ~>
            conn[o].pc \in {"streaming", "ended", "gone"}


(* "Stop closes and deregisters the channel" (manager.go): once Stop has   *)
(* closed all its outputs, nobody streams the channel unclosed.            *)
NothingOutlivesStop ==
    \A o \in Conns :
        at(o, "streaming") /\ registry[conn[o].ch] = "stopped" =>
            o \in closed \cup toClose[conn[o].ch]

==============================================================================
