------------------------------ MODULE Lifecycle ------------------------------
(***************************************************************************)
(* How channels come and go: the registry of internal/channel/manager.go   *)
(* with everybody who adds to it or stops what is in it.  These are the    *)
(* on-demand relay and the shutdown of main.go, the end of a relay client  *)
(* in internal/relay/client.go, the end of an encoder's connection in      *)
(* internal/rtmp/server.go, the API, and channel/cleaner.go.               *)
(*                                                                         *)
(* The maps are guarded by m.mu.  Everybody looks a channel up in one      *)
(* critical section and stops it, by its ID, in another: by then another   *)
(* channel may have the ID.                                                *)
(***************************************************************************)
EXTENDS FiniteSets

CONSTANTS
    Ids,        \* channel IDs
    Keys,       \* stream keys, all of them issued
    IdsOf,      \* per key: the IDs that Broadcast derives from it
    Broadcasts, \* channel objects fed by an encoder
    Relayed,    \* channel objects fed by a relay client, and these clients
    Viewers,    \* /pls requests that may start a relay
    Callers,    \* API requests
    Encoders,   \* RTMP connections
    Cleaner,
    Main,
    NoId,       \* a channel object that is not created yet
    NoKey,      \* no entry in streamKeyByID
    NoChannel   \* no entry in byID, byStreamKey or relays

Channels == Broadcasts \cup Relayed
Actors == Callers \cup Encoders \cup Relayed \cup {Cleaner, Main}

ASSUME MarkersAssumption ==
    NoId \notin Ids /\ NoKey \notin Keys /\ NoChannel \notin Channels
ASSUME IdsAssumption ==
    /\ IdsOf \in [Keys -> SUBSET Ids]
    /\ \A k, l \in Keys : k # l => IdsOf[k] \cap IdsOf[l] = {}
ASSUME ActorsAssumption ==
    /\ Broadcasts \cap Relayed = {}
    /\ (Callers \cup Encoders) \cap (Relayed \cup {Cleaner, Main}) = {}
    /\ Cleaner \notin Relayed /\ Main \notin Relayed /\ Cleaner # Main

VARIABLES
    byID, byStreamKey, streamKeyByID, relays, \* the maps of the manager
    idOf,      \* per channel: ch.ID
    client,    \* per relay client: where its Run is
    cancelled, \* the clients whose context is cancelled
    done,      \* the clients whose doneCh is closed
    pls,       \* per viewer: the channel that OnDemandRelay has prepared
    raced,     \* the channels that were registered while another request,
               \* which had found none either, had yet to register its own
    encoder,   \* per RTMP connection: its stream key, and whether it has closed
    stop,      \* per actor: the locals of Stop or StopAll
    attended,  \* the relay channels with listeners or relays
    inactive,  \* per ID: what the cleaner remembers
    sweep,     \* the locals of the cleaner's cleanup
    down       \* whether the process shuts down

registry == <<byID, byStreamKey, streamKeyByID, relays>>
clients == <<client, cancelled, done>>
cleaning == <<inactive, sweep>>
requests == <<pls, raced>>
vars == <<registry, clients, cleaning, idOf, requests, encoder, stop, attended,
          down>>

Returned == [pc |-> "idle", id |-> NoId, clients |-> {}, channels |-> {}]

Init ==
    /\ byID = [i \in Ids |-> NoChannel]
    /\ byStreamKey = [k \in Keys |-> NoChannel]
    /\ streamKeyByID = [i \in Ids |-> NoKey]
    /\ relays = [i \in Ids |-> NoChannel]
    /\ idOf = [c \in Channels |-> NoId]
    /\ client = [c \in Relayed |-> "new"]
    /\ cancelled = {} /\ done = {}
    /\ pls = [v \in Viewers |-> NoChannel] /\ raced = {}
    /\ encoder = [e \in Encoders |-> [key |-> NoKey, closed |-> FALSE]]
    /\ stop = [a \in Actors |-> Returned]
    /\ attended = {}
    /\ inactive = [i \in Ids |-> "untracked"]
    /\ sweep = [on |-> FALSE, left |-> {}]
    /\ down = FALSE

Listed(c) == idOf[c] # NoId /\ byID[idOf[c]] = c

------------------------------------------------------------------------------
(* Manager.Stop(id), called by actor a.  It unregisters under m.mu, stops  *)
(* the relay client, which cancels its context and waits for doneCh, and   *)
(* closes the outputs.  StopAll is the same for everything there is.       *)

Busy(a) == stop[a].pc # "idle"

Call(a, id) ==
    /\ ~Busy(a)
    /\ stop' = [stop EXCEPT ![a].pc = "unregister", ![a].id = id]

KeyStopped_OfChannel(id) ==
    IF byID[id] \in Broadcasts THEN streamKeyByID[id] ELSE NoKey
KeyStopped(id) == streamKeyByID[id]

ClientsStopped_OfChannel(id) == {relays[id]} \cap {byID[id]}
ClientsStopped(id) == {relays[id]} \ {NoChannel}

Unregister(a) ==
    LET id == stop[a].id
        key == KeyStopped(id) IN
    /\ stop[a].pc = "unregister"
    /\ \/ /\ byID[id] = NoChannel
          /\ stop' = [stop EXCEPT ![a] = Returned]
          /\ UNCHANGED registry
       \/ /\ byID[id] # NoChannel
          /\ stop' = [stop EXCEPT ![a].pc = "stopping",
                                  ![a].channels = {byID[id]},
                                  ![a].clients = ClientsStopped(id)]
          /\ byID' = [byID EXCEPT ![id] = NoChannel]
          /\ relays' = [relays EXCEPT ![id] = NoChannel]
          /\ streamKeyByID' = [streamKeyByID EXCEPT ![id] = NoKey]
          /\ byStreamKey' = [k \in Keys |->
                               IF k = key THEN NoChannel ELSE byStreamKey[k]]
    /\ UNCHANGED <<clients, cleaning, idOf, requests, encoder, attended, down>>

StopAll ==
    /\ ~down
    /\ down' = TRUE
    /\ stop' = [stop EXCEPT
         ![Main] = [pc |-> "stopping", id |-> NoId,
                    clients |-> {relays[i] : i \in Ids} \ {NoChannel},
                    channels |-> {byID[i] : i \in Ids} \ {NoChannel}]]
    /\ byID' = [i \in Ids |-> NoChannel]
    /\ byStreamKey' = [k \in Keys |-> NoChannel]
    /\ streamKeyByID' = [i \in Ids |-> NoKey]
    /\ relays' = [i \in Ids |-> NoChannel]
    /\ UNCHANGED <<clients, cleaning, idOf, requests, encoder, attended>>

(* Client.Stop, of one client after the other.                             *)
Cancel(a) ==
    /\ stop[a].pc = "stopping"
    /\ stop[a].clients \cap cancelled \subseteq done
    /\ \E c \in stop[a].clients \ cancelled : cancelled' = cancelled \cup {c}
    /\ UNCHANGED <<registry, cleaning, client, done, idOf, requests, encoder,
                   stop, attended, down>>

CloseOutputs(a) ==
    /\ stop[a].pc = "stopping"
    /\ stop[a].clients \subseteq cancelled \cap done
    /\ attended' = attended \ stop[a].channels
    /\ stop' = [stop EXCEPT ![a] = Returned]
    /\ UNCHANGED <<registry, clients, cleaning, idOf, requests, encoder, down>>

Stop(a) == Unregister(a) \/ Cancel(a) \/ CloseOutputs(a)

------------------------------------------------------------------------------
(* Starting.                                                               *)

(* Broadcast.  Nothing looks whether the ID is taken.                      *)
Broadcast(c, k, id) ==
    /\ idOf[c] = NoId
    /\ byStreamKey[k] = NoChannel
    /\ id \in IdsOf[k]
    /\ idOf' = [idOf EXCEPT ![c] = id]
    /\ byID' = [byID EXCEPT ![id] = c]
    /\ byStreamKey' = [byStreamKey EXCEPT ![k] = c]
    /\ streamKeyByID' = [streamKeyByID EXCEPT ![id] = k]
    /\ UNCHANGED <<relays, clients, cleaning, requests, encoder, stop, attended,
                   down>>

(* OnDemandRelay: a channel that is not registered is prepared, registered *)
(* whatever has been registered since, and its client started.             *)
OnDemandRelay(v, c, id) ==
    /\ pls[v] = NoChannel
    /\ byID[id] = NoChannel
    /\ idOf[c] = NoId
    /\ idOf' = [idOf EXCEPT ![c] = id]
    /\ pls' = [pls EXCEPT ![v] = c]
    /\ UNCHANGED <<registry, clients, cleaning, raced, encoder, stop, attended,
                   down>>

AddRelayChannel(v) ==
    LET c == pls[v]
        others == {pls[w] : w \in Viewers \ {v}} \ {NoChannel} IN
    /\ c # NoChannel
    /\ raced' = IF \E d \in others : idOf[d] = idOf[c] THEN raced \cup {c}
                                                        ELSE raced
    /\ byID' = [byID EXCEPT ![idOf[c]] = c]
    /\ relays' = [relays EXCEPT ![idOf[c]] = c]
    /\ client' = [client EXCEPT ![c] = "running"]
    /\ pls' = [pls EXCEPT ![v] = NoChannel]
    /\ UNCHANGED <<byStreamKey, streamKeyByID, cancelled, done, cleaning, idOf,
                   encoder, stop, attended, down>>

------------------------------------------------------------------------------
(* A relay client's Run returns when its context is cancelled or it has    *)
(* nowhere left to connect to.  Its deferred calls close the outputs, then *)
(* doneCh, and then stop the channel by its ID.                            *)
RunReturns(c) ==
    /\ client[c] = "running"
    /\ client' = [client EXCEPT ![c] = "returned"]
    /\ attended' = attended \ {c}
    /\ UNCHANGED <<registry, cancelled, done, cleaning, idOf, requests, encoder,
                   stop, down>>

CloseDoneCh(c) ==
    /\ client[c] \in {"returned", "exited"}
    /\ c \notin done /\ ~Busy(c)
    /\ done' = done \cup {c}
    /\ UNCHANGED <<registry, client, cancelled, cleaning, idOf, requests,
                   encoder, stop, attended, down>>

OnStopped_First(c) ==
    /\ client[c] = "returned"
    /\ client' = [client EXCEPT ![c] = "exited"]
    /\ Call(c, idOf[c])
    /\ UNCHANGED <<registry, cancelled, done, cleaning, idOf, requests, encoder,
                   attended, down>>
OnStopped_Unset(c) ==
    /\ client[c] = "returned" /\ c \in done
    /\ client' = [client EXCEPT ![c] = "exited"]
    /\ UNCHANGED <<registry, cancelled, done, cleaning, idOf, requests, encoder,
                   stop, attended, down>>
OnStopped(c) ==
    /\ client[c] = "returned" /\ c \in done
    /\ client' = [client EXCEPT ![c] = "exited"]
    /\ Call(c, idOf[c])
    /\ UNCHANGED <<registry, cancelled, done, cleaning, idOf, requests, encoder,
                   attended, down>>

------------------------------------------------------------------------------
(* An encoder publishes under a key; when its connection closes it stops   *)
(* the channel that has the key then.                                      *)
OnPublish(e, k) ==
    /\ encoder[e].key = NoKey
    /\ encoder' = [encoder EXCEPT ![e].key = k]
    /\ UNCHANGED <<registry, clients, cleaning, idOf, requests, stop, attended,
                   down>>

OnClose(e) ==
    LET k == encoder[e].key IN
    /\ k # NoKey /\ ~encoder[e].closed
    /\ encoder' = [encoder EXCEPT ![e].closed = TRUE]
    /\ \/ byStreamKey[k] # NoChannel /\ Call(e, idOf[byStreamKey[k]])
       \/ byStreamKey[k] = NoChannel /\ UNCHANGED stop
    /\ UNCHANGED <<registry, clients, cleaning, idOf, requests, attended, down>>

(* stopChannel: the API has found the channel when it stops it.            *)
StopChannel(q, id) ==
    /\ byID[id] # NoChannel
    /\ Call(q, id)
    /\ UNCHANGED <<registry, clients, cleaning, idOf, requests, encoder,
                   attended, down>>

------------------------------------------------------------------------------
(* The audience, for all that the cleaner sees of it.                      *)
Join(c) ==
    /\ Listed(c)
    /\ attended' = attended \cup {c}
    /\ UNCHANGED <<registry, clients, cleaning, idOf, requests, encoder, stop,
                   down>>

Leave(c) ==
    /\ c \in attended
    /\ attended' = attended \ {c}
    /\ UNCHANGED <<registry, clients, cleaning, idOf, requests, encoder, stop,
                   down>>

(* The cleaner sweeps over the channels there were at its tick, and stops  *)
(* the idle relay channel whose ID it first saw idle long enough ago.      *)
Tick ==
    /\ ~sweep.on
    /\ sweep' = [on |-> TRUE, left |-> {c \in Relayed : Listed(c)}]
    /\ UNCHANGED <<registry, clients, inactive, idOf, requests, encoder, stop,
                   attended, down>>

Examine_Renews(id) ==
    /\ inactive' = [inactive EXCEPT ![id] = "idle"]
    /\ UNCHANGED stop
Examine(id) ==
    \/ /\ inactive[id] = "untracked"
       /\ inactive' = [inactive EXCEPT ![id] = "idle"]
       /\ UNCHANGED stop
    \/ inactive[id] = "idle" /\ UNCHANGED <<inactive, stop>>
    \/ /\ inactive[id] = "expired"
       /\ inactive' = [inactive EXCEPT ![id] = "untracked"]
       /\ Call(Cleaner, id)

Look(c) ==
    /\ sweep.on /\ c \in sweep.left /\ ~Busy(Cleaner)
    /\ sweep' = [sweep EXCEPT !.left = @ \ {c}]
    /\ \/ c \notin attended /\ Examine(idOf[c])
       \/ /\ c \in attended
          /\ inactive' = [inactive EXCEPT ![idOf[c]] = "untracked"]
          /\ UNCHANGED stop
    /\ UNCHANGED <<registry, clients, idOf, requests, encoder, attended, down>>

Prune ==
    /\ sweep.on /\ sweep.left = {} /\ ~Busy(Cleaner)
    /\ sweep' = [sweep EXCEPT !.on = FALSE]
    /\ inactive' = [i \in Ids |->
                      IF byID[i] = NoChannel THEN "untracked" ELSE inactive[i]]
    /\ UNCHANGED <<registry, clients, idOf, requests, encoder, stop, attended,
                   down>>

(* inactiveLimit has passed since the channel was first seen idle.         *)
Expire(id) ==
    /\ inactive[id] = "idle"
    /\ inactive' = [inactive EXCEPT ![id] = "expired"]
    /\ UNCHANGED <<registry, clients, sweep, idOf, requests, encoder, stop,
                   attended, down>>

------------------------------------------------------------------------------
Start ==
    \/ \E c \in Broadcasts, k \in Keys, id \in Ids : Broadcast(c, k, id)
    \/ \E v \in Viewers, c \in Relayed, id \in Ids : OnDemandRelay(v, c, id)
    \/ \E v \in Viewers : AddRelayChannel(v)

Client(c) == RunReturns(c) \/ CloseDoneCh(c) \/ OnStopped(c)

Encoder(e) == OnClose(e) \/ \E k \in Keys : OnPublish(e, k)

Clean ==
    \/ Tick \/ Prune
    \/ \E c \in Relayed : Look(c)
    \/ \E id \in Ids : Expire(id)

Next ==
    \/ Start \/ Clean \/ StopAll
    \/ \E a \in Actors : Stop(a)
    \/ \E c \in Relayed : Client(c)
    \/ \E e \in Encoders : Encoder(e)
    \/ \E q \in Callers, id \in Ids : StopChannel(q, id)
    \/ \E c \in Relayed : Join(c) \/ Leave(c)

(* A goroutine goes on with what it has begun, a cancelled client returns, *)
(* and the ticker ticks.  Nothing makes anybody connect, leave or stop.    *)
Fairness ==
    /\ \A a \in Actors : WF_vars(Stop(a))
    /\ \A v \in Viewers : WF_vars(AddRelayChannel(v))
    /\ \A c \in Relayed :
         /\ WF_vars(c \in cancelled /\ RunReturns(c))
         /\ WF_vars(CloseDoneCh(c) \/ OnStopped(c))
         /\ WF_vars(Look(c))
    /\ WF_vars(Tick \/ Prune)
    /\ \A id \in Ids : WF_vars(Expire(id))

Spec == Init /\ [][Next]_vars /\ Fairness

------------------------------------------------------------------------------
Places == {"idle", "unregister", "stopping"}
Stops == [pc : Places, id : Ids \cup {NoId}, clients : SUBSET Relayed,
          channels : SUBSET Channels]

(* Type correctness; what has an ID has been created, and the maps only    *)
(* hold what has the ID it is filed under.                                 *)
TypeOK ==
    /\ byID \in [Ids -> Channels \cup {NoChannel}]
    /\ byStreamKey \in [Keys -> Broadcasts \cup {NoChannel}]
    /\ streamKeyByID \in [Ids -> Keys \cup {NoKey}]
    /\ relays \in [Ids -> Relayed \cup {NoChannel}]
    /\ idOf \in [Channels -> Ids \cup {NoId}]
    /\ client \in [Relayed -> {"new", "running", "returned", "exited"}]
    /\ cancelled \subseteq Relayed /\ done \subseteq Relayed
    /\ pls \in [Viewers -> Relayed \cup {NoChannel}]
    /\ encoder \in [Encoders -> [key : Keys \cup {NoKey}, closed : BOOLEAN]]
    /\ stop \in [Actors -> Stops]
    /\ attended \subseteq Relayed /\ raced \subseteq Relayed
    /\ inactive \in [Ids -> {"untracked", "idle", "expired"}]
    /\ sweep \in [on : BOOLEAN, left : SUBSET Relayed]
    /\ down \in BOOLEAN
    /\ \A i \in Ids : /\ byID[i] # NoChannel => idOf[byID[i]] = i
                      /\ relays[i] # NoChannel => idOf[relays[i]] = i

(* A stream key that counts as active can be freed: some registered ID     *)
(* leads back to it, so stopping that ID makes the key usable again.  So   *)
(* it is even when a relay has been registered over the broadcast.         *)
ActiveKeyCanBeStopped ==
    \A k \in Keys :
        byStreamKey[k] # NoChannel <=>
            \E i \in IdsOf[k] : byID[i] # NoChannel /\ streamKeyByID[i] = k

(* When a relay client has gone, its channel is no longer registered, so   *)
(* that the next viewer starts a new relay instead of joining a dead one.  *)
DeadRelayIsUnlisted ==
    \A c \in Relayed :
        client[c] = "exited" /\ ~Busy(c) => ~Listed(c) /\ relays[idOf[c]] # c

(* The maps only hold what has the ID it is filed under, and nothing dead. *)
RegistryInv == TypeOK /\ DeadRelayIsUnlisted

(* A running client is one that Stop and StopAll can reach, or that is     *)
(* being stopped: nobody loses it, even when a broadcast takes its ID.     *)
(* The one way to lose it is that another request for the channel found    *)
(* none before this client was registered, and registers its own after.    *)
RunningClientIsReachable ==
    \A c \in Relayed \ (cancelled \cup raced) :
        client[c] = "running" =>
            \/ relays[idOf[c]] = c
            \/ \E a \in Actors : c \in stop[a].clients

(* Every Stop returns, also the one that a client's own end calls.         *)
StopReturns == \A a \in Actors : Busy(a) ~> ~Busy(a)

(* A relay channel without an audience is removed in the end, unless       *)
(* somebody joins.                                                         *)
IdleRelayGoes ==
    \A c \in Relayed :
        Listed(c) /\ c \notin attended ~> ~Listed(c) \/ c \in attended

==============================================================================
