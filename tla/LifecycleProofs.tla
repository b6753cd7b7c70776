--------------------------- MODULE LifecycleProofs ---------------------------
(***************************************************************************)
(* Theorems about the registry and those who use it.                       *)
(***************************************************************************)
EXTENDS Lifecycle, TLAPS

(* Whoever is about to use an ID has one.                                  *)
HaveIds ==
    /\ \A v \in Viewers : pls[v] # NoChannel => idOf[pls[v]] \in Ids
    /\ \A c \in Relayed : client[c] # "new" => idOf[c] \in Ids
    /\ \A a \in Actors : stop[a].pc = "unregister" => stop[a].id \in Ids
    /\ \A c \in sweep.left : idOf[c] \in Ids
    /\ \A k \in Keys :
         byStreamKey[k] # NoChannel => idOf[byStreamKey[k]] \in Ids

Typed == TypeOK /\ HaveIds

USE MarkersAssumption, ActorsAssumption DEF Channels, Actors, requests

LEMMA ReturnedTyped == Returned \in Stops /\ Returned.pc = "idle"
  BY DEF Returned, Stops, Places

LEMMA InitTyped == Init => Typed
<1> SUFFICES ASSUME Init PROVE Typed
  OBVIOUS
<1>1. \A a \in Actors : stop[a] = Returned  BY DEF Init
<1>2. stop \in [Actors -> Stops]  BY ReturnedTyped DEF Init
<1>3. TypeOK  BY <1>2 DEF Init, TypeOK
<1>4. HaveIds  BY <1>1, ReturnedTyped DEF Init, HaveIds
<1> QED BY <1>3, <1>4 DEF Typed

LEMMA CallTyped ==
    ASSUME Typed, NEW a \in Actors, NEW id \in Ids, Call(a, id)
    PROVE  /\ stop' \in [Actors -> Stops]
           /\ \A b \in Actors : stop'[b].pc = "unregister" => stop'[b].id \in Ids
<1>1. \A b \in Actors : stop[b] \in Stops  BY DEF Typed, TypeOK
<1> DEFINE into == [stop[a] EXCEPT !.pc = "unregister", !.id = id]
<1>2. into \in Stops /\ into.id = id
  <2>1. stop[a] \in Stops  BY <1>1
  <2>2. id \in Ids \cup {NoId} /\ "unregister" \in Places  BY DEF Places
  <2> QED BY <2>1, <2>2 DEF Stops
<1>3. stop' = [stop EXCEPT ![a] = into]
  BY DEF Call, Typed, TypeOK
<1> HIDE DEF into
<1> QED BY <1>1, <1>2, <1>3 DEF Typed, TypeOK, HaveIds

LEMMA StopTyped ==
    ASSUME Typed, NEW a \in Actors, Stop(a)
    PROVE  Typed'
<1>1. \A b \in Actors : stop[b] \in Stops  BY DEF Typed, TypeOK
<1>2. Returned \in Stops /\ Returned.pc # "unregister"
  BY ReturnedTyped
<1>3. CASE Unregister(a)
  <2> DEFINE id == stop[a].id
             into == [stop[a] EXCEPT !.pc = "stopping", !.channels = {byID[id]},
                                     !.clients = ClientsStopped(id)]
  <2>1. id \in Ids  BY <1>3 DEF Unregister, Typed, HaveIds
  <2>2. /\ stop' \in [Actors -> Stops]
        /\ \A b \in Actors : stop'[b].pc = "unregister" => stop[b] = stop'[b]
    <3>1. CASE stop' = [stop EXCEPT ![a] = Returned]
      BY <3>1, <1>1, <1>2 DEF Typed, TypeOK
    <3>2. CASE /\ byID[id] # NoChannel
               /\ stop' = [stop EXCEPT ![a] = into]
      <4>1. ClientsStopped(id) \subseteq Relayed /\ {byID[id]} \subseteq Channels
        BY <2>1, <3>2 DEF ClientsStopped, Typed, TypeOK
      <4>2. stop[a] \in Stops /\ "stopping" \in Places  BY <1>1 DEF Places
      <4>3. into \in Stops /\ into.pc = "stopping"  BY <4>1, <4>2 DEF Stops
      <4> HIDE DEF into
      <4> QED BY <3>2, <4>3, <1>1 DEF Typed, TypeOK
    <3> QED BY <1>3, <3>1, <3>2, <1>1 DEF Unregister, Typed, TypeOK
  <2>3. /\ byID' \in [Ids -> Channels \cup {NoChannel}]
        /\ relays' \in [Ids -> Relayed \cup {NoChannel}]
        /\ streamKeyByID' \in [Ids -> Keys \cup {NoKey}]
        /\ byStreamKey' \in [Keys -> Broadcasts \cup {NoChannel}]
    BY <1>3 DEF Unregister, Typed, TypeOK, registry
  <2>4. /\ \A i \in Ids : byID'[i] \in {byID[i], NoChannel}
        /\ \A i \in Ids : relays'[i] \in {relays[i], NoChannel}
        /\ \A k \in Keys : byStreamKey'[k] \in {byStreamKey[k], NoChannel}
    BY <1>3 DEF Unregister, Typed, TypeOK, registry
  <2>5. UNCHANGED <<clients, cleaning, idOf, requests, encoder, attended, down>>
    BY <1>3 DEF Unregister
  <2> HIDE DEF id, into
  <2> QED BY <2>2, <2>3, <2>4, <2>5 DEF Typed, TypeOK, HaveIds, clients, cleaning
<1>4. CASE Cancel(a)
  BY <1>1, <1>4 DEF Cancel, Typed, TypeOK, HaveIds, registry, cleaning, Stops
<1>5. CASE CloseOutputs(a)
  <2>1. /\ stop' \in [Actors -> Stops]
        /\ \A b \in Actors : stop'[b].pc = "unregister" => stop[b] = stop'[b]
    BY <1>1, <1>2, <1>5 DEF CloseOutputs, Typed, TypeOK
  <2> QED BY <1>5, <2>1 DEF CloseOutputs, Typed, TypeOK, HaveIds, registry,
                            clients, cleaning
<1> QED BY <1>3, <1>4, <1>5 DEF Stop

LEMMA NextTyped == Typed /\ [Next]_vars => Typed'
<1> SUFFICES ASSUME Typed, [Next]_vars PROVE Typed'
  OBVIOUS
<1>1. CASE UNCHANGED vars
  BY <1>1 DEF vars, registry, clients, cleaning, Typed, TypeOK, HaveIds
<1>2. ASSUME NEW c \in Broadcasts, NEW k \in Keys, NEW id \in Ids, Broadcast(c, k, id)
      PROVE  Typed'
  BY <1>2 DEF Broadcast, clients, cleaning, Typed, TypeOK, HaveIds
<1>3. ASSUME NEW v \in Viewers, NEW c \in Relayed, NEW id \in Ids, OnDemandRelay(v, c, id)
      PROVE  Typed'
  BY <1>3 DEF OnDemandRelay, registry, clients, cleaning, Typed, TypeOK, HaveIds
<1>4. ASSUME NEW v \in Viewers, AddRelayChannel(v)
      PROVE  Typed'
  BY <1>4 DEF AddRelayChannel, cleaning, Typed, TypeOK, HaveIds
<1>5. ASSUME NEW a \in Actors, Stop(a) PROVE Typed'
  BY <1>5, StopTyped
<1>6. CASE StopAll
  <2> DEFINE all == [pc |-> "stopping", id |-> NoId,
                     clients |-> {relays[i] : i \in Ids} \ {NoChannel},
                     channels |-> {byID[i] : i \in Ids} \ {NoChannel}]
  <2>1. /\ {relays[i] : i \in Ids} \ {NoChannel} \subseteq Relayed
        /\ {byID[i] : i \in Ids} \ {NoChannel} \subseteq Channels
    BY DEF Typed, TypeOK
  <2>2. all \in Stops /\ all.pc # "unregister"  BY <2>1 DEF Stops, Places
  <2>3. stop' = [stop EXCEPT ![Main] = all]  BY <1>6 DEF StopAll
  <2> HIDE DEF all
  <2>4. /\ stop' \in [Actors -> Stops]
        /\ \A b \in Actors : stop'[b].pc = "unregister" => stop[b] = stop'[b]
    BY <2>2, <2>3 DEF Typed, TypeOK
  <2> QED BY <1>6, <2>4 DEF StopAll, clients, cleaning, Typed, TypeOK, HaveIds
<1>7. ASSUME NEW c \in Relayed, Client(c) PROVE Typed'
  <2>1. CASE RunReturns(c) \/ CloseDoneCh(c)
    BY <2>1 DEF RunReturns, CloseDoneCh, registry, cleaning, Typed, TypeOK, HaveIds
  <2>2. CASE OnStopped(c)
    <3>1. idOf[c] \in Ids  BY <2>2 DEF OnStopped, Typed, HaveIds
    <3>2. /\ stop' \in [Actors -> Stops]
          /\ \A b \in Actors : stop'[b].pc = "unregister" => stop'[b].id \in Ids
      BY <2>2, <3>1, CallTyped DEF OnStopped
    <3> QED BY <2>2, <3>1, <3>2 DEF OnStopped, registry, cleaning, Typed, TypeOK, HaveIds
  <2> QED BY <1>7, <2>1, <2>2 DEF Client
<1>8. ASSUME NEW e \in Encoders, Encoder(e) PROVE Typed'
  <2>1. CASE \E k \in Keys : OnPublish(e, k)
    BY <2>1 DEF OnPublish, registry, clients, cleaning, Typed, TypeOK, HaveIds
  <2>2. CASE OnClose(e)
    <3>1. encoder[e].key \in Keys
      BY <2>2 DEF OnClose, Typed, TypeOK
    <3>2. /\ stop' \in [Actors -> Stops]
          /\ \A b \in Actors : stop'[b].pc = "unregister" => stop'[b].id \in Ids
      <4> DEFINE c == byStreamKey[encoder[e].key]
      <4>1. CASE c # NoChannel /\ Call(e, idOf[c])
        <5>1. idOf[c] \in Ids  BY <3>1, <4>1 DEF Typed, HaveIds
        <5> QED BY <4>1, <5>1, CallTyped
      <4>2. CASE UNCHANGED stop  BY <4>2 DEF Typed, TypeOK, HaveIds
      <4> QED BY <2>2, <4>1, <4>2 DEF OnClose
    <3>3. encoder' \in [Encoders -> [key : Keys \cup {NoKey}, closed : BOOLEAN]]
      <4>1. encoder[e] \in [key : Keys \cup {NoKey}, closed : BOOLEAN]
        BY DEF Typed, TypeOK
      <4>2. PICK b \in [key : Keys \cup {NoKey}, closed : BOOLEAN] :
              b = [encoder[e] EXCEPT !.closed = TRUE]
        BY <4>1, Zenon
      <4>3. encoder' = [encoder EXCEPT ![e] = b]
        BY <2>2, <4>2 DEF OnClose
      <4> QED BY <4>3 DEF Typed, TypeOK
    <3> QED BY <2>2, <3>2, <3>3 DEF OnClose, registry, clients, cleaning, Typed, TypeOK, HaveIds
  <2> QED BY <1>8, <2>1, <2>2 DEF Encoder
<1>9. ASSUME NEW q \in Callers, NEW id \in Ids, StopChannel(q, id) PROVE Typed'
  <2>1. /\ stop' \in [Actors -> Stops]
        /\ \A b \in Actors : stop'[b].pc = "unregister" => stop'[b].id \in Ids
    BY <1>9, CallTyped DEF StopChannel
  <2> QED BY <1>9, <2>1 DEF StopChannel, registry, clients, cleaning, Typed, TypeOK, HaveIds
<1>10. ASSUME NEW c \in Relayed, Join(c) \/ Leave(c) PROVE Typed'
  BY <1>10 DEF Join, Leave, registry, clients, cleaning, Typed, TypeOK, HaveIds
<1>11. CASE Clean
  <2>1. CASE Tick
    <3>1. \A c \in Relayed : Listed(c) => idOf[c] \in Ids
      BY DEF Listed, Typed, TypeOK
    <3> QED BY <2>1, <3>1 DEF Tick, registry, clients, Typed, TypeOK, HaveIds
  <2>2. CASE Prune
    BY <2>2 DEF Prune, registry, clients, Typed, TypeOK, HaveIds
  <2>3. ASSUME NEW c \in Relayed, Look(c) PROVE Typed'
    <3>1. idOf[c] \in Ids  BY <2>3 DEF Look, Typed, HaveIds
    <3>2. /\ stop' \in [Actors -> Stops]
          /\ \A b \in Actors : stop'[b].pc = "unregister" => stop'[b].id \in Ids
      <4>1. CASE UNCHANGED stop  BY <4>1 DEF Typed, TypeOK, HaveIds
      <4>2. CASE Call(Cleaner, idOf[c])  BY <4>2, <3>1, CallTyped
      <4> QED BY <2>3, <4>1, <4>2 DEF Look, Examine
    <3>3. inactive' \in [Ids -> {"untracked", "idle", "expired"}]
      BY <2>3 DEF Look, Examine, Typed, TypeOK
    <3>4. sweep' \in [on : BOOLEAN, left : SUBSET Relayed] /\ sweep'.left \subseteq sweep.left
      BY <2>3 DEF Look, Typed, TypeOK
    <3>5. UNCHANGED <<registry, clients, idOf, requests, encoder, attended, down>>
      BY <2>3 DEF Look
    <3> QED BY <3>2, <3>3, <3>4, <3>5 DEF registry, clients, Typed, TypeOK, HaveIds
  <2>4. CASE \E id \in Ids : Expire(id)
    BY <2>4 DEF Expire, registry, clients, Typed, TypeOK, HaveIds
  <2> QED BY <1>11, <2>1, <2>2, <2>3, <2>4 DEF Clean
<1> QED BY <1>1, <1>2, <1>3, <1>4, <1>5, <1>6, <1>7, <1>8, <1>9, <1>10, <1>11
        DEF Next, Start

(* The maps always hold channels under the ID these have.                  *)
THEOREM TypeCorrect == Spec => []TypeOK
<1>1. Spec => []Typed  BY InitTyped, NextTyped, PTL DEF Spec
<1>2. Typed => TypeOK  BY DEF Typed
<1> QED BY <1>1, <1>2, PTL

------------------------------------------------------------------------------
(* Only four steps change the registry.                                    *)
LEMMA RegistrySteps ==
    ASSUME Next
    PROVE  \/ UNCHANGED registry
           \/ \E c \in Broadcasts, k \in Keys, id \in Ids : Broadcast(c, k, id)
           \/ \E v \in Viewers : AddRelayChannel(v)
           \/ \E a \in Actors : Unregister(a)
           \/ StopAll
<1>1. ASSUME NEW a \in Actors, Stop(a), ~Unregister(a) PROVE UNCHANGED registry
  BY <1>1 DEF Stop, Cancel, CloseOutputs
<1>2. ASSUME NEW c \in Relayed, Client(c) \/ Join(c) \/ Leave(c)
      PROVE  UNCHANGED registry
  BY <1>2 DEF Client, RunReturns, CloseDoneCh, OnStopped, Join, Leave
<1>3. ASSUME NEW e \in Encoders, Encoder(e) PROVE UNCHANGED registry
  BY <1>3 DEF Encoder, OnPublish, OnClose
<1>4. CASE Clean
  BY <1>4 DEF Clean, Tick, Prune, Look, Expire
<1>5. ASSUME NEW v \in Viewers, NEW c \in Relayed, NEW id \in Ids, OnDemandRelay(v, c, id)
      PROVE  UNCHANGED registry
  BY <1>5 DEF OnDemandRelay
<1>6. ASSUME NEW q \in Callers, NEW id \in Ids, StopChannel(q, id)
      PROVE  UNCHANGED registry
  BY <1>6 DEF StopChannel
<1> QED BY <1>1, <1>2, <1>3, <1>4, <1>5, <1>6 DEF Next, Start

(* An ID that has a key is registered and one of the key's, and no key is  *)
(* at two IDs; a relay client is filed only under a registered ID.         *)
MapsAgree ==
    /\ \A i \in Ids :
         /\ relays[i] # NoChannel => byID[i] # NoChannel
         /\ streamKeyByID[i] # NoKey =>
              /\ byID[i] # NoChannel
              /\ i \in IdsOf[streamKeyByID[i]]
              /\ byStreamKey[streamKeyByID[i]] # NoChannel
    /\ \A i, j \in Ids :
         streamKeyByID[i] = streamKeyByID[j] /\ streamKeyByID[i] # NoKey => i = j
    /\ \A k \in Keys :
         byStreamKey[k] # NoChannel => \E i \in Ids : streamKeyByID[i] = k

LEMMA NextMapsAgree == Typed /\ MapsAgree /\ [Next]_vars => MapsAgree'
<1> SUFFICES ASSUME Typed, MapsAgree, [Next]_vars PROVE MapsAgree'
  OBVIOUS
<1>1. CASE UNCHANGED registry
  BY <1>1 DEF MapsAgree, registry
<1>2. ASSUME NEW c \in Broadcasts, NEW k \in Keys, NEW id \in Ids, Broadcast(c, k, id)
      PROVE  MapsAgree'
  <2>1. \A i \in Ids : streamKeyByID[i] # k
    BY <1>2 DEF Broadcast, MapsAgree
  <2>2. ASSUME NEW i \in Ids, i # id, streamKeyByID[i] # NoKey
        PROVE  byStreamKey'[streamKeyByID[i]] # NoChannel
    BY <1>2, <2>1, <2>2 DEF Broadcast, MapsAgree, Typed, TypeOK
  <2>3. ASSUME NEW l \in Keys, l # k, byStreamKey[l] # NoChannel
        PROVE  \E i \in Ids : streamKeyByID'[i] = l
    <3>1. PICK i \in Ids : streamKeyByID[i] = l  BY <2>3 DEF MapsAgree
    <3>2. i \in IdsOf[l]  BY <3>1 DEF MapsAgree
    <3>3. i # id  BY <1>2, <2>3, <3>2, IdsAssumption DEF Broadcast
    <3> QED BY <1>2, <3>1, <3>3 DEF Broadcast, Typed, TypeOK
  <2> QED BY <1>2, <2>1, <2>2, <2>3 DEF Broadcast, MapsAgree, Typed, TypeOK
<1>3. ASSUME NEW v \in Viewers, AddRelayChannel(v)
      PROVE  MapsAgree'
  BY <1>3 DEF AddRelayChannel, MapsAgree, Typed, TypeOK
<1>4. ASSUME NEW a \in Actors, Unregister(a)
      PROVE  MapsAgree'
  <2> DEFINE id == stop[a].id
  <2>1. id \in Ids  BY <1>4 DEF Unregister, Typed, HaveIds
  <2>2. CASE byID[id] = NoChannel
    BY <1>4, <1>1, <2>2 DEF Unregister
  <2>3. CASE byID[id] # NoChannel
    <3>1. /\ byID' = [byID EXCEPT ![id] = NoChannel]
          /\ relays' = [relays EXCEPT ![id] = NoChannel]
          /\ streamKeyByID' = [streamKeyByID EXCEPT ![id] = NoKey]
          /\ byStreamKey' = [k \in Keys |->
                               IF k = streamKeyByID[id] THEN NoChannel
                                                        ELSE byStreamKey[k]]
      BY <1>4, <2>3 DEF Unregister, KeyStopped
    <3> HIDE DEF id
    <3>2. ASSUME NEW k \in Keys, byStreamKey'[k] # NoChannel
          PROVE  \E i \in Ids : streamKeyByID'[i] = k
      <4>1. byStreamKey[k] # NoChannel /\ k # streamKeyByID[id]  BY <3>1, <3>2
      <4>2. PICK i \in Ids : streamKeyByID[i] = k  BY <4>1 DEF MapsAgree
      <4> QED BY <3>1, <4>1, <4>2 DEF Typed, TypeOK
    <3>3. ASSUME NEW i \in Ids, streamKeyByID'[i] # NoKey
          PROVE  /\ i # id /\ streamKeyByID'[i] = streamKeyByID[i]
                 /\ byStreamKey'[streamKeyByID[i]] # NoChannel
      BY <2>1, <3>1, <3>3 DEF MapsAgree, Typed, TypeOK
    <3>4. \A i \in Ids : relays'[i] # NoChannel => byID'[i] # NoChannel
      BY <3>1 DEF MapsAgree, Typed, TypeOK
    <3>5. \A i \in Ids : i # id => byID'[i] = byID[i]
      BY <3>1 DEF Typed, TypeOK
    <3> QED BY <3>2, <3>3, <3>4, <3>5 DEF MapsAgree
  <2> QED BY <2>2, <2>3
<1>5. CASE StopAll
  BY <1>5 DEF StopAll, MapsAgree, Typed, TypeOK
<1> QED BY <1>1, <1>2, <1>3, <1>4, <1>5, RegistrySteps DEF vars

LEMMA KeysFollow == Typed /\ MapsAgree => ActiveKeyCanBeStopped
  BY IdsAssumption DEF Typed, TypeOK, MapsAgree, ActiveKeyCanBeStopped

(* A stream key that counts as active is that of a registered ID.          *)
THEOREM ActiveKeyCorrect == Spec => []ActiveKeyCanBeStopped
<1>1. Init => MapsAgree  BY DEF Init, MapsAgree
<1>2. Spec => [](Typed /\ MapsAgree)
  BY <1>1, InitTyped, NextTyped, NextMapsAgree, PTL DEF Spec
<1> QED BY <1>2, KeysFollow, PTL

------------------------------------------------------------------------------
(* A prepared channel belongs to one request, and its client has not       *)
(* started; a client that calls Stop has ended, and calls it for its own   *)
(* channel; after that Stop has unregistered, the channel is gone for good.*)
EndedGone ==
    /\ \A v, w \in Viewers : pls[v] # NoChannel /\ pls[v] = pls[w] => v = w
    /\ \A v \in Viewers : pls[v] # NoChannel => client[pls[v]] = "new"
    /\ \A c \in Relayed :
         /\ stop[c].pc = "unregister" =>
              client[c] = "exited" /\ stop[c].id = idOf[c]
         /\ client[c] = "exited" /\ stop[c].pc # "unregister" =>
              ~Listed(c) /\ relays[idOf[c]] # c

LEMMA NextEndedGone ==
    Typed /\ MapsAgree /\ EndedGone /\ [Next]_vars => EndedGone'
<1> SUFFICES ASSUME Typed, MapsAgree, EndedGone, [Next]_vars PROVE EndedGone'
  OBVIOUS
<1> USE DEF EndedGone
<1>1. CASE UNCHANGED vars
  BY <1>1 DEF vars, registry, clients, Listed
<1>2. ASSUME NEW c \in Broadcasts, NEW k \in Keys, NEW id \in Ids, Broadcast(c, k, id)
      PROVE  EndedGone'
  <2>1. \A r \in Relayed : idOf'[r] = idOf[r]
    BY <1>2 DEF Broadcast, Typed, TypeOK
  <2>2. \A i \in Ids : byID'[i] \in {byID[i], c}
    BY <1>2 DEF Broadcast, Typed, TypeOK
  <2>3. \A r \in Relayed : client[r] # "new" => (Listed(r)' => Listed(r))
    BY <2>1, <2>2 DEF Listed, Typed, TypeOK, HaveIds
  <2> QED BY <1>2, <2>1, <2>3 DEF Broadcast, clients
<1>3. ASSUME NEW v \in Viewers, NEW c \in Relayed, NEW id \in Ids, OnDemandRelay(v, c, id)
      PROVE  EndedGone'
  <2>1. client[c] = "new"  BY <1>3 DEF OnDemandRelay, Typed, HaveIds
  <2>2. \A w \in Viewers : pls[w] # c  BY <1>3 DEF OnDemandRelay, Typed, HaveIds
  <2>3. \A r \in Relayed : r # c => idOf'[r] = idOf[r]
    BY <1>3 DEF OnDemandRelay, Typed, TypeOK
  <2>4. \A w \in Viewers : w # v => pls'[w] = pls[w]
    BY <1>3 DEF OnDemandRelay, Typed, TypeOK
  <2>5. pls'[v] = c  BY <1>3 DEF OnDemandRelay, Typed, TypeOK
  <2>6. UNCHANGED <<registry, clients, stop>>  BY <1>3 DEF OnDemandRelay
  <2>7. \A r \in Relayed : r # c => Listed(r)' = Listed(r)
    BY <2>3, <2>6 DEF Listed, registry
  <2> QED BY <2>1, <2>2, <2>3, <2>4, <2>5, <2>6, <2>7 DEF registry, clients
<1>4. ASSUME NEW v \in Viewers, AddRelayChannel(v)
      PROVE  EndedGone'
  <2> DEFINE c == pls[v]
  <2>1. c \in Relayed /\ client[c] = "new" /\ idOf[c] \in Ids
    BY <1>4 DEF AddRelayChannel, Typed, TypeOK, HaveIds
  <2>2. client' = [client EXCEPT ![c] = "running"]  BY <1>4 DEF AddRelayChannel
  <2>3. UNCHANGED <<idOf, stop>>  BY <1>4 DEF AddRelayChannel
  <2>4. \A i \in Ids : byID'[i] \in {byID[i], c} /\ relays'[i] \in {relays[i], c}
    BY <1>4 DEF AddRelayChannel, Typed, TypeOK
  <2>5. \A w \in Viewers : pls'[w] = IF w = v THEN NoChannel ELSE pls[w]
    BY <1>4 DEF AddRelayChannel, Typed, TypeOK
  <2> HIDE DEF c
  <2>6. ASSUME NEW r \in Relayed, client'[r] = "exited", stop[r].pc # "unregister"
        PROVE  ~Listed(r)' /\ relays'[idOf[r]] # r
    <3>1. r # c /\ client[r] = "exited"  BY <2>1, <2>2, <2>6 DEF Typed, TypeOK
    <3>2. idOf[r] \in Ids  BY <3>1 DEF Typed, HaveIds
    <3> QED BY <2>3, <2>4, <2>6, <3>1, <3>2 DEF Listed
  <2>7. \A w \in Viewers : pls'[w] # NoChannel => client'[pls'[w]] = "new"
    BY <2>1, <2>2, <2>5 DEF c, Typed, TypeOK
  <2>8. \A r \in Relayed :
          stop[r].pc = "unregister" => client'[r] = "exited"
    BY <2>1, <2>2 DEF Typed, TypeOK
  <2>9. \A u, w \in Viewers : pls'[u] # NoChannel /\ pls'[u] = pls'[w] => u = w
    BY <2>5
  <2> QED BY <2>3, <2>6, <2>7, <2>8, <2>9
<1>5. ASSUME NEW a \in Actors, Unregister(a)
      PROVE  EndedGone'
  <2> DEFINE id == stop[a].id
  <2>1. id \in Ids /\ stop[a].pc = "unregister"
    BY <1>5 DEF Unregister, Typed, HaveIds
  <2>2. /\ stop'[a].pc # "unregister"
        /\ \A b \in Actors : b # a => stop'[b] = stop[b]
    <3>1. stop[a] \in Stops  BY DEF Typed, TypeOK
    <3> QED BY <1>5, <3>1 DEF Unregister, Returned, Typed, TypeOK, Stops
  <2>3. /\ byID'[id] = NoChannel
        /\ \A i \in Ids : byID'[i] \in {byID[i], NoChannel}
                          /\ relays'[i] \in {relays[i], NoChannel}
    BY <1>5, <2>1 DEF Unregister, Typed, TypeOK, registry
  <2>4. relays'[id] = NoChannel
    BY <1>5, <2>1 DEF Unregister, Typed, TypeOK, registry, MapsAgree
  <2>5. UNCHANGED <<clients, idOf, pls>>  BY <1>5 DEF Unregister
  <2> HIDE DEF id
  <2>6. ASSUME NEW c \in Relayed, client[c] = "exited", stop'[c].pc # "unregister"
        PROVE  ~Listed(c)' /\ relays'[idOf[c]] # c
    <3>1. idOf[c] \in Ids  BY <2>6 DEF Typed, HaveIds
    <3>2. CASE stop[c].pc = "unregister"
      BY <2>1, <2>2, <2>3, <2>4, <2>5, <2>6, <3>1, <3>2 DEF Listed, id
    <3>3. CASE stop[c].pc # "unregister"
      BY <2>3, <2>5, <2>6, <3>1, <3>3 DEF Listed
    <3> QED BY <3>2, <3>3
  <2>7. \A c \in Relayed : stop'[c].pc = "unregister" => stop'[c] = stop[c]
    BY <2>2
  <2> QED BY <2>5, <2>6, <2>7 DEF clients
<1>6. CASE StopAll
  <2>1. \A i \in Ids : byID'[i] = NoChannel /\ relays'[i] = NoChannel
    BY <1>6 DEF StopAll
  <2>2. \A c \in Relayed : stop'[c] = stop[c]
    BY <1>6 DEF StopAll, Typed, TypeOK
  <2>3. UNCHANGED <<clients, idOf, pls>>  BY <1>6 DEF StopAll
  <2> QED BY <2>1, <2>2, <2>3 DEF clients, Listed, Typed, TypeOK, HaveIds
<1>7. ASSUME NEW c \in Relayed, OnStopped(c)
      PROVE  EndedGone'
  <2>1. client[c] = "returned" /\ client' = [client EXCEPT ![c] = "exited"]
    BY <1>7 DEF OnStopped
  <2>2. stop' = [stop EXCEPT ![c].pc = "unregister", ![c].id = idOf[c]]
    BY <1>7 DEF OnStopped, Call
  <2>3. stop'[c].pc = "unregister" /\ stop'[c].id = idOf[c]
    BY <2>2 DEF Typed, TypeOK, Stops
  <2>4. \A r \in Relayed \ {c} : stop'[r] = stop[r] /\ client'[r] = client[r]
    BY <2>1, <2>2 DEF Typed, TypeOK
  <2>5. client'[c] = "exited"  BY <2>1 DEF Typed, TypeOK
  <2>6. UNCHANGED <<registry, idOf, pls>>  BY <1>7 DEF OnStopped
  <2> QED BY <2>1, <2>3, <2>4, <2>5, <2>6 DEF registry, Listed, Typed, TypeOK
<1>8. ASSUME NEW c \in Relayed, RunReturns(c)
      PROVE  EndedGone'
  <2>1. client[c] = "running" /\ client' = [client EXCEPT ![c] = "returned"]
    BY <1>8 DEF RunReturns
  <2>2. \A r \in Relayed : client'[r] = IF r = c THEN "returned" ELSE client[r]
    BY <2>1 DEF Typed, TypeOK
  <2>3. UNCHANGED <<registry, idOf, pls, stop>>  BY <1>8 DEF RunReturns
  <2> QED BY <2>1, <2>2, <2>3 DEF registry, Listed, Typed, TypeOK
<1>9. ASSUME UNCHANGED <<registry, client, idOf, pls>>,
             \A c \in Relayed :
               \/ stop'[c] = stop[c]
               \/ stop[c].pc # "unregister" /\ stop'[c].pc # "unregister"
      PROVE  EndedGone'
  BY <1>9 DEF registry, Listed
<1>10. ASSUME NEW a \in Actors, Cancel(a) \/ CloseOutputs(a)
       PROVE  EndedGone'
  <2>1. UNCHANGED <<registry, client, idOf, pls>>
    BY <1>10 DEF Cancel, CloseOutputs, clients
  <2>2. CASE UNCHANGED stop  BY <1>9, <2>1, <2>2
  <2>3. CASE CloseOutputs(a)
    <3>1. \A b \in Actors : b # a => stop'[b] = stop[b]
      BY <2>3 DEF CloseOutputs, Typed, TypeOK
    <3>2. stop[a].pc = "stopping" /\ stop'[a] = Returned
      BY <2>3 DEF CloseOutputs, Typed, TypeOK
    <3> QED BY <1>9, <2>1, <3>1, <3>2, ReturnedTyped
  <2> QED BY <1>10, <2>2, <2>3 DEF Cancel
<1>11. ASSUME NEW a \in Actors \ Relayed, NEW id, Call(a, id),
              UNCHANGED <<registry, client, idOf, pls>>
       PROVE  EndedGone'
  <2>1. \A c \in Relayed : stop'[c] = stop[c]
    BY <1>11 DEF Call, Typed, TypeOK
  <2> QED BY <1>9, <1>11, <2>1
<1>12. CASE UNCHANGED <<registry, client, idOf, pls, stop>>
  BY <1>9, <1>12
<1>13. ASSUME NEW e \in Encoders, Encoder(e)
       PROVE  EndedGone'
  BY <1>11, <1>12, <1>13 DEF Encoder, OnPublish, OnClose, clients
<1>14. CASE Clean
  <2>1. ASSUME NEW c \in Relayed, Look(c) PROVE EndedGone'
    BY <1>11, <1>12, <2>1 DEF Look, Examine, clients
  <2> QED BY <1>12, <1>14, <2>1 DEF Clean, Tick, Prune, Expire, clients
<1>15. ASSUME NEW q \in Callers, NEW id \in Ids, StopChannel(q, id)
       PROVE  EndedGone'
  BY <1>11, <1>15 DEF StopChannel, clients
<1>16. ASSUME NEW c \in Relayed, CloseDoneCh(c) \/ Join(c) \/ Leave(c)
       PROVE  EndedGone'
  BY <1>12, <1>16 DEF CloseDoneCh, Join, Leave, clients
<1> QED BY <1>1, <1>2, <1>3, <1>4, <1>5, <1>6, <1>7, <1>8, <1>10, <1>13, <1>14,
           <1>15, <1>16 DEF Next, Start, Stop, Client

LEMMA EndedFollows == Typed /\ EndedGone => DeadRelayIsUnlisted
  BY DEF EndedGone, DeadRelayIsUnlisted, Busy

(* When a relay client has gone, its channel is not registered any more.   *)
THEOREM DeadRelayCorrect == Spec => []DeadRelayIsUnlisted
<1>1. Init => MapsAgree /\ EndedGone
  BY ReturnedTyped DEF Init, MapsAgree, EndedGone
<1>2. Spec => [](Typed /\ MapsAgree /\ EndedGone)
  BY <1>1, InitTyped, NextTyped, NextMapsAgree, NextEndedGone, PTL DEF Spec
<1> QED BY <1>2, EndedFollows, PTL

------------------------------------------------------------------------------
(* Where a viewer is about to put a client there is none, or one that was  *)
(* registered since that viewer looked; a Stop holds clients only while it *)
(* stops them.                                                             *)
ReachableInv ==
    /\ \A v \in Viewers :
         pls[v] # NoChannel => relays[idOf[pls[v]]] \in raced \cup {NoChannel}
    /\ \A a \in Actors : stop[a].pc # "stopping" => stop[a].clients = {}
    /\ stop[Main].pc # "unregister"
    /\ ~down => stop[Main].clients = {}
    /\ RunningClientIsReachable

LEMMA NextReachableInv ==
    Typed /\ MapsAgree /\ EndedGone /\ ReachableInv /\ [Next]_vars
        => ReachableInv'
<1> SUFFICES ASSUME Typed, MapsAgree, EndedGone, ReachableInv, [Next]_vars
             PROVE  ReachableInv'
  OBVIOUS
<1> USE DEF ReachableInv, RunningClientIsReachable
<1>1. CASE UNCHANGED vars
  BY <1>1 DEF vars, registry, clients
<1>2. ASSUME NEW c \in Broadcasts, NEW k \in Keys, NEW id \in Ids, Broadcast(c, k, id)
      PROVE  ReachableInv'
  <2>1. \A r \in Relayed : idOf'[r] = idOf[r]
    BY <1>2 DEF Broadcast, Typed, TypeOK
  <2>2. \A v \in Viewers : pls[v] # NoChannel => pls[v] \in Relayed
    BY DEF Typed, TypeOK
  <2> QED BY <1>2, <2>1, <2>2 DEF Broadcast, clients
<1>3. ASSUME NEW v \in Viewers, NEW c \in Relayed, NEW id \in Ids, OnDemandRelay(v, c, id)
      PROVE  ReachableInv'
  <2>1. client[c] = "new"  BY <1>3 DEF OnDemandRelay, Typed, HaveIds
  <2>2. \A r \in Relayed : r # c => idOf'[r] = idOf[r]
    BY <1>3 DEF OnDemandRelay, Typed, TypeOK
  <2>3. pls'[v] = c /\ idOf'[c] = id  BY <1>3 DEF OnDemandRelay, Typed, TypeOK
  <2>4. relays[id] = NoChannel  BY <1>3 DEF OnDemandRelay, MapsAgree
  <2>5. UNCHANGED <<registry, clients, raced, stop, down>>
    BY <1>3 DEF OnDemandRelay
  <2>6. \A w \in Viewers \ {v} :
           /\ pls'[w] = pls[w]
           /\ pls[w] # NoChannel => pls[w] # c /\ pls[w] \in Relayed
    BY <1>3 DEF OnDemandRelay, Typed, TypeOK, HaveIds
  <2>7. ASSUME NEW w \in Viewers, pls'[w] # NoChannel
        PROVE  relays'[idOf'[pls'[w]]] \in raced' \cup {NoChannel}
    BY <2>2, <2>3, <2>4, <2>5, <2>6, <2>7 DEF registry
  <2>8. RunningClientIsReachable'
    BY <2>1, <2>2, <2>5 DEF registry, clients
  <2> QED BY <2>5, <2>7, <2>8 DEF registry, clients
<1>4. ASSUME NEW v \in Viewers, AddRelayChannel(v)
      PROVE  ReachableInv'
  <2> DEFINE c == pls[v]
  <2>1. /\ c \in Relayed /\ idOf[c] \in Ids
        /\ relays[idOf[c]] \in raced \cup {NoChannel}
    BY <1>4 DEF AddRelayChannel, Typed, TypeOK, HaveIds
  <2>2. /\ client' = [client EXCEPT ![c] = "running"]
        /\ relays' = [relays EXCEPT ![idOf[c]] = c]
        /\ raced' \subseteq Relayed /\ raced \subseteq raced'
        /\ UNCHANGED <<idOf, stop, cancelled, down>>
    BY <1>4, <2>1 DEF AddRelayChannel, Typed, TypeOK
  <2>3. \A w \in Viewers : pls'[w] = IF w = v THEN NoChannel ELSE pls[w]
    BY <1>4 DEF AddRelayChannel, Typed, TypeOK
  <2>4. \A w \in Viewers \ {v} :
           pls[w] # NoChannel /\ idOf[pls[w]] = idOf[c] => c \in raced'
    BY <1>4 DEF AddRelayChannel
  <2> HIDE DEF c
  <2>5. \A i \in Ids : relays'[i] = IF i = idOf[c] THEN c ELSE relays[i]
    BY <2>1, <2>2 DEF Typed, TypeOK
  <2>6. ASSUME NEW r \in Relayed \ (cancelled \cup raced'), client'[r] = "running"
        PROVE  relays'[idOf[r]] = r \/ \E a \in Actors : r \in stop[a].clients
    <3>1. CASE r = c  BY <2>1, <2>5, <3>1
    <3>2. CASE r # c
      <4>1. client[r] = "running" /\ r \notin raced
        BY <2>2, <2>6, <3>2 DEF Typed, TypeOK
      <4>2. idOf[r] \in Ids /\ r # NoChannel  BY <4>1 DEF Typed, HaveIds
      <4>3. relays[idOf[r]] = r \/ \E a \in Actors : r \in stop[a].clients
        BY <2>6, <4>1
      <4>4. CASE idOf[r] = idOf[c]  BY <2>1, <4>1, <4>2, <4>3, <4>4
      <4>5. CASE idOf[r] # idOf[c]  BY <2>5, <4>2, <4>3, <4>5
      <4> QED BY <4>4, <4>5
    <3> QED BY <3>1, <3>2
  <2>7. ASSUME NEW w \in Viewers, pls'[w] # NoChannel
        PROVE  relays'[idOf[pls'[w]]] \in raced' \cup {NoChannel}
    <3>1. w # v /\ pls'[w] = pls[w] /\ idOf[pls[w]] \in Ids
      BY <2>3, <2>7 DEF Typed, HaveIds
    <3> QED BY <2>2, <2>4, <2>5, <2>7, <3>1
  <2> QED BY <2>2, <2>6, <2>7
<1>5. ASSUME NEW a \in Actors, Unregister(a)
      PROVE  ReachableInv'
  <2> DEFINE id == stop[a].id
  <2>1. id \in Ids /\ stop[a].pc = "unregister" /\ stop[a].clients = {} /\ a # Main
    BY <1>5 DEF Unregister, Typed, HaveIds
  <2>2. \A b \in Actors : b # a => stop'[b] = stop[b]
    BY <1>5 DEF Unregister, Typed, TypeOK
  <2>3. UNCHANGED <<clients, idOf, requests, down>>  BY <1>5 DEF Unregister
  <2>4. stop[a] \in Stops  BY DEF Typed, TypeOK
  <2>5. CASE byID[id] = NoChannel
    <3>1. stop'[a] = Returned /\ UNCHANGED relays
      BY <1>5, <2>5 DEF Unregister, registry, Typed, TypeOK
    <3>2. stop'[a].clients = {}  BY <3>1 DEF Returned
    <3> QED BY <2>1, <2>2, <2>3, <3>1, <3>2 DEF clients
  <2>6. CASE byID[id] # NoChannel
    <3>1. /\ stop' = [stop EXCEPT ![a].pc = "stopping",
                                  ![a].channels = {byID[id]},
                                  ![a].clients = {relays[id]} \ {NoChannel}]
          /\ relays' = [relays EXCEPT ![id] = NoChannel]
      BY <1>5, <2>6 DEF Unregister, ClientsStopped
    <3>2. stop'[a].pc = "stopping" /\ stop'[a].clients = {relays[id]} \ {NoChannel}
      BY <2>4, <3>1 DEF Stops, Typed, TypeOK
    <3>3. \A i \in Ids : relays'[i] = IF i = id THEN NoChannel ELSE relays[i]
      BY <3>1 DEF Typed, TypeOK
    <3> HIDE DEF id
    <3>4. ASSUME NEW r \in Relayed \ (cancelled \cup raced), client[r] = "running"
          PROVE  relays'[idOf[r]] = r \/ \E b \in Actors : r \in stop'[b].clients
      <4>1. idOf[r] \in Ids  BY <3>4 DEF Typed, HaveIds
      <4>2. CASE relays[idOf[r]] = r
        BY <3>2, <3>3, <4>1, <4>2
      <4>3. CASE \E b \in Actors : r \in stop[b].clients
        BY <2>1, <2>2, <4>3
      <4> QED BY <3>4, <4>2, <4>3
    <3>5. \A v \in Viewers :
             pls[v] # NoChannel => relays'[idOf[pls[v]]] \in raced \cup {NoChannel}
      BY <3>3 DEF Typed, HaveIds
    <3> QED BY <2>1, <2>2, <2>3, <3>2, <3>4, <3>5 DEF clients
  <2> QED BY <2>5, <2>6
<1>6. CASE StopAll
  <2>1. \A i \in Ids : relays'[i] = NoChannel  BY <1>6 DEF StopAll
  <2>2. /\ stop'[Main].pc = "stopping"
        /\ stop'[Main].clients = {relays[i] : i \in Ids} \ {NoChannel}
        /\ \A b \in Actors : b # Main => stop'[b] = stop[b]
    BY <1>6 DEF StopAll, Typed, TypeOK
  <2>3. UNCHANGED <<clients, idOf, requests>> /\ down' /\ ~down
    BY <1>6 DEF StopAll
  <2>4. ASSUME NEW r \in Relayed \ (cancelled \cup raced), client[r] = "running"
        PROVE  \E b \in Actors : r \in stop'[b].clients
    <3>1. idOf[r] \in Ids  BY <2>4 DEF Typed, HaveIds
    <3> QED BY <2>2, <2>3, <2>4, <3>1
  <2> QED BY <2>1, <2>2, <2>3, <2>4 DEF clients, Typed, HaveIds
<1>7. ASSUME NEW a \in Actors, Cancel(a) \/ CloseOutputs(a)
      PROVE  ReachableInv'
  <2>1. CASE Cancel(a)
    BY <2>1 DEF Cancel, registry, Typed, TypeOK
  <2>2. CASE CloseOutputs(a)
    <3>1. stop[a].clients \subseteq cancelled /\ stop'[a] = Returned
      BY <2>2 DEF CloseOutputs, Typed, TypeOK
    <3>2. \A b \in Actors : b # a => stop'[b] = stop[b]
      BY <2>2 DEF CloseOutputs, Typed, TypeOK
    <3>3. Returned.pc = "idle" /\ Returned.clients = {}  BY DEF Returned
    <3>4. UNCHANGED <<registry, clients, idOf, requests, down>>
      BY <2>2 DEF CloseOutputs
    <3> QED BY <3>1, <3>2, <3>3, <3>4 DEF registry, clients
  <2> QED BY <1>7, <2>1, <2>2
<1>8. ASSUME UNCHANGED <<registry, cancelled, idOf, requests, stop, down>>,
             \A c \in Relayed : client'[c] = "running" => client[c] = "running"
      PROVE  ReachableInv'
  BY <1>8 DEF registry
<1>9. ASSUME NEW a \in Actors \ {Main}, NEW id, Call(a, id),
             UNCHANGED <<registry, cancelled, idOf, requests, down>>,
             \A c \in Relayed : client'[c] = "running" => client[c] = "running"
      PROVE  ReachableInv'
  <2>1. \A b \in Actors : b # a => stop'[b] = stop[b]
    BY <1>9 DEF Call, Typed, TypeOK
  <2>2. stop[a] \in Stops /\ stop[a].clients = {}
    BY <1>9 DEF Call, Busy, Typed, TypeOK
  <2>3. stop'[a].clients = {}
    BY <1>9, <2>2 DEF Call, Stops, Typed, TypeOK
  <2> QED BY <1>9, <2>1, <2>2, <2>3 DEF registry
<1>10. ASSUME NEW c \in Relayed, Client(c) \/ Join(c) \/ Leave(c)
       PROVE  ReachableInv'
  <2>1. UNCHANGED <<registry, cancelled, idOf, requests, down>>
    BY <1>10 DEF Client, RunReturns, CloseDoneCh, OnStopped, Join, Leave, clients
  <2>2. \A r \in Relayed : client'[r] = "running" => client[r] = "running"
    BY <1>10 DEF Client, RunReturns, CloseDoneCh, OnStopped, Join, Leave, clients,
                 Typed, TypeOK
  <2>3. UNCHANGED stop \/ Call(c, idOf[c])
    BY <1>10 DEF Client, RunReturns, CloseDoneCh, OnStopped, Join, Leave
  <2> QED BY <1>8, <1>9, <2>1, <2>2, <2>3
<1>11. ASSUME NEW e \in Encoders, Encoder(e)
       PROVE  ReachableInv'
  BY <1>8, <1>9, <1>11 DEF Encoder, OnPublish, OnClose, clients
<1>12. CASE Clean
  <2>1. ASSUME NEW c \in Relayed, Look(c) PROVE ReachableInv'
    BY <1>8, <1>9, <2>1 DEF Look, Examine, clients
  <2> QED BY <1>8, <1>12, <2>1 DEF Clean, Tick, Prune, Expire, clients
<1>13. ASSUME NEW q \in Callers, NEW id \in Ids, StopChannel(q, id)
       PROVE  ReachableInv'
  BY <1>9, <1>13 DEF StopChannel, clients
<1> QED BY <1>1, <1>2, <1>3, <1>4, <1>5, <1>6, <1>7, <1>10, <1>11, <1>12, <1>13
        DEF Next, Start, Stop

(* However many viewers ask for relays, and whoever stops, broadcasts or   *)
(* ends meanwhile: a running client that Stop and StopAll cannot reach is  *)
(* one that was registered while another request for the same channel,     *)
(* which had found none, had yet to register its own.                      *)
THEOREM ReachableCorrect == Spec => []RunningClientIsReachable
<1>1. Init => MapsAgree /\ EndedGone /\ ReachableInv
  BY DEF Init, MapsAgree, EndedGone, ReachableInv, RunningClientIsReachable, Returned
<1>2. Spec => [](Typed /\ MapsAgree /\ EndedGone /\ ReachableInv)
  BY <1>1, InitTyped, NextTyped, NextMapsAgree, NextEndedGone, NextReachableInv,
     PTL DEF Spec
<1>3. ReachableInv => RunningClientIsReachable  BY DEF ReachableInv
<1> QED BY <1>2, <1>3, PTL

(* The registry holds every channel under its own ID, and no dead one.     *)
THEOREM RegistryCorrect == Spec => []RegistryInv
  BY TypeCorrect, DeadRelayCorrect, PTL DEF RegistryInv

==============================================================================
