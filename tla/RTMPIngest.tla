------------------------------ MODULE RTMPIngest ------------------------------
(***************************************************************************)
(* Encoders that feed a broadcast channel: the connection handler of       *)
(* internal/rtmp/server.go, with the broadcasts and stops of the API       *)
(* (jsonrpc/handler_channel.go, channel/manager.go) that happen meanwhile. *)
(* There is one stream key; every broadcast makes a new channel, and       *)
(* several connections may publish with the key.                           *)
(*                                                                         *)
(* A handler's callbacks run one after the other.  Each looks the channel  *)
(* up anew, under the manager's lock, and then uses what it has found,     *)
(* under the channel's: these are separate steps.                          *)
(***************************************************************************)
EXTENDS Integers, FiniteSets

CONSTANTS
    Encoders,    \* RTMP connections
    Kinds,       \* which of metadata, video and audio each of them sends
    Ids,         \* channel IDs, derived from the key, name, genre and bitrate
    MaxChannels, \* bound: broadcasts
    MaxTags,     \* bound: per connection and kind, metadata and sequence headers
    Width,       \* 2^32: streamPos is counted modulo Width
    BodyLens     \* lengths of the FLV tags with their back pointers

ASSUME BoundsAssumption ==
    /\ Kinds \in [Encoders -> SUBSET {"meta", "avc", "aac"}]
    /\ MaxChannels \in Nat /\ MaxTags \in Nat
    /\ Width \in Nat \ {0} /\ BodyLens \subseteq Nat \ {0}
    /\ Ids # {}

VARIABLES
    current,  \* byStreamKey[key]: the number of a channel, or 0
    made,     \* how many channels there have been
    chan,     \* the channels
    enc       \* per connection: the handler and the locals of its callback

ingestVars == <<current, made, chan, enc>>

Chans == 1..MaxChannels
Positions == 0..(Width - 1)

(* A header is put together from the latest tags of the three kinds; 0 is  *)
(* none.                                                                   *)
Tags == [meta : 0..MaxTags, avc : 0..MaxTags, aac : 0..MaxTags]
NoTags == [meta |-> 0, avc |-> 0, aac |-> 0]

(* setBy set the channel's header, infoBy its info from metadata, and      *)
(* wroteBy its last body, which ended at end.  A body is bare if there was *)
(* no header yet, though the connection published on this very channel.    *)
NewChannel(id) ==
    [id |-> id, header |-> NoTags, setBy |-> {}, infoBy |-> {},
     wroteBy |-> {}, end |-> 0, bare |-> FALSE]

(* first is the channel there was when the connection published.           *)
NewHandler ==
    [pc |-> "new", tags |-> NoTags, decodes |-> FALSE, infoApplied |-> FALSE,
     streamPos |-> 0, op |-> "none", len |-> 0, ch |-> 0, first |-> 0]

IngestInit ==
    /\ current = 0 /\ made = 0
    /\ chan = [g \in Chans |-> NewChannel(CHOOSE id \in Ids : TRUE)]
    /\ enc = [e \in Encoders |-> NewHandler]

handlerAt(e, l) == enc[e].pc = l

------------------------------------------------------------------------------
(* The API.                                                                *)
Broadcast(id) ==
    /\ current = 0 /\ made < MaxChannels
    /\ made' = made + 1
    /\ current' = made + 1
    /\ chan' = [chan EXCEPT ![made + 1] = NewChannel(id)]
    /\ UNCHANGED enc

(* Manager.Stop goes by the ID.                                            *)
Stopped(id) == IF current # 0 /\ chan[current].id = id THEN 0 ELSE current

StopChannel ==
    /\ current # 0
    /\ current' = 0
    /\ UNCHANGED <<made, chan, enc>>

API == (\E id \in Ids : Broadcast(id)) \/ StopChannel

------------------------------------------------------------------------------
(* The callbacks.  Tags arrive when the handler is idle.                   *)

(* The key may not be issued: it is refused, and the connection ends.      *)
OnPublish(e) ==
    /\ handlerAt(e, "new")
    /\ \/ enc' = [enc EXCEPT ![e].pc = "idle", ![e].first = current]
       \/ enc' = [enc EXCEPT ![e].pc = "closed"]
    /\ UNCHANGED <<made, current, chan>>

(* applyMetaInfo comes first in every callback.  It returns at once if the *)
(* info has been applied or there is no metadata; metadata that does not   *)
(* decode leaves the channel alone just the same.  In OnSetDataFrame       *)
(* rebuildHeader follows: it has nothing to do before the first sequence   *)
(* header, and else calls applyMetaInfo again.                             *)
HasInfo(h) == h.tags.meta > 0 /\ h.decodes /\ ~h.infoApplied

(* Mutant: a header has picture and sound.                                 *)
Rebuilds_Both(h) == h.tags.avc > 0 /\ h.tags.aac > 0

Rebuilds(h) == h.tags.avc > 0 \/ h.tags.aac > 0
Proceed(h) ==
    IF h.op = "meta" /\ ~Rebuilds(h)
    THEN [h EXCEPT !.pc = "idle", !.op = "none"]
    ELSE [h EXCEPT !.pc = "deliver", !.op = IF @ = "meta" THEN "header" ELSE @]

(* Mutant: metadata is applied when it comes, or not at all.               *)
Begin_OnlyMeta(h) == IF HasInfo(h) /\ h.op = "meta"
                     THEN [h EXCEPT !.pc = "apply"] ELSE Proceed(h)

Begin(h) == IF HasInfo(h) THEN [h EXCEPT !.pc = "apply"] ELSE Proceed(h)
Applied(h) ==
    IF h.op = "meta" /\ Rebuilds(h) THEN Begin([h EXCEPT !.op = "header"])
                                    ELSE Proceed(h)

Received(h, kind) == [h EXCEPT !.tags[kind] = @ + 1]

OnSetDataFrame(e, decodes) ==
    /\ handlerAt(e, "idle") /\ "meta" \in Kinds[e] /\ enc[e].tags.meta < MaxTags
    /\ enc' = [enc EXCEPT ![e] = Begin([Received(@, "meta") EXCEPT
                                          !.decodes = decodes, !.op = "meta"])]
    /\ UNCHANGED <<made, current, chan>>

SequenceHeader(e, kind) ==
    /\ handlerAt(e, "idle") /\ kind \in Kinds[e] /\ enc[e].tags[kind] < MaxTags
    /\ enc' = [enc EXCEPT ![e] = Begin([Received(@, kind) EXCEPT !.op = "header"])]
    /\ UNCHANGED <<made, current, chan>>

(* Encoders send a sequence header before the frames that need it.         *)
HasSequenceHeader(e, kind) == enc[e].tags[kind] > 0

Frame(e, kind, len) ==
    /\ handlerAt(e, "idle") /\ HasSequenceHeader(e, kind)
    /\ enc' = [enc EXCEPT ![e] = Begin([@ EXCEPT !.len = len, !.op = "body"])]
    /\ UNCHANGED <<made, current, chan>>

OnVideo(e) == SequenceHeader(e, "avc") \/ \E len \in BodyLens : Frame(e, "avc", len)
OnAudio(e) == SequenceHeader(e, "aac") \/ \E len \in BodyLens : Frame(e, "aac", len)

------------------------------------------------------------------------------
ApplyLookup(e) ==
    /\ handlerAt(e, "apply")
    /\ enc' = [enc EXCEPT ![e] = IF current # 0
                                 THEN [@ EXCEPT !.pc = "info", !.ch = current]
                                 ELSE Applied(@)]
    /\ UNCHANGED <<made, current, chan>>

SetInfo(e) ==
    /\ handlerAt(e, "info")
    /\ chan' = [chan EXCEPT ![enc[e].ch].infoBy = @ \cup {e}]
    /\ enc' = [enc EXCEPT ![e] = Applied([@ EXCEPT !.infoApplied = TRUE, !.ch = 0])]
    /\ UNCHANGED <<made, current>>

------------------------------------------------------------------------------
(* rebuildHeader and writeData look the channel up.  What finds none is    *)
(* dropped, and the position stays.                                        *)
DeliverLookup(e) ==
    /\ handlerAt(e, "deliver")
    /\ enc' = [enc EXCEPT ![e].ch = current,
                          ![e].pc = IF current = 0 THEN "idle" ELSE "send",
                          ![e].op = IF current = 0 THEN "none" ELSE @,
                          ![e].len = IF current = 0 THEN 0 ELSE @]
    /\ UNCHANGED <<made, current, chan>>

Done(h) == [h EXCEPT !.pc = "idle", !.op = "none", !.len = 0, !.ch = 0]

rebuildHeader(e) ==
    /\ handlerAt(e, "send") /\ enc[e].op = "header"
    /\ chan' = [chan EXCEPT ![enc[e].ch].header = enc[e].tags,
                            ![enc[e].ch].setBy = {e}]
    /\ enc' = [enc EXCEPT ![e] = Done(@)]
    /\ UNCHANGED <<made, current>>

Advanced(pos, len) == (pos + len) % Width

writeData(e) ==
    /\ handlerAt(e, "send") /\ enc[e].op = "body"
    /\ LET h == enc[e]
           c == chan[h.ch] IN
       /\ enc' = [enc EXCEPT ![e] = [Done(h) EXCEPT
                      !.streamPos = Advanced(h.streamPos, h.len)]]
       /\ chan' = [chan EXCEPT ![h.ch] = [c EXCEPT
                      !.wroteBy = {e}, !.end = (h.streamPos + h.len) % Width,
                      !.bare = c.bare \/ (h.first = h.ch /\ c.header = NoTags)]]
    /\ UNCHANGED <<made, current>>

(* The connection ends: the channel that has the key by then is looked up, *)
(* and its ID is stopped.                                                  *)
Disconnect(e) ==
    /\ handlerAt(e, "idle")
    /\ enc' = [enc EXCEPT ![e] = [NewHandler EXCEPT !.pc = "onClose"]]
    /\ UNCHANGED <<made, current, chan>>

OnCloseLookup(e) ==
    /\ handlerAt(e, "onClose")
    /\ enc' = [enc EXCEPT ![e].ch = current,
                          ![e].pc = IF current = 0 THEN "closed" ELSE "stop"]
    /\ UNCHANGED <<made, current, chan>>

(* Mutant: the channel is closed and stays registered.                     *)
OnCloseStop_Registered(e) ==
    /\ handlerAt(e, "stop")
    /\ enc' = [enc EXCEPT ![e].pc = "closed", ![e].ch = 0]
    /\ UNCHANGED <<made, current, chan>>

OnCloseStop(e) ==
    /\ handlerAt(e, "stop")
    /\ current' = Stopped(chan[enc[e].ch].id)
    /\ enc' = [enc EXCEPT ![e].pc = "closed", ![e].ch = 0]
    /\ UNCHANGED <<made, chan>>

OnClose(e) == OnCloseLookup(e) \/ OnCloseStop(e)

Callback(e) ==
    \/ ApplyLookup(e) \/ SetInfo(e)
    \/ DeliverLookup(e) \/ rebuildHeader(e) \/ writeData(e)
    \/ OnClose(e)

IngestNext ==
    \/ API
    \/ \E e \in Encoders :
        \/ OnPublish(e) \/ (\E d \in BOOLEAN : OnSetDataFrame(e, d))
        \/ OnVideo(e) \/ OnAudio(e) \/ Disconnect(e)
        \/ Callback(e)

(* A callback that has begun goes on.  Nothing makes an encoder send, nor  *)
(* anybody call the API.                                                   *)
IngestFairness == \A e \in Encoders : WF_ingestVars(Callback(e))

IngestSpec == IngestInit /\ [][IngestNext]_ingestVars /\ IngestFairness

------------------------------------------------------------------------------
IngestPlaces == {"new", "idle", "apply", "info", "deliver", "send",
                 "onClose", "stop", "closed"}

(* Type correctness; whoever uses a channel has looked it up.              *)
IngestTypeOK ==
    /\ made \in 0..MaxChannels /\ current \in 0..made
    /\ chan \in [Chans ->
            [id : Ids, header : Tags, setBy : SUBSET Encoders,
             infoBy : SUBSET Encoders, wroteBy : SUBSET Encoders,
             end : Positions, bare : BOOLEAN]]
    /\ enc \in [Encoders ->
            [pc : IngestPlaces, tags : Tags,
             decodes : BOOLEAN, infoApplied : BOOLEAN, streamPos : Positions,
             op : {"none", "meta", "header", "body"}, len : {0} \cup BodyLens,
             ch : 0..MaxChannels, first : 0..MaxChannels]]
    /\ \A e \in Encoders :
            enc[e].pc \in {"info", "send", "stop"} => enc[e].ch \in Chans

(* Between the callbacks of the connection that set it, the header of the  *)
(* channel on the air is made of that connection's latest tags: whichever  *)
(* of metadata, video and audio comes first or changes later.              *)
HeaderIsLatest ==
    current # 0 => \A e \in chan[current].setBy :
        handlerAt(e, "idle") => chan[current].header = enc[e].tags

(* A channel that was on the air when the encoder connected gets no body   *)
(* of it before a header, also when it is stopped and broadcast anew       *)
(* meanwhile, or when there is only audio or only video.                   *)
HeaderBeforeBodies == \A g \in Chans : ~chan[g].bare

(* As long as one connection feeds a channel, its next body begins where   *)
(* the last one ended, whatever was dropped for want of a channel.         *)
BodiesAdjoin ==
    current # 0 => \A e \in chan[current].wroteBy :
        \/ chan[current].end = enc[e].streamPos
        \/ enc[e].pc \in {"onClose", "stop", "closed"}

IngestInv == IngestTypeOK /\ HeaderIsLatest /\ HeaderBeforeBodies /\ BodiesAdjoin

(* Metadata that arrives before broadcastChannel is not lost (the comment  *)
(* on applyMetaInfo): the first broadcast has it applied once the encoder  *)
(* goes on sending, if only frames, wherever the broadcast falls in its    *)
(* callbacks.  A later broadcast does not: infoApplied is still set.       *)
MetaNotLost ==
    \A e \in Encoders :
        /\ <>[](current = 1 /\ enc[e].tags.meta > 0 /\ enc[e].decodes)
        /\ []<>handlerAt(e, "deliver")
        => <>(e \in chan[1].infoBy)

(* The channel that is on the air when its encoder disconnects is stopped  *)
(* (docs/spec.md, RTMP disconnection).                                     *)
DisconnectStops ==
    \A e \in Encoders, g \in Chans :
        handlerAt(e, "onClose") /\ current = g ~> current # g

==============================================================================
