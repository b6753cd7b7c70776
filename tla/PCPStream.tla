------------------------------ MODULE PCPStream ------------------------------
(***************************************************************************)
(* A channel's stream as its PCP relays send it on: runStreaming and the   *)
(* stream loop of internal/servent/pcp.go, the notifications of            *)
(* output_base.go and channel.go, and what the node at the other end makes *)
(* of it, with the position it asks for when it comes back                 *)
(* (relay/client.go).  Forwarded bcst atoms are in BcstForward.            *)
(*                                                                         *)
(* The buffer is the sliding window that ContentBuffer is proved to be.    *)
(* Stream positions are numbers modulo Width, as uint32 is.  A step ends   *)
(* where the code releases a lock, or reads or waits for something another *)
(* goroutine can change.                                                   *)
(***************************************************************************)
EXTENDS Integers, Sequences, FiniteSetsExt

CONSTANTS
    Sources,    \* what feeds the channel: a relay client, or the encoders that
                \* have connected with its key and not yet gone
    Relays,     \* the nodes that relay from here, one connection each at a time
    Fields,     \* info and track, which are set and sent in the same way
    Size,       \* packets the buffer holds
    Width,      \* 2^32: positions are counted modulo Width
    Lengths,    \* packet lengths
    MaxBodyLen, \* maxContentBodyLen
    HeaderLen,  \* len(header)
    HeaderPos,  \* bound: the positions of headers
    BodyPos,    \* bound: the positions of packets
    MaxWrites,  \* bound: packets written
    MaxSets,    \* bound: per kind, how often it is set
    MaxConns    \* bound: how often a relay comes back

Kinds == Fields \cup {"header"}
Positions == 0..(Width - 1)

ASSUME SizesAssumption ==
    /\ Size \in Nat \ {0} /\ Width \in Nat \ {0} /\ MaxBodyLen \in Nat \ {0}
    /\ Lengths \subseteq Nat \ {0} /\ HeaderLen \in Nat
    /\ HeaderPos \subseteq Positions /\ BodyPos \subseteq Positions
ASSUME BoundsAssumption ==
    /\ MaxWrites \in Nat /\ MaxConns \in Nat
    /\ MaxSets \in [Kinds -> Nat]
ASSUME FieldsAssumption == "header" \notin Fields

VARIABLES
    version,     \* per kind: which value is in force; 0 is none
    headerPos,   \* the header's position
    window,      \* the buffered packets
    reached,     \* the end of the packet written last, not taken modulo Width
    written,     \* packets written so far: the number of the newest
    unsignalled, \* sources whose Write has stored its packet and not signalled
    settingHeader, \* sources in SetHeader that have not yet copied the outputs
    toTell,      \* per source in SetHeader: the outputs still to be notified
    wentBack,    \* "rewound": a packet lay below the end of the one before;
                 \* "again": one did so under the same header, or it lay below
                 \* its header or reached the last position
    old,         \* packets up to this one are older than 5 s
    outputs,     \* c.outputs
    toNotify,    \* per relay and field: notifications still to be delivered
    tokens,      \* the <<relay, kind>> with a token in infoCh, trackCh, headerCh
    closed,      \* the relays whose closeCh is closed
    run,         \* per relay: the locals of the connection's goroutine
    peer         \* per relay: what the node at the other end has received

bufferVars == <<headerPos, window, reached, written, wentBack>>
writerVars == <<unsignalled, settingHeader, toTell>>
sourceVars == <<version, bufferVars, writerVars>>
sharedVars == <<outputs, toNotify, tokens, closed>>
vars == <<sourceVars, old, sharedVars, run, peer>>

Packets == [Pos : Positions, len : Lengths, key : BOOLEAN, n : Nat]

Log == INSTANCE StreamLog WITH
    Packet <- Packets, Header <- (Nat \ {0}) \X Positions,
    NoHeader <- <<0, 0>>, header <- <<version["header"], headerPos>>

(* pos, waitingForKeyframe and packets are streamLoop's own; woken says    *)
(* that the signal channel it holds has been closed; upd which update it   *)
(* is about to send; shown the values it has sent and last the packet it   *)
(* got to.                                                                 *)
Places == {"new", "fields", "header", "start", "oldest", "drain", "updDrain",
           "updWait", "signal", "fetch", "batch", "send", "wait", "done",
           "removed"}
Locals == [pc : Places, conns : 0..MaxConns, reqPos : Positions,
           pos : Positions, waitingForKeyframe : BOOLEAN, packets : Seq(Packets),
           woken : BOOLEAN, upd : Kinds, shown : [Kinds -> Nat], last : Nat]
Fresh(l, conns) ==
    [pc |-> l, conns |-> conns, reqPos |-> 0, pos |-> 0,
     waitingForKeyframe |-> TRUE, packets |-> << >>, woken |-> FALSE,
     upd |-> "header", shown |-> [k \in Kinds |-> 0], last |-> 0]

(* The other node's buffer: its header, the end of its content and the     *)
(* number of its newest packet.  repeated says that it was given a packet  *)
(* it had already got under this header.                                   *)
Peers == [header : Nat, headerPos : Positions, content : Positions, last : Nat,
          repeated : BOOLEAN]
NewPeer == [header |-> 0, headerPos |-> 0, content |-> 0, last |-> 0,
            repeated |-> FALSE]

Init ==
    /\ version = [k \in Kinds |-> 0] /\ headerPos = 0
    /\ window = << >> /\ reached = 0 /\ written = 0 /\ wentBack = {}
    /\ unsignalled = {} /\ settingHeader = {} /\ toTell = [s \in Sources |-> {}]
    /\ old = 0
    /\ outputs = {} /\ tokens = {} /\ closed = {}
    /\ toNotify = [r \in Relays |-> [k \in Fields |-> 0]]
    /\ run = [r \in Relays |-> Fresh("new", 0)]
    /\ peer = [r \in Relays |-> NewPeer]

------------------------------------------------------------------------------
(* The buffer, as the relays read it.                                      *)
Plus(p, q) == (p + q) % Width
Newest == window[Len(window)]
OldestPos == IF window = << >> THEN 0 ELSE window[1].Pos

(* Everything from the first packet at or after pos.  Positions are        *)
(* compared as integers, also when they have wrapped.                      *)
Since(pos) ==
    LET found == {i \in DOMAIN window : window[i].Pos >= pos}
    IN  IF found = {} THEN << >> ELSE SubSeq(window, Min(found), Len(window))

(* Each source is one goroutine: its Write or SetHeader ends before its    *)
(* next begins.  But two encoders with one key feed one channel while the  *)
(* older connection has not gone, each from position 0, and a relay client *)
(* takes all positions from upstream: a call is at any position.           *)
SourceIdle(s) ==
    s \notin unsignalled /\ s \notin settingHeader /\ toTell[s] = {}

(* A different header empties the buffer; an identical one changes         *)
(* nothing, and the packets that follow join those already there.  Headers *)
(* are numbered: one that comes back after another counts as new.          *)
SetHeader(s, pos) ==
    /\ SourceIdle(s)
    /\ version["header"] < MaxSets["header"]
    /\ version' = [version EXCEPT !["header"] = @ + 1]
    /\ headerPos' = pos
    /\ window' = << >>
    /\ settingHeader' = settingHeader \cup {s}
    /\ UNCHANGED <<reached, written, wentBack, unsignalled, toTell, old, sharedVars,
                   run, peer>>

(* A copy of the outputs is taken, to be notified one by one.              *)
SetHeaderSnapshot(s) ==
    /\ s \in settingHeader
    /\ settingHeader' = settingHeader \ {s}
    /\ toTell' = [toTell EXCEPT ![s] = outputs]
    /\ UNCHANGED <<version, bufferVars, unsignalled, old, sharedVars, run, peer>>

NotifyHeader(s, r) ==
    /\ r \in toTell[s]
    /\ toTell' = [toTell EXCEPT ![s] = @ \ {r}]
    /\ tokens' = tokens \cup {<<r, "header">>}
    /\ UNCHANGED <<version, bufferVars, unsignalled, settingHeader, old, outputs,
                   toNotify, closed, run, peer>>

CopyOutputs(k) ==
    toNotify' = [r \in Relays |->
        IF r \in outputs THEN [toNotify[r] EXCEPT ![k] = @ + 1] ELSE toNotify[r]]

(* SetInfo and SetTrack store the value and copy the outputs under one     *)
(* lock.  The source and the API call them at any time.                    *)
SetField(k) ==
    /\ version[k] < MaxSets[k]
    /\ version' = [version EXCEPT ![k] = @ + 1]
    /\ CopyOutputs(k)
    /\ UNCHANGED <<bufferVars, writerVars, old, outputs, tokens, closed, run, peer>>

(* Mutant: the channel holds no token, only a waiting relay is told.       *)
Notify_Unbuffered(r, k) ==
    /\ toNotify[r][k] > 0
    /\ toNotify' = [toNotify EXCEPT ![r][k] = @ - 1]
    /\ tokens' = tokens \cup (IF run[r].pc = "wait" THEN {<<r, k>>} ELSE {})
    /\ UNCHANGED <<sourceVars, old, outputs, closed, run, peer>>

(* notify: a non-blocking send into a channel that holds one token.        *)
Notify(r, k) ==
    /\ toNotify[r][k] > 0
    /\ toNotify' = [toNotify EXCEPT ![r][k] = @ - 1]
    /\ tokens' = tokens \cup {<<r, k>>}
    /\ UNCHANGED <<sourceVars, old, outputs, closed, run, peer>>

(* Nothing keeps a packet from lying below those before it.                *)
Below(pos) == pos < reached
Again(pos, len) ==
    \/ window # << >> /\ Below(pos)
    \/ pos < headerPos
    \/ pos + len >= Width

Write(s, pos, len, key) ==
    /\ SourceIdle(s)
    /\ written < MaxWrites
    /\ window' = Log!Pushed([Pos |-> pos, len |-> len, key |-> key, n |-> written + 1])
    /\ reached' = pos + len
    /\ written' = written + 1
    /\ wentBack' = wentBack
            \cup (IF Below(pos) THEN {"rewound"} ELSE {})
            \cup (IF Again(pos, len) THEN {"again"} ELSE {})
    /\ unsignalled' = unsignalled \cup {s}
    /\ UNCHANGED <<version, headerPos, settingHeader, toTell, old, sharedVars, run,
                   peer>>

(* A signal channel is held from Signal to a fetch that finds something,   *)
(* or to the end of the wait; notifyWrite closes the one everybody holds.  *)
Holding(r) == run[r].pc \in {"fetch", "wait"}

WriteSignal(s) ==
    /\ s \in unsignalled
    /\ unsignalled' = unsignalled \ {s}
    /\ run' = [r \in Relays |-> [run[r] EXCEPT !.woken = Holding(r)]]
    /\ UNCHANGED <<version, bufferVars, settingHeader, toTell, old, sharedVars, peer>>

(* Five seconds pass: what is in the buffer is old.                        *)
Age ==
    /\ window # << >> /\ old < written
    /\ old' = written
    /\ UNCHANGED <<sourceVars, sharedVars, run, peer>>

Source ==
    \/ \E s \in Sources :
        \/ \E pos \in HeaderPos : SetHeader(s, pos)
        \/ SetHeaderSnapshot(s)
        \/ \E r \in Relays : NotifyHeader(s, r)
        \/ \E pos \in BodyPos, len \in Lengths, key \in BOOLEAN :
                Write(s, pos, len, key)
        \/ WriteSignal(s)
    \/ \E k \in Fields : SetField(k)
    \/ \E r \in Relays, k \in Fields : Notify(r, k)
    \/ Age

------------------------------------------------------------------------------
at(r, l) == run[r].pc = l
Connected(r) == run[r].pc \notin {"new", "done", "removed"}
Streaming(r) == run[r].pc \in {"drain", "updDrain", "updWait", "signal",
                               "fetch", "batch", "send", "wait"}
NothingElse == UNCHANGED <<sourceVars, old, sharedVars, peer>>
Goto(r, l) == run' = [run EXCEPT ![r].pc = l, ![r].woken = FALSE]
Leave(r) == run' = [run EXCEPT ![r] = Fresh("done", @.conns)]

(* The peer quits or hangs up (readLoop), or the connection is evicted,    *)
(* closed by the API or stopped with its channel.                          *)
Close(r) ==
    /\ Connected(r)
    /\ closed' = closed \cup {r}
    /\ UNCHANGED <<sourceVars, old, outputs, toNotify, tokens, run, peer>>

(* A write fails, by its deadline or because the peer is gone.             *)
WriteFails(r) ==
    /\ run[r].pc \in {"header", "updDrain", "updWait", "send"}
    /\ Leave(r)
    /\ NothingElse

(* What the peer does with a header and with a body (handlePkt), and so    *)
(* what it asks for when it comes back (ContentPosition).                  *)
WithHeader(p, h, pos) ==
    IF h = 0 \/ <<h, pos>> = <<p.header, p.headerPos>> THEN p
    ELSE [p EXCEPT !.header = h, !.headerPos = pos,
                   !.content = Plus(pos, HeaderLen), !.last = 0]

WithBody(p, n, pos, len) ==
    [p EXCEPT !.content = CASE p.header = 0 -> 0
                            [] p.header # 0 /\ p.headerPos > pos ->
                                    Plus(p.headerPos, HeaderLen)
                            [] OTHER -> Plus(pos, len),
              !.last = n,
              !.repeated = @ \/ (p.header # 0 /\ n <= p.last)]

(* tryAdmit has let the relay in: it is one of the outputs before it is    *)
(* sent anything.                                                          *)
Register(r) ==
    /\ at(r, "new")
    /\ outputs' = outputs \cup {r}
    /\ run' = [run EXCEPT ![r].pc = "fields", ![r].reqPos = peer[r].content]
    /\ UNCHANGED <<sourceVars, old, toNotify, tokens, closed, peer>>

(* sendInitial reads info and track, and then the header.                  *)
ReadFields(r) ==
    /\ at(r, "fields")
    /\ run' = [run EXCEPT ![r].shown = [k \in Kinds |->
                              IF k \in Fields THEN version[k] ELSE 0],
                          ![r].pc = "header"]
    /\ NothingElse

sendInitial(r) ==
    /\ at(r, "header")
    /\ run' = [run EXCEPT ![r].shown["header"] = version["header"],
                          ![r].pc = "start"]
    /\ peer' = [peer EXCEPT ![r] = WithHeader(@, version["header"], headerPos)]
    /\ UNCHANGED <<sourceVars, old, sharedVars>>

(* Where to start: at the header, or where the peer asks.                  *)
Start(r) ==
    /\ at(r, "start")
    /\ run' = [run EXCEPT ![r].pos = headerPos,
                          ![r].pc = IF run[r].reqPos > 0 THEN "oldest"
                                                         ELSE "drain"]
    /\ NothingElse

(* Mutant: every relay starts with the oldest packet.                      *)
StartAt_Oldest(reqPos) == OldestPos

StartAt(reqPos) == IF reqPos >= OldestPos THEN reqPos ELSE OldestPos
StartOldest(r) ==
    /\ at(r, "oldest")
    /\ run' = [run EXCEPT ![r].pos = StartAt(run[r].reqPos), ![r].reqPos = 0,
                          ![r].pc = "drain"]
    /\ NothingElse

------------------------------------------------------------------------------
(* The stream loop.  A notification is taken out of its channel before the *)
(* value it is about is read.                                              *)
TakeToken(r, from, to) ==
    /\ at(r, from)
    /\ \E k \in Kinds :
        /\ <<r, k>> \in tokens
        /\ tokens' = tokens \ {<<r, k>>}
        /\ run' = [run EXCEPT ![r].upd = k, ![r].woken = FALSE, ![r].pc = to]
    /\ UNCHANGED <<sourceVars, old, outputs, toNotify, closed, peer>>

drainNotifications(r) ==
    \/ TakeToken(r, "drain", "updDrain")
    \/ /\ at(r, "drain")
       /\ \A k \in Kinds : <<r, k>> \notin tokens
       /\ Goto(r, "signal")
       /\ NothingElse

(* Mutant: after an update the relay waits again, with a new signal.       *)
SendUpdate_NoFetch(r) ==
    /\ run[r].pc \in {"updDrain", "updWait"}
    /\ LET k == run[r].upd IN
       /\ run' = [run EXCEPT ![r].shown[k] = version[k], ![r].upd = "header",
                             ![r].pc = IF at(r, "updWait") THEN "wait" ELSE "drain"]
       /\ peer' = IF k = "header"
                  THEN [peer EXCEPT ![r] = WithHeader(@, version[k], headerPos)]
                  ELSE peer
    /\ UNCHANGED <<sourceVars, old, sharedVars>>

(* sendInfoUpdate, sendTrackUpdate, sendHeaderUpdate.  A new header moves  *)
(* neither pos nor the keyframe gate.                                      *)
SendUpdate(r) ==
    /\ run[r].pc \in {"updDrain", "updWait"}
    /\ LET k == run[r].upd IN
       /\ run' = [run EXCEPT ![r].shown[k] = version[k], ![r].upd = "header",
                             ![r].pc = "drain"]
       /\ peer' = IF k = "header"
                  THEN [peer EXCEPT ![r] = WithHeader(@, version[k], headerPos)]
                  ELSE peer
    /\ UNCHANGED <<sourceVars, old, sharedVars>>

GetSignal(r) ==
    /\ at(r, "signal")
    /\ Goto(r, "fetch")
    /\ NothingElse

Fetch(r) ==
    /\ at(r, "fetch")
    /\ LET packets == Since(run[r].pos) IN
       run' = [run EXCEPT ![r].packets = packets,
                          ![r].woken = @ /\ packets = << >>,
                          ![r].pc = IF packets = << >> THEN "wait" ELSE "batch"]
    /\ NothingElse


(* sendDataPackets gives up on a peer whose next packet is too old.        *)
Overflow(r) == Head(run[r].packets).n <= old

CheckOverflow(r) ==
    /\ at(r, "batch")
    /\ IF Overflow(r) THEN Leave(r) ELSE Goto(r, "send")
    /\ NothingElse

(* A body goes out in chunks of at most MaxBodyLen bytes.                  *)
NumChunks(len) == (len + MaxBodyLen - 1) \div MaxBodyLen
Chunks(pkt) ==
    [i \in 1..NumChunks(pkt.len) |->
        [Pos |-> Plus(pkt.Pos, (i - 1) * MaxBodyLen),
         len |-> IF i < NumChunks(pkt.len) THEN MaxBodyLen
                 ELSE pkt.len - (i - 1) * MaxBodyLen]]

(* One turn of the loop over the packets.                                  *)
Skip(r, pkt) == run[r].waitingForKeyframe /\ ~pkt.key
After(pkt) == Plus(pkt.Pos, pkt.len)

Received(r, n, chunk) ==
    [peer EXCEPT ![r] = WithBody(@, n, chunk.Pos, chunk.len)]

Send(r) ==
    /\ at(r, "send")
    /\ LET pkt == Head(run[r].packets)
       IN  /\ run' = [run EXCEPT
                ![r].pos = After(pkt), ![r].last = pkt.n,
                ![r].waitingForKeyframe = Skip(r, pkt),
                ![r].packets = Tail(@),
                ![r].pc = IF Len(run[r].packets) = 1 THEN "drain" ELSE @]
           /\ peer' = IF Skip(r, pkt) THEN peer
                      ELSE Received(r, pkt.n, Chunks(pkt)[NumChunks(pkt.len)])
    /\ UNCHANGED <<sourceVars, old, sharedVars>>

(* The connection breaks in the middle of a body.                          *)
SendBreaks(r) ==
    /\ at(r, "send")
    /\ LET pkt == Head(run[r].packets) IN
       /\ ~Skip(r, pkt)
       /\ \E i \in 1..(NumChunks(pkt.len) - 1) :
            peer' = Received(r, pkt.n, Chunks(pkt)[i])
    /\ Leave(r)
    /\ UNCHANGED <<sourceVars, old, sharedVars>>

(* Mutants: the select lacks the signal, or the notifications.             *)
Wait_NoSignal(r) ==
    \/ at(r, "wait") /\ r \in closed /\ Leave(r) /\ NothingElse
    \/ TakeToken(r, "wait", "updWait")
Wait_NoTokens(r) ==
    \/ at(r, "wait") /\ r \in closed /\ Leave(r) /\ NothingElse
    \/ at(r, "wait") /\ run[r].woken /\ Goto(r, "drain") /\ NothingElse

(* The select of an idle relay takes any case that is ready.               *)
Wait(r) ==
    \/ at(r, "wait") /\ r \in closed /\ Leave(r) /\ NothingElse
    \/ at(r, "wait") /\ run[r].woken /\ Goto(r, "drain") /\ NothingElse
    \/ TakeToken(r, "wait", "updWait")

(* stallTimer fires: nothing was sent for five seconds.  It is reset after *)
(* every batch, so only a relay that waits sees it.                        *)
StallTimeout(r) ==
    /\ at(r, "wait")
    /\ Leave(r)
    /\ NothingElse

(* runStreaming has returned and handlePCPRelay unregisters the relay; the *)
(* connection's channels go with it.                                       *)
Remove(r) ==
    /\ at(r, "done")
    /\ outputs' = outputs \ {r}
    /\ toNotify' = [toNotify EXCEPT ![r] = [k \in Fields |-> 0]]
    /\ toTell' = [s \in Sources |-> toTell[s] \ {r}]
    /\ tokens' = {t \in tokens : t[1] # r}
    /\ closed' = closed \ {r}
    /\ run' = [run EXCEPT ![r] = Fresh("removed", @.conns)]
    /\ UNCHANGED <<version, bufferVars, unsignalled, settingHeader, old, peer>>

Reconnect(r) ==
    /\ at(r, "removed")
    /\ run[r].conns < MaxConns
    /\ run' = [run EXCEPT ![r] = Fresh("new", @.conns + 1)]
    /\ NothingElse

Run(r) ==
    \/ ReadFields(r) \/ sendInitial(r) \/ Start(r) \/ StartOldest(r)
    \/ drainNotifications(r) \/ SendUpdate(r)
    \/ GetSignal(r) \/ Fetch(r) \/ CheckOverflow(r) \/ Send(r) \/ Wait(r)
    \/ Remove(r)

Next ==
    \/ Source
    \/ \E r \in Relays :
        \/ Register(r) \/ Reconnect(r) \/ Run(r) \/ Close(r)
        \/ StallTimeout(r) \/ WriteFails(r) \/ SendBreaks(r)

Fairness ==
    /\ WF_vars(Age)
    /\ \A s \in Sources :
        /\ WF_vars(SetHeaderSnapshot(s)) /\ WF_vars(WriteSignal(s))
        /\ \A r \in Relays : WF_vars(NotifyHeader(s, r))
    /\ \A r \in Relays :
        /\ \A k \in Fields : WF_vars(Notify(r, k))
        /\ WF_vars(Run(r))

Spec == Init /\ [][Next]_vars /\ Fairness

------------------------------------------------------------------------------
SourceTypeOK ==
    /\ version \in [Kinds -> Nat]
    /\ headerPos \in Positions
    /\ window \in Seq(Packets) /\ Len(window) <= Size
    /\ reached \in Nat
    /\ written \in 0..MaxWrites /\ old \in 0..written
    /\ unsignalled \subseteq Sources /\ settingHeader \subseteq Sources
    /\ toTell \in [Sources -> SUBSET Relays]
    /\ wentBack \subseteq {"rewound", "again"}

SharedTypeOK ==
    /\ outputs \subseteq Relays /\ closed \subseteq Relays
    /\ tokens \subseteq Relays \X Kinds
    /\ toNotify \in [Relays -> [Fields -> Nat]]

LocalsOK ==
    /\ run \in [Relays -> Locals]
    /\ \A r \in Relays : run[r].pc \in {"batch", "send"} => run[r].packets # << >>
    /\ peer \in [Relays -> Peers]

TypeOK == SourceTypeOK /\ SharedTypeOK /\ LocalsOK

(* A relay that was shown an old header, info or track will be shown the   *)
(* new one: some step of the notification is still under way, however the  *)
(* change falls between the relay's registration, its first atoms, the     *)
(* copy of the outputs and the taking of an earlier token.                 *)
HasRead(r, k) ==
    \/ Streaming(r) \/ run[r].pc \in {"start", "oldest"}
    \/ k \in Fields /\ at(r, "header")

Announced(r, k) ==
    \/ <<r, k>> \in tokens
    \/ run[r].pc \in {"updDrain", "updWait"} /\ run[r].upd = k
    \/ k \in Fields /\ toNotify[r][k] > 0
    \/ k = "header" /\ \E s \in Sources : s \in settingHeader \/ r \in toTell[s]

OutdatedIsAnnounced ==
    \A r \in outputs, k \in Kinds :
        HasRead(r, k) /\ run[r].shown[k] # version[k] => Announced(r, k)

(* Well typed, and no relay is left with an old value unannounced.         *)
UpdateInv == TypeOK /\ OutdatedIsAnnounced

(* A node is given no packet again under one header, also when its         *)
(* connection breaks between two chunks of a packet and it comes back with *)
(* the position it had got to, as long as no packet lies below its header  *)
(* or below the packet before it under that header, and none reaches 2^32: *)
(* once one does, what the node asks for next may find older packets.      *)
NothingTwice ==
    \A r \in Relays : peer[r].repeated => "again" \in wentBack

(* While positions only grow, a relay that has begun takes the buffered    *)
(* packets in order and leaves none out, and when it goes to sleep with no *)
(* signal on its way it has had the newest: no wake-up is lost between     *)
(* Signal, Since and the select.                                           *)
CaughtUp(r) == window # << >> => run[r].last = Newest.n

NothingSkipped ==
    \A r \in Relays : run[r].last # 0 /\ "rewound" \notin wentBack =>
        /\ at(r, "batch") => \A i \in DOMAIN window :
                ~(run[r].last < window[i].n /\ window[i].n < Head(run[r].packets).n)
        /\ at(r, "wait") /\ ~run[r].woken /\ unsignalled = {} => CaughtUp(r)

(* A relay that stays connected gets the newest packet in the end, and     *)
(* then waits for the next one rather than being left behind.              *)
CatchesUp ==
    \A r \in Relays :
        []<>(Streaming(r) /\ run[r].last # 0 /\ "rewound" \notin wentBack => CaughtUp(r))

(* A relay that stays connected has been sent the header, info and track   *)
(* in force, whether packets keep coming or not.                           *)
GetsCurrent ==
    \A r \in Relays : []<>(Streaming(r) => run[r].shown = version)


==============================================================================
