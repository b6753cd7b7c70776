----------------------------- MODULE HTTPStream -----------------------------
(***************************************************************************)
(* A channel's content buffer with its writers and its HTTP viewers:       *)
(* internal/servent/http.go, output_base.go and the SetHeader, Write and   *)
(* CloseAll of internal/channel/channel.go.                                *)
(*                                                                         *)
(* A writer is a goroutine that receives the stream; each viewer is a      *)
(* goroutine in HTTPOutputStream.run.  They share the buffer, the list of  *)
(* outputs and each viewer's headerCh and closeCh.  A step ends where the  *)
(* code releases a lock, or reads or waits on something another goroutine  *)
(* can change.                                                             *)
(***************************************************************************)
EXTENDS ContentBuffer

CONSTANTS
    Viewers,    \* the HTTP connections
    MaxChanges  \* bound: SetHeader calls in a behaviour

ASSUME MaxChangesAssumption == MaxChanges \in Nat

VARIABLES
    wpc,       \* where each writer is inside Channel.SetHeader
    toNotify,  \* the outputs its SetHeader has copied and not yet notified
    changes,   \* SetHeader calls so far
    outputs,   \* c.outputs
    toClose,   \* the outputs CloseAll has copied and not yet closed
    headerCh,  \* the viewers with a token in headerCh, which holds one
    closed,    \* the viewers whose closeCh is closed
    run        \* per viewer: the locals of run()

channelVars == <<wpc, toNotify, changes, outputs, toClose>>
vars == <<bufferVars, channelVars, headerCh, closed, run>>

(* pc, mySig (the signal channel it holds), sent, waitingForKeyframe and   *)
(* batch (packets) are run()'s own.  The others record what has gone out:  *)
(* the header bytes last written, how many headers were written, and the   *)
(* last body with the number of headers it went out after.                 *)
Body == [n : Nat, epoch : Nat]
NoBody == [n |-> 0, epoch |-> 0]
Places == {"new", "checkData", "initSignal", "initWait", "sendHeader", "top",
           "updateTop", "updateWait", "signal", "fetch", "wait", "send",
           "done", "removed"}
Locals == [pc : Places,
           mySig : Nat, sent : Content, waitingForKeyframe : BOOLEAN,
           batch : Seq(Content),
           shown : HeaderData \cup {NoData}, epoch : Nat, last : Body]

LocalsAt(l) ==
    [pc |-> l, mySig |-> 0, sent |-> ZeroContent,
     waitingForKeyframe |-> TRUE, batch |-> << >>,
     shown |-> NoData, epoch |-> 0, last |-> NoBody]

Init ==
    /\ BufferInit
    /\ wpc = [w \in Writers |-> "idle"]
    /\ toNotify = [w \in Writers |-> {}]
    /\ changes = 0
    /\ outputs = {} /\ toClose = {} /\ headerCh = {} /\ closed = {}
    /\ run = [v \in Viewers |-> LocalsAt("new")]

------------------------------------------------------------------------------
(* The writers.  Each is one goroutine: its Write or SetHeader ends before *)
(* its next begins.  A header and a body may come at any position: the     *)
(* RTMP handler sets every header at 0 and counts its own bodies, a relay  *)
(* takes what its upstream sends.                                          *)

WriterIdle(w) == wpc[w] = "idle" /\ w \notin unsignalled

SetHeaderBegin(w, data, pos) ==
    /\ WriterIdle(w)
    /\ changes < MaxChanges
    /\ SetHeader(data, pos)
    /\ changes' = changes + 1
    /\ wpc' = [wpc EXCEPT ![w] = IF SameHeader(data, pos) THEN "idle"
                                                         ELSE "snapshot"]
    /\ UNCHANGED <<toNotify, outputs, toClose, headerCh, closed, run>>

SetHeaderSnapshot(w) ==
    /\ wpc[w] = "snapshot"
    /\ toNotify' = [toNotify EXCEPT ![w] = outputs]
    /\ wpc' = [wpc EXCEPT ![w] = IF outputs = {} THEN "idle" ELSE "notify"]
    /\ UNCHANGED <<bufferVars, changes, outputs, toClose, headerCh, closed,
                   run>>

(* NotifyHeader is a non-blocking send into a channel that holds one       *)
(* token: it leaves one there whether or not the viewer is listening.      *)
Token_Unbuffered(v) == IF run[v].pc = "wait" THEN {v} ELSE {}
Token(v) == {v}

SetHeaderNotify(w, v) ==
    /\ wpc[w] = "notify"
    /\ v \in toNotify[w]
    /\ headerCh' = headerCh \cup Token(v)
    /\ toNotify' = [toNotify EXCEPT ![w] = @ \ {v}]
    /\ wpc' = [wpc EXCEPT ![w] = IF toNotify[w] = {v} THEN "idle" ELSE "notify"]
    /\ UNCHANGED <<bufferVars, changes, outputs, toClose, closed, run>>

WriteBegin(w, pos, flags) ==
    /\ WriterIdle(w)
    /\ WriteStore(w, pos, flags)
    /\ UNCHANGED <<channelVars, headerCh, closed, run>>

WriteSignal(w) ==
    /\ notifyWrite(w)
    /\ UNCHANGED <<channelVars, headerCh, closed, run>>

Writer(w) ==
    \/ \E data \in HeaderData, pos \in Positions : SetHeaderBegin(w, data, pos)
    \/ SetHeaderSnapshot(w)
    \/ \E v \in Viewers : SetHeaderNotify(w, v)
    \/ \E pos \in Positions, flags \in Flags : WriteBegin(w, pos, flags)
    \/ WriteSignal(w)

------------------------------------------------------------------------------
(* Closing a viewer: its peer hangs up or the API closes its connection    *)
(* (Close), or the channel is stopped (CloseAll, which forgets every       *)
(* output before it closes them one by one).                               *)

Close(v) ==
    /\ run[v].pc \notin {"new", "done", "removed"}
    /\ closed' = closed \cup {v}
    /\ UNCHANGED <<bufferVars, channelVars, headerCh, run>>

CloseAllBegin ==
    /\ outputs # {} /\ toClose = {}
    /\ toClose' = outputs
    /\ outputs' = {}
    /\ UNCHANGED <<bufferVars, wpc, toNotify, changes, headerCh, closed, run>>

CloseAllClose(v) ==
    /\ v \in toClose
    /\ toClose' = toClose \ {v}
    /\ closed' = closed \cup {v}
    /\ UNCHANGED <<bufferVars, wpc, toNotify, changes, outputs, headerCh, run>>

------------------------------------------------------------------------------
(* The viewer.                                                             *)
at(v, l) == run[v].pc = l

(* A signal channel is held only until the select that waits on it, or the *)
(* fetch that makes waiting needless.                                      *)
Goto(v, l) == run' = [run EXCEPT ![v].pc = l, ![v].mySig = 0]

NothingElse == UNCHANGED <<bufferVars, channelVars, headerCh, closed>>

(* Listener.tryAdmit has let the viewer in: it is one of the outputs       *)
(* before run() starts.                                                    *)
Register(v) ==
    /\ at(v, "new")
    /\ outputs' = outputs \cup {v}
    /\ Goto(v, "checkData")
    /\ UNCHANGED <<bufferVars, wpc, toNotify, changes, toClose, headerCh,
                   closed>>

(* The wait for a first packet: HasData, then Signal, then the select.     *)
CheckData(v) ==
    /\ at(v, "checkData")
    /\ Goto(v, IF HasData THEN "sendHeader" ELSE "initSignal")
    /\ NothingElse

InitSignal(v) ==
    /\ at(v, "initSignal")
    /\ run' = [run EXCEPT ![v].mySig = sig, ![v].pc = "initWait"]
    /\ NothingElse

InitWait(v) ==
    /\ at(v, "initWait")
    /\ \/ sig # run[v].mySig /\ Goto(v, "sendHeader")
       \/ v \in closed /\ Goto(v, "done")
    /\ NothingElse

InitTimeout(v) ==
    /\ at(v, "initWait")
    /\ Goto(v, "done")
    /\ NothingElse

(* Header() and the write of what it returned; nothing is written before a *)
(* header has been set.                                                    *)
HeadersWritten(v) == run[v].epoch + (IF header = NoData THEN 0 ELSE 1)

SendHeader(v) ==
    /\ at(v, "sendHeader")
    /\ run' = [run EXCEPT ![v].shown = header, ![v].epoch = HeadersWritten(v),
                          ![v].pc = "top"]
    /\ NothingElse

(* The top of the loop services a pending header change.                   *)
Top(v) ==
    /\ at(v, "top")
    /\ headerCh' = headerCh \ {v}
    /\ Goto(v, IF v \in headerCh THEN "updateTop" ELSE "signal")
    /\ UNCHANGED <<bufferVars, channelVars, closed>>

Regated_Kept(v) == run[v].waitingForKeyframe
Regated(v) == TRUE
AfterUpdate(v) == IF at(v, "updateTop") THEN "signal" ELSE "top"

writeHeaderUpdate(v) ==
    /\ run[v].pc \in {"updateTop", "updateWait"}
    /\ run' = [run EXCEPT
                ![v].shown = header, ![v].epoch = HeadersWritten(v),
                ![v].sent = IF header = NoData THEN @ ELSE ZeroContent,
                ![v].waitingForKeyframe = IF header = NoData THEN @
                                                             ELSE Regated(v),
                ![v].pc = AfterUpdate(v)]
    /\ NothingElse

GetSignal(v) ==
    /\ at(v, "signal")
    /\ run' = [run EXCEPT ![v].mySig = sig, ![v].pc = "fetch"]
    /\ NothingElse

Fetch(v) ==
    /\ at(v, "fetch")
    /\ LET newer == PacketsAfter(run[v].sent)
       IN  run' = [run EXCEPT
                    ![v].batch = newer,
                    ![v].mySig = IF newer = << >> THEN @ ELSE 0,
                    ![v].pc = IF newer = << >> THEN "wait" ELSE "send"]
    /\ NothingElse

(* The select of an idle viewer takes any case that is ready.              *)
Wait_NoHeader(v) ==
    /\ at(v, "wait")
    /\ \/ v \in closed /\ Goto(v, "done")
       \/ sig # run[v].mySig /\ Goto(v, "top")
    /\ NothingElse
Wait(v) ==
    /\ at(v, "wait")
    /\ \/ v \in closed /\ Goto(v, "done") /\ UNCHANGED headerCh
       \/ v \in headerCh /\ Goto(v, "updateWait") /\ headerCh' = headerCh \ {v}
       \/ sig # run[v].mySig /\ Goto(v, "top") /\ UNCHANGED headerCh
    /\ UNCHANGED <<bufferVars, channelVars, closed>>

(* One turn of the loop over the fetched packets.                          *)
Skip(v, pkt) == run[v].waitingForKeyframe /\ pkt.ContFlags # 0

Send(v) ==
    /\ at(v, "send")
    /\ LET pkt == Head(run[v].batch)
           body == [n |-> pkt.Data, epoch |-> run[v].epoch]
       IN  run' = [run EXCEPT
                    ![v].sent = pkt,
                    ![v].waitingForKeyframe = Skip(v, pkt),
                    ![v].last = IF Skip(v, pkt) THEN @ ELSE body,
                    ![v].batch = Tail(@),
                    ![v].pc = IF Len(run[v].batch) = 1 THEN "top" ELSE @]
    /\ NothingElse

(* A write to the connection fails, by its deadline or because the peer is *)
(* gone, and run() returns.                                                *)
WriteFails(v) ==
    /\ run[v].pc \in {"checkData", "sendHeader", "updateTop", "updateWait",
                      "send"}
    /\ Goto(v, "done")
    /\ NothingElse

(* run() has returned, its locals are gone; handleHTTPStream unregisters   *)
(* the viewer.                                                             *)
Remove(v) ==
    /\ at(v, "done")
    /\ outputs' = outputs \ {v}
    /\ run' = [run EXCEPT ![v] = LocalsAt("removed")]
    /\ UNCHANGED <<bufferVars, wpc, toNotify, changes, toClose, headerCh,
                   closed>>

Run(v) ==
    \/ CheckData(v) \/ InitSignal(v) \/ InitWait(v) \/ SendHeader(v)
    \/ Top(v) \/ writeHeaderUpdate(v) \/ GetSignal(v) \/ Fetch(v)
    \/ Wait(v) \/ Send(v) \/ Remove(v)

StreamNext ==
    \/ \E w \in Writers : Writer(w)
    \/ CloseAllBegin
    \/ \E v \in Viewers :
        \/ Register(v) \/ Run(v) \/ InitTimeout(v) \/ WriteFails(v)
        \/ Close(v) \/ CloseAllClose(v)

(* Goroutines that can run do run: a viewer's loop, the rest of a Write, a *)
(* SetHeader or a CloseAll once begun.  Nothing makes the source send      *)
(* more, a peer hang up, a timer fire first or a write fail.               *)
Fairness ==
    /\ \A w \in Writers :
        /\ WF_vars(SetHeaderSnapshot(w))
        /\ WF_vars(WriteSignal(w))
        /\ \A v \in Viewers : WF_vars(SetHeaderNotify(w, v))
    /\ \A v \in Viewers :
        /\ WF_vars(CloseAllClose(v))
        /\ WF_vars(Run(v))

StreamSpec == Init /\ [][StreamNext]_vars /\ Fairness

------------------------------------------------------------------------------
SharedTypeOK ==
    /\ wpc \in [Writers -> {"idle", "snapshot", "notify"}]
    /\ toNotify \in [Writers -> SUBSET Viewers]
    /\ changes \in 0..MaxChanges
    /\ outputs \subseteq Viewers /\ toClose \subseteq Viewers
    /\ headerCh \subseteq Viewers
    /\ closed \subseteq Viewers

LocalsOK ==
    /\ run \in [Viewers -> Locals]
    /\ \A v \in Viewers : at(v, "send") => run[v].batch # << >>

(* Type correctness of the buffer, of what the goroutines share and of the *)
(* locals of run(); a viewer in its send loop has a packet to send.        *)
StreamTypeOK == TypeOK /\ SharedTypeOK /\ LocalsOK

Streaming(v) == run[v].pc \in {"top", "updateTop", "updateWait", "signal",
                               "fetch", "wait", "send"}

Announced(v) ==
    \/ v \in headerCh
    \/ run[v].pc \in {"updateTop", "updateWait"}
    \/ \E w \in Writers :
        \/ wpc[w] = "snapshot"
        \/ wpc[w] = "notify" /\ v \in toNotify[w]

(* A registered viewer that streams under a header the buffer no longer    *)
(* has, has been told or is about to be: the change waits in headerCh, the *)
(* viewer has taken it out and not yet read the header, or a SetHeader has *)
(* still to notify it.  No interleaving of registration, header changes    *)
(* and header service loses a header.                                      *)
StaleHeaderIsAnnounced ==
    \A v \in outputs :
        Streaming(v) /\ run[v].shown # header => Announced(v)

(* Well typed, and no viewer is left with an old header unannounced.       *)
HeaderInv == StreamTypeOK /\ StaleHeaderIsAnnounced

(* The body a viewer is about to be sent.                                  *)
NextBody(v) == Head(run[v].batch)
AboutToSend(v) == at(v, "send") /\ ~Skip(v, NextBody(v))

(* Between two header writes a viewer receives bodies in the order they    *)
(* were written, each at most once: whatever it is about to be sent was    *)
(* written after the last it was sent, also when the positions begin anew, *)
(* two sources write and the clock stands still.  Only two packets that    *)
(* tie, as those of two encoders in one tick of the clock may, can be lost *)
(* or come twice: PacketsAfter has nothing to tell them apart by.          *)
OrderedUnderHeader ==
    ~tied => \A v \in Viewers :
        AboutToSend(v) /\ run[v].last.epoch = run[v].epoch
            => run[v].last.n < NextBody(v).Data

(* The first body after every header written to a viewer is a keyframe,    *)
(* also when the header changes in the middle of a group of pictures.      *)
KeyframeAfterHeader ==
    \A v \in Viewers :
        AboutToSend(v) => \/ NextBody(v).ContFlags = 0
                          \/ /\ run[v].last # NoBody
                             /\ run[v].last.epoch = run[v].epoch

(* A viewer that stays connected always gets to the newest packet: no      *)
(* wake-up is lost between reading the buffer and sleeping on its signal,  *)
(* and none of the packets after a header change is filtered away, unless  *)
(* two tied.                                                               *)
CatchesUp ==
    \A v \in Viewers :
        []<>(Streaming(v) /\ v \in outputs /\ HasData /\ ~tied =>
                run[v].sent.Data = Window[Len(Window)].Data)

(* A viewer that stays connected always gets to the header in force, even  *)
(* when no body follows it.                                                *)
GetsCurrentHeader ==
    \A v \in Viewers : []<>(Streaming(v) /\ v \in outputs =>
                                run[v].shown = header)


==============================================================================
