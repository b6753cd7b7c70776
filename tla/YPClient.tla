------------------------------ MODULE YPClient ------------------------------
(***************************************************************************)
(* The yellow-page client, internal/yp/client.go, with the channels it     *)
(* announces and the API calls that bump it.                               *)
(*                                                                         *)
(* The client is one goroutine; while connected a second one reads what    *)
(* the YP says.  They meet in channels that hold one token each, as do the *)
(* API handlers and the client in bumpCh.  A channel is a new object each  *)
(* time it is started, so its life is new, listed, gone.                   *)
(***************************************************************************)
EXTENDS Naturals

CONSTANTS
    Channels,     \* channel objects
    RetryInitial, \* retryInitial
    RetryMax      \* retryMax

ASSUME RetryAssumption ==
    RetryInitial \in Nat \ {0} /\ RetryMax \in Nat /\ RetryInitial <= RetryMax

VARIABLES
    pc,       \* where Run is
    todo,     \* the channels sendAllBcst has listed and not yet sent
    delay,    \* the time to wait after the next failure
    knowsIP,  \* globalIP is known
    stopCh,   \* whether Stop has been called
    bumpCh, immediateCh, readErrCh, \* whether there is a token
    kind,     \* per channel: new, relay or broadcast
    listed,   \* the channels of the manager
    bumping,  \* the channels whose broadcastChannel has yet to call Bump
    unbumped, \* the channels that changed and no Bump has followed
    told      \* per channel: what this connection has told of it: nothing,
              \* what is current, or what has been changed since

tokens == <<bumpCh, immediateCh, readErrCh>>
channels == <<kind, listed, bumping, unbumped>>
vars == <<pc, todo, delay, knowsIP, stopCh, tokens, channels, told>>

Init ==
    /\ pc = "check" /\ todo = {} /\ delay = RetryInitial
    /\ knowsIP = FALSE /\ stopCh = FALSE
    /\ bumpCh = FALSE /\ immediateCh = FALSE /\ readErrCh = FALSE
    /\ kind = [c \in Channels |-> "new"]
    /\ listed = {}
    /\ bumping = {} /\ unbumped = {}
    /\ told = [c \in Channels |-> "nothing"]

------------------------------------------------------------------------------
(* waitForChannel: check, and when there is no reason to connect, sleep    *)
(* until a bump, a second or Stop.                                         *)

OnAir == {c \in listed : kind[c] = "broadcast"}

shouldConnect_OnAir == OnAir # {}
shouldConnect == IF knowsIP THEN OnAir # {} ELSE listed # {}

Check ==
    /\ pc = "check"
    /\ pc' = IF shouldConnect THEN "connect" ELSE "poll"
    /\ UNCHANGED <<todo, delay, knowsIP, stopCh, tokens, channels, told>>

Poll ==
    /\ pc = "poll"
    /\ pc' = "check"
    /\ bumpCh' \in {bumpCh, FALSE}
    /\ UNCHANGED <<todo, delay, knowsIP, stopCh, immediateCh, readErrCh,
                   channels, told>>

------------------------------------------------------------------------------
(* run: dial, helo, oleh and ok; then a connection with nothing to         *)
(* announce is given up, having served to learn the address.               *)

(* run returns to Run, and its locals are gone.                            *)
Disconnect(connected) ==
    /\ pc' = "backoff"
    /\ todo' = {}
    /\ delay' = IF connected THEN RetryInitial ELSE delay
    /\ immediateCh' = FALSE /\ readErrCh' = FALSE
    /\ told' = [c \in Channels |-> "nothing"]
    /\ UNCHANGED <<stopCh, bumpCh, channels>>

(* The ok has come; an oleh before it has told the address, or has not.    *)
(* An attempt that fails may have got as far as the oleh.                  *)
handleOleh ==
    /\ pc = "connect"
    /\ pc' = "decide"
    /\ knowsIP' = TRUE
    /\ UNCHANGED <<todo, delay, stopCh, tokens, channels, told>>

OKWithoutIP ==
    /\ pc = "connect"
    /\ pc' = "decide"
    /\ UNCHANGED <<todo, delay, knowsIP, stopCh, tokens, channels, told>>

ConnectFails ==
    /\ pc = "connect"
    /\ knowsIP' \in {knowsIP, TRUE}
    /\ Disconnect(FALSE)

Decide ==
    /\ pc = "decide"
    /\ pc' = IF OnAir = {} THEN "quit" ELSE "list"
    /\ UNCHANGED <<todo, delay, knowsIP, stopCh, tokens, channels, told>>

(* The goodbye of a client that only relays or is stopped: run returns     *)
(* when the quit is written, and does not look at whether that failed.     *)
SendQuit ==
    /\ pc = "quit"
    /\ Disconnect(TRUE)
    /\ UNCHANGED knowsIP

Connected == pc \in {"list", "send", "loop"}

(* sendAllBcst lists the channels and sends one bcst after the other, each *)
(* with what is then to be said of the channel.                            *)
Listing ==
    /\ pc = "list"
    /\ todo' = OnAir
    /\ pc' = IF OnAir = {} THEN "loop" ELSE "send"
    /\ UNCHANGED <<delay, knowsIP, stopCh, tokens, channels, told>>

sendBcst(c) ==
    /\ pc = "send" /\ c \in todo
    /\ told' = [told EXCEPT ![c] = "current"]
    /\ todo' = todo \ {c}
    /\ pc' = IF todo = {c} THEN "loop" ELSE "send"
    /\ UNCHANGED <<delay, knowsIP, stopCh, tokens, channels>>

WriteFails ==
    /\ pc = "send"
    /\ Disconnect(TRUE)
    /\ UNCHANGED knowsIP

(* The select of the connected client.                                     *)
TakeBump_Never == FALSE
TakeBump ==
    /\ pc = "loop" /\ bumpCh
    /\ bumpCh' = FALSE
    /\ pc' = "list"
    /\ UNCHANGED <<todo, delay, knowsIP, stopCh, immediateCh, readErrCh,
                   channels, told>>

TakeImmediate ==
    /\ pc = "loop" /\ immediateCh
    /\ immediateCh' = FALSE
    /\ pc' = "list"
    /\ UNCHANGED <<todo, delay, knowsIP, stopCh, bumpCh, readErrCh, channels,
                   told>>

Tick ==
    /\ pc = "loop"
    /\ pc' = "list"
    /\ UNCHANGED <<todo, delay, knowsIP, stopCh, tokens, channels, told>>

TakeReadErr ==
    /\ pc = "loop" /\ readErrCh
    /\ Disconnect(TRUE)
    /\ UNCHANGED knowsIP

TakeStop ==
    /\ pc = "loop" /\ stopCh
    /\ pc' = "quit"
    /\ UNCHANGED <<todo, delay, knowsIP, stopCh, tokens, channels, told>>

(* The reader: a root atom that asks for an update; a quit or an error.    *)
(* What comes while the client is sending is looked at in the loop.        *)
RootUpdate ==
    /\ pc = "loop" /\ ~readErrCh
    /\ immediateCh' = TRUE
    /\ UNCHANGED <<pc, todo, delay, knowsIP, stopCh, bumpCh, readErrCh,
                   channels, told>>

ReadFails ==
    /\ pc = "loop"
    /\ readErrCh' = TRUE
    /\ UNCHANGED <<pc, todo, delay, knowsIP, stopCh, bumpCh, immediateCh,
                   channels, told>>

------------------------------------------------------------------------------
(* The wait before the next attempt, and the end.                          *)
Doubled == IF 2 * delay > RetryMax THEN RetryMax ELSE 2 * delay

Retry ==
    /\ pc = "backoff"
    /\ pc' = "check"
    /\ delay' = Doubled
    /\ UNCHANGED <<todo, knowsIP, stopCh, tokens, channels, told>>

(* Run returns when it finds stopCh closed where it waits offline.         *)
Selecting_Poll == pc = "poll"
Selecting == pc \in {"poll", "backoff"}

End ==
    /\ stopCh /\ Selecting
    /\ pc' = "done"
    /\ UNCHANGED <<todo, delay, knowsIP, stopCh, tokens, channels, told>>

(* Stop closes stopCh, and no connection.  Its caller waits for the end    *)
(* three seconds at most.                                                  *)
Stop ==
    /\ ~stopCh
    /\ stopCh' = TRUE
    /\ UNCHANGED <<pc, todo, delay, knowsIP, tokens, channels, told>>

------------------------------------------------------------------------------
(* The channels and the API.  Bump never blocks: it leaves a token, unless *)
(* there is one.                                                           *)
Token_Unbuffered == bumpCh \/ Selecting \/ pc = "loop"
Token == TRUE

Bump ==
    /\ bumpCh' = Token
    /\ unbumped' = {}
    /\ UNCHANGED <<pc, todo, delay, knowsIP, stopCh, immediateCh, readErrCh,
                   kind, listed, told>>

broadcastChannel(c) ==
    /\ kind[c] = "new"
    /\ kind' = [kind EXCEPT ![c] = "broadcast"]
    /\ listed' = listed \cup {c}
    /\ bumping' = bumping \cup {c}
    /\ unbumped' = unbumped \cup {c}
    /\ UNCHANGED <<pc, todo, delay, knowsIP, stopCh, tokens, told>>

BumpAfterBroadcast(c) ==
    /\ c \in bumping
    /\ bumping' = bumping \ {c}
    /\ Bump

bumpChannel ==
    /\ listed # {}
    /\ UNCHANGED bumping
    /\ Bump

setChannelInfo(c) ==
    /\ c \in listed
    /\ told' = [told EXCEPT ![c] = IF @ = "current" THEN "stale" ELSE @]
    /\ unbumped' = unbumped \cup {c}
    /\ UNCHANGED <<pc, todo, delay, knowsIP, stopCh, tokens, kind, listed,
                   bumping>>

AddRelayChannel(c) ==
    /\ kind[c] = "new"
    /\ kind' = [kind EXCEPT ![c] = "relay"]
    /\ listed' = listed \cup {c}
    /\ UNCHANGED <<pc, todo, delay, knowsIP, stopCh, tokens, bumping,
                   unbumped, told>>

StopChannel(c) ==
    /\ c \in listed
    /\ listed' = listed \ {c}
    /\ unbumped' = unbumped \ {c}
    /\ UNCHANGED <<pc, todo, delay, knowsIP, stopCh, tokens, kind, bumping, told>>

------------------------------------------------------------------------------
sendAllBcst == Listing \/ \E c \in Channels : sendBcst(c)

Run ==
    \/ Check \/ Poll \/ handleOleh \/ OKWithoutIP \/ ConnectFails
    \/ Decide \/ sendAllBcst \/ WriteFails
    \/ TakeBump \/ TakeImmediate \/ Tick \/ TakeReadErr \/ TakeStop
    \/ SendQuit \/ Retry \/ End

API ==
    \/ bumpChannel
    \/ \E c \in Channels :
        \/ broadcastChannel(c) \/ BumpAfterBroadcast(c) \/ setChannelInfo(c)
        \/ AddRelayChannel(c) \/ StopChannel(c)

Next == Run \/ API \/ RootUpdate \/ ReadFails \/ Stop

(* The client's own steps: a goroutine that can run does, and a select     *)
(* among cases that are ready time and again takes each of them in the     *)
(* end.  Nothing is assumed of the ticker, nor of the YP: the handshake    *)
(* and the writes have no deadline and do not look at stopCh, so a YP that *)
(* neither reads nor writes holds the client up for as long as it likes.   *)
Fairness ==
    /\ WF_vars(Check \/ Poll \/ Decide \/ Listing \/ Retry)
    /\ SF_vars(TakeBump) /\ SF_vars(TakeReadErr)
    /\ SF_vars(TakeStop) /\ SF_vars(End)

Spec == Init /\ [][Next]_vars /\ Fairness

------------------------------------------------------------------------------
Places == {"check", "poll", "connect", "decide", "list", "send",
           "loop", "quit", "backoff", "done"}

(* Type correctness; the retry delay stays within its limits, and only a   *)
(* client that is sending has channels left to send.                       *)
TypeOK ==
    /\ pc \in Places
    /\ todo \subseteq Channels /\ (todo # {} => pc = "send")
    /\ delay \in RetryInitial..RetryMax
    /\ knowsIP \in BOOLEAN /\ stopCh \in BOOLEAN
    /\ bumpCh \in BOOLEAN /\ immediateCh \in BOOLEAN /\ readErrCh \in BOOLEAN
    /\ kind \in [Channels -> {"new", "relay", "broadcast"}]
    /\ listed \subseteq Channels
    /\ bumping \subseteq Channels /\ unbumped \subseteq Channels
    /\ told \in [Channels -> {"nothing", "current", "stale"}]

(* A bump is never lost (Bump): while connected, a channel of which the YP *)
(* knows less than what was bumped is about to be sent, or a token waits,  *)
(* also when it changed or began while the announcements were going out.   *)
NoBumpLost ==
    \A c \in OnAir \ unbumped :
        Connected /\ told[c] # "current" =>
            bumpCh \/ pc = "list" \/ c \in todo

(* The client's state is consistent, and no bump is lost in it.            *)
BumpInv == TypeOK /\ NoBumpLost

(* The YP keeps the client waiting for ever, in the handshake or in a      *)
(* write.                                                                  *)
HeldUp == <>[](pc \in {"connect", "send", "quit"})

(* While the connection lasts, and unless the YP stops reading from it, a  *)
(* bump reaches the YP without waiting for the ticker                      *)
(* (docs/api/jsonrpc.md, bumpChannel; broadcastChannel).                   *)
BumpReachesYP ==
    \/ HeldUp
    \/ \A c \in Channels :
           []<>(Connected /\ c \in OnAir \ unbumped => told[c] = "current")

(* A YP that serves: it reads what is sent, names the address in one of    *)
(* many attempts, and closes a connection in which nothing is announced    *)
(* (the comment on Run).                                                   *)
YPServes ==
    /\ WF_vars(SendQuit \/ \E c \in Channels : sendBcst(c))
    /\ SF_vars(handleOleh)
    /\ SF_vars(OnAir = {} /\ ReadFails)

(* A node that only relays learns its address too (the comment on Run),    *)
(* from a YP that serves.                                                  *)
LearnsIP ==
    YPServes => []<>(listed # {} /\ OnAir = {} => knowsIP \/ stopCh)

(* A client that is stopped ends, whatever it is doing and however often   *)
(* its attempts fail, unless the YP holds it up for ever: it is not Stop   *)
(* that gets it out of a handshake or a write.                             *)
StopEnds == HeldUp \/ (stopCh ~> pc = "done")

==============================================================================
