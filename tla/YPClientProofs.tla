--------------------------- MODULE YPClientProofs ---------------------------
(* Theorems about the yellow-page client, for any channels and delays.     *)
EXTENDS YPClient, TLAPS

USE RetryAssumption DEF Places

LEMMA InitType == Init => TypeOK
<1> SUFFICES ASSUME Init PROVE TypeOK
  OBVIOUS
<1>1. told \in [Channels -> {"nothing", "current", "stale"}]
  BY DEF Init
<1>2. kind \in [Channels -> {"new", "relay", "broadcast"}]
  BY DEF Init
<1>3. pc \in Places /\ todo = {} /\ delay \in RetryInitial..RetryMax
  BY DEF Init
<1>4. /\ knowsIP \in BOOLEAN /\ stopCh \in BOOLEAN
      /\ bumpCh \in BOOLEAN /\ immediateCh \in BOOLEAN
      /\ readErrCh \in BOOLEAN
  BY Zenon DEF Init
<1>5. listed = {} /\ bumping = {} /\ unbumped = {}
  BY Zenon DEF Init
<1> QED BY <1>1, <1>2, <1>3, <1>4, <1>5 DEF TypeOK

(* A step in which run returns.                                            *)
LEMMA DisconnectType ==
    ASSUME TypeOK, knowsIP' \in BOOLEAN, NEW b \in BOOLEAN, Disconnect(b)
    PROVE  TypeOK'
<1>1. told' \in [Channels -> {"nothing", "current", "stale"}]
  BY DEF Disconnect
<1>2. pc' \in Places /\ todo' = {} /\ delay' \in RetryInitial..RetryMax
  BY DEF TypeOK, Disconnect
<1>3. /\ immediateCh' \in BOOLEAN /\ readErrCh' \in BOOLEAN
      /\ bumpCh' = bumpCh /\ stopCh' = stopCh
  BY Zenon DEF Disconnect
<1>4. /\ kind' = kind /\ listed' = listed
      /\ bumping' = bumping /\ unbumped' = unbumped
  BY DEF Disconnect, channels
<1> QED BY <1>1, <1>2, <1>3, <1>4 DEF TypeOK

LEMMA StepType == TypeOK /\ [Next]_vars => TypeOK'
<1> SUFFICES ASSUME TypeOK, [Next]_vars PROVE TypeOK'
  OBVIOUS
<1> USE DEF TypeOK, tokens, channels
<1>1. CASE Check
  BY <1>1 DEF Check
<1>2. CASE Poll
  BY <1>2 DEF Poll
<1>3. CASE handleOleh \/ OKWithoutIP \/ ConnectFails \/ Decide
  <2>1. CASE handleOleh \/ OKWithoutIP
    BY <2>1 DEF handleOleh, OKWithoutIP
  <2>2. CASE ConnectFails
    BY <2>2, DisconnectType DEF ConnectFails
  <2>3. CASE Decide
    BY <2>3 DEF Decide
  <2> QED BY <1>3, <2>1, <2>2, <2>3
<1>4. CASE Listing
  BY <1>4 DEF Listing, OnAir
<1>5. ASSUME NEW c \in Channels, sendBcst(c) PROVE TypeOK'
  BY <1>5 DEF sendBcst
<1>6. CASE WriteFails \/ TakeReadErr \/ SendQuit
  BY <1>6, DisconnectType DEF WriteFails, TakeReadErr, SendQuit
<1>7. CASE TakeBump \/ TakeImmediate \/ Tick \/ TakeStop
  BY <1>7 DEF TakeBump, TakeImmediate, Tick, TakeStop
<1>8. CASE Retry
  BY <1>8 DEF Retry, Doubled
<1>9. CASE End
  BY <1>9 DEF End, Selecting
<1>10. CASE RootUpdate \/ ReadFails \/ Stop
  BY <1>10 DEF RootUpdate, ReadFails, Stop
<1>11. CASE API
  <2>1. CASE bumpChannel
    BY <2>1 DEF bumpChannel, Bump, Token
  <2>2. ASSUME NEW c \in Channels, BumpAfterBroadcast(c) PROVE TypeOK'
    BY <2>2 DEF BumpAfterBroadcast, Bump, Token
  <2>3. ASSUME NEW c \in Channels,
               broadcastChannel(c) \/ AddRelayChannel(c) \/ StopChannel(c)
        PROVE  TypeOK'
    BY <2>3 DEF broadcastChannel, AddRelayChannel, StopChannel
  <2>4. ASSUME NEW c \in Channels, setChannelInfo(c) PROVE TypeOK'
    BY <2>4 DEF setChannelInfo
  <2> QED BY <1>11, <2>1, <2>2, <2>3, <2>4 DEF API
<1>12. CASE UNCHANGED vars
  BY <1>12 DEF vars
<1> QED BY <1>1, <1>2, <1>3, <1>4, <1>5, <1>6, <1>7, <1>8, <1>9, <1>10, <1>11,
           <1>12 DEF Next, Run, sendAllBcst

(* Every reachable state of the client is well typed, and its retry delay  *)
(* stays within the limits.                                                *)
THEOREM TypeCorrect == Spec => []TypeOK
BY InitType, StepType, PTL DEF Spec

(* NoBumpLost, of every channel on the air.  It is inductive: a Bump that  *)
(* comes while the client is sending leaves a token, and the token is not  *)
(* taken before the next round of announcements begins.                    *)
LEMMA StepBump == TypeOK /\ NoBumpLost /\ [Next]_vars => NoBumpLost'
<1> SUFFICES ASSUME TypeOK, NoBumpLost, [Next]_vars,
                    NEW c \in (OnAir \ unbumped)',
                    Connected', told'[c] # "current"
             PROVE  bumpCh' \/ pc' = "list" \/ c \in todo'
  BY DEF NoBumpLost
<1> USE DEF TypeOK, NoBumpLost, OnAir, Connected, tokens, channels
<1>0. c \in Channels
  BY StepType
<1>1. CASE Check \/ Poll \/ handleOleh \/ OKWithoutIP \/ ConnectFails \/ Decide
  BY <1>1 DEF Check, Poll, handleOleh, OKWithoutIP, ConnectFails, Decide,
              Disconnect
<1>2. CASE Listing
  BY <1>2 DEF Listing
<1>3. ASSUME NEW d \in Channels, sendBcst(d)
      PROVE  bumpCh' \/ pc' = "list" \/ c \in todo'
  BY <1>0, <1>3 DEF sendBcst
<1>4. CASE WriteFails \/ TakeReadErr \/ TakeStop \/ SendQuit \/ Retry \/ End
  BY <1>4 DEF WriteFails, TakeReadErr, TakeStop, SendQuit, Disconnect, Retry,
              End
<1>5. CASE TakeBump \/ TakeImmediate \/ Tick
  BY <1>5 DEF TakeBump, TakeImmediate, Tick
<1>6. CASE RootUpdate \/ ReadFails \/ Stop
  BY <1>6 DEF RootUpdate, ReadFails, Stop
<1>7. CASE API
  <2>1. CASE bumpChannel
    BY <2>1 DEF bumpChannel, Bump, Token
  <2>2. ASSUME NEW d \in Channels, BumpAfterBroadcast(d) PROVE bumpCh'
    BY <2>2 DEF BumpAfterBroadcast, Bump, Token
  <2>3. ASSUME NEW d \in Channels,
               broadcastChannel(d) \/ AddRelayChannel(d) \/ StopChannel(d)
        PROVE  bumpCh' \/ pc' = "list" \/ c \in todo'
    BY <1>0, <2>3 DEF broadcastChannel, AddRelayChannel, StopChannel
  <2>4. ASSUME NEW d \in Channels, setChannelInfo(d)
        PROVE  bumpCh' \/ pc' = "list" \/ c \in todo'
    BY <1>0, <2>4 DEF setChannelInfo
  <2> QED BY <1>7, <2>1, <2>2, <2>3, <2>4 DEF API
<1>8. CASE UNCHANGED vars
  BY <1>8 DEF vars
<1> QED BY <1>1, <1>2, <1>3, <1>4, <1>5, <1>6, <1>7, <1>8
        DEF Next, Run, sendAllBcst

(* No bump is lost, whenever it comes and however many channels there are. *)
THEOREM BumpCorrect == Spec => []NoBumpLost
<1>1. Init => NoBumpLost
  BY DEF Init, NoBumpLost, OnAir
<1> QED BY <1>1, StepBump, TypeCorrect, PTL DEF Spec

(* The client's state is consistent and no bump is lost in it.             *)
THEOREM BumpInvCorrect == Spec => []BumpInv
  BY TypeCorrect, BumpCorrect, PTL DEF BumpInv

==============================================================================
