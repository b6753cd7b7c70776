---------------------------- MODULE StreamKeyProofs ----------------------------
(***************************************************************************)
(* Proofs about stream keys and about the encoders that publish with them, *)
(* which are two specifications without a common variable: the key store   *)
(* of StreamKeyStore, for any sets of accounts, keys and handlers, and the *)
(* callbacks of RTMPIngest, for any sets of encoders and channel IDs, any  *)
(* number of broadcasts and tags, and any width of the position.           *)
(***************************************************************************)
EXTENDS StreamKeyStore, RTMPIngest, TLAPS

------------------------------------------------------------------------------
(* The key store.  Its last part is about requests that do not overlap.    *)


(* Changing one account of a table gives a table.                          *)
LEMMA TableChange ==
    ASSUME NEW t \in Tables, NEW a \in Accounts, NEW k \in Keys \cup {NoKey}
    PROVE  [t EXCEPT ![a] = k] \in Tables
  BY DEF Tables

LEMMA EmptyIsTable == Empty \in Tables
  BY DEF Empty, Tables

(* What a restart loads is a table, whatever the file holds.               *)
LEMMA LoadedIsTable ==
    ASSUME NEW file \in Files PROVE Loaded(file) \in Tables
  BY EmptyIsTable DEF Loaded, Files

(* The reverse index stays an index when an account's key leaves it.       *)
LEMMA IndexWithout ==
    ASSUME TypeOK, NEW a \in Accounts
    PROVE  WithoutKeyOf(a) \in [Keys -> Accounts \cup {NoAccount}]
  BY DEF WithoutKeyOf, TypeOK

------------------------------------------------------------------------------
(* Every state of the store is well typed.                                 *)
THEOREM TypeCorrect == Spec => []TypeOK
<1>1. Init => TypeOK
  <2>1. Idle \in Locals /\ Idle.pc = "idle" /\ Idle.fd = "none"
    BY EmptyIsTable DEF Idle, Locals, Places, Fds
  <2> QED BY <2>1, EmptyIsTable DEF Init, TypeOK, Files, at
<1>2. ASSUME TypeOK, [Next]_vars PROVE TypeOK'
  <2> USE <1>2
  <2>1. CASE Restart
    <3>1. Loaded(cache) \in Tables
      BY LoadedIsTable DEF TypeOK
    <3> QED
      BY <2>1, <3>1, EmptyIsTable
      DEF Restart, TypeOK, Locals, Places, Fds, Idle, at
  <2>2. ASSUME NEW h \in Handlers, Handle(h) PROVE TypeOK'
    <3>1. CASE \E a \in Accounts, k \in Keys : IssueStreamKey(h, a, k)
      <4> PICK a \in Accounts, k \in Keys : IssueStreamKey(h, a, k)
        BY <3>1
      <4>1. accounts' \in Tables
        BY TableChange DEF IssueStreamKey, TypeOK
      <4>2. streamKeys' \in [Keys -> Accounts \cup {NoAccount}]
        BY IndexWithout DEF IssueStreamKey
      <4>3. /\ save' \in [Handlers -> Locals]
            /\ \A g \in Handlers : at(g, "write")' <=> save'[g].fd # "none"
        BY DEF IssueStreamKey, TypeOK, Locals, Places, at
      <4> QED BY <4>1, <4>2, <4>3 DEF IssueStreamKey, Begins, TypeOK
    <3>2. CASE \E a \in Accounts : RevokeStreamKey(h, a)
      <4> PICK a \in Accounts : RevokeStreamKey(h, a)
        BY <3>2
      <4>1. accounts' \in Tables
        BY TableChange DEF RevokeStreamKey, TypeOK
      <4>2. streamKeys' \in [Keys -> Accounts \cup {NoAccount}]
        BY IndexWithout DEF RevokeStreamKey
      <4>3. /\ save' \in [Handlers -> Locals]
            /\ \A g \in Handlers : at(g, "write")' <=> save'[g].fd # "none"
        BY DEF RevokeStreamKey, AfterRevoke, TypeOK, Locals, Places, at
      <4> QED BY <4>1, <4>2, <4>3 DEF RevokeStreamKey, Begins, TypeOK
    <3>3. CASE Snapshot(h)
      BY <3>3 DEF Snapshot, TypeOK, Locals, Places, at
    <3>4. CASE Open(h)
      BY <3>4 DEF Open, TypeOK, Locals, Places, Fds, Files, at
    <3>5. CASE Write(h)
      <4>1. cache' \in Files /\ tmp' \in Files
        BY <3>5 DEF Write, WriteTo, Overwritten, TypeOK, Locals, Files
      <4>2. /\ save' \in [Handlers -> Locals]
            /\ \A g \in Handlers : at(g, "write")' <=> save'[g].fd # "none"
        BY <3>5, EmptyIsTable
        DEF Write, AfterWrite, TypeOK, Locals, Places, Fds, at
      <4> QED BY <3>5, <4>1, <4>2 DEF Write, TypeOK
    <3>6. CASE Rename(h)
      <4>1. Idle \in Locals
        BY EmptyIsTable DEF Idle, Locals, Places, Fds
      <4>2. ASSUME NEW g \in Handlers
            PROVE  /\ save'[g] \in Locals
                   /\ save'[g].pc = "write" <=> save'[g].fd # "none"
        <5>1. save[g] \in Locals /\ (save[g].pc = "write" <=> save[g].fd # "none")
          BY DEF TypeOK, at
        <5>2. CASE g = h
          BY <3>6, <5>2, <4>1 DEF Rename, Idle
        <5>3. CASE g # h
          <6>1. save'[g] = [save[g] EXCEPT !.fd = FdAfterRename(@)]
            BY <3>6, <5>3 DEF Rename
          <6>2. /\ FdAfterRename(save[g].fd) \in Fds
                /\ FdAfterRename(save[g].fd) # "none" <=> save[g].fd # "none"
            BY <5>1 DEF FdAfterRename, Fds, Locals
          <6> QED BY <5>1, <6>1, <6>2 DEF Locals
        <5> QED BY <5>2, <5>3
      <4>3. save' \in [Handlers -> Locals]
        BY <3>6, <4>2 DEF Rename
      <4> QED BY <3>6, <4>2, <4>3 DEF Rename, TypeOK, Files, at
    <3>7. CASE SaveFails(h)
      <4>1. cache' \in Files /\ tmp' \in Files
        BY <3>7 DEF SaveFails, WriteTo, TypeOK, Files
      <4>2. /\ save' \in [Handlers -> Locals]
            /\ \A g \in Handlers : at(g, "write")' <=> save'[g].fd # "none"
        BY <3>7, EmptyIsTable
        DEF SaveFails, TypeOK, Locals, Places, Fds, Idle, at
      <4> QED BY <3>7, <4>1, <4>2 DEF SaveFails, TypeOK
    <3> QED
      BY <2>2, <3>1, <3>2, <3>3, <3>4, <3>5, <3>6, <3>7 DEF Handle
  <2>3. CASE UNCHANGED vars
    BY <2>3 DEF vars, TypeOK, at
  <2> QED BY <2>1, <2>2, <2>3 DEF Next
<1> QED BY <1>1, <1>2, PTL DEF Spec

------------------------------------------------------------------------------
(* No key is accepted that its account does not hold at present, however   *)
(* many requests issue, share, replace and revoke keys at once and         *)
(* whenever the process restarts.                                          *)
THEOREM AcceptedCorrect == Spec => []AcceptedKeyIsHeld
<1>1. Init => AcceptedKeyIsHeld
  BY DEF Init, AcceptedKeyIsHeld, IsIssuedKey
<1>2. ASSUME TypeOK, AcceptedKeyIsHeld, [Next]_vars PROVE AcceptedKeyIsHeld'
  <2> USE <1>2
  <2> SUFFICES ASSUME NEW k \in Keys, streamKeys'[k] # NoAccount
               PROVE  accounts'[streamKeys'[k]] = k
    BY DEF AcceptedKeyIsHeld, IsIssuedKey
  <2>1. CASE Restart
    BY <2>1 DEF Restart, HoldersOf
  <2>2. ASSUME NEW h \in Handlers, NEW a \in Accounts, NEW l \in Keys,
               IssueStreamKey(h, a, l)
        PROVE  accounts'[streamKeys'[k]] = k
    <3>1. accounts' = [accounts EXCEPT ![a] = l] /\ accounts \in Tables
      BY <2>2 DEF IssueStreamKey, TypeOK
    <3>2. CASE k = l
      <4>1. streamKeys'[k] = a
        BY <2>2, <3>2, IndexWithout DEF IssueStreamKey
      <4> QED BY <3>1, <3>2, <4>1 DEF Tables
    <3>3. CASE k # l
      <4>1. streamKeys'[k] = WithoutKeyOf(a)[k]
        BY <2>2, <3>3, IndexWithout DEF IssueStreamKey
      <4>2. k # accounts[a] /\ streamKeys'[k] = streamKeys[k]
        BY <4>1 DEF WithoutKeyOf
      <4>3. streamKeys[k] \in Accounts /\ accounts[streamKeys[k]] = k
        BY <4>2 DEF AcceptedKeyIsHeld, IsIssuedKey, TypeOK
      <4> QED BY <3>1, <4>2, <4>3 DEF Tables
    <3> QED BY <3>2, <3>3
  <2>3. ASSUME NEW h \in Handlers, NEW a \in Accounts, RevokeStreamKey(h, a)
        PROVE  accounts'[streamKeys'[k]] = k
    <3>1. /\ accounts' = [accounts EXCEPT ![a] = NoKey]
          /\ accounts \in Tables
          /\ streamKeys' = WithoutKeyOf(a)
      BY <2>3 DEF RevokeStreamKey, TypeOK
    <3>2. k # accounts[a] /\ streamKeys'[k] = streamKeys[k]
      BY <3>1 DEF WithoutKeyOf
    <3>3. streamKeys[k] \in Accounts /\ accounts[streamKeys[k]] = k
      BY <3>2 DEF AcceptedKeyIsHeld, IsIssuedKey, TypeOK
    <3> QED BY <3>1, <3>2, <3>3 DEF Tables
  <2>4. CASE \E h \in Handlers : Snapshot(h) \/ Open(h) \/ Write(h)
                                   \/ Rename(h) \/ SaveFails(h)
    BY <2>4
    DEF Snapshot, Open, Write, Rename, SaveFails, AcceptedKeyIsHeld, IsIssuedKey
  <2>5. CASE UNCHANGED vars
    BY <2>5 DEF vars, AcceptedKeyIsHeld, IsIssuedKey
  <2> QED BY <2>1, <2>2, <2>3, <2>4, <2>5 DEF Next, Handle
<1> QED BY <1>1, <1>2, TypeCorrect, PTL DEF Spec

------------------------------------------------------------------------------
(* What a single save relies on: nobody changes the accounts behind its    *)
(* snapshot and nobody else has the temporary file.  Between saves the     *)
(* file holds the accounts, unless the last save failed.                   *)
OneSave ==
    \A h \in Handlers :
        /\ ~at(h, "idle") => \A g \in Handlers : at(g, "idle") \/ g = h
        /\ save[h].pc \in {"open", "write"} => save[h].data = accounts
        /\ at(h, "write") => save[h].fd = "tmp" /\ tmp = Truncated
        /\ at(h, "rename") => tmp = accounts

SavesAlone == SavedWhenIdle /\ (alone => OneSave)

LEMMA SavesAloneInit == Init => SavesAlone
  BY MarkersAssumption
  DEF Init, SavesAlone, OneSave, SavedWhenIdle, Loaded, at, Idle

(* A table is no marker: it loads as itself.                               *)
LEMMA TableLoads ==
    ASSUME NEW t \in Tables
    PROVE  t \notin {NoFile, Truncated, Garbled} /\ Loaded(t) = t
  BY MarkersAssumption DEF Loaded

LEMMA SavesAloneStep ==
    ASSUME TypeOK, SavesAlone, [Next]_vars
    PROVE  SavesAlone'
<1>1. CASE Restart
  <2>1. CASE cache \in Tables
    BY <1>1, <2>1, TableLoads DEF Restart, SavesAlone, OneSave, SavedWhenIdle, Idle, at
  <2>2. CASE cache \in {NoFile, Truncated, Garbled}
    <3>1. Loaded(cache)' = accounts'
      BY <1>1, <2>2 DEF Restart, Loaded
    <3> QED
      BY <1>1, <3>1 DEF Restart, SavesAlone, OneSave, SavedWhenIdle, Idle, at
  <2> QED BY <2>1, <2>2 DEF TypeOK, Files
<1>2. ASSUME NEW h \in Handlers, Handle(h) PROVE SavesAlone'
  <2> DEFINE l == save[h]
  <2>0. SUFFICES ASSUME alone' PROVE SavesAlone'
    BY DEF SavesAlone, SavedWhenIdle
  <2>1. save \in [Handlers -> Locals] /\ l \in Locals
    BY DEF TypeOK
  <2>2. CASE \/ \E a \in Accounts, k \in Keys : IssueStreamKey(h, a, k)
             \/ \E a \in Accounts : RevokeStreamKey(h, a)
    <3>1. /\ save' = [save EXCEPT ![h].pc = "snapshot"] /\ cache' = cache
          /\ \A g \in Handlers : at(g, "idle")
      BY <2>2, <2>0 DEF IssueStreamKey, RevokeStreamKey, AfterRevoke, Begins
    <3>2. /\ save'[h].pc = "snapshot"
          /\ \A g \in Handlers \ {h} : save'[g].pc = "idle"
      BY <3>1, <2>1 DEF Locals, at
    <3> QED
      BY <3>1, <3>2 DEF SavesAlone, OneSave, SavedWhenIdle, at
  <2>3. CASE alone /\ OneSave /\ accounts' = accounts /\ ~at(h, "idle")
             /\ (Snapshot(h) \/ Open(h) \/ Write(h) \/ Rename(h) \/ SaveFails(h))
    <3>1. \A g \in Handlers \ {h} : save[g].pc = "idle"
      BY <2>3 DEF OneSave, at
    <3>2. CASE Snapshot(h)
      <4>1. /\ save'[h].pc = "open" /\ save'[h].data = accounts
            /\ \A g \in Handlers \ {h} : save'[g].pc = "idle"
        BY <2>1, <3>1, <3>2 DEF Snapshot, Locals
      <4> QED
        BY <2>3, <3>2, <4>1 DEF Snapshot, SavesAlone, OneSave, SavedWhenIdle, at
    <3>3. CASE Open(h)
      <4>1. /\ save'[h].pc = "write" /\ save'[h].fd = "tmp"
            /\ save'[h].data = l.data /\ l.pc = "open"
            /\ \A g \in Handlers \ {h} : save'[g].pc = "idle"
        BY <2>1, <3>1, <3>3 DEF Open, Locals, at
      <4> QED
        BY <2>3, <3>3, <4>1 DEF Open, SavesAlone, OneSave, SavedWhenIdle, at
    <3>4. CASE Write(h)
      <4>1. /\ save'[h].pc = "rename"
            /\ \A g \in Handlers \ {h} : save'[g].pc = "idle"
        BY <2>1, <3>1, <3>4 DEF Write, Locals
      <4>2. tmp' = accounts /\ cache' = cache
        BY <2>3, <3>4 DEF Write, WriteTo, Overwritten, OneSave, at
      <4> QED
        BY <2>3, <4>1, <4>2 DEF SavesAlone, OneSave, SavedWhenIdle, at
    <3>5. CASE Rename(h)
      <4>1. \A g \in Handlers : save'[g].pc = "idle"
        <5>1. save'[h].pc = "idle"
          BY <3>5 DEF Rename, Idle
        <5>2. ASSUME NEW g \in Handlers \ {h} PROVE save'[g].pc = "idle"
          <6>1. save'[g] = [save[g] EXCEPT !.fd = FdAfterRename(@)]
            BY <3>5 DEF Rename
          <6> QED BY <2>1, <3>1, <6>1 DEF Locals
        <5> QED BY <5>1, <5>2
      <4>2. /\ cache' = accounts /\ Loaded(accounts) = accounts
        BY <2>3, <3>5, TableLoads DEF Rename, OneSave, at, TypeOK
      <4>3. Loaded(cache)' = Loaded(accounts)
        BY <4>2 DEF Loaded
      <4> QED
        BY <2>3, <4>1, <4>2, <4>3 DEF SavesAlone, OneSave, SavedWhenIdle, at
    <3>6. CASE SaveFails(h)
      <4>1. failed' /\ \A g \in Handlers : save'[g].pc = "idle"
        BY <2>1, <3>1, <3>6 DEF SaveFails, Idle
      <4> QED
        BY <4>1 DEF SavesAlone, OneSave, SavedWhenIdle, at
    <3> QED BY <2>3, <3>2, <3>3, <3>4, <3>5, <3>6
  <2>4. (Snapshot(h) \/ Open(h) \/ Write(h) \/ Rename(h) \/ SaveFails(h))
          => alone /\ OneSave /\ accounts' = accounts /\ ~at(h, "idle")
    BY <2>0 DEF SavesAlone, Snapshot, Open, Write, Rename, SaveFails, at
  <2> QED BY <1>2, <2>2, <2>3, <2>4 DEF Handle
<1>3. CASE UNCHANGED vars
  BY <1>3 DEF vars, SavesAlone, OneSave, SavedWhenIdle, Loaded, at
<1> QED BY <1>1, <1>2, <1>3 DEF Next

(* Unless requests have overlapped, an answered request outlives the       *)
(* process or its save failed, and failed says so.                         *)
THEOREM SavedCorrect == Spec => []SavedWhenIdle
<1>1. SavesAlone => SavedWhenIdle
  BY DEF SavesAlone
<1>2. TypeOK /\ SavesAlone /\ [Next]_vars => SavesAlone'
  BY SavesAloneStep
<1> QED BY <1>1, <1>2, SavesAloneInit, TypeCorrect, PTL DEF Spec

(* As long as requests come one after the other the store implements the   *)
(* ledger: the file is replaced only by a whole table that is in force at  *)
(* that moment, and a restart brings back what was stored.                 *)
THEOREM LedgerCorrect == Spec => ImplementsLedger
<1>1. Init => Ledger!Init
  BY DEF Init, Ledger!Init, Ledger!Empty, Empty, Loaded
<1>2. ASSUME TypeOK, SavesAlone, [Next]_vars
      PROVE  [alone' => Ledger!Next]_<<accounts, Loaded(cache)>>
  <2> USE <1>2
  <2> SUFFICES ASSUME alone'
               PROVE  [Ledger!Next]_<<accounts, Loaded(cache)>>
    OBVIOUS
  <2>1. CASE Restart
    BY <2>1 DEF Restart, Ledger!Next, Ledger!Restart, Loaded
  <2>2. ASSUME NEW h \in Handlers, NEW a \in Accounts, NEW k \in Keys,
               IssueStreamKey(h, a, k)
        PROVE  Ledger!Next
    BY <2>2 DEF IssueStreamKey, Ledger!Next, Ledger!Change, Loaded
  <2>3. ASSUME NEW h \in Handlers, NEW a \in Accounts, RevokeStreamKey(h, a)
        PROVE  Ledger!Next
    BY <2>3 DEF RevokeStreamKey, Ledger!Next, Ledger!Change, Loaded
  <2>4. ASSUME NEW h \in Handlers, Rename(h) PROVE Ledger!Next
    <3>1. cache' = accounts /\ accounts' = accounts
      BY <2>4 DEF Rename, SavesAlone, OneSave, at
    <3>2. Loaded(cache)' = accounts
      BY <3>1, TableLoads DEF TypeOK, Loaded
    <3> QED BY <3>1, <3>2 DEF Ledger!Next, Ledger!Store
  <2>5. ASSUME NEW h \in Handlers,
               Snapshot(h) \/ Open(h) \/ Write(h) \/ SaveFails(h)
        PROVE  UNCHANGED <<accounts, Loaded(cache)>>
    <3>1. cache' = cache /\ accounts' = accounts
      BY <2>5
      DEF Snapshot, Open, Write, SaveFails, WriteTo, SavesAlone, OneSave, at
    <3> QED BY <3>1 DEF Loaded
  <2>6. CASE UNCHANGED vars
    BY <2>6 DEF vars, Loaded
  <2> QED BY <2>1, <2>2, <2>3, <2>4, <2>5, <2>6 DEF Next, Handle
<1>3. TypeOK /\ SavesAlone /\ [Next]_vars => SavesAlone'
  BY SavesAloneStep
<1>4. Spec => [](TypeOK /\ SavesAlone)
  BY <1>3, SavesAloneInit, TypeCorrect, PTL DEF Spec
<1> QED BY <1>1, <1>2, <1>4, PTL DEF Spec, ImplementsLedger

(* The store is consistent, however requests interleave.                   *)
THEOREM StoreCorrect == Spec => []StoreInv
  BY TypeCorrect, AcceptedCorrect, PTL DEF StoreInv

------------------------------------------------------------------------------
(* The encoders.                                                           *)

(* The handlers that take part; a connection that ends does no more.       *)
HandlerOpen == {"idle", "apply", "info", "deliver", "send"}

(* Of one handler: it is in no callback while it is idle, it hands over    *)
(* nothing before its first sequence header, and it published on a channel *)
(* there has been.                                                         *)
Begun(h) ==
    /\ h.pc = "idle" => h.op = "none"
    /\ h.pc = "new" => h.op = "none" /\ ~Rebuilds(h)
    /\ h.op \in {"header", "body"} => Rebuilds(h)
    /\ h.first <= made

(* Of a handler and the channel on the air: it has handed nothing to it    *)
(* while it knows an earlier one, what it set is of its latest tags but in *)
(* the callback that changes them, and it has written up to its position.  *)
Feeds(e, h) ==
    current # 0 =>
      LET c == chan[current] IN
      /\ h.pc = "new" => e \notin c.setBy \cup c.wroteBy
      /\ h.pc = "send" /\ h.ch # current => e \notin c.setBy \cup c.wroteBy
      /\ h.pc \in HandlerOpen /\ e \in c.setBy =>
            Rebuilds(h) /\ (h.op \in {"none", "body"} => c.header = h.tags)
      /\ h.pc \in HandlerOpen /\ e \in c.wroteBy => c.end = h.streamPos

(* Of a handler and the channel on which it published: when it has its     *)
(* first sequence header and has gone on, the channel has a header, or is  *)
(* off the air for good and not what a lookup has found.                   *)
Headed(h) ==
    h.first # 0 /\ h.pc \in HandlerOpen =>
      /\ Rebuilds(h) /\ h.op # "header" =>
            \/ chan[h.first].header # NoTags
            \/ current # h.first /\ ~(h.pc = "send" /\ h.ch = h.first)
      /\ h.pc = "send" /\ h.ch # h.first => current # h.first

Handled(e) == Begun(enc[e]) /\ Feeds(e, enc[e]) /\ Headed(enc[e])

FeedInv == IngestTypeOK /\ HeaderBeforeBodies /\ \A e \in Encoders : Handled(e)

(* The types, by name.                                                     *)
HandlerStates ==
    [pc : IngestPlaces, tags : Tags, decodes : BOOLEAN, infoApplied : BOOLEAN,
     streamPos : Positions, op : {"none", "meta", "header", "body"},
     len : {0} \cup BodyLens, ch : 0..MaxChannels, first : 0..MaxChannels]
ChannelStates == [id : Ids, header : Tags, setBy : SUBSET Encoders,
             infoBy : SUBSET Encoders, wroteBy : SUBSET Encoders,
             end : Positions, bare : BOOLEAN]
Using(h) == h.pc \in {"info", "send", "stop"} => h.ch \in Chans

LEMMA IngestTypes == IngestTypeOK <=>
    /\ made \in 0..MaxChannels /\ current \in 0..made
    /\ chan \in [Chans -> ChannelStates]
    /\ enc \in [Encoders -> HandlerStates]
    /\ \A e \in Encoders : Using(enc[e])
BY DEF IngestTypeOK, HandlerStates, ChannelStates, Using

(* What is left of a callback once its metadata has been looked at.        *)
GoesOn(h, r) ==
    /\ r \in HandlerStates
    /\ r.tags = h.tags /\ r.first = h.first /\ r.streamPos = h.streamPos
    /\ r.ch = h.ch /\ r.len = h.len
    /\ \/ r.pc = "idle" /\ r.op = "none" /\ h.op = "meta" /\ ~Rebuilds(h)
       \/ r.pc \in {"apply", "deliver"} /\ r.op = h.op
       \/ /\ r.pc \in {"apply", "deliver"} /\ r.op = "header"
          /\ h.op = "meta" /\ Rebuilds(h)

(* applyMetaInfo first, or after it, a callback only goes on.              *)
LEMMA BeginGoesOn ==
    ASSUME NEW h \in HandlerStates
    PROVE  GoesOn(h, Begin(h))
BY DEF Begin, Proceed, GoesOn, HandlerStates, IngestPlaces, Rebuilds

LEMMA AppliedGoesOn ==
    ASSUME NEW h \in HandlerStates
    PROVE  GoesOn(h, Applied(h))
<1>1. CASE h.op = "meta" /\ Rebuilds(h)
  <2> DEFINE k == [h EXCEPT !.op = "header"]
  <2>1. /\ k \in HandlerStates /\ k.op = "header" /\ k.tags = h.tags
        /\ k.first = h.first /\ k.streamPos = h.streamPos
        /\ k.ch = h.ch /\ k.len = h.len
    BY DEF HandlerStates
  <2>2. GoesOn(k, Begin(k)) /\ Applied(h) = Begin(k)
    BY <1>1, <2>1, BeginGoesOn DEF Applied
  <2> HIDE DEF k
  <2> QED BY <1>1, <2>1, <2>2 DEF GoesOn
<1>2. CASE ~(h.op = "meta" /\ Rebuilds(h))
  BY <1>2 DEF Applied, Proceed, GoesOn, HandlerStates, IngestPlaces, Rebuilds
<1> QED BY <1>1, <1>2

(* The invariant holds at first.                                           *)
LEMMA InitFeed == IngestInit => FeedInv
<1> SUFFICES ASSUME IngestInit PROVE FeedInv
  OBVIOUS
<1>1. (CHOOSE id \in Ids : TRUE) \in Ids
  BY BoundsAssumption
<1>2. NoTags \in Tags /\ 0 \in Positions
  BY BoundsAssumption DEF NoTags, Tags, Positions
<1>3. NewHandler \in HandlerStates
  BY <1>2, BoundsAssumption DEF NewHandler, HandlerStates, IngestPlaces
<1>4. \A id \in Ids : NewChannel(id) \in ChannelStates
  BY <1>2 DEF NewChannel, ChannelStates
<1>5. IngestTypeOK
  <2>1. made \in 0..MaxChannels /\ current \in 0..made
    BY BoundsAssumption DEF IngestInit
  <2>2. chan \in [Chans -> ChannelStates]
    BY <1>1, <1>4 DEF IngestInit
  <2>3. enc \in [Encoders -> HandlerStates] /\ \A e \in Encoders : Using(enc[e])
    BY <1>3 DEF IngestInit, Using, NewHandler
  <2> QED BY <2>1, <2>2, <2>3, IngestTypes
<1>6. HeaderBeforeBodies
  BY DEF IngestInit, HeaderBeforeBodies, NewChannel
<1>7. ASSUME NEW e \in Encoders PROVE Handled(e)
  BY <1>7, BoundsAssumption
  DEF IngestInit, Handled, Begun, Feeds, Headed, NewHandler, Rebuilds, NoTags,
      HandlerOpen
<1> QED BY <1>5, <1>6, <1>7 DEF FeedInv

(* A step of one handler that leaves the channels alone, but for infoBy.   *)
SameFeed == \A g \in Chans :
    /\ chan'[g].header = chan[g].header /\ chan'[g].setBy = chan[g].setBy
    /\ chan'[g].wroteBy = chan[g].wroteBy /\ chan'[g].end = chan[g].end
    /\ chan'[g].bare = chan[g].bare

(* It is enough to look at the handler that makes such a step.             *)
LEMMA LocalStep ==
    ASSUME FeedInv, NEW e \in Encoders, NEW r \in HandlerStates,
           enc' = [enc EXCEPT ![e] = r],
           current' = current, made' = made,
           chan' \in [Chans -> ChannelStates], SameFeed,
           Using(r), Begun(r), Feeds(e, r), Headed(r)
    PROVE  FeedInv'
<1>1. /\ made \in 0..MaxChannels /\ current \in 0..made
      /\ enc \in [Encoders -> HandlerStates]
      /\ \A x \in Encoders : Using(enc[x]) /\ Handled(x)
  BY IngestTypes DEF FeedInv
<1>2. enc' \in [Encoders -> HandlerStates] /\ \A x \in Encoders : Using(enc'[x])
  BY <1>1
<1>3. IngestTypeOK'
  <2>1. \A x \in Encoders : Using(enc[x])'
    BY <1>2 DEF Using, Chans
  <2>2. (enc \in [Encoders -> HandlerStates])'
    BY <1>2 DEF HandlerStates, Tags, Positions, IngestPlaces
  <2>3. (chan \in [Chans -> ChannelStates])'
    BY DEF ChannelStates, Chans, Tags, Positions
  <2>4. (made \in 0..MaxChannels /\ current \in 0..made)'
    BY <1>1
  <2> QED BY <2>1, <2>2, <2>3, <2>4
          DEF IngestTypeOK, HandlerStates, ChannelStates, Using
<1>4. HeaderBeforeBodies'
  BY DEF FeedInv, HeaderBeforeBodies, SameFeed, Chans
<1>5. ASSUME NEW x \in Encoders PROVE Handled(x)'
  <2>1. PICK h \in HandlerStates : h = enc'[x]
    BY <1>2
  <2>2. Begun(h) /\ Feeds(x, h) /\ Headed(h)
    BY <1>1, <2>1 DEF Handled
  <2>3. current # 0 => current \in Chans
    BY <1>1, BoundsAssumption DEF Chans
  <2>4. h.first # 0 => h.first \in Chans
    BY BoundsAssumption DEF Chans, HandlerStates
  <2>5. Begun(h)' /\ Feeds(x, h)' /\ Headed(h)'
    <3>1. Begun(h)'
      BY <2>2 DEF Begun, Rebuilds
    <3>2. Feeds(x, h)'
      BY <2>2, <2>3 DEF Feeds, SameFeed, Rebuilds, HandlerOpen
    <3>3. Headed(h)'
      BY <2>2, <2>4 DEF Headed, SameFeed, Rebuilds, HandlerOpen
    <3> QED BY <3>1, <3>2, <3>3
  <2> QED BY <2>1, <2>5 DEF Handled, Begun, Feeds, Headed, Rebuilds, HandlerOpen
<1> QED BY <1>3, <1>4, <1>5 DEF FeedInv

(* What the invariant says of one handler.                                 *)
LEMMA LookAtOne ==
    ASSUME FeedInv, NEW e \in Encoders, NEW h \in HandlerStates, enc[e] = h
    PROVE  /\ Using(h) /\ Begun(h) /\ Feeds(e, h) /\ Headed(h)
           /\ enc \in [Encoders -> HandlerStates]
           /\ made \in 0..MaxChannels /\ current \in 0..made
           /\ chan \in [Chans -> ChannelStates]
BY IngestTypes DEF FeedInv, Handled

LEMMA PickHandler ==
    ASSUME FeedInv, NEW e \in Encoders PROVE \E h \in HandlerStates : enc[e] = h
BY IngestTypes DEF FeedInv

(* Where the callback goes on after its metadata.                          *)
LEMMA GoneOn ==
    ASSUME FeedInv, NEW e \in Encoders,
           NEW h \in HandlerStates, NEW k \in HandlerStates,
           NEW r \in HandlerStates, GoesOn(k, r),
           Begun(h), Feeds(e, h), Headed(h), h.pc \in {"idle", "apply", "info"},
           k.first = h.first, k.streamPos = h.streamPos,
           \/ k.tags = h.tags /\ k.op = h.op
           \/ /\ h.pc = "idle"
              /\ \/ k.op = "meta" /\ (Rebuilds(k) <=> Rebuilds(h))
                 \/ k.op = "header" /\ Rebuilds(k)
                 \/ k.op = "body" /\ Rebuilds(k) /\ k.tags = h.tags,
           h.pc = "idle" => k.op # "none"
    PROVE  Using(r) /\ Begun(r) /\ Feeds(e, r) /\ Headed(r)
<1>1. r.first = h.first /\ r.streamPos = h.streamPos /\ r.tags = k.tags
      /\ r.pc \in {"idle", "apply", "deliver"}
  BY DEF GoesOn
<1>2. Using(r)
  BY <1>1 DEF Using
<1>3. Begun(r)
  BY <1>1 DEF Begun, GoesOn, Rebuilds
<1>4. Feeds(e, r)
  BY <1>1 DEF Feeds, GoesOn, Rebuilds, HandlerOpen, Begun
<1>5. Headed(r)
  BY <1>1 DEF Headed, GoesOn, Rebuilds, HandlerOpen, Begun
<1> QED BY <1>2, <1>3, <1>4, <1>5

(* A step that changes nothing but the handler.                            *)
NoMove == UNCHANGED <<made, current, chan>>

LEMMA NoMoveSame ==
    ASSUME FeedInv, NoMove
    PROVE  /\ chan' \in [Chans -> ChannelStates] /\ SameFeed
           /\ current' = current /\ made' = made
BY IngestTypes DEF FeedInv, NoMove, SameFeed

(* Metadata and sequence headers, the two in the same way.                 *)
LEMMA TagArrives ==
    ASSUME FeedInv, NEW e \in Encoders, NEW kind \in {"meta", "avc", "aac"},
           NEW d \in BOOLEAN, NEW op \in {"meta", "header"},
           op = "meta" <=> kind = "meta",
           handlerAt(e, "idle"), enc[e].tags[kind] < MaxTags, NoMove,
           NEW k \in HandlerStates,
           k = [Received(enc[e], kind) EXCEPT !.decodes = d, !.op = op],
           enc' = [enc EXCEPT ![e] = Begin(k)]
    PROVE  FeedInv'
<1>1. PICK h \in HandlerStates : enc[e] = h
  BY PickHandler
<1>2. h.tags \in Tags
  BY DEF HandlerStates
<1>2a. h.tags[kind] \in Nat
  BY <1>2, BoundsAssumption DEF Tags
<1>4. /\ k.first = h.first /\ k.streamPos = h.streamPos /\ k.op = op
      /\ k.tags = [h.tags EXCEPT ![kind] = @ + 1]
  BY <1>1 DEF HandlerStates, Received
<1>5. IF op = "meta" THEN Rebuilds(k) <=> Rebuilds(h) ELSE Rebuilds(k)
  <2>1. CASE op = "meta"
    BY <1>2, <1>4, <2>1 DEF Rebuilds, Tags
  <2>2. CASE op # "meta"
    BY <1>2, <1>2a, <1>4, <2>2 DEF Rebuilds, Tags
  <2> QED BY <2>1, <2>2
<1>7. PICK r \in HandlerStates : r = Begin(k) /\ GoesOn(k, r)
  BY BeginGoesOn DEF GoesOn
<1>8. Using(r) /\ Begun(r) /\ Feeds(e, r) /\ Headed(r)
  <2>1. h.pc = "idle" /\ Begun(h) /\ Feeds(e, h) /\ Headed(h)
    BY <1>1, LookAtOne DEF handlerAt
  <2>2. \/ k.op = "meta" /\ (Rebuilds(k) <=> Rebuilds(h))
        \/ k.op = "header" /\ Rebuilds(k)
    BY <1>4, <1>5
  <2> QED BY <1>4, <1>7, <2>1, <2>2, GoneOn
<1> QED BY <1>7, <1>8, LocalStep, NoMoveSame

(* A frame finds a header of its own where it published.                   *)
LEMMA FrameStep ==
    ASSUME FeedInv, NEW e \in Encoders,
           NEW kind \in {"avc", "aac"}, NEW len \in BodyLens,
           Frame(e, kind, len)
    PROVE  FeedInv'
<1>1. PICK h \in HandlerStates : enc[e] = h
  BY PickHandler
<1> DEFINE k == [h EXCEPT !.len = len, !.op = "body"]
<1>2. /\ k \in HandlerStates /\ k.tags = h.tags
      /\ k.first = h.first /\ k.streamPos = h.streamPos /\ k.op = "body"
  BY DEF HandlerStates
<1>3. enc' = [enc EXCEPT ![e] = Begin(k)] /\ h.pc = "idle" /\ Rebuilds(k)
  BY <1>1, <1>2, LookAtOne DEF Frame, HasSequenceHeader, Rebuilds, handlerAt
<1> HIDE DEF k
<1>7. PICK r \in HandlerStates : r = Begin(k) /\ GoesOn(k, r)
  BY <1>2, BeginGoesOn DEF GoesOn
<1>8. Using(r) /\ Begun(r) /\ Feeds(e, r) /\ Headed(r)
  BY <1>1, <1>2, <1>3, <1>7, LookAtOne, GoneOn
<1>9. NoMove
  BY DEF Frame, NoMove
<1> QED BY <1>3, <1>7, <1>8, <1>9, LocalStep, NoMoveSame

LEMMA MetaStep ==
    ASSUME FeedInv, NEW e \in Encoders, NEW d \in BOOLEAN, OnSetDataFrame(e, d)
    PROVE  FeedInv'
<1>1. PICK h \in HandlerStates : enc[e] = h
  BY PickHandler
<1>2. h.tags \in Tags /\ h.tags.meta < MaxTags
  BY <1>1 DEF HandlerStates, OnSetDataFrame
<1>3. [h.tags EXCEPT !["meta"] = @ + 1] \in Tags
  BY <1>2, BoundsAssumption DEF Tags
<1>4. PICK k \in HandlerStates :
          k = [Received(h, "meta") EXCEPT !.decodes = d, !.op = "meta"]
  BY <1>3 DEF HandlerStates, Received
<1>5. /\ handlerAt(e, "idle") /\ enc[e].tags["meta"] < MaxTags /\ NoMove
      /\ enc' = [enc EXCEPT ![e] = Begin(k)]
  BY <1>1, <1>4 DEF OnSetDataFrame, NoMove
<1> QED BY <1>1, <1>4, <1>5, TagArrives

LEMMA SequenceHeaderStep ==
    ASSUME FeedInv, NEW e \in Encoders, NEW kind \in {"avc", "aac"},
           SequenceHeader(e, kind)
    PROVE  FeedInv'
<1>1. PICK h \in HandlerStates : enc[e] = h
  BY PickHandler
<1>2. h.tags \in Tags /\ h.tags[kind] < MaxTags
  BY <1>1 DEF HandlerStates, SequenceHeader
<1>3. [h.tags EXCEPT ![kind] = @ + 1] \in Tags
  BY <1>2, BoundsAssumption DEF Tags
<1>4. PICK k \in HandlerStates : k = [Received(h, kind) EXCEPT !.op = "header"]
  BY <1>3 DEF HandlerStates, Received
<1>5. /\ handlerAt(e, "idle") /\ NoMove /\ enc' = [enc EXCEPT ![e] = Begin(k)]
      /\ h.decodes \in BOOLEAN
      /\ enc[e].tags[kind] < MaxTags
  BY <1>1, <1>4 DEF SequenceHeader, NoMove, HandlerStates
<1>6. k = [Received(enc[e], kind) EXCEPT !.decodes = h.decodes, !.op = "header"]
  BY <1>1, <1>4 DEF HandlerStates, Received
<1> QED BY <1>4, <1>5, <1>6, TagArrives

(* The lookups, and the beginning and the end of a connection.             *)
LEMMA LookupStep ==
    ASSUME FeedInv, NEW e \in Encoders,
           OnPublish(e) \/ DeliverLookup(e) \/ Disconnect(e) \/ OnCloseLookup(e)
    PROVE  FeedInv'
<1>1. PICK h \in HandlerStates : enc[e] = h
  BY PickHandler
<1>2. /\ Using(h) /\ Begun(h) /\ Feeds(e, h) /\ Headed(h)
      /\ enc \in [Encoders -> HandlerStates]
      /\ made \in 0..MaxChannels /\ current \in 0..made
      /\ current # 0 => current \in Chans
      /\ current \in 0..MaxChannels /\ 0 \in 0..MaxChannels
  BY <1>1, LookAtOne, BoundsAssumption DEF Chans
<1>3. NoMove
  BY DEF OnPublish, DeliverLookup, Disconnect, OnCloseLookup, NoMove
<1>4. NoTags \in Tags /\ 0 \in Positions
  BY BoundsAssumption DEF NoTags, Tags, Positions
<1>5. \E r \in HandlerStates : /\ enc' = [enc EXCEPT ![e] = r]
                          /\ Using(r) /\ Begun(r) /\ Feeds(e, r) /\ Headed(r)
  <2>1. ASSUME NEW r \in HandlerStates, r.pc \in {"onClose", "closed", "stop"},
               r.first <= made, r.op \in {"header", "body"} => Rebuilds(r)
        PROVE  Begun(r) /\ Feeds(e, r) /\ Headed(r)
    BY <2>1 DEF Begun, Feeds, Headed, HandlerOpen
  <2>2. CASE OnPublish(e)
    <3>1. CASE enc' = [enc EXCEPT ![e].pc = "idle", ![e].first = current]
      <4> DEFINE r == [h EXCEPT !.pc = "idle", !.first = current]
      <4>1. r \in HandlerStates
        BY <1>2, BoundsAssumption DEF HandlerStates, IngestPlaces
      <4>2. enc' = [enc EXCEPT ![e] = r]
        BY <1>1, <1>2, <3>1
      <4>3. r.pc = "idle" /\ r.first = current /\ r.op = "none" /\ ~Rebuilds(r)
        BY <1>1, <1>2, <2>2 DEF OnPublish, handlerAt, Begun, Rebuilds, HandlerStates
      <4>4. h.pc = "new"
        BY <1>1, <2>2 DEF OnPublish, handlerAt
      <4> HIDE DEF r
      <4>5. Using(r) /\ Begun(r) /\ Feeds(e, r) /\ Headed(r)
        BY <1>2, <4>3, <4>4 DEF Using, Begun, Feeds, Headed, HandlerOpen
      <4> QED BY <4>1, <4>2, <4>5
    <3>2. CASE enc' = [enc EXCEPT ![e].pc = "closed"]
      <4> DEFINE r == [h EXCEPT !.pc = "closed"]
      <4>1. r \in HandlerStates
        BY <1>2 DEF HandlerStates, IngestPlaces
      <4>2. enc' = [enc EXCEPT ![e] = r]
        BY <1>1, <1>2, <3>2
      <4>3. /\ r.pc = "closed" /\ r.first <= made
            /\ r.op \in {"header", "body"} => Rebuilds(r)
        BY <1>2 DEF Begun, Rebuilds, HandlerStates
      <4> HIDE DEF r
      <4> QED BY <2>1, <4>1, <4>2, <4>3 DEF Using
    <3> QED BY <2>2, <3>1, <3>2 DEF OnPublish
  <2>3. CASE DeliverLookup(e)
    <3> DEFINE r == [h EXCEPT !.ch = current,
                              !.pc = IF current = 0 THEN "idle" ELSE "send",
                              !.op = IF current = 0 THEN "none" ELSE @,
                              !.len = IF current = 0 THEN 0 ELSE @]
    <3>0. h.pc = "deliver"
      BY <1>1, <2>3 DEF DeliverLookup, handlerAt
    <3>1. r \in HandlerStates
      BY <1>2, BoundsAssumption DEF HandlerStates, IngestPlaces
    <3>2. enc' = [enc EXCEPT ![e] = r]
      BY <1>1, <1>2, <2>3 DEF DeliverLookup
    <3>3. /\ r.first = h.first /\ r.tags = h.tags /\ r.streamPos = h.streamPos
          /\ r.ch = current
          /\ current = 0 => r.pc = "idle" /\ r.op = "none"
          /\ current # 0 => r.pc = "send" /\ r.op = h.op
      BY DEF HandlerStates
    <3> HIDE DEF r
    <3>4. Using(r) /\ Begun(r)
      BY <1>2, <3>3 DEF Using, Begun, Rebuilds
    <3>5. Feeds(e, r)
      BY <1>2, <3>0, <3>3 DEF Feeds, Rebuilds, HandlerOpen
    <3>6. Headed(r)
      BY <1>2, <3>0, <3>3 DEF Headed, Rebuilds, HandlerOpen
    <3> QED BY <3>1, <3>2, <3>4, <3>5, <3>6
  <2>4. CASE Disconnect(e)
    <3> DEFINE r == [NewHandler EXCEPT !.pc = "onClose"]
    <3>1. r \in HandlerStates /\ r.pc = "onClose" /\ r.first = 0 /\ r.op = "none"
      BY <1>2, <1>4 DEF NewHandler, HandlerStates, IngestPlaces
    <3>2. enc' = [enc EXCEPT ![e] = r]
      BY <2>4 DEF Disconnect
    <3> HIDE DEF r
    <3>3. r.first <= made /\ Using(r)
      BY <1>2, <3>1, BoundsAssumption DEF Using
    <3> QED BY <2>1, <3>1, <3>2, <3>3
  <2>5. CASE OnCloseLookup(e)
    <3> DEFINE r == [h EXCEPT !.ch = current,
                              !.pc = IF current = 0 THEN "closed" ELSE "stop"]
    <3>1. r \in HandlerStates
      BY <1>2, BoundsAssumption DEF HandlerStates, IngestPlaces
    <3>2. enc' = [enc EXCEPT ![e] = r]
      BY <1>1, <1>2, <2>5 DEF OnCloseLookup
    <3>3. /\ r.first = h.first /\ r.tags = h.tags /\ r.op = h.op /\ r.ch = current
          /\ r.pc = IF current = 0 THEN "closed" ELSE "stop"
      BY DEF HandlerStates
    <3> HIDE DEF r
    <3>4. /\ r.first <= made /\ Using(r)
          /\ r.op \in {"header", "body"} => Rebuilds(r)
      BY <1>2, <3>3 DEF Begun, Rebuilds, Using
    <3> QED BY <2>1, <3>1, <3>2, <3>3, <3>4
  <2> QED BY <2>2, <2>3, <2>4, <2>5
<1> QED BY <1>3, <1>5, LocalStep, NoMoveSame

(* What metadata does to the info is no part of the feed.                  *)
LEMMA ApplyStep ==
    ASSUME FeedInv, NEW e \in Encoders, ApplyLookup(e) \/ SetInfo(e)
    PROVE  FeedInv'
<1>1. PICK h \in HandlerStates : enc[e] = h
  BY PickHandler
<1>2. /\ Using(h) /\ Begun(h) /\ Feeds(e, h) /\ Headed(h)
      /\ enc \in [Encoders -> HandlerStates] /\ chan \in [Chans -> ChannelStates]
      /\ made \in 0..MaxChannels /\ current \in 0..made
      /\ current # 0 => current \in Chans
      /\ current \in 0..MaxChannels /\ 0 \in 0..MaxChannels
  BY <1>1, LookAtOne, BoundsAssumption DEF Chans
<1>3. CASE ApplyLookup(e) /\ current # 0
  <2> DEFINE r == [h EXCEPT !.pc = "info", !.ch = current]
  <2>1. r \in HandlerStates
    BY <1>2, BoundsAssumption DEF HandlerStates, IngestPlaces
  <2>2. enc' = [enc EXCEPT ![e] = r] /\ h.pc = "apply" /\ NoMove
    BY <1>1, <1>3 DEF ApplyLookup, handlerAt, NoMove
  <2>3. /\ r.pc = "info" /\ r.ch = current /\ r.op = h.op /\ r.tags = h.tags
        /\ r.first = h.first /\ r.streamPos = h.streamPos
    BY DEF HandlerStates
  <2> HIDE DEF r
  <2>4. Using(r) /\ Begun(r) /\ Feeds(e, r)
    BY <1>2, <1>3, <2>2, <2>3 DEF Using, Begun, Feeds, Rebuilds, HandlerOpen
  <2>5. Headed(r)
    BY <1>2, <2>2, <2>3 DEF Headed, Rebuilds, HandlerOpen
  <2> QED BY <2>1, <2>2, <2>4, <2>5, LocalStep, NoMoveSame
<1>4. CASE ApplyLookup(e) /\ current = 0
  <2>1. enc' = [enc EXCEPT ![e] = Applied(h)] /\ h.pc = "apply" /\ NoMove
    BY <1>1, <1>4 DEF ApplyLookup, handlerAt, NoMove
  <2>2. PICK r \in HandlerStates : r = Applied(h) /\ GoesOn(h, r)
    BY AppliedGoesOn DEF GoesOn
  <2>3. Using(r) /\ Begun(r) /\ Feeds(e, r) /\ Headed(r)
    BY <1>2, <2>1, <2>2, GoneOn
  <2> QED BY <2>1, <2>2, <2>3, LocalStep, NoMoveSame
<1>5. CASE SetInfo(e)
  <2>1. PICK k : k = [h EXCEPT !.infoApplied = TRUE, !.ch = 0]
    OBVIOUS
  <2>2. k \in HandlerStates
    BY <1>2, <2>1 DEF HandlerStates
  <2>3. /\ k.first = h.first /\ k.streamPos = h.streamPos
        /\ k.tags = h.tags /\ k.op = h.op
    BY <2>1 DEF HandlerStates
  <2>4. enc' = [enc EXCEPT ![e] = Applied(k)] /\ h.pc = "info" /\ h.ch \in Chans
    BY <1>1, <1>2, <1>5, <2>1 DEF SetInfo, handlerAt, Using
  <2>5. PICK r \in HandlerStates : r = Applied(k) /\ GoesOn(k, r)
    BY <2>2, AppliedGoesOn DEF GoesOn
  <2>6. Using(r) /\ Begun(r) /\ Feeds(e, r) /\ Headed(r)
    BY <1>2, <2>2, <2>3, <2>4, <2>5, GoneOn
  <2>7. /\ chan' = [chan EXCEPT ![h.ch].infoBy = @ \cup {e}]
        /\ current' = current /\ made' = made
    BY <1>1, <1>5 DEF SetInfo
  <2>8. chan' \in [Chans -> ChannelStates] /\ SameFeed
    BY <1>2, <2>4, <2>7 DEF ChannelStates, SameFeed
  <2> QED BY <2>4, <2>5, <2>6, <2>7, <2>8, LocalStep
<1> QED BY <1>3, <1>4, <1>5

(* A handler that hands its header or body to the channel it has looked    *)
(* up: there the channel is d, and the handler r, from then on.            *)
LEMMA GivenStep ==
    ASSUME FeedInv, NEW e \in Encoders, NEW h \in HandlerStates, enc[e] = h,
           NEW r \in HandlerStates, NEW d \in ChannelStates,
           h.pc = "send", h.ch \in Chans, r.pc = "idle", r.op = "none",
           r.tags = h.tags, r.first = h.first, Rebuilds(h),
           chan' = [chan EXCEPT ![h.ch] = d], enc' = [enc EXCEPT ![e] = r],
           current' = current, made' = made,
           ~chan[h.ch].bare => ~d.bare,
           \/ /\ d.header = h.tags /\ d.setBy = {e} /\ h.op = "header"
              /\ d.wroteBy = chan[h.ch].wroteBy /\ d.end = chan[h.ch].end
              /\ r.streamPos = h.streamPos
           \/ /\ d.header = chan[h.ch].header /\ d.setBy = chan[h.ch].setBy
              /\ d.wroteBy = {e} /\ d.end = r.streamPos /\ h.op = "body"
    PROVE  FeedInv'
<1>1. /\ Using(h) /\ Begun(h) /\ Feeds(e, h) /\ Headed(h)
      /\ enc \in [Encoders -> HandlerStates] /\ chan \in [Chans -> ChannelStates]
      /\ made \in 0..MaxChannels /\ current \in 0..made
      /\ current # 0 => current \in Chans
  BY LookAtOne, BoundsAssumption DEF Chans
<1>2. /\ enc' \in [Encoders -> HandlerStates] /\ chan' \in [Chans -> ChannelStates]
      /\ \A x \in Encoders : Using(enc[x]) /\ Handled(x)
  BY <1>1, IngestTypes DEF FeedInv
<1>3. IngestTypeOK'
  <2>1. \A x \in Encoders : Using(enc[x])'
    BY <1>1, <1>2 DEF Using, Chans
  <2>2. (enc \in [Encoders -> HandlerStates])'
    BY <1>2 DEF HandlerStates, Tags, Positions, IngestPlaces
  <2>3. (chan \in [Chans -> ChannelStates])'
    BY <1>2 DEF ChannelStates, Chans, Tags, Positions
  <2>4. (made \in 0..MaxChannels /\ current \in 0..made)'
    BY <1>1
  <2> QED BY <2>1, <2>2, <2>3, <2>4
          DEF IngestTypeOK, HandlerStates, ChannelStates, Using
<1>4. HeaderBeforeBodies'
  BY <1>1 DEF FeedInv, HeaderBeforeBodies, Chans
<1>5. d.header # NoTags \/ d.header = chan[h.ch].header
  BY BoundsAssumption DEF Rebuilds, NoTags
<1>6. ASSUME NEW x \in Encoders PROVE Handled(x)'
  <2>1. PICK y \in HandlerStates : y = enc[x]
    BY <1>1
  <2>2. Begun(y) /\ Feeds(x, y) /\ Headed(y)
    BY <1>2, <2>1 DEF Handled
  <2>3. y.first # 0 => y.first \in Chans
    BY BoundsAssumption DEF Chans, HandlerStates
  <2>4. CASE x # e
    <3>1. Begun(y)'
      BY <2>2 DEF Begun, Rebuilds
    <3>2. Feeds(x, y)'
      <4>1. CASE current = h.ch
        BY <1>1, <2>2, <2>4, <4>1 DEF Feeds, Rebuilds, HandlerOpen
      <4>2. CASE current # h.ch
        BY <1>1, <2>2, <4>2 DEF Feeds, Rebuilds, HandlerOpen
      <4> QED BY <4>1, <4>2
    <3>3. Headed(y)'
      BY <1>1, <1>5, <2>2, <2>3 DEF Headed, Rebuilds, HandlerOpen
    <3>4. enc'[x] = y
      BY <1>1, <2>1, <2>4
    <3> QED BY <3>1, <3>2, <3>3, <3>4
            DEF Handled, Begun, Feeds, Headed, Rebuilds, HandlerOpen
  <2>5. CASE x = e
    <3>1. enc'[x] = r /\ y = h
      BY <1>1, <2>1, <2>5
    <3>2. Begun(r)'
      BY <1>1 DEF Begun, Rebuilds
    <3>3. Feeds(e, r)'
      <4>1. CASE current = h.ch
        BY <1>1, <4>1 DEF Feeds, Rebuilds, HandlerOpen
      <4>2. CASE current # h.ch
        BY <1>1, <4>2 DEF Feeds, Rebuilds, HandlerOpen
      <4> QED BY <4>1, <4>2
    <3>4. Headed(r)'
      <4>1. CASE h.op = "header"
        <5>1. d.header # NoTags
          BY <4>1, BoundsAssumption DEF Rebuilds, NoTags
        <5> QED BY <1>1, <2>3, <3>1, <4>1, <5>1
                DEF Headed, Rebuilds, HandlerOpen
      <4>2. CASE h.op = "body"
        BY <1>1, <1>5, <2>3, <3>1, <4>2 DEF Headed, Rebuilds, HandlerOpen
      <4> QED BY <4>1, <4>2
    <3> QED BY <2>5, <3>1, <3>2, <3>3, <3>4
            DEF Handled, Begun, Feeds, Headed, Rebuilds, HandlerOpen
  <2> QED BY <2>4, <2>5
<1> QED BY <1>3, <1>4, <1>6 DEF FeedInv

(* rebuildHeader and writeData hand over a header and a body.              *)
LEMMA HeaderStep ==
    ASSUME FeedInv, NEW e \in Encoders, rebuildHeader(e) PROVE FeedInv'
<1>1. PICK h \in HandlerStates : enc[e] = h
  BY PickHandler
<1>2. /\ Using(h) /\ Begun(h) /\ enc \in [Encoders -> HandlerStates]
      /\ chan \in [Chans -> ChannelStates]
  BY <1>1, LookAtOne
<1>3. h.pc = "send" /\ h.op = "header" /\ h.ch \in Chans /\ Rebuilds(h)
  BY <1>1, <1>2 DEF rebuildHeader, handlerAt, Using, Begun
<1>4. PICK r : r = Done(h)
  OBVIOUS
<1>5. r \in HandlerStates
  <2>1. 0 \in 0..MaxChannels
    BY BoundsAssumption
  <2> QED BY <1>4, <2>1 DEF Done, HandlerStates, IngestPlaces
<1>6. /\ r.pc = "idle" /\ r.op = "none" /\ r.tags = h.tags
      /\ r.first = h.first /\ r.streamPos = h.streamPos
  BY <1>4 DEF Done, HandlerStates
<1>7. PICK d : d = [chan[h.ch] EXCEPT !.header = h.tags, !.setBy = {e}]
  OBVIOUS
<1>8. chan[h.ch] \in ChannelStates /\ h.tags \in Tags
  BY <1>2, <1>3 DEF HandlerStates
<1>9. /\ d \in ChannelStates /\ d.header = h.tags /\ d.setBy = {e}
      /\ d.wroteBy = chan[h.ch].wroteBy /\ d.end = chan[h.ch].end
      /\ d.bare = chan[h.ch].bare
  BY <1>7, <1>8 DEF ChannelStates
<1>10. enc' = [enc EXCEPT ![e] = r] /\ current' = current /\ made' = made
  BY <1>1, <1>4 DEF rebuildHeader
<1>11. chan' = [chan EXCEPT ![h.ch] = d]
  BY <1>1, <1>2, <1>3, <1>7, <1>8 DEF rebuildHeader, ChannelStates
<1> QED BY <1>1, <1>3, <1>5, <1>6, <1>9, <1>10, <1>11, GivenStep

LEMMA WriteStep ==
    ASSUME FeedInv, NEW e \in Encoders, writeData(e) PROVE FeedInv'
<1>1. PICK h \in HandlerStates : enc[e] = h
  BY PickHandler
<1>2. /\ Using(h) /\ Begun(h) /\ Headed(h) /\ enc \in [Encoders -> HandlerStates]
      /\ chan \in [Chans -> ChannelStates]
  BY <1>1, LookAtOne
<1>3. h.pc = "send" /\ h.op = "body" /\ h.ch \in Chans /\ Rebuilds(h)
  BY <1>1, <1>2 DEF writeData, handlerAt, Using, Begun
<1>4. PICK end : end = (h.streamPos + h.len) % Width
  OBVIOUS
<1>5. end \in Positions
  <2>1. h.streamPos \in Positions /\ h.len \in {0} \cup BodyLens
    BY DEF HandlerStates
  <2>2. h.streamPos \in Nat
    BY <2>1, BoundsAssumption DEF Positions
  <2>3. h.len \in Nat
    <3>1. BodyLens \subseteq Nat
      BY BoundsAssumption
    <3>2. 0 \in Nat
      OBVIOUS
    <3> QED BY <2>1, <3>1, <3>2, Zenon
  <2> QED BY <1>4, <2>2, <2>3, BoundsAssumption DEF Positions
<1>6. PICK r : r = [Done(h) EXCEPT !.streamPos = end]
  OBVIOUS
<1>7. /\ r \in HandlerStates /\ r.pc = "idle" /\ r.op = "none" /\ r.tags = h.tags
      /\ r.first = h.first /\ r.streamPos = end
  <2>1. 0 \in 0..MaxChannels
    BY BoundsAssumption
  <2>2. PICK k : k = Done(h)
    OBVIOUS
  <2>3. /\ k \in HandlerStates /\ k.pc = "idle" /\ k.op = "none"
        /\ k.tags = h.tags /\ k.first = h.first
    BY <2>1, <2>2 DEF Done, HandlerStates, IngestPlaces
  <2> QED BY <1>5, <1>6, <2>2, <2>3 DEF HandlerStates
<1>8. PICK c \in ChannelStates : c = chan[h.ch]
  BY <1>2, <1>3
<1>9. ~(h.first = h.ch /\ c.header = NoTags)
  BY <1>2, <1>3, <1>8 DEF Headed, HandlerOpen, Chans
<1>11. PICK d : d = [c EXCEPT !.wroteBy = {e}, !.end = end,
                      !.bare = c.bare \/ (h.first = h.ch /\ c.header = NoTags)]
  OBVIOUS
<1>12. /\ d \in ChannelStates /\ d.header = c.header /\ d.setBy = c.setBy
       /\ d.wroteBy = {e} /\ d.end = end
  BY <1>5, <1>11 DEF ChannelStates
<1>13. ~c.bare => ~d.bare
  BY <1>9, <1>11 DEF ChannelStates
<1>14. enc' = [enc EXCEPT ![e] = r] /\ current' = current /\ made' = made
  BY <1>1, <1>4, <1>6 DEF writeData, Advanced
<1>15. chan' = [chan EXCEPT ![h.ch] = d]
  BY <1>1, <1>4, <1>8, <1>11 DEF writeData
<1> QED BY <1>1, <1>3, <1>7, <1>8, <1>12, <1>13, <1>14, <1>15, GivenStep

(* The API: a new channel has been given nothing, and one that is stopped  *)
(* is not looked at any more.                                              *)
LEMMA APIStep == ASSUME FeedInv, API PROVE FeedInv'
<1>1. /\ enc \in [Encoders -> HandlerStates] /\ chan \in [Chans -> ChannelStates]
      /\ made \in 0..MaxChannels /\ current \in 0..made
      /\ \A x \in Encoders : Using(enc[x]) /\ Handled(x)
  BY IngestTypes DEF FeedInv
<1>2. enc' = enc
  BY DEF API, Broadcast, StopChannel
<1>3. CASE StopChannel
  <2>1. current' = 0 /\ made' = made /\ chan' = chan
    BY <1>3 DEF StopChannel
  <2>2. IngestTypeOK' /\ HeaderBeforeBodies'
    BY <1>1, <1>2, <2>1, BoundsAssumption
    DEF FeedInv, IngestTypeOK, HeaderBeforeBodies
  <2>3. ASSUME NEW x \in Encoders PROVE Handled(x)'
    BY <1>1, <1>2, <2>1 DEF Handled, Begun, Feeds, Headed, Rebuilds
  <2> QED BY <2>2, <2>3 DEF FeedInv
<1>4. ASSUME NEW id \in Ids, Broadcast(id) PROVE FeedInv'
  <2>1. /\ current = 0 /\ current' = made + 1 /\ made' = made + 1
        /\ chan' = [chan EXCEPT ![made + 1] = NewChannel(id)]
        /\ made + 1 \in Chans
    BY <1>1, <1>4, BoundsAssumption DEF Broadcast, Chans
  <2>2. NoTags \in Tags /\ 0 \in Positions
    BY BoundsAssumption DEF NoTags, Tags, Positions
  <2>3. PICK d \in ChannelStates : d = NewChannel(id)
    BY <2>2 DEF NewChannel, ChannelStates
  <2>4. d.setBy = {} /\ d.wroteBy = {} /\ ~d.bare
    BY <2>3 DEF NewChannel
  <2>5. /\ chan' = [chan EXCEPT ![made + 1] = d]
        /\ chan' \in [Chans -> ChannelStates]
    BY <1>1, <2>1, <2>3
  <2>6. IngestTypeOK'
    <3>1. \A x \in Encoders : Using(enc[x])'
      BY <1>1, <1>2 DEF Using, Chans
    <3>2. (enc \in [Encoders -> HandlerStates])'
      BY <1>1, <1>2 DEF HandlerStates, Tags, Positions, IngestPlaces
    <3>3. (chan \in [Chans -> ChannelStates])'
      BY <2>5 DEF ChannelStates, Chans, Tags, Positions
    <3>4. (made \in 0..MaxChannels /\ current \in 0..made)'
      BY <1>1, <2>1, BoundsAssumption DEF Chans
    <3> QED BY <3>1, <3>2, <3>3, <3>4
            DEF IngestTypeOK, HandlerStates, ChannelStates, Using
  <2>7. HeaderBeforeBodies'
    BY <1>1, <2>1, <2>4, <2>5 DEF FeedInv, HeaderBeforeBodies, Chans
  <2>8. ASSUME NEW x \in Encoders PROVE Handled(x)'
    <3>1. PICK y \in HandlerStates : y = enc[x]
      BY <1>1
    <3>2. Begun(y) /\ Headed(y)
      BY <1>1, <3>1 DEF Handled
    <3>3. /\ y.first <= made
          /\ y.first # 0 => y.first \in Chans /\ y.first # made + 1
      BY <1>1, <3>2, BoundsAssumption DEF Begun, Chans, HandlerStates
    <3>4. Begun(y)'
      BY <1>1, <2>1, <3>2, BoundsAssumption DEF Begun, Rebuilds, HandlerStates
    <3>5. Feeds(x, y)'
      BY <1>1, <2>1, <2>4, <2>5 DEF Feeds
    <3>6. Headed(y)'
      <4>1. y.first # 0 => chan'[y.first] = chan[y.first] /\ current' # y.first
        BY <1>1, <2>1, <3>3, <2>5
      <4>2. (/\ y.first # 0 /\ y.pc \in HandlerOpen
             /\ Rebuilds(y) /\ y.op # "header")
            => \/ chan[y.first].header # NoTags
               \/ ~(y.pc = "send" /\ y.ch = y.first)
        BY <3>2 DEF Headed
      <4> QED BY <4>1, <4>2 DEF Headed, Rebuilds, HandlerOpen
    <3> QED BY <1>2, <3>1, <3>4, <3>5, <3>6
            DEF Handled, Begun, Feeds, Headed, Rebuilds, HandlerOpen
  <2> QED BY <2>6, <2>7, <2>8 DEF FeedInv
<1> QED BY <1>3, <1>4 DEF API

(* The end of a connection may stop the channel.                           *)
LEMMA StopStep ==
    ASSUME FeedInv, NEW e \in Encoders, OnCloseStop(e) PROVE FeedInv'
<1>1. PICK h \in HandlerStates : enc[e] = h
  BY PickHandler
<1>2. /\ Begun(h) /\ enc \in [Encoders -> HandlerStates]
      /\ chan \in [Chans -> ChannelStates]
      /\ made \in 0..MaxChannels /\ current \in 0..made
      /\ \A x \in Encoders : Using(enc[x]) /\ Handled(x)
  BY <1>1, LookAtOne, IngestTypes DEF FeedInv
<1> DEFINE r == [h EXCEPT !.pc = "closed", !.ch = 0]
<1>3. r \in HandlerStates /\ r.pc = "closed"
  <2>1. 0 \in 0..MaxChannels
    BY BoundsAssumption
  <2> QED BY <2>1 DEF HandlerStates, IngestPlaces
<1>4. r.op = h.op /\ r.tags = h.tags /\ r.first = h.first
  BY DEF HandlerStates
<1>5. /\ enc' = [enc EXCEPT ![e] = r] /\ made' = made /\ chan' = chan
      /\ current' = 0 \/ current' = current
  BY <1>1, <1>2 DEF OnCloseStop, Stopped
<1> HIDE DEF r
<1>6. enc' \in [Encoders -> HandlerStates] /\ \A x \in Encoders : Using(enc'[x])
  BY <1>2, <1>3, <1>5 DEF Using
<1>7. IngestTypeOK'
  <2>1. \A x \in Encoders : Using(enc[x])'
    BY <1>6 DEF Using, Chans
  <2>2. (enc \in [Encoders -> HandlerStates])'
    BY <1>6 DEF HandlerStates, Tags, Positions, IngestPlaces
  <2>3. (chan \in [Chans -> ChannelStates])'
    BY <1>2, <1>5 DEF ChannelStates, Chans, Tags, Positions
  <2>4. (made \in 0..MaxChannels /\ current \in 0..made)'
    BY <1>2, <1>5, BoundsAssumption
  <2> QED BY <2>1, <2>2, <2>3, <2>4
          DEF IngestTypeOK, HandlerStates, ChannelStates, Using
<1>8. HeaderBeforeBodies'
  BY <1>5 DEF FeedInv, HeaderBeforeBodies
<1>9. ASSUME NEW x \in Encoders PROVE Handled(x)'
  <2>1. CASE x = e
    <3>1. enc'[e] = r
      BY <1>2, <1>5
    <3>2. Begun(r)' /\ Feeds(e, r)' /\ Headed(r)'
      BY <1>2, <1>3, <1>4, <1>5 DEF Begun, Feeds, Headed, Rebuilds, HandlerOpen
    <3> QED BY <2>1, <3>1, <3>2
            DEF Handled, Begun, Feeds, Headed, Rebuilds, HandlerOpen
  <2>2. CASE x # e
    <3>1. enc'[x] = enc[x]
      BY <1>2, <1>5, <2>2
    <3>2. Begun(enc[x]) /\ Feeds(x, enc[x]) /\ Headed(enc[x])
      BY <1>2 DEF Handled
    <3> QED BY <1>5, <3>1, <3>2 DEF Handled, Begun, Feeds, Headed, Rebuilds
  <2> QED BY <2>1, <2>2
<1> QED BY <1>7, <1>8, <1>9 DEF FeedInv

(* Every step keeps the invariant.                                         *)
LEMMA NextFeed == FeedInv /\ [IngestNext]_ingestVars => FeedInv'
<1> SUFFICES ASSUME FeedInv, [IngestNext]_ingestVars PROVE FeedInv'
  OBVIOUS
<1>1. CASE API
  BY <1>1, APIStep
<1>2. ASSUME NEW e \in Encoders, \E d \in BOOLEAN : OnSetDataFrame(e, d)
      PROVE  FeedInv'
  BY <1>2, MetaStep
<1>3. ASSUME NEW e \in Encoders, OnVideo(e) \/ OnAudio(e) PROVE FeedInv'
  BY <1>3, SequenceHeaderStep, FrameStep DEF OnVideo, OnAudio
<1>4. ASSUME NEW e \in Encoders, OnPublish(e) \/ Disconnect(e) PROVE FeedInv'
  BY <1>4, LookupStep
<1>5. ASSUME NEW e \in Encoders, Callback(e) PROVE FeedInv'
  BY <1>5, ApplyStep, LookupStep, HeaderStep, WriteStep, StopStep
  DEF Callback, OnClose
<1>6. CASE UNCHANGED ingestVars
  <2>1. IngestTypeOK' /\ HeaderBeforeBodies'
    BY <1>6 DEF FeedInv, IngestTypeOK, HeaderBeforeBodies, ingestVars
  <2>2. ASSUME NEW x \in Encoders PROVE Handled(x)'
    BY <1>6 DEF FeedInv, Handled, Begun, Feeds, Headed, Rebuilds, ingestVars
  <2> QED BY <2>1, <2>2 DEF FeedInv
<1> QED BY <1>1, <1>2, <1>3, <1>4, <1>5, <1>6 DEF IngestNext

(* What is promised follows from it.                                       *)
LEMMA IngestImplied == FeedInv => IngestInv
<1> SUFFICES ASSUME FeedInv PROVE IngestInv
  OBVIOUS
<1>1. \A e \in Encoders :
         enc[e] \in HandlerStates /\ Begun(enc[e]) /\ Feeds(e, enc[e])
  BY IngestTypes DEF FeedInv, Handled
<1>2. HeaderIsLatest
  <2> SUFFICES ASSUME current # 0,
                      NEW e \in Encoders, e \in chan[current].setBy,
                      handlerAt(e, "idle")
               PROVE  chan[current].header = enc[e].tags
    <3>1. current # 0 => chan[current].setBy \subseteq Encoders
      BY IngestTypes, BoundsAssumption DEF FeedInv, ChannelStates, Chans
    <3> QED BY <3>1 DEF HeaderIsLatest
  <2> QED BY <1>1 DEF handlerAt, Begun, Feeds, HandlerOpen
<1>3. BodiesAdjoin
  <2> SUFFICES ASSUME current # 0,
                      NEW e \in Encoders, e \in chan[current].wroteBy,
                      enc[e].pc \notin {"onClose", "stop", "closed"}
               PROVE  chan[current].end = enc[e].streamPos
    <3>1. current # 0 => chan[current].wroteBy \subseteq Encoders
      BY IngestTypes, BoundsAssumption DEF FeedInv, ChannelStates, Chans
    <3> QED BY <3>1 DEF BodiesAdjoin
  <2>1. enc[e].pc \in HandlerOpen \cup {"new"}
    BY <1>1 DEF HandlerStates, IngestPlaces, HandlerOpen
  <2> QED BY <1>1, <2>1 DEF Feeds, HandlerOpen
<1> QED BY <1>2, <1>3 DEF FeedInv, IngestInv

(* The header on the air is of the latest tags of who set it, no body goes *)
(* out before a header, and bodies adjoin, for any number of encoders and  *)
(* of broadcasts, and however callbacks and stops interleave.              *)
THEOREM IngestCorrect == IngestSpec => []IngestInv
<1>1. IngestSpec => []FeedInv
  BY InitFeed, NextFeed, PTL DEF IngestSpec
<1> QED BY <1>1, IngestImplied, PTL

==============================================================================
