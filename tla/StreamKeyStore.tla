---------------------------- MODULE StreamKeyStore ----------------------------
(***************************************************************************)
(* internal/channel/stream_key_store.go: which account holds which stream  *)
(* key, the reverse index that an encoder's key is looked up in, and the   *)
(* cache file that carries the keys over a restart of the process.         *)
(*                                                                         *)
(* Every API request is a goroutine.  The maps are guarded by s.mu, but    *)
(* saveCache takes its snapshot under s.mu and writes it out without: a    *)
(* step is one critical section or one call of the file system.  Two       *)
(* saves share one temporary file.                                         *)
(***************************************************************************)
EXTENDS Integers, FiniteSets

CONSTANTS
    Accounts,
    Keys,
    NoKey,      \* an account with no entry in s.accounts
    NoAccount,  \* a key with no entry in s.streamKeys
    Handlers,   \* the requests being served
    NoFile,     \* a file that does not exist
    Truncated,  \* a file that was opened for writing and is still empty
    Garbled,    \* a file that holds remains of two snapshots, or part of one
    DiskFails   \* whether the file system may refuse an operation

Tables == [Accounts -> Keys \cup {NoKey}]

ASSUME MarkersAssumption ==
    /\ NoKey \notin Keys /\ NoAccount \notin Accounts
    /\ {NoFile, Truncated, Garbled} \cap Tables = {}
    /\ NoFile # Truncated /\ NoFile # Garbled /\ Truncated # Garbled
ASSUME DiskAssumption == DiskFails \in BOOLEAN

VARIABLES
    accounts,   \* s.accounts
    streamKeys, \* s.streamKeys
    cache,      \* what is in the file stream_keys.json
    tmp,        \* what is in the file stream_keys.json.tmp
    save,       \* per handler: the locals of saveCache
    failed,     \* whether the last save to end returned an error
    alone       \* no two requests have overlapped since the process started

vars == <<accounts, streamKeys, cache, tmp, save, failed, alone>>

(* fd is the file a handler has open.  It stays with the file when another *)
(* handler renames it, and when that file in turn is replaced.             *)
Places == {"idle", "snapshot", "open", "write", "rename"}
Fds == {"none", "tmp", "cache", "gone"}
Empty == [a \in Accounts |-> NoKey]
Idle == [pc |-> "idle", data |-> Empty, fd |-> "none"]

Init ==
    /\ accounts = Empty
    /\ streamKeys = [k \in Keys |-> NoAccount]
    /\ cache = NoFile /\ tmp = NoFile
    /\ save = [h \in Handlers |-> Idle]
    /\ failed = FALSE /\ alone = TRUE

at(h, l) == save[h].pc = l

(* A request begins: it overlaps the others that are being served.         *)
Begins == alone' = (alone /\ \A g \in Handlers : at(g, "idle"))

------------------------------------------------------------------------------
(* Issuing replaces the account's old key.  It also takes the new key over *)
(* from whoever held it in the reverse index, which has one entry a key.   *)
WithoutKeyOf_Kept(a) == streamKeys
WithoutKeyOf(a) ==
    [k \in Keys |-> IF k = accounts[a] THEN NoAccount ELSE streamKeys[k]]

IssueStreamKey(h, a, k) ==
    /\ at(h, "idle")
    /\ accounts' = [accounts EXCEPT ![a] = k]
    /\ streamKeys' = [WithoutKeyOf(a) EXCEPT ![k] = a]
    /\ save' = [save EXCEPT ![h].pc = "snapshot"]
    /\ Begins
    /\ UNCHANGED <<cache, tmp, failed>>

(* A revocation of an account that has no key changes and saves nothing.   *)
AfterRevoke_Unsaved == "idle"
AfterRevoke == "snapshot"

RevokeStreamKey(h, a) ==
    /\ at(h, "idle")
    /\ accounts[a] # NoKey
    /\ accounts' = [accounts EXCEPT ![a] = NoKey]
    /\ streamKeys' = WithoutKeyOf(a)
    /\ save' = [save EXCEPT ![h].pc = AfterRevoke]
    /\ Begins
    /\ UNCHANGED <<cache, tmp, failed>>

IsIssuedKey(k) == streamKeys[k] # NoAccount

------------------------------------------------------------------------------
(* saveCache: a snapshot of the accounts under s.mu, os.WriteFile to the   *)
(* temporary file, which truncates, writes and closes it, and a rename.    *)

Snapshot(h) ==
    /\ at(h, "snapshot")
    /\ save' = [save EXCEPT ![h].pc = "open", ![h].data = accounts]
    /\ UNCHANGED <<accounts, streamKeys, cache, tmp, failed, alone>>

Open_InPlace(h) ==
    /\ at(h, "open")
    /\ cache' = Truncated
    /\ save' = [save EXCEPT ![h].pc = "write", ![h].fd = "cache"]
    /\ UNCHANGED <<accounts, streamKeys, tmp, failed, alone>>
Open(h) ==
    /\ at(h, "open")
    /\ tmp' = Truncated
    /\ save' = [save EXCEPT ![h].pc = "write", ![h].fd = "tmp"]
    /\ UNCHANGED <<accounts, streamKeys, cache, failed, alone>>

(* A snapshot written from the start of a file over a longer one leaves    *)
(* the end of that one.                                                    *)
Overwritten(old, new) ==
    IF old \in {Truncated, new} THEN {new} ELSE {new, Garbled}

WriteTo(h, onTmp, onCache) ==
    \/ /\ save[h].fd = "tmp"
       /\ tmp' \in onTmp
       /\ UNCHANGED cache
    \/ /\ save[h].fd = "cache"
       /\ cache' \in onCache
       /\ UNCHANGED tmp
    \/ /\ save[h].fd = "gone"
       /\ UNCHANGED <<cache, tmp>>

AfterWrite(h) == "none"

Write(h) ==
    /\ at(h, "write")
    /\ WriteTo(h, Overwritten(tmp, save[h].data),
                  Overwritten(cache, save[h].data))
    /\ save' = [save EXCEPT ![h].pc = "rename", ![h].fd = AfterWrite(h),
                            ![h].data = Empty]
    /\ UNCHANGED <<accounts, streamKeys, failed, alone>>

(* The rename takes the file along with whoever still has it open.         *)
FdAfterRename(fd) ==
    CASE fd = "tmp" -> "cache"
      [] fd = "cache" -> "gone"
      [] OTHER -> fd

Rename(h) ==
    /\ at(h, "rename")
    /\ tmp # NoFile
    /\ cache' = tmp
    /\ tmp' = NoFile
    /\ save' = [g \in Handlers |->
                  IF g = h THEN Idle
                  ELSE [save[g] EXCEPT !.fd = FdAfterRename(@)]]
    /\ failed' = FALSE
    /\ UNCHANGED <<accounts, streamKeys, alone>>

(* The save returns an error: another save has renamed the file away, or   *)
(* the file system refuses to open, to write all of it or to rename.       *)
SaveFails(h) ==
    /\ \/ /\ at(h, "rename") /\ (tmp = NoFile \/ DiskFails)
          /\ UNCHANGED <<cache, tmp>>
       \/ /\ at(h, "open") /\ DiskFails
          /\ UNCHANGED <<cache, tmp>>
       \/ /\ at(h, "write") /\ DiskFails
          /\ WriteTo(h, {tmp, Garbled}, {cache, Garbled})
    /\ save' = [save EXCEPT ![h] = Idle]
    /\ failed' = TRUE
    /\ UNCHANGED <<accounts, streamKeys, alone>>

------------------------------------------------------------------------------
(* The process dies, at any point, and starts again with LoadCache, which  *)
(* leaves the maps empty when there is no file or it does not parse.  When *)
(* several accounts hold one key, the last one the map iteration gives     *)
(* gets the entry of the reverse index.                                    *)
Loaded(file) == IF file \in {NoFile, Truncated, Garbled} THEN Empty ELSE file

HoldersOf(k, table) == {a \in Accounts : table[a] = k}

Restart ==
    /\ accounts' = Loaded(cache)
    /\ streamKeys' \in [Keys -> Accounts \cup {NoAccount}]
    /\ \A k \in Keys :
         LET holders == HoldersOf(k, Loaded(cache))
         IN  streamKeys'[k] \in (IF holders = {} THEN {NoAccount} ELSE holders)
    /\ save' = [h \in Handlers |-> Idle]
    /\ failed' = FALSE /\ alone' = TRUE
    /\ UNCHANGED <<cache, tmp>>

Handle(h) ==
    \/ \E a \in Accounts, k \in Keys : IssueStreamKey(h, a, k)
    \/ \E a \in Accounts : RevokeStreamKey(h, a)
    \/ Snapshot(h) \/ Open(h) \/ Write(h) \/ Rename(h) \/ SaveFails(h)

Next == Restart \/ \E h \in Handlers : Handle(h)

Spec == Init /\ [][Next]_vars

------------------------------------------------------------------------------
Files == Tables \cup {NoFile, Truncated, Garbled}
Locals == [pc : Places, data : Tables, fd : Fds]

(* Type correctness; a handler has a file open exactly while it writes.    *)
TypeOK ==
    /\ accounts \in Tables
    /\ streamKeys \in [Keys -> Accounts \cup {NoAccount}]
    /\ cache \in Files
    /\ tmp \in Files
    /\ save \in [Handlers -> Locals]
    /\ failed \in BOOLEAN /\ alone \in BOOLEAN
    /\ \A h \in Handlers : at(h, "write") <=> save[h].fd # "none"

(* A key an encoder can publish with is the present key of the account it  *)
(* is indexed under: a replaced or revoked key is refused at once, in      *)
(* whatever order keys are issued, shared, revoked and reloaded.           *)
AcceptedKeyIsHeld ==
    \A k \in Keys : IsIssuedKey(k) => accounts[streamKeys[k]] = k

(* The store's own consistency, in any interleaving of requests.           *)
StoreInv == TypeOK /\ AcceptedKeyIsHeld

(* Once no save is under way and the last one did not fail, the file holds *)
(* the keys in force: an answered request outlives the process.  Requests  *)
(* that overlapped may have left an older table, or none that can be read, *)
(* until the process starts again.                                         *)
SavedWhenIdle ==
    (\A h \in Handlers : at(h, "idle")) /\ alone /\ ~failed
        => Loaded(cache) = accounts

Ledger == INSTANCE KeyLedger WITH
    issued <- accounts,
    stored <- Loaded(cache)

(* As long as requests come one after the other, they, failing saves and   *)
(* restarts leave on disk a whole table that was in force, never a partial *)
(* or mixed file.                                                          *)
ImplementsLedger ==
    Ledger!Init /\ [][alone' => Ledger!Next]_<<accounts, Loaded(cache)>>

==============================================================================
