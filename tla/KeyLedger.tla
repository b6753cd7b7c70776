------------------------------ MODULE KeyLedger ------------------------------
(***************************************************************************)
(* What the stream keys promise when requests come one at a time: a table  *)
(* of who holds which key, and a stored copy of it that is always whole,   *)
(* always a table that was in force, and all that a restart remembers.     *)
(* StreamKeyStore implements this module while its requests do not overlap.*)
(***************************************************************************)
CONSTANTS Accounts, Keys, NoKey

VARIABLES
    issued, \* per account: its key, or NoKey
    stored  \* the table on disk

Tables == [Accounts -> Keys \cup {NoKey}]
Empty == [a \in Accounts |-> NoKey]

Init == issued = Empty /\ stored = Empty

Change(a, k) ==
    /\ issued' = [issued EXCEPT ![a] = k]
    /\ UNCHANGED stored

Store ==
    /\ stored' = issued
    /\ UNCHANGED issued

Restart ==
    /\ issued' = stored
    /\ UNCHANGED stored

Next ==
    \/ \E a \in Accounts, k \in Keys \cup {NoKey} : Change(a, k)
    \/ Store
    \/ Restart

Spec == Init /\ [][Next]_<<issued, stored>>

==============================================================================
