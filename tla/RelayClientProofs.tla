------------------------- MODULE RelayClientProofs -------------------------
(* Theorems about the relay client, for any hosts and announcements.       *)
EXTENDS RelayClient, TLAPS

(* The time a host is ignored is the time since it was left: recent, which *)
(* is only history, is what the code remembers, until the client ends.     *)
Remembered ==
    /\ ignored \subseteq recent
    /\ pc # "ended" => recent \subseteq ignored
    /\ pc = "dial" => target \notin ignored

IInv == TypeOK /\ Remembered

USE AddrsAssumption, NodesAssumption, AudienceAssumption
    DEF Places, QuitReasons

LEMMA InitInv == Init => IInv
<1> SUFFICES ASSUME Init PROVE IInv
  OBVIOUS
<1> USE DEF Init
<1>1. sourceNodes \in [Sessions -> Announcements \cup {NoNode}]
  OBVIOUS
<1>2. bcst \in [pc : {"off", "sample", "write", "wait"}, last : 0..MaxAudience]
  OBVIOUS
<1>3. bcst.pc # "off" <=> pc \in {"body", "quit"}
  OBVIOUS
<1> QED BY <1>1, <1>2, <1>3 DEF IInv, TypeOK, Remembered

(* Whatever selectSourceHost returns is an address that is not ignored.    *)
LEMMA ChoicesNotIgnored ==
    ASSUME TypeOK
    PROVE  /\ Choices \subseteq Addrs \ ignored
           /\ Choices = {} => Tracker \in ignored
<1>1. ASSUME Connectable # {} PROVE Choices \subseteq Addrs \ ignored /\ Choices # {}
  <2>1. \A n \in Connectable :
           AddrOf(n) \in Addrs \ ignored
    <3>1. Known \subseteq Announcements
      BY DEF TypeOK, Known
    <3>2. \A n \in Announcements :
             n.global \in Addrs \cup {NoAddr} /\ n.local \in Addrs \cup {NoAddr}
      BY DEF SourceNode
    <3> QED BY <3>1, <3>2 DEF Connectable, AddrOf
  <2>2. \E n \in Connectable : MayWin(n)
    BY <1>1 DEF MayWin
  <2> QED BY <1>1, <2>1, <2>2 DEF Choices
<1>2. ASSUME Connectable = {} PROVE Choices = {Tracker} \ ignored
  BY <1>2 DEF Choices, Fallback
<1> QED BY <1>1, <1>2

LEMMA StepInv == IInv /\ [Next]_vars => IInv'
<1> SUFFICES ASSUME IInv, [Next]_vars PROVE IInv'
  OBVIOUS
<1> USE DEF IInv, TypeOK, Remembered
<1>1. CASE Select
  <2>1. Choices \subseteq Addrs \ ignored
    BY ChoicesNotIgnored
  <2> QED BY <1>1, <2>1 DEF Select, hosts, reporting
<1>2. CASE Dial
  BY <1>2 DEF Dial, Ended, hosts
<1>3. CASE Accepted
  BY <1>3 DEF Accepted, hosts
<1>4. CASE HandshakeFails
  BY <1>4 DEF HandshakeFails, Ended, hosts
<1>5. CASE HandshakeInterrupted
  BY <1>5 DEF HandshakeInterrupted, Ended, hosts
<1>6. CASE LearnHost
  <2>1. PICK n \in Announcements :
           sourceNodes' = [sourceNodes EXCEPT ![n.session] = n]
    BY <1>6 DEF LearnHost
  <2>2. sourceNodes' \in [Sessions -> Announcements \cup {NoNode}]
    BY <2>1
  <2> QED BY <1>6, <2>2 DEF LearnHost, Reading, reporting
<1>7. CASE Leave
  BY <1>7 DEF Leave, ReadEnds, Reading, Ended, hosts
<1>8. CASE SendQuit
  BY <1>8 DEF SendQuit, Ended, hosts
<1>9. CASE Decide
  BY <1>9 DEF Decide, Ignore, reporting
<1>10. CASE bcstHostLoop
  BY <1>10 DEF bcstHostLoop, FirstReport, ChangeReport, PeriodicReport,
               writeBcstHost, writeBcstHostFails, Sample, hosts
<1>11. CASE Stop
  BY <1>11 DEF Stop, hosts, reporting
<1>12. CASE SetGlobalIP
  BY <1>12 DEF SetGlobalIP, reporting
<1>13. CASE AudienceChanges
  BY <1>13 DEF AudienceChanges, hosts
<1>14. ASSUME NEW s \in Sessions, NodeExpires(s) PROVE IInv'
  <2>1. sourceNodes' \in [Sessions -> Announcements \cup {NoNode}]
    BY <1>14 DEF NodeExpires
  <2> QED BY <1>14, <2>1 DEF NodeExpires, reporting
<1>15. ASSUME NEW a \in Addrs, IgnoreExpires(a) PROVE IInv'
  BY <1>15 DEF IgnoreExpires, reporting
<1>16. CASE UNCHANGED vars
  BY <1>16 DEF vars, hosts, reporting
<1> QED BY <1>1, <1>2, <1>3, <1>4, <1>5, <1>6, <1>7, <1>8, <1>9, <1>10, <1>11,
           <1>12, <1>13, <1>14, <1>15, <1>16 DEF Next, Run

LEMMA Invariance == Spec => []IInv
BY InitInv, StepInv, PTL DEF Spec

(* Every reachable state of the client is well typed, and its reporter     *)
(* runs exactly while connected.                                           *)
THEOREM TypeCorrect == Spec => []TypeOK
BY Invariance, PTL DEF IInv

(* No host is dialled again within three minutes of being left, whatever   *)
(* hosts are announced and whichever of them is chosen.                    *)
THEOREM RedialCorrect == Spec => []NoRedial
<1>1. IInv => NoRedial
  BY DEF IInv, Remembered, NoRedial
<1> QED BY <1>1, Invariance, PTL

(* The client gives up only after the tracker has refused or failed it.    *)
THEOREM GivesUpCorrect == Spec => GivesUpAfterTracker
<1>1. IInv /\ [Next]_vars => [pc' = "ended" /\ ~cancelled => Tracker \in recent']_pc
  <2> SUFFICES ASSUME IInv, [Next]_vars, pc' # pc, pc' = "ended", ~cancelled
               PROVE  Tracker \in recent'
    OBVIOUS
  <2> USE DEF Ended
  <2>1. CASE Select
    <3>1. Choices = {}
      BY <2>1 DEF Select
    <3>2. Tracker \in ignored
      BY <3>1, ChoicesNotIgnored DEF IInv
    <3> QED BY <2>1, <3>2 DEF Select, hosts, IInv, Remembered
  <2>2. CASE Decide
    BY <2>2 DEF Decide
  <2>3. ~(Dial \/ Accepted \/ HandshakeFails \/ HandshakeInterrupted)
    BY DEF Dial, Accepted, HandshakeFails, HandshakeInterrupted
  <2>4. ~(LearnHost \/ Leave \/ SendQuit)
    BY DEF LearnHost, Leave, ReadEnds, SendQuit
  <2>5. ~bcstHostLoop
    BY DEF bcstHostLoop, FirstReport, ChangeReport, PeriodicReport,
           writeBcstHost, writeBcstHostFails
  <2>6. ~(Stop \/ SetGlobalIP \/ AudienceChanges)
    BY DEF Stop, SetGlobalIP, AudienceChanges
  <2>7. ~(\E s \in Sessions : NodeExpires(s)) /\ ~(\E a \in Addrs : IgnoreExpires(a))
    BY DEF NodeExpires, IgnoreExpires
  <2>8. ~UNCHANGED vars
    BY DEF vars
  <2> QED BY <2>1, <2>2, <2>3, <2>4, <2>5, <2>6, <2>7, <2>8 DEF Next, Run
<1> QED BY <1>1, Invariance, PTL DEF Spec, GivesUpAfterTracker

(* The client is never connected to a host it has just had to leave.       *)
THEOREM DialCorrect == Spec => []DialInv
  BY TypeCorrect, RedialCorrect, PTL DEF DialInv

==============================================================================
