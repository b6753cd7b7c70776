--------------------------- MODULE PCPStreamProofs ---------------------------
(***************************************************************************)
(* Theorems about PCPStream, for any number of relays, any buffer size,    *)
(* width, packet and chunk lengths, and any bounds.                        *)
(***************************************************************************)
EXTENDS PCPStream, SequenceTheorems, WellFoundedInduction, TLAPS

(* A set of naturals that is not empty has a least element.                *)
LEMMA MinIsLeast ==
    ASSUME NEW S \in SUBSET Nat, S # {}
    PROVE  Min(S) \in S /\ \A y \in S : Min(S) <= y
<1> DEFINE Less == {ss \in Nat \X Nat : ss[1] < ss[2]}
<1>1. IsWellFoundedOn(Less, Nat)
  BY NatLessThanWellFounded, Zenon DEF OpToRel
<1>2. \E x \in S : \A y \in S : ~(<<y, x>> \in Less)
  <2> HIDE DEF Less
  <2> QED BY <1>1, WFMin
<1>3. PICK x \in S : \A y \in S : ~(<<y, x>> \in Less)  BY <1>2
<1>4. ASSUME NEW y \in S PROVE x <= y
  <2>1. <<y, x>> \in Nat \X Nat /\ <<y, x>>[1] = y /\ <<y, x>>[2] = x
    OBVIOUS
  <2>2. ~(y < x)  BY <1>3, <2>1
  <2> QED BY <2>2
<1> QED BY <1>4 DEF Min

(* Positions are counted modulo Width.                                     *)
LEMMA PlusType ==
    ASSUME NEW p \in Int, NEW q \in Int
    PROVE  Plus(p, q) \in Positions
BY SizesAssumption DEF Plus, Positions

LEMMA PositionsAreNumbers ==
    0 \in Positions /\ \A p \in Positions : p \in Nat /\ p \in Int
BY SizesAssumption DEF Positions

LEMMA LengthsAreNumbers == \A l \in Lengths : l \in Nat /\ l \in Int
BY SizesAssumption

LEMMA SinceType ==
    ASSUME SourceTypeOK, NEW pos \in Positions
    PROVE  Since(pos) \in Seq(Packets)
<1> DEFINE found == {i \in DOMAIN window : window[i].Pos >= pos}
<1>1. window \in Seq(Packets)  BY DEF SourceTypeOK
<1>2. Len(window) \in Nat /\ DOMAIN window = 1..Len(window)
  BY <1>1, LenProperties
<1>3. found \in SUBSET (1..Len(window))  BY <1>2
<1>4. CASE found = {}
  BY <1>4, EmptySeq DEF Since
<1>5. CASE found # {}
  <2> DEFINE m == Min(found)
  <2>1. found \in SUBSET Nat  BY <1>2, <1>3
  <2> HIDE DEF found
  <2>2. m \in 1..Len(window)  BY <1>3, <1>5, <2>1, MinIsLeast
  <2> HIDE DEF m
  <2>3. SubSeq(window, m, Len(window)) \in Seq(Packets)
    BY <1>1, <1>2, <2>2, SubSeqProperties
  <2> QED BY <1>5, <2>3 DEF Since, found, m
<1> QED BY <1>4, <1>5

------------------------------------------------------------------------------
(* What the peer has received stays well formed.                           *)
LEMMA ChunksType ==
    ASSUME NEW pkt \in Packets
    PROVE  /\ NumChunks(pkt.len) \in Nat \ {0}
           /\ \A i \in 1..NumChunks(pkt.len) :
                 Chunks(pkt)[i].Pos \in Int /\ Chunks(pkt)[i].len \in Int
<1> DEFINE l == pkt.len
           n == NumChunks(l)
<1>1. l \in Nat \ {0} /\ pkt.Pos \in Int
  <2>1. l \in Lengths /\ pkt.Pos \in Positions  BY DEF Packets
  <2> QED BY <2>1, SizesAssumption, PositionsAreNumbers
<1>2. MaxBodyLen \in Nat \ {0}  BY SizesAssumption
<1> HIDE DEF l
<1>3. n \in Nat \ {0}
  <2> DEFINE a == l + MaxBodyLen - 1
  <2>1. a \in Nat /\ a >= MaxBodyLen  BY <1>1, <1>2
  <2> HIDE DEF a
  <2>2. a \div MaxBodyLen \in Nat /\ a \div MaxBodyLen >= 1
    BY <1>2, <2>1
  <2> QED BY <2>2 DEF NumChunks, a
<1> HIDE DEF n
<1>4. ASSUME NEW i \in 1..n
      PROVE  Chunks(pkt)[i].Pos \in Int /\ Chunks(pkt)[i].len \in Int
  <2> DEFINE k == (i - 1) * MaxBodyLen
             b == IF i < n THEN MaxBodyLen ELSE l - k
  <2>1. k \in Int  BY <1>2, <1>3
  <2> HIDE DEF k
  <2>2. Plus(pkt.Pos, k) \in Int
    <3>1. Plus(pkt.Pos, k) \in Positions  BY <1>1, <2>1, PlusType
    <3> QED BY <3>1, PositionsAreNumbers
  <2>3. b \in Int  BY <1>1, <1>2, <2>1
  <2>4. Chunks(pkt)[i] = [Pos |-> Plus(pkt.Pos, k), len |-> b]
    BY DEF Chunks, n, l, k
  <2> HIDE DEF b
  <2> QED BY <2>2, <2>3, <2>4
<1> QED BY <1>3, <1>4 DEF n, l

LEMMA WithBodyType ==
    ASSUME NEW p \in Peers, NEW n \in Nat, NEW pos \in Int, NEW len \in Int
    PROVE  WithBody(p, n, pos, len) \in Peers
<1> DEFINE c == CASE p.header = 0 -> 0
                  [] p.header # 0 /\ p.headerPos > pos ->
                        Plus(p.headerPos, HeaderLen)
                  [] OTHER -> Plus(pos, len)
           b == p.repeated \/ (p.header # 0 /\ n <= p.last)
<1>1. p.headerPos \in Int /\ HeaderLen \in Int /\ 0 \in Positions
  BY SizesAssumption DEF Peers, Positions
<1>2. Plus(p.headerPos, HeaderLen) \in Positions /\ Plus(pos, len) \in Positions
  BY <1>1, PlusType
<1>3. c \in Positions  BY <1>1, <1>2
<1>4. b \in BOOLEAN  BY DEF Peers
<1>5. WithBody(p, n, pos, len) =
        [p EXCEPT !.content = c, !.last = n, !.repeated = b]
  BY DEF WithBody
<1> HIDE DEF c, b
<1> QED BY <1>3, <1>4, <1>5 DEF Peers

LEMMA WithHeaderType ==
    ASSUME NEW p \in Peers, NEW h \in Nat, NEW pos \in Positions
    PROVE  WithHeader(p, h, pos) \in Peers
<1>1. Plus(pos, HeaderLen) \in Positions
  BY PlusType, SizesAssumption DEF Positions
<1> QED BY <1>1 DEF WithHeader, Peers

------------------------------------------------------------------------------
(* The locals of a relay's goroutine.                                      *)
LEMMA PutLocals ==
    ASSUME LocalsOK, NEW r \in Relays, NEW x \in Locals,
           run' = [run EXCEPT ![r] = x],
           x.pc \in {"batch", "send"} => x.packets # << >>,
           peer' \in [Relays -> Peers]
    PROVE  LocalsOK'
BY DEF LocalsOK

LEMMA GotoType ==
    ASSUME LocalsOK, NEW r \in Relays,
           NEW l \in Places \ {"batch", "send"}, Goto(r, l), UNCHANGED peer
    PROVE  LocalsOK'
<1>1. PICK x \in Locals : x = run[r]  BY DEF LocalsOK
<1> DEFINE y == [x EXCEPT !.pc = l, !.woken = FALSE]
<1>2. y \in Locals /\ y.pc \notin {"batch", "send"}  BY DEF Locals
<1>3. run' = [run EXCEPT ![r] = y]  BY <1>1 DEF Goto
<1> QED BY <1>2, <1>3, PutLocals DEF LocalsOK

LEMMA FreshType ==
    ASSUME NEW l \in Places, NEW n \in 0..MaxConns
    PROVE  Fresh(l, n) \in Locals
<1>1. 0 \in Positions  BY SizesAssumption DEF Positions
<1>2. "header" \in Kinds  BY DEF Kinds
<1> QED BY <1>1, <1>2, EmptySeq DEF Fresh, Locals

LEMMA LeaveType ==
    ASSUME LocalsOK, NEW r \in Relays, Leave(r), peer' \in [Relays -> Peers]
    PROVE  LocalsOK'
<1>1. run[r].conns \in 0..MaxConns  BY DEF LocalsOK, Locals
<1>2. Fresh("done", run[r].conns) \in Locals  BY <1>1, FreshType DEF Places
<1>3. Fresh("done", run[r].conns).pc = "done"  BY DEF Fresh
<1> QED BY <1>2, <1>3, PutLocals DEF Leave

LEMMA BeginType ==
    ASSUME SourceTypeOK, LocalsOK, NEW r \in Relays,
           Register(r) \/ ReadFields(r) \/ sendInitial(r) \/ Start(r)
               \/ StartOldest(r)
    PROVE  LocalsOK'
<1>1. PICK x \in Locals : x = run[r]  BY DEF LocalsOK
<1>2. /\ version \in [Kinds -> Nat] /\ headerPos \in Positions
      /\ peer \in [Relays -> Peers]
  BY DEF SourceTypeOK, LocalsOK
<1>3. CASE Register(r)
  <2> DEFINE y == [x EXCEPT !.pc = "fields", !.reqPos = peer[r].content]
  <2>1. y \in Locals /\ y.pc = "fields"  BY <1>2 DEF Locals, Places, Peers
  <2>2. run' = [run EXCEPT ![r] = y] /\ peer' = peer
    BY <1>1, <1>3 DEF Register
  <2> QED BY <1>2, <2>1, <2>2, PutLocals
<1>4. CASE ReadFields(r)
  <2> DEFINE sh == [k \in Kinds |-> IF k \in Fields THEN version[k] ELSE 0]
             y == [x EXCEPT !.shown = sh, !.pc = "header"]
  <2>1. sh \in [Kinds -> Nat]  BY <1>2
  <2>2. run' = [run EXCEPT ![r] = y] /\ peer' = peer
    BY <1>1, <1>4 DEF ReadFields, NothingElse
  <2> HIDE DEF sh
  <2>3. y \in Locals /\ y.pc = "header"  BY <2>1 DEF Locals, Places
  <2> QED BY <1>2, <2>2, <2>3, PutLocals
<1>5. CASE sendInitial(r)
  <2> DEFINE sh == [x.shown EXCEPT !["header"] = version["header"]]
             y == [x EXCEPT !.shown = sh, !.pc = "start"]
             p == WithHeader(peer[r], version["header"], headerPos)
  <2>1. version["header"] \in Nat  BY <1>2 DEF Kinds
  <2>2. sh \in [Kinds -> Nat]  BY <2>1 DEF Locals
  <2>3. p \in Peers  BY <1>2, <2>1, WithHeaderType
  <2>4. run' = [run EXCEPT ![r] = y]  BY <1>1, <1>5 DEF sendInitial
  <2>5. peer' = [peer EXCEPT ![r] = p]  BY <1>5 DEF sendInitial
  <2> HIDE DEF sh, p
  <2>6. y \in Locals /\ y.pc = "start"  BY <2>2 DEF Locals, Places
  <2>7. peer' \in [Relays -> Peers]  BY <1>2, <2>3, <2>5
  <2> QED BY <2>4, <2>6, <2>7, PutLocals
<1>6. CASE Start(r)
  <2> DEFINE l == IF x.reqPos > 0 THEN "oldest" ELSE "drain"
             y == [x EXCEPT !.pos = headerPos, !.pc = l]
  <2>1. l \in {"oldest", "drain"}  OBVIOUS
  <2>2. run' = [run EXCEPT ![r] = y] /\ peer' = peer
    BY <1>1, <1>6 DEF Start, NothingElse
  <2> HIDE DEF l
  <2>3. y \in Locals /\ y.pc = l  BY <1>2, <2>1 DEF Locals, Places
  <2> QED BY <1>2, <2>1, <2>2, <2>3, PutLocals
<1>7. CASE StartOldest(r)
  <2> DEFINE p == StartAt(x.reqPos)
             y == [x EXCEPT !.pos = p, !.reqPos = 0, !.pc = "drain"]
  <2>1. OldestPos \in Positions
    <3>1. window # << >> => window[1] \in Packets
      BY HeadTailProperties DEF SourceTypeOK
    <3> QED BY <3>1, PositionsAreNumbers DEF OldestPos, Packets
  <2>2. p \in Positions  BY <2>1 DEF StartAt, Locals
  <2>3. run' = [run EXCEPT ![r] = y] /\ peer' = peer
    BY <1>1, <1>7 DEF StartOldest, NothingElse
  <2> HIDE DEF p
  <2>4. y \in Locals /\ y.pc = "drain"
    BY <2>2, PositionsAreNumbers DEF Locals, Places
  <2> QED BY <1>2, <2>3, <2>4, PutLocals
<1> QED BY <1>3, <1>4, <1>5, <1>6, <1>7

LEMMA TakeTokenType ==
    ASSUME LocalsOK, NEW r \in Relays, NEW from,
           NEW to \in {"updDrain", "updWait"}, TakeToken(r, from, to)
    PROVE  LocalsOK'
<1>1. PICK x \in Locals : x = run[r]  BY DEF LocalsOK
<1>2. PICK k \in Kinds :
        run' = [run EXCEPT ![r].upd = k, ![r].woken = FALSE, ![r].pc = to]
  BY DEF TakeToken
<1> DEFINE y == [x EXCEPT !.upd = k, !.woken = FALSE, !.pc = to]
<1>3. y \in Locals /\ y.pc = to  BY DEF Locals, Places
<1>4. run' = [run EXCEPT ![r] = y]  BY <1>1, <1>2
<1> QED BY <1>3, <1>4, PutLocals DEF LocalsOK, TakeToken

LEMMA SendUpdateType ==
    ASSUME SourceTypeOK, LocalsOK, NEW r \in Relays, SendUpdate(r)
    PROVE  LocalsOK'
<1>1. PICK x \in Locals : x = run[r]  BY DEF LocalsOK
<1> DEFINE k == x.upd
           sh == [x.shown EXCEPT ![k] = version[k]]
           y == [x EXCEPT !.shown = sh, !.upd = "header", !.pc = "drain"]
           p == WithHeader(peer[r], version[k], headerPos)
<1>2. /\ version \in [Kinds -> Nat] /\ headerPos \in Positions
      /\ peer \in [Relays -> Peers]
  BY DEF SourceTypeOK, LocalsOK
<1>3. k \in Kinds /\ version[k] \in Nat  BY <1>2 DEF Locals
<1>4. sh \in [Kinds -> Nat]  BY <1>3 DEF Locals
<1>5. p \in Peers  BY <1>2, <1>3, WithHeaderType
<1>6. run' = [run EXCEPT ![r] = y]  BY <1>1 DEF SendUpdate
<1>7. peer' = [peer EXCEPT ![r] = p] \/ peer' = peer  BY <1>1 DEF SendUpdate
<1> HIDE DEF sh, p, k
<1>8. y \in Locals /\ y.pc = "drain"  BY <1>4 DEF Locals, Places, Kinds
<1>9. peer' \in [Relays -> Peers]  BY <1>2, <1>5, <1>7
<1> QED BY <1>6, <1>8, <1>9, PutLocals

LEMMA FetchLocalsType ==
    ASSUME SourceTypeOK, LocalsOK, NEW r \in Relays, Fetch(r)
    PROVE  LocalsOK'
<1>1. PICK x \in Locals : x = run[r]  BY DEF LocalsOK
<1> DEFINE b == Since(x.pos)
           w == x.woken /\ b = << >>
           l == IF b = << >> THEN "wait" ELSE "batch"
           y == [x EXCEPT !.packets = b, !.woken = w, !.pc = l]
<1>2. b \in Seq(Packets)  BY SinceType DEF Locals
<1>3. w \in BOOLEAN  BY DEF Locals
<1>4. l \in {"wait", "batch"} /\ (l = "batch" => b # << >>)  OBVIOUS
<1>5. run' = [run EXCEPT ![r] = y] /\ peer' = peer
  BY <1>1 DEF Fetch, NothingElse
<1> HIDE DEF b, w, l
<1>6. y \in Locals /\ y.pc = l /\ y.packets = b
  BY <1>2, <1>3, <1>4 DEF Locals, Places
<1> QED BY <1>4, <1>5, <1>6, PutLocals DEF LocalsOK

LEMMA CheckOverflowType ==
    ASSUME LocalsOK, NEW r \in Relays, CheckOverflow(r)
    PROVE  LocalsOK'
<1>1. PICK x \in Locals : x = run[r]  BY DEF LocalsOK
<1>2. x.pc = "batch" /\ x.packets # << >>
  BY <1>1 DEF CheckOverflow, at, LocalsOK
<1> DEFINE y == [x EXCEPT !.pc = "send", !.woken = FALSE]
<1>3. y \in Locals /\ y.packets # << >>  BY <1>2 DEF Locals, Places
<1>4. peer' = peer /\ peer \in [Relays -> Peers]
  BY DEF CheckOverflow, NothingElse, LocalsOK
<1>5. CASE Leave(r)
  BY <1>4, <1>5, LeaveType
<1>6. CASE Goto(r, "send")
  <2>1. run' = [run EXCEPT ![r] = y]  BY <1>1, <1>6 DEF Goto
  <2> QED BY <1>3, <1>4, <2>1, PutLocals
<1> QED BY <1>5, <1>6 DEF CheckOverflow

(* What a relay receives of packet pkt, to the end of its i-th chunk.      *)
LEMMA ReceivedType ==
    ASSUME LocalsOK, NEW r \in Relays, NEW pkt \in Packets,
           NEW i \in 1..NumChunks(pkt.len)
    PROVE  Received(r, pkt.n, Chunks(pkt)[i]) \in [Relays -> Peers]
<1>1. peer \in [Relays -> Peers] /\ pkt.n \in Nat  BY DEF LocalsOK, Packets
<1>2. Chunks(pkt)[i].Pos \in Int /\ Chunks(pkt)[i].len \in Int
  BY ChunksType
<1> DEFINE p == WithBody(peer[r], pkt.n, Chunks(pkt)[i].Pos, Chunks(pkt)[i].len)
<1>3. p \in Peers  BY <1>1, <1>2, WithBodyType
<1>4. Received(r, pkt.n, Chunks(pkt)[i]) = [peer EXCEPT ![r] = p]
  BY DEF Received
<1> HIDE DEF p
<1> QED BY <1>1, <1>3, <1>4

LEMMA SendType ==
    ASSUME LocalsOK, NEW r \in Relays, Send(r)
    PROVE  LocalsOK'
<1>1. PICK x \in Locals : x = run[r]  BY DEF LocalsOK
<1> DEFINE pkt == Head(x.packets)
           g == Skip(r, pkt)
           b == Tail(x.packets)
           q == After(pkt)
           l == IF Len(x.packets) = 1 THEN "drain" ELSE x.pc
           y == [x EXCEPT !.pos = q, !.last = pkt.n, !.waitingForKeyframe = g,
                          !.packets = b, !.pc = l]
<1>2. x.pc = "send" /\ x.packets \in Seq(Packets) /\ x.packets # << >>
  BY <1>1 DEF Send, LocalsOK, Locals, at
<1>3. /\ pkt \in Packets /\ b \in Seq(Packets)
      /\ Len(b) = Len(x.packets) - 1 /\ Len(x.packets) \in Nat
  BY <1>2, HeadTailProperties, LenProperties
<1>4. q \in Positions
  <2>1. pkt.Pos \in Positions /\ pkt.len \in Lengths  BY <1>3 DEF Packets
  <2> HIDE DEF pkt
  <2>2. pkt.Pos \in Int /\ pkt.len \in Int
    BY <2>1, LengthsAreNumbers, PositionsAreNumbers
  <2> QED BY <2>2, PlusType DEF After
<1>5. g \in BOOLEAN /\ pkt.n \in Nat  BY <1>3 DEF Skip, Packets
<1>6. l \in {"drain", "send"} /\ (l = "send" => b # << >>)
  <2>1. Len(x.packets) # 0  BY <1>2, EmptySeq
  <2>2. b = << >> => Len(b) = 0
    <3> HIDE DEF b
    <3> QED OBVIOUS
  <2>3. Len(x.packets) # 1 => b # << >>
    <3> HIDE DEF b
    <3> QED BY <1>3, <2>1, <2>2
  <2> QED BY <1>2, <2>3
<1>7. run' = [run EXCEPT ![r] = y]  BY <1>1 DEF Send
<1>8. peer' \in [Relays -> Peers]
  <2> DEFINE i == NumChunks(pkt.len)
  <2>1. i \in 1..i  BY <1>3, ChunksType
  <2>2. Received(r, pkt.n, Chunks(pkt)[i]) \in [Relays -> Peers]
    BY <1>3, <2>1, ReceivedType
  <2> QED BY <1>1, <2>2 DEF Send, LocalsOK
<1> HIDE DEF pkt, g, b, q, l
<1>9. y \in Locals /\ y.pc = l /\ y.packets = b
  BY <1>3, <1>4, <1>5, <1>6 DEF Locals, Places
<1> QED BY <1>6, <1>7, <1>8, <1>9, PutLocals

LEMMA SendBreaksType ==
    ASSUME LocalsOK, NEW r \in Relays, SendBreaks(r)
    PROVE  LocalsOK'
<1>1. PICK x \in Locals : x = run[r]  BY DEF LocalsOK
<1> DEFINE pkt == Head(x.packets)
<1>2. pkt \in Packets
  <2>1. x.packets \in Seq(Packets) /\ x.packets # << >>
    BY <1>1 DEF SendBreaks, LocalsOK, Locals, at
  <2> QED BY <2>1, HeadTailProperties
<1>3. PICK i \in 1..(NumChunks(pkt.len) - 1) :
          peer' = Received(r, pkt.n, Chunks(pkt)[i])
  BY <1>1 DEF SendBreaks
<1>4. i \in 1..NumChunks(pkt.len)  BY <1>2, ChunksType
<1>5. peer' \in [Relays -> Peers]  BY <1>2, <1>3, <1>4, ReceivedType
<1> QED BY <1>5, LeaveType DEF SendBreaks

LEMMA RenewType ==
    ASSUME LocalsOK, NEW r \in Relays, Remove(r) \/ Reconnect(r)
    PROVE  LocalsOK'
<1>1. run[r].conns \in 0..MaxConns  BY DEF LocalsOK, Locals
<1>2. CASE Remove(r)
  <2>1. Fresh("removed", run[r].conns) \in Locals
    BY <1>1, FreshType DEF Places
  <2>2. Fresh("removed", run[r].conns).pc = "removed"  BY DEF Fresh
  <2> QED BY <1>2, <2>1, <2>2, PutLocals DEF Remove, LocalsOK
<1>3. CASE Reconnect(r)
  <2>1. run[r].conns + 1 \in 0..MaxConns
    BY <1>1, <1>3, BoundsAssumption DEF Reconnect
  <2>2. Fresh("new", run[r].conns + 1) \in Locals
    BY <2>1, FreshType DEF Places
  <2>3. Fresh("new", run[r].conns + 1).pc = "new"  BY DEF Fresh
  <2> QED BY <1>3, <2>2, <2>3, PutLocals DEF Reconnect, LocalsOK, NothingElse
<1> QED BY <1>2, <1>3

(* A Write's signal wakes those that hold the channel.                     *)
LEMMA WriteSignalType ==
    ASSUME LocalsOK, NEW s \in Sources, WriteSignal(s) PROVE LocalsOK'
<1>1. ASSUME NEW r \in Relays
      PROVE  /\ [run[r] EXCEPT !.woken = Holding(r)] \in Locals
             /\ run'[r].pc = run[r].pc /\ run'[r].packets = run[r].packets
  <2>1. PICK x \in Locals : x = run[r]  BY DEF LocalsOK
  <2>2. Holding(r) \in BOOLEAN  BY DEF Holding
  <2>3. run'[r] = [x EXCEPT !.woken = Holding(r)]  BY <2>1 DEF WriteSignal
  <2> QED BY <2>1, <2>2, <2>3 DEF Locals
<1>2. run' \in [Relays -> Locals]  BY <1>1 DEF WriteSignal
<1> QED BY <1>1, <1>2 DEF LocalsOK, WriteSignal

LEMMA StepLocalsOK ==
    ASSUME SourceTypeOK, LocalsOK, [Next]_vars
    PROVE  LocalsOK'
<1>1. CASE UNCHANGED <<run, peer>>
  BY <1>1 DEF LocalsOK
<1>2. ASSUME NEW r \in Relays, Close(r) PROVE LocalsOK'
  BY <1>1, <1>2 DEF Close
<1>3. CASE Source
  BY <1>1, <1>3, WriteSignalType
  DEF Source, SetHeader, SetHeaderSnapshot, NotifyHeader, SetField, Notify, Write, Age
<1>4. ASSUME NEW r \in Relays,
             \/ drainNotifications(r) \/ GetSignal(r) \/ Wait(r)
             \/ StallTimeout(r) \/ WriteFails(r)
      PROVE  LocalsOK'
  <2>1. \/ \E l \in Places \ {"batch", "send"} : Goto(r, l) /\ UNCHANGED peer
        \/ Leave(r) /\ UNCHANGED peer
        \/ \E from, to \in Places :
              to \in {"updDrain", "updWait"} /\ TakeToken(r, from, to)
    BY <1>4 DEF drainNotifications, GetSignal, Wait, StallTimeout, WriteFails,
                NothingElse, Places
  <2>2. peer \in [Relays -> Peers]  BY DEF LocalsOK
  <2> QED BY <2>1, <2>2, GotoType, LeaveType, TakeTokenType
<1>5. ASSUME NEW r \in Relays, Run(r) PROVE LocalsOK'
  BY <1>4, <1>5, BeginType, SendUpdateType, FetchLocalsType,
     CheckOverflowType, SendType, RenewType DEF Run
<1>6. ASSUME NEW r \in Relays,
             Register(r) \/ Reconnect(r) \/ SendBreaks(r)
      PROVE  LocalsOK'
  BY <1>6, BeginType, RenewType, SendBreaksType
<1>7. CASE UNCHANGED vars
  BY <1>1, <1>7 DEF vars
<1> QED BY <1>2, <1>3, <1>4, <1>5, <1>6, <1>7 DEF Next

------------------------------------------------------------------------------
(* The source.                                                             *)
LEMMA PushedType ==
    ASSUME SourceTypeOK, NEW p \in Packets
    PROVE  /\ Log!Pushed(p) \in Seq(Packets) /\ Len(Log!Pushed(p)) <= Size
           /\ Log!Pushed(p) # << >> /\ Log!Pushed(p)[Len(Log!Pushed(p))] = p
<1> DEFINE w == IF Len(window) < Size THEN window ELSE Tail(window)
<1>1. /\ window \in Seq(Packets) /\ Len(window) \in Nat /\ Len(window) <= Size
      /\ Size \in Nat \ {0}
  BY LenProperties, SizesAssumption DEF SourceTypeOK
<1>2. w \in Seq(Packets) /\ Len(w) \in Nat /\ Len(w) < Size
  <2>1. CASE Len(window) < Size  BY <1>1, <2>1
  <2>2. CASE ~(Len(window) < Size)
    <3>1. Len(window) = Size /\ window # << >>
      BY <1>1, <2>2, EmptySeq
    <3>2. Tail(window) \in Seq(Packets) /\ Len(Tail(window)) = Len(window) - 1
      BY <1>1, <3>1, HeadTailProperties
    <3> QED BY <1>1, <2>2, <3>1, <3>2
  <2> QED BY <2>1, <2>2
<1>3. Log!Pushed(p) = Append(w, p)  BY DEF Log!Pushed
<1> HIDE DEF w
<1>4. /\ Append(w, p) \in Seq(Packets) /\ Len(Append(w, p)) = Len(w) + 1
      /\ Append(w, p)[Len(w) + 1] = p /\ Append(w, p) # << >>
  BY <1>2, AppendProperties
<1> QED BY <1>1, <1>2, <1>3, <1>4

LEMMA StepSourceOK ==
    ASSUME SourceTypeOK, SharedTypeOK, [Next]_vars
    PROVE  SourceTypeOK'
<1>1. CASE UNCHANGED <<sourceVars, old>>
  BY <1>1 DEF SourceTypeOK, sourceVars, bufferVars, writerVars
<1>2. ASSUME NEW s \in Sources, NEW pos \in HeaderPos, SetHeader(s, pos)
      PROVE  SourceTypeOK'
  <2>1. pos \in Positions
    BY SizesAssumption
  <2>2. << >> \in Seq(Packets) /\ Len(<< >>) <= Size
    BY EmptySeq, SizesAssumption
  <2>3. version' \in [Kinds -> Nat]
    BY <1>2 DEF SetHeader, SourceTypeOK, Kinds
  <2>4. window' \in Seq(Packets) /\ Len(window') <= Size
    BY <1>2, <2>2 DEF SetHeader
  <2>5. /\ headerPos' \in Positions /\ settingHeader' \subseteq Sources
        /\ UNCHANGED <<reached, written, wentBack, unsignalled, toTell, old>>
    BY <1>2, <2>1 DEF SetHeader, SourceTypeOK
  <2> QED BY <2>3, <2>4, <2>5 DEF SourceTypeOK
<1>3. ASSUME NEW s \in Sources, SetHeaderSnapshot(s), SharedTypeOK
      PROVE  SourceTypeOK'
  BY <1>3 DEF SetHeaderSnapshot, SourceTypeOK, SharedTypeOK, bufferVars
<1>4. ASSUME NEW k \in Fields, SetField(k) PROVE SourceTypeOK'
  <2>1. version' \in [Kinds -> Nat]
    BY <1>4 DEF SetField, SourceTypeOK, Kinds
  <2> QED BY <1>4, <2>1 DEF SetField, SourceTypeOK, bufferVars, writerVars
<1>5. ASSUME NEW s \in Sources, NEW pos \in BodyPos, NEW len \in Lengths,
             NEW key \in BOOLEAN, Write(s, pos, len, key)
      PROVE  SourceTypeOK'
  <2> DEFINE p == [Pos |-> pos, len |-> len, key |-> key, n |-> written + 1]
  <2>1. p \in Packets
    BY BoundsAssumption, SizesAssumption DEF SourceTypeOK, Packets
  <2>2. window' \in Seq(Packets) /\ Len(window') <= Size
    <3>1. window' = Log!Pushed(p)  BY <1>5 DEF Write
    <3> HIDE DEF p
    <3> QED BY <2>1, <3>1, PushedType
  <2>3. reached' \in Nat
    <3>1. pos \in Nat /\ len \in Nat
      BY LengthsAreNumbers, PositionsAreNumbers, SizesAssumption
    <3>2. reached' = pos + len  BY <1>5 DEF Write
    <3> QED BY <3>1, <3>2
  <2>4. written' \in 0..MaxWrites /\ old' \in 0..written'
    BY <1>5, BoundsAssumption DEF Write, SourceTypeOK
  <2>5. wentBack' \subseteq {"rewound", "again"}
    BY <1>5 DEF Write, SourceTypeOK
  <2>6. unsignalled' \subseteq Sources
        /\ UNCHANGED <<version, headerPos, settingHeader, toTell>>
    BY <1>5 DEF Write, SourceTypeOK
  <2> QED BY <2>2, <2>3, <2>4, <2>5, <2>6 DEF SourceTypeOK
<1>6. ASSUME NEW s \in Sources, WriteSignal(s) PROVE SourceTypeOK'
  BY <1>6 DEF WriteSignal, SourceTypeOK, bufferVars
<1>7. CASE Age
  BY <1>7, BoundsAssumption DEF Age, SourceTypeOK, sourceVars, bufferVars, writerVars
<1>8. ASSUME NEW r \in Relays, NEW k \in Fields, Notify(r, k)
      PROVE  SourceTypeOK'
  BY <1>1, <1>8 DEF Notify
<1>9. ASSUME NEW s \in Sources, NEW r \in Relays, NotifyHeader(s, r)
      PROVE  SourceTypeOK'
  BY <1>9 DEF NotifyHeader, SourceTypeOK, bufferVars
<1>10. ASSUME NEW r \in Relays, Remove(r) PROVE SourceTypeOK'
  BY <1>10 DEF Remove, SourceTypeOK, bufferVars
<1>11. ASSUME NEW r \in Relays,
              \/ Register(r) \/ Reconnect(r) \/ (Run(r) /\ ~Remove(r)) \/ Close(r)
              \/ StallTimeout(r) \/ WriteFails(r) \/ SendBreaks(r)
       PROVE  SourceTypeOK'
  <2>1. UNCHANGED <<sourceVars, old>>
    BY <1>11 DEF Register, Reconnect, Run, Close, StallTimeout, WriteFails,
        SendBreaks, ReadFields, sendInitial, Start, StartOldest,
        drainNotifications, TakeToken, SendUpdate, GetSignal, Fetch,
        CheckOverflow, Send, Wait, NothingElse
  <2> QED BY <1>1, <2>1
<1>12. CASE UNCHANGED vars
  BY <1>1, <1>12 DEF vars
<1>13. CASE Source
  BY <1>2, <1>3, <1>4, <1>5, <1>6, <1>7, <1>8, <1>9, <1>13 DEF Source
<1> QED BY <1>10, <1>11, <1>12, <1>13 DEF Next

LEMMA StepSharedOK ==
    ASSUME SharedTypeOK, [Next]_vars
    PROVE  SharedTypeOK'
<1>1. ASSUME UNCHANGED sharedVars PROVE SharedTypeOK'
  BY <1>1 DEF SharedTypeOK, sharedVars
<1>2. ASSUME NEW k \in Fields, SetField(k) PROVE SharedTypeOK'
  <2>1. \A r \in Relays : [toNotify[r] EXCEPT ![k] = @ + 1] \in [Fields -> Nat]
    BY DEF SharedTypeOK
  <2>2. toNotify' \in [Relays -> [Fields -> Nat]]
    BY <1>2, <2>1 DEF SetField, CopyOutputs, SharedTypeOK
  <2> QED BY <1>2, <2>2 DEF SetField, SharedTypeOK
<1>3. ASSUME NEW s \in Sources, NEW r \in Relays, NotifyHeader(s, r)
      PROVE  SharedTypeOK'
  <2>1. <<r, "header">> \in Relays \X Kinds  BY DEF Kinds
  <2> QED BY <1>3, <2>1 DEF NotifyHeader, SharedTypeOK
<1>5. ASSUME NEW r \in Relays, NEW k \in Fields, Notify(r, k)
      PROVE  SharedTypeOK'
  <2>1. toNotify' \in [Relays -> [Fields -> Nat]]
    BY <1>5 DEF Notify, SharedTypeOK
  <2>2. <<r, k>> \in Relays \X Kinds  BY DEF Kinds
  <2> QED BY <1>5, <2>1, <2>2 DEF Notify, SharedTypeOK
<1>6. CASE Source
  <2>1. CASE \/ \E s \in Sources :
                 \/ \E pos \in HeaderPos : SetHeader(s, pos)
                 \/ SetHeaderSnapshot(s) \/ WriteSignal(s)
                 \/ \E pos \in BodyPos, len \in Lengths, key \in BOOLEAN :
                        Write(s, pos, len, key)
             \/ Age
    BY <1>1, <2>1 DEF SetHeader, SetHeaderSnapshot, Write, WriteSignal, Age
  <2> QED BY <1>2, <1>3, <1>5, <1>6, <2>1 DEF Source
<1>7. ASSUME NEW r \in Relays, NEW from, NEW to, TakeToken(r, from, to)
      PROVE  SharedTypeOK'
  BY <1>7 DEF TakeToken, SharedTypeOK
<1>8. ASSUME NEW r \in Relays, Register(r) \/ Close(r) PROVE SharedTypeOK'
  BY <1>8 DEF Register, Close, SharedTypeOK
<1>9. ASSUME NEW r \in Relays, Remove(r) PROVE SharedTypeOK'
  BY <1>9 DEF Remove, SharedTypeOK
<1>10. ASSUME NEW r \in Relays,
              \/ ReadFields(r) \/ sendInitial(r) \/ Start(r) \/ StartOldest(r)
              \/ drainNotifications(r) \/ SendUpdate(r) \/ GetSignal(r)
              \/ Fetch(r) \/ CheckOverflow(r) \/ Send(r) \/ Wait(r)
              \/ Reconnect(r) \/ StallTimeout(r) \/ WriteFails(r)
              \/ SendBreaks(r)
       PROVE  SharedTypeOK'
  <2>1. \/ UNCHANGED sharedVars
        \/ \E from, to \in Places : TakeToken(r, from, to)
    BY <1>10 DEF Reconnect, StallTimeout, WriteFails,
        SendBreaks, ReadFields, sendInitial, Start, StartOldest,
        drainNotifications, SendUpdate, GetSignal, Fetch,
        CheckOverflow, Send, Wait, NothingElse, Places
  <2> QED BY <1>1, <1>7, <2>1
<1>11. CASE UNCHANGED vars
  BY <1>1, <1>11 DEF vars
<1> QED BY <1>6, <1>8, <1>9, <1>10, <1>11 DEF Next, Run

LEMMA InitType == Init => TypeOK
<1> SUFFICES ASSUME Init PROVE TypeOK
  OBVIOUS
<1>1. << >> \in Seq(Packets) /\ Len(<< >>) = 0  BY EmptySeq
<1>2. reached \in Nat /\ 0 \in Positions
  BY PositionsAreNumbers DEF Init
<1>3. SourceTypeOK
  <2>1. window \in Seq(Packets) /\ Len(window) <= Size
    BY <1>1, SizesAssumption DEF Init
  <2>2. version \in [Kinds -> Nat] /\ wentBack = {}  BY DEF Init
  <2>3. /\ headerPos \in Positions /\ unsignalled = {} /\ settingHeader = {}
        /\ toTell \in [Sources -> SUBSET Relays]
    BY <1>2 DEF Init
  <2>4. written \in 0..MaxWrites /\ old \in 0..written
    BY BoundsAssumption DEF Init
  <2> QED BY <1>2, <2>1, <2>2, <2>3, <2>4 DEF SourceTypeOK
<1>4. SharedTypeOK  BY DEF Init, SharedTypeOK
<1>5. Fresh("new", 0) \in Locals /\ Fresh("new", 0).pc = "new"
  <2>1. 0 \in 0..MaxConns /\ "new" \in Places  BY BoundsAssumption DEF Places
  <2> QED BY <2>1, FreshType DEF Fresh
<1>6. NewPeer \in Peers  BY <1>2 DEF NewPeer, Peers
<1>7. LocalsOK  BY <1>5, <1>6 DEF Init, LocalsOK
<1> QED BY <1>3, <1>4, <1>7 DEF TypeOK

(* The state of the source, the channel, the relays' goroutines and what   *)
(* their nodes have received is always well formed: positions are within   *)
(* Width, the buffer within Size, and a relay that is about to take a      *)
(* packet has one (sendDataPackets).                                       *)
THEOREM TypeCorrect == Spec => []TypeOK
<1>1. TypeOK /\ [Next]_vars => TypeOK'
  BY StepSourceOK, StepSharedOK, StepLocalsOK DEF TypeOK
<1> QED BY <1>1, InitType, PTL DEF Spec

------------------------------------------------------------------------------
(* Nothing new is forgotten.  The invariant is inductive by itself, given  *)
(* the types.  First the steps that leave the relays' locals alone.        *)
LEMMA SourceAnnounces ==
    ASSUME TypeOK, OutdatedIsAnnounced,
           Source \/ UNCHANGED vars \/ \E r \in Relays : Close(r)
    PROVE  OutdatedIsAnnounced'
<1>1. /\ outputs \subseteq Relays /\ run \in [Relays -> Locals]
      /\ toNotify \in [Relays -> [Fields -> Nat]] /\ version \in [Kinds -> Nat]
      /\ toTell \in [Sources -> SUBSET Relays]
  BY DEF TypeOK, SourceTypeOK, SharedTypeOK, LocalsOK
<1>2. ASSUME UNCHANGED <<version, settingHeader, toTell, toNotify, tokens, outputs,
                         run>>
      PROVE  OutdatedIsAnnounced'
  BY <1>2 DEF OutdatedIsAnnounced, HasRead, Announced, Streaming, at
<1>3. ASSUME NEW s \in Sources, NEW pos, SetHeader(s, pos)
      PROVE  OutdatedIsAnnounced'
  BY <1>1, <1>3 DEF SetHeader, OutdatedIsAnnounced, HasRead, Announced, Streaming,
                    at, sharedVars
<1>4. ASSUME NEW s \in Sources, SetHeaderSnapshot(s)
      PROVE  OutdatedIsAnnounced'
  <2> SUFFICES ASSUME NEW u \in outputs, NEW j \in Kinds,
                      HasRead(u, j)', run'[u].shown[j] # version'[j]
               PROVE  Announced(u, j)'
    BY <1>4 DEF OutdatedIsAnnounced, SetHeaderSnapshot, sharedVars
  <2>1. UNCHANGED <<version, toNotify, tokens, outputs, run>>
    BY <1>4 DEF SetHeaderSnapshot, sharedVars
  <2>2. Announced(u, j)
    BY <2>1 DEF OutdatedIsAnnounced, HasRead, Streaming, at
  <2>3. u \in toTell'[s]  BY <1>1, <1>4 DEF SetHeaderSnapshot
  <2> QED BY <2>1, <2>2, <2>3 DEF Announced
<1>5. ASSUME NEW s \in Sources, NEW r \in Relays, NotifyHeader(s, r)
      PROVE  OutdatedIsAnnounced'
  <2> SUFFICES ASSUME NEW u \in outputs, NEW j \in Kinds,
                      HasRead(u, j)', run'[u].shown[j] # version'[j]
               PROVE  Announced(u, j)'
    BY <1>5 DEF OutdatedIsAnnounced, NotifyHeader
  <2>1. UNCHANGED <<version, settingHeader, toNotify, run>>
        /\ tokens' = tokens \cup {<<r, "header">>}
        /\ toTell' = [toTell EXCEPT ![s] = @ \ {r}]
    BY <1>5 DEF NotifyHeader
  <2>2. Announced(u, j)
    BY <2>1 DEF OutdatedIsAnnounced, HasRead, Streaming, at
  <2>3. CASE u = r /\ j = "header"
    BY <2>1, <2>3 DEF Announced
  <2>4. CASE u # r
    <3>1. \A i \in Sources : u \in toTell[i] => u \in toTell'[i]
      BY <1>1, <2>1, <2>4
    <3> QED BY <2>1, <2>2, <3>1 DEF Announced
  <2>5. CASE j # "header"
    BY <2>1, <2>2, <2>5 DEF Announced
  <2> QED BY <2>3, <2>4, <2>5
<1>6. ASSUME NEW k \in Fields, SetField(k) PROVE OutdatedIsAnnounced'
  <2> SUFFICES ASSUME NEW r \in outputs, NEW j \in Kinds,
                      HasRead(r, j)', run'[r].shown[j] # version'[j]
               PROVE  Announced(r, j)'
    BY <1>6 DEF OutdatedIsAnnounced, SetField
  <2>1. toNotify'[r] = [toNotify[r] EXCEPT ![k] = @ + 1]
    BY <1>1, <1>6 DEF SetField, CopyOutputs
  <2>2. CASE j = k
    BY <1>1, <2>1, <2>2 DEF Announced
  <2>3. CASE j # k
    <3>1. UNCHANGED <<settingHeader, toTell, tokens, run>>
          /\ version'[j] = version[j]
      BY <1>1, <1>6, <2>3 DEF SetField, writerVars
    <3>2. HasRead(r, j) /\ run[r].shown[j] # version[j]
      BY <3>1 DEF HasRead, Streaming, at
    <3>3. Announced(r, j)  BY <3>2 DEF OutdatedIsAnnounced
    <3> QED BY <1>1, <2>1, <2>3, <3>1, <3>3 DEF Announced
  <2> QED BY <2>2, <2>3
<1>7. ASSUME NEW r \in Relays, NEW k \in Fields, Notify(r, k)
      PROVE  OutdatedIsAnnounced'
  <2> SUFFICES ASSUME NEW u \in outputs, NEW j \in Kinds,
                      HasRead(u, j)', run'[u].shown[j] # version'[j]
               PROVE  Announced(u, j)'
    BY <1>7 DEF OutdatedIsAnnounced, Notify
  <2>1. UNCHANGED <<version, settingHeader, toTell, run>>
    BY <1>7 DEF Notify, sourceVars, writerVars
  <2>2. Announced(u, j)
    BY <2>1 DEF OutdatedIsAnnounced, HasRead, Streaming, at
  <2>3. CASE u = r /\ j = k
    BY <1>7, <2>3 DEF Notify, Announced
  <2>4. CASE ~(u = r /\ j = k)
    <3>1. j \in Fields => toNotify'[u][j] = toNotify[u][j]
      BY <1>1, <1>7, <2>4 DEF Notify
    <3> QED BY <1>7, <2>1, <2>2, <3>1 DEF Notify, Announced
  <2> QED BY <2>3, <2>4
<1>8. CASE \/ \E s \in Sources, pos \in BodyPos, len \in Lengths, key \in BOOLEAN :
                Write(s, pos, len, key)
           \/ Age \/ UNCHANGED vars \/ \E r \in Relays : Close(r)
  BY <1>2, <1>8 DEF Write, Age, Close, vars, sourceVars, sharedVars, writerVars
<1>9. ASSUME NEW s \in Sources, WriteSignal(s) PROVE OutdatedIsAnnounced'
  <2>1. \A r \in Relays : run'[r].pc = run[r].pc /\ run'[r].upd = run[r].upd
                          /\ run'[r].shown = run[r].shown
    BY <1>1, <1>9 DEF WriteSignal, Locals
  <2>2. UNCHANGED <<version, settingHeader, toTell, toNotify, tokens, outputs>>
    BY <1>9 DEF WriteSignal, sharedVars
  <2> QED BY <1>1, <2>1, <2>2
          DEF OutdatedIsAnnounced, HasRead, Announced, Streaming, at
<1>10. CASE Source
  BY <1>3, <1>4, <1>5, <1>6, <1>7, <1>8, <1>9, <1>10 DEF Source
<1> QED BY <1>8, <1>10

(* A step of relay r leaves the values and the other relays alone, so it   *)
(* is enough to look at r itself.                                          *)
RelayStep(r) ==
    \/ Register(r) \/ Reconnect(r) \/ Run(r)
    \/ StallTimeout(r) \/ WriteFails(r) \/ SendBreaks(r)

LEMMA OthersUndisturbed ==
    ASSUME TypeOK, OutdatedIsAnnounced, NEW r \in Relays, RelayStep(r),
           r \in outputs' =>
             \A k \in Kinds : HasRead(r, k)' /\ run'[r].shown[k] # version[k]
                                => Announced(r, k)'
    PROVE  OutdatedIsAnnounced'
<1>1. /\ outputs \subseteq Relays /\ run \in [Relays -> Locals]
      /\ toNotify \in [Relays -> [Fields -> Nat]]
      /\ toTell \in [Sources -> SUBSET Relays]
  BY DEF TypeOK, SourceTypeOK, SharedTypeOK, LocalsOK
<1>2. /\ version' = version /\ settingHeader' = settingHeader
      /\ outputs' \ {r} = outputs \ {r}
  BY DEF RelayStep, Register, Reconnect, Run, StallTimeout, WriteFails,
     SendBreaks, ReadFields, sendInitial, Start, StartOldest,
     drainNotifications, TakeToken, SendUpdate, GetSignal, Fetch,
     CheckOverflow, Send, Wait, Remove, NothingElse, sourceVars, writerVars, sharedVars
<1>3. ASSUME NEW u \in Relays \ {r} PROVE run'[u] = run[u]
  BY <1>1 DEF RelayStep, Register, Reconnect, Run, StallTimeout, WriteFails,
     SendBreaks, ReadFields, sendInitial, Start, StartOldest,
     drainNotifications, TakeToken, SendUpdate, GetSignal, Fetch,
     CheckOverflow, Send, Wait, Remove, NothingElse, Goto, Leave
<1>4. ASSUME NEW u \in Relays \ {r}
      PROVE  /\ toNotify'[u] = toNotify[u]
             /\ \A k \in Kinds : <<u, k>> \in tokens => <<u, k>> \in tokens'
             /\ \A s \in Sources : u \in toTell[s] => u \in toTell'[s]
  <2>1. CASE Remove(r)
    BY <1>1, <2>1 DEF Remove
  <2>2. ASSUME NEW from, NEW to, TakeToken(r, from, to)
        PROVE  /\ toNotify'[u] = toNotify[u]
               /\ \A k \in Kinds : <<u, k>> \in tokens => <<u, k>> \in tokens'
               /\ \A s \in Sources : u \in toTell[s] => u \in toTell'[s]
    BY <2>2 DEF TakeToken, sourceVars, writerVars
  <2>3. CASE ~Remove(r) /\ ~ \E from, to \in Places : TakeToken(r, from, to)
    BY <2>3 DEF RelayStep, Register, Reconnect, Run, StallTimeout, WriteFails,
       SendBreaks, ReadFields, sendInitial, Start, StartOldest,
       drainNotifications, SendUpdate, GetSignal, Fetch, CheckOverflow, Send, Wait,
       NothingElse, sourceVars, writerVars, sharedVars, Places
  <2> QED BY <2>1, <2>2, <2>3
<1>5. ASSUME NEW u \in outputs', u # r, NEW k \in Kinds,
             HasRead(u, k)', run'[u].shown[k] # version'[k]
      PROVE  Announced(u, k)'
  <2>1. u \in outputs /\ u \in Relays \ {r}  BY <1>1, <1>2, <1>5
  <2>2. run'[u] = run[u]  BY <1>3, <2>1
  <2>3. Announced(u, k)
    BY <1>2, <1>5, <2>1, <2>2 DEF OutdatedIsAnnounced, HasRead, Streaming, at
  <2> QED BY <1>2, <1>4, <2>1, <2>2, <2>3 DEF Announced
<1> QED BY <1>2, <1>5 DEF OutdatedIsAnnounced

(* The steps of the stream loop that send no update leave shown alone.     *)
LEMMA ShownStays ==
    ASSUME run \in [Relays -> Locals], NEW r \in Relays,
           \/ Start(r) \/ StartOldest(r) \/ Fetch(r) \/ Send(r)
           \/ \E l \in Places : Goto(r, l)
    PROVE  run'[r].shown = run[r].shown
<1>1. PICK x \in Locals : x = run[r]  OBVIOUS
<1>2. CASE Start(r)
  BY <1>1, <1>2 DEF Start, Locals
<1>3. CASE StartOldest(r)
  BY <1>1, <1>3 DEF StartOldest, Locals
<1>4. CASE Fetch(r)
  BY <1>1, <1>4 DEF Fetch, Locals
<1>5. CASE Send(r)
  BY <1>1, <1>5 DEF Send, Locals
<1>6. ASSUME NEW l \in Places, Goto(r, l) PROVE run'[r].shown = run[r].shown
  BY <1>1, <1>6 DEF Goto, Locals
<1> QED BY <1>2, <1>3, <1>4, <1>5, <1>6

LEMMA RelayAnnounces ==
    ASSUME TypeOK, OutdatedIsAnnounced, NEW r \in Relays, RelayStep(r)
    PROVE  OutdatedIsAnnounced'
<1>1. SUFFICES ASSUME r \in outputs', NEW k \in Kinds, HasRead(r, k)',
                      run'[r].shown[k] # version[k]
               PROVE  Announced(r, k)'
  BY OthersUndisturbed
<1>2. PICK x \in Locals : x = run[r]  BY DEF TypeOK, LocalsOK
<1>3. run \in [Relays -> Locals] /\ version \in [Kinds -> Nat]
  BY DEF TypeOK, SourceTypeOK, LocalsOK
<1>4. r \in outputs /\ HasRead(r, k) /\ x.shown[k] # version[k]
        => Announced(r, k)
  BY <1>2 DEF OutdatedIsAnnounced
<1>5. ASSUME NEW l \in {"fields", "new", "done", "removed"}, run'[r].pc = l
      PROVE  FALSE
  BY <1>1, <1>5 DEF HasRead, Streaming, at
<1>6. CASE \/ Register(r) \/ Reconnect(r) \/ StallTimeout(r) \/ WriteFails(r)
           \/ SendBreaks(r) \/ Remove(r)
  <2>1. run'[r].pc \in {"fields", "new", "done", "removed"}
    BY <1>3, <1>6 DEF Register, Reconnect, StallTimeout, WriteFails, SendBreaks,
        Remove, Goto, Leave, Fresh, Locals
  <2> QED BY <1>5, <2>1
<1>7. CASE ReadFields(r)
  <2>1. run'[r].pc = "header"  BY <1>3, <1>7 DEF ReadFields, Locals
  <2>2. k \in Fields  BY <1>1, <2>1 DEF HasRead, Streaming, at
  <2>3. run'[r].shown[k] = version[k]
    BY <1>3, <1>7, <2>2 DEF ReadFields, Locals
  <2> QED BY <1>1, <2>3
<1>8. CASE sendInitial(r)
  <2>1. /\ run'[r].pc = "start" /\ run'[r].upd = x.upd
        /\ run'[r].shown = [x.shown EXCEPT !["header"] = version["header"]]
    BY <1>2, <1>3, <1>8 DEF sendInitial, Locals
  <2>2. k # "header"  BY <1>1, <1>2, <2>1 DEF Locals
  <2>3. k \in Fields /\ run'[r].shown[k] = x.shown[k]
    BY <1>2, <2>1, <2>2 DEF Kinds, Locals
  <2>4. HasRead(r, k)  BY <1>2, <1>8, <2>3 DEF sendInitial, HasRead, at
  <2>5. UNCHANGED <<outputs, tokens, toNotify, settingHeader, toTell>>
    BY <1>8 DEF sendInitial, sharedVars, sourceVars, writerVars
  <2>6. Announced(r, k)  BY <1>1, <1>4, <2>3, <2>4, <2>5
  <2>7. run[r].pc = "header"  BY <1>8 DEF sendInitial, at
  <2> QED BY <2>5, <2>6, <2>7 DEF Announced
<1>9. CASE \/ Start(r) \/ StartOldest(r) \/ GetSignal(r) \/ Fetch(r)
           \/ (CheckOverflow(r) /\ ~Leave(r)) \/ Send(r)
           \/ \E l \in Places : /\ run[r].pc \in {"drain", "wait"} /\ Goto(r, l)
                                /\ NothingElse
  <2>1. /\ UNCHANGED <<outputs, tokens, toNotify, settingHeader, toTell>>
        /\ run'[r].shown = x.shown
    <3>1. UNCHANGED <<outputs, tokens, toNotify, settingHeader, toTell>>
      BY <1>9 DEF Start, StartOldest, GetSignal, Fetch, CheckOverflow, Send,
                  NothingElse, sharedVars, sourceVars, writerVars
    <3>2. \/ Start(r) \/ StartOldest(r) \/ Fetch(r) \/ Send(r)
          \/ \E l \in Places : Goto(r, l)
      BY <1>9 DEF GetSignal, CheckOverflow, Places
    <3>3. run'[r].shown = x.shown  BY <1>2, <1>3, <3>2, ShownStays
    <3> QED BY <3>1, <3>3
  <2>2. /\ HasRead(r, k)
        /\ run[r].pc \notin {"updDrain", "updWait"}
    BY <1>9 DEF Start, StartOldest, GetSignal, Fetch, CheckOverflow, Send,
                HasRead, Streaming, at
  <2>3. Announced(r, k)  BY <1>1, <1>4, <2>1, <2>2
  <2> QED BY <2>1, <2>2, <2>3 DEF Announced
<1>10. ASSUME NEW from \in {"drain", "wait"}, NEW to \in {"updDrain", "updWait"},
              TakeToken(r, from, to)
       PROVE  Announced(r, k)'
  <2>1. PICK j \in Kinds :
          /\ tokens' = tokens \ {<<r, j>>}
          /\ run' = [run EXCEPT ![r].upd = j, ![r].woken = FALSE, ![r].pc = to]
    BY <1>10 DEF TakeToken
  <2>2. /\ run'[r].upd = j /\ run'[r].pc = to /\ run'[r].shown = x.shown
    BY <1>2, <1>3, <2>1 DEF Locals
  <2>3. UNCHANGED <<outputs, toNotify, settingHeader, toTell>>
    BY <1>10 DEF TakeToken, sourceVars, writerVars
  <2>4. run[r].pc = from  BY <1>10 DEF TakeToken, at
  <2>5. Announced(r, k)
    BY <1>1, <1>4, <2>2, <2>3, <2>4 DEF HasRead, Streaming
  <2>6. CASE j = k  BY <2>2, <2>6 DEF Announced
  <2>7. CASE j # k  BY <2>1, <2>3, <2>4, <2>5, <2>7 DEF Announced
  <2> QED BY <2>6, <2>7
<1>11. CASE SendUpdate(r)
  <2> DEFINE j == x.upd
  <2>1. /\ run'[r].pc = "drain" /\ j \in Kinds
        /\ run'[r].shown = [x.shown EXCEPT ![j] = version[j]]
    BY <1>2, <1>3, <1>11 DEF SendUpdate, Locals
  <2>2. j # k  BY <1>1, <1>2, <2>1 DEF Locals
  <2>3. run'[r].shown[k] = x.shown[k]  BY <1>2, <2>1, <2>2 DEF Locals
  <2>4. UNCHANGED <<outputs, tokens, toNotify, settingHeader, toTell>>
    BY <1>11 DEF SendUpdate, sharedVars, sourceVars, writerVars
  <2>5. HasRead(r, k)  BY <1>11 DEF SendUpdate, HasRead, Streaming
  <2>6. Announced(r, k)  BY <1>1, <1>4, <2>3, <2>4, <2>5
  <2> QED BY <1>2, <2>2, <2>4, <2>6 DEF Announced
<1>12. CASE drainNotifications(r) \/ (Wait(r) /\ ~Leave(r))
  <2>1. \/ \E l \in Places : /\ run[r].pc \in {"drain", "wait"} /\ Goto(r, l)
                             /\ NothingElse
        \/ \E from \in {"drain", "wait"}, to \in {"updDrain", "updWait"} :
              TakeToken(r, from, to)
    BY <1>12 DEF drainNotifications, Wait, at, Places
  <2> QED BY <1>9, <1>10, <2>1
<1>13. CASE Leave(r)
  <2>1. run'[r].pc = "done"  BY <1>3, <1>13 DEF Leave, Fresh
  <2> QED BY <1>5, <2>1
<1> QED BY <1>6, <1>7, <1>8, <1>9, <1>11, <1>12, <1>13 DEF RelayStep, Run

(* A relay is told of every change of header, info and track it has not    *)
(* yet been sent: none falls between sendInitial, the copy of the outputs, *)
(* a token that is already there and the reading of the value.             *)
THEOREM OutdatedCorrect == Spec => []OutdatedIsAnnounced
<1>1. Init => OutdatedIsAnnounced
  BY DEF Init, OutdatedIsAnnounced
<1>2. TypeOK /\ OutdatedIsAnnounced /\ [Next]_vars => OutdatedIsAnnounced'
  BY SourceAnnounces, RelayAnnounces DEF Next, RelayStep
<1> QED BY <1>1, <1>2, TypeCorrect, PTL DEF Spec

(* Well typed, and no relay is left with an old value unannounced.         *)
THEOREM UpdateCorrect == Spec => []UpdateInv
  BY TypeCorrect, OutdatedCorrect, PTL DEF UpdateInv

------------------------------------------------------------------------------
(* The order of packets and positions.  Buffered packets lie one after the *)
(* other as long as no packet has lain below the one before it, at all or  *)
(* under one header.                                                       *)
GoneBack == "again" \in wentBack
Rewound == "rewound" \in wentBack
Linear == ~GoneBack \/ ~Rewound

End(w) == w.Pos + w.len
Buffered == {window[i] : i \in DOMAIN window}

WindowInOrder ==
    /\ \A i \in DOMAIN window : window[i].n \in 1..written
    /\ \A i, j \in DOMAIN window : i < j =>
            /\ window[i].n < window[j].n
            /\ Linear => End(window[i]) <= window[j].Pos
    /\ window # << >> => Newest.n = written
    /\ Linear => \A i \in DOMAIN window : End(window[i]) <= reached
    /\ ~GoneBack => /\ reached < Width
                    /\ \A i \in DOMAIN window : headerPos <= window[i].Pos

LEMMA PacketNumbers ==
    ASSUME NEW w \in Packets
    PROVE  w.Pos \in Nat /\ w.Pos < Width /\ w.len \in Nat \ {0} /\ w.n \in Nat
           /\ w.key \in BOOLEAN
<1>1. w.Pos \in Positions /\ w.len \in Lengths /\ w.key \in BOOLEAN /\ w.n \in Nat
  BY DEF Packets
<1>2. w.len \in Nat \ {0}  BY <1>1, SizesAssumption
<1>3. w.Pos \in Nat /\ w.Pos < Width  BY <1>1, SizesAssumption DEF Positions
<1> QED BY <1>1, <1>2, <1>3

LEMMA SourceNumbers ==
    ASSUME SourceTypeOK
    PROVE  /\ headerPos \in Nat /\ headerPos < Width
           /\ reached \in Nat
           /\ written \in Nat /\ Width \in Nat \ {0} /\ HeaderLen \in Nat
           /\ version["header"] \in Nat
BY SizesAssumption DEF SourceTypeOK, Positions, Kinds

LEMMA WindowDomain ==
    ASSUME SourceTypeOK
    PROVE  /\ Len(window) \in Nat /\ DOMAIN window = 1..Len(window)
           /\ \A i \in 1..Len(window) : window[i] \in Packets
           /\ Buffered \subseteq Packets
           /\ window # << >> => Len(window) >= 1
<1>1. window \in Seq(Packets)  BY DEF SourceTypeOK
<1>2. /\ Len(window) \in Nat /\ DOMAIN window = 1..Len(window)
      /\ \A i \in 1..Len(window) : window[i] \in Packets
  BY <1>1, LenProperties
<1>3. window # << >> => Len(window) >= 1  BY <1>1, <1>2, EmptySeq
<1> QED BY <1>2, <1>3 DEF Buffered

(* Numbers and positions of buffered packets agree.                        *)
LEMMA BufferedInOrder ==
    ASSUME SourceTypeOK, WindowInOrder, NEW u \in Buffered, NEW w \in Buffered
    PROVE  /\ u.n <= written
           /\ u.n = w.n => u = w
           /\ Linear /\ u.n < w.n => End(u) <= w.Pos
<1>1. PICK i \in 1..Len(window), j \in 1..Len(window) :
          u = window[i] /\ w = window[j]
  BY WindowDomain DEF Buffered
<1>2. i \in DOMAIN window /\ j \in DOMAIN window /\ i \in Nat /\ j \in Nat
  BY WindowDomain
<1>3. u.n \in 1..written /\ w.n \in 1..written /\ written \in Nat
  BY <1>1, <1>2, SourceNumbers DEF WindowInOrder
<1>4. /\ i < j => u.n < w.n /\ (Linear => End(u) <= w.Pos)
      /\ j < i => w.n < u.n
  BY <1>1, <1>2 DEF WindowInOrder
<1>5. i < j \/ j < i \/ i = j  BY <1>2
<1> QED BY <1>1, <1>3, <1>4, <1>5

LEMMA NewestIsLast ==
    ASSUME SourceTypeOK, WindowInOrder, window # << >>
    PROVE  Newest \in Buffered /\ Newest.n = written /\ window[1] \in Buffered
BY WindowDomain DEF Buffered, Newest, WindowInOrder

LEMMA OldestIsFirst ==
    ASSUME SourceTypeOK, WindowInOrder, Linear, NEW w \in Buffered
    PROVE  OldestPos <= w.Pos
<1>1. PICK i \in 1..Len(window) : w = window[i]
  BY WindowDomain DEF Buffered
<1>2. Len(window) \in Nat /\ 1 \in DOMAIN window /\ i \in DOMAIN window
  BY <1>1, WindowDomain
<1>3. window[1] \in Packets /\ w \in Packets  BY <1>1, <1>2, WindowDomain
<1>4. window # << >>  BY <1>2
<1>5. OldestPos = window[1].Pos  BY <1>4 DEF OldestPos
<1>6. CASE i = 1  BY <1>1, <1>3, <1>5, <1>6, PacketNumbers
<1>7. CASE i # 1
  <2>1. 1 < i  BY <1>2, <1>7, WindowDomain
  <2>2. End(window[1]) <= w.Pos  BY <1>1, <1>2, <2>1 DEF WindowInOrder
  <2> QED BY <1>3, <1>5, <2>2, PacketNumbers DEF End
<1> QED BY <1>6, <1>7

(* What a reader at pos gets: the buffered packets from the first one at   *)
(* or beyond pos on.                                                       *)
LEMMA SinceInOrder ==
    ASSUME SourceTypeOK, WindowInOrder, NEW pos \in Positions
    PROVE  /\ \A j \in DOMAIN Since(pos) : Since(pos)[j] \in Buffered
           /\ Linear => \A j \in DOMAIN Since(pos) : pos <= Since(pos)[j].Pos
           /\ \A i, j \in DOMAIN Since(pos) :
                 i < j => Since(pos)[i].n < Since(pos)[j].n
           /\ \A w \in Buffered : pos <= w.Pos =>
                 Since(pos) # << >> /\ Head(Since(pos)).n <= w.n
<1> DEFINE found == {i \in DOMAIN window : window[i].Pos >= pos}
           m == Min(found)
           s == SubSeq(window, m, Len(window))
<1>1. /\ Len(window) \in Nat /\ DOMAIN window = 1..Len(window)
      /\ \A i \in 1..Len(window) : window[i] \in Packets
  BY WindowDomain
<1>2. pos \in Nat  BY PositionsAreNumbers
<1>3. CASE found = {}
  <2>1. Since(pos) = << >>  BY <1>3 DEF Since
  <2>2. DOMAIN Since(pos) = {}  BY <2>1
  <2>3. \A w \in Buffered : ~(pos <= w.Pos)
    <3> SUFFICES ASSUME NEW i \in DOMAIN window, pos <= window[i].Pos PROVE FALSE
      BY DEF Buffered
    <3>1. window[i].Pos \in Nat  BY <1>1, PacketNumbers
    <3>2. i \in found  BY <1>2, <3>1
    <3> QED BY <1>3, <3>2
  <2> QED BY <2>2, <2>3
<1>4. CASE found # {}
  <2>1. Since(pos) = s  BY <1>4 DEF Since
  <2>2. m \in found /\ \A i \in found : m <= i
    <3>1. found \in SUBSET Nat  BY <1>1
    <3> HIDE DEF found
    <3> QED BY <1>4, <3>1, MinIsLeast
  <2>3. m \in 1..Len(window) /\ window[m].Pos >= pos  BY <1>1, <2>2
  <2> HIDE DEF m, found
  <2>4. /\ s \in Seq(Packets) /\ Len(s) = Len(window) - m + 1
        /\ \A j \in 1..(Len(window) - m + 1) : s[j] = window[m + j - 1]
    BY <1>1, <2>3, SubSeqProperties
  <2> HIDE DEF s
  <2>5. DOMAIN s = 1..(Len(window) - m + 1)  BY <2>4, LenProperties
  <2>6. \A j \in DOMAIN s : m + j - 1 \in DOMAIN window /\ s[j] = window[m + j - 1]
    <3> SUFFICES ASSUME NEW j \in 1..(Len(window) - m + 1)
                 PROVE  m + j - 1 \in DOMAIN window /\ s[j] = window[m + j - 1]
      BY <2>5
    <3>1. m + j - 1 \in 1..Len(window)  BY <1>1, <2>3
    <3> QED BY <1>1, <2>4, <3>1
  <2>7. \A j \in DOMAIN s : s[j] \in Buffered  BY <2>6 DEF Buffered
  <2>8. ASSUME Linear, NEW j \in DOMAIN s PROVE pos <= s[j].Pos
    <3> DEFINE k == m + j - 1
    <3>1. k \in DOMAIN window /\ s[j] = window[k] /\ m <= k /\ k \in Nat
      BY <1>1, <2>3, <2>5, <2>6
    <3> HIDE DEF k
    <3>2. window[m] \in Packets /\ window[k] \in Packets  BY <1>1, <2>3, <3>1
    <3>3. m = k \/ m < k  BY <2>3, <3>1
    <3>4. m < k => End(window[m]) <= window[k].Pos
      BY <1>1, <2>3, <2>8, <3>1 DEF WindowInOrder
    <3> QED BY <1>2, <2>3, <3>1, <3>2, <3>3, <3>4, PacketNumbers DEF End
  <2>9. ASSUME NEW i \in DOMAIN s, NEW j \in DOMAIN s, i < j
        PROVE  s[i].n < s[j].n
    <3>1. m + i - 1 < m + j - 1  BY <1>1, <2>3, <2>5, <2>9
    <3> QED BY <2>6, <3>1 DEF WindowInOrder
  <2>10. s # << >> /\ Head(s) = window[m]
    <3>1. 1 \in DOMAIN s /\ m + 1 - 1 = m  BY <1>1, <2>3, <2>5
    <3>2. s[1] = window[m]  BY <2>6, <3>1
    <3>3. s # << >>  BY <3>1
    <3> QED BY <2>4, <3>2, <3>3
  <2>11. ASSUME NEW w \in Buffered, pos <= w.Pos PROVE Head(s).n <= w.n
    <3>1. PICK i \in DOMAIN window : w = window[i]  BY DEF Buffered
    <3>2. i \in found
      <4>1. w.Pos \in Nat  BY <1>1, <3>1, PacketNumbers
      <4> QED BY <1>2, <2>11, <3>1, <4>1 DEF found
    <3>3. m <= i /\ i \in Nat /\ m \in Nat  BY <1>1, <2>2, <2>3, <3>2
    <3>4. m = i \/ window[m].n < window[i].n
      BY <1>1, <2>3, <3>1, <3>3 DEF WindowInOrder
    <3>5. window[m].n \in Nat /\ window[i].n \in Nat
      BY <1>1, <2>3, <3>1, PacketNumbers
    <3> QED BY <2>10, <3>1, <3>4, <3>5
  <2> QED BY <2>1, <2>7, <2>8, <2>9, <2>10, <2>11
<1> QED BY <1>3, <1>4

(* A source's three steps.  Only Write lengthens the window.               *)
Kept ==
    /\ UNCHANGED <<window, reached, headerPos, written, wentBack>>
    /\ version'["header"] = version["header"]

Emptied ==
    /\ window' = << >> /\ UNCHANGED <<reached, written, wentBack>>
    /\ version'["header"] = version["header"] + 1

Extended(pkt) ==
    /\ pkt \in Packets /\ pkt.n = written + 1
    /\ window' = Log!Pushed(pkt) /\ written' = written + 1 /\ reached' = End(pkt)
    /\ headerPos' = headerPos /\ version'["header"] = version["header"]
    /\ ~GoneBack' => /\ ~GoneBack /\ headerPos <= pkt.Pos /\ End(pkt) < Width
                     /\ window # << >> => reached <= pkt.Pos
    /\ ~Rewound' => ~Rewound /\ reached <= pkt.Pos
    /\ unsignalled' # {}

Signals == \E s \in Sources : WriteSignal(s)

LEMMA BufferSteps ==
    ASSUME TypeOK, [Next]_vars
    PROVE  \/ Kept /\ (unsignalled' = unsignalled \/ Signals)
           \/ Emptied /\ unsignalled' = unsignalled
           \/ \E pkt \in Packets : Extended(pkt)
<1>1. SourceTypeOK /\ version \in [Kinds -> Nat]
  BY DEF TypeOK, SourceTypeOK
<1>2. ASSUME NEW s \in Sources, NEW pos \in HeaderPos, SetHeader(s, pos)
      PROVE  Emptied /\ unsignalled' = unsignalled
  <2>1. version'["header"] = version["header"] + 1
    BY <1>1, <1>2 DEF SetHeader, Kinds
  <2> QED BY <1>2, <2>1 DEF SetHeader, Emptied
<1>3. ASSUME NEW s \in Sources, NEW pos \in BodyPos, NEW len \in Lengths,
             NEW key \in BOOLEAN, Write(s, pos, len, key)
      PROVE  \E pkt \in Packets : Extended(pkt)
  <2> DEFINE p == [Pos |-> pos, len |-> len, key |-> key, n |-> written + 1]
  <2>1. p \in Packets /\ p.Pos = pos /\ p.n = written + 1 /\ End(p) = pos + len
    BY <1>1, BoundsAssumption, SizesAssumption DEF SourceTypeOK, Packets, End
  <2>2. window' = Log!Pushed(p) /\ reached' = pos + len  BY <1>3 DEF Write
  <2>3. /\ Again(pos, len) => GoneBack'
        /\ Below(pos) => Rewound'
        /\ GoneBack => GoneBack'
        /\ Rewound => Rewound'
    BY <1>3 DEF Write, GoneBack, Rewound
  <2>4. /\ pos \in Nat /\ Width \in Nat \ {0} /\ len \in Nat /\ reached \in Nat
        /\ headerPos \in Nat
    BY <1>1, SourceNumbers, LengthsAreNumbers, PositionsAreNumbers, SizesAssumption
  <2>5. /\ written' = written + 1 /\ headerPos' = headerPos /\ s \in unsignalled'
        /\ version' = version
    BY <1>3 DEF Write
  <2> HIDE DEF p
  <2>6. ~GoneBack' => /\ ~GoneBack /\ headerPos <= p.Pos /\ End(p) < Width
                      /\ window # << >> => reached <= p.Pos
    BY <2>1, <2>3, <2>4 DEF Again, Below
  <2>7. ~Rewound' => ~Rewound /\ reached <= p.Pos
    BY <2>1, <2>3, <2>4 DEF Below
  <2> QED BY <2>1, <2>2, <2>5, <2>6, <2>7 DEF Extended
<1>4. CASE \/ \E s \in Sources :
               \/ SetHeaderSnapshot(s)
               \/ \E r \in Relays : NotifyHeader(s, r)
           \/ Age
           \/ \E r \in Relays, k \in Fields : Notify(r, k)
  BY <1>4 DEF SetHeaderSnapshot, NotifyHeader, Age, Notify, Kept, sourceVars,
              bufferVars, writerVars
<1>5. ASSUME NEW k \in Fields, SetField(k) PROVE Kept /\ unsignalled' = unsignalled
  BY <1>1, <1>5, FieldsAssumption DEF SetField, Kept, bufferVars, writerVars, Kinds
<1>6. CASE Signals
  BY <1>6 DEF Signals, WriteSignal, Kept, bufferVars
<1>7. ASSUME NEW r \in Relays,
             \/ Register(r) \/ Reconnect(r) \/ Run(r) \/ Close(r)
             \/ StallTimeout(r) \/ WriteFails(r) \/ SendBreaks(r)
      PROVE  Kept /\ unsignalled' = unsignalled
  <2>1. UNCHANGED <<version, bufferVars, unsignalled>>
    BY <1>7 DEF Register, Reconnect, Run, Close, StallTimeout, WriteFails,
        SendBreaks, ReadFields, sendInitial, Start, StartOldest,
        drainNotifications, TakeToken, SendUpdate, GetSignal, Fetch,
        CheckOverflow, Send, Wait, Remove, NothingElse, sourceVars, writerVars
  <2> QED BY <2>1 DEF bufferVars, Kept
<1>8. CASE UNCHANGED vars
  BY <1>8 DEF vars, sourceVars, bufferVars, writerVars, Kept
<1>9. CASE Source
  BY <1>2, <1>3, <1>4, <1>5, <1>6, <1>9 DEF Source, Signals
<1> QED BY <1>7, <1>8, <1>9 DEF Next

(* The packet pushed is the newest; the others keep their order.           *)
LEMMA PushedInOrder ==
    ASSUME SourceTypeOK, NEW pkt \in Packets
    PROVE  LET w == Log!Pushed(pkt) IN
           \E d \in {0, 1} :
              /\ d <= Len(window) /\ DOMAIN w = 1..(Len(window) + 1 - d)
              /\ Len(w) = Len(window) + 1 - d /\ w # << >>
              /\ w[Len(window) + 1 - d] = pkt
              /\ \A i \in 1..(Len(window) - d) : w[i] = window[i + d]
<1>1. /\ window \in Seq(Packets) /\ Len(window) \in Nat /\ Len(window) <= Size
      /\ Size \in Nat \ {0}
  BY LenProperties, SizesAssumption DEF SourceTypeOK
<1> DEFINE v == IF Len(window) < Size THEN window ELSE Tail(window)
           d == IF Len(window) < Size THEN 0 ELSE 1
<1>2. /\ v \in Seq(Packets) /\ Len(v) = Len(window) - d /\ d \in {0, 1}
      /\ d <= Len(window) /\ \A i \in 1..(Len(window) - d) : v[i] = window[i + d]
  <2>1. CASE Len(window) < Size
    BY <1>1, <2>1
  <2>2. CASE ~(Len(window) < Size)
    <3>1. Len(window) = Size /\ window # << >>  BY <1>1, <2>2, EmptySeq
    <3>2. /\ Tail(window) \in Seq(Packets) /\ Len(Tail(window)) = Len(window) - 1
          /\ \A i \in 1..Len(Tail(window)) : Tail(window)[i] = window[i + 1]
      BY <1>1, <3>1, HeadTailProperties
    <3> QED BY <1>1, <2>2, <3>1, <3>2
  <2> QED BY <2>1, <2>2
<1>3. Log!Pushed(pkt) = Append(v, pkt)  BY DEF Log!Pushed
<1> HIDE DEF v, d
<1> DEFINE w == Append(v, pkt)
<1>4. /\ w \in Seq(Packets) /\ w # << >> /\ Len(w) = Len(v) + 1
      /\ \A i \in 1..Len(v) : w[i] = v[i]
      /\ w[Len(v) + 1] = pkt
  BY <1>2, AppendProperties
<1>5. DOMAIN w = 1..Len(w)  BY <1>4, LenProperties
<1> HIDE DEF w
<1>6. Len(w) = Len(window) + 1 - d /\ Len(v) + 1 = Len(window) + 1 - d
  BY <1>1, <1>2, <1>4
<1>7. /\ DOMAIN w = 1..(Len(window) + 1 - d)
      /\ w[Len(window) + 1 - d] = pkt
  BY <1>4, <1>5, <1>6
<1>8. \A i \in 1..(Len(window) - d) : w[i] = window[i + d]
  BY <1>2, <1>4
<1> QED BY <1>2, <1>3, <1>4, <1>6, <1>7, <1>8 DEF w

LEMMA ExtendedInOrder ==
    ASSUME SourceTypeOK, WindowInOrder, NEW pkt \in Packets, Extended(pkt)
    PROVE  /\ WindowInOrder'
           /\ \A w \in Buffered' : w \in Buffered \/ w = pkt
<1> DEFINE K == Len(window)
<1>1. PICK d \in {0, 1} :
         /\ d <= K /\ DOMAIN window' = 1..(K + 1 - d)
         /\ Len(window') = K + 1 - d
         /\ window'[K + 1 - d] = pkt
         /\ \A i \in 1..(K - d) : window'[i] = window[i + d]
  BY PushedInOrder DEF Extended
<1>2. /\ K \in Nat /\ DOMAIN window = 1..K
      /\ \A i \in 1..K : window[i] \in Packets
  BY WindowDomain
<1>3. /\ reached \in Nat /\ written \in Nat /\ headerPos \in Nat /\ Width \in Nat
  BY SourceNumbers
<1> HIDE DEF K
<1>4. ASSUME NEW i \in DOMAIN window'
      PROVE  \/ i = K + 1 - d /\ window'[i] = pkt
             \/ i \in 1..(K - d) /\ i + d \in DOMAIN window
                /\ window'[i] = window[i + d]
  <2>1. i \in 1..(K + 1 - d)  BY <1>1
  <2>2. i = K + 1 - d \/ i \in 1..(K - d)  BY <1>2, <2>1
  <2>3. i \in 1..(K - d) => i + d \in 1..K  BY <1>2
  <2> QED BY <1>1, <1>2, <2>2, <2>3
<1>5. ASSUME NEW u \in Buffered
      PROVE  /\ u \in Packets /\ u.n \in 1..written
             /\ Linear => End(u) <= reached
             /\ ~GoneBack => headerPos <= u.Pos
             /\ End(u) \in Nat /\ window # << >>
  <2>1. PICK i \in DOMAIN window : u = window[i]  BY DEF Buffered
  <2>2. u \in Packets /\ window # << >>  BY <1>2, <2>1
  <2> QED BY <2>1, <2>2, PacketNumbers DEF WindowInOrder, End
<1>6. /\ pkt.n = written + 1 /\ written' = written + 1 /\ reached' = End(pkt)
      /\ headerPos' = headerPos
      /\ ~GoneBack' => ~GoneBack /\ headerPos <= pkt.Pos /\ End(pkt) < Width
      /\ Linear' => Linear /\ (window # << >> => reached <= pkt.Pos)
      /\ pkt.Pos \in Nat /\ End(pkt) \in Nat /\ End(pkt) >= pkt.Pos
  BY PacketNumbers DEF Extended, Linear, End
<1>7. \A w \in Buffered' : w \in Buffered \/ w = pkt
  <2> SUFFICES ASSUME NEW i \in DOMAIN window'
               PROVE  window'[i] \in Buffered \/ window'[i] = pkt
    BY DEF Buffered
  <2> QED BY <1>4 DEF Buffered
<1>8. \A i \in DOMAIN window' : window'[i] \in Buffered \/ window'[i] = pkt
  BY <1>7 DEF Buffered
<1>9. \A i \in DOMAIN window' : window'[i].n \in 1..written'
  BY <1>3, <1>5, <1>6, <1>8
<1>10. ASSUME NEW i \in DOMAIN window', NEW j \in DOMAIN window', i < j
       PROVE  /\ window'[i].n < window'[j].n
              /\ Linear' => End(window'[i]) <= window'[j].Pos
  <2>1. i \in Nat /\ j \in Nat /\ i <= K + 1 - d /\ j <= K + 1 - d
    BY <1>1, <1>2
  <2>2. i \in 1..(K - d) /\ i + d \in DOMAIN window /\ window'[i] = window[i + d]
    BY <1>2, <1>4, <1>10, <2>1
  <2>3. window'[i] \in Buffered  BY <2>2 DEF Buffered
  <2>4. CASE window'[j] = pkt
    <3>1. PICK u \in Buffered : u = window'[i]  BY <2>3
    <3>2. u.n < pkt.n  BY <1>3, <1>5, <1>6
    <3>3. Linear' => End(u) <= pkt.Pos  BY <1>3, <1>5, <1>6
    <3> QED BY <2>4, <3>1, <3>2, <3>3
  <2>5. CASE j \in 1..(K - d) /\ j + d \in DOMAIN window
                /\ window'[j] = window[j + d]
    <3>1. i + d < j + d  BY <1>10, <2>1
    <3>2. Linear' => Linear  BY <1>6
    <3> QED BY <2>2, <2>5, <3>1, <3>2 DEF WindowInOrder
  <2> QED BY <1>4, <2>4, <2>5
<1>11. window' # << >> => Newest'.n = written'
  BY <1>1, <1>6 DEF Newest
<1>12. Linear' => \A i \in DOMAIN window' : End(window'[i]) <= reached'
  <2> SUFFICES ASSUME Linear', NEW u \in Buffered'
               PROVE  End(u) <= reached'
    BY DEF Buffered
  <2>1. CASE u = pkt  BY <1>6, <2>1
  <2>2. CASE u \in Buffered  BY <1>3, <1>5, <1>6, <2>2
  <2> QED BY <1>7, <2>1, <2>2
<1>13. ~GoneBack' => /\ reached' < Width
                     /\ \A i \in DOMAIN window' : headerPos' <= window'[i].Pos
  BY <1>3, <1>5, <1>6, <1>8
<1> QED BY <1>7, <1>9, <1>10, <1>11, <1>12, <1>13 DEF WindowInOrder, End, Newest

LEMMA StepInOrder ==
    ASSUME TypeOK, WindowInOrder, [Next]_vars PROVE WindowInOrder'
<1>1. CASE Kept
  BY <1>1 DEF Kept, WindowInOrder, Newest, GoneBack, Rewound, Linear, End
<1>2. CASE Emptied
  BY <1>2 DEF Emptied, WindowInOrder, GoneBack
<1> QED BY <1>1, <1>2, BufferSteps, ExtendedInOrder DEF TypeOK

(* What a step can do to the buffer, summed up.                            *)
LEMMA BufferMoves ==
    ASSUME TypeOK, WindowInOrder, [Next]_vars
    PROVE  /\ written' \in Nat /\ written <= written'
           /\ ~GoneBack' => ~GoneBack
           /\ ~Rewound' => ~Rewound
           /\ \A w \in Buffered' :
                 \/ w \in Buffered
                 \/ w \in Packets /\ w.n = written + 1 /\ (~Rewound' => reached <= w.Pos)
           /\ ~Rewound' => reached <= reached'
           /\ \/ /\ version'["header"] = version["header"]
                 /\ headerPos' = headerPos
              \/ version'["header"] = version["header"] + 1
           /\ unsignalled' = {} => window' = window \/ window' = << >>
           /\ unsignalled # {} /\ unsignalled' = {} => Signals
<1>1. SourceTypeOK  BY DEF TypeOK
<1>2. written \in Nat /\ reached \in Nat  BY <1>1, SourceNumbers
<1>3. unsignalled' = unsignalled \/ unsignalled' # {} \/ Signals
  BY BufferSteps DEF Extended
<1>4. CASE Kept
  BY <1>2, <1>3, <1>4 DEF Kept, GoneBack, Rewound, Buffered
<1>5. CASE Emptied
  BY <1>2, <1>3, <1>5 DEF Emptied, GoneBack, Rewound, Buffered
<1>6. ASSUME NEW pkt \in Packets, Extended(pkt)
      PROVE  /\ written' \in Nat /\ written <= written'
             /\ ~GoneBack' => ~GoneBack
             /\ ~Rewound' => ~Rewound
             /\ \A w \in Buffered' :
                   \/ w \in Buffered
                   \/ /\ w \in Packets /\ w.n = written + 1
                      /\ ~Rewound' => reached <= w.Pos
             /\ ~Rewound' => reached <= reached'
             /\ /\ version'["header"] = version["header"]
                /\ headerPos' = headerPos
             /\ unsignalled' # {}
  <2>1. End(pkt) \in Nat /\ pkt.Pos \in Nat /\ pkt.Pos <= End(pkt)
    BY PacketNumbers DEF End
  <2>2. \A w \in Buffered' : w \in Buffered \/ w = pkt  BY <1>1, <1>6, ExtendedInOrder
  <2> QED BY <1>2, <1>6, <2>1, <2>2 DEF Extended
<1> QED BY <1>3, <1>4, <1>5, <1>6, BufferSteps

------------------------------------------------------------------------------
(* What a relay has, given the locals x of its goroutine and what its node *)
(* p has received.                                                         *)
Passed(n, limit) == \A w \in Buffered : w.n <= n => w.Pos < limit

(* A packet of a batch, which may have left the buffer since.              *)
Taken(q) ==
    /\ q.n <= written
    /\ ~GoneBack => /\ End(q) < Width
                    /\ \A w \in Buffered : w.n <= q.n => w.Pos <= q.Pos
    /\ ~Rewound => /\ \A w \in Buffered : q.n < w.n => End(q) <= w.Pos
                   /\ End(q) <= reached

TakenInOrder(x) ==
    x.pc \in {"batch", "send"} =>
        /\ \A j \in DOMAIN x.packets : Taken(x.packets[j])
        /\ \A i, j \in DOMAIN x.packets : i < j => x.packets[i].n < x.packets[j].n

(* The node has its header from here, and nothing buffered that it was     *)
(* given lies beyond the position it will ask for.                         *)
PeerIsBehind(p) ==
    /\ p.last <= written /\ p.header <= version["header"]
    /\ p.header = version["header"] /\ p.header # 0 => p.headerPos = headerPos
    /\ ~GoneBack => /\ ~p.repeated
                    /\ p.header = version["header"] /\ p.header # 0 =>
                         Passed(p.last, p.content)

(* Whatever it was given lies before the position the relay starts or goes *)
(* on from, and before what is on its way.                                 *)
StreamPlaces == {"drain", "updDrain", "updWait", "signal", "fetch", "batch",
                 "send", "wait"}

NoneAgain(x, p) ==
    /\ x.pc \in {"fields", "header"} => x.reqPos = p.content
    /\ ~GoneBack /\ p.header # 0 =>
        /\ x.pc \in {"start", "oldest"} => Passed(p.last, x.reqPos)
        /\ x.pc \in StreamPlaces => Passed(p.last, x.pos)
        /\ x.pc \in {"batch", "send"} =>
              \A j \in DOMAIN x.packets : p.last < x.packets[j].n

(* Whatever the relay has not got to lies at or beyond its position, or is *)
(* on its way.                                                             *)
NoneLeftOut(x) ==
    /\ x.last <= written
    /\ x.pc \in {"new", "fields", "header", "start", "oldest"} => x.last = 0
    /\ x.last # 0 /\ ~Rewound =>
        /\ \A w \in Buffered : x.last < w.n => x.pos <= w.Pos
        /\ x.pos <= reached
        /\ x.pc = "batch" =>
              \A w \in Buffered : ~(x.last < w.n /\ w.n < Head(x.packets).n)

Asleep(x) ==
    x.last # 0 /\ ~Rewound /\ x.pc = "wait" /\ ~x.woken /\ unsignalled = {} =>
        (window # << >> => x.last = Newest.n)

InOrder(x, p) ==
    TakenInOrder(x) /\ PeerIsBehind(p) /\ NoneAgain(x, p) /\ NoneLeftOut(x)

(* A step of the source, or of another relay.                              *)
LEMMA LocalsNumbers ==
    ASSUME NEW x \in Locals
    PROVE  /\ x.pos \in Nat /\ x.pos < Width /\ x.reqPos \in Nat /\ x.last \in Nat
           /\ x.packets \in Seq(Packets) /\ Len(x.packets) \in Nat
           /\ DOMAIN x.packets = 1..Len(x.packets)
           /\ \A j \in DOMAIN x.packets : x.packets[j] \in Packets
           /\ x.packets # << >> => 1 \in DOMAIN x.packets
           /\ x.packets # << >> => Head(x.packets) = x.packets[1]
<1>1. /\ x.pos \in Positions /\ x.reqPos \in Positions /\ x.last \in Nat
      /\ x.packets \in Seq(Packets)
  BY DEF Locals
<1>2. /\ Len(x.packets) \in Nat
      /\ DOMAIN x.packets = 1..Len(x.packets)
      /\ \A j \in DOMAIN x.packets : x.packets[j] \in Packets
  BY <1>1, LenProperties
<1>3. x.packets # << >> => 1 \in DOMAIN x.packets
  BY <1>1, <1>2, EmptySeq
<1>4. x.pos < Width  BY <1>1, SizesAssumption DEF Positions
<1> QED BY <1>1, <1>2, <1>3, <1>4, PositionsAreNumbers

LEMMA PassedStays ==
    ASSUME TypeOK, WindowInOrder, [Next]_vars, NEW n \in Nat, n <= written,
           NEW limit, Passed(n, limit)
    PROVE  Passed(n, limit)'
<1>1. written \in Nat  BY SourceNumbers DEF TypeOK
<1> SUFFICES ASSUME NEW w \in Buffered', w.n <= n PROVE w.Pos < limit
  BY DEF Passed
<1>2. w \in Buffered \/ w.n = written + 1  BY BufferMoves
<1> QED BY <1>1, <1>2 DEF Passed

LEMMA TakenStays ==
    ASSUME TypeOK, WindowInOrder, [Next]_vars, NEW q \in Packets, Taken(q)
    PROVE  Taken(q)'
<1>1. /\ written \in Nat /\ reached \in Nat /\ reached' \in Nat
  BY StepSourceOK, SourceNumbers DEF TypeOK, SourceTypeOK
<1>2. q.n \in Nat /\ End(q) \in Nat  BY PacketNumbers DEF End
<1>3. q.n <= written'  BY <1>1, <1>2, BufferMoves DEF Taken
<1>4. ASSUME ~GoneBack'
      PROVE  End(q) < Width /\ \A w \in Buffered' : w.n <= q.n => w.Pos <= q.Pos
  <2>1. ~GoneBack  BY <1>4, BufferMoves
  <2> SUFFICES ASSUME NEW w \in Buffered', w.n <= q.n PROVE w.Pos <= q.Pos
    BY <2>1 DEF Taken
  <2>2. w \in Buffered \/ w.n = written + 1  BY BufferMoves
  <2> QED BY <1>1, <1>2, <2>1, <2>2 DEF Taken
<1>5. ASSUME ~Rewound', NEW w \in Buffered', q.n < w.n
      PROVE  End(q) <= w.Pos
  <2>1. ~Rewound /\ End(q) <= reached  BY <1>5, BufferMoves DEF Taken
  <2>2. w \in Buffered \/ (w \in Packets /\ reached <= w.Pos)
    BY <1>5, BufferMoves
  <2>3. w \in Packets => w.Pos \in Nat  BY PacketNumbers
  <2> QED BY <1>1, <1>2, <1>5, <2>1, <2>2, <2>3 DEF Taken
<1>6. ASSUME ~Rewound' PROVE End(q) <= reached'
  <2>1. ~Rewound /\ reached <= reached'
    BY <1>6, BufferMoves
  <2> QED BY <1>1, <1>2, <2>1 DEF Taken
<1> QED BY <1>3, <1>4, <1>5, <1>6 DEF Taken, End

LEMMA PeerStays ==
    ASSUME TypeOK, WindowInOrder, [Next]_vars, NEW p \in Peers, PeerIsBehind(p)
    PROVE  PeerIsBehind(p)'
<1>1. /\ written \in Nat /\ written' \in Nat /\ written <= written'
      /\ version["header"] \in Nat
  BY SourceNumbers, BufferMoves DEF TypeOK
<1>2. p.last \in Nat /\ p.header \in Nat  BY DEF Peers
<1>3. p.last <= written' /\ p.header <= version'["header"]
  BY <1>1, <1>2, BufferMoves DEF PeerIsBehind
<1>4. ASSUME p.header = version'["header"], p.header # 0
      PROVE  /\ p.header = version["header"] /\ p.headerPos = headerPos'
             /\ p.headerPos = headerPos
  <2>1. version'["header"] = version["header"] /\ headerPos' = headerPos
    BY <1>1, <1>2, <1>4, BufferMoves DEF PeerIsBehind
  <2> QED BY <1>4, <2>1 DEF PeerIsBehind
<1>5. ASSUME ~GoneBack'
      PROVE  /\ ~p.repeated
             /\ p.header = version'["header"] /\ p.header # 0 =>
                  Passed(p.last, p.content)'
  <2>1. ~GoneBack  BY <1>5, BufferMoves
  <2>2. ASSUME p.header = version'["header"], p.header # 0
        PROVE  Passed(p.last, p.content)'
    <3>1. Passed(p.last, p.content)  BY <1>4, <2>1, <2>2 DEF PeerIsBehind
    <3>2. p.last <= written  BY DEF PeerIsBehind
    <3> QED BY <1>2, <3>1, <3>2, PassedStays
  <2> QED BY <2>1, <2>2 DEF PeerIsBehind
<1> QED BY <1>3, <1>4, <1>5 DEF PeerIsBehind

LEMMA NoneAgainStays ==
    ASSUME TypeOK, WindowInOrder, [Next]_vars, NEW x \in Locals, NEW p \in Peers,
           PeerIsBehind(p), NoneAgain(x, p)
    PROVE  NoneAgain(x, p)'
<1>1. p.last \in Nat /\ p.last <= written  BY DEF Peers, PeerIsBehind
<1>2. ~GoneBack' => ~GoneBack  BY BufferMoves
<1> QED BY <1>1, <1>2, PassedStays DEF NoneAgain

LEMMA NoneLeftOutStays ==
    ASSUME TypeOK, WindowInOrder, [Next]_vars, NEW x \in Locals,
           TakenInOrder(x), NoneLeftOut(x), x.pc = "batch" => x.packets # << >>
    PROVE  NoneLeftOut(x)'
<1>1. /\ written \in Nat /\ written' \in Nat /\ written <= written'
      /\ reached \in Nat /\ reached' \in Nat
  BY StepSourceOK, SourceNumbers, BufferMoves DEF TypeOK, SourceTypeOK
<1>2. x.last \in Nat /\ x.pos \in Nat  BY LocalsNumbers
<1>3. x.last <= written'  BY <1>1, <1>2 DEF NoneLeftOut
<1>4. ASSUME x.last # 0, ~Rewound'
      PROVE  /\ \A w \in Buffered' : x.last < w.n => x.pos <= w.Pos
             /\ x.pos <= reached'
             /\ x.pc = "batch" =>
                  \A w \in Buffered' : ~(x.last < w.n /\ w.n < Head(x.packets).n)
  <2>1. ~Rewound /\ reached <= reached'  BY <1>4, BufferMoves
  <2>2. ASSUME NEW w \in Buffered', x.last < w.n PROVE x.pos <= w.Pos
    <3>1. w \in Buffered \/ (w \in Packets /\ reached <= w.Pos)
      BY <1>4, BufferMoves
    <3>2. w \in Packets => w.Pos \in Nat  BY PacketNumbers
    <3> QED BY <1>1, <1>2, <1>4, <2>1, <2>2, <3>1, <3>2 DEF NoneLeftOut
  <2>3. x.pos <= reached'
    BY <1>1, <1>2, <1>4, <2>1 DEF NoneLeftOut
  <2>4. ASSUME x.pc = "batch", NEW w \in Buffered',
               x.last < w.n, w.n < Head(x.packets).n
        PROVE  FALSE
    <3>1. w \in Buffered \/ w.n = written + 1  BY BufferMoves
    <3>2. Taken(Head(x.packets)) /\ Head(x.packets) \in Packets
      BY <2>4, LocalsNumbers DEF TakenInOrder
    <3>3. Head(x.packets).n <= written /\ Head(x.packets).n \in Nat
      BY <3>2, PacketNumbers DEF Taken
    <3> QED BY <1>1, <1>4, <2>1, <2>4, <3>1, <3>3 DEF NoneLeftOut
  <2> QED BY <2>2, <2>3, <2>4
<1> QED BY <1>3, <1>4 DEF NoneLeftOut

LEMMA InOrderStays ==
    ASSUME TypeOK, WindowInOrder, [Next]_vars, NEW x \in Locals, NEW p \in Peers,
           InOrder(x, p), x.pc = "batch" => x.packets # << >>
    PROVE  InOrder(x, p)'
<1>1. TakenInOrder(x)'
  <2>1. \A j \in DOMAIN x.packets : x.packets[j] \in Packets  BY LocalsNumbers
  <2> QED BY <2>1, TakenStays DEF InOrder, TakenInOrder
<1> QED BY <1>1, PeerStays, NoneAgainStays, NoneLeftOutStays DEF InOrder

(* The relay's own steps, which leave the buffer alone.  First what the    *)
(* node makes of a header.                                                 *)
LEMMA HeaderKeepsPeer ==
    ASSUME SourceTypeOK, WindowInOrder, NEW p \in Peers, PeerIsBehind(p),
           NEW q, q = WithHeader(p, version["header"], headerPos)
    PROVE  /\ PeerIsBehind(q)
           /\ \/ q = p /\ q.header = version["header"]
              \/ q.last = 0
<1>1. /\ version["header"] \in Nat /\ headerPos \in Nat /\ written \in Nat
  BY SourceNumbers
<1>2. p.header \in Nat /\ p.last \in Nat  BY DEF Peers
<1>3. CASE version["header"] = 0
           \/ <<version["header"], headerPos>> = <<p.header, p.headerPos>>
  <2>1. q = p  BY <1>3 DEF WithHeader
  <2>2. p.header = version["header"]  BY <1>1, <1>2, <1>3 DEF PeerIsBehind
  <2> QED BY <2>1, <2>2
<1>4. CASE ~(version["header"] = 0
             \/ <<version["header"], headerPos>> = <<p.header, p.headerPos>>)
  <2>1. q = [p EXCEPT !.header = version["header"], !.headerPos = headerPos,
                      !.content = Plus(headerPos, HeaderLen), !.last = 0]
    BY <1>4 DEF WithHeader
  <2>2. /\ q.header = version["header"] /\ q.headerPos = headerPos /\ q.last = 0
        /\ q.repeated = p.repeated
    BY <2>1 DEF Peers
  <2>3. \A w \in Buffered : w.n > 0
    BY <1>1, WindowDomain DEF WindowInOrder, Buffered
  <2>4. Passed(0, q.content)
    <3>1. \A w \in Buffered : w.n \in Nat  BY WindowDomain, PacketNumbers
    <3> QED BY <2>3, <3>1 DEF Passed
  <2> QED BY <1>1, <1>2, <2>2, <2>4 DEF PeerIsBehind
<1> QED BY <1>3, <1>4

LEMMA NothingPassed ==
    ASSUME SourceTypeOK, WindowInOrder, NEW limit PROVE Passed(0, limit)
<1>1. \A w \in Buffered : w.n > 0 /\ w.n \in Nat
  BY WindowDomain, PacketNumbers, SourceNumbers DEF WindowInOrder, Buffered
<1> QED BY <1>1 DEF Passed

(* A chunk of a packet: it begins at or after the packet's position, and   *)
(* does not end before its first byte.                                     *)
LEMMA ChunkBounds ==
    ASSUME NEW pkt \in Packets, NEW i \in 1..NumChunks(pkt.len), End(pkt) < Width
    PROVE  LET c == Chunks(pkt)[i]
           IN  /\ c.Pos \in Nat /\ c.len \in Nat
               /\ pkt.Pos <= c.Pos /\ pkt.Pos < c.Pos + c.len
               /\ c.Pos + c.len < Width
<1> DEFINE l == pkt.len
           n == NumChunks(l)
           k == (i - 1) * MaxBodyLen
           b == IF i < n THEN MaxBodyLen ELSE l - k
<1>1. /\ l \in Nat \ {0} /\ pkt.Pos \in Nat /\ pkt.Pos + l < Width
  BY PacketNumbers DEF End
<1>2. MaxBodyLen \in Nat \ {0} /\ Width \in Nat \ {0}  BY SizesAssumption
<1>3. Chunks(pkt)[i] = [Pos |-> Plus(pkt.Pos, k), len |-> b]
  BY DEF Chunks
<1>4. n \in Nat \ {0} /\ i \in 1..n  BY ChunksType
<1>5. n = (l + MaxBodyLen - 1) \div MaxBodyLen  BY DEF NumChunks
<1> HIDE DEF n, l
<1>6. (n - 1) * MaxBodyLen < l
  <2> DEFINE a == l + MaxBodyLen - 1
  <2>1. a \in Nat  BY <1>1, <1>2
  <2>2. n = a \div MaxBodyLen  BY <1>5
  <2> HIDE DEF a
  <2>3. MaxBodyLen * n <= a
    <3>1. a = MaxBodyLen * (a \div MaxBodyLen) + (a % MaxBodyLen)
          /\ a % MaxBodyLen >= 0
      BY <1>2, <2>1
    <3>2. MaxBodyLen * n \in Int /\ a % MaxBodyLen \in Int  BY <1>2, <1>4, <2>1
    <3> QED BY <2>1, <2>2, <3>1, <3>2
  <2>4. (n - 1) * MaxBodyLen = MaxBodyLen * n - MaxBodyLen
    BY <1>2, <1>4
  <2> DEFINE m == MaxBodyLen * n
  <2>5. m \in Int  BY <1>2, <1>4
  <2> HIDE DEF m
  <2> QED BY <1>1, <1>2, <2>3, <2>4, <2>5 DEF a, m
<1>7. k \in Nat /\ k + (IF i < n THEN MaxBodyLen ELSE 0) <= (n - 1) * MaxBodyLen
  <2>1. i - 1 \in Nat /\ (i < n => i - 1 + 1 <= n - 1) /\ i - 1 <= n - 1
    BY <1>4
  <2>2. ASSUME NEW u \in Nat, NEW v \in Nat, u <= v
        PROVE  u * MaxBodyLen <= v * MaxBodyLen /\ u * MaxBodyLen \in Nat
    BY <1>2, <2>2
  <2>3. n - 1 \in Nat  BY <1>4
  <2>4. k \in Nat /\ k <= (n - 1) * MaxBodyLen  BY <2>1, <2>2, <2>3
  <2>5. i < n => (i - 1 + 1) * MaxBodyLen <= (n - 1) * MaxBodyLen
    BY <1>4, <2>1, <2>2, <2>3
  <2>6. (i - 1 + 1) * MaxBodyLen = k + MaxBodyLen
    <3> DEFINE u == i - 1
    <3>1. u \in Nat  BY <2>1
    <3>2. k = u * MaxBodyLen  OBVIOUS
    <3> HIDE DEF u
    <3>3. (u + 1) * MaxBodyLen = u * MaxBodyLen + MaxBodyLen  BY <1>2, <3>1
    <3> QED BY <3>2, <3>3 DEF u
  <2> QED BY <1>2, <2>3, <2>4, <2>5, <2>6
<1> DEFINE M == (n - 1) * MaxBodyLen
<1>8. M \in Int  BY <1>2, <1>4
<1> HIDE DEF k, M
<1>9. k < l /\ b \in Nat \ {0} /\ k + b <= l
  BY <1>1, <1>2, <1>6, <1>7, <1>8 DEF M
<1>10. Plus(pkt.Pos, k) = pkt.Pos + k
  <2>0. k \in Nat /\ k < l  BY <1>7, <1>9
  <2>1. pkt.Pos + k < Width /\ pkt.Pos + k \in Nat  BY <1>1, <1>2, <2>0
  <2> QED BY <1>2, <2>1 DEF Plus
<1> HIDE DEF b
<1> QED BY <1>1, <1>2, <1>3, <1>7, <1>9, <1>10

LEMMA AfterIsEnd ==
    ASSUME NEW q \in Packets, End(q) < Width PROVE After(q) = End(q)
<1>1. End(q) \in Nat /\ Width \in Nat \ {0}
  BY PacketNumbers, SizesAssumption DEF End
<1> QED BY <1>1 DEF After, End, Plus

LEMMA AfterIsAtMostEnd ==
    ASSUME NEW q \in Packets PROVE After(q) \in Nat /\ After(q) <= End(q)
<1>1. End(q) \in Nat /\ Width \in Nat \ {0}
  BY PacketNumbers, SizesAssumption DEF End
<1> DEFINE e == End(q)
<1>2. After(q) = e % Width  BY DEF After, End, Plus
<1>3. e \in Nat  BY <1>1
<1> HIDE DEF e
<1>4. e = Width * (e \div Width) + (e % Width) /\ e % Width \in 0..(Width - 1)
  BY <1>1, <1>3
<1>5. e % Width <= e
  BY <1>1, <1>3, <1>4
<1> QED BY <1>1, <1>2, <1>4, <1>5 DEF e

LEMMA LastChunk ==
    ASSUME NEW pkt \in Packets PROVE NumChunks(pkt.len) \in 1..NumChunks(pkt.len)
BY ChunksType

(* What the node makes of a body, or of the beginning of one: nothing it   *)
(* has been given by then is repeated, nor lies beyond its content.        *)
LEMMA BodyKeepsPeer ==
    ASSUME SourceTypeOK, WindowInOrder, NEW p \in Peers, PeerIsBehind(p),
           NEW pkt \in Packets, Taken(pkt), NEW i \in 1..NumChunks(pkt.len),
           ~GoneBack /\ p.header # 0 => p.last < pkt.n,
           NEW q,
           q = WithBody(p, pkt.n, Chunks(pkt)[i].Pos, Chunks(pkt)[i].len)
    PROVE  PeerIsBehind(q) /\ q.last = pkt.n /\ q.header = p.header
<1> DEFINE c == Chunks(pkt)[i]
           t == CASE p.header = 0 -> 0
                  [] p.header # 0 /\ p.headerPos > c.Pos ->
                        Plus(p.headerPos, HeaderLen)
                  [] OTHER -> Plus(c.Pos, c.len)
           f == p.repeated \/ (p.header # 0 /\ pkt.n <= p.last)
<1>1. /\ written \in Nat /\ version["header"] \in Nat /\ headerPos \in Nat
      /\ Width \in Nat \ {0}
  BY SourceNumbers
<1>2. /\ p.header \in Nat /\ p.last \in Nat /\ p.repeated \in BOOLEAN
      /\ p.headerPos \in Nat
  BY PositionsAreNumbers DEF Peers
<1>3. pkt.n \in Nat /\ pkt.n <= written /\ pkt.Pos \in Nat
  BY PacketNumbers DEF Taken
<1>4. q = [p EXCEPT !.content = t, !.last = pkt.n, !.repeated = f]
  BY DEF WithBody
<1> HIDE DEF t, f
<1>5. /\ q.content = t /\ q.last = pkt.n /\ q.repeated = f
      /\ q.header = p.header /\ q.headerPos = p.headerPos
  BY <1>4 DEF Peers
<1>6. ~GoneBack => ~q.repeated
  <2>1. ~GoneBack => ~f
    <3> SUFFICES ASSUME ~GoneBack PROVE ~f
      OBVIOUS
    <3>1. ~p.repeated  BY DEF PeerIsBehind
    <3>2. ~(p.header # 0 /\ pkt.n <= p.last)  BY <1>2, <1>3
    <3> QED BY <3>1, <3>2, Zenon DEF f
  <2> QED BY <1>5, <2>1, Zenon
<1>7. ASSUME ~GoneBack, p.header = version["header"], p.header # 0,
             NEW w \in Buffered, w.n <= pkt.n
      PROVE  w.Pos < t
  <2>1. w \in Packets /\ w.Pos \in Nat /\ w.Pos <= pkt.Pos /\ headerPos <= w.Pos
    BY <1>7, WindowDomain, PacketNumbers DEF Taken, WindowInOrder, Buffered
  <2>2. p.headerPos = headerPos  BY <1>7 DEF PeerIsBehind
  <2>3. /\ c.Pos \in Nat /\ c.len \in Nat /\ pkt.Pos <= c.Pos
        /\ pkt.Pos < c.Pos + c.len /\ c.Pos + c.len < Width
    BY <1>7, ChunkBounds DEF Taken
  <2> HIDE DEF c
  <2>4. ~(p.headerPos > c.Pos)  BY <1>1, <1>3, <2>1, <2>2, <2>3
  <2>5. t = Plus(c.Pos, c.len)  BY <1>7, <2>4 DEF t
  <2>6. Plus(c.Pos, c.len) = c.Pos + c.len  BY <1>1, <2>3 DEF Plus
  <2> QED BY <1>3, <2>1, <2>3, <2>5, <2>6
<1>8. ~GoneBack /\ q.header = version["header"] /\ q.header # 0
        => Passed(q.last, q.content)
  BY <1>5, <1>7 DEF Passed
<1>9. q.header = version["header"] /\ q.header # 0 => q.headerPos = headerPos
  BY <1>5 DEF PeerIsBehind
<1> QED BY <1>3, <1>5, <1>6, <1>8, <1>9 DEF PeerIsBehind

------------------------------------------------------------------------------
(* The goroutine goes on without having sent anything, or ends.            *)
GoesOn(x, y) ==
    /\ y.pos = x.pos /\ y.last = x.last /\ y.packets = x.packets
    /\ y.reqPos = x.reqPos
    /\ \/ /\ x.pc \in StreamPlaces
          /\ y.pc \in {"drain", "updDrain", "updWait", "signal", "fetch"}
       \/ x.pc = "batch" /\ y.pc = "send"

LEMMA GoingOnKeeps ==
    ASSUME NEW x, NEW p, NEW y, InOrder(x, p), GoesOn(x, y)
    PROVE  InOrder(y, p) /\ y.pc # "wait"
BY DEF GoesOn, InOrder, TakenInOrder, NoneAgain, NoneLeftOut, StreamPlaces

LEMMA GotoGoesOn ==
    ASSUME TypeOK, NEW r \in Relays, NEW l \in Places, Goto(r, l),
           \/ run[r].pc \in StreamPlaces
              /\ l \in {"drain", "updDrain", "updWait", "signal", "fetch"}
           \/ run[r].pc = "batch" /\ l = "send"
    PROVE  GoesOn(run[r], run'[r])
<1>1. PICK x \in Locals : x = run[r]  BY DEF TypeOK, LocalsOK
<1> DEFINE y == [x EXCEPT !.pc = l, !.woken = FALSE]
<1>2. run'[r] = y  BY <1>1 DEF Goto, TypeOK, LocalsOK
<1>3. /\ y.pc = l /\ y.pos = x.pos /\ y.last = x.last /\ y.packets = x.packets
      /\ y.reqPos = x.reqPos
  BY DEF Locals
<1> HIDE DEF y
<1> QED BY <1>1, <1>2, <1>3 DEF GoesOn

LEMMA TokenGoesOn ==
    ASSUME TypeOK, NEW r \in Relays, NEW from \in {"drain", "wait"},
           NEW to \in {"updDrain", "updWait"}, TakeToken(r, from, to)
    PROVE  GoesOn(run[r], run'[r])
<1>1. PICK x \in Locals : x = run[r]  BY DEF TypeOK, LocalsOK
<1>2. PICK k \in Kinds :
        run' = [run EXCEPT ![r].upd = k, ![r].woken = FALSE, ![r].pc = to]
  BY DEF TakeToken
<1> DEFINE y == [x EXCEPT !.upd = k, !.woken = FALSE, !.pc = to]
<1>3. run'[r] = y  BY <1>1, <1>2 DEF TypeOK, LocalsOK
<1>4. /\ y.pc = to /\ y.pos = x.pos /\ y.last = x.last /\ y.packets = x.packets
      /\ y.reqPos = x.reqPos
  BY DEF Locals
<1>5. x.pc = from  BY <1>1 DEF TakeToken, at
<1> HIDE DEF y
<1> QED BY <1>1, <1>3, <1>4, <1>5 DEF GoesOn, StreamPlaces

LEMMA LoopGoesOn ==
    ASSUME TypeOK, NEW r \in Relays,
           \/ drainNotifications(r) \/ GetSignal(r) \/ CheckOverflow(r) \/ Wait(r)
           \/ StallTimeout(r) \/ WriteFails(r)
    PROVE  (GoesOn(run[r], run'[r]) \/ Leave(r)) /\ peer' = peer
<1>1. /\ UNCHANGED peer
      /\ \/ \E l \in Places :
              /\ Goto(r, l)
              /\ \/ run[r].pc \in StreamPlaces
                    /\ l \in {"drain", "updDrain", "updWait", "signal", "fetch"}
                 \/ run[r].pc = "batch" /\ l = "send"
         \/ Leave(r)
         \/ \E from \in {"drain", "wait"}, to \in {"updDrain", "updWait"} :
              TakeToken(r, from, to)
  BY DEF drainNotifications, GetSignal, CheckOverflow, Wait, StallTimeout,
         WriteFails, TakeToken, NothingElse, at, StreamPlaces, Places
<1> QED BY <1>1, GotoGoesOn, TokenGoesOn

(* A new connection has taken nothing.                                     *)
LEMMA FreshInOrder ==
    ASSUME SourceTypeOK, NEW p, PeerIsBehind(p), NEW l \in {"new", "done", "removed"},
           NEW n
    PROVE  InOrder(Fresh(l, n), p) /\ Fresh(l, n).pc # "wait"
<1>1. Fresh(l, n).pc = l /\ Fresh(l, n).last = 0  BY DEF Fresh
<1>2. written \in Nat  BY SourceNumbers
<1> HIDE DEF Fresh
<1> QED BY <1>1, <1>2 DEF InOrder, TakenInOrder, NoneAgain, NoneLeftOut, StreamPlaces

LEMMA LeaveKeeps ==
    ASSUME TypeOK, NEW r \in Relays, NEW p, PeerIsBehind(p), Leave(r)
    PROVE  InOrder(run'[r], p) /\ run'[r].pc # "wait"
<1>1. run'[r] = Fresh("done", run[r].conns)  BY DEF Leave, TypeOK, LocalsOK
<1> QED BY <1>1, FreshInOrder DEF TypeOK

LEMMA RenewKeeps ==
    ASSUME TypeOK, NEW r \in Relays, InOrder(run[r], peer[r]),
           Remove(r) \/ Reconnect(r)
    PROVE  InOrder(run'[r], peer'[r]) /\ run'[r].pc # "wait"
<1>1. PeerIsBehind(peer[r]) /\ SourceTypeOK  BY DEF InOrder, TypeOK
<1>2. /\ peer' = peer
      /\ \E l \in {"new", "removed"}, n \in Int : run'[r] = Fresh(l, n)
  BY BoundsAssumption DEF Remove, Reconnect, NothingElse, TypeOK, LocalsOK, Locals
<1> QED BY <1>1, <1>2, FreshInOrder

(* The beginning of a connection.                                          *)
LEMMA RegisterKeeps ==
    ASSUME TypeOK, NEW r \in Relays, InOrder(run[r], peer[r]),
           Register(r) \/ ReadFields(r)
    PROVE  InOrder(run'[r], peer'[r]) /\ run'[r].pc # "wait"
<1>1. PICK x \in Locals : x = run[r]  BY DEF TypeOK, LocalsOK
<1>2. /\ peer' = peer /\ run'[r].last = x.last
      /\ run'[r].pc \in {"fields", "header"}
      /\ run'[r].reqPos = peer[r].content
      /\ x.pc \in {"new", "fields"}
  <2>1. CASE Register(r)
    BY <1>1, <2>1 DEF Register, at, TypeOK, LocalsOK, Locals
  <2>2. CASE ReadFields(r)
    BY <1>1, <2>2
    DEF ReadFields, NothingElse, at, InOrder, NoneAgain, TypeOK, LocalsOK, Locals
  <2> QED BY <2>1, <2>2
<1> QED BY <1>1, <1>2 DEF InOrder, TakenInOrder, NoneAgain, NoneLeftOut, StreamPlaces

LEMMA InitialKeeps ==
    ASSUME TypeOK, WindowInOrder, NEW r \in Relays, InOrder(run[r], peer[r]),
           sendInitial(r)
    PROVE  InOrder(run'[r], peer'[r]) /\ run'[r].pc # "wait"
<1>1. PICK x \in Locals : x = run[r]  BY DEF TypeOK, LocalsOK
<1>2. PICK p \in Peers : p = peer[r]  BY DEF TypeOK, LocalsOK
<1>3. /\ run'[r].last = x.last /\ run'[r].pc = "start" /\ run'[r].reqPos = x.reqPos
      /\ peer'[r] = WithHeader(p, version["header"], headerPos)
      /\ x.pc = "header"
  BY <1>1, <1>2 DEF sendInitial, at, TypeOK, LocalsOK, Locals
<1> DEFINE y == run'[r]
           q == peer'[r]
<1>4. /\ PeerIsBehind(q)
      /\ \/ q = p /\ q.header = version["header"]
         \/ q.last = 0
  BY <1>2, <1>3, HeaderKeepsPeer DEF InOrder, TypeOK
<1>5. ~GoneBack /\ q.header # 0 => Passed(q.last, x.reqPos)
  <2>1. q.last = 0 => Passed(q.last, x.reqPos)
    BY NothingPassed DEF TypeOK
  <2>2. x.reqPos = p.content
    BY <1>1, <1>2, <1>3 DEF InOrder, NoneAgain
  <2>3. q = p /\ q.header = version["header"] /\ ~GoneBack /\ q.header # 0
          => Passed(q.last, x.reqPos)
    BY <1>4, <2>2 DEF PeerIsBehind
  <2> QED BY <1>4, <2>1, <2>3
<1> HIDE DEF q, y
<1>6. NoneAgain(y, q)
  BY <1>3, <1>5 DEF NoneAgain, StreamPlaces, y
<1>7. NoneLeftOut(y) /\ TakenInOrder(y)
  BY <1>1, <1>3 DEF InOrder, NoneLeftOut, TakenInOrder, y
<1> QED BY <1>3, <1>4, <1>6, <1>7 DEF InOrder, y, q

LEMMA StartKeeps ==
    ASSUME TypeOK, WindowInOrder, NEW r \in Relays, InOrder(run[r], peer[r]),
           Start(r) \/ StartOldest(r)
    PROVE  InOrder(run'[r], peer'[r]) /\ run'[r].pc # "wait"
<1>1. PICK x \in Locals : x = run[r]  BY DEF TypeOK, LocalsOK
<1>2. PICK p \in Peers : p = peer[r]  BY DEF TypeOK, LocalsOK
<1> DEFINE y == run'[r]
<1>3. /\ y.last = x.last /\ peer' = peer /\ x.pc \in {"start", "oldest"}
      /\ \/ y.pc = "oldest" /\ y.reqPos = x.reqPos
         \/ /\ y.pc = "drain"
            /\ x.reqPos = 0 \/ y.pos = StartAt(x.reqPos)
  <2>1. x.reqPos \in Nat  BY LocalsNumbers
  <2>2. CASE Start(r)
    BY <1>1, <2>1, <2>2 DEF Start, NothingElse, at, TypeOK, LocalsOK, Locals
  <2>3. CASE StartOldest(r)
    BY <1>1, <2>3 DEF StartOldest, NothingElse, at, TypeOK, LocalsOK, Locals
  <2> QED BY <2>2, <2>3
<1>4. ASSUME ~GoneBack, p.header # 0
      PROVE  /\ y.pc = "oldest" => Passed(p.last, y.reqPos)
             /\ y.pc = "drain" => Passed(p.last, y.pos)
  <2>1. Passed(p.last, x.reqPos)
    BY <1>1, <1>2, <1>3, <1>4 DEF InOrder, NoneAgain
  <2>2. SUFFICES ASSUME y.pc = "drain", NEW w \in Buffered, w.n <= p.last
                 PROVE  w.Pos < y.pos
    BY <1>3, <2>1 DEF Passed
  <2>3. w.Pos < x.reqPos  BY <2>1, <2>2 DEF Passed
  <2>4. w.Pos \in Nat /\ x.reqPos \in Nat
    BY WindowDomain, PacketNumbers, LocalsNumbers DEF TypeOK
  <2>5. y.pos = StartAt(x.reqPos)  BY <1>3, <2>2, <2>3, <2>4
  <2>6. OldestPos <= w.Pos  BY <1>4, OldestIsFirst DEF TypeOK, Linear
  <2>7. window # << >> /\ OldestPos \in Nat
    <3>1. window # << >>  BY DEF Buffered
    <3> QED BY <3>1, WindowDomain, PacketNumbers DEF TypeOK, OldestPos
  <2>8. StartAt(x.reqPos) = x.reqPos
    BY <2>3, <2>4, <2>6, <2>7 DEF StartAt
  <2> QED BY <2>3, <2>5, <2>8
<1> HIDE DEF y
<1>5. NoneAgain(y, p)  BY <1>3, <1>4 DEF NoneAgain, StreamPlaces
<1>6. x.last = 0 /\ NoneLeftOut(x)  BY <1>1, <1>3 DEF InOrder, NoneLeftOut
<1>7. NoneLeftOut(y) /\ TakenInOrder(y)
  BY <1>3, <1>6 DEF NoneLeftOut, TakenInOrder
<1> QED BY <1>2, <1>3, <1>5, <1>7 DEF InOrder, y

(* An update sends a header at most.                                       *)
LEMMA UpdateKeeps ==
    ASSUME TypeOK, WindowInOrder, NEW r \in Relays, InOrder(run[r], peer[r]),
           SendUpdate(r)
    PROVE  InOrder(run'[r], peer'[r]) /\ run'[r].pc # "wait"
<1>1. PICK x \in Locals : x = run[r]  BY DEF TypeOK, LocalsOK
<1>2. PICK p \in Peers : p = peer[r]  BY DEF TypeOK, LocalsOK
<1> DEFINE y == run'[r]
           q == peer'[r]
<1>3. /\ y.pos = x.pos /\ y.last = x.last /\ y.packets = x.packets
      /\ y.reqPos = x.reqPos /\ y.pc = "drain"
      /\ x.pc \in {"updDrain", "updWait"}
  <2> DEFINE k == x.upd
             z == [x EXCEPT !.shown[k] = version[k], !.upd = "header", !.pc = "drain"]
  <2>1. y = z  BY <1>1 DEF SendUpdate, TypeOK, LocalsOK
  <2>2. /\ z.pos = x.pos /\ z.last = x.last /\ z.packets = x.packets
        /\ z.reqPos = x.reqPos /\ z.pc = "drain"
    BY DEF Locals
  <2> HIDE DEF z
  <2> QED BY <1>1, <2>1, <2>2 DEF SendUpdate
<1>4. q = p \/ q = WithHeader(p, version["header"], headerPos)
  BY <1>1, <1>2 DEF SendUpdate, TypeOK, LocalsOK
<1>5. PeerIsBehind(p) /\ SourceTypeOK  BY <1>2 DEF InOrder, TypeOK
<1>6. PeerIsBehind(q) /\ (q = p \/ q.last = 0)
  BY <1>4, <1>5, HeaderKeepsPeer
<1>7. GoesOn(x, y)  BY <1>3 DEF GoesOn, StreamPlaces
<1>8. InOrder(y, p)  BY <1>1, <1>2, <1>7, GoingOnKeeps
<1> HIDE DEF y, q
<1>9. NoneAgain(y, q)
  <2>1. CASE q = p  BY <1>8, <2>1 DEF InOrder
  <2>2. CASE q.last = 0
    <3>1. Passed(q.last, y.pos)  BY <1>5, <2>2, NothingPassed
    <3> QED BY <1>3, <3>1 DEF NoneAgain
  <2> QED BY <1>6, <2>1, <2>2
<1> QED BY <1>3, <1>6, <1>8, <1>9 DEF InOrder, y, q

(* A packet that is in the buffer.                                         *)
LEMMA BufferedIsTaken ==
    ASSUME SourceTypeOK, WindowInOrder, NEW q \in Buffered PROVE Taken(q)
<1>1. /\ q \in Packets /\ q.n \in Nat /\ q.Pos \in Nat /\ End(q) \in Nat
      /\ q.n <= written
  BY WindowDomain, PacketNumbers, BufferedInOrder DEF End
<1>2. reached \in Nat /\ Width \in Nat  BY SourceNumbers
<1>3. /\ Linear => End(q) <= reached
      /\ ~GoneBack => reached < Width
  BY DEF WindowInOrder, Buffered
<1>4. ASSUME ~GoneBack, NEW w \in Buffered, w.n <= q.n PROVE w.Pos <= q.Pos
  <2>1. w \in Packets /\ w.Pos \in Nat /\ w.len \in Nat /\ w.n \in Nat
    BY WindowDomain, PacketNumbers
  <2>2. w = q \/ End(w) <= q.Pos
    BY <1>1, <1>4, <2>1, BufferedInOrder DEF Linear
  <2> QED BY <1>1, <2>1, <2>2 DEF End
<1>5. ASSUME ~Rewound, NEW w \in Buffered, q.n < w.n PROVE End(q) <= w.Pos
  BY <1>5, BufferedInOrder DEF Linear
<1> QED BY <1>1, <1>2, <1>3, <1>4, <1>5 DEF Taken, Linear

LEMMA FetchKeeps ==
    ASSUME TypeOK, WindowInOrder, NEW r \in Relays, InOrder(run[r], peer[r]),
           Fetch(r)
    PROVE  InOrder(run'[r], peer'[r]) /\ Asleep(run'[r])
<1>1. PICK x \in Locals : x = run[r]  BY DEF TypeOK, LocalsOK
<1>2. PICK p \in Peers : p = peer[r]  BY DEF TypeOK, LocalsOK
<1> DEFINE s == Since(x.pos)
           y == run'[r]
<1>3. /\ y.pos = x.pos /\ y.last = x.last /\ y.packets = s
      /\ y.pc = (IF s = << >> THEN "wait" ELSE "batch")
      /\ x.pc = "fetch" /\ peer' = peer
  <2> DEFINE l == IF s = << >> THEN "wait" ELSE "batch"
             b == x.woken /\ s = << >>
             z == [x EXCEPT !.packets = s, !.woken = b, !.pc = l]
  <2>1. y = z /\ peer' = peer /\ x.pc = "fetch"
    BY <1>1 DEF Fetch, NothingElse, at, TypeOK, LocalsOK
  <2> HIDE DEF s, b, l
  <2>2. z.pos = x.pos /\ z.last = x.last /\ z.packets = s /\ z.pc = l
    BY DEF Locals
  <2> HIDE DEF y, z
  <2> QED BY <2>1, <2>2 DEF l
<1>4. x.pos \in Positions /\ x.pos \in Nat /\ x.last \in Nat
  BY LocalsNumbers DEF Locals
<1>5. /\ \A j \in DOMAIN s : s[j] \in Buffered
      /\ Linear => \A j \in DOMAIN s : x.pos <= s[j].Pos
      /\ \A i, j \in DOMAIN s : i < j => s[i].n < s[j].n
      /\ \A w \in Buffered : x.pos <= w.Pos => s # << >> /\ Head(s).n <= w.n
  BY <1>4, SinceInOrder DEF TypeOK
<1> HIDE DEF s, y
<1>6. \A w \in Buffered : w.Pos \in Nat /\ w.n \in Nat
  BY WindowDomain, PacketNumbers DEF TypeOK
<1>7. TakenInOrder(y)
  BY <1>3, <1>5, BufferedIsTaken DEF TakenInOrder, TypeOK
<1>8. NoneAgain(y, p)
  <2>1. ASSUME ~GoneBack, p.header # 0 PROVE Passed(p.last, x.pos)
    BY <1>1, <1>2, <1>3, <2>1 DEF InOrder, NoneAgain, StreamPlaces
  <2>2. ASSUME ~GoneBack, p.header # 0, NEW j \in DOMAIN s
        PROVE  p.last < s[j].n
    <3>1. s[j] \in Buffered /\ x.pos <= s[j].Pos  BY <1>5, <2>2 DEF Linear
    <3>2. s[j].n <= p.last => s[j].Pos < x.pos  BY <2>1, <2>2, <3>1 DEF Passed
    <3>3. p.last \in Nat  BY DEF Peers
    <3> QED BY <1>4, <1>6, <3>1, <3>2, <3>3
  <2> QED BY <1>3, <2>1, <2>2 DEF NoneAgain
<1>9. NoneLeftOut(x)  BY <1>1 DEF InOrder
<1>10. ASSUME x.last # 0, ~Rewound, NEW w \in Buffered, x.last < w.n
       PROVE  s # << >> /\ Head(s).n <= w.n
  <2>1. x.pos <= w.Pos  BY <1>9, <1>10 DEF NoneLeftOut
  <2> QED BY <1>5, <2>1
<1>11. NoneLeftOut(y)
  <2>1. ASSUME s # << >> PROVE Head(s).n \in Nat
    <3>1. s \in Seq(Packets)  BY <1>4, SinceType DEF s, TypeOK
    <3>2. Head(s) \in Packets  BY <2>1, <3>1, HeadTailProperties
    <3> QED BY <3>2, PacketNumbers
  <2>2. ASSUME x.last # 0, ~Rewound, s # << >>, NEW w \in Buffered
        PROVE  ~(x.last < w.n /\ w.n < Head(s).n)
    BY <1>6, <1>10, <2>1, <2>2
  <2> QED BY <1>3, <1>9, <2>2 DEF NoneLeftOut
<1>12. Asleep(y)
  <2> SUFFICES ASSUME y.last # 0, ~Rewound, y.pc = "wait", window # << >>
               PROVE  y.last = Newest.n
    BY DEF Asleep
  <2>1. Newest \in Buffered /\ Newest.n = written  BY NewestIsLast DEF TypeOK
  <2>2. s = << >>  BY <1>3
  <2>3. ~(x.last < Newest.n)  BY <1>3, <1>10, <2>1, <2>2
  <2>4. x.last <= written  BY <1>9 DEF NoneLeftOut
  <2>5. written \in Nat  BY SourceNumbers DEF TypeOK
  <2> QED BY <1>3, <1>4, <2>1, <2>3, <2>4, <2>5
<1>13. PeerIsBehind(p)  BY <1>2 DEF InOrder
<1> QED BY <1>2, <1>3, <1>7, <1>8, <1>11, <1>12, <1>13 DEF InOrder, y

(* One turn of the loop: the first packet of the batch is sent or skipped. *)
LEMMA SendKeeps ==
    ASSUME TypeOK, WindowInOrder, NEW r \in Relays, InOrder(run[r], peer[r]),
           Send(r)
    PROVE  InOrder(run'[r], peer'[r]) /\ run'[r].pc # "wait"
<1>1. PICK x \in Locals : x = run[r]  BY DEF TypeOK, LocalsOK
<1>2. PICK p \in Peers : p = peer[r]  BY DEF TypeOK, LocalsOK
<1> DEFINE pkt == Head(x.packets)
           b == Tail(x.packets)
           y == run'[r]
           q == peer'[r]
<1>3. x.pc = "send" /\ x.packets \in Seq(Packets) /\ x.packets # << >>
  BY <1>1 DEF Send, at, TypeOK, LocalsOK, Locals
<1>4. /\ y.pos = After(pkt) /\ y.last = pkt.n /\ y.packets = b
      /\ y.pc \in {"drain", "send"}
  <2> DEFINE l == IF Len(x.packets) = 1 THEN "drain" ELSE x.pc
             g == Skip(r, pkt)
             e == After(pkt)
             n == pkt.n
             z == [x EXCEPT !.pos = e, !.last = n, !.waitingForKeyframe = g,
                            !.packets = b, !.pc = l]
  <2>1. y = z  BY <1>1 DEF Send, TypeOK, LocalsOK
  <2>2. l \in {"drain", "send"}  BY <1>3
  <2> HIDE DEF b, l, g, e, n
  <2>3. z.pos = e /\ z.last = n /\ z.packets = b /\ z.pc = l
    BY DEF Locals
  <2> HIDE DEF y, z
  <2> QED BY <2>1, <2>2, <2>3 DEF e, n
<1>5. \/ q = p
      \/ q = WithBody(p, pkt.n, Chunks(pkt)[NumChunks(pkt.len)].Pos,
                                Chunks(pkt)[NumChunks(pkt.len)].len)
  <2> DEFINE c == Chunks(pkt)[NumChunks(pkt.len)]
  <2>1. peer' = peer \/ peer' = [peer EXCEPT ![r] = WithBody(@, pkt.n, c.Pos, c.len)]
    BY <1>1 DEF Send, Received
  <2> HIDE DEF c, pkt
  <2>2. peer \in [Relays -> Peers]  BY DEF TypeOK, LocalsOK
  <2> QED BY <1>2, <2>1, <2>2 DEF c
<1>6. /\ pkt = x.packets[1] /\ 1 \in DOMAIN x.packets /\ pkt \in Packets
      /\ \A j \in DOMAIN b : /\ j + 1 \in DOMAIN x.packets
                             /\ b[j] = x.packets[j + 1] /\ b[j] \in Packets
                             /\ 1 < j + 1 /\ j \in Nat
  <2>1. /\ Len(x.packets) \in Nat /\ DOMAIN x.packets = 1..Len(x.packets)
        /\ 1 \in DOMAIN x.packets /\ pkt = x.packets[1]
        /\ \A j \in DOMAIN x.packets : x.packets[j] \in Packets
    BY <1>3, LocalsNumbers
  <2>2. /\ b \in Seq(Packets) /\ Len(b) = Len(x.packets) - 1
        /\ \A j \in 1..Len(b) : b[j] = x.packets[j + 1]
    BY <1>3, HeadTailProperties
  <2>3. DOMAIN b = 1..Len(b)  BY <2>2, LenProperties
  <2> HIDE DEF b, pkt
  <2> QED BY <2>1, <2>2, <2>3
<1>7. /\ Taken(pkt)
      /\ \A j \in DOMAIN b : Taken(b[j]) /\ pkt.n < b[j].n
      /\ \A i, j \in DOMAIN b : i < j => b[i].n < b[j].n
  <2>1. /\ \A j \in DOMAIN x.packets : Taken(x.packets[j])
        /\ \A i, j \in DOMAIN x.packets : i < j => x.packets[i].n < x.packets[j].n
    BY <1>1, <1>3 DEF InOrder, TakenInOrder
  <2> HIDE DEF b, pkt
  <2>2. \A i, j \in DOMAIN b : i < j => i + 1 < j + 1  BY <1>6
  <2> QED BY <1>6, <2>1, <2>2
<1>8. ~GoneBack /\ p.header # 0 => p.last < pkt.n
  BY <1>1, <1>2, <1>3, <1>6 DEF InOrder, NoneAgain
<1>9. /\ PeerIsBehind(q)
      /\ (q = p) \/ (q.last = pkt.n /\ q.header = p.header)
  <2>1. PeerIsBehind(p) /\ SourceTypeOK  BY <1>2 DEF InOrder, TypeOK
  <2>2. CASE q = p  BY <2>1, <2>2
  <2>3. CASE q # p
    <3>1. NumChunks(pkt.len) \in 1..NumChunks(pkt.len)  BY <1>6, LastChunk
    <3> HIDE DEF pkt, q
    <3> QED BY <1>5, <1>6, <1>7, <1>8, <2>1, <2>3, <3>1, BodyKeepsPeer
  <2> QED BY <2>2, <2>3
<1> HIDE DEF pkt, b, y, q
<1>10. /\ pkt.n \in Nat /\ pkt.Pos \in Nat /\ pkt.Pos < End(pkt)
       /\ End(pkt) \in Nat /\ Width \in Nat
  BY <1>6, PacketNumbers, SizesAssumption DEF End
<1>11. p.last \in Nat  BY DEF Peers
<1>12. \A w \in Buffered : w.Pos \in Nat /\ w.n \in Nat /\ w.Pos < Width
  BY WindowDomain, PacketNumbers DEF TypeOK
<1>13. ASSUME End(pkt) < Width PROVE y.pos = End(pkt)
  BY <1>4, <1>6, <1>13, AfterIsEnd
<1>14. TakenInOrder(y)
  BY <1>4, <1>7 DEF TakenInOrder
<1>15. NoneAgain(y, q)
  <2>1. ASSUME ~GoneBack, q.header # 0
        PROVE  /\ Passed(q.last, y.pos)
               /\ \A j \in DOMAIN b : q.last < b[j].n
    <3>1. q.last <= pkt.n /\ q.last \in Nat
      BY <1>8, <1>9, <1>10, <1>11, <2>1
    <3>2. y.pos = End(pkt)  BY <1>7, <1>13, <2>1 DEF Taken
    <3>3. ASSUME NEW w \in Buffered, w.n <= q.last PROVE w.Pos < y.pos
      <4>1. w.n <= pkt.n  BY <1>10, <1>12, <3>1, <3>3
      <4>2. w.Pos <= pkt.Pos  BY <1>7, <2>1, <4>1 DEF Taken
      <4> QED BY <1>10, <1>12, <3>2, <4>2
    <3>4. ASSUME NEW j \in DOMAIN b PROVE q.last < b[j].n
      <4>1. b[j].n \in Nat  BY <1>6, PacketNumbers
      <4> QED BY <1>7, <1>10, <3>1, <4>1
    <3> QED BY <3>3, <3>4 DEF Passed
  <2> QED BY <1>4, <2>1 DEF NoneAgain
<1>16. NoneLeftOut(y)
  <2>1. y.last <= written  BY <1>4, <1>7 DEF Taken
  <2>2. ASSUME ~Rewound, NEW w \in Buffered, pkt.n < w.n PROVE y.pos <= w.Pos
    <3>1. End(pkt) <= w.Pos  BY <1>7, <2>2 DEF Taken
    <3>2. End(pkt) < Width  BY <1>10, <1>12, <3>1
    <3> QED BY <1>13, <3>1, <3>2
  <2>3. ASSUME ~Rewound PROVE y.pos <= reached
    <3>1. End(pkt) <= reached  BY <1>7, <2>3 DEF Taken
    <3>2. y.pos \in Nat /\ y.pos <= End(pkt)  BY <1>4, <1>6, AfterIsAtMostEnd
    <3> QED BY <1>10, <3>1, <3>2, SourceNumbers DEF TypeOK
  <2> QED BY <1>4, <2>1, <2>2, <2>3 DEF NoneLeftOut
<1> QED BY <1>4, <1>9, <1>14, <1>15, <1>16 DEF InOrder, y, q

(* The connection breaks after one of a packet's chunks.                   *)
LEMMA BreakKeeps ==
    ASSUME TypeOK, WindowInOrder, NEW r \in Relays, InOrder(run[r], peer[r]),
           SendBreaks(r)
    PROVE  InOrder(run'[r], peer'[r]) /\ run'[r].pc # "wait"
<1>1. PICK x \in Locals : x = run[r]  BY DEF TypeOK, LocalsOK
<1>2. PICK p \in Peers : p = peer[r]  BY DEF TypeOK, LocalsOK
<1> DEFINE pkt == Head(x.packets)
           y == run'[r]
           q == peer'[r]
<1>3. x.pc = "send" /\ x.packets # << >> /\ Leave(r)
  BY <1>1 DEF SendBreaks, at, TypeOK, LocalsOK
<1>7. /\ pkt = x.packets[1] /\ 1 \in DOMAIN x.packets /\ pkt \in Packets
  BY <1>3, LocalsNumbers
<1>8. Taken(pkt)
  BY <1>1, <1>3, <1>7 DEF InOrder, TakenInOrder
<1>9. ~GoneBack /\ p.header # 0 => p.last < pkt.n
  BY <1>1, <1>2, <1>3, <1>7 DEF InOrder, NoneAgain
<1>10. PICK i \in 1..(NumChunks(pkt.len) - 1) :
          peer' = Received(r, pkt.n, Chunks(pkt)[i])
  BY <1>1 DEF SendBreaks
<1> HIDE DEF pkt
<1>11. i \in 1..NumChunks(pkt.len)  BY <1>7, ChunksType
<1>12. q = WithBody(p, pkt.n, Chunks(pkt)[i].Pos, Chunks(pkt)[i].len)
  BY <1>2, <1>10 DEF Received, TypeOK, LocalsOK
<1>13. PeerIsBehind(p) /\ SourceTypeOK  BY <1>2 DEF InOrder, TypeOK
<1> HIDE DEF q, y
<1>14. PeerIsBehind(q)
  BY <1>7, <1>8, <1>9, <1>11, <1>12, <1>13, BodyKeepsPeer
<1> QED BY <1>3, <1>14, LeaveKeeps DEF y, q

LEMMA RelayKeeps ==
    ASSUME TypeOK, WindowInOrder, NEW r \in Relays, InOrder(run[r], peer[r]),
           RelayStep(r)
    PROVE  InOrder(run'[r], peer'[r]) /\ Asleep(run'[r])
<1>1. CASE \/ drainNotifications(r) \/ GetSignal(r) \/ CheckOverflow(r) \/ Wait(r)
           \/ StallTimeout(r) \/ WriteFails(r)
  <2>1. (GoesOn(run[r], run'[r]) \/ Leave(r)) /\ peer' = peer  BY <1>1, LoopGoesOn
  <2>2. PeerIsBehind(peer[r])  BY DEF InOrder
  <2> QED BY <2>1, <2>2, GoingOnKeeps, LeaveKeeps DEF Asleep
<1>2. CASE \/ Register(r) \/ ReadFields(r) \/ sendInitial(r) \/ Start(r)
           \/ StartOldest(r) \/ SendUpdate(r) \/ Send(r) \/ SendBreaks(r)
           \/ Remove(r) \/ Reconnect(r)
  BY <1>2, RegisterKeeps, InitialKeeps, StartKeeps, UpdateKeeps, SendKeeps,
     BreakKeeps, RenewKeeps DEF Asleep
<1>3. CASE Fetch(r)
  BY <1>3, FetchKeeps
<1> QED BY <1>1, <1>2, <1>3 DEF RelayStep, Run

StreamInOrder ==
    /\ WindowInOrder
    /\ \A r \in Relays : InOrder(run[r], peer[r]) /\ Asleep(run[r])

(* A relay that sleeps with no signal on its way is woken by the next      *)
(* packet, not left with it.                                               *)
LEMMA AsleepStays ==
    ASSUME TypeOK, WindowInOrder, [Next]_vars, ~Signals, NEW x, Asleep(x)
    PROVE  Asleep(x)'
<1> SUFFICES ASSUME x.last # 0, ~Rewound', x.pc = "wait", ~x.woken,
                    unsignalled' = {}, window' # << >>
             PROVE  x.last = Newest'.n
  BY DEF Asleep, Newest
<1>1. ~Rewound /\ unsignalled = {} /\ window' = window  BY BufferMoves
<1>2. x.last = Newest.n  BY <1>1 DEF Asleep
<1> QED BY <1>1, <1>2 DEF Newest

(* A signal changes only whether a waiting relay is woken.                 *)
LEMMA SignalKeeps ==
    ASSUME TypeOK, NEW r \in Relays, InOrder(run[r], peer[r]), Signals
    PROVE  InOrder(run'[r], peer'[r]) /\ Asleep(run'[r])
<1>1. PICK x \in Locals : x = run[r]  BY DEF TypeOK, LocalsOK
<1> DEFINE h == Holding(r)
           y == [x EXCEPT !.woken = h]
<1>2. run'[r] = y /\ peer' = peer  BY <1>1 DEF Signals, WriteSignal
<1>3. h = (x.pc \in {"fetch", "wait"})  BY <1>1 DEF Holding
<1> HIDE DEF h
<1>4. /\ y.pc = x.pc /\ y.pos = x.pos /\ y.last = x.last
      /\ y.packets = x.packets /\ y.reqPos = x.reqPos /\ y.woken = h
  BY DEF Locals
<1> HIDE DEF y
<1>5. InOrder(y, peer[r])
  BY <1>1, <1>4 DEF InOrder, TakenInOrder, NoneAgain, NoneLeftOut
<1>6. y.pc = "wait" => y.woken  BY <1>3, <1>4
<1>7. Asleep(y)  BY <1>6, Zenon DEF Asleep
<1> QED BY <1>2, <1>5, <1>7

LEMMA OtherRelays ==
    ASSUME TypeOK, NEW u \in Relays, RelayStep(u), NEW r \in Relays \ {u}
    PROVE  run'[r] = run[r] /\ peer'[r] = peer[r]
<1>1. run \in [Relays -> Locals] /\ peer \in [Relays -> Peers]
  BY DEF TypeOK, LocalsOK
<1>2. run'[r] = run[r]
  BY <1>1 DEF RelayStep, Register, Reconnect, Run, StallTimeout, WriteFails,
     SendBreaks, ReadFields, sendInitial, Start, StartOldest,
     drainNotifications, TakeToken, SendUpdate, GetSignal, Fetch,
     CheckOverflow, Send, Wait, Remove, NothingElse, Goto, Leave
<1>3. peer'[r] = peer[r]
  BY <1>1 DEF RelayStep, Register, Reconnect, Run, StallTimeout, WriteFails,
     SendBreaks, ReadFields, sendInitial, Start, StartOldest,
     drainNotifications, TakeToken, SendUpdate, GetSignal, Fetch,
     CheckOverflow, Send, Wait, Remove, NothingElse, Received
<1> QED BY <1>2, <1>3

LEMMA NextInOrder == TypeOK /\ StreamInOrder /\ [Next]_vars => StreamInOrder'
<1> SUFFICES ASSUME TypeOK, StreamInOrder, [Next]_vars, NEW r \in Relays
             PROVE  InOrder(run[r], peer[r])' /\ Asleep(run[r])'
  BY StepInOrder DEF StreamInOrder
<1>1. TypeOK'  BY StepSourceOK, StepSharedOK, StepLocalsOK DEF TypeOK
<1>2. PICK y \in Locals, q \in Peers : y = run'[r] /\ q = peer'[r]
  BY <1>1 DEF TypeOK, LocalsOK
<1>3. y.pc = "batch" => y.packets # << >>
  BY <1>1, <1>2 DEF TypeOK, LocalsOK
<1>4. WindowInOrder /\ InOrder(run[r], peer[r]) /\ Asleep(run[r])
  BY DEF StreamInOrder
<1>5. InOrder(y, q) /\ Asleep(y)
  <2>1. ASSUME NEW u \in Relays, RelayStep(u)
        PROVE  InOrder(y, q) /\ Asleep(y)
    BY <1>2, <1>4, <2>1, RelayKeeps, OtherRelays
  <2>2. CASE Signals
    BY <1>2, <1>4, <2>2, SignalKeeps
  <2>3. CASE UNCHANGED <<run, peer>>
    BY <1>2, <1>4, <2>3
  <2>4. CASE Source /\ ~Signals
    BY <2>3, <2>4 DEF Source, Signals, SetHeader, SetHeaderSnapshot, NotifyHeader,
                      SetField, Notify, Write, Age
  <2>5. ASSUME NEW u \in Relays, Close(u) PROVE UNCHANGED <<run, peer>>
    BY <2>5 DEF Close
  <2>6. CASE UNCHANGED vars
    BY <2>3, <2>6 DEF vars
  <2> QED BY <2>1, <2>2, <2>3, <2>4, <2>5, <2>6 DEF Next, RelayStep
<1>6. InOrder(y, q)'  BY <1>3, <1>4, <1>5, InOrderStays
<1>7. Asleep(y)'
  <2>1. CASE ~Signals
    BY <1>4, <1>5, <2>1, AsleepStays
  <2>2. CASE Signals
    <3>1. y.pc = "wait" => y.woken
      BY <1>2, <2>2 DEF Signals, WriteSignal, Holding, TypeOK, LocalsOK, Locals
    <3> QED BY <3>1, Zenon DEF Asleep
  <2> QED BY <2>1, <2>2
<1> QED BY <1>2, <1>6, <1>7

LEMMA InitInOrder == Init => StreamInOrder
<1> SUFFICES ASSUME Init PROVE StreamInOrder
  OBVIOUS
<1>1. TypeOK  BY InitType
<1>2. DOMAIN window = {} /\ window = << >>  BY DEF Init
<1>3. /\ written = 0 /\ headerPos = 0 /\ version["header"] = 0
      /\ reached < Width
  BY SizesAssumption DEF Init, Kinds
<1>4. WindowInOrder  BY <1>2, <1>3 DEF WindowInOrder
<1>5. PeerIsBehind(NewPeer)
  BY <1>3 DEF PeerIsBehind, NewPeer
<1>6. InOrder(Fresh("new", 0), NewPeer) /\ Fresh("new", 0).pc # "wait"
  BY <1>1, <1>5, FreshInOrder DEF TypeOK
<1>7. \A r \in Relays : run[r] = Fresh("new", 0) /\ peer[r] = NewPeer
  BY DEF Init
<1> QED BY <1>4, <1>6, <1>7 DEF StreamInOrder, Asleep

LEMMA InOrderHolds == Spec => []StreamInOrder
  BY InitInOrder, NextInOrder, TypeCorrect, PTL DEF Spec

(* A node is given no packet twice under one header, whatever interrupts   *)
(* its connection and wherever it comes back, and however many sources     *)
(* feed the channel, as long as no packet lies below its header or below   *)
(* the packet before it under that header, and none reaches 2^32           *)
(* (ContentBuffer.Write, handlePkt, ContentPosition, runStreaming).        *)
THEOREM TwiceCorrect == Spec => []NothingTwice
<1>1. StreamInOrder => NothingTwice
  BY DEF StreamInOrder, InOrder, PeerIsBehind, GoneBack, NothingTwice
<1> QED BY <1>1, InOrderHolds, PTL

(* A relay takes the packets in order and leaves none out, and does not    *)
(* sleep through the newest, while the source's positions only grow        *)
(* (Since, Signal and the select of streamLoop).                           *)
THEOREM SkippedCorrect == Spec => []NothingSkipped
<1>1. TypeOK /\ StreamInOrder => NothingSkipped
  <2> SUFFICES ASSUME TypeOK, StreamInOrder, NEW r \in Relays,
                      run[r].last # 0, "rewound" \notin wentBack
               PROVE  /\ at(r, "batch") => \A i \in DOMAIN window :
                           ~(/\ run[r].last < window[i].n
                             /\ window[i].n < Head(run[r].packets).n)
                      /\ at(r, "wait") /\ ~run[r].woken /\ unsignalled = {}
                           => CaughtUp(r)
    BY DEF NothingSkipped
  <2>1. NoneLeftOut(run[r]) /\ Asleep(run[r])  BY DEF StreamInOrder, InOrder
  <2>2. at(r, "batch") => \A w \in Buffered :
            ~(run[r].last < w.n /\ w.n < Head(run[r].packets).n)
    BY <2>1 DEF NoneLeftOut, Rewound, at
  <2>3. at(r, "wait") /\ ~run[r].woken /\ unsignalled = {} => CaughtUp(r)
    BY <2>1 DEF Asleep, Rewound, at, CaughtUp
  <2> QED BY <2>2, <2>3 DEF Buffered
<1> QED BY <1>1, InOrderHolds, TypeCorrect, PTL

==============================================================================
