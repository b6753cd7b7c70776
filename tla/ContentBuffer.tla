---------------------------- MODULE ContentBuffer ----------------------------
(***************************************************************************)
(* internal/channel/content.go: the stream header and the ring of data     *)
(* packets of one channel, with the signal channel readers sleep on.       *)
(*                                                                         *)
(* A buffer is written by the goroutines that receive the stream: a relay  *)
(* client, or the RTMP handlers of all the encoders that are connected     *)
(* with one stream key at the moment.  Nothing makes the positions of one  *)
(* go on from those of another.  Any number of readers share it.  Every    *)
(* method is atomic under b.mu, except Write, which releases b.mu between  *)
(* storing the packet and waking the readers (its writer is in unsignalled *)
(* in between).                                                            *)
(***************************************************************************)
EXTENDS Integers, Sequences, FiniteSetsExt

CONSTANTS
    Writers,    \* the goroutines that write
    Size,       \* len(b.packets)
    HeaderData, \* header bytes, abstracted to distinct values
    NoData,     \* nil, the header bytes before the first SetHeader
    MaxPos,     \* bound: the largest stream position
    MaxWrites,  \* bound: the packets written in a behaviour
    Ticks       \* what time.Now() may advance by between two writes: 0 is a
                \* clock too coarse to tell them apart

ASSUME SizeAssumption == Size \in Nat \ {0}
ASSUME BoundAssumption == MaxPos \in Nat /\ MaxWrites \in Nat
ASSUME TicksAssumption == Ticks \subseteq Nat
ASSUME NoDataAssumption == NoData \notin HeaderData

VARIABLES
    packets,     \* the ring
    count,       \* packets written since the last header change
    header,      \* header bytes
    headerPos,   \* header position
    sig,         \* which signal channel is installed: notifyWrite closes
                 \* number sig and installs number sig + 1
    unsignalled, \* the writers that have stored a packet and not yet signalled
    clock,       \* what time.Now() last returned; 0 is the zero Time
    written,     \* packets ever written: names the payload of the next one
    tied         \* history: a packet was stored at the time of the one before
                 \* it, and at no later position

bufferVars == <<packets, count, header, headerPos, sig, unsignalled,
                clock, written, tied>>

Positions == 0..MaxPos

(* ContFlags is zero for a keyframe.  The payload is abstracted to its     *)
(* serial number, in the order of the stores.                              *)
Flags == {0, 1}
Content == [Pos : Positions, Data : Nat, ContFlags : Flags, Timestamp : Nat]
ZeroContent == [Pos |-> 0, Data |-> 0, ContFlags |-> 0, Timestamp |-> 0]

------------------------------------------------------------------------------
(* Reading the ring.  Indices run from Start to count - 1.                 *)

Start == IF count > Size THEN count - Size ELSE 0

Slot(i) == packets[i % Size]

Indices == Start..(count - 1)

From(first) == [k \in 1..(count - first) |-> Slot(first + k - 1)]

(* What the two scans of Since and PacketsAfter return: everything from    *)
(* the first packet found on.                                              *)
FromFirst(found) == IF found = {} THEN << >> ELSE From(Min(found))

HasData == count > 0

OldestPos_Unwrapped == IF count = 0 THEN 0 ELSE packets[0].Pos
OldestPos ==
    IF count = 0 THEN 0
    ELSE IF count <= Size THEN packets[0].Pos
    ELSE packets[count % Size].Pos

NewestPos == IF count = 0 THEN 0 ELSE packets[(count - 1) % Size].Pos

Since(pos) == FromFirst({i \in Indices : Slot(i).Pos >= pos})

Newer_ByTime(p, ref) == ref.Timestamp = 0 \/ p.Timestamp > ref.Timestamp
Newer_OrSame(p, ref) ==
    \/ ref.Timestamp = 0
    \/ p.Timestamp > ref.Timestamp
    \/ p.Timestamp = ref.Timestamp /\ p.Pos >= ref.Pos
Newer(p, ref) ==
    \/ ref.Timestamp = 0
    \/ p.Timestamp > ref.Timestamp
    \/ p.Timestamp = ref.Timestamp /\ p.Pos > ref.Pos

PacketsAfter(ref) == FromFirst({i \in Indices : Newer(Slot(i), ref)})

------------------------------------------------------------------------------
NewRing_Nil == << >>
NewRing == [i \in 0..(Size - 1) |-> ZeroContent]

BufferInit ==
    /\ packets = NewRing
    /\ count = 0
    /\ header = NoData
    /\ headerPos = 0
    /\ sig = 0
    /\ unsignalled = {}
    /\ clock = 0
    /\ written = 0
    /\ tied = FALSE

(* SetHeader with the header already in force returns FALSE and changes    *)
(* nothing; any other header empties the ring.  It never signals.          *)
SameHeader_Dropped(data, pos) == FALSE
SameHeader(data, pos) == <<data, pos>> = <<header, headerPos>>

SetHeader(data, pos) ==
    \/ /\ SameHeader(data, pos)
       /\ UNCHANGED bufferVars
    \/ /\ ~SameHeader(data, pos)
       /\ count' = 0
       /\ header' = data
       /\ headerPos' = pos
       /\ UNCHANGED <<packets, sig, unsignalled, clock, written, tied>>

(* The part of Write under b.mu, at whatever position the source gives.    *)
(* time.Now() never goes back, and two calls may read the same time.       *)
WriteSlot == count % Size

NewContent(pos, flags, now) ==
    [Pos |-> pos, Data |-> written + 1, ContFlags |-> flags, Timestamp |-> now]

TiesWithNewest(pos, now) ==
    /\ HasData
    /\ Slot(count - 1).Timestamp = now
    /\ pos <= Slot(count - 1).Pos

WriteStore(w, pos, flags) ==
    /\ w \notin unsignalled
    /\ written < MaxWrites
    /\ \E tick \in Ticks :
         LET now == IF clock = 0 THEN 1 ELSE clock + tick IN
         /\ clock' = now
         /\ packets' =
                [packets EXCEPT ![WriteSlot] = NewContent(pos, flags, now)]
         /\ tied' = (tied \/ TiesWithNewest(pos, now))
    /\ count' = count + 1
    /\ written' = written + 1
    /\ unsignalled' = unsignalled \cup {w}
    /\ UNCHANGED <<header, headerPos, sig>>

(* The rest of Write: install a new signal channel and close the old one.  *)
notifyWrite(w) ==
    /\ w \in unsignalled
    /\ unsignalled' = unsignalled \ {w}
    /\ sig' = sig + 1
    /\ UNCHANGED <<packets, count, header, headerPos, clock, written, tied>>

Next ==
    \/ \E w \in Writers \ unsignalled, data \in HeaderData, pos \in Positions :
            SetHeader(data, pos)
    \/ \E w \in Writers, pos \in Positions, flags \in Flags :
            WriteStore(w, pos, flags)
    \/ \E w \in Writers : notifyWrite(w)

Spec == BufferInit /\ [][Next]_bufferVars

------------------------------------------------------------------------------
(* Type correctness: the ring always holds Size well-formed packets.       *)
TypeOK ==
    /\ packets \in [0..(Size - 1) -> Content]
    /\ count \in Nat
    /\ header \in HeaderData \cup {NoData}
    /\ headerPos \in Positions
    /\ sig \in Nat
    /\ unsignalled \subseteq Writers
    /\ clock \in Nat
    /\ written \in 0..MaxWrites
    /\ tied \in BOOLEAN

(* The window a reader sees through the ring.                              *)
Window == From(Start)

Log == INSTANCE StreamLog WITH
    Packet <- Content,
    Header <- HeaderData \X Positions,
    NoHeader <- <<NoData, 0>>,
    header <- <<header, headerPos>>,
    window <- Window

(* The buffered packets are in order of time, and those of one time in     *)
(* order of position unless two tied: the order in which PacketsAfter      *)
(* compares them.                                                          *)
RingOrdered ==
    /\ \A i \in Indices : Slot(i).Timestamp \in 1..clock
    /\ \A i, j \in Indices :
         i < j => /\ Slot(i).Timestamp <= Slot(j).Timestamp
                  /\ \/ Slot(i).Timestamp # Slot(j).Timestamp
                     \/ Slot(i).Pos < Slot(j).Pos
                     \/ tied

(* The ring implements the sliding window: index arithmetic modulo the     *)
(* size, before and after the first wrap, never loses, duplicates or       *)
(* reorders a packet, and re-setting the header in force keeps the packets *)
(* (Write, SetHeader).                                                     *)
ImplementsLog == Log!Spec

(* result is the part of the window that passes Test, and that part is a   *)
(* suffix of the window.                                                   *)
IsSuffixOfThose(result, Test(_)) ==
    \E k \in 0..Len(Window) :
        /\ result = SubSeq(Window, k + 1, Len(Window))
        /\ \A i \in 1..Len(Window) : Test(Window[i]) <=> i > k

(* Since stops its scan at the first hit and returns the rest unseen;      *)
(* nevertheless it returns exactly the buffered packets at or after pos,   *)
(* as long as no position in the buffer is below the one before it.  Two   *)
(* encoders with one key can break that (rtmp/server.go:257).              *)
Ascending ==
    \A i, j \in 1..Len(Window) : i < j => Window[i].Pos <= Window[j].Pos

SinceIsExact ==
    Ascending => \A pos \in 0..(MaxPos + 1) :
        LET AtOrAfter(c) == c.Pos >= pos
        IN  IsSuffixOfThose(Since(pos), AtOrAfter)

(* PacketsAfter needs no order of the positions.  A reader that asks after *)
(* a packet still buffered gets exactly the ones written later, wherever   *)
(* their positions are and although a coarse clock gives several packets   *)
(* one timestamp; only two packets that tie in both are not told apart.    *)
PacketsAfterIsExact ==
    ~tied => \A r \in 1..Len(Window) :
                PacketsAfter(Window[r]) = SubSeq(Window, r + 1, Len(Window))

(* OldestPos and NewestPos, which compute slots on their own, agree with   *)
(* the window the scans return, on both sides of the first wrap.           *)
EndsAgree ==
    HasData => /\ OldestPos = Window[1].Pos
               /\ NewestPos = Window[Len(Window)].Pos

(* Every reader of the ring sees the window, whatever part of it it asks   *)
(* for, before and after the ring wraps and across header changes.         *)
ReadsAreExact == SinceIsExact /\ PacketsAfterIsExact /\ EndsAgree

==============================================================================
