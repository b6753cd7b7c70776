------------------------------ MODULE StreamLog ------------------------------
(***************************************************************************)
(* What a channel's content buffer promises, with no ring in it: the       *)
(* current header and a window, the newest packets written since that      *)
(* header came into force, oldest first and at most Size of them.          *)
(* ContentBuffer implements this module (see Log there).                   *)
(***************************************************************************)
EXTENDS Integers, Sequences

CONSTANTS
    Size,     \* how many packets the window holds
    Packet,   \* the packets
    Header,   \* the <<bytes, position>> headers
    NoHeader  \* the header before any is set

VARIABLES
    header,   \* the header in force
    window    \* the packets a reader can still get, oldest first

TypeOK ==
    /\ header \in Header \cup {NoHeader}
    /\ window \in Seq(Packet)
    /\ Len(window) <= Size

Init ==
    /\ header = NoHeader
    /\ window = << >>

(* A different header starts a new stream: nothing of the old one remains. *)
NewHeader ==
    /\ header' \in Header \ {header}
    /\ window' = << >>

(* A packet joins at the end; the oldest leaves only when the window is    *)
(* full, and nothing else ever leaves or changes place.                    *)
Pushed(p) == Append(IF Len(window) < Size THEN window ELSE Tail(window), p)

AppendPacket ==
    /\ window' # << >>
    /\ LET p == window'[Len(window')]
       IN  p \in Packet /\ window' = Pushed(p)
    /\ UNCHANGED header

Next == NewHeader \/ AppendPacket

Spec == Init /\ [][Next]_<<header, window>>

==============================================================================
