--------------------------- MODULE HTTPStreamProofs ---------------------------
(***************************************************************************)
(* Theorems about ContentBuffer, for every ring size and every bound, and  *)
(* about HTTPStream, which extends it, for any number of writers and       *)
(* viewers.                                                                *)
(***************************************************************************)
EXTENDS HTTPStream, SequenceTheorems, WellFoundedInduction, TLAPS

(* The buffer.                                                             *)

(* Two indices less than Size apart never share a slot.                    *)
LEMMA SlotsDistinct ==
    ASSUME NEW i \in Nat, NEW j \in Nat, i < j, j - i < Size
    PROVE  i % Size # j % Size
<1> USE SizeAssumption
<1>1. i = Size * (i \div Size) + (i % Size)  OBVIOUS
<1>2. j = Size * (j \div Size) + (j % Size)  OBVIOUS
<1> DEFINE a == i \div Size
           b == j \div Size
<1>3. a \in Int /\ b \in Int  OBVIOUS
<1>4. SUFFICES ASSUME i % Size = j % Size PROVE FALSE  OBVIOUS
<1>5. j - i = Size * (b - a)
  BY <1>1, <1>2, <1>3, <1>4
<1>6. CASE b - a <= 0
  <2>1. Size * (b - a) <= 0  BY <1>3, <1>6
  <2> QED BY <2>1, <1>5
<1>7. CASE b - a >= 1
  <2>1. Size * (b - a) >= Size  BY <1>3, <1>7
  <2> QED BY <2>1, <1>5
<1> QED BY <1>3, <1>6, <1>7

(* Indices Size apart share a slot.                                        *)
LEMMA SlotsPeriodic ==
    ASSUME NEW i \in Nat, i >= Size
    PROVE  (i - Size) % Size = i % Size
<1> USE SizeAssumption
<1> DEFINE d == i - Size
           a == d \div Size
           b == i \div Size
<1>1. d = Size * a + (d % Size) /\ d % Size \in 0..(Size - 1)  OBVIOUS
<1>2. i = Size * b + (i % Size) /\ i % Size \in 0..(Size - 1)  OBVIOUS
<1>3. a \in Int /\ b \in Int  OBVIOUS
<1>4. Size * (b - a - 1) = (d % Size) - (i % Size)
  <2>1. Size * (b - a - 1) = Size * b - Size * a - Size  BY <1>3
  <2> HIDE DEF a, b
  <2> QED BY <1>1, <1>2, <1>3, <2>1
<1>5. b - a - 1 = 0
  <2> HIDE DEF a, b
  <2>1. CASE b - a - 1 >= 1
    <3>1. Size * (b - a - 1) >= Size  BY <1>3, <2>1
    <3> QED BY <3>1, <1>1, <1>2, <1>4
  <2>2. CASE b - a - 1 <= -1
    <3>1. Size * (b - a - 1) <= -Size  BY <1>3, <2>2
    <3> QED BY <3>1, <1>1, <1>2, <1>4
  <2> QED BY <1>3, <2>1, <2>2
<1> QED BY <1>1, <1>2, <1>4, <1>5

------------------------------------------------------------------------------
(* The indices a reader scans are at most Size consecutive naturals, and   *)
(* each names a well-formed packet.                                        *)
LEMMA IndexFacts ==
    ASSUME TypeOK
    PROVE  /\ Start \in Nat
           /\ Start <= count
           /\ count - Start <= Size
           /\ count <= Size => Start = 0
           /\ \A i \in Nat : i % Size \in 0..(Size - 1) /\ Slot(i) \in Content
BY SizeAssumption DEF TypeOK, Start, Slot

LEMMA ZeroContentType == ZeroContent \in Content
BY BoundAssumption DEF ZeroContent, Content, Positions, Flags

(* Type correctness.                                                       *)
LEMMA InitTypeOK == BufferInit => TypeOK
<1> SUFFICES ASSUME BufferInit PROVE TypeOK
  OBVIOUS
<1>1. tied \in BOOLEAN /\ unsignalled \subseteq Writers
  BY Zenon DEF BufferInit
<1>2. packets \in [0..(Size - 1) -> Content]
  BY ZeroContentType DEF BufferInit, NewRing
<1>3. /\ count = 0 /\ header = NoData /\ headerPos = 0
      /\ sig = 0 /\ clock = 0 /\ written = 0
  BY Zenon DEF BufferInit
<1> QED
  BY <1>1, <1>2, <1>3, BoundAssumption DEF TypeOK, Positions

(* The packet a write stores carries a time that is neither zero nor       *)
(* earlier than the last one.                                              *)
LEMMA WriteTime ==
    ASSUME TypeOK, NEW w, NEW pos, NEW flags, WriteStore(w, pos, flags)
    PROVE  \E now \in Nat :
             /\ now > 0 /\ now >= clock /\ clock' = now
             /\ packets' =
                    [packets EXCEPT ![WriteSlot] = NewContent(pos, flags, now)]
             /\ tied' = (tied \/ TiesWithNewest(pos, now))
<1>1. PICK tick \in Ticks :
          LET now == IF clock = 0 THEN 1 ELSE clock + tick IN
          /\ clock' = now
          /\ packets' =
                 [packets EXCEPT ![WriteSlot] = NewContent(pos, flags, now)]
          /\ tied' = (tied \/ TiesWithNewest(pos, now))
  BY DEF WriteStore
<1> DEFINE now == IF clock = 0 THEN 1 ELSE clock + tick
<1>2. now \in Nat /\ now > 0 /\ now >= clock
  BY TicksAssumption DEF TypeOK
<1>3. /\ clock' = now
      /\ packets' = [packets EXCEPT ![WriteSlot] = NewContent(pos, flags, now)]
      /\ tied' = (tied \/ TiesWithNewest(pos, now))
  BY <1>1
<1> HIDE DEF now
<1> QED BY <1>2, <1>3

LEMMA NextTypeOK == TypeOK /\ [Next]_bufferVars => TypeOK'
<1> SUFFICES ASSUME TypeOK, [Next]_bufferVars PROVE TypeOK'
  OBVIOUS
<1>1. ASSUME NEW data \in HeaderData, NEW pos \in Positions,
             SetHeader(data, pos)
      PROVE  TypeOK'
  BY <1>1 DEF TypeOK, SetHeader, bufferVars
<1>2. ASSUME NEW w \in Writers, NEW pos \in Positions, NEW flags \in Flags,
             WriteStore(w, pos, flags)
      PROVE  TypeOK'
  <2>1. PICK now \in Nat :
            /\ clock' = now
            /\ packets' =
                   [packets EXCEPT ![WriteSlot] = NewContent(pos, flags, now)]
            /\ tied' = (tied \/ TiesWithNewest(pos, now))
    BY <1>2, WriteTime
  <2>2. NewContent(pos, flags, now) \in Content
    BY BoundAssumption DEF TypeOK, Content, NewContent
  <2>3. packets' \in [0..(Size - 1) -> Content]
    BY <2>1, <2>2 DEF TypeOK
  <2>4. tied' \in BOOLEAN
    BY <2>1, Zenon DEF TypeOK
  <2>5. unsignalled' \subseteq Writers
    BY <1>2, Zenon DEF TypeOK, WriteStore
  <2>6. /\ count' = count + 1 /\ written' = written + 1 /\ written < MaxWrites
        /\ UNCHANGED <<header, headerPos, sig>>
    BY <1>2 DEF WriteStore
  <2> QED
    BY <2>1, <2>3, <2>4, <2>5, <2>6, BoundAssumption DEF TypeOK
<1>3. ASSUME NEW w \in Writers, notifyWrite(w)
      PROVE  TypeOK'
  <2>1. unsignalled' \subseteq Writers  BY <1>3, Zenon DEF notifyWrite, TypeOK
  <2>2. /\ sig' = sig + 1
        /\ UNCHANGED <<packets, count, header, headerPos, clock, written, tied>>
    BY <1>3, Zenon DEF notifyWrite
  <2> QED BY <2>1, <2>2 DEF TypeOK
<1>4. CASE UNCHANGED bufferVars
  BY <1>4 DEF TypeOK, bufferVars
<1> QED BY <1>1, <1>2, <1>3, <1>4 DEF Next

THEOREM TypeCorrect == Spec => []TypeOK
BY InitTypeOK, NextTypeOK, PTL DEF Spec

------------------------------------------------------------------------------
(* What Write does to the ring: the other scanned slots keep their packet. *)
LEMMA WriteKeepsOthers ==
    ASSUME TypeOK, TypeOK',
           NEW w \in Writers, NEW pos \in Positions, NEW flags \in Flags,
           WriteStore(w, pos, flags)
    PROVE  /\ count' = count + 1
           /\ Start' = IF count < Size THEN Start ELSE Start + 1
           /\ \A i \in Start'..(count - 1) : Slot(i)' = Slot(i)
           /\ packets'[count % Size].Pos = pos
           /\ packets'[count % Size].Timestamp = clock'
           /\ packets'[count % Size].Data = written + 1
           /\ clock' \in Nat /\ clock' > 0 /\ clock' >= clock
           /\ tied \/ TiesWithNewest(pos, clock') => tied'
<1>1. PICK now \in Nat :
          /\ now > 0 /\ now >= clock /\ clock' = now
          /\ packets' =
                 [packets EXCEPT ![WriteSlot] = NewContent(pos, flags, now)]
          /\ tied' = (tied \/ TiesWithNewest(pos, now))
  BY WriteTime
<1>2. /\ count \in Nat /\ clock \in Nat /\ count' = count + 1
      /\ count % Size \in 0..(Size - 1)
      /\ packets \in [0..(Size - 1) -> Content]
  BY SizeAssumption DEF TypeOK, WriteStore
<1>3. Start' = IF count < Size THEN Start ELSE Start + 1
  BY <1>2, SizeAssumption DEF Start
<1>4. /\ packets'[count % Size].Pos = pos
      /\ packets'[count % Size].Timestamp = clock'
      /\ packets'[count % Size].Data = written + 1
  BY <1>1, <1>2 DEF WriteSlot, NewContent
<1>5. ASSUME NEW i \in Start'..(count - 1)
      PROVE  Slot(i)' = Slot(i)
  <2>1. i \in Nat /\ i < count /\ count - i < Size
    BY <1>2, <1>3, SizeAssumption DEF Start
  <2>2. i % Size # count % Size  BY <2>1, <1>2, SlotsDistinct
  <2>3. i % Size \in 0..(Size - 1)  BY <2>1, SizeAssumption
  <2> QED BY <1>1, <1>2, <2>2, <2>3 DEF Slot, WriteSlot
<1>6. tied \/ TiesWithNewest(pos, clock') => tied'
  BY <1>1, Zenon
<1> QED BY <1>1, <1>2, <1>3, <1>4, <1>5, <1>6

------------------------------------------------------------------------------
(* The ring stays ordered.                                                 *)
LEMMA EmptyRingOrdered ==
    ASSUME count = 0 PROVE RingOrdered /\ Start = 0 /\ Window = << >>
BY SizeAssumption DEF RingOrdered, Indices, Start, Window, From

LEMMA NextRingOrdered ==
    TypeOK /\ TypeOK' /\ RingOrdered /\ [Next]_bufferVars => RingOrdered'
<1> SUFFICES ASSUME TypeOK, TypeOK', RingOrdered, [Next]_bufferVars
             PROVE  RingOrdered'
  OBVIOUS
<1>1. ASSUME UNCHANGED <<packets, count, clock, tied>>
      PROVE  RingOrdered'
  BY <1>1 DEF RingOrdered, Indices, Start, Slot
<1>2. ASSUME NEW data \in HeaderData, NEW pos \in Positions,
             SetHeader(data, pos)
      PROVE  RingOrdered'
  <2>1. CASE count' = 0
    BY <2>1, SizeAssumption DEF RingOrdered, Indices, Start
  <2>2. CASE UNCHANGED bufferVars
    BY <2>2, <1>1 DEF bufferVars
  <2> QED BY <1>2, <2>1, <2>2 DEF SetHeader
<1>3. ASSUME NEW w \in Writers, NEW pos \in Positions, NEW flags \in Flags,
             WriteStore(w, pos, flags)
      PROVE  RingOrdered'
  <2>1. /\ count' = count + 1
        /\ Start' = IF count < Size THEN Start ELSE Start + 1
        /\ \A i \in Start'..(count - 1) : Slot(i)' = Slot(i)
        /\ packets'[count % Size].Pos = pos
        /\ packets'[count % Size].Timestamp = clock'
        /\ clock' \in Nat /\ clock' > 0 /\ clock' >= clock
    BY <1>3, WriteKeepsOthers
  <2>2. tied \/ TiesWithNewest(pos, clock') => tied'
    BY <1>3, WriteKeepsOthers
  <2>3. /\ count \in Nat /\ clock \in Nat
        /\ Start \in Nat /\ Start <= count /\ pos \in Int
        /\ \A i \in Indices : /\ i \in Nat /\ i < count
                              /\ Slot(i).Pos \in Int
                              /\ Slot(i).Timestamp \in 1..clock
    <3>1. count \in Nat /\ clock \in Nat  BY DEF TypeOK
    <3>2. pos \in Int  BY BoundAssumption DEF Positions
    <3>3. Start \in Nat /\ Start <= count /\ \A i \in Nat : Slot(i) \in Content
      BY IndexFacts
    <3>4. ASSUME NEW i \in Indices
          PROVE  /\ i \in Nat /\ i < count
                 /\ Slot(i).Pos \in Int
                 /\ Slot(i).Timestamp \in 1..clock
      <4>1. i \in Nat /\ i < count  BY <3>1, <3>3 DEF Indices
      <4>2. Slot(i).Pos \in Int
        BY <4>1, <3>3, BoundAssumption DEF Content, Positions
      <4> QED BY <4>1, <4>2 DEF RingOrdered
    <3> QED BY <3>1, <3>2, <3>3, <3>4
  <2>4. ASSUME NEW i \in Indices
        PROVE  /\ Slot(i).Timestamp <= clock'
               /\ Slot(i).Timestamp # clock' \/ Slot(i).Pos < pos \/ tied'
    <3> DEFINE n == count - 1
    <3>1. n \in Indices /\ i <= n
      BY <2>3, SizeAssumption DEF Indices, Start
    <3>2. /\ Slot(n).Timestamp \in 1..clock /\ Slot(i).Timestamp \in 1..clock
          /\ Slot(n).Pos \in Int /\ Slot(i).Pos \in Int
      BY <2>3, <3>1
    <3>3. i = n \/ /\ Slot(i).Timestamp <= Slot(n).Timestamp
                   /\ \/ Slot(i).Timestamp # Slot(n).Timestamp
                      \/ Slot(i).Pos < Slot(n).Pos
                      \/ tied
      BY <2>3, <3>1 DEF RingOrdered
    <3>4. Slot(n).Timestamp # clock' \/ Slot(n).Pos < pos \/ tied'
      <4>1. count > 0  BY <2>3, <3>1
      <4>2. ~tied' => ~TiesWithNewest(pos, clock')  BY <2>2, Zenon
      <4> QED BY <2>3, <3>2, <4>1, <4>2 DEF TiesWithNewest, HasData
    <3>5. tied => tied'  BY <2>2, Zenon
    <3> HIDE DEF n
    <3> QED BY <2>1, <2>3, <3>2, <3>3, <3>4, <3>5
  <2> DEFINE new == packets'[count % Size]
  <2>5. /\ Indices' = Start'..count
        /\ \A i \in Indices' : \/ i \in Indices /\ Slot(i)' = Slot(i)
                               \/ i = count /\ Slot(i)' = new
    BY <2>1, <2>3 DEF Indices, Slot
  <2>6. ASSUME NEW i \in Indices' PROVE Slot(i)'.Timestamp \in 1..clock'
    BY <2>5, <2>1, <2>3
  <2>7. ASSUME NEW i \in Indices', NEW j \in Indices', i < j
        PROVE  /\ Slot(i)'.Timestamp <= Slot(j)'.Timestamp
               /\ \/ Slot(i)'.Timestamp # Slot(j)'.Timestamp
                  \/ Slot(i)'.Pos < Slot(j)'.Pos
                  \/ tied'
    <3>1. i \in Indices /\ Slot(i)' = Slot(i)
      BY <2>5, <2>7, <2>3, <2>1
    <3>2. CASE j \in Indices /\ Slot(j)' = Slot(j)
      <4>1. tied => tied'  BY <2>2, Zenon
      <4> QED BY <3>1, <3>2, <2>7, <4>1 DEF RingOrdered
    <3>3. CASE Slot(j)' = new
      BY <3>1, <3>3, <2>1, <2>4
    <3> QED BY <2>5, <3>2, <3>3
  <2> QED BY <2>6, <2>7 DEF RingOrdered
<1>4. ASSUME NEW w \in Writers, notifyWrite(w)
      PROVE  RingOrdered'
  BY <1>4, <1>1 DEF notifyWrite
<1>5. CASE UNCHANGED bufferVars
  BY <1>5, <1>1 DEF bufferVars
<1> QED BY <1>2, <1>3, <1>4, <1>5 DEF Next

THEOREM OrderCorrect == Spec => []RingOrdered
<1>1. BufferInit => RingOrdered
  BY EmptyRingOrdered DEF BufferInit
<1> QED BY <1>1, NextRingOrdered, TypeCorrect, PTL DEF Spec

------------------------------------------------------------------------------
(* The tail of the ring from any scanned index, as a sequence.             *)
LEMMA FromFacts ==
    ASSUME TypeOK, NEW f \in Nat, f <= count
    PROVE  /\ From(f) \in Seq(Content)
           /\ Len(From(f)) = count - f
           /\ \A k \in 1..(count - f) : From(f)[k] = Slot(f + k - 1)
<1>1. count - f \in Nat  BY DEF TypeOK
<1>2. \A k \in 1..(count - f) : Slot(f + k - 1) \in Content
  BY <1>1, IndexFacts
<1>3. From(f) \in [1..(count - f) -> Content]
  BY <1>2 DEF From
<1>4. From(f) \in Seq(Content)
  BY <1>1, <1>3, SeqDef
<1>5. Len(From(f)) = count - f
  BY <1>1, <1>3, <1>4, LenProperties
<1> QED BY <1>4, <1>5 DEF From

(* A write moves the window on by one packet and drops the oldest of a     *)
(* full one.                                                               *)
LEMMA WriteSlidesWindow ==
    ASSUME TypeOK, TypeOK',
           NEW w \in Writers, NEW pos \in Positions, NEW flags \in Flags,
           WriteStore(w, pos, flags)
    PROVE  LET p == Window'[Len(Window')]
           IN  /\ Window' # << >>
               /\ p \in Content
               /\ Window' = IF Len(Window) < Size THEN Append(Window, p)
                                                  ELSE Append(Tail(Window), p)
<1> DEFINE p == Window'[Len(Window')]
           n == count - Start
<1>1. /\ count' = count + 1
      /\ Start' = IF count < Size THEN Start ELSE Start + 1
      /\ \A i \in Start'..(count - 1) : Slot(i)' = Slot(i)
  BY WriteKeepsOthers
<1>2. count \in Nat /\ count' \in Nat  BY DEF TypeOK
<1>3. /\ Start \in Nat /\ Start <= count
      /\ count < Size => n = count
      /\ count >= Size => n = Size
  BY <1>2, SizeAssumption DEF Start
<1>4. Start' \in Nat /\ Start' <= count /\ count' - Start' \in Nat
  BY <1>1, <1>2, <1>3, SizeAssumption
<1>5. /\ Window \in Seq(Content) /\ Len(Window) = n
      /\ \A k \in 1..n : Window[k] = Slot(Start + k - 1)
  BY <1>3, FromFacts DEF Window
<1>6. /\ Window' \in Seq(Content) /\ Len(Window') = count' - Start'
      /\ \A k \in 1..(count' - Start') : Window'[k] = Slot(Start + k - 1)'
  <2>1. /\ From(Start)' \in Seq(Content)
        /\ Len(From(Start)') = count' - Start'
        /\ \A k \in 1..(count' - Start') : From(Start)'[k] = Slot(Start + k - 1)'
    <3>1. \A i \in Nat : Slot(i)' \in Content
      BY SizeAssumption DEF TypeOK, Slot
    <3>2. \A k \in 1..(count' - Start') : Slot(Start + k - 1)' \in Content
      BY <3>1, <1>4, <1>2 DEF Slot
    <3>3. From(Start)' \in [1..(count' - Start') -> Content]
      BY <3>2 DEF From
    <3>4. count' - Start' \in Nat  BY <1>4
    <3>5. From(Start)' \in Seq(Content)  BY <3>3, <3>4, SeqDef
    <3>6. Len(From(Start)') = count' - Start'
      BY <3>3, <3>4, <3>5, LenProperties
    <3> QED BY <3>5, <3>6 DEF From
  <2> QED BY <2>1 DEF Window
<1>7. \A k \in 1..(count - Start') : Window'[k] = Slot(Start' + k - 1)
  BY <1>1, <1>2, <1>4, <1>6 DEF Slot
<1>8. p \in Content /\ Window' # << >>
  <2>1. Len(Window') > 0  BY <1>1, <1>2, <1>4, <1>6
  <2> QED BY <2>1, <1>6, ElementOfSeq, EmptySeq
<1>9. CASE count < Size
  <2>1. Len(Window) < Size  BY <1>5, <1>3, <1>9
  <2>2. Window' = Append(Window, p)
    <3>1. /\ Append(Window, p) \in Seq(Content)
          /\ Len(Append(Window, p)) = n + 1
          /\ \A i \in 1..n : Append(Window, p)[i] = Window[i]
          /\ Append(Window, p)[n + 1] = p
      BY <1>5, <1>8, AppendProperties
    <3>2. Start' = Start /\ Len(Window') = n + 1
      BY <1>1, <1>2, <1>6, <1>9, <1>3
    <3>3. \A i \in 1..(n + 1) : Window'[i] = Append(Window, p)[i]
      BY <3>1, <3>2, <1>5, <1>7, <1>3, <1>2
    <3> QED BY <3>1, <3>2, <3>3, <1>6, SeqEqual
  <2> QED BY <2>1, <2>2, <1>8
<1>10. CASE count >= Size
  <2>1. ~(Len(Window) < Size) /\ Window # << >>
    BY <1>5, <1>3, <1>10, SizeAssumption, EmptySeq
  <2>2. Window' = Append(Tail(Window), p)
    <3> DEFINE t == Tail(Window)
    <3>1. /\ t \in Seq(Content) /\ Len(t) = n - 1
          /\ \A i \in 1..(n - 1) : t[i] = Window[i + 1]
      BY <1>5, <2>1, HeadTailProperties
    <3>2. /\ Append(t, p) \in Seq(Content)
          /\ Len(Append(t, p)) = n
          /\ \A i \in 1..(n - 1) : Append(t, p)[i] = t[i]
          /\ Append(t, p)[n] = p
      <4> HIDE DEF t
      <4>1. Len(t) + 1 = n  BY <3>1, <1>2, <1>3
      <4> QED BY <3>1, <4>1, <1>8, AppendProperties
    <3>3. Start' = Start + 1 /\ Len(Window') = n
      BY <1>1, <1>2, <1>6, <1>10, <1>3, SizeAssumption
    <3>4. \A i \in 1..n : Window'[i] = Append(t, p)[i]
      <4> HIDE DEF t
      <4>1. \A i \in 1..(n - 1) : Window'[i] = Slot(Start + i)
        BY <1>7, <3>3, <1>2, <1>3
      <4>2. ASSUME NEW i \in 1..(n - 1) PROVE t[i] = Slot(Start + i)
        <5>1. i + 1 \in 1..n /\ Start + (i + 1) - 1 = Start + i
          BY <1>2, <1>3
        <5>2. Window[i + 1] = Slot(Start + (i + 1) - 1)  BY <5>1, <1>5
        <5> QED BY <3>1, <5>1, <5>2
      <4> QED BY <3>2, <4>1, <4>2, <3>3, <1>2, <1>3
    <3> QED BY <3>2, <3>3, <3>4, <1>6, SeqEqual
  <2> QED BY <2>1, <2>2, <1>8
<1> QED BY <1>2, <1>9, <1>10, SizeAssumption

(* The ring implements the sliding window of StreamLog.                    *)
LEMMA StepRefines ==
    TypeOK /\ TypeOK' /\ [Next]_bufferVars
        => [Log!Next]_<<<<header, headerPos>>, Window>>
<1> SUFFICES ASSUME TypeOK, TypeOK', [Next]_bufferVars
             PROVE  [Log!Next]_<<<<header, headerPos>>, Window>>
  OBVIOUS
<1>1. ASSUME UNCHANGED <<packets, count, header, headerPos>>
      PROVE  UNCHANGED <<<<header, headerPos>>, Window>>
  BY <1>1 DEF Window, From, Start, Slot
<1>2. ASSUME NEW data \in HeaderData, NEW pos \in Positions,
             SetHeader(data, pos)
      PROVE  [Log!Next]_<<<<header, headerPos>>, Window>>
  <2>1. CASE SameHeader(data, pos) /\ UNCHANGED bufferVars
    BY <2>1, <1>1 DEF bufferVars
  <2>2. CASE ~SameHeader(data, pos) /\ count' = 0 /\ header' = data /\ headerPos' = pos
    <3>1. Window' = << >>  BY <2>2, SizeAssumption DEF Window, From, Start
    <3>2. <<header, headerPos>>' \in (HeaderData \X Positions) \ {<<header, headerPos>>}
      BY <2>2 DEF SameHeader
    <3> QED BY <3>1, <3>2 DEF Log!Next, Log!NewHeader
  <2> QED BY <1>2, <2>1, <2>2 DEF SetHeader
<1>3. ASSUME NEW w \in Writers, NEW pos \in Positions, NEW flags \in Flags,
             WriteStore(w, pos, flags)
      PROVE  [Log!Next]_<<<<header, headerPos>>, Window>>
  <2>1. UNCHANGED <<header, headerPos>>  BY <1>3 DEF WriteStore
  <2> QED BY <1>3, <2>1, WriteSlidesWindow
          DEF Log!Next, Log!AppendPacket, Log!Pushed
<1>4. CASE \E w \in Writers : notifyWrite(w)
  BY <1>4, <1>1 DEF notifyWrite
<1>5. CASE UNCHANGED bufferVars
  BY <1>5, <1>1 DEF bufferVars
<1> QED BY <1>2, <1>3, <1>4, <1>5 DEF Next

THEOREM RingImplementsLog == Spec => ImplementsLog
<1>1. BufferInit => Log!Init
  BY EmptyRingOrdered DEF BufferInit, Log!Init
<1> QED
  BY <1>1, StepRefines, TypeCorrect, PTL DEF Spec, ImplementsLog, Log!Spec

------------------------------------------------------------------------------
(* The scans.  A set of naturals that is not empty has a least element.    *)
LEMMA MinIsLeast ==
    ASSUME NEW S \in SUBSET Nat, S # {}
    PROVE  Min(S) \in S /\ \A y \in S : Min(S) <= y
<1> DEFINE Less == {ss \in Nat \X Nat : ss[1] < ss[2]}
<1>1. IsWellFoundedOn(Less, Nat)
  BY NatLessThanWellFounded, Zenon DEF OpToRel
<1>2. \E x \in S : \A y \in S : ~(<<y, x>> \in Less)
  <2> HIDE DEF Less
  <2> QED BY <1>1, WFMin
<1>3. \E x \in S : \A y \in S : x <= y
  <2>1. PICK x \in S : \A y \in S : ~(<<y, x>> \in Less)  BY <1>2
  <2>2. ASSUME NEW y \in S PROVE x <= y
    <3>1. <<y, x>> \in Nat \X Nat /\ <<y, x>>[1] = y /\ <<y, x>>[2] = x
      OBVIOUS
    <3>2. ~(y < x)  BY <2>1, <3>1
    <3> QED BY <3>2
  <2> QED BY <2>2
<1> QED BY <1>3 DEF Min

(* A scan whose hits, once found, go on to the end returns the suffix of   *)
(* the window that starts at the first hit.                                *)
LEMMA ScanIsSuffix ==
    ASSUME TypeOK, NEW found \in SUBSET Indices,
           \A i \in found, j \in Indices : i < j => j \in found
    PROVE  \E k \in 0..Len(Window) :
              /\ FromFirst(found) = SubSeq(Window, k + 1, Len(Window))
              /\ \A i \in 1..Len(Window) : (Start + i - 1 \in found) <=> i > k
<1> DEFINE n == count - Start
<1>1. /\ count \in Nat /\ Start \in Nat /\ n \in Nat
      /\ Indices = Start..(count - 1)
  <2>1. count \in Nat  BY DEF TypeOK
  <2> QED BY <2>1, IndexFacts DEF Indices
<1>2. /\ Window \in Seq(Content) /\ Len(Window) = n
      /\ \A k \in 1..n : Window[k] = Slot(Start + k - 1)
  BY <1>1, FromFacts DEF Window
<1>3. CASE found = {}
  <2>1. FromFirst(found) = << >>  BY <1>3 DEF FromFirst
  <2> DEFINE l == Len(Window)
  <2>2. l \in Nat  BY <1>1, <1>2
  <2> HIDE DEF l
  <2>3. SubSeq(Window, l + 1, l) = << >>  BY <2>2, SubSeqEmpty
  <2>4. \A i \in 1..l : (Start + i - 1 \in found) <=> i > l
    BY <2>2, <1>3
  <2> QED BY <2>1, <2>2, <2>3, <2>4 DEF l
<1>4. CASE found # {}
  <2> DEFINE m == Min(found)
             k == m - Start
  <2>1. /\ m \in found /\ \A y \in found : m <= y
        /\ m \in Nat /\ m <= count - 1 /\ Start <= m
    <3>1. found \in SUBSET Nat  BY <1>1
    <3>2. m \in found /\ \A y \in found : m <= y  BY <3>1, <1>4, MinIsLeast
    <3> HIDE DEF m
    <3> QED BY <3>2, <1>1
  <2> HIDE DEF m
  <2>2. k \in 0..n /\ k < n /\ n - k = count - m  BY <1>1, <2>1
  <2>3. FromFirst(found) = From(m)  BY <1>4 DEF FromFirst, m
  <2>4. /\ From(m) \in Seq(Content) /\ Len(From(m)) = count - m
        /\ \A i \in 1..(count - m) : From(m)[i] = Slot(m + i - 1)
    BY <1>1, <2>1, FromFacts
  <2>5. \A i \in (k + 1)..n : Window[i] \in Content
    BY <1>1, <1>2, <2>2, ElementOfSeq
  <2>6. /\ SubSeq(Window, k + 1, n) \in Seq(Content)
        /\ Len(SubSeq(Window, k + 1, n)) = n - k
        /\ \A i \in 1..(n - k) : SubSeq(Window, k + 1, n)[i] = Window[k + i]
    <3> HIDE DEF k, n
    <3>1. k + 1 \in Int /\ n \in Int /\ k + 1 <= n  BY <2>2, <1>1
    <3>2. /\ SubSeq(Window, k + 1, n) \in Seq(Content)
          /\ Len(SubSeq(Window, k + 1, n)) = n - (k + 1) + 1
          /\ \A i \in 1..(n - (k + 1) + 1) :
                SubSeq(Window, k + 1, n)[i] = Window[k + 1 + i - 1]
      BY <3>1, <2>5, SubSeqProperties
    <3>3. n - (k + 1) + 1 = n - k  BY <2>2, <1>1
    <3>4. \A i \in 1..(n - k) : k + 1 + i - 1 = k + i  BY <2>2, <1>1
    <3> QED BY <3>2, <3>3, <3>4
  <2>7. ASSUME NEW i \in 1..(n - k)
        PROVE  From(m)[i] = SubSeq(Window, k + 1, n)[i]
    <3>1. k + i \in 1..n /\ Start + (k + i) - 1 = m + i - 1  BY <1>1, <2>1, <2>2
    <3>2. Window[k + i] = Slot(Start + (k + i) - 1)  BY <3>1, <1>2
    <3>3. From(m)[i] = Slot(m + i - 1)  BY <2>2, <2>4
    <3> QED BY <2>6, <3>1, <3>2, <3>3
  <2>8. From(m) = SubSeq(Window, k + 1, n)
    BY <2>2, <2>4, <2>6, <2>7, SeqEqual
  <2>9. \A i \in 1..n : (Start + i - 1 \in found) <=> i > k
    BY <1>1, <2>1
  <2> QED BY <1>2, <2>2, <2>3, <2>8, <2>9
<1> QED BY <1>3, <1>4

LEMMA ScanOrder ==
    ASSUME TypeOK, RingOrdered
    PROVE  /\ \A i \in Indices : /\ Slot(i).Pos \in Int
                                 /\ Slot(i).Timestamp \in Nat
                                 /\ Slot(i).Timestamp > 0
           /\ \A i \in 1..Len(Window) :
                /\ Start + i - 1 \in Indices
                /\ Window[i] = Slot(Start + i - 1)
<1>1. /\ count \in Nat /\ Start \in Nat /\ Start <= count
      /\ \A i \in Nat : Slot(i) \in Content
  BY IndexFacts DEF TypeOK
<1>2. \A i \in Indices : Slot(i) \in Content /\ Slot(i).Timestamp \in 1..clock
  BY <1>1 DEF Indices, RingOrdered
<1>3. \A i \in Indices : /\ Slot(i).Pos \in Int
                         /\ Slot(i).Timestamp \in Nat
                         /\ Slot(i).Timestamp > 0
  BY <1>2, BoundAssumption DEF Content, Positions
<1>4. /\ Len(Window) = count - Start
      /\ \A i \in 1..Len(Window) : Window[i] = Slot(Start + i - 1)
  BY <1>1, FromFacts DEF Window
<1>5. \A i \in 1..Len(Window) : Start + i - 1 \in Indices
  BY <1>1, <1>4 DEF Indices
<1> QED BY <1>3, <1>4, <1>5

(* Since returns exactly the buffered packets at or after pos.             *)
THEOREM SinceCorrect == Spec => []SinceIsExact
<1>1. ASSUME TypeOK, RingOrdered PROVE SinceIsExact
  <2>1. SUFFICES ASSUME Ascending,
                        NEW pos \in 0..(MaxPos + 1)
                 PROVE  \E k \in 0..Len(Window) :
                           /\ Since(pos) = SubSeq(Window, k + 1, Len(Window))
                           /\ \A i \in 1..Len(Window) : Window[i].Pos >= pos <=> i > k
    BY DEF SinceIsExact, IsSuffixOfThose
  <2> DEFINE found == {i \in Indices : Slot(i).Pos >= pos}
  <2>2. ASSUME NEW i \in found, NEW j \in Indices, i < j PROVE j \in found
    <3>1. count \in Nat /\ Start \in Nat /\ Len(Window) = count - Start
      BY <1>1, IndexFacts, FromFacts DEF TypeOK, Window
    <3> DEFINE a == i - Start + 1
               b == j - Start + 1
    <3>2. /\ a \in 1..Len(Window) /\ b \in 1..Len(Window) /\ a < b
          /\ Start + a - 1 = i /\ Start + b - 1 = j
      BY <2>2, <3>1 DEF Indices
    <3>3. Window[a].Pos <= Window[b].Pos
      <4> HIDE DEF a, b
      <4> QED BY <2>1, <3>2 DEF Ascending
    <3>4. Window[a] = Slot(i) /\ Window[b] = Slot(j)
      <4> HIDE DEF a, b
      <4> QED BY <1>1, <3>2, ScanOrder
    <3>5. Slot(i).Pos \in Int /\ Slot(j).Pos \in Int /\ pos \in Int
      BY <1>1, ScanOrder, BoundAssumption
    <3>6. Slot(i).Pos <= Slot(j).Pos  BY <3>3, <3>4
    <3> QED BY <3>5, <3>6
  <2>3. PICK k \in 0..Len(Window) :
              /\ FromFirst(found) = SubSeq(Window, k + 1, Len(Window))
              /\ \A i \in 1..Len(Window) : (Start + i - 1 \in found) <=> i > k
    BY <1>1, <2>2, ScanIsSuffix
  <2>4. \A i \in 1..Len(Window) : Window[i].Pos >= pos <=> i > k
    BY <1>1, <2>3, ScanOrder
  <2> QED BY <2>3, <2>4 DEF Since
<1> QED BY <1>1, TypeCorrect, OrderCorrect, PTL

(* PacketsAfter of a buffered packet returns exactly the later ones.       *)
THEOREM PacketsAfterCorrect == Spec => []PacketsAfterIsExact
<1>1. ASSUME TypeOK, RingOrdered PROVE PacketsAfterIsExact
  <2>1. SUFFICES ASSUME ~tied, NEW r \in 1..Len(Window)
                 PROVE  PacketsAfter(Window[r]) = SubSeq(Window, r + 1, Len(Window))
    BY DEF PacketsAfterIsExact
  <2> DEFINE ref == Start + r - 1
             found == {i \in Indices : Newer(Slot(i), Window[r])}
  <2>2. count \in Nat /\ Start \in Nat /\ Len(Window) \in Nat
    BY <1>1, IndexFacts, FromFacts, LenProperties DEF TypeOK, Window
  <2>3. ref \in Indices /\ Window[r] = Slot(ref)
    BY <1>1, ScanOrder
  <2>4. \A i \in Indices : Newer(Slot(i), Window[r]) <=> i > ref
    <3>1. TAKE i \in Indices
    <3>2. i \in Int /\ ref \in Int  BY <2>2, <2>3 DEF Indices
    <3>3. CASE i > ref
      BY <1>1, <2>1, <2>3, <3>2, <3>3, ScanOrder DEF RingOrdered, Newer
    <3>4. CASE i = ref
      BY <1>1, <2>3, <3>2, <3>4, ScanOrder DEF Newer
    <3>5. CASE i < ref
      BY <1>1, <2>1, <2>3, <3>2, <3>5, ScanOrder DEF RingOrdered, Newer
    <3> QED BY <3>2, <3>3, <3>4, <3>5
  <2>5. \A i \in found, j \in Indices : i < j => j \in found
    BY <2>2, <2>3, <2>4 DEF Indices
  <2>6. PICK k \in 0..Len(Window) :
              /\ FromFirst(found) = SubSeq(Window, k + 1, Len(Window))
              /\ \A i \in 1..Len(Window) : (Start + i - 1 \in found) <=> i > k
    BY <1>1, <2>5, ScanIsSuffix
  <2>7. \A i \in 1..Len(Window) : i > r <=> i > k
    BY <1>1, <2>2, <2>4, <2>6, ScanOrder
  <2>8. k = r
    BY <2>2, <2>7
  <2> QED BY <2>6, <2>8 DEF PacketsAfter
<1> QED BY <1>1, TypeCorrect, OrderCorrect, PTL

(* OldestPos and NewestPos agree with the window.                          *)
THEOREM EndsCorrect == Spec => []EndsAgree
<1>1. ASSUME TypeOK PROVE EndsAgree
  <2>1. SUFFICES ASSUME count > 0
                 PROVE  /\ OldestPos = Window[1].Pos
                        /\ NewestPos = Window[Len(Window)].Pos
    BY DEF EndsAgree, HasData
  <2>2. /\ count \in Nat /\ Size \in Nat /\ Size > 0
        /\ Start \in Nat /\ Start <= count
        /\ count - Start \in Nat /\ count - Start > 0
        /\ Start = IF count > Size THEN count - Size ELSE 0
    BY <1>1, <2>1, SizeAssumption DEF TypeOK, Start
  <2>3. /\ Len(Window) = count - Start
        /\ Window[1] = Slot(Start)
        /\ Window[count - Start] = Slot(count - 1)
    <3>1. /\ Len(Window) = count - Start
          /\ \A k \in 1..(count - Start) : Window[k] = Slot(Start + k - 1)
      BY <1>1, <2>2, FromFacts DEF Window
    <3>2. Start + 1 - 1 = Start /\ Start + (count - Start) - 1 = count - 1
      BY <2>2
    <3>3. 1 \in 1..(count - Start) /\ count - Start \in 1..(count - Start)
      BY <2>2
    <3> QED BY <3>1, <3>2, <3>3
  <2>4. CASE count <= Size
    <3>1. Start = 0 /\ 0 % Size = 0  BY <2>2, <2>4
    <3> QED BY <2>1, <2>2, <2>3, <2>4, <3>1 DEF OldestPos, NewestPos, Slot
  <2>5. CASE count > Size
    <3>1. (count - Size) % Size = count % Size
      BY <2>2, <2>5, SlotsPeriodic
    <3> QED BY <2>1, <2>2, <2>3, <2>5, <3>1 DEF OldestPos, NewestPos, Slot
  <2> QED BY <2>2, <2>4, <2>5
<1> QED BY <1>1, TypeCorrect, PTL

(* Whatever a reader asks of the ring, it is told exactly what the window  *)
(* holds.                                                                  *)
THEOREM ReadsCorrect == Spec => []ReadsAreExact
  BY SinceCorrect, PacketsAfterCorrect, EndsCorrect, PTL DEF ReadsAreExact

------------------------------------------------------------------------------
(* The buffered packets are the last that were written, one after the      *)
(* other.                                                                  *)
RingNumbered ==
    /\ count <= written
    /\ \A i \in Indices : Slot(i).Data = written - count + i + 1

LEMMA NextRingNumbered ==
    TypeOK /\ TypeOK' /\ RingNumbered /\ [Next]_bufferVars => RingNumbered'
<1> SUFFICES ASSUME TypeOK, TypeOK', RingNumbered, [Next]_bufferVars
             PROVE  RingNumbered'
  OBVIOUS
<1>1. ASSUME UNCHANGED <<packets, count, written>> PROVE RingNumbered'
  BY <1>1 DEF RingNumbered, Indices, Start, Slot
<1>2. ASSUME count' = 0 PROVE RingNumbered'
  BY <1>2, SizeAssumption DEF RingNumbered, Indices, Start, TypeOK
<1>3. ASSUME NEW data \in HeaderData, NEW pos \in Positions,
             SetHeader(data, pos)
      PROVE  RingNumbered'
  BY <1>1, <1>2, <1>3 DEF SetHeader, bufferVars
<1>4. ASSUME NEW w \in Writers, NEW pos \in Positions, NEW flags \in Flags,
             WriteStore(w, pos, flags)
      PROVE  RingNumbered'
  <2>1. /\ count' = count + 1 /\ written' = written + 1
        /\ count \in Nat /\ written \in Nat /\ count <= written
    BY <1>4, BoundAssumption DEF WriteStore, TypeOK, RingNumbered
  <2>2. ASSUME NEW i \in Indices'
        PROVE  Slot(i)'.Data = written' - count' + i + 1
    <3>1. i \in Start'..count /\ Start' \in Nat /\ Start' >= Start /\ Start \in Nat
      BY <2>1, SizeAssumption, WriteKeepsOthers, <1>4 DEF Indices, Start
    <3>2. CASE i = count
      BY <1>4, <2>1, <3>2, WriteKeepsOthers DEF Slot
    <3>3. CASE i # count
      <4>1. i \in Indices /\ Slot(i)' = Slot(i)
        BY <1>4, <2>1, <3>1, <3>3, WriteKeepsOthers DEF Indices
      <4> QED BY <2>1, <3>1, <4>1 DEF RingNumbered
    <3> QED BY <3>2, <3>3
  <2> QED BY <2>1, <2>2 DEF RingNumbered
<1>5. CASE \E w \in Writers : notifyWrite(w)
  BY <1>5, <1>1 DEF notifyWrite
<1>6. CASE UNCHANGED bufferVars
  BY <1>6, <1>1 DEF bufferVars
<1> QED BY <1>3, <1>4, <1>5, <1>6 DEF Next

(* What the window holds are the newest packets and there is no gap among  *)
(* them, whatever the ring has dropped or a header change has emptied      *)
(* (Write, SetHeader).                                                     *)
THEOREM NumberCorrect == Spec => []RingNumbered
<1>1. BufferInit => RingNumbered
  BY SizeAssumption DEF BufferInit, RingNumbered, Indices, Start
<1> QED BY <1>1, NextRingNumbered, TypeCorrect, PTL DEF Spec

(* What PacketsAfter returns begins with a newer packet and goes on to the *)
(* end of the ring.                                                        *)
LEMMA PacketsAfterFacts ==
    ASSUME TypeOK, NEW ref
    PROVE  LET b == PacketsAfter(ref)
           IN  /\ b \in Seq(Content)
               /\ \/ b = << >>
                  \/ \E m \in Indices :
                        /\ Newer(Slot(m), ref)
                        /\ Len(b) = count - m
                        /\ \A k \in 1..Len(b) : /\ m + k - 1 \in Indices
                                                /\ b[k] = Slot(m + k - 1)
<1> DEFINE found == {i \in Indices : Newer(Slot(i), ref)}
           m == Min(found)
<1>1. CASE found = {}
  BY <1>1, EmptySeq DEF PacketsAfter, FromFirst
<1>2. CASE found # {}
  <2>1. count \in Nat /\ Start \in Nat  BY IndexFacts DEF TypeOK
  <2>2. found \in SUBSET Nat /\ found \subseteq Indices
    BY <2>1 DEF Indices
  <2>3. m \in found
    <3> HIDE DEF found
    <3> QED BY <1>2, <2>2, MinIsLeast
  <2>4. PacketsAfter(ref) = From(m)  BY <1>2 DEF PacketsAfter, FromFirst
  <2>5. Newer(Slot(m), ref) /\ m \in Indices  BY <2>3
  <2> HIDE DEF m, found
  <2>6. m \in Nat /\ m <= count  BY <2>1, <2>5 DEF Indices
  <2>7. /\ From(m) \in Seq(Content) /\ Len(From(m)) = count - m
        /\ \A k \in 1..(count - m) : From(m)[k] = Slot(m + k - 1)
    BY <2>6, FromFacts
  <2>8. \A k \in 1..(count - m) : m + k - 1 \in Indices
    BY <2>1, <2>5, <2>6 DEF Indices
  <2> QED BY <2>4, <2>5, <2>7, <2>8
<1> QED BY <1>1, <1>2

(* Of a packet, or the zero Content, that a reader asks after: no packet   *)
(* that the scan takes for newer was written before it.                    *)
Passed(c) ==
    /\ c.Data <= written
    /\ \A i \in Indices : Newer(Slot(i), c) => c.Data < Slot(i).Data

LEMMA ZeroPassed ==
    ASSUME TypeOK, RingNumbered PROVE Passed(ZeroContent)
<1>1. count \in Nat /\ written \in Nat /\ Start \in Nat
  BY IndexFacts, BoundAssumption DEF TypeOK
<1> QED BY <1>1 DEF Passed, ZeroContent, RingNumbered, Indices

(* A packet in the ring may be asked after.                                *)
LEMMA BufferedPassed ==
    ASSUME TypeOK, RingOrdered, RingNumbered, ~tied, NEW j \in Indices
    PROVE  Passed(Slot(j))
<1>1. count \in Nat /\ written \in Nat /\ Start \in Nat
  BY IndexFacts, BoundAssumption DEF TypeOK
<1>2. j \in Nat /\ j < count  BY <1>1 DEF Indices
<1>3. Slot(j).Data <= written  BY <1>1, <1>2 DEF RingNumbered
<1>4. ASSUME NEW i \in Indices, Newer(Slot(i), Slot(j))
      PROVE  Slot(j).Data < Slot(i).Data
  <2>1. i \in Nat  BY <1>1 DEF Indices
  <2>2. i > j
    BY <1>2, <1>4, <2>1, ScanOrder DEF RingOrdered, Newer
  <2> QED BY <1>1, <1>2, <2>1, <2>2 DEF RingNumbered
<1> QED BY <1>3, <1>4 DEF Passed

(* It still may be when the ring goes on.                                  *)
LEMMA StaysPassed ==
    ASSUME TypeOK, TypeOK', RingNumbered, RingNumbered', [Next]_bufferVars,
           NEW c \in Content, Passed(c)
    PROVE  Passed(c)'
<1>1. c.Data \in Nat /\ written \in Nat /\ count \in Nat
  BY BoundAssumption DEF Content, TypeOK
<1>2. ASSUME UNCHANGED <<packets, count, written>> PROVE Passed(c)'
  BY <1>2 DEF Passed, Indices, Start, Slot
<1>3. ASSUME count' = 0, written' = written PROVE Passed(c)'
  BY <1>3, SizeAssumption DEF Passed, Indices, Start
<1>4. ASSUME NEW data \in HeaderData, NEW pos \in Positions,
             SetHeader(data, pos)
      PROVE  Passed(c)'
  BY <1>2, <1>3, <1>4 DEF SetHeader, bufferVars
<1>5. ASSUME NEW w \in Writers, NEW pos \in Positions, NEW flags \in Flags,
             WriteStore(w, pos, flags)
      PROVE  Passed(c)'
  <2>1. /\ count' = count + 1 /\ written' = written + 1
        /\ Start \in Nat /\ Start' \in Nat /\ Start' >= Start
    BY <1>1, <1>5, SizeAssumption DEF WriteStore, Start
  <2>2. ASSUME NEW i \in Indices', Newer(Slot(i), c)'
        PROVE  c.Data < Slot(i)'.Data
    <3>1. CASE i = count
      <4>1. Slot(i)'.Data = written + 1
        BY <1>5, <3>1, WriteKeepsOthers DEF Slot
      <4> QED BY <1>1, <4>1 DEF Passed
    <3>2. CASE i # count
      <4>1. i \in Indices /\ Slot(i)' = Slot(i)
        BY <1>1, <1>5, <2>1, <3>2, WriteKeepsOthers DEF Indices
      <4> QED BY <2>2, <4>1 DEF Passed, Newer
    <3> QED BY <3>1, <3>2
  <2> QED BY <1>1, <2>1, <2>2 DEF Passed
<1>6. CASE \E w \in Writers : notifyWrite(w)
  BY <1>6, <1>2 DEF notifyWrite
<1>7. CASE UNCHANGED bufferVars
  BY <1>7, <1>2 DEF bufferVars
<1> QED BY <1>4, <1>5, <1>6, <1>7 DEF Next

(* The packets fetched after it were all written later, and follow one     *)
(* another.                                                                *)
LEMMA FetchedInOrder ==
    ASSUME TypeOK, RingOrdered, RingNumbered, ~tied,
           NEW c \in Content, Passed(c)
    PROVE  LET b == PacketsAfter(c)
           IN  /\ \A k \in DOMAIN b :
                    Passed(b[k]) /\ c.Data < b[k].Data
               /\ \A j, k \in DOMAIN b : j < k => b[j].Data < b[k].Data
<1> DEFINE b == PacketsAfter(c)
<1>1. CASE b = << >>  BY <1>1
<1>2. CASE b # << >>
  <2>1. PICK m \in Indices :
          /\ Newer(Slot(m), c)
          /\ Len(b) = count - m
          /\ \A k \in 1..Len(b) : m + k - 1 \in Indices /\ b[k] = Slot(m + k - 1)
    BY <1>2, PacketsAfterFacts
  <2>2. b \in Seq(Content)  BY PacketsAfterFacts
  <2>3. DOMAIN b = 1..Len(b)  BY <2>2, LenProperties
  <2>4. /\ count \in Nat /\ written \in Nat /\ m \in Nat /\ m < count
        /\ c.Data \in Nat
    <3>1. count \in Nat /\ written \in Nat /\ Start \in Nat
      BY IndexFacts, BoundAssumption DEF TypeOK
    <3>2. c.Data \in Nat  BY DEF Content
    <3> QED BY <3>1, <3>2 DEF Indices
  <2> HIDE DEF b
  <2>5. \A k \in 1..Len(b) : b[k].Data = written - count + (m + k - 1) + 1
    BY <2>1 DEF RingNumbered
  <2>6. c.Data < written - count + m + 1
    BY <2>1 DEF Passed, RingNumbered
  <2>7. \A k \in 1..Len(b) : Passed(b[k])
    BY <2>1, BufferedPassed
  <2> QED BY <2>3, <2>4, <2>5, <2>6, <2>7 DEF b
<1> QED BY <1>1, <1>2

------------------------------------------------------------------------------
(* The viewers.                                                            *)

(* The writer and the viewers together use the buffer the way              *)
(* ContentBuffer says, so every theorem about the buffer holds of them.    *)
LEMMA StepUsesBuffer == [StreamNext]_vars => [Next]_bufferVars
<1> SUFFICES ASSUME [StreamNext]_vars PROVE [Next]_bufferVars
  OBVIOUS
<1>1. ASSUME NEW w \in Writers, NEW data \in HeaderData, NEW pos \in Positions,
             SetHeaderBegin(w, data, pos)
      PROVE  Next
  BY <1>1 DEF SetHeaderBegin, WriterIdle, Next
<1>2. ASSUME NEW w \in Writers, NEW pos \in Positions, NEW flags \in Flags,
             WriteBegin(w, pos, flags)
      PROVE  Next
  BY <1>2 DEF WriteBegin, Next
<1>3. ASSUME NEW w \in Writers, WriteSignal(w)
      PROVE  Next
  BY <1>3 DEF WriteSignal, Next
<1>4. CASE \/ CloseAllBegin
           \/ \E w \in Writers : SetHeaderSnapshot(w)
           \/ \E w \in Writers, v \in Viewers : SetHeaderNotify(w, v)
           \/ \E v \in Viewers :
                \/ Register(v) \/ Run(v)
                \/ InitTimeout(v) \/ WriteFails(v)
                \/ Close(v) \/ CloseAllClose(v)
  <2>1. ASSUME NEW v \in Viewers, Run(v) PROVE UNCHANGED bufferVars
    BY <2>1 DEF Run, CheckData, InitSignal, InitWait, SendHeader, Top,
                writeHeaderUpdate, GetSignal, Fetch, Wait, Send, Remove,
                NothingElse
  <2>2. ASSUME NEW v \in Viewers,
               \/ Register(v) \/ InitTimeout(v) \/ WriteFails(v)
               \/ Close(v) \/ CloseAllClose(v)
        PROVE  UNCHANGED bufferVars
    BY <2>2 DEF Register, InitTimeout, WriteFails, Close,
                CloseAllClose, NothingElse
  <2>3. ASSUME NEW w \in Writers,
               SetHeaderSnapshot(w) \/ \E v \in Viewers : SetHeaderNotify(w, v)
        PROVE  UNCHANGED bufferVars
    BY <2>3 DEF SetHeaderSnapshot, SetHeaderNotify
  <2>4. CloseAllBegin => UNCHANGED bufferVars
    BY DEF CloseAllBegin
  <2> QED BY <1>4, <2>1, <2>2, <2>3, <2>4
<1>5. CASE UNCHANGED vars
  BY <1>5 DEF vars
<1> QED BY <1>1, <1>2, <1>3, <1>4, <1>5 DEF StreamNext, Writer

THEOREM StreamUsesBuffer == StreamSpec => Spec
<1>1. Init => BufferInit  BY DEF Init
<1> QED BY <1>1, StepUsesBuffer, PTL DEF StreamSpec, Spec

------------------------------------------------------------------------------
(* What a fetch returns is a sequence of packets.                          *)
LEMMA FetchType ==
    ASSUME TypeOK, NEW ref
    PROVE  PacketsAfter(ref) \in Seq(Content)
<1> DEFINE found == {i \in Indices : Newer(Slot(i), ref)}
<1>1. CASE found = {}
  BY <1>1, EmptySeq DEF PacketsAfter, FromFirst
<1>2. CASE found # {}
  <2>1. count \in Nat  BY DEF TypeOK
  <2>2. Start \in Nat  BY IndexFacts
  <2>3. found \in SUBSET Nat /\ \A i \in found : i <= count
    BY <2>1, <2>2 DEF Indices
  <2> HIDE DEF found
  <2>4. Min(found) \in Nat /\ Min(found) <= count
    BY <1>2, <2>3, MinIsLeast
  <2>5. From(Min(found)) \in Seq(Content)
    BY <2>4, FromFacts
  <2> QED BY <1>2, <2>5 DEF PacketsAfter, FromFirst, found
<1> QED BY <1>1, <1>2

(* A step of viewer v that replaces its locals by well-typed ones keeps    *)
(* the type of run.                                                        *)
LEMMA PutLocals ==
    ASSUME LocalsOK, NEW v \in Viewers, NEW r \in Locals,
           run' = [run EXCEPT ![v] = r],
           r.pc = "send" => r.batch # << >>
    PROVE  LocalsOK'
BY DEF LocalsOK, at

LEMMA GotoType ==
    ASSUME LocalsOK, NEW v \in Viewers, NEW l \in Places \ {"send"}, Goto(v, l)
    PROVE  LocalsOK'
<1>1. PICK x \in Locals : x = run[v]  BY DEF LocalsOK
<1> DEFINE r == [x EXCEPT !.pc = l, !.mySig = 0]
<1>2. r \in Locals /\ r.pc # "send"  BY DEF Locals
<1>3. run' = [run EXCEPT ![v] = r]  BY <1>1 DEF Goto
<1> QED BY <1>2, <1>3, PutLocals

LEMMA SendHeaderType ==
    ASSUME LocalsOK, TypeOK, NEW v \in Viewers, SendHeader(v)
    PROVE  LocalsOK'
<1>1. PICK x \in Locals : x = run[v]  BY DEF LocalsOK
<1> DEFINE e == HeadersWritten(v)
           r == [x EXCEPT !.shown = header, !.epoch = e, !.pc = "top"]
<1>2. header \in HeaderData \cup {NoData}  BY DEF TypeOK
<1>3. e \in Nat  BY <1>1 DEF HeadersWritten, Locals
<1>4. run' = [run EXCEPT ![v] = r]  BY <1>1 DEF SendHeader
<1> HIDE DEF e
<1>5. r \in Locals /\ r.pc # "send"  BY <1>2, <1>3 DEF Locals, Places
<1> QED BY <1>4, <1>5, PutLocals
LEMMA UpdateType ==
    ASSUME LocalsOK, TypeOK, NEW v \in Viewers, writeHeaderUpdate(v)
    PROVE  LocalsOK'
<1>1. PICK x \in Locals : x = run[v]  BY DEF LocalsOK
<1> DEFINE e == HeadersWritten(v)
           c == IF header = NoData THEN x.sent ELSE ZeroContent
           g == IF header = NoData THEN x.waitingForKeyframe ELSE Regated(v)
           l == AfterUpdate(v)
           r == [x EXCEPT !.shown = header, !.epoch = e, !.sent = c,
                          !.waitingForKeyframe = g, !.pc = l]
<1>2. header \in HeaderData \cup {NoData}  BY DEF TypeOK
<1>3. e \in Nat  BY <1>1 DEF HeadersWritten, Locals
<1>4. c \in Content  BY ZeroContentType DEF Locals
<1>5. g \in BOOLEAN  BY DEF Regated, Locals
<1>6. l \in {"signal", "top"}  BY DEF AfterUpdate
<1>7. run' = [run EXCEPT ![v] = r]  BY <1>1 DEF writeHeaderUpdate
<1> HIDE DEF e, c, g, l
<1>8. r \in Locals /\ r.pc # "send"
  BY <1>2, <1>3, <1>4, <1>5, <1>6 DEF Locals, Places
<1> QED BY <1>7, <1>8, PutLocals

LEMMA SignalType ==
    ASSUME LocalsOK, TypeOK, NEW v \in Viewers, InitSignal(v) \/ GetSignal(v)
    PROVE  LocalsOK'
<1>1. PICK x \in Locals : x = run[v]  BY DEF LocalsOK
<1>2. PICK l \in {"initWait", "fetch"} :
          run' = [run EXCEPT ![v].mySig = sig, ![v].pc = l]
  BY DEF InitSignal, GetSignal
<1> DEFINE r == [x EXCEPT !.mySig = sig, !.pc = l]
<1>3. sig \in Nat  BY DEF TypeOK
<1>4. r \in Locals /\ r.pc # "send"  BY <1>3 DEF Locals, Places
<1>5. run' = [run EXCEPT ![v] = r]  BY <1>1, <1>2
<1> QED BY <1>4, <1>5, PutLocals

LEMMA FetchLocalsType ==
    ASSUME LocalsOK, TypeOK, NEW v \in Viewers, Fetch(v)
    PROVE  LocalsOK'
<1>1. PICK x \in Locals : x = run[v]  BY DEF LocalsOK
<1> DEFINE newer == PacketsAfter(run[v].sent)
           m == IF newer = << >> THEN x.mySig ELSE 0
           l == IF newer = << >> THEN "wait" ELSE "send"
           r == [x EXCEPT !.batch = newer, !.mySig = m, !.pc = l]
<1>2. newer \in Seq(Content)  BY FetchType
<1>3. m \in Nat  BY DEF Locals
<1>4. l \in {"wait", "send"} /\ (l = "send" => newer # << >>)  OBVIOUS
<1>5. run' = [run EXCEPT ![v] = r]  BY <1>1 DEF Fetch
<1> HIDE DEF newer, m, l
<1>6. r \in Locals /\ r.pc = l /\ r.batch = newer
  BY <1>2, <1>3, <1>4 DEF Locals, Places
<1> QED BY <1>4, <1>5, <1>6, PutLocals

LEMMA SendType ==
    ASSUME LocalsOK, NEW v \in Viewers, Send(v)
    PROVE  LocalsOK'
<1>1. PICK x \in Locals : x = run[v]  BY DEF LocalsOK
<1> DEFINE pkt == Head(x.batch)
           g == Skip(v, pkt)
           body == [n |-> pkt.Data, epoch |-> x.epoch]
           w == IF g THEN x.last ELSE body
           b == Tail(x.batch)
           l == IF Len(x.batch) = 1 THEN "top" ELSE x.pc
           r == [x EXCEPT !.sent = pkt, !.waitingForKeyframe = g, !.last = w,
                          !.batch = b, !.pc = l]
<1>2. x.pc = "send" /\ x.batch \in Seq(Content) /\ x.batch # << >>
  BY <1>1 DEF Send, LocalsOK, Locals, at
<1>3. /\ pkt \in Content /\ b \in Seq(Content)
      /\ Len(b) = Len(x.batch) - 1 /\ Len(x.batch) \in Nat
  BY <1>2, HeadTailProperties, LenProperties
<1>4. w \in Body
  <2>1. x.last \in Body /\ x.epoch \in Nat  BY DEF Locals
  <2>2. pkt.Data \in Nat  BY <1>3 DEF Content
  <2> HIDE DEF pkt, g
  <2> QED BY <2>1, <2>2 DEF Body
<1>5. g \in BOOLEAN  BY DEF Skip
<1>6. l \in {"top", "send"} /\ (l = "send" => b # << >>)
  <2>1. Len(x.batch) # 0  BY <1>2, EmptySeq
  <2>2. b = << >> => Len(b) = 0
    <3> HIDE DEF b
    <3> QED OBVIOUS
  <2>3. Len(x.batch) # 1 => b # << >>
    <3> HIDE DEF b
    <3> QED BY <1>3, <2>1, <2>2
  <2> QED BY <1>2, <2>3
<1>7. run' = [run EXCEPT ![v] = r]  BY <1>1 DEF Send
<1> HIDE DEF pkt, g, body, w, b, l
<1>8. r \in Locals /\ r.pc = l /\ r.batch = b
  BY <1>3, <1>4, <1>5, <1>6 DEF Locals, Places
<1> QED BY <1>6, <1>7, <1>8, PutLocals

LEMMA RemoveType ==
    ASSUME LocalsOK, NEW v \in Viewers, Remove(v)
    PROVE  LocalsOK'
<1>1. LocalsAt("removed") \in Locals /\ LocalsAt("removed").pc # "send"
  BY ZeroContentType, EmptySeq DEF LocalsAt, Locals, Places, Body, NoBody
<1> QED BY <1>1, PutLocals DEF Remove

(* Every step keeps the type of the viewers' locals.                       *)
LEMMA StepLocalsOK ==
    ASSUME LocalsOK, TypeOK, [StreamNext]_vars
    PROVE  LocalsOK'
<1>1. CASE UNCHANGED run
  BY <1>1 DEF LocalsOK, at
<1>2. CASE \/ \E w \in Writers : Writer(w)
           \/ CloseAllBegin \/ UNCHANGED vars
           \/ \E v \in Viewers : Close(v) \/ CloseAllClose(v)
  BY <1>1, <1>2 DEF Writer, SetHeaderBegin, SetHeaderSnapshot, SetHeaderNotify,
        WriteBegin, WriteSignal, CloseAllBegin, Close, CloseAllClose, vars
<1>3. ASSUME NEW v \in Viewers,
             \/ Register(v) \/ CheckData(v) \/ InitWait(v) \/ InitTimeout(v)
             \/ Top(v) \/ Wait(v) \/ WriteFails(v)
      PROVE  LocalsOK'
  <2>1. \E l \in Places \ {"send"} : Goto(v, l)
    BY <1>3 DEF Register, CheckData, InitWait, InitTimeout, Top, Wait,
                WriteFails, Places
  <2> QED BY <2>1, GotoType
<1>4. ASSUME NEW v \in Viewers, Run(v) PROVE LocalsOK'
  BY <1>3, <1>4, SignalType, SendHeaderType, UpdateType, FetchLocalsType,
     SendType, RemoveType DEF Run
<1> QED BY <1>2, <1>3, <1>4 DEF StreamNext

(* Every step keeps the type of what the goroutines share.                 *)
LEMMA StepSharedOK ==
    ASSUME SharedTypeOK, [StreamNext]_vars
    PROVE  SharedTypeOK'
<1>1. ASSUME UNCHANGED <<channelVars, headerCh, closed>> PROVE SharedTypeOK'
  BY <1>1 DEF SharedTypeOK, channelVars
<1>2. ASSUME NEW w \in Writers, NEW data, NEW pos, SetHeaderBegin(w, data, pos)
      PROVE  SharedTypeOK'
  BY <1>2, MaxChangesAssumption DEF SetHeaderBegin, SharedTypeOK
<1>3. ASSUME NEW w \in Writers, NEW pos, NEW flags, WriteBegin(w, pos, flags)
      PROVE  SharedTypeOK'
  BY <1>1, <1>3 DEF WriteBegin
<1>4. CASE (\E w \in Writers : WriteSignal(w)) \/ UNCHANGED vars
  BY <1>1, <1>4 DEF WriteSignal, vars
<1>5. CASE (\E w \in Writers : SetHeaderSnapshot(w)) \/ CloseAllBegin
  BY <1>5 DEF SetHeaderSnapshot, CloseAllBegin, SharedTypeOK
<1>6. ASSUME NEW w \in Writers, NEW v \in Viewers, SetHeaderNotify(w, v)
      PROVE  SharedTypeOK'
  BY <1>6 DEF SetHeaderNotify, Token, SharedTypeOK
<1>7. ASSUME NEW v \in Viewers,
             \/ Close(v) \/ CloseAllClose(v) \/ Register(v) \/ Remove(v)
      PROVE  SharedTypeOK'
  BY <1>7 DEF Close, CloseAllClose, Register, Remove, SharedTypeOK, channelVars
<1>8. ASSUME NEW v \in Viewers,
             \/ CheckData(v) \/ InitSignal(v) \/ InitWait(v) \/ InitTimeout(v)
             \/ SendHeader(v) \/ Top(v) \/ writeHeaderUpdate(v) \/ GetSignal(v)
             \/ Fetch(v) \/ Wait(v) \/ Send(v) \/ WriteFails(v)
      PROVE  SharedTypeOK'
  <2>1. UNCHANGED <<channelVars, closed>> /\ headerCh' \subseteq headerCh
    BY <1>8 DEF CheckData, InitSignal, InitWait, InitTimeout, SendHeader, Top,
                writeHeaderUpdate, GetSignal, Fetch, Wait, Send, WriteFails,
                NothingElse
  <2> QED BY <2>1 DEF SharedTypeOK, channelVars
<1>9. CASE \E w \in Writers : Writer(w)
  BY <1>2, <1>3, <1>4, <1>5, <1>6, <1>9 DEF Writer
<1>10. CASE \E v \in Viewers :
              \/ Register(v) \/ Run(v) \/ InitTimeout(v) \/ WriteFails(v)
              \/ Close(v) \/ CloseAllClose(v)
  BY <1>7, <1>8, <1>10 DEF Run
<1> QED BY <1>4, <1>5, <1>9, <1>10 DEF StreamNext

LEMMA InitStreamType == Init => StreamTypeOK
<1> SUFFICES ASSUME Init PROVE StreamTypeOK
  OBVIOUS
<1>1. TypeOK  BY InitTypeOK DEF Init
<1>2. SharedTypeOK  BY BoundAssumption, MaxChangesAssumption
                    DEF Init, SharedTypeOK
<1>3. LocalsAt("new") \in Locals /\ LocalsAt("new").pc # "send"
  BY ZeroContentType, EmptySeq DEF LocalsAt, Locals, Places, Body, NoBody
<1>4. LocalsOK  BY <1>3 DEF Init, LocalsOK, at
<1> QED BY <1>1, <1>2, <1>4 DEF StreamTypeOK

(* The state of the writers, the channel and all the viewers is always well *)
(* formed; a viewer that is about to take a packet from its batch has one  *)
(* (the loop over packets in HTTPOutputStream.run).                        *)
THEOREM StreamTypeCorrect == StreamSpec => []StreamTypeOK
<1>1. StreamTypeOK /\ [StreamNext]_vars => StreamTypeOK'
  BY StepUsesBuffer, NextTypeOK, StepSharedOK, StepLocalsOK DEF StreamTypeOK
<1> QED BY <1>1, InitStreamType, PTL DEF StreamSpec

------------------------------------------------------------------------------
(* A header is announced before it is forgotten.  The invariant is         *)
(* inductive by itself, given the types.                                   *)

(* Steps of a writer and of the closers,   which leave every viewer's      *)
(* locals alone.                                                           *)
LEMMA WriterAnnounces ==
    ASSUME StreamTypeOK, StaleHeaderIsAnnounced,
           \/ \E w \in Writers : Writer(w)
           \/ CloseAllBegin \/ UNCHANGED vars
           \/ \E v \in Viewers : Close(v) \/ CloseAllClose(v)
    PROVE  StaleHeaderIsAnnounced'
<1>0. wpc \in [Writers -> {"idle", "snapshot", "notify"}]
  BY DEF StreamTypeOK, SharedTypeOK
<1>1. ASSUME NEW w \in Writers, NEW data, NEW pos, SetHeaderBegin(w, data, pos)
      PROVE  StaleHeaderIsAnnounced'
  <2>1. CASE SameHeader(data, pos)
    <3>1. wpc' = wpc
      BY <1>0, <1>1, <2>1 DEF SetHeaderBegin, WriterIdle
    <3> QED
      BY <1>1, <2>1, <3>1 DEF SetHeaderBegin, SetHeader, bufferVars,
                              StaleHeaderIsAnnounced, Announced, Streaming
  <2>2. CASE ~SameHeader(data, pos)
    <3>1. wpc'[w] = "snapshot"
      BY <1>0, <1>1, <2>2 DEF SetHeaderBegin
    <3> QED BY <3>1 DEF StaleHeaderIsAnnounced, Announced
  <2> QED BY <2>1, <2>2
<1>2. ASSUME NEW w \in Writers, SetHeaderSnapshot(w)
      PROVE  StaleHeaderIsAnnounced'
  <2>1. /\ \A u \in Writers \ {w} : wpc'[u] = wpc[u] /\ toNotify'[u] = toNotify[u]
        /\ outputs # {} => wpc'[w] = "notify"
        /\ toNotify'[w] = outputs /\ wpc[w] = "snapshot"
        /\ UNCHANGED <<header, headerCh, run, outputs>>
    BY <1>0, <1>2 DEF SetHeaderSnapshot, StreamTypeOK, SharedTypeOK, bufferVars
  <2> QED BY <2>1 DEF StaleHeaderIsAnnounced, Announced, Streaming
<1>3. ASSUME NEW w \in Writers, NEW u \in Viewers, SetHeaderNotify(w, u)
      PROVE  StaleHeaderIsAnnounced'
  <2>1. /\ \A x \in Writers \ {w} : wpc'[x] = wpc[x] /\ toNotify'[x] = toNotify[x]
        /\ wpc[w] = "notify" /\ u \in toNotify[w]
        /\ toNotify'[w] = toNotify[w] \ {u}
        /\ toNotify[w] # {u} => wpc'[w] = "notify"
        /\ headerCh' = headerCh \cup {u}
        /\ UNCHANGED <<header, run, outputs>>
    BY <1>0, <1>3 DEF SetHeaderNotify, Token, StreamTypeOK, SharedTypeOK,
                      bufferVars
  <2>2. ASSUME NEW v \in outputs, Announced(v), v # u PROVE Announced(v)'
    <3>1. v \in toNotify[w] => toNotify[w] # {u} /\ v \in toNotify'[w]
      BY <2>1, <2>2
    <3> QED BY <2>1, <2>2, <3>1 DEF Announced
  <2>3. Announced(u)'  BY <2>1 DEF Announced
  <2> QED BY <2>1, <2>2, <2>3 DEF StaleHeaderIsAnnounced, Streaming
<1>4. ASSUME UNCHANGED <<header, wpc, toNotify, headerCh, run>>,
             outputs' \subseteq outputs
      PROVE  StaleHeaderIsAnnounced'
  BY <1>4 DEF StaleHeaderIsAnnounced, Announced, Streaming
<1>5. ASSUME NEW w \in Writers, NEW pos, NEW flags, WriteBegin(w, pos, flags)
      PROVE  StaleHeaderIsAnnounced'
  BY <1>4, <1>5 DEF WriteBegin, WriteStore, channelVars
<1>6. CASE \/ \E w \in Writers : WriteSignal(w)
           \/ CloseAllBegin \/ UNCHANGED vars
           \/ \E v \in Viewers : Close(v) \/ CloseAllClose(v)
  BY <1>4, <1>6 DEF WriteSignal, notifyWrite, CloseAllBegin, Close,
                    CloseAllClose, vars, channelVars, bufferVars
<1>7. CASE \E w \in Writers : Writer(w)
  BY <1>1, <1>2, <1>3, <1>5, <1>6, <1>7 DEF Writer
<1> QED BY <1>6, <1>7

(* A step of viewer v leaves the header and the other viewers alone, so it *)
(* is enough to look at v itself.                                          *)
LEMMA ViewerAnnounces ==
    ASSUME StreamTypeOK, StaleHeaderIsAnnounced, NEW v \in Viewers,
           Register(v) \/ Run(v) \/ InitTimeout(v) \/ WriteFails(v)
    PROVE  StaleHeaderIsAnnounced'
<1>1. /\ UNCHANGED <<header, wpc, toNotify>>
      /\ outputs' \ {v} = outputs \ {v} /\ headerCh' \ {v} = headerCh \ {v}
  BY
  DEF Register, Run, CheckData, InitSignal, InitWait, InitTimeout, SendHeader,
         Top, writeHeaderUpdate, GetSignal, Fetch, Wait, Send, Remove,
         WriteFails, NothingElse, bufferVars, channelVars
<1>2. outputs \subseteq Viewers /\ run \in [Viewers -> Locals]
  BY DEF StreamTypeOK, SharedTypeOK, LocalsOK
<1>3. ASSUME NEW u \in Viewers \ {v} PROVE run'[u] = run[u]
  BY <1>2 DEF Register, Run, CheckData, InitSignal, InitWait, InitTimeout,
         SendHeader, Top, writeHeaderUpdate, GetSignal, Fetch, Wait, Send, Remove,
         WriteFails, Goto
<1>4. SUFFICES ASSUME v \in outputs', Streaming(v)', run'[v].shown # header
               PROVE  Announced(v)'
  <2>1. ASSUME NEW u \in outputs', u # v, Streaming(u)', run'[u].shown # header'
        PROVE  Announced(u)'
    <3>1. u \in outputs /\ run'[u] = run[u] /\ (u \in headerCh' <=> u \in headerCh)
      BY <1>1, <1>2, <1>3, <2>1
    <3>2. Announced(u)
      BY <1>1, <2>1, <3>1 DEF StaleHeaderIsAnnounced, Announced, Streaming
    <3> QED BY <1>1, <3>1, <3>2 DEF Announced
  <2> QED BY <1>1, <2>1 DEF StaleHeaderIsAnnounced, Announced
<1>5. v \in outputs /\ Streaming(v) /\ run[v].shown # header => Announced(v)
  BY DEF StaleHeaderIsAnnounced, Announced
<1>6. PICK x \in Locals : x = run[v]  BY DEF StreamTypeOK, LocalsOK
<1>7. CASE \/ Register(v) \/ CheckData(v) \/ InitSignal(v) \/ InitWait(v)
           \/ InitTimeout(v) \/ WriteFails(v) \/ Remove(v)
  <2>1. ~Streaming(v)'
    BY <1>6, <1>7 DEF Register, CheckData, InitSignal, InitWait, InitTimeout,
        WriteFails, Remove, Goto, LocalsAt, Streaming, StreamTypeOK, LocalsOK,
        Locals
  <2> QED BY <1>4, <2>1
<1>8. CASE SendHeader(v) \/ writeHeaderUpdate(v)
  <2>1. run'[v].shown = header
    BY <1>6, <1>8 DEF SendHeader, writeHeaderUpdate, StreamTypeOK, LocalsOK,
                      Locals
  <2> QED BY <1>4, <2>1
<1>9. ASSUME outputs' = outputs, Streaming(v),
             run'[v].shown = run[v].shown,
             run[v].pc \notin {"updateTop", "updateWait"},
             v \in headerCh => \/ v \in headerCh'
                              \/ run'[v].pc \in {"updateTop", "updateWait"}
      PROVE  Announced(v)'
  <2>1. Announced(v)  BY <1>1, <1>4, <1>5, <1>9
  <2> QED BY <1>1, <1>9, <2>1 DEF Announced
<1>10. CASE Top(v)
  <2>1. run[v].pc = "top"  BY <1>10 DEF Top, at
  <2>2. outputs' = outputs  BY <1>10 DEF Top, channelVars
  <2>3. run' = [run EXCEPT ![v].pc = IF v \in headerCh THEN "updateTop"
                                                       ELSE "signal",
                           ![v].mySig = 0]
    BY <1>10 DEF Top, Goto
  <2>4. run'[v].shown = run[v].shown
    BY <1>2, <1>6, <2>3 DEF Locals
  <2>5. v \in headerCh => run'[v].pc = "updateTop"
    BY <1>2, <1>6, <2>3 DEF Locals
  <2> QED BY <1>9, <2>1, <2>2, <2>4, <2>5 DEF Streaming
<1>11. CASE Wait(v)
  <2>1. run[v].pc = "wait"  BY <1>11 DEF Wait, at
  <2>2. outputs' = outputs  BY <1>11 DEF Wait, channelVars
  <2>3. \E l \in Places :
          /\ run' = [run EXCEPT ![v].pc = l, ![v].mySig = 0]
          /\ \/ headerCh' = headerCh
             \/ l = "updateWait"
    BY <1>11 DEF Wait, Goto, Places
  <2>4. PICK l \in Places :
          /\ run' = [run EXCEPT ![v].pc = l, ![v].mySig = 0]
          /\ headerCh' = headerCh \/ l = "updateWait"
    BY <2>3
  <2>5. run'[v].shown = run[v].shown /\ run'[v].pc = l
    BY <1>2, <1>6, <2>4 DEF Locals
  <2> QED BY <1>9, <2>1, <2>2, <2>4, <2>5 DEF Streaming
<1>12. CASE GetSignal(v) \/ Fetch(v) \/ Send(v)
  <2>1. run[v].pc \in {"signal", "fetch", "send"}
    BY <1>12 DEF GetSignal, Fetch, Send, at
  <2>2. outputs' = outputs /\ headerCh' = headerCh
    BY <1>12 DEF GetSignal, Fetch, Send, NothingElse, channelVars
  <2>3. CASE GetSignal(v)
    <3>1. run' = [run EXCEPT ![v].mySig = sig, ![v].pc = "fetch"]
      BY <2>3 DEF GetSignal
    <3> QED BY <1>2, <1>6, <1>9, <2>1, <2>2, <3>1 DEF Streaming, Locals
  <2>4. CASE Fetch(v)
    <3>1. PICK b, s, l : run' = [run EXCEPT ![v].batch = b, ![v].mySig = s,
                                            ![v].pc = l]
      BY <2>4 DEF Fetch
    <3>2. run'[v].shown = run[v].shown  BY <1>2, <1>6, <3>1 DEF Locals
    <3> QED BY <1>9, <2>1, <2>2, <3>2 DEF Streaming
  <2>5. CASE Send(v)
    <3>1. PICK s, g, w, b, l :
            run' = [run EXCEPT ![v].sent = s, ![v].waitingForKeyframe = g,
                               ![v].last = w, ![v].batch = b, ![v].pc = l]
      BY <2>5 DEF Send
    <3>2. run'[v].shown = run[v].shown  BY <1>2, <1>6, <3>1 DEF Locals
    <3> QED BY <1>9, <2>1, <2>2, <3>2 DEF Streaming
  <2> QED BY <1>12, <2>3, <2>4, <2>5
<1> QED BY <1>7, <1>8, <1>10, <1>11, <1>12 DEF Run

(* A viewer that streams under an outdated header has always been told, or *)
(* is about to be: Channel.SetHeader, NotifyHeader, and the two places in  *)
(* HTTPOutputStream.run that take the token.                               *)
THEOREM StaleHeaderCorrect == StreamSpec => []StaleHeaderIsAnnounced
<1>1. Init => StaleHeaderIsAnnounced  BY DEF Init, StaleHeaderIsAnnounced
<1>2. StreamTypeOK /\ StaleHeaderIsAnnounced /\ [StreamNext]_vars
        => StaleHeaderIsAnnounced'
  BY WriterAnnounces, ViewerAnnounces DEF StreamNext
<1> QED BY <1>1, <1>2, StreamTypeCorrect, PTL DEF StreamSpec

(* No interleaving leaves a viewer with an old header unannounced.         *)
THEOREM HeaderCorrect == StreamSpec => []HeaderInv
  BY StreamTypeCorrect, StaleHeaderCorrect, PTL DEF HeaderInv

------------------------------------------------------------------------------
(* The order of the bodies.  What a viewer has fetched and not yet sent    *)
(* comes after what it has sent, also for the next scan of the ring; and   *)
(* the last packet taken is not older than any body of the header in       *)
(* force.  A header change makes both begin anew.                          *)
BatchInOrder(x) ==
    /\ Passed(x.sent)
    /\ \A k \in DOMAIN x.batch :
            Passed(x.batch[k]) /\ x.sent.Data < x.batch[k].Data
    /\ \A j, k \in DOMAIN x.batch :
            j < k => x.batch[j].Data < x.batch[k].Data

LastInOrder(x) ==
    /\ x.last.epoch <= x.epoch
    /\ x.last.epoch = x.epoch => x.last.n <= x.sent.Data

OrderInv == \A v \in Viewers : BatchInOrder(run[v]) /\ LastInOrder(run[v])

(* The types of what the locals hold.                                      *)
LEMMA LocalsFacts ==
    ASSUME NEW x \in Locals
    PROVE  /\ x.sent \in Content /\ x.sent.Data \in Nat
           /\ x.batch \in Seq(Content) /\ Len(x.batch) \in Nat
           /\ DOMAIN x.batch = 1..Len(x.batch)
           /\ \A k \in DOMAIN x.batch :
                 x.batch[k] \in Content /\ x.batch[k].Data \in Nat
           /\ x.last.n \in Nat /\ x.last.epoch \in Nat /\ x.epoch \in Nat
<1>1. \A c \in Content : c.Data \in Nat  BY DEF Content
<1>2. /\ x.sent \in Content /\ x.batch \in Seq(Content)
      /\ x.last \in Body /\ x.epoch \in Nat
  BY DEF Locals
<1>3. Len(x.batch) \in Nat /\ DOMAIN x.batch = 1..Len(x.batch)
  BY <1>2, LenProperties
<1>4. \A k \in DOMAIN x.batch : x.batch[k] \in Content
  BY <1>2, <1>3, ElementOfSeq
<1>5. x.last.n \in Nat /\ x.last.epoch \in Nat  BY <1>2 DEF Body
<1> QED BY <1>1, <1>2, <1>3, <1>4, <1>5

(* The ring goes on under a viewer.                                        *)
LEMMA RingKeepsOrder ==
    ASSUME TypeOK, TypeOK', RingNumbered, RingNumbered', [Next]_bufferVars,
           NEW x \in Locals, BatchInOrder(x)
    PROVE  BatchInOrder(x)'
<1>1. Passed(x.sent)'
  BY StaysPassed, LocalsFacts DEF BatchInOrder
<1>2. \A k \in DOMAIN x.batch : Passed(x.batch[k])'
  BY StaysPassed, LocalsFacts DEF BatchInOrder
<1> QED BY <1>1, <1>2 DEF BatchInOrder

(* Header() and the write of it, at the start and in writeHeaderUpdate.    *)
LEMMA HeaderKeepsOrder ==
    ASSUME TypeOK, RingNumbered, NEW x \in Locals, NEW y \in Locals,
           BatchInOrder(x), LastInOrder(x),
           y.last = x.last, y.batch = x.batch,
           \/ y.epoch = x.epoch /\ y.sent = x.sent
           \/ y.epoch = x.epoch + 1 /\ y.sent \in {x.sent, ZeroContent}
    PROVE  BatchInOrder(y) /\ LastInOrder(y)
<1>1. CASE y.sent = x.sent
  BY <1>1, LocalsFacts DEF BatchInOrder, LastInOrder
<1>2. CASE y.sent = ZeroContent /\ y.epoch = x.epoch + 1
  <2>1. Passed(y.sent) /\ y.sent.Data = 0
    BY <1>2, ZeroPassed DEF ZeroContent
  <2>2. \A k \in DOMAIN y.batch : y.sent.Data < y.batch[k].Data
    BY <2>1, LocalsFacts DEF BatchInOrder
  <2> QED BY <1>2, <2>1, <2>2, LocalsFacts DEF BatchInOrder, LastInOrder
<1> QED BY <1>1, <1>2

(* A fetch replaces the batch.                                             *)
LEMMA FetchKeepsOrder ==
    ASSUME TypeOK, RingOrdered, RingNumbered, ~tied,
           NEW x \in Locals, NEW y \in Locals,
           BatchInOrder(x), LastInOrder(x),
           y.batch = PacketsAfter(x.sent),
           y.sent = x.sent, y.last = x.last, y.epoch = x.epoch
    PROVE  BatchInOrder(y) /\ LastInOrder(y)
<1>1. x.sent \in Content  BY LocalsFacts
<1> DEFINE b == PacketsAfter(x.sent)
<1>2. /\ \A k \in DOMAIN b : Passed(b[k]) /\ x.sent.Data < b[k].Data
      /\ \A j, k \in DOMAIN b : j < k => b[j].Data < b[k].Data
  BY <1>1, FetchedInOrder DEF BatchInOrder
<1> HIDE DEF b
<1>3. y.batch = b  BY DEF b
<1> QED BY <1>2, <1>3 DEF BatchInOrder, LastInOrder

(* A packet is taken from the batch and sent or skipped.                   *)
LEMMA SendKeepsOrder ==
    ASSUME NEW x \in Locals, NEW y \in Locals, BatchInOrder(x), LastInOrder(x),
           x.batch # << >>,
           y.sent = Head(x.batch), y.batch = Tail(x.batch), y.epoch = x.epoch,
           \/ y.last = x.last
           \/ y.last.n = Head(x.batch).Data /\ y.last.epoch = x.epoch
    PROVE  BatchInOrder(y) /\ LastInOrder(y)
<1> DEFINE b == x.batch
           l == Len(b)
<1>1. /\ l \in Nat \ {0} /\ DOMAIN b = 1..l /\ Head(b) = b[1]
      /\ DOMAIN Tail(b) = 1..(l - 1)
      /\ \A k \in 1..(l - 1) : Tail(b)[k] = b[k + 1]
  <2>1. b \in Seq(Content)  BY LocalsFacts
  <2>2. l \in Nat \ {0} /\ DOMAIN b = 1..l
    BY <2>1, LenProperties, EmptySeq
  <2>3. /\ Head(b) = b[1] /\ Tail(b) \in Seq(Content) /\ Len(Tail(b)) = l - 1
        /\ \A k \in 1..(l - 1) : Tail(b)[k] = b[k + 1]
    BY <2>1, HeadTailProperties
  <2>4. DOMAIN Tail(b) = 1..(l - 1)  BY <2>3, LenProperties
  <2> QED BY <2>2, <2>3, <2>4
<1>2. x.sent.Data < b[1].Data /\ Passed(b[1])
  BY <1>1 DEF BatchInOrder
<1>3. BatchInOrder(y)
  <2> HIDE DEF l
  <2>1. \A k \in 1..(l - 1) : k + 1 \in 1..l  BY <1>1
  <2>2. 1 \in 1..l /\ \A k \in 1..(l - 1) : 1 < k + 1  BY <1>1
  <2>3. Passed(y.sent)  BY <1>1, <1>2
  <2>4. \A k \in DOMAIN y.batch :
           Passed(y.batch[k]) /\ y.sent.Data < y.batch[k].Data
    BY <1>1, <2>1, <2>2 DEF BatchInOrder
  <2>5. \A j, k \in DOMAIN y.batch :
           j < k => y.batch[j].Data < y.batch[k].Data
    <3>1. TAKE j, k \in DOMAIN y.batch
    <3>2. j \in 1..(l - 1) /\ k \in 1..(l - 1)  BY <1>1
    <3>3. j < k => j + 1 < k + 1  BY <3>2
    <3> QED BY <1>1, <2>1, <3>2, <3>3 DEF BatchInOrder
  <2> QED BY <2>3, <2>4, <2>5 DEF BatchInOrder
<1>4. x.sent.Data < b[1].Data /\ y.sent.Data = b[1].Data
  BY <1>1, <1>2
<1>5. LastInOrder(y)
  <2>1. /\ x.sent.Data \in Nat /\ y.sent.Data \in Nat
        /\ x.last.n \in Nat /\ x.epoch \in Nat
    BY LocalsFacts
  <2> HIDE DEF b
  <2> QED BY <1>1, <1>4, <2>1 DEF LastInOrder, b
<1> QED BY <1>3, <1>5

(* What a step of a viewer does to what it has sent and is about to send,  *)
(* from its locals x to y.                                                 *)
BeforeLoop == {"new", "checkData", "initSignal", "initWait", "sendHeader"}

Moves(x, y) ==
    /\ y.sent = x.sent /\ y.batch = x.batch /\ y.last = x.last
    /\ y.epoch = x.epoch /\ y.waitingForKeyframe = x.waitingForKeyframe
    /\ y.pc \in BeforeLoop => x.pc \in BeforeLoop

TakesHeader(x, y) ==
    /\ y.last = x.last /\ y.batch = x.batch /\ y.pc \notin BeforeLoop
    /\ \/ /\ y.epoch = x.epoch /\ y.sent = x.sent
          /\ y.waitingForKeyframe = x.waitingForKeyframe
       \/ /\ y.epoch = x.epoch + 1 /\ y.sent \in {x.sent, ZeroContent}
          /\ \/ y.waitingForKeyframe
             \/ /\ x.pc \in BeforeLoop
                /\ y.waitingForKeyframe = x.waitingForKeyframe

Fetches(x, y) ==
    /\ y.batch = PacketsAfter(x.sent)
    /\ y.sent = x.sent /\ y.last = x.last /\ y.epoch = x.epoch
    /\ y.waitingForKeyframe = x.waitingForKeyframe
    /\ y.pc \notin BeforeLoop

Sends(x, y) ==
    LET pkt == Head(x.batch)
        skip == x.waitingForKeyframe /\ pkt.ContFlags # 0
    IN  /\ x.batch # << >>
        /\ y.sent = pkt /\ y.batch = Tail(x.batch) /\ y.epoch = x.epoch
        /\ y.waitingForKeyframe <=> skip
        /\ IF skip THEN y.last = x.last
                   ELSE y.last = [n |-> pkt.Data, epoch |-> x.epoch]
        /\ y.pc \notin BeforeLoop

ViewerStep(v) == Register(v) \/ Run(v) \/ InitTimeout(v) \/ WriteFails(v)

LEMMA MoveEffect ==
    ASSUME NEW v, NEW l, run \in [Viewers -> Locals], v \in Viewers, Goto(v, l),
           l \notin BeforeLoop \/ run[v].pc \in BeforeLoop
    PROVE  Moves(run[v], run'[v])
<1>1. PICK x \in Locals : x = run[v]  OBVIOUS
<1> DEFINE y == [x EXCEPT !.pc = l, !.mySig = 0]
<1>2. run'[v] = y  BY <1>1 DEF Goto
<1>3. Moves(x, y)  BY <1>1 DEF Moves, Locals
<1> QED BY <1>1, <1>2, <1>3

LEMMA SignalEffect ==
    ASSUME NEW v \in Viewers, run \in [Viewers -> Locals],
           InitSignal(v) \/ GetSignal(v)
    PROVE  Moves(run[v], run'[v])
<1>1. PICK x \in Locals : x = run[v]  OBVIOUS
<1>2. PICK l \in {"initWait", "fetch"} :
          /\ run' = [run EXCEPT ![v].mySig = sig, ![v].pc = l]
          /\ l = "initWait" => x.pc = "initSignal"
  BY <1>1 DEF InitSignal, GetSignal, at
<1> DEFINE y == [x EXCEPT !.mySig = sig, !.pc = l]
<1>3. run'[v] = y  BY <1>1, <1>2
<1>4. Moves(x, y)  BY <1>2 DEF Moves, Locals, BeforeLoop
<1> QED BY <1>1, <1>3, <1>4

LEMMA HeaderEffect ==
    ASSUME NEW v \in Viewers, run \in [Viewers -> Locals],
           SendHeader(v) \/ writeHeaderUpdate(v)
    PROVE  TakesHeader(run[v], run'[v])
<1>1. PICK x \in Locals : x = run[v]  OBVIOUS
<1> DEFINE e == HeadersWritten(v)
<1>2. /\ x.epoch \in Nat
      /\ header = NoData => e = x.epoch
      /\ header # NoData => e = x.epoch + 1
  BY <1>1 DEF HeadersWritten, Locals
<1> HIDE DEF e
<1>3. CASE SendHeader(v)
  <2> DEFINE y == [x EXCEPT !.shown = header, !.epoch = e, !.pc = "top"]
  <2>1. run'[v] = y /\ x.pc = "sendHeader"  BY <1>1, <1>3 DEF SendHeader, at, e
  <2>2. TakesHeader(x, y)
    BY <1>2, <2>1 DEF TakesHeader, Locals, BeforeLoop
  <2> QED BY <1>1, <2>1, <2>2
<1>4. CASE writeHeaderUpdate(v)
  <2> DEFINE c == IF header = NoData THEN x.sent ELSE ZeroContent
             g == IF header = NoData THEN x.waitingForKeyframe ELSE Regated(v)
             l == AfterUpdate(v)
             y == [x EXCEPT !.shown = header, !.epoch = e, !.sent = c,
                            !.waitingForKeyframe = g, !.pc = l]
  <2>1. run'[v] = y  BY <1>1, <1>4 DEF writeHeaderUpdate, e
  <2>2. l \in {"signal", "top"}  BY DEF AfterUpdate
  <2>3. /\ header = NoData => c = x.sent /\ g = x.waitingForKeyframe
        /\ header # NoData => c = ZeroContent /\ g = TRUE
    BY DEF Regated
  <2> HIDE DEF c, g, l
  <2>4. TakesHeader(x, y)
    BY <1>2, <2>2, <2>3 DEF TakesHeader, Locals, BeforeLoop
  <2> QED BY <1>1, <2>1, <2>4
<1> QED BY <1>3, <1>4

LEMMA FetchEffect ==
    ASSUME NEW v \in Viewers, run \in [Viewers -> Locals], Fetch(v)
    PROVE  Fetches(run[v], run'[v])
<1>1. PICK x \in Locals : x = run[v]  OBVIOUS
<1> DEFINE newer == PacketsAfter(x.sent)
           m == IF newer = << >> THEN x.mySig ELSE 0
           l == IF newer = << >> THEN "wait" ELSE "send"
           y == [x EXCEPT !.batch = newer, !.mySig = m, !.pc = l]
<1>2. run'[v] = y  BY <1>1 DEF Fetch
<1>3. l \in {"wait", "send"}  OBVIOUS
<1> HIDE DEF m, l
<1>4. Fetches(x, y)  BY <1>3 DEF Fetches, Locals, BeforeLoop
<1> QED BY <1>1, <1>2, <1>4

LEMMA SendEffect ==
    ASSUME NEW v \in Viewers, LocalsOK, Send(v)
    PROVE  Sends(run[v], run'[v])
<1>1. PICK x \in Locals : x = run[v]  BY DEF LocalsOK
<1> DEFINE pkt == Head(x.batch)
           g == Skip(v, pkt)
           body == [n |-> pkt.Data, epoch |-> x.epoch]
           w == IF g THEN x.last ELSE body
           b == Tail(x.batch)
           l == IF Len(x.batch) = 1 THEN "top" ELSE x.pc
           y == [x EXCEPT !.sent = pkt, !.waitingForKeyframe = g, !.last = w,
                          !.batch = b, !.pc = l]
<1>2. x.pc = "send" /\ x.batch \in Seq(Content) /\ x.batch # << >>
  BY <1>1 DEF Send, LocalsOK, Locals, at
<1>3. run'[v] = y  BY <1>1 DEF Send, LocalsOK
<1>4. l \in {"top", "send"}  BY <1>2
<1>5. g <=> x.waitingForKeyframe /\ pkt.ContFlags # 0  BY <1>1 DEF Skip
<1>6. w = IF g THEN x.last ELSE body  OBVIOUS
<1> HIDE DEF g, body, w, l
<1>7. y.sent = pkt /\ y.waitingForKeyframe = g /\ y.last = w
      /\ y.batch = b /\ y.pc = l /\ y.epoch = x.epoch
  BY DEF Locals
<1> HIDE DEF y
<1>8. Sends(x, y)
  BY <1>2, <1>4, <1>5, <1>6, <1>7 DEF Sends, BeforeLoop, body
<1> QED BY <1>1, <1>3, <1>8

LEMMA ViewerEffect ==
    ASSUME NEW v \in Viewers, LocalsOK, ViewerStep(v)
    PROVE  /\ UNCHANGED bufferVars
           /\ \A u \in Viewers \ {v} : run'[u] = run[u]
           /\ \/ Moves(run[v], run'[v]) \/ TakesHeader(run[v], run'[v])
              \/ Fetches(run[v], run'[v])
              \/ Sends(run[v], run'[v])
              \/ run'[v] = LocalsAt("removed")
<1>1. run \in [Viewers -> Locals]  BY DEF LocalsOK
<1>2. UNCHANGED bufferVars
  BY
  DEF ViewerStep, Register, Run, CheckData, InitSignal, InitWait, InitTimeout,
         SendHeader, Top, writeHeaderUpdate, GetSignal, Fetch, Wait, Send, Remove,
         WriteFails, NothingElse
<1>3. ASSUME NEW u \in Viewers \ {v} PROVE run'[u] = run[u]
  BY <1>1 DEF ViewerStep, Register, Run, CheckData, InitSignal, InitWait,
         InitTimeout, SendHeader, Top, writeHeaderUpdate, GetSignal, Fetch, Wait,
         Send, Remove, WriteFails, Goto
<1>4. CASE \/ Register(v) \/ CheckData(v) \/ InitWait(v) \/ InitTimeout(v)
           \/ Top(v) \/ Wait(v) \/ WriteFails(v)
  <2>1. \E l : Goto(v, l) /\ (l \notin BeforeLoop \/ run[v].pc \in BeforeLoop)
    BY <1>4 DEF Register, CheckData, InitWait, InitTimeout, Top, Wait,
                WriteFails, BeforeLoop, at
  <2> QED BY <1>1, <1>2, <1>3, <2>1, MoveEffect
<1>5. CASE InitSignal(v) \/ GetSignal(v)
  BY <1>1, <1>2, <1>3, <1>5, SignalEffect
<1>6. CASE SendHeader(v) \/ writeHeaderUpdate(v)
  BY <1>1, <1>2, <1>3, <1>6, HeaderEffect
<1>7. CASE Fetch(v)
  BY <1>1, <1>2, <1>3, <1>7, FetchEffect
<1>8. CASE Send(v)
  BY <1>1, <1>2, <1>3, <1>8, SendEffect
<1>9. CASE Remove(v)
  BY <1>1, <1>2, <1>3, <1>9 DEF Remove
<1> QED BY <1>4, <1>5, <1>6, <1>7, <1>8, <1>9 DEF ViewerStep, Run

LEMMA FreshInOrder ==
    ASSUME TypeOK, RingNumbered, NEW l
    PROVE  BatchInOrder(LocalsAt(l)) /\ LastInOrder(LocalsAt(l))
<1>1. LocalsAt(l).sent = ZeroContent  BY Zenon DEF LocalsAt
<1>2. LocalsAt(l).batch = << >>  BY DEF LocalsAt
<1>3. LocalsAt(l).last = NoBody /\ LocalsAt(l).epoch = 0  BY DEF LocalsAt
<1>4. NoBody.n = 0 /\ NoBody.epoch = 0 /\ ZeroContent.Data = 0
  BY DEF NoBody, ZeroContent
<1>5. DOMAIN LocalsAt(l).batch = {}  BY <1>2
<1> QED BY <1>1, <1>3, <1>4, <1>5, ZeroPassed DEF BatchInOrder, LastInOrder

LEMMA StepKeepsOrder ==
    ASSUME StreamTypeOK, StreamTypeOK', RingOrdered, RingNumbered, RingNumbered',
           ~tied, OrderInv, [StreamNext]_vars
    PROVE  OrderInv'
<1>1. /\ TypeOK /\ TypeOK' /\ LocalsOK
      /\ run \in [Viewers -> Locals] /\ run' \in [Viewers -> Locals]
  BY DEF StreamTypeOK, LocalsOK
<1>2. CASE run' = run
  <2>1. [Next]_bufferVars  BY StepUsesBuffer
  <2>2. \A x \in Locals : BatchInOrder(x) => BatchInOrder(x)'
    BY <1>1, <2>1, RingKeepsOrder
  <2>3. ASSUME NEW v \in Viewers
        PROVE  BatchInOrder(run[v])' /\ LastInOrder(run[v])'
    <3>1. PICK x \in Locals : x = run[v]  BY <1>1
    <3>2. BatchInOrder(x) /\ LastInOrder(x)  BY <3>1 DEF OrderInv
    <3>3. BatchInOrder(x)' /\ x = run'[v]  BY <1>2, <2>2, <3>1, <3>2
    <3>4. LastInOrder(run'[v])  BY <3>2, <3>3
    <3>5. BatchInOrder(run[v])'
      BY <3>3 DEF BatchInOrder, Passed
    <3> QED BY <3>4, <3>5 DEF LastInOrder
  <2> QED BY <2>3 DEF OrderInv
<1>3. ASSUME NEW v \in Viewers, ViewerStep(v) PROVE OrderInv'
  <2>1. PICK x \in Locals : x = run[v]  BY <1>1
  <2>2. PICK y \in Locals : y = run'[v]  BY <1>1
  <2>3. BatchInOrder(x) /\ LastInOrder(x)  BY <2>1 DEF OrderInv
  <2>4. /\ UNCHANGED bufferVars
        /\ \A u \in Viewers \ {v} : run'[u] = run[u]
        /\ \/ Moves(x, y) \/ TakesHeader(x, y) \/ Fetches(x, y)
           \/ Sends(x, y) \/ y = LocalsAt("removed")
    BY <1>1, <1>3, <2>1, <2>2, ViewerEffect
  <2>5. BatchInOrder(y) /\ LastInOrder(y)
    <3>1. CASE Moves(x, y)
      BY <2>3, <3>1 DEF Moves, BatchInOrder, LastInOrder
    <3>2. CASE TakesHeader(x, y)
      BY <1>1, <2>3, <3>2, HeaderKeepsOrder DEF TakesHeader
    <3>3. CASE Fetches(x, y)
      BY <1>1, <2>3, <3>3, FetchKeepsOrder DEF Fetches
    <3>4. CASE Sends(x, y)
      BY <2>3, <3>4, SendKeepsOrder DEF Sends
    <3>5. CASE y = LocalsAt("removed")
      BY <1>1, <3>5, FreshInOrder
    <3> QED BY <2>4, <3>1, <3>2, <3>3, <3>4, <3>5
  <2>6. \A z : BatchInOrder(z) => BatchInOrder(z)'
    BY <2>4 DEF BatchInOrder, Passed, bufferVars, Indices, Start, Slot, Newer
  <2>7. ASSUME NEW u \in Viewers
        PROVE  BatchInOrder(run'[u]) /\ LastInOrder(run'[u])
    <3>1. CASE u = v  BY <2>2, <2>5, <3>1
    <3>2. CASE u # v  BY <2>4, <3>2 DEF OrderInv
    <3> QED BY <3>1, <3>2
  <2>8. ASSUME NEW u \in Viewers PROVE BatchInOrder(run[u])'
    <3>1. PICK z : z = run'[u]  OBVIOUS
    <3>2. BatchInOrder(z)'  BY <2>6, <2>7, <3>1
    <3> QED BY <3>1, <3>2 DEF BatchInOrder, Passed
  <2> QED BY <2>7, <2>8 DEF OrderInv, LastInOrder
<1>4. run' = run \/ \E v \in Viewers : ViewerStep(v)
  BY DEF StreamNext, Writer, SetHeaderBegin, SetHeaderSnapshot, SetHeaderNotify,
         WriteBegin, WriteSignal, CloseAllBegin, Close, CloseAllClose, vars,
         ViewerStep
<1> QED BY <1>2, <1>3, <1>4

(* A tie, once it has happened, stays on record.                           *)
LEMMA TieStays == TypeOK /\ [Next]_bufferVars /\ tied => tied'
BY WriteTime, Zenon DEF Next, SetHeader, notifyWrite, bufferVars

(* Between two header writes a viewer receives the bodies in the order of  *)
(* their writing and none twice: the loop of HTTPOutputStream.run and      *)
(* PacketsAfter, with positions that begin anew, several writers and a     *)
(* clock that stands, as long as no two packets tie.                       *)
THEOREM OrderedCorrect == StreamSpec => []OrderedUnderHeader
<1>1. Init => OrderInv
  <2> SUFFICES ASSUME Init PROVE OrderInv
    OBVIOUS
  <2>1. TypeOK /\ RingNumbered
    BY InitTypeOK, SizeAssumption
    DEF Init, BufferInit, RingNumbered, Indices, Start
  <2>2. \A v \in Viewers : run[v] = LocalsAt("new")  BY DEF Init
  <2> QED BY <2>1, <2>2, FreshInOrder DEF OrderInv
<1>2. ASSUME StreamTypeOK, StreamTypeOK', RingOrdered, RingNumbered,
             RingNumbered', tied \/ OrderInv, [StreamNext]_vars
      PROVE  (tied \/ OrderInv)'
  <2>1. CASE tied
    <3>1. tied'
      BY <1>2, <2>1, StepUsesBuffer, TieStays DEF StreamTypeOK
    <3> QED BY <3>1
  <2>2. CASE ~tied
    BY <1>2, <2>2, StepKeepsOrder
  <2> QED BY <2>1, <2>2
<1>3. ASSUME StreamTypeOK, tied \/ OrderInv PROVE OrderedUnderHeader
  <2>1. SUFFICES ASSUME OrderInv, NEW v \in Viewers, at(v, "send"),
                        run[v].last.epoch = run[v].epoch
                 PROVE  run[v].last.n < NextBody(v).Data
    BY <1>3 DEF OrderedUnderHeader, AboutToSend
  <2>2. PICK x \in Locals : x = run[v]  BY <1>3 DEF StreamTypeOK, LocalsOK
  <2>3. x.batch \in Seq(Content) /\ x.batch # << >>
    BY <1>3, <2>1, <2>2 DEF StreamTypeOK, LocalsOK, Locals
  <2>4. Head(x.batch) = x.batch[1] /\ 1 \in DOMAIN x.batch
    BY <2>3, HeadTailProperties, LenProperties, EmptySeq
  <2>5. x.last.n <= x.sent.Data /\ x.sent.Data < x.batch[1].Data
    BY <2>1, <2>2, <2>4 DEF OrderInv, LastInOrder, BatchInOrder
  <2>6. /\ x.last.n \in Nat /\ x.sent.Data \in Nat
        /\ x.batch[1].Data \in Nat
    BY <2>4, LocalsFacts
  <2> QED BY <2>2, <2>4, <2>5, <2>6 DEF NextBody
<1> QED
  BY <1>1, <1>2, <1>3, StreamTypeCorrect, StreamUsesBuffer, OrderCorrect,
     NumberCorrect, PTL DEF StreamSpec

------------------------------------------------------------------------------
(* The keyframe gate.  A viewer whose gate is open has been sent a body    *)
(* under the header in force; before its loop nobody's is.                 *)
Gated(x) ==
    /\ \/ x.waitingForKeyframe
       \/ x.last # NoBody /\ x.last.epoch = x.epoch
    /\ x.pc \in BeforeLoop => x.waitingForKeyframe
    /\ \A k \in DOMAIN x.batch : x.batch[k].Data > 0

GateInv == \A v \in Viewers : Gated(run[v])

LEMMA FreshIsGated ==
    ASSUME NEW l
    PROVE  Gated(LocalsAt(l))
<1>1. LocalsAt(l).waitingForKeyframe = TRUE  BY Zenon DEF LocalsAt
<1>2. LocalsAt(l).batch = << >>  BY DEF LocalsAt
<1>3. \A k \in DOMAIN LocalsAt(l).batch : LocalsAt(l).batch[k].Data > 0
  BY <1>2
<1> QED BY <1>1, <1>3, Zenon DEF Gated

(* What a viewer fetches is what somebody wrote.                           *)
LEMMA FetchedArePackets ==
    ASSUME TypeOK, RingNumbered, NEW ref
    PROVE  \A k \in DOMAIN PacketsAfter(ref) : PacketsAfter(ref)[k].Data > 0
<1> DEFINE b == PacketsAfter(ref)
<1>1. CASE b = << >>  BY <1>1
<1>2. CASE b # << >>
  <2>1. PICK m \in Indices :
          /\ Len(b) = count - m
          /\ \A k \in 1..Len(b) : m + k - 1 \in Indices /\ b[k] = Slot(m + k - 1)
    BY <1>2, PacketsAfterFacts
  <2>2. DOMAIN b = 1..Len(b)  BY PacketsAfterFacts, LenProperties
  <2>3. /\ count \in Nat /\ written \in Nat /\ count <= written
        /\ Start \in Nat
    BY IndexFacts, BoundAssumption DEF TypeOK, RingNumbered
  <2>4. \A i \in Indices : Slot(i).Data > 0
    BY <2>3 DEF RingNumbered, Indices
  <2> QED BY <2>1, <2>2, <2>4
<1> QED BY <1>1, <1>2

LEMMA EffectKeepsGate ==
    ASSUME TypeOK, RingNumbered,
           NEW x \in Locals, NEW y \in Locals, Gated(x),
           \/ Moves(x, y) \/ TakesHeader(x, y) \/ Fetches(x, y)
           \/ Sends(x, y) \/ y = LocalsAt("removed")
    PROVE  Gated(y)
<1>1. CASE Moves(x, y)
  BY <1>1, Zenon DEF Moves, Gated
<1>2. CASE TakesHeader(x, y)
  BY <1>2, Zenon DEF TakesHeader, Gated
<1>3. CASE Fetches(x, y)
  BY <1>3, FetchedArePackets, Zenon DEF Fetches, Gated
<1>4. CASE y = LocalsAt("removed")
  BY <1>4, FreshIsGated
<1>5. CASE Sends(x, y)
  <2>1. x.batch \in Seq(Content) /\ x.batch # << >>
    BY <1>5, LocalsFacts DEF Sends
  <2> DEFINE l == Len(x.batch)
  <2>2. /\ l \in Nat /\ l > 0 /\ DOMAIN x.batch = 1..l
        /\ Head(x.batch) = x.batch[1]
        /\ DOMAIN Tail(x.batch) = 1..(l - 1)
        /\ \A k \in 1..(l - 1) : Tail(x.batch)[k] = x.batch[k + 1]
    <3>1. l \in Nat /\ l > 0 /\ DOMAIN x.batch = 1..l
      BY <2>1, LenProperties, EmptySeq
    <3>2. /\ Head(x.batch) = x.batch[1]
          /\ Tail(x.batch) \in Seq(Content) /\ Len(Tail(x.batch)) = l - 1
          /\ \A k \in 1..(l - 1) : Tail(x.batch)[k] = x.batch[k + 1]
      BY <2>1, HeadTailProperties
    <3>3. DOMAIN Tail(x.batch) = 1..(l - 1)  BY <3>2, LenProperties
    <3> QED BY <3>1, <3>2, <3>3
  <2> HIDE DEF l
  <2>3. \A k \in DOMAIN y.batch : y.batch[k].Data > 0
    <3>1. \A k \in 1..(l - 1) : k + 1 \in 1..l  BY <2>2
    <3>2. y.batch = Tail(x.batch)  BY <1>5 DEF Sends
    <3> QED BY <2>2, <3>1, <3>2 DEF Gated
  <2>4. Head(x.batch).Data > 0 /\ Head(x.batch).Data \in Nat
    <3>1. 1 \in 1..l  BY <2>2
    <3> QED BY <2>2, <3>1, LocalsFacts DEF Gated
  <2>5. y.pc \notin BeforeLoop /\ y.epoch = x.epoch  BY <1>5 DEF Sends
  <2>6. CASE x.waitingForKeyframe /\ Head(x.batch).ContFlags # 0
    <3>1. y.waitingForKeyframe  BY <1>5, <2>6, Zenon DEF Sends
    <3> QED BY <2>3, <2>5, <3>1, Zenon DEF Gated
  <2>7. CASE ~(x.waitingForKeyframe /\ Head(x.batch).ContFlags # 0)
    <3>1. y.last = [n |-> Head(x.batch).Data, epoch |-> x.epoch]
      BY <1>5, <2>7 DEF Sends
    <3>2. y.last # NoBody /\ y.last.epoch = y.epoch
      BY <2>4, <2>5, <3>1 DEF NoBody
    <3> QED BY <2>3, <2>5, <3>2, Zenon DEF Gated
  <2> QED BY <2>6, <2>7
<1> QED BY <1>1, <1>2, <1>3, <1>4, <1>5

LEMMA StepKeepsGate ==
    ASSUME StreamTypeOK, StreamTypeOK', RingNumbered, GateInv, [StreamNext]_vars
    PROVE  GateInv'
<1>1. TypeOK /\ LocalsOK /\ run \in [Viewers -> Locals]
      /\ run' \in [Viewers -> Locals]
  BY DEF StreamTypeOK, LocalsOK
<1>2. CASE run' = run
  BY <1>2 DEF GateInv
<1>3. ASSUME NEW v \in Viewers, ViewerStep(v) PROVE GateInv'
  <2>1. PICK x \in Locals : x = run[v]  BY <1>1
  <2>2. PICK y \in Locals : y = run'[v]  BY <1>1
  <2>3. /\ \A u \in Viewers \ {v} : run'[u] = run[u]
        /\ \/ Moves(x, y) \/ TakesHeader(x, y) \/ Fetches(x, y)
           \/ Sends(x, y) \/ y = LocalsAt("removed")
    BY <1>1, <1>3, <2>1, <2>2, ViewerEffect
  <2>4. Gated(y)
    BY <1>1, <2>1, <2>3, EffectKeepsGate DEF GateInv
  <2>5. ASSUME NEW u \in Viewers PROVE Gated(run'[u])
    <3>1. CASE u = v  BY <2>2, <2>4, <3>1
    <3>2. CASE u # v  BY <2>3, <3>2 DEF GateInv
    <3> QED BY <3>1, <3>2
  <2> QED BY <2>5 DEF GateInv
<1>4. run' = run \/ \E v \in Viewers : ViewerStep(v)
  BY DEF StreamNext, Writer, SetHeaderBegin, SetHeaderSnapshot, SetHeaderNotify,
         WriteBegin, WriteSignal, CloseAllBegin, Close, CloseAllClose, vars,
         ViewerStep
<1> QED BY <1>2, <1>3, <1>4

(* The first body after every header a viewer is sent is a keyframe: the   *)
(* gate of HTTPOutputStream.run, closed again by writeHeaderUpdate.        *)
THEOREM KeyframeCorrect == StreamSpec => []KeyframeAfterHeader
<1>1. Init => GateInv
  BY FreshIsGated DEF Init, GateInv
<1>2. GateInv => KeyframeAfterHeader
  BY Zenon DEF GateInv, Gated, KeyframeAfterHeader, AboutToSend, Skip
<1> QED
  BY <1>1, <1>2, StepKeepsGate, StreamTypeCorrect, StreamUsesBuffer,
     NumberCorrect, PTL DEF StreamSpec

==============================================================================
