---------------------------- MODULE ReceiveProof ----------------------------
(***************************************************************************)
(* Proofs about what cu receives: the receive buffer is a queue for every  *)
(* size of its ring, and ~%take and ~< write the file that is sent,        *)
(* whatever it is and however it is ended.  And of ConnIO, which reads and *)
(* writes the port: what is remembered of the blocking mode, of MIN and of *)
(* the alarm is so, and where in a call that matters.                      *)
(***************************************************************************)
EXTENDS CuTake, RecBuf, ConnIO, FiniteSetTheorems, SequenceTheorems,
        WellFoundedInduction, TLAPS

(* An index runs up to the size of the ring, and there starts again. *)
LEMMA Wrap ==
  ASSUME NEW x \in 0..CRECBUFLEN
  PROVE  x % CRECBUFLEN = IF x = CRECBUFLEN THEN 0 ELSE x
  BY RingAssumption

(* What is read fits behind the data, and with it the ring is not full. *)
LEMMA RoomBound ==
  ASSUME RingTypeOK
  PROVE  /\ Room \in Nat
         /\ iPrecend + Room <= CRECBUFLEN
         /\ Count + Room <= CRECBUFLEN - 1
         /\ Count \in Nat
         /\ Count = 0 <=> iPrecstart = iPrecend
         /\ iPrecend < iPrecstart => iPrecend + Room < iPrecstart
  BY RingAssumption DEF RingTypeOK, Room, Count, Slots

LEMMA ContentsType ==
  ASSUME RingTypeOK
  PROVE  /\ Contents \in Seq(Byte)
         /\ Len(Contents) = Count
         /\ \A i \in 1..Count : Contents[i] = abPrecbuf[Slot(i)]
  <1>1. Count \in Nat
    BY RoomBound
  <1>2. \A i \in 1..Count : Slot(i) \in Slots
    BY RingAssumption DEF RingTypeOK, Count, Slot, Slots
  <1>3. Contents \in [1..Count -> Byte]
    BY <1>2 DEF Contents, RingTypeOK
  <1> QED
    BY <1>1, <1>3 DEF Contents

-----------------------------------------------------------------------------
(* Type correctness *)

LEMMA ReadType ==
  ASSUME RingTypeOK, NEW n \in 0..Room, ReadIn(n)
  PROVE  /\ abPrecbuf' \in [Slots -> Byte]
         /\ iPrecend' \in Slots
         /\ came' \in [1..n -> Byte]
         /\ came' \in Seq(Byte)
         /\ Len(came') = n
  <1>1. PICK data \in [1..n -> Byte] :
          /\ abPrecbuf' = [i \in Slots |-> IF i \in iPrecend..iPrecend + n - 1
                                           THEN data[i - iPrecend + 1]
                                           ELSE abPrecbuf[i]]
          /\ iPrecend' = (iPrecend + n) % CRECBUFLEN
          /\ came' = data
    BY DEF ReadIn
  <1>2. n \in Nat /\ iPrecend \in Slots /\ iPrecend + n \in 0..CRECBUFLEN
    BY RoomBound, RingAssumption DEF RingTypeOK, Slots
  <1>3. iPrecend' \in Slots
    BY <1>1, <1>2, Wrap, RingAssumption DEF Slots
  <1>4. \A i \in iPrecend..iPrecend + n - 1 : i - iPrecend + 1 \in 1..n
    BY <1>2 DEF Slots
  <1>5. \A i \in iPrecend..iPrecend + n - 1 : data[i - iPrecend + 1] \in Byte
    BY <1>4
  <1>6. abPrecbuf' \in [Slots -> Byte]
    BY <1>1, <1>5 DEF RingTypeOK
  <1> QED
    BY <1>1, <1>2, <1>3, <1>6

LEMMA TypeStep == RingTypeOK /\ [RingNext]_ringVars => RingTypeOK'
  <1> SUFFICES ASSUME RingTypeOK, [RingNext]_ringVars PROVE RingTypeOK'
    OBVIOUS
  <1>1. \A i \in Slots : (i + 1) % CRECBUFLEN \in Slots
    BY Wrap, RingAssumption DEF Slots
  <1>2. CASE SendData
    BY <1>2, ReadType DEF SendData, RingTypeOK
  <1>3. CASE ReceiveBuffered
    <2>1. abPrecbuf[iPrecstart] \in Byte
      BY DEF RingTypeOK
    <2> QED
      BY <1>1, <1>3, <2>1 DEF ReceiveBuffered, RingTypeOK
  <1>4. CASE ReceiveFromPort
    BY <1>1, <1>4, ReadType DEF ReceiveFromPort, RingTypeOK
  <1>5. CASE ReceiveNothing
    BY <1>5 DEF ReceiveNothing, RingTypeOK
  <1>6. CASE DropAll
    BY <1>6, RingAssumption DEF DropAll, RingTypeOK, Slots
  <1>7. CASE UNCHANGED ringVars
    BY <1>7 DEF ringVars, RingTypeOK
  <1> QED
    BY <1>2, <1>3, <1>4, <1>5, <1>6, <1>7 DEF RingNext

-----------------------------------------------------------------------------
(* The ring is a queue *)

(* Characters that are read come after the ones that are there, which stay *)
(* where they are.                                                         *)
LEMMA ReadAppends ==
  ASSUME RingTypeOK, NEW n \in 0..Room, ReadIn(n), UNCHANGED iPrecstart
  PROVE  Contents' = Contents \o came'
  <1>1. PICK data \in [1..n -> Byte] :
          /\ abPrecbuf' = [i \in Slots |-> IF i \in iPrecend..iPrecend + n - 1
                                           THEN data[i - iPrecend + 1]
                                           ELSE abPrecbuf[i]]
          /\ iPrecend' = (iPrecend + n) % CRECBUFLEN
          /\ came' = data
    BY DEF ReadIn
  <1>2. /\ n \in Nat /\ n <= Room /\ Room \in Nat /\ Count \in Nat
        /\ iPrecstart \in Slots /\ iPrecend \in Slots
        /\ iPrecend + n \in 0..CRECBUFLEN
        /\ Count + n <= CRECBUFLEN - 1
        /\ iPrecend < iPrecstart => iPrecend + n < iPrecstart
    BY RoomBound, RingAssumption DEF RingTypeOK, Slots
  <1>3. iPrecend' = IF iPrecend + n = CRECBUFLEN THEN 0 ELSE iPrecend + n
    BY <1>1, <1>2, Wrap
  <1>4. Count' = Count + n
    BY <1>2, <1>3, RingAssumption DEF Count, Slots
  <1>5. \A i \in 1..Count : /\ Slot(i)' = Slot(i)
                            /\ Slot(i) \in Slots
                            /\ Slot(i) \notin iPrecend..iPrecend + n - 1
    BY <1>2, RingAssumption DEF Slot, Count, Slots
  <1>6. \A i \in Count + 1..Count + n :
          /\ Slot(i)' \in Slots
          /\ Slot(i)' \in iPrecend..iPrecend + n - 1
          /\ Slot(i)' - iPrecend + 1 = i - Count
    BY <1>2, RingAssumption DEF Slot, Count, Slots
  <1>7. \A i \in 1..Count : Contents'[i] = Contents[i]
    BY <1>1, <1>2, <1>4, <1>5 DEF Contents
  <1>8. \A i \in Count + 1..Count + n : Contents'[i] = came'[i - Count]
    BY <1>1, <1>2, <1>4, <1>6 DEF Contents
  <1>9. /\ Contents \in Seq(Byte) /\ Len(Contents) = Count
        /\ came' \in Seq(Byte) /\ Len(came') = n
    BY ContentsType, ReadType
  <1>10. /\ Contents \o came' \in [1..Count + n -> Byte]
         /\ \A i \in 1..Count + n :
              (Contents \o came')[i] = IF i <= Count THEN Contents[i]
                                      ELSE came'[i - Count]
    <2>1. /\ Contents \o came' \in Seq(Byte)
          /\ Len(Contents \o came') = Count + n
          /\ \A i \in 1..Count + n :
               (Contents \o came')[i] = IF i <= Count THEN Contents[i]
                                       ELSE came'[i - Count]
      BY <1>9, ConcatProperties
    <2> QED
      BY <2>1, LenProperties
  <1>11. Contents' = [i \in 1..Count + n |-> Contents'[i]]
    BY <1>4 DEF Contents
  <1>12. \A i \in 1..Count + n :
           Contents'[i] = IF i <= Count THEN Contents[i] ELSE came'[i - Count]
    BY <1>2, <1>7, <1>8
  <1> QED
    BY <1>10, <1>11, <1>12

LEMMA TakeRemoves ==
  ASSUME RingTypeOK, ReceiveBuffered
  PROVE  Queue!Take
  <1>1. /\ Count \in Nat \ {0} /\ iPrecstart \in Slots /\ iPrecend \in Slots
        /\ Contents \in Seq(Byte) /\ Len(Contents) = Count
        /\ \A i \in 1..Count : Contents[i] = abPrecbuf[Slot(i)]
    BY RoomBound, ContentsType DEF ReceiveBuffered, RingTypeOK
  <1>2. iPrecstart' = IF iPrecstart + 1 = CRECBUFLEN THEN 0 ELSE iPrecstart + 1
    <2>1. iPrecstart + 1 \in 0..CRECBUFLEN
      BY <1>1, RingAssumption DEF Slots
    <2> QED
      BY <2>1, Wrap DEF ReceiveBuffered
  <1>3. Count' = Count - 1
    BY <1>1, <1>2, RingAssumption DEF Count, Slots, ReceiveBuffered
  <1>4. \A i \in 1..Count - 1 : Slot(i)' = Slot(i + 1)
    BY <1>1, <1>2, RingAssumption DEF Slot, Count, Slots
  <1>5. Slot(1) = iPrecstart
    BY <1>1, RingAssumption DEF Slot, Slots
  <1>6. Contents # <<>> /\ Head(Contents) = abPrecbuf[iPrecstart]
    BY <1>1, <1>5
  <1>7. /\ Tail(Contents) \in [1..Count - 1 -> Byte]
        /\ \A i \in 1..Count - 1 : Tail(Contents)[i] = Contents[i + 1]
    BY <1>1, <1>6, HeadTailProperties, LenProperties
  <1>8. Contents' = [i \in 1..Count - 1 |-> abPrecbuf'[Slot(i)']]
    BY <1>3 DEF Contents
  <1>9. \A i \in 1..Count - 1 : abPrecbuf'[Slot(i)'] = Contents[i + 1]
    BY <1>1, <1>4 DEF ReceiveBuffered
  <1>10. Contents' = Tail(Contents)
    BY <1>7, <1>8, <1>9
  <1> QED
    BY <1>6, <1>10 DEF Queue!Take, ReceiveBuffered

(* An empty buffer that is read into gives the first character out. *)
LEMMA WaitGives ==
  ASSUME RingTypeOK, ReceiveFromPort
  PROVE  Queue!Wait
  <1>1. PICK n \in 1..Room : ReadIn(n)
    BY DEF ReceiveFromPort
  <1>2. PICK data \in [1..n -> Byte] :
          /\ abPrecbuf' = [i \in Slots |-> IF i \in iPrecend..iPrecend + n - 1
                                           THEN data[i - iPrecend + 1]
                                           ELSE abPrecbuf[i]]
          /\ iPrecend' = (iPrecend + n) % CRECBUFLEN
          /\ came' = data
    BY <1>1 DEF ReadIn
  <1>3. /\ n \in Nat \ {0} /\ n <= Room /\ Count = 0
        /\ iPrecstart \in Slots /\ iPrecend = iPrecstart
        /\ iPrecend + n \in 0..CRECBUFLEN
        /\ n <= CRECBUFLEN - 1
        /\ Contents = <<>>
    BY RoomBound, ContentsType, RingAssumption, SMTT(30)
    DEF RingTypeOK, Slots, ReceiveFromPort
  <1>4. came' \in Seq(Byte) /\ Len(came') = n
    BY <1>1, <1>3, ReadType
  <1>5. iPrecend' = IF iPrecend + n = CRECBUFLEN THEN 0 ELSE iPrecend + n
    BY <1>2, <1>3, Wrap
  <1>6. iPrecstart' = IF iPrecstart + 1 = CRECBUFLEN THEN 0 ELSE iPrecstart + 1
    <2>1. iPrecstart + 1 \in 0..CRECBUFLEN
      BY <1>3, RingAssumption DEF Slots
    <2> QED
      BY <2>1, Wrap DEF ReceiveFromPort
  <1>7. Count' = n - 1
    BY <1>3, <1>5, <1>6, RingAssumption DEF Count, Slots
  <1>8. \A i \in 1..n - 1 : /\ Slot(i)' = iPrecend + i
                            /\ iPrecend + i \in Slots
    BY <1>3, <1>6, RingAssumption DEF Slot, Slots
  <1>9. \A i \in 1..n - 1 : abPrecbuf'[Slot(i)'] = came'[i + 1]
    BY <1>2, <1>3, <1>8 DEF Slots
  <1>10. Contents' = [i \in 1..n - 1 |-> abPrecbuf'[Slot(i)']]
    BY <1>7 DEF Contents
  <1>11. /\ came' # <<>>
         /\ Tail(came') \in [1..n - 1 -> Byte]
         /\ \A i \in 1..n - 1 : Tail(came')[i] = came'[i + 1]
    <2>1. came' # <<>>
      BY <1>3, <1>4
    <2>2. /\ Tail(came') \in Seq(Byte) /\ Len(Tail(came')) = n - 1
          /\ \A i \in 1..n - 1 : Tail(came')[i] = came'[i + 1]
      BY <1>4, <2>1, HeadTailProperties
    <2> QED
      BY <2>1, <2>2, LenProperties
  <1>12. Contents' = Tail(came')
    BY <1>9, <1>10, <1>11
  <1>13. abPrecbuf'[iPrecstart] = Head(came')
    BY <1>2, <1>3, <1>4 DEF Slots
  <1> QED
    BY <1>3, <1>4, <1>11, <1>12, <1>13 DEF Queue!Wait, ReceiveFromPort

LEMMA QueueStep == RingTypeOK /\ [RingNext]_ringVars => [Queue!Next]_(Queue!vars)
  <1> SUFFICES ASSUME RingTypeOK, [RingNext]_ringVars PROVE [Queue!Next]_(Queue!vars)
    OBVIOUS
  <1>1. CASE SendData
    <2>1. PICK n \in 0..Room : ReadIn(n)
      BY <1>1 DEF SendData
    <2>2. came' \in Seq(Byte) /\ Contents' = Contents \o came'
      BY <1>1, <2>1, ReadType, ReadAppends DEF SendData
    <2> QED
      BY <1>1, <2>2 DEF SendData, Queue!Fill, Queue!Next
  <1>2. CASE ReceiveBuffered
    BY <1>2, TakeRemoves DEF Queue!Next
  <1>3. CASE ReceiveFromPort
    BY <1>3, WaitGives DEF Queue!Next
  <1>4. CASE ReceiveNothing
    <2>1. Contents = <<>>
      BY <1>4, RoomBound, ContentsType DEF ReceiveNothing
    <2>2. Contents' = Contents
      BY <1>4 DEF ReceiveNothing, Contents, Count, Slot
    <2>3. <<>> \in Seq(Byte)
      OBVIOUS
    <2> QED
      BY <1>4, <2>1, <2>2, <2>3
      DEF ReceiveNothing, Queue!Wait, Queue!NotReceived, Queue!Next
  <1>5. CASE DropAll
    <2>1. Contents' = <<>>
      BY <1>5 DEF DropAll, Contents, Count
    <2> QED
      BY <1>5, <2>1 DEF DropAll, Queue!Discard, Queue!Next
  <1>6. CASE UNCHANGED ringVars
    BY <1>6 DEF ringVars, Queue!vars, Contents, Count, Slot
  <1> QED
    BY <1>1, <1>2, <1>3, <1>4, <1>5, <1>6 DEF RingNext

-----------------------------------------------------------------------------
LEMMA InitType == RingInit => RingTypeOK
  BY RingAssumption DEF RingInit, RingTypeOK, Slots

LEMMA InitQueue == RingInit => Queue!Init
  BY DEF RingInit, Queue!Init, Queue!NotReceived, Contents, Count

(* The indices stay in the buffer. *)
THEOREM TypeCorrect == RingSpec => []RingTypeOK
  BY InitType, TypeStep, PTL DEF RingSpec

(* breceive_char never asks for characters there is no room for. *)
THEOREM HasRoom == RingSpec => []RoomToReceive
  <1>1. RingTypeOK => RoomToReceive
    BY RingAssumption DEF RingTypeOK, RoomToReceive, Room, Slots
  <1> QED
    BY <1>1, TypeCorrect, PTL

(* fsend_data, freceive_data and breceive_char on the ring do what they    *)
(* would on a queue.                                                       *)
THEOREM Refinement == RingSpec => IsQueue
  BY InitType, InitQueue, TypeStep, QueueStep, PTL
  DEF RingSpec, IsQueue, Queue!Spec

-----------------------------------------------------------------------------
(* Induction over numbers *)

(* A set of numbers that is not empty has a least one.                     *)
LEMMA LeastNumber ==
  ASSUME NEW T, T \subseteq Nat, T # {}
  PROVE  \E x \in T : \A y \in T : x <= y
<1>1. PICK x \in T : \A y \in T : ~ (<<y, x>> \in OpToRel(<, Nat))
  BY WFMin, NatLessThanWellFounded, Zenon
<1>2. \A y \in T : ~(y < x)
  BY <1>1, Zenon DEF OpToRel
<1> QED  BY <1>2

(* Induction, for a set.                                                   *)
LEMMA SetInduction ==
  ASSUME NEW T, T \subseteq Nat, 0 \in T, \A n \in T : n + 1 \in T
  PROVE  \A n \in Nat : n \in T
<1> SUFFICES ASSUME NEW n \in Nat, n \notin T  PROVE FALSE
  OBVIOUS
<1>1. PICK x \in Nat \ T : \A y \in Nat \ T : x <= y
  BY LeastNumber
<1>2. x - 1 \in Nat /\ x - 1 \in T
  BY <1>1
<1> QED  BY <1>1, <1>2

-----------------------------------------------------------------------------
(* Characters without the carriage returns *)

(* A function that has dropped the carriage returns of the first n.         *)
Dropping(s, f, n) ==
  /\ f = [i \in 0..n |-> f[i]]
  /\ f[0] = <<>>
  /\ \A i \in 1..n : f[i] = IF s[i] = "cr" THEN f[i - 1] ELSE Append(f[i - 1], s[i])

LEMMA DroppingExists ==
  ASSUME NEW s
  PROVE  \A n \in Nat : \E f : Dropping(s, f, n)
<1> DEFINE T == {n \in Nat : \E f : Dropping(s, f, n)}
<1>1. 0 \in T
  <2>1. Dropping(s, [i \in 0..0 |-> <<>>], 0)
    BY DEF Dropping
  <2> QED  BY <2>1
<1>2. ASSUME NEW n \in T
      PROVE  n + 1 \in T
  <2>1. PICK f : Dropping(s, f, n)
    OBVIOUS
  <2> DEFINE last == IF s[n + 1] = "cr" THEN f[n] ELSE Append(f[n], s[n + 1])
  <2>2. PICK g : g = [i \in 0..n + 1 |-> IF i = n + 1 THEN last ELSE f[i]]
    OBVIOUS
  <2>3. /\ \A i \in 0..n : g[i] = f[i]
        /\ g[n + 1] = last /\ g = [i \in 0..n + 1 |-> g[i]]
    BY <2>2
  <2>4. g[0] = <<>>
    BY <2>1, <2>3 DEF Dropping
  <2>5. ASSUME NEW i \in 1..n + 1
        PROVE  g[i] = IF s[i] = "cr" THEN g[i - 1] ELSE Append(g[i - 1], s[i])
    <3>1. CASE i = n + 1
      <4>1. g[i - 1] = f[n]
        BY <2>3, <3>1
      <4> QED  BY <2>3, <3>1, <4>1
    <3>2. CASE i # n + 1
      <4>1. i \in 1..n /\ i \in 0..n /\ i - 1 \in 0..n
        BY <3>2
      <4>2. f[i] = IF s[i] = "cr" THEN f[i - 1] ELSE Append(f[i - 1], s[i])
        BY <2>1, <4>1 DEF Dropping
      <4> QED  BY <2>3, <4>1, <4>2
    <3> QED  BY <3>1, <3>2
  <2>6. Dropping(s, g, n + 1)
    BY <2>3, <2>4, <2>5 DEF Dropping
  <2> QED  BY <2>6
<1>3. T \subseteq Nat
  OBVIOUS
<1> HIDE DEF T
<1>4. \A n \in Nat : n \in T
  BY <1>1, <1>2, <1>3, SetInduction
<1> QED  BY <1>4 DEF T

(* Two of them agree as far as what they drop from does.                   *)
LEMMA DroppingUnique ==
  ASSUME NEW s, NEW t, NEW f, NEW g, NEW n \in Nat, NEW m \in Nat, NEW k \in Nat,
         k <= n, k <= m, Dropping(s, f, n), Dropping(t, g, m),
         \A i \in 1..k : s[i] = t[i]
  PROVE  \A i \in 0..k : f[i] = g[i]
<1> DEFINE T == {i \in Nat : i <= k => f[i] = g[i]}
<1>1. 0 \in T
  BY DEF Dropping
<1>2. ASSUME NEW i \in T
      PROVE  i + 1 \in T
  <2>1. SUFFICES ASSUME i + 1 <= k  PROVE f[i + 1] = g[i + 1]
    OBVIOUS
  <2>2. f[i] = g[i]
    BY <2>1
  <2>3. PICK j \in 1..k : j = i + 1
    BY <2>1
  <2>4. j \in 1..n /\ j \in 1..m /\ j - 1 = i
    BY <2>3
  <2>5. f[j] = IF s[j] = "cr" THEN f[j - 1] ELSE Append(f[j - 1], s[j])
    BY <2>4 DEF Dropping
  <2>6. g[j] = IF t[j] = "cr" THEN g[j - 1] ELSE Append(g[j - 1], t[j])
    BY <2>4 DEF Dropping
  <2>7. s[j] = t[j]
    OBVIOUS
  <2> QED  BY <2>2, <2>3, <2>4, <2>5, <2>6, <2>7
<1>3. T \subseteq Nat
  OBVIOUS
<1> HIDE DEF T
<1>4. \A i \in Nat : i \in T
  BY <1>1, <1>2, <1>3, SetInduction
<1> QED  BY <1>4 DEF T

(* What WithoutReturns returns.                                            *)
LEMMA WithoutReturnsIs ==
  ASSUME NEW s \in Seq(Characters)
  PROVE  \E f : Dropping(s, f, Len(s)) /\ WithoutReturns(s) = f[Len(s)]
<1> DEFINE Body(f) == [i \in 0..Len(s) |->
                        IF i = 0 THEN <<>>
                        ELSE IF s[i] = "cr" THEN f[i - 1] ELSE Append(f[i - 1], s[i])]
<1>1. PICK g : Dropping(s, g, Len(s))
  BY DroppingExists
<1>2. g = Body(g)
  <2>1. \A i \in 0..Len(s) : i = 0 \/ i \in 1..Len(s)
    OBVIOUS
  <2>2. \A i \in 0..Len(s) :
          g[i] = IF i = 0 THEN <<>>
                 ELSE IF s[i] = "cr" THEN g[i - 1] ELSE Append(g[i - 1], s[i])
    BY <1>1, <2>1 DEF Dropping
  <2>3. g = [i \in 0..Len(s) |-> g[i]]
    BY <1>1 DEF Dropping
  <2> QED  BY <2>2, <2>3
<1>3. PICK f : f = CHOOSE h : h = Body(h)
  OBVIOUS
<1>4. f = Body(f)
  BY <1>2, <1>3
<1>5. WithoutReturns(s) = f[Len(s)]
  BY <1>3 DEF WithoutReturns
<1>6. Dropping(s, f, Len(s))
  <2>1. \A i \in 0..Len(s) :
          f[i] = IF i = 0 THEN <<>>
                 ELSE IF s[i] = "cr" THEN f[i - 1] ELSE Append(f[i - 1], s[i])
    BY <1>4
  <2>2. f = [i \in 0..Len(s) |-> f[i]]
    BY <1>4
  <2>3. 0 \in 0..Len(s) /\ \A i \in 1..Len(s) : i \in 0..Len(s) /\ i # 0
    OBVIOUS
  <2> QED  BY <2>1, <2>2, <2>3 DEF Dropping
<1> QED  BY <1>5, <1>6

LEMMA WithoutReturnsOfNone == WithoutReturns(<<>>) = <<>>
<1>1. <<>> \in Seq(Characters) /\ Len(<<>>) = 0
  OBVIOUS
<1>2. PICK f : Dropping(<<>>, f, 0) /\ WithoutReturns(<<>>) = f[0]
  BY <1>1, WithoutReturnsIs
<1> QED  BY <1>2 DEF Dropping

LEMMA WithoutReturnsAppend ==
  ASSUME NEW s \in Seq(Characters), NEW c \in Characters
  PROVE  WithoutReturns(Append(s, c)) =
           IF c = "cr" THEN WithoutReturns(s) ELSE Append(WithoutReturns(s), c)
<1>1. PICK t : t = Append(s, c)
  OBVIOUS
<1>2. /\ t \in Seq(Characters) /\ Len(t) = Len(s) + 1 /\ t[Len(s) + 1] = c
      /\ \A i \in 1..Len(s) : t[i] = s[i]
  BY <1>1
<1>3. PICK f : Dropping(s, f, Len(s)) /\ WithoutReturns(s) = f[Len(s)]
  BY WithoutReturnsIs
<1>4. PICK g : Dropping(t, g, Len(s) + 1) /\ WithoutReturns(t) = g[Len(s) + 1]
  BY <1>2, WithoutReturnsIs
<1>5. g[Len(s)] = f[Len(s)]
  <2>1. PICK n \in Nat, m \in Nat : n = Len(s) /\ m = n + 1
    OBVIOUS
  <2>2. \A i \in 1..n : s[i] = t[i]
    BY <1>2, <2>1
  <2>3. Dropping(s, f, n) /\ Dropping(t, g, m)
    BY <1>3, <1>4, <2>1
  <2>4. n <= n /\ n <= m
    BY <2>1
  <2>5. \A i \in 0..n : f[i] = g[i]
    BY <2>2, <2>3, <2>4, DroppingUnique, SMTT(30)
  <2> QED  BY <2>1, <2>5
<1>6. g[Len(s) + 1] = IF t[Len(s) + 1] = "cr" THEN g[Len(s)] ELSE Append(g[Len(s)], t[Len(s) + 1])
  <2>1. PICK j \in 1..Len(s) + 1 : j = Len(s) + 1 /\ j - 1 = Len(s)
    OBVIOUS
  <2>2. g[j] = IF t[j] = "cr" THEN g[j - 1] ELSE Append(g[j - 1], t[j])
    BY <1>4 DEF Dropping
  <2> QED  BY <2>1, <2>2
<1> QED  BY <1>1, <1>2, <1>3, <1>4, <1>5, <1>6

(* Induction over sequences, from front to end, for a set.                 *)
LEMMA FrontAndLast ==
  ASSUME NEW s \in Seq(Characters), s # <<>>
  PROVE  \E f \in Seq(Characters), c \in Characters : s = Append(f, c) /\ Len(f) = Len(s) - 1
<1>1. PICK n \in Nat : Len(s) = n + 1
  BY SMT
<1>2. PICK f : f = SubSeq(s, 1, n)
  OBVIOUS
<1>3. f \in Seq(Characters) /\ Len(f) = n /\ \A i \in 1..n : f[i] = s[i]
  BY <1>1, <1>2
<1>4. PICK c \in Characters : c = s[n + 1]
  BY <1>1
<1>5. PICK t : t = Append(f, c)
  OBVIOUS
<1>6. /\ t \in Seq(Characters) /\ Len(t) = n + 1 /\ t[n + 1] = c
      /\ \A i \in 1..n : t[i] = s[i]
  BY <1>3, <1>5
<1>7. \A i \in 1..n + 1 : t[i] = s[i]
  <2>1. \A i \in 1..n + 1 : i \in 1..n \/ i = n + 1
    OBVIOUS
  <2> QED  BY <1>4, <1>6, <2>1
<1>8. s = t
  BY <1>1, <1>6, <1>7
<1> QED  BY <1>1, <1>3, <1>5, <1>8

LEMMA SeqInduction ==
  ASSUME NEW T, T \subseteq Seq(Characters), <<>> \in T,
         \A s \in T, c \in Characters : Append(s, c) \in T
  PROVE  \A s \in Seq(Characters) : s \in T
<1> DEFINE N == {n \in Nat : \A s \in Seq(Characters) : Len(s) = n => s \in T}
<1>1. 0 \in N
  OBVIOUS
<1>2. ASSUME NEW n \in N
      PROVE  n + 1 \in N
  <2>1. SUFFICES ASSUME NEW s \in Seq(Characters), Len(s) = n + 1
                 PROVE  s \in T
    OBVIOUS
  <2>2. s # <<>>
    BY <2>1
  <2>3. PICK f \in Seq(Characters), c \in Characters : s = Append(f, c) /\ Len(f) = Len(s) - 1
    BY <2>2, FrontAndLast
  <2>4. f \in T
    BY <2>1, <2>3
  <2> QED  BY <2>3, <2>4
<1>3. N \subseteq Nat
  OBVIOUS
<1> HIDE DEF N
<1>4. \A n \in Nat : n \in N
  BY <1>1, <1>2, <1>3, SetInduction
<1>5. \A s \in Seq(Characters) : Len(s) \in Nat
  OBVIOUS
<1> QED  BY <1>4, <1>5 DEF N

LEMMA WithoutReturnsType ==
  \A s \in Seq(Characters) : WithoutReturns(s) \in Seq(Characters)
<1> DEFINE T == {s \in Seq(Characters) : WithoutReturns(s) \in Seq(Characters)}
<1>0. <<>> \in Seq(Characters)
  OBVIOUS
<1>1. <<>> \in T
  BY <1>0, WithoutReturnsOfNone
<1>2. ASSUME NEW s \in T, NEW c \in Characters
      PROVE  Append(s, c) \in T
  <2>1. /\ Append(s, c) \in Seq(Characters)
        /\ Append(WithoutReturns(s), c) \in Seq(Characters)
    OBVIOUS
  <2>2. WithoutReturns(Append(s, c)) \in {WithoutReturns(s), Append(WithoutReturns(s), c)}
    BY WithoutReturnsAppend
  <2> QED  BY <2>1, <2>2
<1>3. T \subseteq Seq(Characters)
  OBVIOUS
<1> HIDE DEF T
<1>4. \A s \in Seq(Characters) : s \in T
  BY <1>1, <1>2, <1>3, SeqInduction
<1> QED  BY <1>4 DEF T

LEMMA WithoutReturnsConcat ==
  ASSUME NEW s \in Seq(Characters), NEW t \in Seq(Characters)
  PROVE  WithoutReturns(s \o t) = WithoutReturns(s) \o WithoutReturns(t)
<1> DEFINE T == {u \in Seq(Characters) :
                   WithoutReturns(s \o u) = WithoutReturns(s) \o WithoutReturns(u)}
<1>0. WithoutReturns(s) \in Seq(Characters)
  BY WithoutReturnsType
<1>1. <<>> \in T
  <2>1. s \o <<>> = s /\ WithoutReturns(s) \o <<>> = WithoutReturns(s)
    BY <1>0
  <2>2. <<>> \in Seq(Characters)
    OBVIOUS
  <2>3. WithoutReturns(s \o <<>>) = WithoutReturns(s) \o WithoutReturns(<<>>)
    BY <2>1, WithoutReturnsOfNone
  <2> QED  BY <2>2, <2>3
<1>2. ASSUME NEW u \in T, NEW c \in Characters
      PROVE  Append(u, c) \in T
  <2>1. PICK w \in Seq(Characters) : w = WithoutReturns(s)
    BY <1>0
  <2>2. PICK v \in Seq(Characters) : v = WithoutReturns(u)
    BY WithoutReturnsType
  <2>3. s \o Append(u, c) = Append(s \o u, c) /\ s \o u \in Seq(Characters)
    OBVIOUS
  <2>4. WithoutReturns(s \o u) = w \o v
    BY <2>1, <2>2
  <2>5. WithoutReturns(Append(s \o u, c)) = IF c = "cr" THEN w \o v ELSE Append(w \o v, c)
    BY <2>3, <2>4, WithoutReturnsAppend
  <2>6. WithoutReturns(Append(u, c)) = IF c = "cr" THEN v ELSE Append(v, c)
    BY <2>2, WithoutReturnsAppend
  <2>7. w \o Append(v, c) = Append(w \o v, c)
    OBVIOUS
  <2>8. WithoutReturns(s \o Append(u, c)) = w \o WithoutReturns(Append(u, c))
    BY <2>3, <2>5, <2>6, <2>7
  <2>9. Append(u, c) \in Seq(Characters)
    OBVIOUS
  <2> QED  BY <2>1, <2>8, <2>9
<1>3. T \subseteq Seq(Characters)
  OBVIOUS
<1> HIDE DEF T
<1>4. \A u \in Seq(Characters) : u \in T
  BY <1>1, <1>2, <1>3, SeqInduction
<1> QED  BY <1>4 DEF T

(* What has no carriage returns stays.                                     *)
NoReturns(s) == \A i \in 1..Len(s) : s[i] # "cr"

LEMMA WithoutReturnsNone ==
  ASSUME NEW s \in Seq(Characters), NoReturns(s)
  PROVE  WithoutReturns(s) = s
<1> DEFINE T == {t \in Seq(Characters) : NoReturns(t) => WithoutReturns(t) = t}
<1>1. <<>> \in T
  BY WithoutReturnsOfNone
<1>2. ASSUME NEW t \in T, NEW c \in Characters
      PROVE  Append(t, c) \in T
  <2>1. SUFFICES ASSUME NoReturns(Append(t, c))
                 PROVE  WithoutReturns(Append(t, c)) = Append(t, c)
    OBVIOUS
  <2>2. PICK u : u = Append(t, c)
    OBVIOUS
  <2>3. /\ Len(u) = Len(t) + 1 /\ u[Len(t) + 1] = c
        /\ \A i \in 1..Len(t) : u[i] = t[i] /\ i \in 1..Len(u)
    BY <2>2
  <2>4. \A i \in 1..Len(u) : u[i] # "cr"
    BY <2>1, <2>2 DEF NoReturns
  <2>5. c # "cr"
    BY <2>3, <2>4
  <2>6. NoReturns(t)
    BY <2>3, <2>4 DEF NoReturns
  <2> QED  BY <2>5, <2>6, WithoutReturnsAppend
<1>3. T \subseteq Seq(Characters)
  OBVIOUS
<1> HIDE DEF T
<1>4. \A t \in Seq(Characters) : t \in T
  BY <1>1, <1>2, <1>3, SeqInduction
<1> QED  BY <1>4 DEF T

-----------------------------------------------------------------------------
(* The invariant *)

(* The marker ends what cat and echo write, and occurs nowhere in it before. *)
EndsOnce(t) ==
  \A i \in 0..Len(t) : SubSeq(t \o UnixEof, i + 1, i + 3) = UnixEof => i = Len(t)

(* The eofread strings can be found, and no file has the marker in it.     *)
TakeProper ==
  /\ LittleEndian = TRUE \/ <<>> \notin Eofreads
  /\ \A e \in Eofreads : NoReturns(e)
  /\ \A f \in Files : EndsOnce(f) /\ EndsOnce(WithoutReturns(f))

Given == remoteFile \in Files /\ zeof \in IF fromShell THEN {UnixEof} ELSE Eofreads

PlaceInv ==
  /\ takeEnd = "none" <=> taking # "over"
  /\ taking \notin {"no", "over"} \/ takeEnd = "complete" => Given
  /\ taking \in {"no", "command", "echo"} => heard = <<>> /\ zlook = <<>> /\ written = <<>>
  /\ taking = "no" => zeof = <<>>
  /\ taking \in {"echo", "look", "receive"} => buffered = <<>>
  /\ taking = "echo" => fromShell

(* What is kept back is shorter than the string, by one as soon as          *)
(* something has been written.                                              *)
KeptInv ==
  taking # "over" =>
    /\ zeof = <<>> => zlook = <<>>
    /\ zeof # <<>> => Len(zlook) < Len(zeof)
    /\ zeof # <<>> /\ written # <<>> => Len(zlook) = Len(zeof) - 1

CompleteInv == takeEnd = "complete" => zlook = zeof /\ zeof # <<>>

(* What comes from the shell after the echo of the command.                *)
Rest == remoteFile \o UnixEof \o <<"$">>

EchoInv ==
  taking = "echo" =>
    \/ incoming = <<"a", "nl">> \o Rest /\ returned = FALSE
    \/ incoming = <<"nl">> \o Rest

(* A terminal that shows "nl" as "cr", "nl" never shows the marker if the   *)
(* returns are not dropped.                                                 *)
ReturnsShown ==
  /\ \A i \in 1..Len(heard) : heard[i] = "nl" => i > 1 /\ heard[i - 1] = "cr"
  /\ returned => heard # <<>> /\ heard[Len(heard)] = "cr"

(* Otherwise what was heard is the beginning of what the shell writes.      *)
HeardIs(r) == r \o incoming = Rest /\ Wanted(heard) = Wanted(r)

Hears == taking \in {"look", "receive"} \/ takeEnd = "complete"

HeardInv ==
  fromShell /\ Hears =>
    /\ fCuvar_binary /\ onlcr => ReturnsShown
    /\ ~(fCuvar_binary /\ onlcr) => \E r \in Seq(Characters) : HeardIs(r)

TakeInv ==
  /\ TakeTypeOK /\ PlaceInv /\ KeptInv /\ CompleteInv /\ EchoInv /\ HeardInv
  /\ NothingLost /\ EndNotMissed

-----------------------------------------------------------------------------
(* What belongs to the file *)

LEMMA WantedType ==
  ASSUME NEW s \in Seq(Characters)
  PROVE  Wanted(s) \in Seq(Characters)
  BY WithoutReturnsType DEF Wanted

LEMMA WantedAppend ==
  ASSUME NEW s \in Seq(Characters), NEW c \in Characters
  PROVE  Wanted(Append(s, c)) = IF Drops(c) THEN Wanted(s) ELSE Append(Wanted(s), c)
  BY WithoutReturnsAppend DEF Wanted, Drops

LEMMA WantedConcat ==
  ASSUME NEW s \in Seq(Characters), NEW t \in Seq(Characters)
  PROVE  Wanted(s \o t) = Wanted(s) \o Wanted(t)
  BY WithoutReturnsConcat DEF Wanted

LEMMA WantedNone ==
  ASSUME NEW s \in Seq(Characters), NoReturns(s)
  PROVE  Wanted(s) = s
  BY WithoutReturnsNone DEF Wanted

LEMMA WantedNext ==
  ASSUME TakeTypeOK, NEW c \in Characters, heard' = Append(heard, c),
         fCuvar_binary' = fCuvar_binary
  PROVE  Wanted(heard)' = IF Drops(c) THEN Wanted(heard) ELSE Append(Wanted(heard), c)
<1>1. heard \in Seq(Characters)
  BY DEF TakeTypeOK
<1>2. Wanted(heard)' = Wanted(Append(heard, c))
  BY DEF Wanted
<1> QED  BY <1>1, <1>2, WantedAppend

LEMMA UnixEofFacts ==
  /\ UnixEof \in Seq(Characters) /\ Len(UnixEof) = 3 /\ UnixEof # <<>>
  /\ UnixEof[1] = "nl" /\ UnixEof[2] = "mark" /\ UnixEof[3] = "nl"
  /\ NoReturns(UnixEof)
<1>1. /\ UnixEof \in Seq(Characters) /\ Len(UnixEof) = 3 /\ UnixEof # <<>>
      /\ UnixEof[1] = "nl" /\ UnixEof[2] = "mark" /\ UnixEof[3] = "nl"
  BY DEF UnixEof, Characters
<1>2. \A i \in 1..3 : i = 1 \/ i = 2 \/ i = 3
  OBVIOUS
<1> QED  BY <1>1, <1>2 DEF NoReturns

(* The string that is looked for can be found.                             *)
LEMMA ZeofFacts ==
  ASSUME TakeProper, Given
  PROVE  zeof \in Seq(Characters) /\ NoReturns(zeof) /\ remoteFile \in Seq(Characters)
<1>1. /\ \A f \in Files : f \in Seq(Characters)
      /\ \A e \in Eofreads : e \in Seq(Characters)
  BY TakeAssumption DEF TakeAssumption
<1> QED  BY <1>1, UnixEofFacts DEF Given, TakeProper

LEMMA TakeInvInit == TakeInit => TakeInv
  <1> SUFFICES ASSUME TakeInit  PROVE TakeInv
    OBVIOUS
  <1>1. <<>> \in Seq(Characters) /\ <<>> \o <<>> = <<>>
    OBVIOUS
  <1>2. TakeTypeOK
    BY <1>1 DEF TakeInit, TakeTypeOK
  <1>3. PlaceInv /\ KeptInv /\ CompleteInv /\ EchoInv /\ HeardInv /\ EndNotMissed
    BY DEF TakeInit, PlaceInv, KeptInv, CompleteInv, EchoInv, HeardInv, Hears, EndNotMissed
  <1>4. Wanted(<<>>) = <<>>
    BY WithoutReturnsOfNone DEF Wanted
  <1>5. NothingLost
    BY <1>1, <1>4 DEF TakeInit, NothingLost
  <1> QED  BY <1>2, <1>3, <1>5 DEF TakeInv

-----------------------------------------------------------------------------
(* The steps before the file comes, and those that end the transfer *)

LEMMA OpenTakenStep ==
  ASSUME TakeInv, OpenTaken
  PROVE  TakeInv'
<1>1. /\ taking = "no" /\ remoteFile' \in Files /\ onlcr' \in BOOLEAN
      /\ fromShell' \in BOOLEAN /\ fCuvar_binary' \in BOOLEAN
      /\ zeof' \in IF fromShell' THEN {UnixEof} ELSE Eofreads
      /\ buffered' \in Stale /\ taking' = "command"
      /\ UNCHANGED <<incoming, returned, heard, zlook, written, takeSignal, takeEnd>>
  BY DEF OpenTaken, takeBuffers
<1>2. heard = <<>> /\ zlook = <<>> /\ written = <<>> /\ takeEnd = "none"
  BY <1>1 DEF TakeInv, PlaceInv
<1>3. /\ Files \subseteq Seq(Characters) /\ Stale \subseteq Seq(Characters)
      /\ Eofreads \subseteq Seq(Characters)
  BY TakeAssumption DEF TakeAssumption
<1>4. <<>> \in Seq(Characters) /\ Len(<<>>) = 0 /\ <<>> \o <<>> = <<>>
  OBVIOUS
<1>5. TakeTypeOK'
  <2>1. zeof' \in Seq(Characters)
    BY <1>1, <1>3, UnixEofFacts
  <2> QED  BY <1>1, <1>2, <1>3, <1>4, <2>1 DEF TakeInv, TakeTypeOK
<1>6. PlaceInv'
  BY <1>1, <1>2 DEF PlaceInv, Given
<1>7. KeptInv'
  <2>1. zeof' \in Seq(Characters)
    BY <1>5 DEF TakeTypeOK
  <2>2. zeof' # <<>> => Len(zlook') < Len(zeof')
    BY <1>1, <1>2, <1>4, <2>1
  <2> QED  BY <1>1, <1>2, <2>2 DEF KeptInv
<1>8. CompleteInv' /\ EchoInv' /\ HeardInv' /\ EndNotMissed'
  BY <1>1, <1>2 DEF CompleteInv, EchoInv, HeardInv, Hears, EndNotMissed
<1>9. NothingLost'
  <2>1. Wanted(heard)' = <<>>
    BY <1>1, <1>2, WithoutReturnsOfNone DEF Wanted
  <2> QED  BY <1>1, <1>2, <1>4, <2>1 DEF NothingLost
<1> QED  BY <1>5, <1>6, <1>7, <1>8, <1>9 DEF TakeInv

(* Two sequences of one are a sequence of two.                            *)
LEMMA PairIs ==
  ASSUME NEW S, NEW a \in S, NEW b \in S
  PROVE  <<a>> \o <<b>> = <<a, b>>
<1>1. PICK m : m = <<a>>
  OBVIOUS
<1>2. m \in Seq(S) /\ Len(m) = 1 /\ m[1] = a
  BY <1>1
<1>3. PICK t : t = Append(m, b)
  OBVIOUS
<1>4. t \in Seq(S) /\ Len(t) = 2
  BY <1>2, <1>3
<1>10. t[1] = a /\ t[2] = b
  <2>1. 1 \in 1..Len(m)
    BY <1>2
  <2>2. m \in Seq(S)
    BY <1>2
  <2>3. /\ \A i \in 1.. Len(m) : Append(m, b)[i] = m[i]
        /\ Append(m, b)[Len(m)+1] = b
    BY <2>2, AppendProperties
  <2>4. t[1] = m[1] /\ t[Len(m) + 1] = b
    BY <1>3, <2>1, <2>3
  <2> QED  BY <1>2, <2>4
<1>5. PICK u : u = <<a, b>>
  OBVIOUS
<1>6. u \in Seq(S) /\ Len(u) = 2 /\ u[1] = a /\ u[2] = b
  BY <1>5
<1>7. \A i \in 1..2 : t[i] = u[i]
  <2>1. \A i \in 1..2 : i = 1 \/ i = 2
    OBVIOUS
  <2> QED  BY <1>10, <1>6, <2>1
<1>8. t = u
  BY <1>4, <1>6, <1>7
<1>9. m \o <<b>> = Append(m, b)
  BY <1>2
<1> QED  BY <1>1, <1>3, <1>5, <1>8, <1>9

LEMMA SendCommandStep ==
  ASSUME TakeProper, TakeInv, SendCommand
  PROVE  TakeInv'
<1>1. /\ taking = "command" /\ incoming' = Answer /\ buffered' = <<>> /\ returned' = FALSE
      /\ taking' = IF fromShell THEN "echo" ELSE "look"
      /\ UNCHANGED <<remoteFile, onlcr, fromShell, fCuvar_binary, zeof, heard, zlook, written,
                     takeSignal, takeEnd>>
  BY DEF SendCommand, takeBuffers, takeGiven
<1>2. /\ heard = <<>> /\ zlook = <<>> /\ written = <<>> /\ takeEnd = "none" /\ Given
      /\ TakeTypeOK /\ NothingLost /\ KeptInv
  BY <1>1 DEF TakeInv, PlaceInv
<1>3. zeof \in Seq(Characters) /\ remoteFile \in Seq(Characters)
  BY <1>2, ZeofFacts
<1>4. Answer \in Seq(Characters)
  BY <1>3, UnixEofFacts DEF Answer, Command, Characters
<1>5. TakeTypeOK'
  <2>1. <<>> \in Seq(Characters)
    OBVIOUS
  <2> QED  BY <1>1, <1>2, <1>4, <2>1 DEF TakeTypeOK
<1>6. PlaceInv' /\ KeptInv' /\ CompleteInv'
  BY <1>1, <1>2 DEF PlaceInv, KeptInv, CompleteInv, Given
<1>7. EchoInv'
  <2>1. CASE fromShell
    <3>1. Command \o <<"nl">> = <<"a", "nl">>
      <4>1. "a" \in Characters /\ "nl" \in Characters
        BY DEF Characters
      <4> QED  BY <4>1, PairIs DEF Command
    <3>2. Answer = <<"a", "nl">> \o remoteFile \o UnixEof \o <<"$">>
      BY <2>1, <3>1 DEF Answer
    <3>3. /\ <<"a", "nl">> \in Seq(Characters) /\ <<"$">> \in Seq(Characters)
          /\ UnixEof \in Seq(Characters)
      BY UnixEofFacts DEF Characters
    <3>4. /\ remoteFile \o UnixEof \in Seq(Characters)
          /\ <<"a", "nl">> \o remoteFile \in Seq(Characters)
      BY <1>3, <3>3
    <3>5. /\ (<<"a", "nl">> \o remoteFile) \o UnixEof = <<"a", "nl">> \o (remoteFile \o UnixEof)
          /\ (<<"a", "nl">> \o (remoteFile \o UnixEof)) \o <<"$">> =
               <<"a", "nl">> \o ((remoteFile \o UnixEof) \o <<"$">>)
      BY <1>3, <3>3, <3>4, ConcatAssociative, SMTT(30)
    <3>6. incoming' = <<"a", "nl">> \o Rest /\ Rest' = Rest
      BY <1>1, <3>2, <3>5 DEF Rest
    <3> QED  BY <1>1, <3>6 DEF EchoInv
  <2>2. CASE ~fromShell
    BY <1>1, <2>2 DEF EchoInv
  <2> QED  BY <2>1, <2>2
<1>8. HeardInv' /\ EndNotMissed'
  <2>1. HeardInv'
    BY <1>1, <1>2 DEF HeardInv, Hears
  <2>2. zeof # <<>> => ~Occurs(zeof, <<>>)
    BY <1>3 DEF Occurs
  <2> QED  BY <1>1, <1>2, <2>1, <2>2 DEF EndNotMissed, Occurs
<1>9. NothingLost'
  BY <1>1, <1>2 DEF NothingLost, Wanted
<1> QED  BY <1>5, <1>6, <1>7, <1>8, <1>9 DEF TakeInv

(* The transfer ends in another way than it should.                        *)
LEMMA GivesUpStep ==
  ASSUME TakeInv, EchoTimesOut \/ TakeSeesSignal \/ TakePortFails
  PROVE  TakeInv'
<1>1. /\ taking' = "over" /\ takeEnd' \in {"no echo", "aborted", "disconnected"}
      /\ takeSignal' \in {takeSignal, FALSE}
      /\ UNCHANGED <<remoteFile, onlcr, fromShell, fCuvar_binary, zeof, heard, zlook, written,
                     buffered, incoming, returned>>
  BY DEF EchoTimesOut, TakeSeesSignal, TakePortFails, Ended, takeBuffers, takeGiven, unread
<1>2. TakeTypeOK'
  BY <1>1 DEF TakeInv, TakeTypeOK
<1>3. PlaceInv' /\ KeptInv' /\ CompleteInv' /\ EchoInv' /\ HeardInv'
  BY <1>1 DEF PlaceInv, KeptInv, CompleteInv, EchoInv, HeardInv, Hears
<1>4. NothingLost' /\ EndNotMissed'
  BY <1>1 DEF NothingLost, EndNotMissed
<1> QED  BY <1>2, <1>3, <1>4 DEF TakeInv

LEMMA TakeTimesOutStep ==
  ASSUME TakeInv, TakeTimesOut
  PROVE  TakeInv'
<1>1. /\ taking = "receive" /\ taking' = "over" /\ takeEnd' = "timed out"
      /\ written' = written \o zlook /\ zlook' = <<>>
      /\ UNCHANGED <<remoteFile, onlcr, fromShell, fCuvar_binary, zeof, heard, takeSignal,
                     buffered, incoming, returned>>
  BY DEF TakeTimesOut, Ended, takeGiven, unread
<1>2. TakeTypeOK /\ PlaceInv /\ NothingLost
  BY DEF TakeInv
<1>3. written \o zlook \in Seq(Characters) /\ (written \o zlook) \o <<>> = written \o zlook
  <2>1. written \in Seq(Characters) /\ zlook \in Seq(Characters)
    BY <1>2 DEF TakeTypeOK
  <2>2. written \o zlook \in Seq(Characters)
    BY <2>1
  <2> QED  BY <2>2
<1>4. TakeTypeOK'
  <2>1. <<>> \in Seq(Characters)
    OBVIOUS
  <2>2. written' \in Seq(Characters) /\ zlook' \in Seq(Characters)
    BY <1>1, <1>3, <2>1
  <2> QED  BY <1>1, <1>2, <2>2 DEF TakeTypeOK
<1>5. PlaceInv' /\ KeptInv' /\ CompleteInv' /\ EchoInv' /\ HeardInv' /\ EndNotMissed'
  BY <1>1 DEF PlaceInv, KeptInv, CompleteInv, EchoInv, HeardInv, Hears, EndNotMissed
<1>6. NothingLost'
  <2>1. takeEnd = "none"
    BY <1>1, <1>2 DEF PlaceInv
  <2>2. Wanted(heard)' = Wanted(heard)
    BY <1>1 DEF Wanted
  <2> QED  BY <1>1, <1>2, <1>3, <2>1, <2>2 DEF NothingLost
<1> QED  BY <1>4, <1>5, <1>6 DEF TakeInv

(* A signal comes, or is looked for.                                       *)
LEMMA GoesOnStep ==
  ASSUME TakeInv, TakeSeesNone \/ InterruptTake \/ UNCHANGED takeVars
  PROVE  TakeInv'
<1>1. /\ \/ taking' = taking
         \/ taking = "look" /\ taking' = "receive"
      /\ takeSignal' \in {takeSignal, TRUE}
      /\ UNCHANGED <<remoteFile, onlcr, fromShell, fCuvar_binary, zeof, heard, zlook, written,
                     buffered, incoming, returned, takeEnd>>
  BY DEF TakeSeesNone, InterruptTake, takeBuffers, takeGiven, unread, takeVars
<1>2. TakeTypeOK'
  <2>1. TakeTypeOK
    BY DEF TakeInv
  <2>2. takeSignal' \in BOOLEAN
    BY <1>1, <2>1 DEF TakeTypeOK
  <2>3. taking' \in {"no", "command", "echo", "look", "receive", "over"}
    BY <1>1, <2>1 DEF TakeTypeOK
  <2>4. (Len(zlook) < Len(zeof) \/ zlook = <<>> \/ taking = "over")'
    BY <1>1, <2>1 DEF TakeTypeOK
  <2> QED  BY <1>1, <2>1, <2>2, <2>3, <2>4 DEF TakeTypeOK
<1>3. PlaceInv' /\ KeptInv' /\ CompleteInv'
  BY <1>1 DEF TakeInv, PlaceInv, KeptInv, CompleteInv, Given
<1>4. EchoInv'
  BY <1>1 DEF TakeInv, EchoInv, Rest
<1>5. HeardInv'
  <2>1. Hears' => Hears
    BY <1>1 DEF Hears
  <2>2. ReturnsShown => ReturnsShown'
    BY <1>1 DEF ReturnsShown
  <2>3. ASSUME NEW r \in Seq(Characters), HeardIs(r)
        PROVE  HeardIs(r)'
    BY <1>1, <2>3 DEF HeardIs, Rest, Wanted
  <2> QED  BY <1>1, <2>1, <2>2, <2>3 DEF TakeInv, HeardInv
<1>6. NothingLost' /\ EndNotMissed'
  BY <1>1 DEF TakeInv, NothingLost, EndNotMissed, Wanted, Occurs
<1> QED  BY <1>2, <1>3, <1>4, <1>5, <1>6 DEF TakeInv

-----------------------------------------------------------------------------
(* Sequences that are taken apart *)

LEMMA TakenApart ==
  ASSUME NEW S, NEW s \in Seq(S), s # <<>>
  PROVE  /\ Head(s) \in S /\ Tail(s) \in Seq(S)
         /\ s = <<Head(s)>> \o Tail(s)
         /\ Len(Tail(s)) = Len(s) - 1
<1>1. Head(s) \in S /\ Tail(s) \in Seq(S) /\ Len(Tail(s)) = Len(s) - 1
  BY HeadTailProperties
<1>2. PICK h : h = <<Head(s)>>
  OBVIOUS
<1>3. h \in Seq(S) /\ Len(h) = 1 /\ h[1] = Head(s)
  BY <1>1, <1>2
<1>4. PICK u : u = h \o Tail(s)
  OBVIOUS
<1>5. /\ u \in Seq(S) /\ Len(u) = Len(s)
      /\ \A i \in 1..Len(s) : u[i] = IF i <= 1 THEN h[i] ELSE Tail(s)[i - 1]
  <2>1. PICK v \in Seq(S) : v = Tail(s)
    BY <1>1
  <2>2. /\ u \in Seq(S) /\ Len(u) = Len(h) + Len(v)
        /\ \A i \in 1..Len(h) + Len(v) : u[i] = IF i <= Len(h) THEN h[i] ELSE v[i - Len(h)]
    BY <1>3, <1>4, <2>1, ConcatProperties
  <2>3. Len(h) + Len(v) = Len(s)
    BY <1>1, <1>3, <2>1
  <2> QED  BY <1>3, <2>1, <2>2, <2>3
<1>6. \A i \in 1..Len(s) : u[i] = s[i]
  <2>1. \A i \in 1..Len(Tail(s)) : Tail(s)[i] = s[i + 1]
    BY HeadTailProperties
  <2>2. Head(s) = s[1]
    OBVIOUS
  <2> TAKE i \in 1..Len(s)
  <2>3. CASE i = 1
    BY <1>3, <1>5, <2>2, <2>3
  <2>4. CASE i # 1
    <3>1. PICK j \in 1..Len(Tail(s)) : j = i - 1 /\ j + 1 = i
      BY <1>1, <2>4
    <3> QED  BY <1>5, <2>1, <2>4, <3>1
  <2> QED  BY <2>3, <2>4
<1>7. u = s
  BY <1>5, <1>6
<1> QED  BY <1>1, <1>2, <1>4, <1>7

LEMMA PutTogether ==
  ASSUME NEW S, NEW a \in S, NEW s \in Seq(S)
  PROVE  <<a>> \o s # <<>> /\ Head(<<a>> \o s) = a /\ Tail(<<a>> \o s) = s
<1>1. PICK h : h = <<a>>
  OBVIOUS
<1>2. h \in Seq(S) /\ Len(h) = 1 /\ h[1] = a
  BY <1>1
<1>3. PICK u : u = h \o s
  OBVIOUS
<1>4. /\ u \in Seq(S) /\ Len(u) = Len(s) + 1
      /\ \A i \in 1..Len(s) + 1 : u[i] = IF i <= 1 THEN h[i] ELSE s[i - 1]
  <2>1. /\ h \o s \in Seq(S) /\ Len(h \o s) = Len(h) + Len(s)
        /\ \A i \in 1..Len(h) + Len(s) :
             (h \o s)[i] = IF i <= Len(h) THEN h[i] ELSE s[i - Len(h)]
    BY <1>2, ConcatProperties
  <2>2. Len(h) + Len(s) = Len(s) + 1
    BY <1>2
  <2> QED  BY <1>2, <1>3, <2>1, <2>2
<1>5. u # <<>>
  BY <1>4
<1>6. Head(u) = a
  <2>1. 1 \in 1..Len(s) + 1
    OBVIOUS
  <2>2. u[1] = h[1]
    BY <1>4, <2>1
  <2> QED  BY <1>2, <1>4, <1>5, <2>2
<1>7. Tail(u) = s
  <2>1. /\ Tail(u) \in Seq(S) /\ Len(Tail(u)) = Len(s)
        /\ \A i \in 1..Len(s) : Tail(u)[i] = u[i + 1]
    BY <1>4, <1>5, HeadTailProperties
  <2>2. ASSUME NEW i \in 1..Len(s)
        PROVE  u[i + 1] = s[i]
    <3>1. PICK j \in 1..Len(s) + 1 : j = i + 1 /\ j - 1 = i
      OBVIOUS
    <3> QED  BY <1>4, <3>1
  <2> QED  BY <2>1, <2>2
<1> QED  BY <1>1, <1>3, <1>5, <1>6, <1>7

(* A string that was not in what was received and is in it with one        *)
(* character more ends with that character.                                *)
LEMMA OccursNext ==
  ASSUME NEW s \in Seq(Characters), NEW t \in Seq(Characters), NEW c \in Characters,
         s # <<>>, ~Occurs(s, t), Occurs(s, Append(t, c))
  PROVE  s[Len(s)] = c /\ \E a \in Seq(Characters) : Append(t, c) = a \o s
<1>1. PICK u : u = Append(t, c)
  OBVIOUS
<1>2. /\ u \in Seq(Characters) /\ Len(u) = Len(t) + 1 /\ u[Len(t) + 1] = c
      /\ \A i \in 1..Len(t) : u[i] = t[i]
  BY <1>1
<1>3. PICK n \in Nat, k \in Nat : n = Len(s) /\ k = Len(t) /\ n > 0
  OBVIOUS
<1>4. PICK i \in Nat : i + n <= k + 1 /\ SubSeq(u, i + 1, i + n) = s
  <2>1. PICK i \in 0..Len(u) - Len(s) : SubSeq(u, i + 1, i + Len(s)) = s
    BY <1>1, Zenon DEF Occurs
  <2>2. i \in Nat /\ i + n <= k + 1
    BY <1>2, <1>3
  <2>3. SubSeq(u, i + 1, i + n) = s
    BY <1>3, <2>1
  <2> QED  BY <2>2, <2>3
<1>5. \A j \in 1..n : u[i + j] = s[j]
  <2>1. \A j \in i + 1..i + n : u[j] \in Characters
    BY <1>2, <1>3, <1>4
  <2>2. \A j \in 1..n : SubSeq(u, i + 1, i + n)[j] = u[(i + 1) + j - 1]
    <3>1. PICK m1 \in Int, m2 \in Int : m1 = i + 1 /\ m2 = i + n /\ m2 - m1 + 1 = n
      BY <1>3
    <3>2. \A j \in m1..m2 : u[j] \in Characters
      BY <2>1, <3>1
    <3>3. \A j \in 1..m2 - m1 + 1 : SubSeq(u, m1, m2)[j] = u[m1 + j - 1]
      BY <3>2, SubSeqProperties
    <3> QED  BY <3>1, <3>3
  <2>3. \A j \in 1..n : (i + 1) + j - 1 = i + j
    BY <1>3
  <2> QED  BY <1>4, <2>2, <2>3
<1>6. i + n = k + 1
  <2> SUFFICES ASSUME i + n <= k  PROVE FALSE
    BY <1>3, <1>4
  <2>1. PICK v : v = SubSeq(t, i + 1, i + n)
    OBVIOUS
  <2>2. \A j \in i + 1..i + n : t[j] \in Characters
    BY <1>3
  <2>3. /\ v \in Seq(Characters) /\ Len(v) = n
        /\ \A j \in 1..n : v[j] = t[(i + 1) + j - 1]
    <3>1. PICK m1 \in Int, m2 \in Int : m1 = i + 1 /\ m2 = i + n /\ m2 - m1 + 1 = n /\ m1 <= m2
      BY <1>3
    <3>2. \A j \in m1..m2 : t[j] \in Characters
      BY <2>2, <3>1
    <3>3. /\ SubSeq(t, m1, m2) \in Seq(Characters)
          /\ Len(SubSeq(t, m1, m2)) = IF m1 <= m2 THEN m2 - m1 + 1 ELSE 0
          /\ \A j \in 1..m2 - m1 + 1 : SubSeq(t, m1, m2)[j] = t[m1 + j - 1]
      BY <3>2, SubSeqProperties
    <3> QED  BY <2>1, <3>1, <3>3
  <2>4. ASSUME NEW j \in 1..n
        PROVE  v[j] = s[j]
    <3>1. PICK p \in 1..k : p = i + j /\ (i + 1) + j - 1 = p
      BY <1>3
    <3>2. u[p] = t[p]
      BY <1>2, <1>3
    <3> QED  BY <1>5, <2>3, <3>1, <3>2
  <2>5. v = s
    BY <1>3, <2>3, <2>4
  <2>6. i \in 0..Len(t) - Len(s)
    BY <1>3
  <2>7. SubSeq(t, i + 1, i + Len(s)) = s
    BY <1>3, <2>1, <2>5
  <2> QED  BY <2>6, <2>7, Zenon DEF Occurs
<1>7. s[n] = c
  <2>1. n \in 1..n
    BY <1>3
  <2> QED  BY <1>2, <1>3, <1>5, <1>6, <2>1
<1>8. PICK a : a = SubSeq(u, 1, i)
  OBVIOUS
<1>9. a \in Seq(Characters) /\ Len(a) = i /\ \A j \in 1..i : a[j] = u[j]
  <2>1. i <= Len(u)
    BY <1>2, <1>3, <1>6
  <2> QED  BY <1>2, <1>8, <2>1
<1>10. PICK w : w = a \o s
  OBVIOUS
<1>11. /\ w \in Seq(Characters) /\ Len(w) = i + n
       /\ \A j \in 1..i + n : w[j] = IF j <= i THEN a[j] ELSE s[j - i]
  <2>1. /\ w \in Seq(Characters) /\ Len(w) = Len(a) + Len(s)
        /\ \A j \in 1..Len(a) + Len(s) : w[j] = IF j <= Len(a) THEN a[j] ELSE s[j - Len(a)]
    BY <1>9, <1>10, ConcatProperties
  <2> QED  BY <1>3, <1>9, <2>1
<1>12. ASSUME NEW j \in 1..i + n
       PROVE  w[j] = u[j]
  <2>1. CASE j <= i
    BY <1>9, <1>11, <2>1
  <2>2. CASE ~(j <= i)
    <3>1. PICK q \in 1..n : q = j - i /\ i + q = j
      BY <1>3, <2>2
    <3> QED  BY <1>5, <1>11, <2>2, <3>1
  <2> QED  BY <2>1, <2>2
<1>13. w = u
  <2>1. Len(w) = Len(u)
    BY <1>2, <1>3, <1>6, <1>11
  <2>2. \A j \in 1..Len(w) : w[j] = u[j]
    BY <1>11, <1>12
  <2> QED  BY <1>2, <1>11, <2>1, <2>2, SeqEqual, Zenon
<1> QED  BY <1>1, <1>3, <1>7, <1>9, <1>10, <1>13

-----------------------------------------------------------------------------
(* The steps that receive a character *)

(* When the buffer is empty, it comes from the remote terminal.            *)
LEMMA ReceivedFromTerminal ==
  ASSUME incoming \in Seq(Characters), returned \in BOOLEAN, onlcr \in BOOLEAN,
         buffered = <<>>, NEW c \in Characters, Received(c)
  PROVE  /\ buffered' = <<>> /\ incoming' \in Seq(Characters) /\ returned' \in BOOLEAN
         /\ \/ /\ onlcr /\ ~returned /\ returned' = TRUE /\ c = "cr"
               /\ incoming # <<>> /\ Head(incoming) = "nl" /\ incoming' = incoming
            \/ /\ returned' = FALSE /\ (onlcr /\ c = "nl" => returned = TRUE)
               /\ incoming # <<>> /\ c = Head(incoming)
               /\ incoming' = Tail(incoming) /\ incoming = <<c>> \o incoming'
<1>1. /\ incoming # <<>> /\ buffered' = buffered
      /\ returned' = (onlcr /\ Head(incoming) = "nl" /\ ~returned)
      /\ IF returned' THEN c = "cr" /\ incoming' = incoming
         ELSE c = Head(incoming) /\ incoming' = Tail(incoming)
  BY DEF Received
<1>2. /\ Tail(incoming) \in Seq(Characters)
      /\ incoming = <<Head(incoming)>> \o Tail(incoming)
  BY <1>1, TakenApart
<1>3. returned' \in BOOLEAN
  BY <1>1
<1>4. CASE returned'
  BY <1>1, <1>3, <1>4
<1>5. CASE ~returned'
  BY <1>1, <1>2, <1>3, <1>5
<1> QED  BY <1>4, <1>5

LEMMA SkipEchoStep ==
  ASSUME TakeProper, TakeInv, SkipEcho
  PROVE  TakeInv'
<1>1. PICK c \in Characters : Received(c) /\ taking' = IF c = "nl" THEN "look" ELSE "echo"
  BY DEF SkipEcho
<1>2. /\ taking = "echo"
      /\ UNCHANGED <<remoteFile, onlcr, fromShell, fCuvar_binary, zeof, heard, zlook, written,
                     takeSignal, takeEnd>>
  BY DEF SkipEcho, takeBuffers, takeGiven
<1>3. /\ TakeTypeOK /\ NothingLost /\ KeptInv /\ Given /\ fromShell /\ takeEnd = "none"
      /\ heard = <<>> /\ zlook = <<>> /\ written = <<>> /\ buffered = <<>> /\ EchoInv
  BY <1>2 DEF TakeInv, PlaceInv
<1>4. /\ buffered' = <<>> /\ incoming' \in Seq(Characters) /\ returned' \in BOOLEAN
      /\ \/ /\ returned' = TRUE /\ c = "cr"
            /\ incoming # <<>> /\ Head(incoming) = "nl" /\ incoming' = incoming
         \/ /\ returned' = FALSE
            /\ incoming # <<>> /\ c = Head(incoming) /\ incoming' = Tail(incoming)
  BY <1>1, <1>3, ReceivedFromTerminal DEF TakeTypeOK
<1>5. remoteFile \in Seq(Characters) /\ zeof \in Seq(Characters)
  BY <1>3, ZeofFacts
<1>6. /\ "a" \in Characters /\ "nl" \in Characters
      /\ <<"a">> \in Seq(Characters) /\ <<"nl">> \in Seq(Characters) /\ <<"$">> \in Seq(Characters)
  BY DEF Characters
<1>7. Rest \in Seq(Characters) /\ Rest' = Rest
  <2>1. remoteFile \o UnixEof \in Seq(Characters)
    BY <1>5, UnixEofFacts
  <2> QED  BY <1>2, <1>6, <2>1 DEF Rest
<1>8. /\ Head(<<"nl">> \o Rest) = "nl" /\ Tail(<<"nl">> \o Rest) = Rest
      /\ <<"nl">> \o Rest \in Seq(Characters)
  BY <1>6, <1>7, PutTogether
<1>9. /\ Head(<<"a", "nl">> \o Rest) = "a"
      /\ Tail(<<"a", "nl">> \o Rest) = <<"nl">> \o Rest
  <2>1. <<"a">> \o <<"nl">> = <<"a", "nl">>
    BY <1>6, PairIs
  <2>2. (<<"a">> \o <<"nl">>) \o Rest = <<"a">> \o (<<"nl">> \o Rest)
    BY <1>6, <1>7, ConcatAssociative
  <2>3. /\ Head(<<"a">> \o (<<"nl">> \o Rest)) = "a"
        /\ Tail(<<"a">> \o (<<"nl">> \o Rest)) = <<"nl">> \o Rest
    BY <1>6, <1>8, PutTogether
  <2> QED  BY <2>1, <2>2, <2>3
<1>10. \/ c # "nl" /\ incoming' = <<"nl">> \o Rest
       \/ c = "nl" /\ incoming' = Rest /\ returned' = FALSE
  <2>1. CASE incoming = <<"a", "nl">> \o Rest
    <3>1. Head(incoming) = "a" /\ Tail(incoming) = <<"nl">> \o Rest
      BY <1>9, <2>1
    <3> QED  BY <1>4, <3>1
  <2>2. CASE incoming = <<"nl">> \o Rest
    <3>1. Head(incoming) = "nl" /\ Tail(incoming) = Rest
      BY <1>8, <2>2
    <3> QED  BY <1>4, <2>2, <3>1
  <2> QED  BY <1>2, <1>3, <2>1, <2>2 DEF EchoInv
<1>11. taking' \in {"echo", "look"} /\ (taking' = "look" <=> c = "nl")
  BY <1>1
<1>12. TakeTypeOK'
  <2>1. <<>> \in Seq(Characters)
    OBVIOUS
  <2>2. taking' \in {"no", "command", "echo", "look", "receive", "over"}
    BY <1>11
  <2> QED  BY <1>2, <1>3, <1>4, <2>1, <2>2 DEF TakeTypeOK
<1>13. PlaceInv' /\ KeptInv' /\ CompleteInv'
  BY <1>2, <1>3, <1>4, <1>11 DEF PlaceInv, KeptInv, CompleteInv, Given
<1>14. EchoInv'
  BY <1>7, <1>10, <1>11 DEF EchoInv
<1>15. HeardInv'
  <2>1. CASE c # "nl"
    <3>1. ~Hears'
      BY <1>2, <1>3, <1>11, <2>1 DEF Hears
    <3> QED  BY <3>1 DEF HeardInv
  <2>2. CASE c = "nl"
    <3>1. returned' = FALSE /\ incoming' = Rest /\ heard' = <<>>
      BY <1>2, <1>3, <1>10, <2>2
    <3>2. <<>> \o Rest = Rest /\ <<>> \in Seq(Characters)
      BY <1>7
    <3>3. HeardIs(<<>>)'
      BY <1>7, <3>1, <3>2 DEF HeardIs, Wanted
    <3>4. ReturnsShown'
      BY <3>1 DEF ReturnsShown
    <3> QED  BY <3>2, <3>3, <3>4 DEF HeardInv
  <2> QED  BY <2>1, <2>2
<1>16. NothingLost'
  BY <1>2, <1>3 DEF NothingLost, Wanted
<1>17. EndNotMissed'
  <2>1. zeof # <<>> => ~Occurs(zeof, <<>>)
    BY <1>5 DEF Occurs
  <2>2. ~Occurs(zeof, <<>>) => ~Occurs(zeof', heard')
    BY <1>2, <1>3
  <2> QED  BY <1>2, <2>1, <2>2 DEF EndNotMissed, Occurs
<1> QED  BY <1>12, <1>13, <1>14, <1>15, <1>16, <1>17 DEF TakeInv

(* What was heard keeps being what the shell writes.                       *)
LEMMA HeardStep ==
  ASSUME TakeProper, TakeInv, taking = "receive", NEW c \in Characters, Received(c),
         heard' = Append(heard, c),
         UNCHANGED <<remoteFile, onlcr, fromShell, fCuvar_binary, zeof>>
  PROVE  HeardInv'
<1>1. TakeTypeOK /\ PlaceInv /\ HeardInv /\ Given /\ buffered = <<>>
  BY DEF TakeInv, PlaceInv
<1>2. /\ incoming \in Seq(Characters) /\ heard \in Seq(Characters)
      /\ onlcr \in BOOLEAN /\ returned \in BOOLEAN /\ fCuvar_binary \in BOOLEAN
  BY <1>1 DEF TakeTypeOK
<1>3. /\ incoming' \in Seq(Characters)
      /\ \/ onlcr /\ ~returned /\ returned' = TRUE /\ c = "cr" /\ incoming' = incoming
         \/ /\ returned' = FALSE /\ (onlcr /\ c = "nl" => returned = TRUE)
            /\ incoming = <<c>> \o incoming'
  BY <1>1, <1>2, ReceivedFromTerminal
<1>4. ASSUME fromShell, fCuvar_binary, onlcr
      PROVE  ReturnsShown'
  <2>1. ReturnsShown
    BY <1>1, <1>4 DEF HeardInv, Hears
  <2>2. PICK u : u = Append(heard, c)
    OBVIOUS
  <2>3. PICK n \in Nat : n = Len(heard)
    BY <1>2
  <2>4. /\ Len(u) = n + 1 /\ u[n + 1] = c /\ u # <<>>
        /\ \A i \in 1..n : u[i] = heard[i]
    BY <1>2, <2>2, <2>3, AppendProperties, SMTT(30)
  <2>5. ASSUME NEW i \in 1..n + 1, u[i] = "nl"
        PROVE  i > 1 /\ u[i - 1] = "cr"
    <3>1. CASE i \in 1..n
      <4>1. heard[i] = "nl"
        BY <2>4, <2>5, <3>1
      <4>2. i > 1 /\ heard[i - 1] = "cr"
        BY <2>1, <2>3, <3>1, <4>1 DEF ReturnsShown
      <4>3. i - 1 \in 1..n
        BY <3>1, <4>2
      <4> QED  BY <2>4, <4>2, <4>3
    <3>2. CASE i = n + 1
      <4>1. c = "nl"
        BY <2>4, <2>5, <3>2
      <4>2. returned
        BY <1>3, <1>4, <4>1
      <4>3. heard # <<>> /\ heard[n] = "cr"
        BY <2>1, <2>3, <4>2 DEF ReturnsShown
      <4>4. n > 0
        BY <1>2, <2>3, <4>3
      <4> QED  BY <2>4, <3>2, <4>3, <4>4
    <3> QED  BY <3>1, <3>2
  <2>6. returned' => c = "cr"
    BY <1>3
  <2> QED  BY <2>2, <2>4, <2>5, <2>6 DEF ReturnsShown
<1>5. ASSUME fromShell, ~(fCuvar_binary /\ onlcr)
      PROVE  \E r \in Seq(Characters) : HeardIs(r)'
  <2>1. PICK r \in Seq(Characters) : HeardIs(r)
    BY <1>1, <1>5 DEF HeardInv, Hears
  <2>2. r \o incoming = Rest /\ Rest' = Rest /\ Wanted(heard) = Wanted(r)
    BY <2>1 DEF HeardIs, Rest
  <2>3. Wanted(heard)' = IF Drops(c) THEN Wanted(heard) ELSE Append(Wanted(heard), c)
    BY <1>1, WantedNext
  <2>4. CASE c = "cr" /\ onlcr /\ incoming' = incoming
    <3>1. Drops(c)
      BY <1>2, <1>5, <2>4 DEF Drops
    <3>2. Wanted(heard)' = Wanted(r)'
      BY <2>2, <2>3, <3>1 DEF Wanted
    <3>3. HeardIs(r)'
      BY <2>2, <2>4, <3>2 DEF HeardIs
    <3> QED  BY <3>3
  <2>5. CASE incoming = <<c>> \o incoming'
    <3>1. PICK s : s = Append(r, c)
      OBVIOUS
    <3>2. /\ Append(r, c) = r \o <<c>> /\ s \in Seq(Characters)
          /\ <<c>> \in Seq(Characters)
      BY <3>1, AppendIsConcat
    <3>3. (r \o <<c>>) \o incoming' = r \o (<<c>> \o incoming')
      BY <1>3, <3>2, ConcatAssociative
    <3>4. s \o incoming' = Rest'
      BY <2>2, <2>5, <3>1, <3>2, <3>3
    <3>5. Wanted(s) = IF Drops(c) THEN Wanted(r) ELSE Append(Wanted(r), c)
      BY <3>1, WantedAppend
    <3>6. Wanted(s)' = Wanted(s)
      BY DEF Wanted
    <3>7. HeardIs(s)'
      BY <2>2, <2>3, <3>4, <3>5, <3>6 DEF HeardIs
    <3> QED  BY <3>2, <3>7
  <2> QED  BY <1>3, <2>4, <2>5
<1> QED  BY <1>4, <1>5 DEF HeardInv

(* The string that ends the file is not missed: had it come, it would have *)
(* been what is kept back.                                                 *)
LEMMA NotMissedStep ==
  ASSUME TakeProper, TakeInv, taking = "receive", NEW c \in Characters,
         heard' = Append(heard, c), zeof' = zeof, zeof # <<>>,
         Occurs(zeof, heard')
  PROVE  ~Drops(c) /\ Append(zlook, c) = zeof
<1>1. /\ TakeTypeOK /\ PlaceInv /\ KeptInv /\ Given /\ NothingLost /\ takeEnd = "none"
      /\ ~Occurs(zeof, heard)
  BY DEF TakeInv, PlaceInv, EndNotMissed
<1>2. /\ heard \in Seq(Characters) /\ zlook \in Seq(Characters)
      /\ written \in Seq(Characters)
  BY <1>1 DEF TakeTypeOK
<1>3. zeof \in Seq(Characters) /\ NoReturns(zeof)
  BY <1>1, ZeofFacts
<1>4. Occurs(zeof, Append(heard, c))
  BY DEF Occurs
<1>5. /\ zeof[Len(zeof)] = c
      /\ \E a \in Seq(Characters) : Append(heard, c) = a \o zeof
  BY <1>1, <1>2, <1>3, <1>4, OccursNext
<1>6. PICK a \in Seq(Characters) : Append(heard, c) = a \o zeof
  BY <1>5
<1>7. ~Drops(c)
  <2>1. Len(zeof) \in 1..Len(zeof)
    BY <1>3
  <2> QED  BY <1>3, <1>5, <2>1 DEF NoReturns, Drops
<1>8. Append(Wanted(heard), c) = Wanted(a) \o zeof
  <2>1. Wanted(Append(heard, c)) = Append(Wanted(heard), c)
    BY <1>2, <1>7, WantedAppend
  <2>2. Wanted(a \o zeof) = Wanted(a) \o Wanted(zeof)
    BY <1>3, WantedConcat
  <2>3. Wanted(zeof) = zeof
    BY <1>3, WantedNone
  <2> QED  BY <1>6, <2>1, <2>2, <2>3
<1>9. PICK k : k = Append(zlook, c)
  OBVIOUS
<1>10. k \in Seq(Characters) /\ Len(k) = Len(zlook) + 1
  BY <1>2, <1>9
<1>11. PICK b : b = Wanted(a)
  OBVIOUS
<1>12. b \in Seq(Characters)
  BY <1>11, WantedType
<1>13. written \o k = b \o zeof
  <2>1. written \o zlook = Wanted(heard)
    BY <1>1 DEF NothingLost
  <2>2. written \o Append(zlook, c) = Append(written \o zlook, c)
    BY <1>2
  <2> QED  BY <1>8, <1>9, <1>11, <2>1, <2>2
<1>14. /\ Len(k) <= Len(zeof)
       /\ written # <<>> => Len(k) = Len(zeof)
  <2>1. /\ Len(zlook) < Len(zeof)
        /\ written # <<>> => Len(zlook) = Len(zeof) - 1
    BY <1>1 DEF KeptInv
  <2> QED  BY <1>2, <1>3, <1>10, <2>1
<1>15. Len(written) + Len(k) = Len(b) + Len(zeof)
  <2>1. /\ Len(written \o k) = Len(written) + Len(k)
        /\ Len(b \o zeof) = Len(b) + Len(zeof)
    BY <1>2, <1>3, <1>10, <1>12, ConcatProperties
  <2> QED  BY <1>13, <2>1
<1>16. Len(k) = Len(zeof) /\ Len(written) = Len(b)
  <2>1. CASE written = <<>>
    <3>1. Len(written) = 0
      BY <2>1
    <3> QED  BY <1>3, <1>10, <1>12, <1>14, <1>15, <3>1
  <2>2. CASE written # <<>>
    BY <1>2, <1>3, <1>10, <1>12, <1>14, <1>15, <2>2
  <2> QED  BY <2>1, <2>2
<1>17. ASSUME NEW i \in 1..Len(zeof)
       PROVE  k[i] = zeof[i]
  <2>1. PICK n \in Nat, m \in Nat : n = Len(written) /\ n = Len(b) /\ m = Len(k) /\ m = Len(zeof)
    BY <1>2, <1>3, <1>16
  <2>2. /\ \A j \in 1..n + m : (written \o k)[j] = IF j <= n THEN written[j] ELSE k[j - n]
        /\ \A j \in 1..n + m : (b \o zeof)[j] = IF j <= n THEN b[j] ELSE zeof[j - n]
    <3>1. \A j \in 1..Len(written) + Len(k) :
            (written \o k)[j] = IF j <= Len(written) THEN written[j] ELSE k[j - Len(written)]
      BY <1>2, <1>10, ConcatProperties
    <3>2. \A j \in 1..Len(b) + Len(zeof) :
            (b \o zeof)[j] = IF j <= Len(b) THEN b[j] ELSE zeof[j - Len(b)]
      BY <1>3, <1>12, ConcatProperties
    <3> QED  BY <2>1, <3>1, <3>2
  <2>3. PICK j \in 1..n + m : j - n = i /\ ~(j <= n)
    BY <2>1
  <2> QED  BY <1>13, <2>2, <2>3
<1>18. k = zeof
  BY <1>3, <1>10, <1>16, <1>17
<1> QED  BY <1>7, <1>9, <1>18

LEMMA DropReturnStep ==
  ASSUME TakeProper, TakeInv, DropReturn
  PROVE  TakeInv'
<1>1. PICK c \in Characters : Received(c) /\ Drops(c) /\ heard' = Append(heard, c)
  BY DEF DropReturn
<1>2. /\ taking = "receive" /\ taking' = "look"
      /\ UNCHANGED <<remoteFile, onlcr, fromShell, fCuvar_binary, zeof, zlook, written,
                     takeSignal, takeEnd>>
  BY DEF DropReturn, takeGiven
<1>3. /\ TakeTypeOK /\ PlaceInv /\ KeptInv /\ NothingLost /\ Given /\ takeEnd = "none"
      /\ buffered = <<>>
  BY <1>2 DEF TakeInv, PlaceInv
<1>4. buffered' = <<>> /\ incoming' \in Seq(Characters) /\ returned' \in BOOLEAN
  BY <1>1, <1>3, ReceivedFromTerminal DEF TakeTypeOK
<1>5. TakeTypeOK'
  <2>1. Append(heard, c) \in Seq(Characters) /\ <<>> \in Seq(Characters)
    BY <1>3 DEF TakeTypeOK
  <2>2. (Len(zlook) < Len(zeof) \/ zlook = <<>> \/ taking = "over")'
    BY <1>2, <1>3 DEF TakeTypeOK
  <2> QED  BY <1>1, <1>2, <1>3, <1>4, <2>1, <2>2 DEF TakeTypeOK
<1>6. PlaceInv' /\ KeptInv' /\ CompleteInv' /\ EchoInv'
  BY <1>2, <1>3, <1>4 DEF PlaceInv, KeptInv, CompleteInv, EchoInv, Given
<1>7. HeardInv'
  BY <1>1, <1>2, HeardStep
<1>8. NothingLost'
  <2>1. Wanted(heard)' = Wanted(heard)
    BY <1>1, <1>2, <1>3, WantedNext
  <2> QED  BY <1>2, <1>3, <2>1 DEF NothingLost
<1>9. EndNotMissed'
  BY <1>1, <1>2, NotMissedStep DEF EndNotMissed, Occurs
<1> QED  BY <1>5, <1>6, <1>7, <1>8, <1>9 DEF TakeInv

LEMMA WriteCharacterStep ==
  ASSUME TakeProper, TakeInv, WriteCharacter
  PROVE  TakeInv'
<1>1. PICK c \in Characters :
        /\ Received(c) /\ ~Drops(c) /\ heard' = Append(heard, c)
        /\ written' = Append(written, IF LittleEndian THEN c ELSE "nul")
  BY DEF WriteCharacter
<1>2. /\ taking = "receive" /\ taking' = "look" /\ zeof = <<>>
      /\ UNCHANGED <<remoteFile, onlcr, fromShell, fCuvar_binary, zeof, zlook,
                     takeSignal, takeEnd>>
  BY DEF WriteCharacter, takeGiven
<1>3. /\ TakeTypeOK /\ PlaceInv /\ KeptInv /\ NothingLost /\ Given /\ takeEnd = "none"
      /\ buffered = <<>> /\ zlook = <<>>
  BY <1>2 DEF TakeInv, PlaceInv, KeptInv
<1>4. buffered' = <<>> /\ incoming' \in Seq(Characters) /\ returned' \in BOOLEAN
  BY <1>1, <1>3, ReceivedFromTerminal DEF TakeTypeOK
<1>5. ~fromShell /\ LittleEndian = TRUE
  BY <1>2, <1>3, UnixEofFacts DEF Given, TakeProper
<1>6. written' = Append(written, c)
  BY <1>1, <1>5
<1>7. TakeTypeOK'
  <2>1. /\ Append(heard, c) \in Seq(Characters) /\ Append(written, c) \in Seq(Characters)
        /\ <<>> \in Seq(Characters)
    BY <1>3 DEF TakeTypeOK
  <2>2. (Len(zlook) < Len(zeof) \/ zlook = <<>> \/ taking = "over")'
    BY <1>2, <1>3
  <2> QED  BY <1>1, <1>2, <1>3, <1>4, <1>6, <2>1, <2>2 DEF TakeTypeOK
<1>8. PlaceInv' /\ KeptInv' /\ CompleteInv' /\ EchoInv'
  BY <1>2, <1>3, <1>4 DEF PlaceInv, KeptInv, CompleteInv, EchoInv, Given
<1>9. HeardInv'
  BY <1>1, <1>2, HeardStep
<1>10. NothingLost'
  <2>1. Wanted(heard)' = Append(Wanted(heard), c)
    BY <1>1, <1>2, <1>3, WantedNext
  <2>2. written \o <<>> = Wanted(heard)
    BY <1>3 DEF NothingLost
  <2>3. written \in Seq(Characters)
    BY <1>3 DEF TakeTypeOK
  <2>4. written \o <<>> = written /\ Append(written, c) \o <<>> = Append(written, c)
    BY <2>3
  <2>5. written' \o zlook' = Wanted(heard)'
    BY <1>2, <1>3, <1>6, <2>1, <2>2, <2>4
  <2> QED  BY <2>5 DEF NothingLost
<1>11. EndNotMissed'
  BY <1>2 DEF EndNotMissed
<1> QED  BY <1>7, <1>8, <1>9, <1>10, <1>11 DEF TakeInv

LEMMA WriteFailsStep ==
  ASSUME TakeInv, WriteFails
  PROVE  TakeInv'
<1>1. PICK c \in Characters :
        /\ Received(c) /\ heard' = Append(heard, c)
        /\ zlook' = IF zeof = <<>> THEN zlook ELSE Append(zlook, c)
  BY DEF WriteFails
<1>2. /\ taking = "receive" /\ taking' = "over" /\ takeEnd' = "write error"
      /\ UNCHANGED <<remoteFile, onlcr, fromShell, fCuvar_binary, zeof, written, takeSignal>>
  BY DEF WriteFails, Ended, takeGiven
<1>3. TakeTypeOK /\ PlaceInv /\ buffered = <<>>
  BY <1>2 DEF TakeInv, PlaceInv
<1>4. buffered' = <<>> /\ incoming' \in Seq(Characters) /\ returned' \in BOOLEAN
  BY <1>1, <1>3, ReceivedFromTerminal DEF TakeTypeOK
<1>5. TakeTypeOK'
  <2>0. heard \in Seq(Characters) /\ zlook \in Seq(Characters)
    BY <1>3 DEF TakeTypeOK
  <2>1. /\ Append(heard, c) \in Seq(Characters) /\ Append(zlook, c) \in Seq(Characters)
        /\ zlook \in Seq(Characters) /\ <<>> \in Seq(Characters)
    BY <2>0
  <2>2. zlook' \in Seq(Characters) /\ heard' \in Seq(Characters)
    BY <1>1, <2>1
  <2> QED  BY <1>2, <1>3, <1>4, <2>1, <2>2 DEF TakeTypeOK
<1>6. PlaceInv' /\ KeptInv' /\ CompleteInv' /\ EchoInv' /\ HeardInv'
  BY <1>2 DEF PlaceInv, KeptInv, CompleteInv, EchoInv, HeardInv, Hears
<1>7. NothingLost' /\ EndNotMissed'
  BY <1>2 DEF NothingLost, EndNotMissed
<1> QED  BY <1>5, <1>6, <1>7 DEF TakeInv

LEMMA LookStep ==
  ASSUME TakeProper, TakeInv, Look
  PROVE  TakeInv'
<1>1. /\ taking = "receive" /\ zeof # <<>>
      /\ UNCHANGED <<remoteFile, onlcr, fromShell, fCuvar_binary, zeof, takeSignal>>
  BY DEF Look, takeGiven
<1>2. PICK c \in Characters :
        /\ Received(c) /\ ~Drops(c) /\ heard' = Append(heard, c)
        /\ \/ /\ Append(zlook, c) = zeof /\ zlook' = Append(zlook, c) /\ written' = written
              /\ taking' = "over" /\ takeEnd' = "complete"
           \/ /\ Append(zlook, c) # zeof /\ Len(Append(zlook, c)) = Len(zeof)
              /\ written' = Append(written, Head(Append(zlook, c)))
              /\ zlook' = Tail(Append(zlook, c))
              /\ taking' = "look" /\ takeEnd' = takeEnd
           \/ /\ Append(zlook, c) # zeof /\ Len(Append(zlook, c)) # Len(zeof)
              /\ zlook' = Append(zlook, c) /\ written' = written
              /\ taking' = "look" /\ takeEnd' = takeEnd
  BY DEF Look, Ended
<1>3. PICK k : k = Append(zlook, c)
  OBVIOUS
<1>4. /\ TakeTypeOK /\ PlaceInv /\ KeptInv /\ NothingLost /\ Given /\ takeEnd = "none"
      /\ buffered = <<>>
  BY <1>1 DEF TakeInv, PlaceInv
<1>5. buffered' = <<>> /\ incoming' \in Seq(Characters) /\ returned' \in BOOLEAN
  BY <1>2, <1>4, ReceivedFromTerminal DEF TakeTypeOK
<1>6. /\ heard \in Seq(Characters) /\ zlook \in Seq(Characters)
      /\ written \in Seq(Characters) /\ zeof \in Seq(Characters)
  BY <1>4 DEF TakeTypeOK
<1>7. /\ k \in Seq(Characters) /\ Len(k) = Len(zlook) + 1 /\ k # <<>>
      /\ Append(heard, c) \in Seq(Characters) /\ <<>> \in Seq(Characters)
  <2>1. k \in Seq(Characters) /\ Len(k) = Len(zlook) + 1 /\ k # <<>>
    BY <1>3, <1>6, AppendProperties
  <2>2. Append(heard, c) \in Seq(Characters) /\ <<>> \in Seq(Characters)
    BY <1>6
  <2> QED  BY <2>1, <2>2
<1>8. /\ Len(zlook) < Len(zeof)
      /\ written # <<>> => Len(zlook) = Len(zeof) - 1
  BY <1>1, <1>4 DEF KeptInv
<1>9. written \o k = Wanted(heard)'
  <2>1. Wanted(heard)' = Append(Wanted(heard), c)
    BY <1>1, <1>2, <1>4, WantedNext
  <2>2. written \o zlook = Wanted(heard)
    BY <1>4 DEF NothingLost
  <2>3. written \o Append(zlook, c) = Append(written \o zlook, c)
    BY <1>6
  <2> QED  BY <1>3, <2>1, <2>2, <2>3
<1>10. HeardInv'
  BY <1>1, <1>2, HeardStep
<1>11. Append(zlook, c) # zeof => ~Occurs(zeof', heard')
  <2>1. zeof' = zeof => (Occurs(zeof, heard') <=> Occurs(zeof', heard'))
    OBVIOUS
  <2> QED  BY <1>1, <1>2, <2>1, NotMissedStep
<1>12. Given'
  BY <1>1, <1>4 DEF Given
<1>13. CASE /\ zlook' = k /\ written' = written /\ taking' = "over" /\ takeEnd' = "complete"
            /\ k = zeof
  <2>1. TakeTypeOK'
    BY <1>1, <1>2, <1>4, <1>5, <1>7, <1>13 DEF TakeTypeOK
  <2>2. PlaceInv' /\ KeptInv' /\ CompleteInv' /\ EchoInv' /\ EndNotMissed'
    BY <1>1, <1>12, <1>13 DEF PlaceInv, KeptInv, CompleteInv, EchoInv, EndNotMissed
  <2>3. NothingLost'
    BY <1>9, <1>13 DEF NothingLost
  <2> QED  BY <1>10, <2>1, <2>2, <2>3 DEF TakeInv
<1>14. CASE /\ k # zeof /\ Len(k) = Len(zeof)
            /\ written' = Append(written, Head(k)) /\ zlook' = Tail(k)
            /\ taking' = "look" /\ takeEnd' = takeEnd
  <2>1. /\ Head(k) \in Characters /\ Tail(k) \in Seq(Characters)
        /\ k = <<Head(k)>> \o Tail(k) /\ Len(Tail(k)) = Len(k) - 1
    BY <1>7, TakenApart
  <2>2. Append(written, Head(k)) \in Seq(Characters) /\ Len(Tail(k)) < Len(zeof)
    BY <1>6, <1>7, <1>14, <2>1
  <2>3. TakeTypeOK'
    BY <1>1, <1>2, <1>4, <1>5, <1>7, <1>14, <2>1, <2>2 DEF TakeTypeOK
  <2>4. PlaceInv' /\ CompleteInv' /\ EchoInv'
    BY <1>1, <1>4, <1>5, <1>12, <1>14 DEF PlaceInv, CompleteInv, EchoInv
  <2>5. KeptInv'
    <3>1. Len(zlook') = Len(zeof) - 1 /\ Len(zlook') < Len(zeof)
      BY <1>14, <2>1, <2>2
    <3> QED  BY <1>1, <3>1 DEF KeptInv
  <2>6. NothingLost'
    <3>1. Append(written, Head(k)) = written \o <<Head(k)>>
      BY <1>6, <2>1, AppendIsConcat
    <3>2. <<Head(k)>> \in Seq(Characters)
      <4>1. PICK a \in Characters : a = Head(k)
        BY <2>1
      <4>2. <<a>> \in Seq(Characters)
        OBVIOUS
      <4> QED  BY <4>1, <4>2
    <3>3. (written \o <<Head(k)>>) \o Tail(k) = written \o (<<Head(k)>> \o Tail(k))
      <4>1. PICK h, u : h = <<Head(k)>> /\ u = Tail(k)
        OBVIOUS
      <4>2. h \in Seq(Characters) /\ u \in Seq(Characters)
        BY <2>1, <3>2, <4>1
      <4>3. (written \o h) \o u = written \o (h \o u)
        BY <1>6, <4>2, ConcatAssociative, SMTT(30)
      <4> QED  BY <4>1, <4>3
    <3>4. written' \o zlook' = Wanted(heard)'
      BY <1>9, <1>14, <2>1, <3>1, <3>3
    <3> QED  BY <3>4 DEF NothingLost
  <2>7. EndNotMissed'
    BY <1>3, <1>11, <1>14 DEF EndNotMissed, Occurs
  <2> QED  BY <1>10, <2>3, <2>4, <2>5, <2>6, <2>7 DEF TakeInv
<1>15. CASE /\ k # zeof /\ Len(k) # Len(zeof) /\ zlook' = k /\ written' = written
            /\ taking' = "look" /\ takeEnd' = takeEnd
  <2>1. written = <<>> /\ Len(k) < Len(zeof)
    BY <1>6, <1>7, <1>8, <1>15
  <2>2. TakeTypeOK'
    BY <1>1, <1>2, <1>4, <1>5, <1>7, <1>15, <2>1 DEF TakeTypeOK
  <2>3. PlaceInv' /\ CompleteInv' /\ EchoInv'
    BY <1>1, <1>4, <1>5, <1>12, <1>15 DEF PlaceInv, CompleteInv, EchoInv
  <2>4. KeptInv'
    BY <1>1, <1>15, <2>1 DEF KeptInv
  <2>5. NothingLost'
    BY <1>9, <1>15 DEF NothingLost
  <2>6. EndNotMissed'
    BY <1>3, <1>11, <1>15 DEF EndNotMissed, Occurs
  <2> QED  BY <1>10, <2>2, <2>3, <2>4, <2>5, <2>6 DEF TakeInv
<1> QED  BY <1>2, <1>3, <1>13, <1>14, <1>15

LEMMA TakeInvStep ==
  ASSUME TakeProper, TakeInv, [TakeNext]_takeVars
  PROVE  TakeInv'
<1>1. CASE OpenTaken
  BY <1>1, OpenTakenStep
<1>2. CASE SendCommand
  BY <1>2, SendCommandStep
<1>3. CASE SkipEcho
  BY <1>3, SkipEchoStep
<1>4. CASE EchoTimesOut \/ TakeSeesSignal \/ TakePortFails
  BY <1>4, GivesUpStep
<1>5. CASE TakeSeesNone \/ InterruptTake \/ UNCHANGED takeVars
  BY <1>5, GoesOnStep
<1>6. CASE DropReturn
  BY <1>6, DropReturnStep
<1>7. CASE WriteCharacter
  BY <1>7, WriteCharacterStep
<1>8. CASE Look
  BY <1>8, LookStep
<1>9. CASE WriteFails
  BY <1>9, WriteFailsStep
<1>10. CASE TakeTimesOut
  BY <1>10, TakeTimesOutStep
<1> QED  BY <1>1, <1>2, <1>3, <1>4, <1>5, <1>6, <1>7, <1>8, <1>9, <1>10 DEF TakeNext

-----------------------------------------------------------------------------
(* What is written when the string has been found *)

(* The last two characters of the string cannot have been shown without a  *)
(* carriage return between them.                                           *)
LEMMA MarkerNotShown ==
  ASSUME NEW w \in Seq(Characters), ReturnsShown, heard = w \o UnixEof
  PROVE  FALSE
<1>0. PICK h : h = w \o UnixEof
  OBVIOUS
<1>1. PICK n \in Nat : n = Len(w)
  OBVIOUS
<1>2. /\ Len(h) = n + 3
      /\ \A i \in 1..n + 3 : h[i] = IF i <= n THEN w[i] ELSE UnixEof[i - n]
  <2>1. /\ Len(h) = Len(w) + Len(UnixEof)
        /\ \A i \in 1..Len(w) + Len(UnixEof) :
             h[i] = IF i <= Len(w) THEN w[i] ELSE UnixEof[i - Len(w)]
    BY <1>0, UnixEofFacts, ConcatProperties
  <2> QED  BY <1>1, <2>1, UnixEofFacts
<1>3. PICK i \in 1..n + 3, j \in 1..n + 3 : /\ i = n + 3 /\ j = n + 2 /\ j = i - 1
                                            /\ i - n = 3 /\ j - n = 2 /\ ~(i <= n) /\ ~(j <= n)
  OBVIOUS
<1>4. h[i] = "nl" /\ h[j] = "mark"
  BY <1>2, <1>3, UnixEofFacts
<1>5. h[i - 1] = "cr"
  BY <1>0, <1>2, <1>3, <1>4 DEF ReturnsShown
<1> QED  BY <1>3, <1>4, <1>5

(* What comes before the string is all that comes before it.               *)
LEMMA EndIsFound ==
  ASSUME NEW f \in Seq(Characters), EndsOnce(f), NEW w \in Seq(Characters),
         NEW x \in Seq(Characters),
         (w \o UnixEof) \o x = (f \o UnixEof) \o <<"$">>
  PROVE  w = f
<1>1. PICK a, b, d : a = w \o UnixEof /\ b = f \o UnixEof /\ d = <<"$">>
  OBVIOUS
<1>2. PICK n \in Nat, m \in Nat, k \in Nat : n = Len(w) /\ m = Len(f) /\ k = Len(x)
  OBVIOUS
<1>3. d \in Seq(Characters) /\ Len(d) = 1 /\ d[1] = "$"
  BY <1>1 DEF Characters
<1>4. /\ a \in Seq(Characters) /\ Len(a) = n + 3
      /\ \A i \in 1..n + 3 : a[i] = IF i <= n THEN w[i] ELSE UnixEof[i - n]
  <2>1. /\ a \in Seq(Characters) /\ Len(a) = Len(w) + Len(UnixEof)
        /\ \A i \in 1..Len(w) + Len(UnixEof) :
             a[i] = IF i <= Len(w) THEN w[i] ELSE UnixEof[i - Len(w)]
    BY <1>1, UnixEofFacts, ConcatProperties
  <2> QED  BY <1>2, <2>1, UnixEofFacts
<1>5. /\ b \in Seq(Characters) /\ Len(b) = m + 3
      /\ \A i \in 1..m + 3 : b[i] = IF i <= m THEN f[i] ELSE UnixEof[i - m]
  <2>1. /\ b \in Seq(Characters) /\ Len(b) = Len(f) + Len(UnixEof)
        /\ \A i \in 1..Len(f) + Len(UnixEof) :
             b[i] = IF i <= Len(f) THEN f[i] ELSE UnixEof[i - Len(f)]
    BY <1>1, UnixEofFacts, ConcatProperties
  <2> QED  BY <1>2, <2>1, UnixEofFacts
<1>6. PICK u : u = a \o x
  OBVIOUS
<1>7. u = b \o d
  BY <1>1, <1>6
<1>8. /\ Len(u) = (n + 3) + k
      /\ \A i \in 1..(n + 3) + k : u[i] = IF i <= n + 3 THEN a[i] ELSE x[i - (n + 3)]
  <2>1. /\ Len(u) = Len(a) + Len(x)
        /\ \A i \in 1..Len(a) + Len(x) : u[i] = IF i <= Len(a) THEN a[i] ELSE x[i - Len(a)]
    BY <1>4, <1>6, ConcatProperties
  <2> QED  BY <1>2, <1>4, <2>1
<1>9. /\ Len(u) = m + 4
      /\ \A i \in 1..m + 4 : u[i] = IF i <= m + 3 THEN b[i] ELSE d[i - (m + 3)]
  <2>1. /\ Len(u) = Len(b) + Len(d)
        /\ \A i \in 1..Len(b) + Len(d) : u[i] = IF i <= Len(b) THEN b[i] ELSE d[i - Len(b)]
    BY <1>3, <1>5, <1>7, ConcatProperties
  <2>2. Len(b) + Len(d) = m + 4 /\ Len(b) = m + 3
    BY <1>3, <1>5
  <2> QED  BY <2>1, <2>2
<1>10. n + k = m + 1
  BY <1>8, <1>9
<1>11. n <= m
  <2> SUFFICES ASSUME n = m + 1  PROVE FALSE
    BY <1>10
  <2>1. PICK i \in 1..m + 4 : i = m + 4 /\ i = n + 3 /\ i - n = 3 /\ i - (m + 3) = 1
                                  /\ ~(i <= m + 3) /\ i <= n + 3 /\ ~(i <= n)
                                  /\ i \in 1..n + 3 /\ i \in 1..(n + 3) + k
    OBVIOUS
  <2>2. u[i] = d[1]
    <3>1. u[i] = IF i <= m + 3 THEN b[i] ELSE d[i - (m + 3)]
      BY <1>9
    <3> QED  BY <2>1, <3>1, SMTT(30)
  <2>3. u[i] = a[i] /\ a[i] = UnixEof[3]
    <3>1. a[i] = IF i <= n THEN w[i] ELSE UnixEof[i - n]
      BY <1>4, <2>1
    <3>2. u[i] = IF i <= n + 3 THEN a[i] ELSE x[i - (n + 3)]
      BY <1>8, <2>1
    <3> QED  BY <2>1, <3>1, <3>2, SMTT(30)
  <2> QED  BY <1>3, <2>2, <2>3, UnixEofFacts
<1>12. ASSUME NEW i \in 1..n + 3
       PROVE  a[i] = b[i]
  <2>1. i \in 1..(n + 3) + k /\ i <= n + 3 /\ i \in 1..m + 4 /\ i <= m + 3
    BY <1>11
  <2>2. u[i] = a[i]
    BY <1>8, <2>1, SMTT(30)
  <2>3. u[i] = b[i]
    BY <1>9, <2>1, SMTT(30)
  <2> QED  BY <2>2, <2>3
<1>13. n = m
  <2>1. PICK v : v = SubSeq(b, n + 1, n + 3)
    OBVIOUS
  <2>2. /\ v \in Seq(Characters) /\ Len(v) = 3
        /\ \A i \in 1..3 : v[i] = b[n + i]
    <3>1. PICK m1 \in Int, m2 \in Int :
            m1 = n + 1 /\ m2 = n + 3 /\ m2 - m1 + 1 = 3 /\ m1 <= m2
      OBVIOUS
    <3>2. ASSUME NEW j \in m1..m2
          PROVE  b[j] \in Characters
      <4>1. j \in 1..Len(b)
        BY <1>5, <1>11, <3>1
      <4> QED  BY <1>5, <4>1
    <3>3. /\ SubSeq(b, m1, m2) \in Seq(Characters)
          /\ Len(SubSeq(b, m1, m2)) = IF m1 <= m2 THEN m2 - m1 + 1 ELSE 0
          /\ \A j \in 1..m2 - m1 + 1 : SubSeq(b, m1, m2)[j] = b[m1 + j - 1]
      BY <3>2, SubSeqProperties
    <3>4. \A i \in 1..3 : m1 + i - 1 = n + i
      BY <3>1
    <3> QED  BY <2>1, <3>1, <3>3, <3>4
  <2>3. ASSUME NEW i \in 1..3
        PROVE  v[i] = UnixEof[i]
    <3>1. PICK j \in 1..n + 3 : j = n + i /\ j - n = i /\ ~(j <= n)
      OBVIOUS
    <3>2. a[j] = UnixEof[i]
      BY <1>4, <3>1
    <3> QED  BY <1>12, <2>2, <3>1, <3>2
  <2>4. v = UnixEof
    <3>1. PICK e : e = UnixEof
      OBVIOUS
    <3>2. e \in Seq(Characters) /\ Len(e) = 3
      BY <3>1, UnixEofFacts
    <3>3. \A i \in 1..3 : v[i] = e[i]
      BY <2>3, <3>1
    <3>4. v = e
      <4>1. v \in Seq(Characters) /\ Len(v) = 3
        BY <2>2
      <4>2. Len(v) = Len(e) /\ \A i \in 1..Len(v) : v[i] = e[i]
        BY <3>2, <3>3, <4>1
      <4>3. v \in Seq(Characters) /\ e \in Seq(Characters)
        BY <3>2, <4>1
      <4> QED  BY <4>2, <4>3, SeqEqual, Zenon
    <3> QED  BY <3>1, <3>4
  <2>5. n \in 0..Len(f)
    BY <1>2, <1>11
  <2>6. SubSeq(f \o UnixEof, n + 1, n + 3) = UnixEof
    BY <1>1, <2>1, <2>4
  <2> QED  BY <1>2, <2>5, <2>6 DEF EndsOnce
<1>14. ASSUME NEW i \in 1..n
       PROVE  w[i] = f[i]
  <2>1. i \in 1..n + 3 /\ i \in 1..m + 3 /\ i <= n /\ i <= m
    BY <1>13
  <2> QED  BY <1>4, <1>5, <1>12, <2>1
<1>15. Len(w) = Len(f) /\ \A i \in 1..Len(w) : w[i] = f[i]
  BY <1>2, <1>13, <1>14
<1> QED  BY <1>15

LEMMA TakenComplete ==
  ASSUME TakeProper, TakeInv
  PROVE  CompleteHasFile
<1> SUFFICES ASSUME fromShell, takeEnd = "complete"
             PROVE  written = Wanted(remoteFile)
  BY DEF CompleteHasFile
<1>1. /\ TakeTypeOK /\ Given /\ zlook = zeof /\ zeof = UnixEof
      /\ written \o zlook = Wanted(heard)
  BY DEF TakeInv, PlaceInv, CompleteInv, NothingLost, Given
<1>2. /\ written \in Seq(Characters) /\ heard \in Seq(Characters)
      /\ incoming \in Seq(Characters)
  BY <1>1 DEF TakeTypeOK
<1>3. remoteFile \in Seq(Characters)
  BY <1>1, ZeofFacts
<1>4. CASE fCuvar_binary /\ onlcr
  <2>1. ReturnsShown
    BY <1>4 DEF TakeInv, HeardInv, Hears
  <2>2. heard = written \o UnixEof
    BY <1>1, <1>4 DEF Wanted
  <2> QED  BY <1>2, <2>1, <2>2, MarkerNotShown
<1>5. CASE ~(fCuvar_binary /\ onlcr)
  <2>1. PICK r \in Seq(Characters) : HeardIs(r)
    BY <1>5 DEF TakeInv, HeardInv, Hears
  <2>2. r \o incoming = Rest /\ written \o UnixEof = Wanted(r)
    BY <1>1, <2>1 DEF HeardIs
  <2>3. Wanted(r \o incoming) = Wanted(r) \o Wanted(incoming)
    BY <1>2, WantedConcat
  <2>4. PICK d : d = <<"$">>
    OBVIOUS
  <2>5. d \in Seq(Characters) /\ Len(d) = 1 /\ d[1] = "$"
    BY <2>4 DEF Characters
  <2>6. Wanted(Rest) = (Wanted(remoteFile) \o UnixEof) \o d
    <3>1. remoteFile \o UnixEof \in Seq(Characters)
      BY <1>3, UnixEofFacts
    <3>2. Wanted(Rest) = Wanted(remoteFile \o UnixEof) \o Wanted(d)
      BY <2>4, <2>5, <3>1, WantedConcat DEF Rest
    <3>3. Wanted(remoteFile \o UnixEof) = Wanted(remoteFile) \o Wanted(UnixEof)
      BY <1>3, UnixEofFacts, WantedConcat
    <3>4. Wanted(UnixEof) = UnixEof
      BY UnixEofFacts, WantedNone
    <3>5. Wanted(d) = d
      <4>1. NoReturns(d)
        BY <2>5 DEF NoReturns
      <4> QED  BY <2>5, <4>1, WantedNone
    <3> QED  BY <3>2, <3>3, <3>4, <3>5
  <2>7. PICK f, x : f = Wanted(remoteFile) /\ x = Wanted(incoming)
    OBVIOUS
  <2>8. f \in Seq(Characters) /\ x \in Seq(Characters)
    BY <1>2, <1>3, <2>7, WantedType
  <2>9. EndsOnce(f)
    BY <1>1, <2>7 DEF TakeProper, Given, Wanted
  <2>10. (written \o UnixEof) \o x = (f \o UnixEof) \o <<"$">>
    BY <2>2, <2>3, <2>4, <2>6, <2>7
  <2>11. written = f
    BY <1>2, <2>8, <2>9, <2>10, EndIsFound
  <2> QED  BY <2>7, <2>11
<1> QED  BY <1>4, <1>5

-----------------------------------------------------------------------------
(* The invariant holds whatever the remote side sends and whenever signals, *)
(* timeouts and errors come, if the end of a file can be told (icutake).    *)
THEOREM TakeInvariant ==
  ASSUME TakeProper
  PROVE  TakeSpec => []TakeInv
<1>1. TakeInit => TakeInv
  BY TakeInvInit
<1>2. TakeInv /\ [TakeNext]_takeVars => TakeInv'
  BY TakeInvStep
<1> QED  BY <1>1, <1>2, PTL DEF TakeSpec

(* The types of the transfer's variables, in particular that no more is     *)
(* kept back than the array that icutake allocates holds.                   *)
THEOREM TakeTypeCorrect ==
  ASSUME TakeProper
  PROVE  TakeSpec => []TakeTypeOK
<1>1. TakeInv => TakeTypeOK
  BY DEF TakeInv
<1> QED  BY <1>1, TakeInvariant, PTL

(* Nothing of the file is lost, the string that ends it is not missed, and  *)
(* a ~%take that says it is complete has written exactly the file.          *)
THEOREM FileIsTaken ==
  ASSUME TakeProper
  PROVE  TakeSpec => []TakenFile
<1>1. TakeInv => TakenFile
  BY TakenComplete DEF TakeInv, TakenFile
<1> QED  BY <1>1, TakeInvariant, PTL

-----------------------------------------------------------------------------
(* The inductive invariant of ConnIO *)

ReadStates  == {"setMin", "settingMin", "minInterrupted", "check", "toRead",
                "reading", "interrupted"}
WriteStates == {"write", "writing"}
IoStates    == {"ioRead", "ioWrite", "select"}
ByteStates  == {"byte", "byteInterrupted"}

(* SIGALRM is caught in a read and in the write of a byte, and scheduled   *)
(* only there and on the way out of a read, where it is ignored.           *)
AlarmInv ==
  /\ timer => ioCall \in ReadStates \cup ByteStates \cup {"quiet"}
  /\ handler = "usalarm" => ioCall \in ReadStates \cup ByteStates
  /\ fSalarm /\ ioCall \in ReadStates => expired
  /\ ReadEnough

(* What is remembered of the modes.                                        *)
ModesRemembered ==
  iflags = flags["rd"] /\ iwr_flags = IF double THEN flags["wr"] ELSE "none"

(* It is so from when the port is open, and right for the call that is     *)
(* made.  The two descriptors differ only until fsblock changes something; *)
(* fsysdep_conn_io makes it do so before it waits.                         *)
ModeInv ==
  /\ ioCall # "closed" => ModesRemembered
  /\ ioCall # "closed" /\ double /\ (sameFile \/ ~asOpened) =>
       flags["wr"] = flags["rd"]
  /\ asOpened => iflags = "block"
  /\ ioCall \in ReadStates => iflags = "block" /\ o = "rd"
  /\ ioCall \in WriteStates \cup {"byte"} => iflags = "block" /\ o = WriteEnd
  /\ ioCall \in {"ioWrite", "select"} => iflags = "nonblock"
  /\ ioCall = "byte" => ~asOpened

(* MIN is what it is held to be, and right from when it is looked at until *)
(* something is read.                                                      *)
MinInv ==
  /\ vmin = cSmin
  /\ ioCall \in {"check", "toRead", "reading"} /\ fterminal => cSmin = Csetmin

(* A read needs something and the other calls nothing of it, a write that  *)
(* waits has something, and the line has not been found to be gone.        *)
CountInv ==
  /\ ioCall \in ReadStates => cmin > 0
  /\ ioCall \in {"closed"} \cup WriteStates \cup IoStates \cup ByteStates => cmin = 0
  /\ ioCall \in {"ioWrite", "select", "byte"} => cwrite > 0
  /\ ioCall \in WriteStates \cup IoStates \cup ByteStates => czero < ZeroLimit

IOInv == ConnTypeOK /\ AlarmInv /\ ModeInv /\ MinInv /\ CountInv

-----------------------------------------------------------------------------
(* fsblock leaves the first descriptor in the mode that is asked for, and  *)
(* the second too unless no mode has been changed since the port was       *)
(* opened; it remembers what it has done.                                  *)
LEMMA FsblockSets ==
  ASSUME NEW mode \in {"block", "nonblock"}, ConnTypeOK, ModeInv, ioCall # "closed",
         Fsblock("rd", mode), UNCHANGED <<double, sameFile>>
  PROVE  /\ flags' \in [Descriptors -> {"block", "nonblock"}]
         /\ iflags' = mode
         /\ iwr_flags' \in {"none", "block", "nonblock"}
         /\ asOpened' \in BOOLEAN
         /\ ModesRemembered'
         /\ double /\ (sameFile \/ ~asOpened') => flags'["wr"] = flags'["rd"]
         /\ asOpened' => iflags' = "block"
         /\ mode # iflags => ~asOpened'
<1>1. CASE mode = iflags
  BY <1>1 DEF Fsblock, ioModes, ConnTypeOK, IoPortTypeOK, ModeInv, ModesRemembered
<1>2. CASE mode # iflags
  <2>1. flags' = [f \in Descriptors |->
                   IF f = "rd" \/ sameFile \/ (iwr_flags # "none" /\ f = "wr")
                   THEN mode ELSE flags[f]]
    BY <1>2 DEF Fsblock
  <2>2. "rd" \in Descriptors /\ "wr" \in Descriptors
    BY DEF Descriptors
  <2>3. flags["wr"] # "none" /\ flags \in [Descriptors -> {"block", "nonblock"}]
    BY <2>2 DEF ConnTypeOK, IoPortTypeOK
  <2>4. iwr_flags = IF double THEN flags["wr"] ELSE "none"
    BY DEF ModeInv, ModesRemembered
  <2>5. flags' \in [Descriptors -> {"block", "nonblock"}]
    BY <2>1, <2>3
  <2>6. flags'["rd"] = mode /\ (double => flags'["wr"] = mode)
    BY <2>1, <2>2, <2>3, <2>4
  <2>7. /\ iflags' = mode /\ asOpened' = FALSE
        /\ iwr_flags' = IF iwr_flags # "none" THEN mode ELSE iwr_flags
    BY <1>2 DEF Fsblock
  <2>8. iwr_flags' = IF double THEN mode ELSE "none"
    BY <2>3, <2>4, <2>7
  <2> QED BY <2>5, <2>6, <2>7, <2>8 DEF ModesRemembered
<1> QED BY <1>1, <1>2

(* MIN is set to a value that it can have.                                 *)
LEMMA CsetminInRange ==
  ASSUME ConnTypeOK, cmin > 0
  PROVE  Csetmin \in 1..MinLimit
BY ConnAssumption DEF ConnAssumption, Csetmin, ConnTypeOK, IoCallTypeOK

LEMMA IOInitially == ConnInit => IOInv
<1> SUFFICES ASSUME ConnInit PROVE IOInv
  OBVIOUS
<1>1. 1 \in 1..MinLimit /\ 0 \in 0..MaxRead /\ 0 \in 0..ZeroLimit
  BY ConnAssumption DEF ConnAssumption
<1>2. flags \in [Descriptors -> {"block", "nonblock"}]
  BY DEF ConnInit
<1>3. o \in Descriptors /\ ioCall \in IoCalls
  BY DEF ConnInit, Descriptors, IoCalls
<1>4. /\ timer \in BOOLEAN /\ fSalarm \in BOOLEAN /\ expired \in BOOLEAN
      /\ quitSignal \in BOOLEAN
  BY DEF ConnInit
<1>5. IoPortTypeOK
  BY <1>1, <1>2, <1>3 DEF ConnInit, IoPortTypeOK
<1>6. IoCallTypeOK
  BY <1>1, <1>3, <1>4 DEF ConnInit, IoCallTypeOK
<1>7. AlarmInv /\ ModeInv /\ MinInv /\ CountInv
  BY ConnAssumption
  DEF ConnAssumption, ConnInit, AlarmInv, ModeInv, MinInv, CountInv, ReadEnough,
      Descriptors, ReadStates, WriteStates, IoStates, ByteStates
<1> QED BY <1>5, <1>6, <1>7 DEF IOInv, ConnTypeOK

-----------------------------------------------------------------------------
(* The steps that leave the modes of the port alone.                       *)
LEMMA SignalsKeep ==
  ASSUME IOInv, AlarmRings \/ SignalArrives
  PROVE  IOInv'
<1> USE DEF IOInv, ConnTypeOK, IoPortTypeOK, IoCallTypeOK, AlarmInv, ModeInv,
        ModesRemembered, MinInv, CountInv, ReadEnough, ReadStates, WriteStates, IoStates,
        ByteStates, WriteEnd, Csetmin, Interrupted, ioPort, ioModes, ioTimer,
        ioCounts
<1>1. CASE AlarmRings
  <2>1. ioCall' \in IoCalls
    BY <1>1 DEF AlarmRings, IoCalls
  <2>2. IoPortTypeOK'
    BY <1>1 DEF AlarmRings, Usalarm
  <2>3. IoCallTypeOK'
    BY <1>1, <2>1 DEF AlarmRings, Usalarm
  <2>4. AlarmInv'
    BY <1>1 DEF AlarmRings, Usalarm
  <2>5. ModeInv'
    BY <1>1 DEF AlarmRings, Usalarm
  <2>6. MinInv'
    BY <1>1 DEF AlarmRings, Usalarm
  <2>7. CountInv'
    BY <1>1 DEF AlarmRings, Usalarm
  <2> QED BY <2>2, <2>3, <2>4, <2>5, <2>6, <2>7
<1>2. CASE SignalArrives
  <2>1. ioCall' \in IoCalls
    BY <1>2 DEF SignalArrives, IoCalls
  <2>2. IoPortTypeOK'
    BY <1>2 DEF SignalArrives
  <2>3. IoCallTypeOK'
    BY <1>2, <2>1 DEF SignalArrives
  <2>4. AlarmInv'
    BY <1>2 DEF SignalArrives
  <2>5. ModeInv'
    BY <1>2 DEF SignalArrives
  <2>6. MinInv'
    BY <1>2 DEF SignalArrives
  <2>7. CountInv'
    BY <1>2 DEF SignalArrives
  <2> QED BY <2>2, <2>3, <2>4, <2>5, <2>6, <2>7
<1> QED BY <1>1, <1>2

LEMMA ReadKeeps ==
  ASSUME IOInv, ReadStep \/ SetsMin \/ ReadGets \/ ReadWouldBlock \/ ReadFails
  PROVE  IOInv'
<1> USE DEF IOInv, ConnTypeOK, IoPortTypeOK, IoCallTypeOK, AlarmInv, ModeInv,
        ModesRemembered, MinInv, CountInv, ReadEnough, IoCalls, ReadStates, WriteStates,
        IoStates, ByteStates, WriteEnd, Finish, ioPort, ioModes, ioTimer,
        ioCounts
<1>1. CASE NeedsMin
  BY <1>1 DEF NeedsMin, Csetmin
<1>2. CASE CannotSetMin
  BY <1>2 DEF CannotSetMin
<1>3. CASE MinInterrupted
  <2>1. ConnTypeOK'
    <3>1. /\ ioCall' \in IoCalls /\ ioGave' \in {"nothing", "true", "false"}
          /\ timer' \in BOOLEAN /\ handler' \in {"ignore", "usalarm"}
          /\ fSalarm' \in BOOLEAN /\ expired' \in BOOLEAN
      BY <1>3, ZenonT(60) DEF MinInterrupted
    <3>2. UNCHANGED <<ioPort, o, ioModes, vmin, cSmin, quitSignal, ioCounts>>
      BY <1>3 DEF MinInterrupted
    <3> QED BY ONLY <3>1, <3>2, IOInv
            DEF IOInv, ConnTypeOK, IoPortTypeOK, IoCallTypeOK, ioPort, ioModes, ioCounts
  <2>2. AlarmInv'
    BY <1>3 DEF MinInterrupted
  <2>3. ModeInv'
    BY <1>3 DEF MinInterrupted
  <2>4. MinInv'
    BY <1>3 DEF MinInterrupted
  <2>5. CountInv'
    BY <1>3 DEF MinInterrupted
  <2> QED BY <2>1, <2>2, <2>3, <2>4, <2>5
<1>4. CASE CheckSignals
  BY <1>4 DEF CheckSignals, Csetmin
<1>5. CASE BeginRead
  BY <1>5 DEF BeginRead, Csetmin
<1>6. CASE ReadInterrupted
  BY <1>6 DEF ReadInterrupted
<1>7. CASE Quiet
  <2>1. ConnTypeOK'
    <3>1. ioCall' \in IoCalls
      BY <1>7 DEF Quiet
    <3>2. UNCHANGED <<ioPort, o, ioModes, vmin, cSmin, fSalarm, expired, quitSignal,
                      ioCounts, ioGave>>
      BY <1>7 DEF Quiet
    <3>3. timer' \in BOOLEAN /\ handler' \in {"ignore", "usalarm"}
      BY <1>7 DEF Quiet
    <3> QED BY ONLY <3>1, <3>2, <3>3, IOInv
            DEF IOInv, ConnTypeOK, IoPortTypeOK, IoCallTypeOK, ioPort, ioModes, ioCounts
  <2>2. AlarmInv'
    BY <1>7 DEF Quiet
  <2>3. ModeInv'
    BY <1>7 DEF Quiet
  <2>4. MinInv'
    BY <1>7 DEF Quiet
  <2>5. CountInv'
    BY <1>7 DEF Quiet
  <2> QED BY <2>1, <2>2, <2>3, <2>4, <2>5
<1>8. CASE SetsMin
  BY <1>8, CsetminInRange DEF SetsMin, Csetmin
<1>9. CASE ReadGets
  BY <1>9, ConnAssumption DEF ConnAssumption, ReadGets
<1>10. CASE ReadWouldBlock
  BY <1>10 DEF ReadWouldBlock
<1>11. CASE ReadFails
  BY <1>11 DEF ReadFails
<1> QED
  BY <1>1, <1>2, <1>3, <1>4, <1>5, <1>6, <1>7, <1>8, <1>9, <1>10, <1>11 DEF
      ReadStep

LEMMA WriteKeeps ==
  ASSUME IOInv, BeginWrite \/ Writes \/ WritesNothing \/ IoFails
  PROVE  IOInv'
<1> USE ConnAssumption
    DEF ConnAssumption, IOInv, ConnTypeOK, IoPortTypeOK, IoCallTypeOK, AlarmInv,
        ModeInv, ModesRemembered, MinInv, CountInv, ReadEnough, IoCalls, ReadStates,
        WriteStates, IoStates, ByteStates, WriteEnd, Returns, ioPort, ioModes,
        ioTimer, ioCounts
<1>1. CASE BeginWrite
  <2>1. /\ cmin' \in 0..MaxRead /\ cread' \in 0..MaxRead /\ cwrite' \in 0..MaxRead
        /\ czero' \in 0..ZeroLimit /\ ioCall' \in IoCalls
        /\ ioGave' \in {"nothing", "true", "false"}
    BY <1>1 DEF BeginWrite
  <2>2. ConnTypeOK'
    BY <1>1, <2>1, ZenonT(60) DEF BeginWrite
  <2>3. AlarmInv'
    BY <1>1 DEF BeginWrite
  <2>4. ModeInv'
    BY <1>1 DEF BeginWrite
  <2>5. MinInv'
    BY <1>1 DEF BeginWrite
  <2>6. CountInv'
    BY <1>1 DEF BeginWrite
  <2> QED BY <2>2, <2>3, <2>4, <2>5, <2>6
<1>2. CASE Writes
  <2>1. /\ cmin' \in 0..MaxRead /\ cread' \in 0..MaxRead /\ cwrite' \in 0..MaxRead
        /\ czero' \in 0..ZeroLimit /\ ioCall' \in IoCalls
        /\ ioGave' \in {"nothing", "true", "false"}
    BY <1>2 DEF Writes
  <2>2. ConnTypeOK'
    BY <1>2, <2>1, ZenonT(60) DEF Writes
  <2>3. AlarmInv'
    BY <1>2 DEF Writes
  <2>4. ModeInv'
    BY <1>2 DEF Writes
  <2>5. MinInv'
    BY <1>2 DEF Writes
  <2>6. CountInv'
    BY <1>2 DEF Writes
  <2> QED BY <2>2, <2>3, <2>4, <2>5, <2>6
<1>3. CASE WritesNothing
  <2>1. /\ cmin' \in 0..MaxRead /\ cread' \in 0..MaxRead /\ cwrite' \in 0..MaxRead
        /\ czero' \in 0..ZeroLimit /\ ioCall' \in IoCalls
        /\ ioGave' \in {"nothing", "true", "false"}
    BY <1>3 DEF WritesNothing
  <2>2. ConnTypeOK'
    BY <1>3, <2>1, ZenonT(60) DEF WritesNothing
  <2>3. AlarmInv'
    BY <1>3 DEF WritesNothing
  <2>4. ModeInv'
    BY <1>3 DEF WritesNothing
  <2>5. MinInv'
    BY <1>3 DEF WritesNothing
  <2>6. CountInv'
    BY <1>3 DEF WritesNothing
  <2> QED BY <2>2, <2>3, <2>4, <2>5, <2>6
<1>4. CASE IoFails
  BY <1>4 DEF IoFails
<1> QED BY <1>1, <1>2, <1>3, <1>4

LEMMA IoKeeps ==
  ASSUME IOInv,
         \/ StartIo \/ IoWrites \/ SelectReturns
         \/ ByteWritten \/ ByteInterrupted \/ ByteFails
  PROVE  IOInv'
<1> USE ConnAssumption
    DEF ConnAssumption, IOInv, ConnTypeOK, IoPortTypeOK, IoCallTypeOK, AlarmInv,
        ModeInv, ModesRemembered, MinInv, CountInv, ReadEnough, IoCalls, ReadStates,
        WriteStates, IoStates, ByteStates, WriteEnd, Returns, StopAlarm,
        ioPort, ioModes, ioTimer, ioCounts
<1>1. CASE StartIo
  BY <1>1 DEF StartIo
<1>2. CASE IoWrites
  <2>1. /\ cmin' \in 0..MaxRead /\ cread' \in 0..MaxRead /\ cwrite' \in 0..MaxRead
        /\ czero' \in 0..ZeroLimit /\ ioCall' \in IoCalls
        /\ ioGave' \in {"nothing", "true", "false"}
    BY <1>2 DEF IoWrites
  <2>2. ConnTypeOK'
    BY <1>2, <2>1, ZenonT(60) DEF IoWrites
  <2>3. AlarmInv'
    BY <1>2 DEF IoWrites
  <2>4. ModeInv'
    BY <1>2 DEF IoWrites
  <2>5. MinInv'
    BY <1>2 DEF IoWrites
  <2>6. CountInv'
    BY <1>2 DEF IoWrites
  <2> QED BY <2>2, <2>3, <2>4, <2>5, <2>6
<1>3. CASE SelectReturns
  BY <1>3 DEF SelectReturns
<1>4. CASE ByteWritten
  <2>1. cwrite' \in 0..MaxRead /\ czero' \in 0..ZeroLimit
    BY <1>4 DEF ByteWritten
  <2>2. ConnTypeOK'
    BY <1>4, <2>1, ZenonT(60) DEF ByteWritten, IoCalls
  <2>3. AlarmInv'
    BY <1>4 DEF ByteWritten
  <2>4. ModeInv'
    BY <1>4 DEF ByteWritten
  <2>5. MinInv'
    BY <1>4 DEF ByteWritten
  <2>6. CountInv'
    BY <1>4 DEF ByteWritten
  <2> QED BY <2>2, <2>3, <2>4, <2>5, <2>6
<1>5. CASE ByteInterrupted
  <2>1. ConnTypeOK'
    <3>1. ioCall' \in IoCalls
      BY <1>5 DEF ByteInterrupted
    <3>2. UNCHANGED <<ioPort, o, ioModes, vmin, cSmin, fSalarm, expired, quitSignal,
                      ioCounts, ioGave>>
      BY <1>5 DEF ByteInterrupted
    <3>3. timer' \in BOOLEAN /\ handler' \in {"ignore", "usalarm"}
      BY <1>5 DEF ByteInterrupted, StopAlarm
    <3> QED BY ONLY <3>1, <3>2, <3>3, IOInv
            DEF IOInv, ConnTypeOK, IoPortTypeOK, IoCallTypeOK, ioPort, ioModes, ioCounts
  <2>2. AlarmInv'
    BY <1>5 DEF ByteInterrupted
  <2>3. ModeInv'
    BY <1>5 DEF ByteInterrupted
  <2>4. MinInv'
    BY <1>5 DEF ByteInterrupted
  <2>5. CountInv'
    BY <1>5 DEF ByteInterrupted
  <2> QED BY <2>1, <2>2, <2>3, <2>4, <2>5
<1>6. CASE ByteFails
  <2>1. ConnTypeOK'
    <3>1. /\ ioCall' \in IoCalls /\ ioGave' \in {"nothing", "true", "false"}
          /\ timer' \in BOOLEAN /\ handler' \in {"ignore", "usalarm"}
      BY <1>6 DEF ByteFails
    <3>2. UNCHANGED <<ioPort, o, ioModes, vmin, cSmin, fSalarm, expired, quitSignal,
                      ioCounts>>
      BY <1>6 DEF ByteFails
    <3> QED BY ONLY <3>1, <3>2, IOInv
            DEF IOInv, ConnTypeOK, IoPortTypeOK, IoCallTypeOK, ioPort, ioModes, ioCounts
  <2>2. AlarmInv'
    BY <1>6 DEF ByteFails
  <2>3. ModeInv'
    BY <1>6 DEF ByteFails
  <2>4. MinInv'
    BY <1>6 DEF ByteFails
  <2>5. CountInv'
    BY <1>6 DEF ByteFails
  <2> QED BY <2>1, <2>2, <2>3, <2>4, <2>5
<1> QED BY <1>1, <1>2, <1>3, <1>4, <1>5, <1>6

-----------------------------------------------------------------------------
(* The steps that choose the mode.                                         *)
LEMMA ModeSteps ==
  ASSUME IOInv,
         \/ ConnOpen \/ StartRead \/ ReadNoTime \/ StartWrite
         \/ IoReads \/ SelectFails
  PROVE  IOInv'
<1> USE ConnAssumption
    DEF ConnAssumption, IOInv, AlarmInv, MinInv, CountInv, ReadEnough,
        ReadStates, WriteStates, IoStates, ByteStates, WriteEnd,
        ioPort, ioTimer, ioCounts
<1>1. CASE ConnOpen
  <2>1. "rd" \in Descriptors /\ "wr" \in Descriptors
    BY DEF Descriptors
  <2>2. flags' = [d \in Descriptors |->
                   IF d = "rd" \/ sameFile' THEN "block" ELSE flags[d]]
    BY <1>1 DEF ConnOpen
  <2>3. /\ flags' \in [Descriptors -> {"block", "nonblock"}]
        /\ flags'["rd"] = "block"
        /\ sameFile' => flags'["wr"] = "block"
    BY <2>1, <2>2 DEF ConnTypeOK, IoPortTypeOK
  <2>4. /\ iflags' = "block" /\ asOpened' = TRUE /\ ioCall' = "idle"
        /\ iwr_flags' = IF double' THEN flags'["wr"] ELSE "none"
    BY <1>1 DEF ConnOpen
  <2>5. flags'["wr"] \in {"block", "nonblock"}
    BY <2>1, <2>3
  <2>6. double' \in BOOLEAN /\ sameFile' \in BOOLEAN /\ fterminal' \in BOOLEAN
    BY <1>1 DEF ConnOpen, ConnTypeOK, IoPortTypeOK
  <2>7. IoPortTypeOK'
    BY <1>1, <2>3, <2>4, <2>5, <2>6 DEF ConnOpen, ConnTypeOK, IoPortTypeOK
  <2>8. IoCallTypeOK'
    BY <1>1 DEF ConnOpen, ConnTypeOK, IoCallTypeOK, IoCalls
  <2>9. ModeInv'
    BY <2>3, <2>4, <2>6 DEF ModeInv, ModesRemembered
  <2> QED BY <1>1, <2>7, <2>8, <2>9 DEF ConnOpen, ConnTypeOK, IoCallTypeOK
<1>2. CASE StartRead
  <2>1. /\ flags' \in [Descriptors -> {"block", "nonblock"}]
        /\ iflags' = "block"
        /\ iwr_flags' \in {"none", "block", "nonblock"}
        /\ asOpened' \in BOOLEAN
        /\ ModesRemembered'
        /\ double /\ (sameFile \/ ~asOpened') => flags'["wr"] = flags'["rd"]
    <3>1. Fsblock("rd", "block") /\ UNCHANGED <<double, sameFile>> /\ ioCall # "closed"
      BY <1>2 DEF StartRead
    <3> QED BY <3>1, FsblockSets
  <2>2. cmin' \in 0..MaxRead /\ cread' \in 0..MaxRead /\ cmin' > 0
    BY <1>2 DEF StartRead
  <2>3. o' \in Descriptors /\ ioCall' \in IoCalls
    BY <1>2 DEF StartRead, Descriptors, IoCalls
  <2>4. timer' \in BOOLEAN /\ fSalarm' \in BOOLEAN /\ expired' \in BOOLEAN
    BY <1>2 DEF StartRead, StartAlarm
  <2>5. IoPortTypeOK'
    BY <1>2, <2>1, <2>3 DEF StartRead, ConnTypeOK, IoPortTypeOK
  <2>6. IoCallTypeOK'
    BY <1>2, <2>2, <2>3, <2>4 DEF StartRead, StartAlarm, ConnTypeOK, IoCallTypeOK
  <2>7. ModeInv'
    BY <1>2, <2>1 DEF StartRead, ModeInv
  <2> QED BY <1>2, <2>2, <2>5, <2>6, <2>7 DEF StartRead, StartAlarm, ConnTypeOK
<1>3. CASE ReadNoTime
  <2>1. cmin' \in 0..MaxRead /\ cread' \in 0..MaxRead
    BY <1>3 DEF ReadNoTime
  <2>2. o' \in Descriptors /\ ioCall' \in IoCalls
    BY <1>3 DEF ReadNoTime, Returns, Descriptors, IoCalls
  <2>3. IoPortTypeOK'
    BY <1>3, <2>2 DEF ReadNoTime, ConnTypeOK, IoPortTypeOK, ioModes
  <2>4. IoCallTypeOK'
    BY <1>3, <2>1, <2>2 DEF ReadNoTime, Returns, ConnTypeOK, IoCallTypeOK
  <2>5. ModeInv'
    BY <1>3 DEF ReadNoTime, Returns, ModeInv, ModesRemembered, ioModes
  <2> QED BY <1>3, <2>3, <2>4, <2>5 DEF ReadNoTime, Returns, ConnTypeOK
<1>4. CASE StartWrite
  <2>1. Fsblock("rd", "block") /\ UNCHANGED <<double, sameFile>> /\ ioCall # "closed"
    BY <1>4 DEF StartWrite
  <2> QED BY <1>4, <2>1, FsblockSets DEF StartWrite, ConnTypeOK, IoPortTypeOK,
          IoCallTypeOK, ModeInv, Descriptors, IoCalls
<1>5. CASE IoReads
  <2>1. Fsblock("rd", "nonblock") /\ UNCHANGED <<double, sameFile>> /\ ioCall # "closed"
    BY <1>5 DEF IoReads
  <2>2. /\ flags' \in [Descriptors -> {"block", "nonblock"}]
        /\ iflags' = "nonblock"
        /\ iwr_flags' \in {"none", "block", "nonblock"}
        /\ asOpened' = FALSE
        /\ ModesRemembered'
        /\ double => flags'["wr"] = flags'["rd"]
    BY <2>1, FsblockSets
  <2>3. /\ cread' \in 0..MaxRead /\ o' \in Descriptors /\ ioCall' \in IoCalls
        /\ ioGave' \in {"nothing", "true", "false"}
    BY <1>5 DEF IoReads, Returns, ConnTypeOK, IoCallTypeOK, Descriptors, IoCalls
  <2>4. IoPortTypeOK'
    BY <1>5, <2>2, <2>3 DEF IoReads, ConnTypeOK, IoPortTypeOK
  <2>5. IoCallTypeOK'
    BY <1>5, <2>3 DEF IoReads, ConnTypeOK, IoCallTypeOK
  <2>6. ModeInv'
    BY <1>5, <2>2 DEF IoReads, Returns, ModeInv
  <2> QED BY <1>5, <2>4, <2>5, <2>6 DEF IoReads, Returns, ConnTypeOK, IoCallTypeOK
<1>6. CASE SelectFails
  <2>1. /\ Fsblock("rd", "block") /\ UNCHANGED <<double, sameFile>>
        /\ ioCall # "closed" /\ iflags # "block"
    BY <1>6 DEF SelectFails, ModeInv
  <2>2. /\ flags' \in [Descriptors -> {"block", "nonblock"}]
        /\ iflags' = "block"
        /\ iwr_flags' \in {"none", "block", "nonblock"}
        /\ asOpened' = FALSE
        /\ ModesRemembered'
        /\ double => flags'["wr"] = flags'["rd"]
    BY <2>1, FsblockSets
  <2>3. /\ o' \in Descriptors /\ ioCall' \in IoCalls
        /\ ioGave' \in {"nothing", "true", "false"}
        /\ timer' \in BOOLEAN /\ handler' \in {"ignore", "usalarm"}
    BY <1>6 DEF SelectFails, StartAlarm, Returns, ConnTypeOK, IoCallTypeOK,
        Descriptors, IoCalls
  <2>4. IoPortTypeOK'
    BY <1>6, <2>2, <2>3 DEF SelectFails, ConnTypeOK, IoPortTypeOK
  <2>5. IoCallTypeOK'
    BY <1>6, <2>3 DEF SelectFails, ConnTypeOK, IoCallTypeOK
  <2>6. ModeInv'
    BY <1>6, <2>2 DEF SelectFails, Returns, ModeInv
  <2>7. AlarmInv'
    BY <1>6 DEF SelectFails, StartAlarm, Returns
  <2>8. MinInv' /\ CountInv'
    BY <1>6 DEF SelectFails, Returns
  <2> QED BY <2>4, <2>5, <2>6, <2>7, <2>8 DEF ConnTypeOK
<1> QED BY <1>1, <1>2, <1>3, <1>4, <1>5, <1>6

LEMMA IOKeepsInv == IOInv /\ [ConnNext]_connVars => IOInv'
<1> SUFFICES ASSUME IOInv, [ConnNext]_connVars
             PROVE  IOInv'
  OBVIOUS
<1>1. CASE ConnNext
  BY <1>1, SignalsKeep, ReadKeeps, WriteKeeps, IoKeeps, ModeSteps DEF ConnNext
<1>2. CASE UNCHANGED connVars
  BY <1>2 DEF IOInv, ConnTypeOK, IoPortTypeOK, IoCallTypeOK, AlarmInv, ModeInv,
      ModesRemembered, MinInv, CountInv, ReadEnough, WriteEnd, Csetmin, connVars, ioPort,
      ioModes, ioTimer, ioCounts
<1> QED BY <1>1, <1>2

(* IOInv is kept by every step, for every size of a buffer and every limit. *)
THEOREM IOInvariance == ConnSpec => []IOInv
  BY IOInitially, IOKeepsInv, PTL DEF ConnSpec

(* What the calls remember of the port, of its terminal and of the alarm   *)
(* is so however the calls before have ended: no alarm reaches another     *)
(* call, a call that is to block does, MIN is what is needed, and a read   *)
(* that gives less than was asked for has run out of time.                 *)
THEOREM IOConsistent == ConnSpec => []ConnConsistent
<1>1. IOInv => ConnConsistent
  <2> SUFFICES ASSUME IOInv PROVE ConnConsistent
    OBVIOUS
  <2> USE DEF IOInv, ReadStates, WriteStates, IoStates, ByteStates
  <2>1. AlarmsOff
    BY DEF AlarmInv, AlarmsOff, ConnTypeOK, IoCallTypeOK, IoCalls
  <2>2. ModeFits
    BY DEF ModeInv, ModesRemembered, ModeFits, WriteEnd
  <2>3. MinFits
    BY DEF MinInv, MinFits
  <2>4. ReadEnough
    BY DEF AlarmInv
  <2> QED BY <2>1, <2>2, <2>3, <2>4 DEF ConnConsistent
<1> QED BY IOInvariance, <1>1, PTL
=============================================================================
