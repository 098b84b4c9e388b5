------------------------------- MODULE RecBuf -------------------------------
(***************************************************************************)
(* The receive buffer of src/prot.c, a ring that fsend_data fills while it *)
(* sends and breceive_char empties, and that the file transfers of cu.c     *)
(* reset.  One slot stays free, so that a full ring is not an empty one.   *)
(***************************************************************************)
EXTENDS Integers, Sequences

CONSTANTS
  Byte,       \* the characters that can be received
  CRECBUFLEN  \* the size of the buffer

ASSUME RingAssumption ==
  /\ Byte \subseteq Nat
  /\ 0 \in Byte
  /\ CRECBUFLEN \in Nat
  /\ CRECBUFLEN >= 2

VARIABLES
  abPrecbuf,   \* the buffer
  iPrecstart,  \* index of the start of the data
  iPrecend,    \* index of the first byte not included in the data
  got,         \* what breceive_char returned last: -1 timeout, -2 error
  came         \* history: what the last call read from the port

ringVars == <<abPrecbuf, iPrecstart, iPrecend, got, came>>

Slots == 0..CRECBUFLEN - 1

RingTypeOK ==
  /\ abPrecbuf \in [Slots -> Byte]
  /\ iPrecstart \in Slots
  /\ iPrecend \in Slots
  /\ got \in Byte \cup {-1, -2}
  /\ came \in Seq(Byte)

RingInit ==
  /\ abPrecbuf = [i \in Slots |-> 0]
  /\ iPrecstart = 0
  /\ iPrecend = 0
  /\ got = -1
  /\ came = <<>>

-----------------------------------------------------------------------------
(* Variants: no slot stays free; or one always at the end of the buffer. *)
RoomForAll ==
  IF iPrecend < iPrecstart THEN iPrecstart - iPrecend
  ELSE CRECBUFLEN - iPrecend

RoomLessOne ==
  IF iPrecend < iPrecstart THEN iPrecstart - iPrecend - 1
  ELSE CRECBUFLEN - iPrecend - 1

(* The space that can be read into at once: up to the data if the ring has *)
(* wrapped, else up to its end, less the slot that stays free.             *)
Room ==
  IF iPrecend < iPrecstart THEN iPrecstart - iPrecend - 1
  ELSE CRECBUFLEN - iPrecend - (IF iPrecstart = 0 THEN 1 ELSE 0)

(* fconn_io and fconn_read put n characters at the end of the data. *)
ReadIn(n) ==
  \E data \in [1..n -> Byte] :
    /\ abPrecbuf' = [i \in Slots |-> IF i \in iPrecend..iPrecend + n - 1
                                     THEN data[i - iPrecend + 1]
                                     ELSE abPrecbuf[i]]
    /\ iPrecend' = (iPrecend + n) % CRECBUFLEN
    /\ came' = data

(* fsend_data: one round of fconn_io.  Without room it only writes. *)
SendData ==
  /\ Room > 0
  /\ \E n \in 0..Room : ReadIn(n)
  /\ UNCHANGED <<iPrecstart, got>>

(* breceive_char with something in the buffer. *)
ReceiveBuffered ==
  /\ iPrecstart # iPrecend
  /\ got' = abPrecbuf[iPrecstart]
  /\ iPrecstart' = (iPrecstart + 1) % CRECBUFLEN
  /\ came' = <<>>
  /\ UNCHANGED <<abPrecbuf, iPrecend>>

(* breceive_char with nothing there: freceive_data reads what has come,    *)
(* and the first character of it is returned.                              *)
ReceiveFromPort ==
  /\ iPrecstart = iPrecend
  /\ \E n \in 1..Room : ReadIn(n)
  /\ got' = abPrecbuf'[iPrecstart]
  /\ iPrecstart' = (iPrecstart + 1) % CRECBUFLEN

(* Nothing comes in time, or the port fails. *)
ReceiveNothing ==
  /\ iPrecstart = iPrecend
  /\ got' \in {-1, -2}
  /\ came' = <<>>
  /\ UNCHANGED <<abPrecbuf, iPrecstart, iPrecend>>

(* icutake and fcusend_buf, before they look for an answer. *)
DropAll ==
  /\ iPrecstart' = 0
  /\ iPrecend' = 0
  /\ came' = <<>>
  /\ UNCHANGED <<abPrecbuf, got>>

RingNext == \/ SendData \/ ReceiveBuffered \/ ReceiveFromPort \/ ReceiveNothing
        \/ DropAll

RingSpec == RingInit /\ [][RingNext]_ringVars

-----------------------------------------------------------------------------
(* Properties *)

(* "If we have no room in the buffer, we're in trouble.  The protocols must *)
(* be written to ensure that this can't happen" (freceive_data): it is     *)
(* called by breceive_char only, with an empty buffer, which has room.     *)
RoomToReceive == iPrecstart = iPrecend => Room > 0

(* The number of characters in the ring, and the i-th of them. *)
Count ==
  IF iPrecstart <= iPrecend THEN iPrecend - iPrecstart
  ELSE iPrecend - iPrecstart + CRECBUFLEN

Slot(i) ==
  IF iPrecstart + i - 1 < CRECBUFLEN THEN iPrecstart + i - 1
  ELSE iPrecstart + i - 1 - CRECBUFLEN

Contents == [i \in 1..Count |-> abPrecbuf[Slot(i)]]

(* The ring is a queue: characters come out once each and in the order     *)
(* they came in, and a read never overwrites one that is still there       *)
(* (fsend_data, freceive_data, breceive_char).                             *)
Queue == INSTANCE ByteQueue WITH queue <- Contents

IsQueue == Queue!Spec
=============================================================================
