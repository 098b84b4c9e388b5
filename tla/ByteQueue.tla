----------------------------- MODULE ByteQueue -----------------------------
(***************************************************************************)
(* What the receive buffer of src/prot.c is to its callers: a queue of the *)
(* characters that were read from the port and not yet asked for.          *)
(***************************************************************************)
EXTENDS Integers, Sequences

CONSTANT Byte

VARIABLES
  queue,  \* the characters, the one to be returned next first
  came,   \* what the last call read from the port
  got     \* what breceive_char returned last

vars == <<queue, came, got>>

NotReceived == {-1, -2}

Init == queue = <<>> /\ came = <<>> /\ got \in NotReceived

(* Characters come in while others are sent. *)
Fill ==
  /\ came' \in Seq(Byte)
  /\ queue' = queue \o came'
  /\ UNCHANGED got

Take ==
  /\ queue # <<>>
  /\ got' = Head(queue)
  /\ queue' = Tail(queue)
  /\ came' = <<>>

(* The port is asked only when nothing is left. *)
Wait ==
  /\ queue = <<>>
  /\ came' \in Seq(Byte)
  /\ IF came' = <<>> THEN got' \in NotReceived /\ UNCHANGED queue
     ELSE got' = Head(came') /\ queue' = Tail(came')

Discard ==
  /\ queue' = <<>>
  /\ came' = <<>>
  /\ UNCHANGED got

Next == Fill \/ Take \/ Wait \/ Discard

Spec == Init /\ [][Next]_vars
=============================================================================
