---------------------------- MODULE LineTransfer ----------------------------
(***************************************************************************)
(* What a checked ~%put or ~> of src/cu.c promises: the remote side gets   *)
(* the lines of the file, each once and in their order, and the transfer   *)
(* is not called complete before it has all of them.  A transfer that is   *)
(* given up may have got any number of them.                               *)
(***************************************************************************)
EXTENDS Naturals, Sequences

VARIABLES
  text,       \* the lines to be sent
  delivered,  \* the lines the remote side has
  outcome     \* "sending", "complete" or "stopped"

vars == <<text, delivered, outcome>>

Init == delivered = <<>> /\ outcome = "sending"

Deliver ==
  /\ Len(delivered) < Len(text)
  /\ delivered' = Append(delivered, text[Len(delivered) + 1])
  /\ UNCHANGED <<text, outcome>>

(* The end of the file hands over a last line that has no newline. *)
Complete ==
  /\ outcome = "sending"
  /\ \/ UNCHANGED delivered
     \/ delivered' = Append(delivered, text[Len(text)])
  /\ delivered' = text
  /\ outcome' = "complete"
  /\ UNCHANGED text

Stop ==
  /\ outcome = "sending"
  /\ outcome' = "stopped"
  /\ UNCHANGED <<text, delivered>>

Next == Deliver \/ Complete \/ Stop

Spec == Init /\ [][Next]_vars
=============================================================================
