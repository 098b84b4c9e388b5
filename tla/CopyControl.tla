---------------------------- MODULE CopyControl ----------------------------
(***************************************************************************)
(* What system.h promises of the copying of port data to the terminal      *)
(* (src/system.h:901-933): it can be stopped, while it is stopped nothing   *)
(* of it goes on, and once it has been cleaned up it is over.  How it is    *)
(* stopped -- a second process, signals and a pipe -- is the business of    *)
(* CuCopy, which implements this module.                                   *)
(***************************************************************************)
EXTENDS Naturals, Sequences

VARIABLES
  mode,     \* what the caller of the fsysdep_cu functions may rely on
  taken,    \* how many bytes the copying has read from the port
  shown     \* the bytes the copying has written to the terminal, in order

vars == <<mode, taken, shown>>

Modes == {"copying", "stopping", "stopped", "starting", "finishing", "over"}

Init ==
  /\ mode = "copying"
  /\ taken = 0
  /\ shown = <<>>

(* A call of one of the functions, or its return.  A call that fails leads *)
(* to cleaning up, and so does leaving the session from any point.         *)
Successors ==
  [m \in Modes |->
     CASE m = "copying"   -> {"stopping", "finishing"}
       [] m = "stopping"  -> {"stopped", "finishing"}
       [] m = "stopped"   -> {"starting", "finishing"}
       [] m = "starting"  -> {"copying", "finishing"}
       [] m = "finishing" -> {"over"}
       [] m = "over"      -> {}]

ChangeMode ==
  /\ mode' \in Successors[mode]
  /\ UNCHANGED <<taken, shown>>

(* Copying goes on between any two calls, except after a stop has been     *)
(* acknowledged and after everything has been cleaned up.                  *)
Copy ==
  /\ mode \notin {"stopped", "over"}
  /\ UNCHANGED mode
  /\ \/ taken' > taken /\ UNCHANGED shown
     \/ UNCHANGED taken /\ Len(shown') > Len(shown)

Next == ChangeMode \/ Copy

Spec == Init /\ [][Next]_vars
=============================================================================
