------------------------------- MODULE CuCopy -------------------------------
(***************************************************************************)
(* The two processes of a cu session (src/unix/cusub.c).  The parent reads *)
(* the user's keys and runs the escape commands; the child, forked by      *)
(* fsysdep_cu_init, copies the port to the terminal.  A command that needs *)
(* the port or the terminal for itself first stops the child and starts it *)
(* again at the end, with fsysdep_cu_copy: the parent sends SIGUSR2 (stop) *)
(* or SIGUSR1 (start), again every second, until the child writes 'S' or   *)
(* 'G' on a pipe.                                                          *)
(*                                                                         *)
(* A step is what one process does between two points where the other one  *)
(* or a signal can be seen.  Signals that were sent and not yet delivered  *)
(* are a set, as the kernel keeps them; when they are delivered all their  *)
(* handlers run, in either order, before the child's own code goes on.     *)
(***************************************************************************)
EXTENDS Naturals, Sequences

CONSTANTS
  BufSize,         \* size of the child's buffer (1024 in the code)
  MaxBytes,        \* bound: bytes the port delivers in a behaviour
  MaxUnread,       \* bound: the alarm resends only below this many unread answers
  TakeMayTimeOut   \* whether ~%take may leave through its early return

ASSUME ConstantsAssumption ==
  /\ BufSize \in Nat \ {0}
  /\ MaxBytes \in Nat
  /\ MaxUnread \in Nat \ {0}
  /\ TakeMayTimeOut \in BOOLEAN

VARIABLES
  mpc,           \* where the parent is
  iSsend_sig,    \* the signal the parent's alarm handler sends
  sighup,        \* the SIGHUP the child sends the parent: none, pending, recorded
  pend,          \* signals sent to the child and not yet delivered
  pipe,          \* answers of the child not yet read by the parent
  cpc,           \* where the child is
  iSchild_sig,   \* the last signal the child's handler recorded
  isig,          \* the child's local copy of it
  fstopped, fgot, abbuf, cwrite,   \* locals of uscu_child
  off,           \* zbuf - abbuf, how far the inner write loop has come
  taken,         \* history: bytes the child has read from the port
  shown          \* history: the bytes it has written to the terminal

parentVars == <<mpc, iSsend_sig>>
sigVars    == <<iSchild_sig, isig>>
dataVars   == <<fgot, abbuf, cwrite, off, taken, shown>>
vars == <<mpc, iSsend_sig, sighup, pend, pipe, cpc, iSchild_sig, isig,
          fstopped, fgot, abbuf, cwrite, off, taken, shown>>

-----------------------------------------------------------------------------
(* The parent: "loop" between two reads of a key, "tty" blocked in the read *)
(* of fsysdep_cu, "escape" blocked in the one of cscu_escape, "stopwait"    *)
(* and "startwait" in fsysdep_cu_copy, "command" between a stop and a       *)
(* start, "finwait" in fsysdep_cu_finish, "over" after it.                  *)
ParentStates == {"loop", "tty", "escape", "stopwait", "command", "startwait",
                 "finwait", "over"}

(* The child: "setup" before its handlers are installed, "ready" before it *)
(* clears iSchild_sig, then around its loop: "load" and "clear" take the   *)
(* recorded signal, "act" acts on it, "call" is about to enter pause, write *)
(* or read, "sys" is blocked in it.                                        *)
Looping     == {"load", "clear", "act", "call", "sys"}
ChildStates == {"setup", "ready", "dead"} \cup Looping

CopySignals  == {"SIGUSR1", "SIGUSR2"}
ChildSignals == CopySignals \cup {"SIGTERM"}
Signals      == ChildSignals \cup {"SIGKILL"}

CHILD_STARTED == "G"
CHILD_STOPPED == "S"
Answer == [s \in CopySignals |->
             IF s = "SIGUSR1" THEN CHILD_STARTED ELSE CHILD_STOPPED]

(* Variant: what to wait for is chosen without looking at fstopped first. *)
ReadingThoughStopped == cpc = "sys" /\ cwrite = 0

Paused  == cpc = "sys" /\ fstopped
Writing == cpc = "sys" /\ ~fstopped /\ cwrite > 0
Reading == cpc = "sys" /\ ~fstopped /\ cwrite = 0
PipeClosed == mpc \in {"finwait", "over"}

TypeOK ==
  /\ mpc \in ParentStates
  /\ iSsend_sig \in Signals \cup {"none"}
  /\ sighup \in {"none", "pending", "recorded"}
  /\ pend \in SUBSET Signals
  /\ pipe \in Seq({CHILD_STARTED, CHILD_STOPPED})
  /\ cpc \in ChildStates
  /\ iSchild_sig \in ChildSignals \cup {"none"}
  /\ isig \in ChildSignals \cup {"none"}
  /\ fstopped \in BOOLEAN
  /\ fgot \in BOOLEAN
  /\ abbuf \in Seq(Nat)
  /\ cwrite \in 0..BufSize
  /\ off \in 0..BufSize
  /\ taken \in 0..MaxBytes
  /\ shown \in Seq(Nat)

(* fsysdep_cu_init has forked the child and returned to main.  fgot starts *)
(* TRUE only for a port of type pipe.                                      *)
Init ==
  /\ mpc = "loop"
  /\ iSsend_sig = "none"
  /\ sighup = "none"
  /\ pend = {}
  /\ pipe = <<>>
  /\ cpc = "setup"
  /\ iSchild_sig = "none"
  /\ isig = "none"
  /\ fstopped = FALSE
  /\ fgot \in BOOLEAN
  /\ abbuf = <<>>
  /\ cwrite = 0
  /\ off = 0
  /\ taken = 0
  /\ shown = <<>>

-----------------------------------------------------------------------------
(* Signals *)

(* kill: nothing happens to a process that is dead and not yet waited for. *)
Kill(s) == pend' = IF cpc = "dead" THEN pend ELSE pend \cup {s}

(* All pending signals are delivered.  Before the handlers are installed   *)
(* SIGUSR1 and SIGUSR2 kill the child and SIGTERM runs the handler it      *)
(* inherited, which it never looks at.  Afterwards uscu_child_handler       *)
(* records each, so the last one stays; a system call they find blocked    *)
(* fails with EINTR and the child goes round its loop.                     *)
Deliver ==
  /\ pend # {}
  /\ cpc # "dead"
  /\ pend' = {}
  /\ \/ /\ \/ "SIGKILL" \in pend
           \/ cpc = "setup" /\ pend \cap CopySignals # {}
        /\ cpc' = "dead"
        /\ UNCHANGED iSchild_sig
     \/ /\ cpc = "setup"
        /\ pend \cap (CopySignals \cup {"SIGKILL"}) = {}
        /\ UNCHANGED <<cpc, iSchild_sig>>
     \/ /\ cpc # "setup"
        /\ "SIGKILL" \notin pend
        /\ iSchild_sig' \in pend
        /\ cpc' = IF cpc = "sys" THEN "load" ELSE cpc
  /\ UNCHANGED <<parentVars, sighup, pipe, isig, fstopped, dataVars>>

(* The child hangs up on its parent and exits. *)
ExitWithHangup ==
  /\ cpc' = "dead"
  /\ sighup' = "pending"

-----------------------------------------------------------------------------
(* The child *)

InstallHandlers ==
  /\ cpc = "setup"
  /\ cpc' = "ready"
  /\ UNCHANGED <<parentVars, sighup, pend, pipe, sigVars, fstopped, dataVars>>

EnterLoop ==
  /\ cpc = "ready"
  /\ cpc' = "load"
  /\ fstopped' = FALSE
  /\ iSchild_sig' = "none"
  /\ cwrite' = 0
  /\ UNCHANGED <<parentVars, sighup, pend, pipe, isig, fgot, abbuf, off,
                 taken, shown>>

(* isig = iSchild_sig; a signal that arrives before the next step is lost. *)
LoadSignal ==
  /\ cpc = "load"
  /\ cpc' = "clear"
  /\ isig' = iSchild_sig
  /\ UNCHANGED <<parentVars, sighup, pend, pipe, iSchild_sig, fstopped, dataVars>>

(* iSchild_sig = 0 *)
ClearSignal ==
  /\ cpc = "clear"
  /\ cpc' = "act"
  /\ iSchild_sig' = "none"
  /\ UNCHANGED <<parentVars, sighup, pend, pipe, isig, fstopped, dataVars>>

(* Variant: zbuf is set to abbuf once, not on every pass. *)
NoSignalKeepsOffset ==
  /\ cpc = "act"
  /\ isig = "none"
  /\ cpc' = "call"
  /\ UNCHANGED <<parentVars, sighup, pend, pipe, sigVars, fstopped, dataVars>>

(* Before each system call zbuf is set to the start of abbuf again. *)
NoSignal ==
  /\ cpc = "act"
  /\ isig = "none"
  /\ cpc' = "call"
  /\ off' = 0
  /\ UNCHANGED <<parentVars, sighup, pend, pipe, sigVars, fstopped, fgot,
                 abbuf, cwrite, taken, shown>>

Terminate ==
  /\ cpc = "act"
  /\ isig = "SIGTERM"
  /\ cpc' = "dead"
  /\ UNCHANGED <<parentVars, sighup, pend, pipe, sigVars, fstopped, dataVars>>

(* The answer goes to the pipe; a write on the closed pipe kills the child *)
(* with SIGPIPE.  Then on to the system call, with zbuf at the start.      *)
WriteAnswer(b) ==
  /\ IF PipeClosed
     THEN cpc' = "dead" /\ UNCHANGED pipe
     ELSE cpc' = "call" /\ pipe' = Append(pipe, b)
  /\ off' = 0
  /\ isig' = "none"
  /\ UNCHANGED <<parentVars, sighup, pend, iSchild_sig, fgot, abbuf, taken, shown>>

(* Variant: a start is answered without clearing fstopped. *)
AnswerStartStaysStopped ==
  /\ cpc = "act"
  /\ isig = "SIGUSR1"
  /\ WriteAnswer(CHILD_STARTED)
  /\ UNCHANGED <<fstopped, cwrite>>

AnswerStart ==
  /\ cpc = "act"
  /\ isig = "SIGUSR1"
  /\ fstopped' = FALSE
  /\ WriteAnswer(CHILD_STARTED)
  /\ UNCHANGED cwrite

(* Variant: the copying is to end only when the buffer is written out. *)
AnswerStopAfterBuffer ==
  /\ cpc = "act"
  /\ isig = "SIGUSR2"
  /\ fstopped' = (cwrite = 0)
  /\ WriteAnswer(CHILD_STOPPED)
  /\ UNCHANGED cwrite

(* A stop drops what the buffer still holds. *)
AnswerStop ==
  /\ cpc = "act"
  /\ isig = "SIGUSR2"
  /\ fstopped' = TRUE
  /\ cwrite' = 0
  /\ WriteAnswer(CHILD_STOPPED)

EnterSystemCall ==
  /\ cpc = "call"
  /\ cpc' = "sys"
  /\ UNCHANGED <<parentVars, sighup, pend, pipe, sigVars, fstopped, dataVars>>

(* The port gives n bytes. *)
ReadPort(n) ==
  /\ Reading
  /\ taken + n <= MaxBytes
  /\ cpc' = "load"
  /\ fgot' = TRUE
  /\ abbuf' = [i \in 1..n |-> taken + i]
  /\ cwrite' = n
  /\ taken' = taken + n
  /\ UNCHANGED <<parentVars, sighup, pend, pipe, sigVars, fstopped, off, shown>>

(* The read returns 0 or EAGAIN: a hangup, but not before the first byte. *)
ReadNothing ==
  /\ Reading
  /\ IF fgot THEN ExitWithHangup ELSE cpc' = "load" /\ UNCHANGED sighup
  /\ UNCHANGED <<parentVars, pend, pipe, sigVars, fstopped, dataVars>>

(* The terminal takes n bytes.  The inner loop goes on without looking at  *)
(* iSchild_sig until the buffer is empty or a write is interrupted.        *)
WriteTerminal(n) ==
  /\ Writing
  /\ n <= cwrite
  /\ shown' = shown \o SubSeq(abbuf, off + 1, off + n)
  /\ cwrite' = cwrite - n
  /\ off' = off + n
  /\ cpc' = IF n = cwrite THEN "load" ELSE "call"
  /\ UNCHANGED <<parentVars, sighup, pend, pipe, sigVars, fstopped, fgot,
                 abbuf, taken>>

(* An error on the port or the terminal ends the child. *)
CopyFails ==
  /\ Reading \/ Writing
  /\ ExitWithHangup
  /\ UNCHANGED <<parentVars, pend, pipe, sigVars, fstopped, dataVars>>

Child ==
  \/ InstallHandlers \/ EnterLoop \/ LoadSignal \/ ClearSignal
  \/ NoSignal \/ Terminate \/ AnswerStart \/ AnswerStop
  \/ EnterSystemCall

Copying ==
  \/ \E n \in 1..BufSize : ReadPort(n) \/ WriteTerminal(n)
  \/ ReadNothing \/ CopyFails

childSide == <<cpc, iSchild_sig, isig, fstopped, dataVars>>
-----------------------------------------------------------------------------
(* The parent *)

(* fsysdep_cu_copy: name the signal for the alarm handler, call it once,   *)
(* set the alarm, and wait for the answer in the state st.                 *)
BeginCopy(s, st) ==
  /\ mpc' = st
  /\ iSsend_sig' = s
  /\ Kill(s)
  /\ UNCHANGED <<sighup, pipe, childSide>>

(* fsysdep_cu_finish, from main or from ucuabort: close the pipe, send     *)
(* SIGTERM, leave SIGKILL to the alarm and wait for the child.             *)
StartFinish ==
  /\ mpc' = "finwait"
  /\ iSsend_sig' = "SIGKILL"
  /\ pipe' = <<>>
  /\ Kill("SIGTERM")
  /\ UNCHANGED childSide

Finish == StartFinish /\ UNCHANGED sighup

MoveTo(st) ==
  /\ mpc' = st
  /\ UNCHANGED <<iSsend_sig, sighup, pend, pipe, childSide>>

AwaitKey == mpc = "loop" /\ MoveTo("tty")

(* A key is written to the port, or is the escape character.  The write    *)
(* fails once a SIGHUP is recorded and whenever the line fails.            *)
TypeKey ==
  /\ mpc = "tty"
  /\ \/ sighup # "recorded" /\ MoveTo("loop")
     \/ MoveTo("escape")

(* The read or the write fails, or the terminal is at end of file. *)
LoseTerminal == mpc = "tty" /\ Finish

(* The character after the escape: a second escape character is written to *)
(* the port, a command that leaves the copying alone returns to the loop,  *)
(* the commands ! $ | + z and the file transfers stop it, and . quits.     *)
TypeCommand ==
  /\ mpc = "escape"
  /\ \/ MoveTo("loop")
     \/ BeginCopy("SIGUSR2", "stopwait")
     \/ Finish

CommandEnds == mpc = "command" /\ BeginCopy("SIGUSR1", "startwait")

(* Any error of the command runs ucuabort. *)
CommandAborts == mpc = "command" /\ Finish

(* icutake gives up on a silent remote and returns to the loop at once. *)
CommandTimesOut == TakeMayTimeOut /\ mpc = "command" /\ MoveTo("loop")

(* Variants: the start or stop signal is sent once only; no SIGKILL follows *)
(* the SIGTERM.                                                            *)
ResendOnlyInFinish ==
  /\ mpc = "finwait"
  /\ Kill(iSsend_sig)
  /\ UNCHANGED <<parentVars, sighup, pipe, childSide>>

ResendNotInFinish ==
  /\ mpc \in {"stopwait", "startwait"}
  /\ Len(pipe) < MaxUnread
  /\ Kill(iSsend_sig)
  /\ UNCHANGED <<parentVars, sighup, pipe, childSide>>

(* The alarm handler sends iSsend_sig again and sets the next alarm. *)
Resend ==
  /\ mpc \in {"stopwait", "startwait", "finwait"}
  /\ Len(pipe) < MaxUnread
  /\ Kill(iSsend_sig)
  /\ UNCHANGED <<parentVars, sighup, pipe, childSide>>

(* The wrong answer is one the child gave to an earlier call. *)
ReadAnswer ==
  /\ mpc \in {"stopwait", "startwait"}
  /\ pipe # <<>>
  /\ pipe' = Tail(pipe)
  /\ mpc' = IF Head(pipe) # Answer[iSsend_sig] THEN mpc
            ELSE IF mpc = "stopwait" THEN "command" ELSE "loop"
  /\ UNCHANGED <<iSsend_sig, sighup, pend, childSide>>

(* End of file: the child is dead.  The caller runs ucuabort. *)
ReadEnd ==
  /\ mpc \in {"stopwait", "startwait"}
  /\ pipe = <<>>
  /\ cpc = "dead"
  /\ Finish

(* SIGHUP ends the wait for a key if it finds the parent blocked in        *)
(* fsysdep_cu; everywhere else it is recorded and the wait goes on.        *)
Hangup ==
  /\ sighup = "pending"
  /\ sighup' = "recorded"
  /\ IF mpc = "tty"
     THEN StartFinish
     ELSE UNCHANGED <<parentVars, pend, pipe, childSide>>

Reap ==
  /\ mpc = "finwait"
  /\ cpc = "dead"
  /\ mpc' = "over"
  /\ UNCHANGED <<iSsend_sig, sighup, pend, pipe, childSide>>

Parent ==
  \/ AwaitKey \/ TypeKey \/ LoseTerminal \/ TypeCommand
  \/ CommandEnds \/ CommandAborts \/ CommandTimesOut
  \/ Resend \/ ReadAnswer \/ ReadEnd \/ Hangup \/ Reap

-----------------------------------------------------------------------------
Next == Deliver \/ Child \/ Copying \/ Parent

Spec == Init /\ [][Next]_vars

(* Each process runs when it can, and signals arrive.  The last two say     *)
(* that the one-second alarm does not for ever miss a child that keeps      *)
(* coming back to its blocking system calls: the window between LoadSignal  *)
(* and ClearSignal is two instructions wide and nothing ties the timer to   *)
(* it.  Nothing is assumed of the user, of the port or of the terminal.     *)
Fairness ==
  /\ WF_vars(Child)
  /\ WF_vars(Deliver)
  /\ WF_vars(Resend)
  /\ WF_vars(ReadAnswer \/ ReadEnd \/ Reap)
  /\ SF_vars(Resend /\ cpc = "sys")
  /\ SF_vars(Deliver /\ cpc = "sys")

FairSpec == Spec /\ Fairness
-----------------------------------------------------------------------------
(* A signal the child has been sent and has not acted on, if nothing       *)
(* overtakes it: not yet delivered, recorded, or taken by the loop.        *)
Delivered(s) == iSchild_sig = s \/ (cpc \in {"clear", "act"} /\ isig = s)
Has(s) == s \in pend \/ Delivered(s)

(* While a command of the user runs, the port and the terminal are the     *)
(* parent's: the child is stopped, and no start signal of an earlier       *)
(* command is on its way to it (src/unix/cusub.c:445-501; the commands of  *)
(* src/cu.c rely on it for every byte they read).                          *)
CommandOwnsPort ==
  mpc = "command" /\ cpc # "dead" => fstopped /\ ~ Has("SIGUSR1")

(* While the user types to the remote system, the child copies: it is not  *)
(* stopped, and no stop signal of an earlier command is on its way.  The   *)
(* program has just printed "[connected]" to say so (src/cu.c:143-150).    *)
ConnectedMeansCopying ==
  mpc \in {"loop", "tty", "escape"} /\ cpc # "dead" =>
    ~ fstopped /\ ~ Has("SIGUSR2")

(* The child never writes to the terminal what it has not read: the rest   *)
(* of the buffer always lies inside what the last read put there, however  *)
(* writes are cut short and interrupted (src/unix/cusub.c:668-695).        *)
WritesWhatWasRead == Writing => off + cwrite <= Len(abbuf)

(* Every call of fsysdep_cu_copy returns, with the answer it waits for or  *)
(* with an error, though any one signal may be lost in the child           *)
(* (src/unix/cusub.c:447-448, 626-629).                                    *)
CopyCallsReturn ==
  /\ mpc = "stopwait" ~> mpc # "stopwait"
  /\ mpc = "startwait" ~> mpc # "startwait"

(* fsysdep_cu_finish returns: a child that misses SIGTERM is killed by the *)
(* alarm (src/unix/cusub.c:512-530).                                       *)
FinishReturns == mpc = "finwait" ~> mpc = "over"

(* What reaches the terminal is in the order of the port, no byte twice:   *)
(* system.h says that all data is copied (src/system.h:912).               *)
ShownInOrder ==
  \A i, j \in DOMAIN shown : i < j => shown[i] < shown[j]

(* The protocol implements the control of copying that system.h promises:  *)
(* between an acknowledged stop and the next start nothing is read from    *)
(* the port and nothing is shown (src/system.h:901-933).                   *)
Control == INSTANCE CopyControl WITH
  mode <- CASE mpc \in {"loop", "tty", "escape"} -> "copying"
            [] mpc = "stopwait"  -> "stopping"
            [] mpc = "command"   -> "stopped"
            [] mpc = "startwait" -> "starting"
            [] mpc = "finwait"   -> "finishing"
            [] mpc = "over"      -> "over"

ImplementsCopyControl == Control!Spec
=============================================================================
