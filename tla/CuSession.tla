------------------------------ MODULE CuSession ------------------------------
(***************************************************************************)
(* A cu session from the connection to the exit, as the user's terminal    *)
(* sees it: main, fcudo_cmd, ucuabort and the log callbacks of src/cu.c     *)
(* over the terminal functions of src/unix/cusub.c.  The terminal is put   *)
(* into raw mode for the session, back into the user's mode for prompts,   *)
(* shells, suspensions and log messages, and lets the user interrupt file  *)
(* transfers.  What was the user's mode is read from the terminal again     *)
(* every time raw mode is entered, and the log enters it from anywhere.    *)
(*                                                                         *)
(* The copying child is its contract, CopyControl, which CuCopy implements. *)
(* A step is what the program does between two points at which the user, a *)
(* signal or the child can intervene.                                      *)
(***************************************************************************)
EXTENDS Naturals, Sequences

CONSTANTS
  UserModes,       \* the terminal modes a user may choose, with stty
  PromptMayFail,   \* whether the user interrupts or closes a prompt
  TakeMayTimeOut,  \* whether ~%take may leave through its early return
  Debugging        \* whether debugging messages are written (-d, ~%debug)

ASSUME ConstantsAssumption ==
  /\ UserModes # {}
  /\ PromptMayFail \in BOOLEAN
  /\ TakeMayTimeOut \in BOOLEAN
  /\ Debugging \in BOOLEAN

VARIABLES
  at,                   \* where the program is
  cmd,                  \* the escape command it is executing
  isatty,               \* descriptor 0 is a terminal that has not hung up
  term,                 \* the terminal and what cusub.c remembers of it
  fCurestore_terminal,  \* ulog and ucuabort are to restore the terminal
  fCustarted,           \* ucuabort is to finish the child
  copy,                 \* the child, by CopyControl; "none" before the fork
  tstp,                 \* the disposition of SIGTSTP
  fStstp_ignored,       \* what fsysdep_terminal_signals remembers of it
  afSignal,             \* keyboard signals recorded by ussignal
  afLog_signal,         \* those of them still to be logged
  want,                 \* history: the mode the user last gave the terminal
  inherited,            \* history: the disposition cu was started with
  late                  \* history: keyboard signals since the last prompt

session  == <<at, cmd>>
tstpVars == <<tstp, fStstp_ignored>>
sigVars  == <<afSignal, afLog_signal, late>>
flags    == <<fCurestore_terminal, fCustarted>>
given    == <<want, inherited>>
vars == <<at, cmd, isatty, term, fCurestore_terminal, fCustarted, copy, tstp,
          fStstp_ignored, afSignal, afLog_signal, want, inherited, late>>

-----------------------------------------------------------------------------
(* "enter" just connected; "keys" in fsysdep_cu; "line" in the read of     *)
(* zsysdep_terminal_line; "command" executing one; "stopping", "starting"  *)
(* in fsysdep_cu_copy; "shell", "suspended", "transfer" what it was stopped *)
(* for; then the steps of main and ucuabort to the exit.                   *)
Places == {"enter", "keys", "line", "command", "stopping", "shell",
           "suspended", "transfer", "starting", "finishing", "restoring",
           "closing", "exited"}

Transfers == {"put", "take"}
Prompting == {"quick", "shell"} \cup Transfers
Commands  == Prompting \cup {"suspend"}

Keyboard == {"SIGINT", "SIGQUIT"}

(* A mode: the user's settings, whether fsysdep_terminal_raw has changed   *)
(* them, and whether the keyboard sends signals.                           *)
Modes == [user : UserModes, raw : BOOLEAN, isig : BOOLEAN]

UserMode(u) == [user |-> u, raw |-> FALSE, isig |-> TRUE]

RawMode(mode) == [mode EXCEPT !.raw = TRUE, !.isig = FALSE]

(* The terminal's own mode, sSterm_orig, sSterm_new and fSterm. *)
Terminals == [tty : Modes, orig : Modes, new : Modes, fSterm : BOOLEAN]

TypeOK ==
  /\ at \in Places
  /\ cmd \in Commands \cup {"none"}
  /\ isatty \in BOOLEAN
  /\ term \in Terminals
  /\ fCurestore_terminal \in BOOLEAN
  /\ fCustarted \in BOOLEAN
  /\ copy \in {"none", "copying", "stopping", "stopped", "starting",
               "finishing", "over"}
  /\ tstp \in {"DFL", "IGN"}
  /\ fStstp_ignored \in BOOLEAN
  /\ afSignal \in SUBSET Keyboard
  /\ afLog_signal \in SUBSET Keyboard
  /\ want \in UserModes
  /\ inherited \in {"DFL", "IGN"}
  /\ late \in SUBSET Keyboard

Init ==
  /\ at = "enter"
  /\ cmd = "none"
  /\ isatty \in BOOLEAN
  /\ want \in UserModes
  /\ term = [tty |-> UserMode(want), orig |-> UserMode(want),
             new |-> UserMode(want), fSterm |-> FALSE]
  /\ fCurestore_terminal = FALSE
  /\ fCustarted = FALSE
  /\ copy = "none"
  /\ inherited \in {"DFL", "IGN"}
  /\ tstp = inherited
  /\ fStstp_ignored = FALSE
  /\ afSignal = {}
  /\ afLog_signal = {}
  /\ late = {}

-----------------------------------------------------------------------------
(* The terminal *)

(* fsysdep_terminal_raw: when descriptor 0 has no terminal mode, it is     *)
(* only remembered that there is none.                                     *)
Raw(t) ==
  IF isatty THEN [tty |-> RawMode(t.tty), orig |-> t.tty,
                  new |-> RawMode(t.tty), fSterm |-> TRUE]
            ELSE [t EXCEPT !.fSterm = FALSE]

(* fsysdep_terminal_restore, and whether it succeeds. *)
Restore(t) == IF isatty /\ t.fSterm THEN [t EXCEPT !.tty = t.orig] ELSE t
CanRestore(t) == isatty \/ ~ t.fSterm

(* Variant: the new setting is remembered and not given to the terminal. *)
AcceptUnset(t, faccept) == [t EXCEPT !.new.isig = faccept]

(* The terminal's half of fsysdep_terminal_signals; it needs a terminal. *)
Accept(t, faccept) == [t EXCEPT !.new.isig = faccept,
                                !.tty = [t.new EXCEPT !.isig = faccept]]

(* What uculog_start and uculog_end do around a message. *)
Logged(t) == IF fCurestore_terminal THEN Raw(Restore(t)) ELSE t
CanLog == fCurestore_terminal => CanRestore(term)

(* ulog called with a message, or with NULL to log the signals received. *)
Log ==
  /\ CanLog
  /\ term' = Logged(term)
  /\ afLog_signal' = {}

LogSignals ==
  IF afLog_signal # {} THEN Log ELSE UNCHANGED <<term, afLog_signal>>

(* SIGTSTP in fsysdep_terminal_signals. *)
IgnoreTstp ==
  /\ fStstp_ignored' = (tstp = "IGN")
  /\ tstp' = "IGN"

RestoreTstp ==
  /\ tstp' = IF fStstp_ignored THEN tstp ELSE "DFL"
  /\ UNCHANGED fStstp_ignored

-----------------------------------------------------------------------------
(* Beginning and end *)

(* main: raw mode, then the child. *)
Enter ==
  /\ at = "enter"
  /\ at' = "keys"
  /\ term' = Raw(term)
  /\ fCurestore_terminal' = TRUE
  /\ fCustarted' = TRUE
  /\ copy' = "copying"
  /\ UNCHANGED <<cmd, isatty, tstpVars, sigVars, given>>

(* fsysdep_cu_init fails, before or at the fork. *)
EnterFails ==
  /\ at = "enter"
  /\ at' = "restoring"
  /\ term' = Raw(term)
  /\ fCurestore_terminal' = TRUE
  /\ UNCHANGED <<cmd, isatty, fCustarted, copy, tstpVars, sigVars, given>>

(* fsysdep_cu returns FALSE -- a signal, the end of the keys, a port that  *)
(* cannot be written -- or the user types "~.".  The former log something. *)
LeaveKeys ==
  /\ at = "keys"
  /\ at' = "finishing"
  /\ fCustarted' = FALSE
  /\ copy' = "finishing"
  /\ \/ Log
     \/ UNCHANGED <<term, afLog_signal>>
  /\ UNCHANGED <<cmd, isatty, fCurestore_terminal, tstpVars, afSignal, late,
                 given>>

(* Variant: the child is left for the operating system. *)
AbortKeepsChild ==
  /\ fCustarted' = FALSE
  /\ at' = "restoring"
  /\ UNCHANGED copy

(* ucuabort up to the end of the child, except that at a failure of the    *)
(* terminal itself the log has given up restoring it.                      *)
Abort ==
  /\ fCustarted' = FALSE
  /\ IF fCustarted
     THEN at' = "finishing" /\ copy' = "finishing"
     ELSE at' = "restoring" /\ UNCHANGED copy

(* Something a command needs has failed: the port, the child, a break. *)
CommandFails ==
  /\ at \in {"command", "stopping", "transfer", "starting"}
  /\ Abort
  /\ \/ Log
     \/ UNCHANGED <<term, afLog_signal>>
  /\ UNCHANGED <<cmd, isatty, fCurestore_terminal, tstpVars, afSignal, late,
                 given>>

(* The terminal cannot be restored for a message or a command. *)
TerminalFails ==
  /\ at \in {"keys", "line", "command", "stopping", "transfer", "starting"}
  /\ ~ CanRestore(term)
  /\ Abort
  /\ fCurestore_terminal' = FALSE
  /\ afLog_signal' = {}
  /\ UNCHANGED <<cmd, isatty, term, tstpVars, afSignal, late, given>>

(* fsysdep_cu_finish has waited for the child, logging what interrupts it. *)
Finished ==
  /\ at = "finishing"
  /\ at' = "restoring"
  /\ copy' = "over"
  /\ \/ Log
     \/ UNCHANGED <<term, afLog_signal>>
  /\ UNCHANGED <<cmd, isatty, flags, tstpVars, afSignal, late, given>>

(* ... or the log could not restore the terminal: a second ucuabort, inside *)
(* the first or main, goes on without waiting.                             *)
FinishFails ==
  /\ at = "finishing"
  /\ ~ CanLog
  /\ at' = "closing"
  /\ fCurestore_terminal' = FALSE
  /\ afLog_signal' = {}
  /\ UNCHANGED <<cmd, isatty, term, fCustarted, copy, tstpVars, afSignal,
                 late, given>>

RestoreAtEnd ==
  /\ at = "restoring"
  /\ at' = "closing"
  /\ fCurestore_terminal' = FALSE
  /\ term' = IF fCurestore_terminal THEN Restore(term) ELSE term
  /\ UNCHANGED <<cmd, isatty, fCustarted, copy, tstpVars, sigVars, given>>

(* The connection is closed and unlocked, and ulog_close logs the rest. *)
Close ==
  /\ at = "closing"
  /\ at' = "exited"
  /\ LogSignals
  /\ UNCHANGED <<cmd, isatty, flags, copy, tstpVars, afSignal, late, given>>

-----------------------------------------------------------------------------
(* Prompts: zsysdep_terminal_line *)

(* Variant: signals of an earlier shell are not forgotten. *)
PromptRemembersSignals(c) ==
  /\ \/ at = "keys" /\ c \in Prompting
     \/ at = "command" /\ c = cmd /\ c \in Transfers
  /\ CanRestore(term)
  /\ at' = "line"
  /\ cmd' = c
  /\ late' = {}
  /\ term' = Restore(term)
  /\ UNCHANGED <<isatty, flags, copy, tstpVars, afSignal, afLog_signal, given>>

(* The first prompt of a command takes the rest of its line, the others    *)
(* the file names it did not give.                                         *)
Prompt(c) ==
  /\ \/ at = "keys" /\ c \in Prompting
     \/ at = "command" /\ c = cmd /\ c \in Transfers
  /\ CanRestore(term)
  /\ at' = "line"
  /\ cmd' = c
  /\ afSignal' = {}
  /\ late' = {}
  /\ term' = Restore(term)
  /\ UNCHANGED <<isatty, flags, copy, tstpVars, afLog_signal, given>>

LineRead ==
  /\ at = "line"
  /\ at' = "command"
  /\ term' = Raw(term)
  /\ UNCHANGED <<cmd, isatty, flags, copy, tstpVars, sigVars, given>>

(* The signal is logged, which leaves the terminal in raw mode, and that   *)
(* is then taken for the user's mode.                                      *)
LineInterrupted ==
  /\ at = "line"
  /\ afSignal # {}
  /\ CanLog
  /\ at' = "command"
  /\ term' = Raw(Logged(term))
  /\ afLog_signal' = {}
  /\ UNCHANGED <<cmd, isatty, flags, copy, tstpVars, afSignal, late, given>>

(* End of file or an error: as above, and the caller runs ucuabort. *)
LineEnds ==
  /\ PromptMayFail
  /\ at = "line"
  /\ CanLog
  /\ term' = Raw(Logged(term))
  /\ afLog_signal' = {}
  /\ Abort
  /\ UNCHANGED <<cmd, isatty, fCurestore_terminal, tstpVars, afSignal, late,
                 given>>

-----------------------------------------------------------------------------
(* Commands *)

Suspend ==
  /\ at = "keys"
  /\ at' = "stopping"
  /\ cmd' = "suspend"
  /\ copy' = "stopping"
  /\ UNCHANGED <<isatty, term, flags, tstpVars, sigVars, given>>

(* A command is over without having stopped the child: it was a short one, *)
(* it was mistyped and a message logged, or the file cannot be opened.     *)
CommandDone ==
  /\ at = "command"
  /\ at' = "keys"
  /\ cmd' = "none"
  /\ \/ Log
     \/ UNCHANGED <<term, afLog_signal>>
  /\ UNCHANGED <<isatty, flags, copy, tstpVars, afSignal, late, given>>

StopCopying ==
  /\ at = "command"
  /\ cmd # "quick"
  /\ at' = "stopping"
  /\ copy' = "stopping"
  /\ UNCHANGED <<cmd, isatty, term, flags, tstpVars, sigVars, given>>

(* Variant: the terminal stays as it is. *)
LeaveTerminalRaw ==
  /\ at = "stopping"
  /\ cmd \notin Transfers
  /\ at' = IF cmd = "shell" THEN "shell" ELSE "suspended"
  /\ copy' = "stopped"
  /\ fCurestore_terminal' = FALSE
  /\ UNCHANGED <<cmd, isatty, term, fCustarted, tstpVars, sigVars, given>>

(* ~! and its relatives, and ~z; SIGTSTP stops nothing when it is ignored. *)
LeaveTerminal ==
  /\ at = "stopping"
  /\ cmd \notin Transfers
  /\ CanRestore(term)
  /\ at' = IF cmd = "shell" THEN "shell" ELSE "suspended"
  /\ copy' = "stopped"
  /\ term' = Restore(term)
  /\ fCurestore_terminal' = FALSE
  /\ UNCHANGED <<cmd, isatty, fCustarted, tstpVars, sigVars, given>>

(* The shell has ended, or cu runs again.  Signals are logged by ixswait.  *)
Return ==
  /\ at \in {"shell", "suspended"}
  /\ at' = "starting"
  /\ copy' = "starting"
  /\ LogSignals
  /\ UNCHANGED <<cmd, isatty, flags, tstpVars, afSignal, late, given>>

(* Variant: raw mode is entered while the child is being started, before   *)
(* the shell's changes can be seen.                                        *)
BackToKeysStaleMode ==
  /\ at = "starting"
  /\ cmd \notin Transfers
  /\ at' = "keys"
  /\ cmd' = "none"
  /\ copy' = "copying"
  /\ term' = [term EXCEPT !.tty = term.new]
  /\ fCurestore_terminal' = TRUE
  /\ UNCHANGED <<isatty, fCustarted, tstpVars, sigVars, given>>

BackToKeys ==
  /\ at = "starting"
  /\ cmd \notin Transfers
  /\ at' = "keys"
  /\ cmd' = "none"
  /\ copy' = "copying"
  /\ term' = Raw(term)
  /\ fCurestore_terminal' = TRUE
  /\ UNCHANGED <<isatty, fCustarted, tstpVars, sigVars, given>>

-----------------------------------------------------------------------------
(* File transfers *)

(* Without a terminal, fsysdep_terminal_signals fails, fSterm or not. *)
BeginTransfer ==
  /\ at = "stopping"
  /\ cmd \in Transfers
  /\ copy' = "stopped"
  /\ IgnoreTstp
  /\ isatty
  /\ at' = "transfer"
  /\ term' = Accept(term, TRUE)
  /\ UNCHANGED <<cmd, isatty, flags, sigVars, given>>

(* Variant: an early return, as in TakeTimesOut, that puts back the terminal. *)
TransferOverLeavesStopped ==
  /\ at = "transfer"
  /\ at' = "keys"
  /\ cmd' = "none"
  /\ term' = Accept(term, FALSE)
  /\ RestoreTstp
  /\ UNCHANGED <<isatty, flags, copy, sigVars, given>>

(* The transfer is complete or is given up: an echo does not come, the     *)
(* file cannot be read or written; or a signal was seen, and is logged.    *)
TransferOver ==
  /\ at = "transfer"
  /\ at' = "starting"
  /\ copy' = "starting"
  /\ \/ UNCHANGED <<term, afLog_signal, afSignal>>
     \/ afSignal # {} /\ LogSignals /\ afSignal' = afSignal \ {"SIGINT"}
  /\ UNCHANGED <<cmd, isatty, flags, tstpVars, late, given>>

(* ~%take: no newline of the echoed command came in time. *)
TakeTimesOut ==
  /\ TakeMayTimeOut
  /\ at = "transfer"
  /\ cmd = "take"
  /\ at' = "keys"
  /\ cmd' = "none"
  /\ UNCHANGED <<isatty, term, flags, copy, tstpVars, sigVars, given>>

(* Variant: the signals stay. *)
EndTransferKeepsSignals ==
  /\ at = "starting"
  /\ cmd \in Transfers
  /\ isatty
  /\ at' = "keys"
  /\ cmd' = "none"
  /\ copy' = "copying"
  /\ RestoreTstp
  /\ UNCHANGED <<isatty, term, flags, sigVars, given>>

EndTransfer ==
  /\ at = "starting"
  /\ cmd \in Transfers
  /\ isatty
  /\ at' = "keys"
  /\ cmd' = "none"
  /\ copy' = "copying"
  /\ RestoreTstp
  /\ term' = Accept(term, FALSE)
  /\ UNCHANGED <<isatty, flags, sigVars, given>>

(* There is no terminal to accept or refuse signals from. *)
SignalsFail ==
  /\ at \in {"stopping", "starting"}
  /\ cmd \in Transfers
  /\ ~ isatty
  /\ IF at = "stopping" THEN IgnoreTstp ELSE RestoreTstp
  /\ Abort
  /\ fCurestore_terminal' = (fCurestore_terminal /\ CanRestore(term))
  /\ term' = IF CanLog THEN Logged(term) ELSE term
  /\ afLog_signal' = {}
  /\ UNCHANGED <<cmd, isatty, afSignal, late, given>>

-----------------------------------------------------------------------------
(* The user and the terminal *)

(* A message of fconn_write, fconn_read, fconn_io or fsysdep_cu_copy. *)
DebugMessage ==
  /\ Debugging
  /\ at \in {"keys", "stopping", "transfer", "starting"}
  /\ Log
  /\ UNCHANGED <<at, cmd, isatty, flags, copy, tstpVars, afSignal, late,
                 given>>

(* ^C or ^\, at a terminal that sends signals for them. *)
Interrupt ==
  /\ isatty
  /\ term.tty.isig
  /\ at \notin {"suspended", "exited"}
  /\ at = "line" => PromptMayFail
  /\ \E s \in Keyboard :
       /\ afSignal' = afSignal \cup {s}
       /\ afLog_signal' = afLog_signal \cup {s}
       /\ late' = late \cup {s}
  /\ UNCHANGED <<session, isatty, term, flags, copy, tstpVars, given>>

(* The shell's commands, or those the user runs while cu is suspended by   *)
(* ~z or by ^Z at a prompt, set the terminal.                              *)
SetTerminal ==
  /\ isatty
  /\ \/ at \in {"shell", "suspended"}
     \/ at = "line" /\ tstp = "DFL" /\ term.tty.isig
  /\ \E u \in UserModes :
       /\ term' = [term EXCEPT !.tty = UserMode(u)]
       /\ want' = u
  /\ UNCHANGED <<session, isatty, flags, copy, tstpVars, sigVars, inherited>>

HangUp ==
  /\ isatty
  /\ at # "exited"
  /\ isatty' = FALSE
  /\ UNCHANGED <<session, term, flags, copy, tstpVars, sigVars, given>>

Next ==
  \/ Enter \/ EnterFails \/ LeaveKeys \/ CommandFails \/ TerminalFails
  \/ Finished \/ FinishFails \/ RestoreAtEnd \/ Close
  \/ (\E c \in Prompting : Prompt(c)) \/ LineRead \/ LineInterrupted \/ LineEnds
  \/ Suspend \/ CommandDone \/ StopCopying \/ LeaveTerminal \/ Return \/ BackToKeys
  \/ BeginTransfer \/ TransferOver \/ TakeTimesOut \/ EndTransfer \/ SignalsFail
  \/ DebugMessage \/ Interrupt \/ SetTerminal \/ HangUp

Spec == Init /\ [][Next]_vars
-----------------------------------------------------------------------------
(* However the session ends, the terminal is left in the mode the user     *)
(* last gave it: before the session, from a shell or while cu was          *)
(* suspended (src/unix/cusub.c:735-736, 846; src/cu.c:798-811).            *)
TerminalGivenBack == at = "exited" /\ isatty => term.tty = UserMode(want)

(* A shell, and the shell that has suspended cu, find the terminal in the  *)
(* user's mode and have it alone (src/cu.c:962-986, 1026-1033).            *)
ShellOwnsTerminal ==
  at \in {"shell", "suspended"} =>
    copy = "stopped" /\ (isatty => term.tty = UserMode(want))

(* While the user types to the remote system every key goes there, ^C and  *)
(* ^\ included, what it answers is shown, and ~z is able to suspend        *)
(* (src/unix/cusub.c:758-844, 1041-1061; src/cu.c:712-714).                *)
KeysReachRemote ==
  at = "keys" =>
    /\ copy = "copying"
    /\ isatty => term.tty.raw /\ ~ term.tty.isig
    /\ tstp = inherited

(* During a file transfer the user can interrupt it from the keyboard      *)
(* (src/cu.c:1501-1503).                                                   *)
TransferCanBeInterrupted ==
  at = "transfer" /\ isatty => term.tty.raw /\ term.tty.isig

(* A transfer is aborted only by a signal the user sent after its prompt,  *)
(* never by one left over from a shell or an earlier transfer              *)
(* (src/unix/cusub.c:875-880; src/cu.c:1680-1688, 1783-1792).              *)
NoStaleInterrupt == at = "transfer" => afSignal \subseteq late

(* Whatever fails, when the connection is closed the child has been told   *)
(* to end; it would go on reading the line after its lock is given up      *)
(* (src/cu.c:738-741, 798-804).                                            *)
ChildToldToEnd ==
  at \in {"closing", "exited"} => copy \in {"none", "finishing", "over"}

(* What fsysdep_terminal_signals remembers of SIGTSTP is what cu was       *)
(* started with: it says that fStstp_ignored will be correctly initialized *)
(* (src/unix/cusub.c:1054-1057).                                           *)
TstpRemembered == fStstp_ignored => inherited = "IGN"

(* The session calls the functions of the copying child in the order their *)
(* contract allows (src/system.h:901-933).                                 *)
Control == INSTANCE CopyControl WITH
  mode  <- IF copy = "none" THEN "copying" ELSE copy,
  taken <- 0,
  shown <- <<>>

UsesCopyControl == Control!Spec
=============================================================================
