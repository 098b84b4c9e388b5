--------------------------- MODULE CuSessionProof ---------------------------
(***************************************************************************)
(* Proofs about CuSession: the terminal is given back, keys and interrupts *)
(* go where they should, and the child is told to end, for any set of user *)
(* modes.  Each theorem names the ways of leaving a prompt or a transfer   *)
(* under which it holds.                                                   *)
(***************************************************************************)
EXTENDS CuSession, TLAPS

(* Between the creation of the child and its end. *)
Running == {"keys", "line", "command", "stopping", "shell", "suspended",
            "transfer", "starting"}
Ended == {"closing", "exited"}

(* Places at which the terminal is the user's because a command gave it up. *)
Away ==
  \/ at \in {"shell", "suspended"}
  \/ at = "starting" /\ cmd \notin Transfers

(* Places of a file transfer, the end of the stop included. *)
Transferring == at = "transfer" \/ (at = "starting" /\ cmd \in Transfers)

CommandInv ==
  /\ at = "line" => cmd \in Prompting
  /\ at = "command" => cmd \in Prompting
  /\ at = "transfer" => cmd \in Transfers
  /\ at \in {"shell", "suspended"} => cmd \notin Transfers

FlagsInv ==
  /\ fCustarted <=> at \in Running
  /\ at \in {"enter"} \cup Ended => ~ fCurestore_terminal
  /\ at \in Running => (fCurestore_terminal <=> ~ Away)

CopyInv ==
  /\ at = "enter" => copy = "none"
  /\ at = "stopping" => copy = "stopping"
  /\ at \in {"shell", "suspended", "transfer"} => copy = "stopped"
  /\ at = "starting" => copy = "starting"
  /\ at = "finishing" => copy = "finishing"
  /\ at = "restoring" => copy \in {"none", "over"}
  /\ at \in Ended => copy \in {"none", "finishing", "over"}
  /\ ~ TakeMayTimeOut /\ at \in {"keys", "line", "command"} => copy = "copying"

(* Where the user's mode is: in the terminal, or in sSterm_orig while ulog *)
(* and ucuabort are to restore it from there.                              *)
UserModeKept ==
  /\ at = "enter" \/ Away \/ at \in Ended => term.tty = UserMode(want)
  /\ at = "line" => term.tty = UserMode(want)
  /\ at \in Running /\ ~ Away /\ at # "line" => term.orig = UserMode(want)
  /\ at \in {"finishing", "restoring"} =>
       IF fCurestore_terminal THEN term.orig = UserMode(want)
                              ELSE term.tty = UserMode(want)

RawInv ==
  /\ at \in Running => term.fSterm
  /\ at \in {"finishing", "restoring"} /\ fCurestore_terminal => term.fSterm
  /\ at \in Running /\ ~ Away /\ at # "line" =>
       term.tty.raw /\ term.new = term.tty
  /\ at = "transfer" /\ ~ Debugging => term.tty.isig
  /\ at \in {"keys", "command"} /\ ~ TakeMayTimeOut => ~ term.tty.isig

TstpInv ==
  /\ fStstp_ignored => inherited = "IGN"
  /\ at \in {"enter"} \cup Running /\ ~ Transferring => tstp = inherited
  /\ at \in Running /\ Transferring =>
       tstp = "IGN" /\ (fStstp_ignored <=> inherited = "IGN")

SignalInv ==
  /\ at \in {"line", "command", "transfer"} => afSignal \subseteq late
  /\ at = "stopping" /\ cmd \in Transfers => afSignal \subseteq late
  /\ at = "line" /\ ~ PromptMayFail => afSignal = {}

IInv ==
  /\ TypeOK
  /\ CommandInv
  /\ FlagsInv
  /\ CopyInv
  /\ isatty => RawInv
  /\ isatty /\ ~ PromptMayFail => UserModeKept
  /\ ~ TakeMayTimeOut => TstpInv
  /\ SignalInv
-----------------------------------------------------------------------------
(* The operators on the terminal *)

(* Raw mode of a terminal: what it was is kept as the user's mode. *)
LEMMA RawFacts ==
  ASSUME NEW t \in Terminals, isatty \in BOOLEAN
  PROVE  /\ Raw(t) \in Terminals
         /\ isatty => /\ Raw(t).fSterm
                      /\ Raw(t).orig = t.tty
                      /\ Raw(t).new = Raw(t).tty
                      /\ Raw(t).tty.raw
                      /\ ~ Raw(t).tty.isig
BY DEF Raw, RawMode, Terminals, Modes

(* Restoring shows what is kept as the user's mode. *)
LEMMA RestoreFacts ==
  ASSUME NEW t \in Terminals, isatty \in BOOLEAN
  PROVE  /\ Restore(t) \in Terminals
         /\ Restore(t).fSterm = t.fSterm
         /\ Restore(t).orig = t.orig
         /\ isatty /\ t.fSterm => Restore(t).tty = t.orig
BY DEF Restore, Terminals, Modes

(* Accepting signals changes that and nothing else. *)
LEMMA AcceptFacts ==
  ASSUME NEW t \in Terminals, NEW b \in BOOLEAN
  PROVE  /\ Accept(t, b) \in Terminals
         /\ Accept(t, b).fSterm = t.fSterm
         /\ Accept(t, b).orig = t.orig
         /\ Accept(t, b).new = Accept(t, b).tty
         /\ Accept(t, b).tty.raw = t.new.raw
         /\ Accept(t, b).tty.isig = b
BY DEF Accept, Terminals, Modes

(* A message leaves the kept user's mode alone, and raw mode set again. *)
LEMMA LoggedFacts ==
  ASSUME NEW t \in Terminals, isatty \in BOOLEAN
  PROVE  /\ Logged(t) \in Terminals
         /\ ~ fCurestore_terminal => Logged(t) = t
         /\ isatty /\ t.fSterm /\ fCurestore_terminal =>
              /\ Logged(t).fSterm
              /\ Logged(t).orig = t.orig
              /\ Logged(t).new = Logged(t).tty
              /\ Logged(t).tty.raw
              /\ ~ Logged(t).tty.isig
<1>1. Restore(t) \in Terminals /\ Restore(t).fSterm = t.fSterm
  BY RestoreFacts
<1>2. Raw(Restore(t)) \in Terminals
  BY <1>1, RawFacts
<1>3. isatty /\ t.fSterm => Restore(t).tty = t.orig
  BY RestoreFacts
<1> QED
  BY <1>1, <1>2, <1>3, RawFacts DEF Logged

-----------------------------------------------------------------------------
(* Each part of the invariant is kept by every step. *)

(* Every step keeps the types. *)
LEMMA TypeStep ==
  ASSUME TypeOK,
         [Next]_vars
  PROVE  TypeOK'
<1>1. CASE Enter
  BY <1>1, RawFacts DEF Enter, TypeOK, Places, Keyboard, tstpVars, sigVars,
    given
<1>2. CASE EnterFails
  BY <1>2, RawFacts DEF EnterFails, TypeOK, Places, Keyboard, tstpVars,
    sigVars, given
<1>3. CASE LeaveKeys
  BY <1>3, LoggedFacts DEF LeaveKeys, Log, TypeOK, Places, Keyboard, tstpVars,
    given
<1>4. CASE CommandFails
  <2>1. term' \in Terminals /\ afLog_signal' \in SUBSET Keyboard
    BY <1>4, LoggedFacts DEF CommandFails, Log, TypeOK
  <2>2. /\ fCustarted' \in BOOLEAN
        /\ at' \in {"finishing", "restoring"}
        /\ copy' \in {copy, "finishing"}
    BY <1>4 DEF CommandFails, Abort
  <2> QED
    BY <1>4, <2>1, <2>2 DEF CommandFails, TypeOK, Places, tstpVars, given
<1>5. CASE TerminalFails
  BY <1>5 DEF TerminalFails, Abort, TypeOK, Places, Keyboard, tstpVars, given
<1>6. CASE Finished
  BY <1>6, LoggedFacts DEF Finished, Log, TypeOK, Places, Keyboard, tstpVars,
    flags, given
<1>7. CASE FinishFails
  BY <1>7 DEF FinishFails, TypeOK, Places, Keyboard, tstpVars, given
<1>8. CASE RestoreAtEnd
  BY <1>8, RestoreFacts DEF RestoreAtEnd, TypeOK, Places, Keyboard, tstpVars,
    sigVars, given
<1>9. CASE Close
  BY <1>9, LoggedFacts DEF Close, Log, LogSignals, TypeOK, Places, Keyboard,
    tstpVars, flags, given
<1>10. ASSUME NEW c \in Prompting, Prompt(c)  PROVE TypeOK'
  BY <1>10, RestoreFacts DEF Prompt, TypeOK, Commands, Places, Keyboard,
    tstpVars, flags, given
<1>11. CASE LineRead
  BY <1>11, RawFacts DEF LineRead, TypeOK, Places, Keyboard, tstpVars,
    sigVars, flags, given
<1>12. CASE LineInterrupted
  BY <1>12, LoggedFacts, RawFacts DEF LineInterrupted, TypeOK, Places,
    Keyboard, tstpVars, flags, given
<1>13. CASE LineEnds
  BY <1>13, LoggedFacts, RawFacts DEF LineEnds, Abort, TypeOK, Places,
    Keyboard, tstpVars, given
<1>14. CASE Suspend
  BY <1>14 DEF Suspend, TypeOK, Commands, Places, Keyboard, tstpVars, sigVars,
    flags, given
<1>15. CASE CommandDone
  BY <1>15, LoggedFacts DEF CommandDone, Log, TypeOK, Places, Keyboard,
    tstpVars, flags, given
<1>16. CASE StopCopying
  BY <1>16 DEF StopCopying, TypeOK, Places, Keyboard, tstpVars, sigVars,
    flags, given
<1>17. CASE LeaveTerminal
  BY <1>17, RestoreFacts DEF LeaveTerminal, TypeOK, Places, Keyboard,
    tstpVars, sigVars, given
<1>18. CASE Return
  BY <1>18, LoggedFacts DEF Return, Log, LogSignals, TypeOK, Places, Keyboard,
    tstpVars, flags, given
<1>19. CASE BackToKeys
  BY <1>19, RawFacts DEF BackToKeys, TypeOK, Places, Keyboard, tstpVars,
    sigVars, given
<1>20. CASE BeginTransfer
  BY <1>20, AcceptFacts DEF BeginTransfer, IgnoreTstp, TypeOK, Places,
    Keyboard, sigVars, flags, given
<1>21. CASE TransferOver
  BY <1>21, LoggedFacts DEF TransferOver, Log, LogSignals, TypeOK, Places,
    Keyboard, tstpVars, flags, given
<1>22. CASE TakeTimesOut
  BY <1>22 DEF TakeTimesOut, TypeOK, Places, Keyboard, tstpVars, sigVars,
    flags, given
<1>23. CASE EndTransfer
  BY <1>23, AcceptFacts DEF EndTransfer, RestoreTstp, TypeOK, Places,
    Keyboard, sigVars, flags, given
<1>24. CASE SignalsFail
  BY <1>24, LoggedFacts DEF SignalsFail, Abort, IgnoreTstp, RestoreTstp,
    TypeOK, Places, Keyboard, given
<1>25. CASE DebugMessage
  BY <1>25, LoggedFacts DEF DebugMessage, Log, TypeOK, tstpVars, flags, given
<1>26. CASE Interrupt
  BY <1>26 DEF Interrupt, TypeOK, session, tstpVars, flags, given
<1>27. CASE SetTerminal
  <2>1. PICK u \in UserModes : /\ term' = [term EXCEPT !.tty = UserMode(u)]
                               /\ want' = u
    BY <1>27 DEF SetTerminal
  <2>2. UserMode(u) \in Modes
    BY <2>1 DEF UserMode, Modes
  <2>3. term' \in Terminals
    BY <2>1, <2>2 DEF Terminals, TypeOK
  <2> QED
    BY <1>27, <2>1, <2>3 DEF SetTerminal, TypeOK, session, tstpVars, sigVars,
      flags
<1>28. CASE HangUp
  <2>1. isatty' \in BOOLEAN
    BY <1>28 DEF HangUp
  <2> QED
    BY <1>28, <2>1 DEF HangUp, TypeOK, session, tstpVars, sigVars, flags, given
<1>29. CASE UNCHANGED vars
  BY <1>29 DEF vars, TypeOK
<1> QED
  BY <1>1, <1>2, <1>3, <1>4, <1>5, <1>6, <1>7, <1>8, <1>9, <1>10, <1>11,
    <1>12, <1>13, <1>14, <1>15, <1>16, <1>17, <1>18, <1>19, <1>20, <1>21,
    <1>22, <1>23, <1>24, <1>25, <1>26, <1>27, <1>28, <1>29 DEF Next

(* A command is what the prompt began. *)
LEMMA CommandStep ==
  ASSUME TypeOK, CommandInv,
         [Next]_vars
  PROVE  CommandInv'
<1>1. CASE Enter
  BY <1>1 DEF Enter, CommandInv
<1>2. CASE EnterFails
  BY <1>2 DEF EnterFails, CommandInv
<1>3. CASE LeaveKeys
  BY <1>3 DEF LeaveKeys, Log, CommandInv
<1>4. CASE CommandFails
  BY <1>4 DEF CommandFails, Abort, Log, CommandInv
<1>5. CASE TerminalFails
  BY <1>5 DEF TerminalFails, Abort, CommandInv
<1>6. CASE Finished
  BY <1>6 DEF Finished, Log, CommandInv
<1>7. CASE FinishFails
  BY <1>7 DEF FinishFails, CommandInv
<1>8. CASE RestoreAtEnd
  BY <1>8 DEF RestoreAtEnd, CommandInv
<1>9. CASE Close
  BY <1>9 DEF Close, Log, LogSignals, CommandInv
<1>10. ASSUME NEW c \in Prompting, Prompt(c)  PROVE CommandInv'
  BY <1>10 DEF Prompt, CommandInv
<1>11. CASE LineRead
  BY <1>11 DEF LineRead, CommandInv
<1>12. CASE LineInterrupted
  BY <1>12 DEF LineInterrupted, CommandInv
<1>13. CASE LineEnds
  BY <1>13 DEF LineEnds, Abort, CommandInv
<1>14. CASE Suspend
  BY <1>14 DEF Suspend, CommandInv
<1>15. CASE CommandDone
  BY <1>15 DEF CommandDone, Log, CommandInv
<1>16. CASE StopCopying
  BY <1>16 DEF StopCopying, CommandInv
<1>17. CASE LeaveTerminal
  BY <1>17 DEF LeaveTerminal, CommandInv
<1>18. CASE Return
  BY <1>18 DEF Return, Log, LogSignals, CommandInv
<1>19. CASE BackToKeys
  BY <1>19 DEF BackToKeys, CommandInv
<1>20. CASE BeginTransfer
  BY <1>20 DEF BeginTransfer, IgnoreTstp, CommandInv
<1>21. CASE TransferOver
  BY <1>21 DEF TransferOver, Log, LogSignals, CommandInv
<1>22. CASE TakeTimesOut
  BY <1>22 DEF TakeTimesOut, CommandInv
<1>23. CASE EndTransfer
  BY <1>23 DEF EndTransfer, RestoreTstp, CommandInv
<1>24. CASE SignalsFail
  BY <1>24 DEF SignalsFail, Abort, IgnoreTstp, RestoreTstp, CommandInv
<1>25. CASE DebugMessage
  BY <1>25 DEF DebugMessage, Log, CommandInv
<1>26. CASE Interrupt
  BY <1>26 DEF Interrupt, CommandInv, session
<1>27. CASE SetTerminal
  BY <1>27 DEF SetTerminal, CommandInv, session
<1>28. CASE HangUp
  BY <1>28 DEF HangUp, CommandInv, session
<1>29. CASE UNCHANGED vars
  BY <1>29 DEF vars, CommandInv
<1> QED
  BY <1>1, <1>2, <1>3, <1>4, <1>5, <1>6, <1>7, <1>8, <1>9, <1>10, <1>11,
    <1>12, <1>13, <1>14, <1>15, <1>16, <1>17, <1>18, <1>19, <1>20, <1>21,
    <1>22, <1>23, <1>24, <1>25, <1>26, <1>27, <1>28, <1>29 DEF Next

(* The flags of ucuabort follow the places. *)
LEMMA FlagsStep ==
  ASSUME TypeOK, CommandInv, FlagsInv,
         [Next]_vars
  PROVE  FlagsInv'
<1>1. CASE Enter
  BY <1>1 DEF Enter, FlagsInv, Running, Ended, Away
<1>2. CASE EnterFails
  BY <1>2 DEF EnterFails, FlagsInv, Running, Ended
<1>3. CASE LeaveKeys
  BY <1>3 DEF LeaveKeys, Log, FlagsInv, Running, Ended
<1>4. CASE CommandFails
  BY <1>4 DEF CommandFails, Abort, Log, FlagsInv, Running, Ended
<1>5. CASE TerminalFails
  BY <1>5 DEF TerminalFails, Abort, FlagsInv, Running
<1>6. CASE Finished
  BY <1>6 DEF Finished, Log, FlagsInv, Running, Ended, flags
<1>7. CASE FinishFails
  BY <1>7 DEF FinishFails, FlagsInv, Running
<1>8. CASE RestoreAtEnd
  BY <1>8 DEF RestoreAtEnd, FlagsInv, Running
<1>9. CASE Close
  BY <1>9 DEF Close, Log, LogSignals, FlagsInv, Running, Ended, flags
<1>10. ASSUME NEW c \in Prompting, Prompt(c)  PROVE FlagsInv'
  BY <1>10 DEF Prompt, FlagsInv, Running, Ended, Away, flags
<1>11. CASE LineRead
  BY <1>11 DEF LineRead, FlagsInv, Running, Ended, Away, sigVars, flags
<1>12. CASE LineInterrupted
  BY <1>12 DEF LineInterrupted, FlagsInv, Running, Ended, Away, flags
<1>13. CASE LineEnds
  BY <1>13 DEF LineEnds, Abort, FlagsInv, Running, Ended
<1>14. CASE Suspend
  BY <1>14 DEF Suspend, FlagsInv, Running, Ended, Away, sigVars, flags
<1>15. CASE CommandDone
  BY <1>15 DEF CommandDone, Log, FlagsInv, Running, Ended, Away, flags
<1>16. CASE StopCopying
  BY <1>16 DEF StopCopying, FlagsInv, Running, Ended, Away, sigVars, flags
<1>17. CASE LeaveTerminal
  BY <1>17 DEF LeaveTerminal, FlagsInv, Running, Away
<1>18. CASE Return
  BY <1>18 DEF Return, Log, LogSignals, CommandInv, FlagsInv, Running, Away,
    flags
<1>19. CASE BackToKeys
  BY <1>19 DEF BackToKeys, FlagsInv, Running, Ended, Away
<1>20. CASE BeginTransfer
  BY <1>20 DEF BeginTransfer, IgnoreTstp, FlagsInv, Running, Ended, Away,
    sigVars, flags
<1>21. CASE TransferOver
  BY <1>21 DEF TransferOver, Log, LogSignals, CommandInv, FlagsInv, Running,
    Ended, Away, flags
<1>22. CASE TakeTimesOut
  BY <1>22 DEF TakeTimesOut, FlagsInv, Running, Ended, Away, sigVars, flags
<1>23. CASE EndTransfer
  BY <1>23 DEF EndTransfer, RestoreTstp, FlagsInv, Running, Ended, Away,
    sigVars, flags
<1>24. CASE SignalsFail
  BY <1>24 DEF SignalsFail, Abort, IgnoreTstp, RestoreTstp, FlagsInv, Running,
    Ended
<1>25. CASE DebugMessage
  BY <1>25 DEF DebugMessage, Log, FlagsInv, Away, flags
<1>26. CASE Interrupt
  BY <1>26 DEF Interrupt, FlagsInv, Away, session, flags
<1>27. CASE SetTerminal
  BY <1>27 DEF SetTerminal, FlagsInv, Away, session, sigVars, flags
<1>28. CASE HangUp
  BY <1>28 DEF HangUp, FlagsInv, Away, session, sigVars, flags
<1>29. CASE UNCHANGED vars
  BY <1>29 DEF vars, FlagsInv, Away
<1> QED
  BY <1>1, <1>2, <1>3, <1>4, <1>5, <1>6, <1>7, <1>8, <1>9, <1>10, <1>11,
    <1>12, <1>13, <1>14, <1>15, <1>16, <1>17, <1>18, <1>19, <1>20, <1>21,
    <1>22, <1>23, <1>24, <1>25, <1>26, <1>27, <1>28, <1>29 DEF Next

(* The child follows the places. *)
LEMMA CopyStep ==
  ASSUME TypeOK, FlagsInv, CopyInv,
         [Next]_vars
  PROVE  CopyInv'
<1>1. CASE Enter
  BY <1>1 DEF Enter, CopyInv, Ended
<1>2. CASE EnterFails
  BY <1>2 DEF EnterFails, CopyInv
<1>3. CASE LeaveKeys
  BY <1>3 DEF LeaveKeys, Log, CopyInv
<1>4. CASE CommandFails
  BY <1>4 DEF CommandFails, Abort, Log, FlagsInv, CopyInv, Running
<1>5. CASE TerminalFails
  BY <1>5 DEF TerminalFails, Abort, FlagsInv, CopyInv, Running
<1>6. CASE Finished
  BY <1>6 DEF Finished, Log, CopyInv
<1>7. CASE FinishFails
  BY <1>7 DEF FinishFails, CopyInv
<1>8. CASE RestoreAtEnd
  BY <1>8 DEF RestoreAtEnd, CopyInv
<1>9. CASE Close
  BY <1>9 DEF Close, Log, LogSignals, CopyInv, Ended
<1>10. ASSUME NEW c \in Prompting, Prompt(c)  PROVE CopyInv'
  BY <1>10 DEF Prompt, CopyInv, Ended
<1>11. CASE LineRead
  BY <1>11 DEF LineRead, CopyInv, Ended
<1>12. CASE LineInterrupted
  BY <1>12 DEF LineInterrupted, CopyInv, Ended
<1>13. CASE LineEnds
  BY <1>13 DEF LineEnds, Abort, FlagsInv, CopyInv, Running
<1>14. CASE Suspend
  BY <1>14 DEF Suspend, CopyInv, Ended
<1>15. CASE CommandDone
  BY <1>15 DEF CommandDone, Log, CopyInv, Ended
<1>16. CASE StopCopying
  BY <1>16 DEF StopCopying, CopyInv, Ended
<1>17. CASE LeaveTerminal
  BY <1>17 DEF LeaveTerminal, CopyInv, Ended
<1>18. CASE Return
  BY <1>18 DEF Return, Log, LogSignals, CopyInv, Ended
<1>19. CASE BackToKeys
  BY <1>19 DEF BackToKeys, CopyInv, Ended
<1>20. CASE BeginTransfer
  BY <1>20 DEF BeginTransfer, IgnoreTstp, CopyInv, Ended
<1>21. CASE TransferOver
  BY <1>21 DEF TransferOver, Log, LogSignals, CopyInv, Ended
<1>22. CASE TakeTimesOut
  BY <1>22 DEF TakeTimesOut, CopyInv, Ended
<1>23. CASE EndTransfer
  BY <1>23 DEF EndTransfer, RestoreTstp, CopyInv, Ended
<1>24. CASE SignalsFail
  BY <1>24 DEF SignalsFail, Abort, IgnoreTstp, RestoreTstp, FlagsInv, CopyInv,
    Running
<1>25. CASE DebugMessage
  BY <1>25 DEF DebugMessage, Log, CopyInv
<1>26. CASE Interrupt
  BY <1>26 DEF Interrupt, CopyInv, session
<1>27. CASE SetTerminal
  BY <1>27 DEF SetTerminal, CopyInv, session
<1>28. CASE HangUp
  BY <1>28 DEF HangUp, CopyInv, session
<1>29. CASE UNCHANGED vars
  BY <1>29 DEF vars, CopyInv
<1> QED
  BY <1>1, <1>2, <1>3, <1>4, <1>5, <1>6, <1>7, <1>8, <1>9, <1>10, <1>11,
    <1>12, <1>13, <1>14, <1>15, <1>16, <1>17, <1>18, <1>19, <1>20, <1>21,
    <1>22, <1>23, <1>24, <1>25, <1>26, <1>27, <1>28, <1>29 DEF Next

(* SIGTSTP is ignored during transfers and put back after them. *)
LEMMA TstpStep ==
  ASSUME TypeOK, CommandInv, FlagsInv, TstpInv, ~ TakeMayTimeOut,
         [Next]_vars
  PROVE  TstpInv'
<1>1. CASE Enter
  BY <1>1 DEF Enter, TstpInv, Running, Transferring, tstpVars, given
<1>2. CASE EnterFails
  BY <1>2 DEF EnterFails, TstpInv, Running, Transferring, tstpVars, given
<1>3. CASE LeaveKeys
  BY <1>3 DEF LeaveKeys, Log, TstpInv, Running, Transferring, tstpVars, given
<1>4. CASE CommandFails
  BY <1>4 DEF CommandFails, Abort, Log, TstpInv, Running, Transferring,
    tstpVars, given
<1>5. CASE TerminalFails
  BY <1>5 DEF TerminalFails, Abort, TstpInv, Running, Transferring, tstpVars,
    given
<1>6. CASE Finished
  BY <1>6 DEF Finished, Log, TstpInv, Running, Transferring, tstpVars, given
<1>7. CASE FinishFails
  BY <1>7 DEF FinishFails, TstpInv, Running, Transferring, tstpVars, given
<1>8. CASE RestoreAtEnd
  BY <1>8 DEF RestoreAtEnd, TstpInv, Running, Transferring, tstpVars, given
<1>9. CASE Close
  BY <1>9 DEF Close, Log, LogSignals, TstpInv, Running, Transferring,
    tstpVars, given
<1>10. ASSUME NEW c \in Prompting, Prompt(c)  PROVE TstpInv'
  BY <1>10 DEF Prompt, TstpInv, Running, Transferring, tstpVars, given
<1>11. CASE LineRead
  BY <1>11 DEF LineRead, TstpInv, Running, Transferring, tstpVars, given
<1>12. CASE LineInterrupted
  BY <1>12 DEF LineInterrupted, TstpInv, Running, Transferring, tstpVars, given
<1>13. CASE LineEnds
  BY <1>13 DEF LineEnds, Abort, TstpInv, Running, Transferring, tstpVars, given
<1>14. CASE Suspend
  BY <1>14 DEF Suspend, TstpInv, Running, Transferring, tstpVars, given
<1>15. CASE CommandDone
  BY <1>15 DEF CommandDone, Log, TstpInv, Running, Transferring, tstpVars,
    given
<1>16. CASE StopCopying
  BY <1>16 DEF StopCopying, TstpInv, Running, Transferring, tstpVars, given
<1>17. CASE LeaveTerminal
  BY <1>17 DEF LeaveTerminal, TstpInv, Running, Transferring, tstpVars, given
<1>18. CASE Return
  BY <1>18 DEF Return, Log, LogSignals, CommandInv, TstpInv, Running,
    Transferring, tstpVars, given
<1>19. CASE BackToKeys
  BY <1>19 DEF BackToKeys, TstpInv, Running, Transferring, tstpVars, given
<1>20. CASE BeginTransfer
  BY <1>20 DEF BeginTransfer, IgnoreTstp, TstpInv, Running, Transferring, given
<1>21. CASE TransferOver
  BY <1>21 DEF TransferOver, Log, LogSignals, CommandInv, TstpInv, Running,
    Transferring, tstpVars, given
<1>22. CASE TakeTimesOut
  BY <1>22 DEF TakeTimesOut, TstpInv
<1>23. CASE EndTransfer
  BY <1>23 DEF EndTransfer, RestoreTstp, TstpInv, TypeOK, Running,
    Transferring, given
<1>24. CASE SignalsFail
  BY <1>24 DEF SignalsFail, Abort, IgnoreTstp, RestoreTstp, TstpInv, Running,
    Transferring, given
<1>25. CASE DebugMessage
  BY <1>25 DEF DebugMessage, Log, TstpInv, Running, Transferring, tstpVars,
    given
<1>26. CASE Interrupt
  BY <1>26 DEF Interrupt, TstpInv, Running, Transferring, session, tstpVars,
    given
<1>27. CASE SetTerminal
  BY <1>27 DEF SetTerminal, TstpInv, Running, Transferring, session, tstpVars
<1>28. CASE HangUp
  BY <1>28 DEF HangUp, TstpInv, Running, Transferring, session, tstpVars, given
<1>29. CASE UNCHANGED vars
  BY <1>29 DEF vars, TstpInv, Running, Transferring
<1> QED
  BY <1>1, <1>2, <1>3, <1>4, <1>5, <1>6, <1>7, <1>8, <1>9, <1>10, <1>11,
    <1>12, <1>13, <1>14, <1>15, <1>16, <1>17, <1>18, <1>19, <1>20, <1>21,
    <1>22, <1>23, <1>24, <1>25, <1>26, <1>27, <1>28, <1>29 DEF Next

(* What a transfer finds recorded came after its prompt. *)
LEMMA SignalStep ==
  ASSUME TypeOK, CommandInv, SignalInv,
         [Next]_vars
  PROVE  SignalInv'
<1>1. CASE Enter
  BY <1>1 DEF Enter, SignalInv
<1>2. CASE EnterFails
  BY <1>2 DEF EnterFails, SignalInv
<1>3. CASE LeaveKeys
  BY <1>3 DEF LeaveKeys, Log, SignalInv
<1>4. CASE CommandFails
  BY <1>4 DEF CommandFails, Abort, Log, SignalInv
<1>5. CASE TerminalFails
  BY <1>5 DEF TerminalFails, Abort, SignalInv
<1>6. CASE Finished
  BY <1>6 DEF Finished, Log, SignalInv
<1>7. CASE FinishFails
  BY <1>7 DEF FinishFails, SignalInv
<1>8. CASE RestoreAtEnd
  BY <1>8 DEF RestoreAtEnd, SignalInv
<1>9. CASE Close
  BY <1>9 DEF Close, Log, LogSignals, SignalInv
<1>10. ASSUME NEW c \in Prompting, Prompt(c)  PROVE SignalInv'
  BY <1>10 DEF Prompt, SignalInv
<1>11. CASE LineRead
  BY <1>11 DEF LineRead, SignalInv, sigVars, flags
<1>12. CASE LineInterrupted
  BY <1>12 DEF LineInterrupted, SignalInv
<1>13. CASE LineEnds
  BY <1>13 DEF LineEnds, Abort, SignalInv
<1>14. CASE Suspend
  BY <1>14 DEF Suspend, SignalInv, Transfers
<1>15. CASE CommandDone
  BY <1>15 DEF CommandDone, Log, SignalInv
<1>16. CASE StopCopying
  BY <1>16 DEF StopCopying, SignalInv, sigVars, flags
<1>17. CASE LeaveTerminal
  BY <1>17 DEF LeaveTerminal, SignalInv
<1>18. CASE Return
  BY <1>18 DEF Return, Log, LogSignals, SignalInv
<1>19. CASE BackToKeys
  BY <1>19 DEF BackToKeys, SignalInv
<1>20. CASE BeginTransfer
  BY <1>20 DEF BeginTransfer, IgnoreTstp, SignalInv, sigVars, flags
<1>21. CASE TransferOver
  BY <1>21 DEF TransferOver, Log, LogSignals, SignalInv
<1>22. CASE TakeTimesOut
  BY <1>22 DEF TakeTimesOut, SignalInv
<1>23. CASE EndTransfer
  BY <1>23 DEF EndTransfer, RestoreTstp, SignalInv
<1>24. CASE SignalsFail
  BY <1>24 DEF SignalsFail, Abort, IgnoreTstp, RestoreTstp, SignalInv
<1>25. CASE DebugMessage
  BY <1>25 DEF DebugMessage, Log, SignalInv
<1>26. CASE Interrupt
  BY <1>26 DEF Interrupt, SignalInv, session
<1>27. CASE SetTerminal
  BY <1>27 DEF SetTerminal, SignalInv, session, sigVars, flags
<1>28. CASE HangUp
  BY <1>28 DEF HangUp, SignalInv, session, sigVars, flags
<1>29. CASE UNCHANGED vars
  BY <1>29 DEF vars, SignalInv
<1> QED
  BY <1>1, <1>2, <1>3, <1>4, <1>5, <1>6, <1>7, <1>8, <1>9, <1>10, <1>11,
    <1>12, <1>13, <1>14, <1>15, <1>16, <1>17, <1>18, <1>19, <1>20, <1>21,
    <1>22, <1>23, <1>24, <1>25, <1>26, <1>27, <1>28, <1>29 DEF Next

(* The terminal is raw except where it was given up. *)
LEMMA RawStep ==
  ASSUME TypeOK, CommandInv, FlagsInv, isatty => RawInv,
         [Next]_vars
  PROVE  isatty' => RawInv'
<1>1. CASE Enter
  BY <1>1, RawFacts DEF Enter, RawInv, TypeOK
<1>2. CASE EnterFails
  BY <1>2, RawFacts DEF EnterFails, RawInv, TypeOK
<1>3. CASE LeaveKeys
  BY <1>3, LoggedFacts DEF LeaveKeys, Log, RawInv, TypeOK, Running,
    Transferring
<1>4. CASE CommandFails
  BY <1>4, LoggedFacts DEF CommandFails, Abort, Log, RawInv, TypeOK, Running,
    Transferring
<1>5. CASE TerminalFails
  BY <1>5 DEF TerminalFails, Abort, RawInv, Running, Transferring
<1>6. CASE Finished
  BY <1>6, LoggedFacts DEF Finished, Log, RawInv, TypeOK, Running,
    Transferring, flags
<1>7. CASE FinishFails
  BY <1>7 DEF FinishFails, RawInv, Running, Transferring
<1>8. CASE RestoreAtEnd
  BY <1>8, RestoreFacts DEF RestoreAtEnd, RawInv, Running, Transferring
<1>9. CASE Close
  BY <1>9, LoggedFacts DEF Close, Log, LogSignals, RawInv, Running,
    Transferring
<1>10. ASSUME NEW c \in Prompting, Prompt(c)  PROVE isatty' => RawInv'
  BY <1>10, RestoreFacts DEF Prompt, RawInv, TypeOK, Running, Transferring
<1>11. CASE LineRead
  BY <1>11, RawFacts DEF LineRead, RawInv, TypeOK
<1>12. CASE LineInterrupted
  BY <1>12, LoggedFacts, RawFacts DEF LineInterrupted, RawInv, TypeOK
<1>13. CASE LineEnds
  BY <1>13, LoggedFacts, RawFacts DEF LineEnds, Abort, RawInv, TypeOK
<1>14. CASE Suspend
  BY <1>14 DEF Suspend, RawInv, Running, Away, Transferring
<1>15. CASE CommandDone
  BY <1>15, LoggedFacts DEF CommandDone, Log, RawInv, TypeOK, Running, Away,
    Transferring
<1>16. CASE StopCopying
  BY <1>16 DEF StopCopying, RawInv, Running, Away, Transferring
<1>17. CASE LeaveTerminal
  BY <1>17, RestoreFacts DEF LeaveTerminal, RawInv, TypeOK, Running, Away,
    Transferring
<1>18. CASE Return
  BY <1>18, LoggedFacts DEF Return, Log, LogSignals, CommandInv, RawInv,
    TypeOK, Running, Away, Transferring
<1>19. CASE BackToKeys
  BY <1>19, RawFacts DEF BackToKeys, RawInv, TypeOK
<1>20. CASE BeginTransfer
  BY <1>20, AcceptFacts, ZenonT(60) DEF BeginTransfer, IgnoreTstp, RawInv, TypeOK,
    Running, Away, Transferring
<1>21. CASE TransferOver
  BY <1>21, LoggedFacts DEF TransferOver, Log, LogSignals, RawInv, TypeOK,
    Running, Away, Transferring
<1>22. CASE TakeTimesOut
  BY <1>22 DEF TakeTimesOut, RawInv, Running, Away, Transferring
<1>23. CASE EndTransfer
  BY <1>23, AcceptFacts, ZenonT(60) DEF EndTransfer, RestoreTstp, RawInv, TypeOK, Running,
    Away, Transferring
<1>24. CASE SignalsFail
  BY <1>24, LoggedFacts DEF SignalsFail, Abort, IgnoreTstp, RestoreTstp
<1>25. CASE DebugMessage
  BY <1>25, LoggedFacts DEF DebugMessage, Log, RawInv, TypeOK, Running, Away,
    Transferring
<1>26. CASE Interrupt
  BY <1>26 DEF Interrupt, RawInv, Away, session, flags
<1>27. CASE SetTerminal
  BY <1>27 DEF SetTerminal, RawInv, Away, session
<1>28. CASE HangUp
  BY <1>28 DEF HangUp, session
<1>29. CASE UNCHANGED vars
  BY <1>29 DEF vars, RawInv, Away
<1> QED
  BY <1>1, <1>2, <1>3, <1>4, <1>5, <1>6, <1>7, <1>8, <1>9, <1>10, <1>11,
    <1>12, <1>13, <1>14, <1>15, <1>16, <1>17, <1>18, <1>19, <1>20, <1>21,
    <1>22, <1>23, <1>24, <1>25, <1>26, <1>27, <1>28, <1>29 DEF Next

(* The user's mode is never lost: it is in the terminal or in sSterm_orig. *)
LEMMA UserModeStep ==
  ASSUME TypeOK, CommandInv, FlagsInv, SignalInv, isatty => RawInv, ~ PromptMayFail,
         isatty => UserModeKept,
         [Next]_vars
  PROVE  isatty' => UserModeKept'
<1>1. CASE Enter
  BY <1>1, RawFacts DEF Enter, UserModeKept, TypeOK, Ended, Away, tstpVars,
    given
<1>2. CASE EnterFails
  BY <1>2, RawFacts DEF EnterFails, UserModeKept, TypeOK, Ended, Away,
    tstpVars, given
<1>3. CASE LeaveKeys
  BY <1>3, LoggedFacts DEF LeaveKeys, Log, FlagsInv, SignalInv, RawInv,
    UserModeKept, TypeOK, Running, Ended, Away, tstpVars, given
<1>4. CASE CommandFails
  BY <1>4, LoggedFacts DEF CommandFails, Abort, Log, FlagsInv, SignalInv,
    RawInv, UserModeKept, TypeOK, Running, Ended, Away, tstpVars, given
<1>5. CASE TerminalFails
  BY <1>5 DEF TerminalFails, Abort, CanRestore, UserModeKept
<1>6. CASE Finished
  BY <1>6, LoggedFacts DEF Finished, Log, SignalInv, RawInv, UserModeKept,
    TypeOK, Running, Ended, Away, tstpVars, flags, given
<1>7. CASE FinishFails
  BY <1>7 DEF FinishFails, CanLog, CanRestore, UserModeKept
<1>8. CASE RestoreAtEnd
  BY <1>8, RestoreFacts DEF RestoreAtEnd, SignalInv, RawInv, UserModeKept,
    TypeOK, Running, tstpVars, given
<1>9. CASE Close
  BY <1>9, LoggedFacts DEF Close, Log, LogSignals, FlagsInv, UserModeKept,
    TypeOK, Running, Ended, tstpVars, given
<1>10. ASSUME NEW c \in Prompting, Prompt(c)  PROVE isatty' => UserModeKept'
  BY <1>10, RestoreFacts DEF Prompt, SignalInv, RawInv, UserModeKept, TypeOK,
    Running, Away, tstpVars, given
<1>11. CASE LineRead
  BY <1>11, RawFacts DEF LineRead, UserModeKept, TypeOK, Ended, Away,
    tstpVars, given
<1>12. CASE LineInterrupted
  BY <1>12, LoggedFacts, RawFacts DEF LineInterrupted, SignalInv, RawInv,
    UserModeKept
<1>13. CASE LineEnds
  BY <1>13, LoggedFacts, RawFacts DEF LineEnds, Abort, UserModeKept
<1>14. CASE Suspend
  BY <1>14 DEF Suspend, UserModeKept, Running, Ended, Away, tstpVars, given
<1>15. CASE CommandDone
  BY <1>15, LoggedFacts DEF CommandDone, Log, SignalInv, RawInv, UserModeKept,
    TypeOK, Running, Ended, Away, tstpVars, given
<1>16. CASE StopCopying
  BY <1>16 DEF StopCopying, UserModeKept, Running, Ended, Away, tstpVars, given
<1>17. CASE LeaveTerminal
  BY <1>17, RestoreFacts DEF LeaveTerminal, SignalInv, RawInv, UserModeKept,
    TypeOK, Running, Away, tstpVars, given
<1>18. CASE Return
  BY <1>18, LoggedFacts DEF Return, Log, LogSignals, CommandInv, FlagsInv,
    UserModeKept, TypeOK, Running, Away, tstpVars, given
<1>19. CASE BackToKeys
  BY <1>19, RawFacts DEF BackToKeys, UserModeKept, TypeOK, Ended, Away,
    tstpVars, given
<1>20. CASE BeginTransfer
  BY <1>20, AcceptFacts DEF BeginTransfer, IgnoreTstp, UserModeKept, TypeOK,
    Running, Ended, Away, given
<1>21. CASE TransferOver
  BY <1>21, LoggedFacts DEF TransferOver, Log, LogSignals, CommandInv,
    SignalInv, RawInv, UserModeKept, TypeOK, Running, Ended, Away, tstpVars,
    given
<1>22. CASE TakeTimesOut
  BY <1>22 DEF TakeTimesOut, UserModeKept, Running, Ended, Away, tstpVars,
    given
<1>23. CASE EndTransfer
  BY <1>23, AcceptFacts DEF EndTransfer, RestoreTstp, UserModeKept, TypeOK,
    Running, Ended, Away, given
<1>24. CASE SignalsFail
  BY <1>24, LoggedFacts DEF SignalsFail, Abort, IgnoreTstp, RestoreTstp,
    UserModeKept
<1>25. CASE DebugMessage
  BY <1>25, LoggedFacts DEF DebugMessage, Log, FlagsInv, SignalInv, RawInv,
    UserModeKept, TypeOK, Running, Away, tstpVars, given
<1>26. CASE Interrupt
  BY <1>26 DEF Interrupt, UserModeKept, Away, session, tstpVars, flags, given
<1>27. CASE SetTerminal
  BY <1>27 DEF SetTerminal, UserModeKept, Away, session
<1>28. CASE HangUp
  BY <1>28 DEF HangUp, UserModeKept, session
<1>29. CASE UNCHANGED vars
  BY <1>29 DEF vars, UserModeKept, Away
<1> QED
  BY <1>1, <1>2, <1>3, <1>4, <1>5, <1>6, <1>7, <1>8, <1>9, <1>10, <1>11,
    <1>12, <1>13, <1>14, <1>15, <1>16, <1>17, <1>18, <1>19, <1>20, <1>21,
    <1>22, <1>23, <1>24, <1>25, <1>26, <1>27, <1>28, <1>29 DEF Next

-----------------------------------------------------------------------------
LEMMA InitInv == ASSUME ConstantsAssumption, Init PROVE IInv
<1>1. TypeOK
  BY DEF Init, TypeOK, Places, Keyboard, Terminals, Modes, UserMode
<1> QED
  BY <1>1 DEF Init, IInv, CommandInv, FlagsInv, CopyInv, RawInv, UserModeKept, 
    TstpInv, SignalInv, Running, Ended, Away, Transferring, UserMode

(* The invariant is inductive. *)
LEMMA NextInv == ASSUME IInv, [Next]_vars PROVE IInv'
<1>1. TypeOK'
  BY TypeStep DEF IInv
<1>2. CommandInv'
  BY CommandStep DEF IInv
<1>3. FlagsInv'
  BY FlagsStep DEF IInv
<1>4. CopyInv'
  BY CopyStep DEF IInv
<1>5. (isatty => RawInv)'
  BY RawStep DEF IInv
<1>6. (isatty /\ ~ PromptMayFail => UserModeKept)'
  BY UserModeStep DEF IInv
<1>7. (~ TakeMayTimeOut => TstpInv)'
  BY TstpStep DEF IInv
<1>8. SignalInv'
  BY SignalStep DEF IInv
<1> QED
  BY <1>1, <1>2, <1>3, <1>4, <1>5, <1>6, <1>7, <1>8 DEF IInv

(* The invariant of a session (src/cu.c:710-836) holds in every reachable  *)
(* state, for any user modes.                                              *)
THEOREM Invariance == Spec => []IInv
<1>1. Init => IInv
  BY InitInv, ConstantsAssumption
<1>2. IInv /\ [Next]_vars => IInv'
  BY NextInv
<1> QED
  BY <1>1, <1>2, PTL DEF Spec

(* Every variable keeps its type (src/cu.c:710-836). *)
THEOREM TypeCorrect == Spec => []TypeOK
<1>1. IInv => TypeOK
  BY DEF IInv
<1> QED
  BY <1>1, Invariance, PTL

(* The terminal is given back in the mode the user last gave it, whatever  *)
(* fails and wherever log messages come, if no prompt is interrupted       *)
(* (src/cu.c:798-811, 845-875; src/unix/cusub.c:846-860).                  *)
THEOREM GivesTerminalBack ==
  ASSUME ~ PromptMayFail
  PROVE  Spec => []TerminalGivenBack
<1>1. IInv => TerminalGivenBack
  BY DEF IInv, UserModeKept, Ended, TerminalGivenBack
<1> QED
  BY <1>1, Invariance, PTL

(* Under the same condition, shells find the user's mode and the child     *)
(* stopped (src/cu.c:962-986, 1026-1033).                                  *)
THEOREM ShellHasTerminal ==
  ASSUME ~ PromptMayFail
  PROVE  Spec => []ShellOwnsTerminal
<1>1. IInv => ShellOwnsTerminal
  BY DEF IInv, CopyInv, UserModeKept, Away, ShellOwnsTerminal
<1> QED
  BY <1>1, Invariance, PTL

(* Keys reach the remote system, if ~%take does not leave early            *)
(* (src/cu.c:1846-1850; src/unix/cusub.c:1030-1073).                       *)
THEOREM KeysGoToRemote ==
  ASSUME ~ TakeMayTimeOut
  PROVE  Spec => []KeysReachRemote
<1>1. IInv => KeysReachRemote
  BY DEF IInv, CopyInv, RawInv, TstpInv, Running, Away, Transferring,
    KeysReachRemote
<1> QED
  BY <1>1, Invariance, PTL

(* A transfer can be interrupted, if no debugging messages are written     *)
(* during it (src/cu.c:1501-1506, 1704-1706).                              *)
THEOREM TransferInterruptible ==
  ASSUME ~ Debugging
  PROVE  Spec => []TransferCanBeInterrupted
<1>1. IInv => TransferCanBeInterrupted
  BY DEF IInv, RawInv, Running, Away, TransferCanBeInterrupted
<1> QED
  BY <1>1, Invariance, PTL

(* Signals of an earlier shell or transfer never abort a transfer          *)
(* (src/unix/cusub.c:875-880).                                             *)
THEOREM NoSignalLeftOver == Spec => []NoStaleInterrupt
<1>1. IInv => NoStaleInterrupt
  BY DEF IInv, SignalInv, NoStaleInterrupt
<1> QED
  BY <1>1, Invariance, PTL

(* The child is told to end before the connection is closed                *)
(* (src/cu.c:738-748, 798-826).                                            *)
THEOREM ChildEnds == Spec => []ChildToldToEnd
<1>1. IInv => ChildToldToEnd
  BY DEF IInv, CopyInv, Ended, ChildToldToEnd
<1> QED
  BY <1>1, Invariance, PTL

(* A call of the session, as the contract of the child sees it. *)
LEMMA ControlStep ==
  ASSUME IInv, [Next]_vars, ~ TakeMayTimeOut
  PROVE  [Control!Next]_(Control!vars)
<1> DEFINE Mode == IF copy = "none" THEN "copying" ELSE copy
<1>0. SUFFICES Mode' \in Control!Successors[Mode] \/ Mode' = Mode
  BY <1>0 DEF Control!Next, Control!ChangeMode, Control!vars
<1>1. CASE Enter
  BY <1>1 DEF Enter, IInv, CopyInv, 
    Control!Successors, Control!Modes
<1>2. CASE EnterFails
  BY <1>2 DEF EnterFails
<1>3. CASE LeaveKeys
  BY <1>3 DEF LeaveKeys, IInv, CopyInv, 
    Control!Successors, Control!Modes
<1>4. CASE CommandFails
  BY <1>4 DEF CommandFails, Abort, IInv, CopyInv, 
    Control!Successors, Control!Modes
<1>5. CASE TerminalFails
  BY <1>5 DEF TerminalFails, Abort, IInv, CopyInv, 
    Control!Successors, Control!Modes
<1>6. CASE Finished
  BY <1>6 DEF Finished, IInv, CopyInv, 
    Control!Successors, Control!Modes
<1>7. CASE FinishFails
  BY <1>7 DEF FinishFails
<1>8. CASE RestoreAtEnd
  BY <1>8 DEF RestoreAtEnd
<1>9. CASE Close
  BY <1>9 DEF Close
<1>10. ASSUME NEW c \in Prompting, Prompt(c) PROVE Mode' = Mode
  BY <1>10 DEF Prompt
<1>11. CASE LineRead
  BY <1>11 DEF LineRead
<1>12. CASE LineInterrupted
  BY <1>12 DEF LineInterrupted
<1>13. CASE LineEnds
  BY <1>13 DEF LineEnds, Abort, IInv, CopyInv, 
    Control!Successors, Control!Modes
<1>14. CASE Suspend
  BY <1>14 DEF Suspend, IInv, CopyInv, 
    Control!Successors, Control!Modes
<1>15. CASE CommandDone
  BY <1>15 DEF CommandDone
<1>16. CASE StopCopying
  BY <1>16 DEF StopCopying, IInv, CopyInv, 
    Control!Successors, Control!Modes
<1>17. CASE LeaveTerminal
  BY <1>17 DEF LeaveTerminal, IInv, CopyInv, 
    Control!Successors, Control!Modes
<1>18. CASE Return
  BY <1>18 DEF Return, IInv, CopyInv, 
    Control!Successors, Control!Modes
<1>19. CASE BackToKeys
  BY <1>19 DEF BackToKeys, IInv, CopyInv, 
    Control!Successors, Control!Modes
<1>20. CASE BeginTransfer
  BY <1>20 DEF BeginTransfer, IInv, CopyInv, 
    Control!Successors, Control!Modes
<1>21. CASE TransferOver
  BY <1>21 DEF TransferOver, IInv, CopyInv, 
    Control!Successors, Control!Modes
<1>22. CASE TakeTimesOut
  BY <1>22 DEF TakeTimesOut
<1>23. CASE EndTransfer
  BY <1>23 DEF EndTransfer, IInv, CopyInv, 
    Control!Successors, Control!Modes
<1>24. CASE SignalsFail
  BY <1>24 DEF SignalsFail, Abort, IInv, CopyInv, 
    Control!Successors, Control!Modes
<1>25. CASE DebugMessage
  BY <1>25 DEF DebugMessage
<1>26. CASE Interrupt
  BY <1>26 DEF Interrupt, session
<1>27. CASE SetTerminal
  BY <1>27 DEF SetTerminal, session
<1>28. CASE HangUp
  BY <1>28 DEF HangUp, session
<1>29. CASE UNCHANGED vars
  BY <1>29 DEF vars
<1> QED
  BY <1>1, <1>2, <1>3, <1>4, <1>5, <1>6, <1>7, <1>8, <1>9, <1>10, <1>11,
    <1>12, <1>13, <1>14, <1>15, <1>16, <1>17, <1>18, <1>19, <1>20, <1>21,
    <1>22, <1>23, <1>24, <1>25, <1>26, <1>27, <1>28, <1>29 DEF Next

(* The session calls the child's functions in the order system.h allows,   *)
(* if ~%take does not leave early (src/system.h:901-933).                  *)
THEOREM Refinement ==
  ASSUME ~ TakeMayTimeOut
  PROVE  Spec => UsesCopyControl
<1>1. Init => Control!Init
  BY DEF Init, Control!Init
<1>2. IInv /\ [Next]_vars => [Control!Next]_(Control!vars)
  BY ControlStep
<1> QED
  BY <1>1, <1>2, Invariance, PTL DEF Spec, UsesCopyControl, Control!Spec
=============================================================================
