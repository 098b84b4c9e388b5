------------------------------ MODULE LogFile -------------------------------
(***************************************************************************)
(* The log: ulog, ulog_close and ustats of src/log.c with esysdep_fopen,   *)
(* the signals that ulog reports (src/unix/signal.c), and the hangups that *)
(* fconn_close of src/conn.c keeps out of it.                              *)
(*                                                                         *)
(* ulog calls itself: to report a signal, when a file of its own cannot be *)
(* opened, and through the function that ends the program.  The calls      *)
(* under way are a stack.  What the callbacks of cu do to the terminal is  *)
(* CuSession's; the text of a message is left out.                         *)
(***************************************************************************)
EXTENDS Integers, Sequences

CONSTANTS
  SignalOrder,    \* the signals, in the order of afLog_signal
  LogCalls,       \* bound on the calls from outside
  LogArrivals     \* bound on the signals that come

ASSUME LogAssumption ==
  /\ SignalOrder \in Seq({"hup", "int", "quit", "term", "pipe"})
  /\ {LogCalls, LogArrivals} \subseteq Nat

VARIABLES
  fLfile,         \* messages go to files, not to stderr
  iDebug,         \* debugging messages are asked for
  logFile,        \* each file: is it open, was opening it tried
  handler,        \* what a signal does: "default", "ignored" or "caught"
  afLog_signal,   \* the signals to report
  fLog_sighup,    \* hangups are worth a message
  fdoing_sigs,    \* a call is reporting signals
  calls,          \* the calls under way, the innermost first
  ended,          \* the program has ended
  nLogCalls, nArrivals,
  unreported,     \* history: signals that are due and not in a message since they came
  early,          \* history: those of them that came before the message of a call
  dropped         \* history: a message for the log file was not written

logVars == <<fLfile, iDebug, logFile, handler, afLog_signal, fLog_sighup, fdoing_sigs,
             calls, ended, nLogCalls, nArrivals, unreported, early, dropped>>

modes  == <<fLfile, iDebug, handler, fLog_sighup>>
counts == <<nLogCalls, nArrivals>>
past   == <<unreported, early, dropped>>

LogSignals == {SignalOrder[i] : i \in 1..Len(SignalOrder)}
Hangups    == {"hup", "int"}   \* SunOS sends SIGINT when hanging up
LogFiles   == {"log", "debug", "stats"}
LogTypes   == {"error", "fatal", "debug"}

Closed == [open |-> FALSE, tried |-> FALSE]

(* A call of ulog with a message, or without one; about: the signal it     *)
(* reports.                                                                *)
UlogCall(type, message, about) ==
  [of |-> "ulog", type |-> type, message |-> message, about |-> about,
   at |-> "start", sig |-> 1]

(* The calls of ulog_close, of ustats and of fconn_close. *)
OtherCall(of) == [of |-> of, type |-> "error", message |-> FALSE, about |-> "none",
                  at |-> "start", sig |-> 1]

LogFrame ==
  [of : {"ulog", "ulog_close", "ustats", "fconn_close"}, type : LogTypes,
   message : BOOLEAN, about : LogSignals \cup {"none"},
   at : {"start", "signals", "debugFile", "logFile", "noLog", "output", "exit",
         "files", "written", "closed", "reported"},
   sig : 1..Len(SignalOrder) + 1]

LogTypeOK ==
  /\ fLfile \in BOOLEAN /\ iDebug \in BOOLEAN /\ fLog_sighup \in BOOLEAN
  /\ fdoing_sigs \in BOOLEAN /\ ended \in BOOLEAN /\ dropped \in BOOLEAN
  /\ nLogCalls \in Nat /\ nArrivals \in Nat
  /\ logFile \in [LogFiles -> [open : BOOLEAN, tried : BOOLEAN]]
  /\ handler \in [LogSignals -> {"default", "ignored", "caught"}]
  /\ afLog_signal \subseteq LogSignals
  /\ unreported \subseteq LogSignals /\ early \subseteq LogSignals
  /\ calls \in Seq(LogFrame)
  /\ fdoing_sigs = \E i \in 1..Len(calls) : calls[i].at = "signals"

LogInit ==
  /\ fLfile = FALSE
  /\ iDebug \in BOOLEAN
  /\ logFile = [f \in LogFiles |-> Closed]
  /\ handler \in [LogSignals -> {"default", "ignored"}]
  /\ afLog_signal = {}
  /\ fLog_sighup = TRUE
  /\ fdoing_sigs = FALSE
  /\ calls = <<>>
  /\ ended = FALSE
  /\ nLogCalls = 0
  /\ nArrivals = 0
  /\ unreported = {}
  /\ early = {}
  /\ dropped = FALSE

-----------------------------------------------------------------------------
(* The calls of the program, and the signals. *)

Idle    == calls = <<>> /\ ~ended
Call    == Head(calls)
In(of, at) == calls # <<>> /\ ~ended /\ Call.of = of /\ Call.at = at
Goes(at)   == <<[Call EXCEPT !.at = at]>> \o Tail(calls)
Enters(call, at) == <<call>> \o Goes(at)

(* ulog_to_file, called once by a program that logs to files. *)
UlogToFile ==
  /\ Idle /\ ~fLfile /\ nLogCalls = 0
  /\ fLfile' = TRUE
  /\ UNCHANGED <<iDebug, handler, fLog_sighup, logFile, afLog_signal, fdoing_sigs, calls,
                 ended, counts, past>>

CallFromOutside ==
  /\ Idle /\ nLogCalls < LogCalls
  /\ \/ \E type \in LogTypes, message \in BOOLEAN :
          calls' = <<UlogCall(type, message, "none")>>
     \/ \E of \in {"ulog_close", "ustats", "fconn_close"} : calls' = <<OtherCall(of)>>
  /\ nLogCalls' = nLogCalls + 1
  /\ UNCHANGED <<modes, logFile, afLog_signal, fdoing_sigs, ended, nArrivals, past>>

(* usysdep_signal: usset_signal with ussignal, unless it is ignored. *)
UsysdepSignal(s) ==
  /\ Idle /\ nArrivals = 0
  /\ handler[s] = "default"
  /\ handler' = [handler EXCEPT ![s] = "caught"]
  /\ UNCHANGED <<fLfile, iDebug, fLog_sighup, logFile, afLog_signal, fdoing_sigs, calls,
                 ended, counts, past>>

(* ussignal, at any time. *)
Ussignal(s) ==
  /\ ~ended /\ nArrivals < LogArrivals
  /\ handler[s] = "caught"
  /\ afLog_signal' = afLog_signal \cup {s}
  /\ unreported' = unreported \cup {s}
  /\ nArrivals' = nArrivals + 1
  /\ UNCHANGED <<modes, logFile, fdoing_sigs, calls, ended, nLogCalls, early,
                 dropped>>

-----------------------------------------------------------------------------
(* ulog: the signals are reported first *)

Due(s) == s \in Hangups => fLog_sighup

UlogStart ==
  /\ In("ulog", "start")
  /\ calls' = Goes(IF fdoing_sigs THEN "debugFile" ELSE "signals")
  /\ fdoing_sigs' = TRUE
  /\ early' = IF fdoing_sigs THEN early ELSE {s \in unreported : Due(s)}
  /\ UNCHANGED <<modes, logFile, afLog_signal, ended, counts, unreported, dropped>>

Reports(s) == s \in afLog_signal /\ Due(s)

NextSignal == [Call EXCEPT !.sig = @ + 1]

(* Variant: the flag of a signal is cleared when its message is out. *)
LogSignalAfter ==
  /\ In("ulog", "signals") /\ Call.sig <= Len(SignalOrder)
  /\ LET s == SignalOrder[Call.sig]
     IN IF Reports(s) /\ Call.about # s
        THEN /\ calls' = <<UlogCall("error", TRUE, s), [Call EXCEPT !.about = s]>>
                           \o Tail(calls)
             /\ UNCHANGED <<afLog_signal, unreported>>
        ELSE /\ calls' = <<[NextSignal EXCEPT !.about = "none"]>> \o Tail(calls)
             /\ afLog_signal' = afLog_signal \ {s}
             /\ unreported' = IF Due(s) THEN unreported ELSE unreported \ {s}
  /\ UNCHANGED <<modes, logFile, fdoing_sigs, ended, counts, early, dropped>>

LogSignal ==
  /\ In("ulog", "signals") /\ Call.sig <= Len(SignalOrder)
  /\ LET s == SignalOrder[Call.sig]
         report == IF Reports(s) THEN <<UlogCall("error", TRUE, s)>> ELSE <<>>
     IN /\ afLog_signal' = afLog_signal \ {s}
        /\ calls' = report \o (<<NextSignal>> \o Tail(calls))
        /\ unreported' = IF Due(s) THEN unreported ELSE unreported \ {s}
  /\ UNCHANGED <<modes, logFile, fdoing_sigs, ended, counts, early, dropped>>

(* Variant: that they are reported is not unset. *)
SignalsDoneKeeps ==
  /\ In("ulog", "signals") /\ Call.sig > Len(SignalOrder)
  /\ calls' = Goes("debugFile")
  /\ UNCHANGED <<modes, logFile, afLog_signal, fdoing_sigs, ended, counts, past>>

SignalsDone ==
  /\ In("ulog", "signals") /\ Call.sig > Len(SignalOrder)
  /\ fdoing_sigs' = FALSE
  /\ calls' = Goes("debugFile")
  /\ UNCHANGED <<modes, logFile, afLog_signal, ended, counts, past>>

-----------------------------------------------------------------------------
(* ulog: the files *)

(* esysdep_fopen.  If the file cannot be opened it says so, by ulog. *)
Opens(f, next) ==
  \/ /\ logFile' = [logFile EXCEPT ![f] = [open |-> TRUE, tried |-> TRUE]]
     /\ calls' = Goes(next.opened)
  \/ /\ logFile' = [logFile EXCEPT ![f].tried = TRUE]
     /\ calls' = Enters(UlogCall("error", TRUE, "none"), next.failed)

ToOpen(f) == ~logFile[f].open /\ ~logFile[f].tried

DebugFile ==
  /\ In("ulog", "debugFile")
  /\ IF fLfile /\ iDebug /\ ToOpen("debug")
     THEN Opens("debug", [opened |-> "logFile", failed |-> "logFile"])
     ELSE calls' = Goes("logFile") /\ UNCHANGED logFile
  /\ UNCHANGED <<modes, afLog_signal, fdoing_sigs, ended, counts, past>>

(* Where the message goes: there may be no debugging file, or the log file *)
(* may be about to be opened by an outer call.                             *)
LogFileOpens ==
  /\ In("ulog", "logFile")
  /\ fLfile /\ Call.type # "debug" /\ ToOpen("log")
  /\ Opens("log", [opened |-> "output", failed |-> "noLog"])
  /\ UNCHANGED <<modes, afLog_signal, fdoing_sigs, ended, counts, past>>

LogFileReady ==
  /\ In("ulog", "logFile")
  /\ ~fLfile \/ Call.type = "debug" \/ ~ToOpen("log")
  /\ LET f == IF Call.type = "debug" THEN "debug" ELSE "log"
     IN IF ~fLfile \/ logFile[f].open
        THEN calls' = Goes("output") /\ UNCHANGED dropped
        ELSE /\ calls' = Tail(calls)
             /\ dropped' = (dropped \/ (Call.message /\ Call.type # "debug"))
  /\ UNCHANGED <<modes, logFile, afLog_signal, fdoing_sigs, ended, counts, unreported,
                 early>>

(* The log file cannot be opened: pfLfatal, which comes to ulog_close, and *)
(* then the end.                                                           *)
NoLog ==
  /\ In("ulog", "noLog")
  /\ calls' = Enters(OtherCall("ulog_close"), "exit")
  /\ UNCHANGED <<modes, logFile, afLog_signal, fdoing_sigs, ended, counts, past>>

Output ==
  /\ In("ulog", "output")
  /\ unreported' = IF Call.message THEN unreported \ {Call.about} ELSE unreported
  /\ early' = IF Call.message THEN early \ {Call.about} ELSE early
  /\ calls' = IF Call.message /\ Call.type = "fatal"
              THEN Enters(OtherCall("ulog_close"), "exit")
              ELSE Tail(calls)
  /\ UNCHANGED <<modes, logFile, afLog_signal, fdoing_sigs, ended, counts, dropped>>

UsysdepExit ==
  /\ In("ulog", "exit")
  /\ ended' = TRUE
  /\ UNCHANGED <<modes, logFile, afLog_signal, fdoing_sigs, calls, counts, past>>

-----------------------------------------------------------------------------
(* ulog_close, ustats, fconn_close *)

UlogCloseStart ==
  /\ In("ulog_close", "start")
  /\ calls' = Enters(UlogCall("error", FALSE, "none"), "files")
  /\ UNCHANGED <<modes, logFile, afLog_signal, fdoing_sigs, ended, counts, past>>

UlogCloseFiles ==
  /\ In("ulog_close", "files")
  /\ logFile' = [f \in LogFiles |-> IF f # "stats" /\ logFile[f].open THEN Closed
                                    ELSE logFile[f]]
  /\ calls' = Tail(calls)
  /\ UNCHANGED <<modes, afLog_signal, fdoing_sigs, ended, counts, past>>

Ustats ==
  /\ In("ustats", "start")
  /\ IF ToOpen("stats") THEN Opens("stats", [opened |-> "written", failed |-> "written"])
     ELSE calls' = Goes("written") /\ UNCHANGED logFile
  /\ UNCHANGED <<modes, afLog_signal, fdoing_sigs, ended, counts, past>>

UstatsEnd ==
  /\ In("ustats", "written")
  /\ calls' = Tail(calls)
  /\ UNCHANGED <<modes, logFile, afLog_signal, fdoing_sigs, ended, counts, past>>

(* Hangups are not reported while a connection closes. *)
FconnCloseStart ==
  /\ In("fconn_close", "start")
  /\ fLog_sighup' = FALSE
  /\ calls' = Goes("closed")
  /\ UNCHANGED <<fLfile, iDebug, handler, logFile, afLog_signal, fdoing_sigs, ended,
                 counts, past>>

FconnCloseReports ==
  /\ In("fconn_close", "closed")
  /\ calls' = Enters(UlogCall("error", FALSE, "none"), "reported")
  /\ UNCHANGED <<modes, logFile, afLog_signal, fdoing_sigs, ended, counts, past>>

FconnCloseEnd ==
  /\ In("fconn_close", "reported")
  /\ fLog_sighup' = TRUE
  /\ calls' = Tail(calls)
  /\ UNCHANGED <<fLfile, iDebug, handler, logFile, afLog_signal, fdoing_sigs, ended,
                 counts, past>>

LogNext ==
  \/ UlogToFile \/ CallFromOutside
  \/ \E s \in LogSignals : UsysdepSignal(s) \/ Ussignal(s)
  \/ UlogStart \/ LogSignal \/ SignalsDone
  \/ DebugFile \/ LogFileOpens \/ LogFileReady \/ NoLog \/ Output \/ UsysdepExit
  \/ UlogCloseStart \/ UlogCloseFiles \/ Ustats \/ UstatsEnd
  \/ FconnCloseStart \/ FconnCloseReports \/ FconnCloseEnd

LogSpec == LogInit /\ [][LogNext]_logVars

-----------------------------------------------------------------------------
(* Properties *)

(* A signal that was caught is reported: when no call is under way, its    *)
(* flag is still set or its message was written after it came.  A hangup   *)
(* is left out only if its flag is seen while a connection closes (ulog,   *)
(* afLog_signal, fLog_sighup).                                             *)
SignalReported == Idle => unreported \subseteq afLog_signal

(* And it is reported in time: the signals that had come when a call was   *)
(* made to log a message are in the log before that message, though other  *)
(* calls come in between.  Without the log file nothing is (ulog,          *)
(* fdoing_sigs).                                                           *)
ReportedFirst ==
  In("ulog", "output") /\ Call.message /\ ~fdoing_sigs =>
    early = {} \/ (logFile["log"].tried /\ ~logFile["log"].open)

(* However the signals and the failures fall, ulog calls itself only so    *)
(* deep: there is no file it tries to open for the message that it could   *)
(* not be opened (ulog, fdoing_sigs, fLlog_tried).                         *)
CallsBounded == Len(calls) <= 6

(* A message for the log file is dropped only while the program ends for   *)
(* want of that file (ulog).                                               *)
DroppedAtEnd ==
  dropped => ended \/ \E i \in 1..Len(calls) : calls[i].at \in {"noLog", "exit"}

(* No signal goes unreported and no message unlogged, a signal is reported *)
(* before later messages, and reporting ends, though ulog is called from   *)
(* its own callbacks and signals come at any time.                         *)
LogComplete == SignalReported /\ ReportedFirst /\ CallsBounded /\ DroppedAtEnd
=============================================================================
