------------------------------- MODULE ConnIO -------------------------------
(***************************************************************************)
(* Reading, writing and doing both at once on an open port: fsblock,       *)
(* fsysdep_conn_read, fsysdep_conn_write and fsysdep_conn_io of            *)
(* src/unix/serial.c, with the alarms that time them out.                  *)
(*                                                                         *)
(* A direct port has one descriptor; the port on standard input has two,   *)
(* "rd" and "wr", which may be of one open file or of two.  Characters are *)
(* counted only.  A read or a write that is under way is a state of its    *)
(* own, in which a signal interrupts it; in any other state a signal is    *)
(* merely noted.  The terminal is POSIX's, with MIN; a call to fcntl       *)
(* never fails.                                                            *)
(***************************************************************************)
EXTENDS Integers

CONSTANTS
  MaxRead,        \* characters in a buffer, at most
  MinLimit,       \* the largest MIN that is set: 127
  ZeroLimit       \* writes of nothing after which the line is gone: 10

ASSUME ConnAssumption ==
  /\ MaxRead \in Nat \ {0}
  /\ MinLimit \in Nat \ {0}
  /\ ZeroLimit \in Nat \ {0}

VARIABLES
  double,         \* there are two descriptors
  sameFile,       \* of one open file, whose flags they share
  fterminal,      \* the port is a terminal
  o,              \* the descriptor in use
  flags,          \* for each descriptor, whether it blocks
  iflags,         \* what ssysdep_conn has of the first,
  iwr_flags,      \* and of the second
  asOpened,       \* history: fsblock has changed no mode since the port is open
  vmin, cSmin,    \* MIN of the terminal, and what it is held to be
  timer,          \* an alarm is scheduled
  handler,        \* what SIGALRM does: "ignore" or "usalarm"
  fSalarm,        \* usalarm ran
  quitSignal,     \* what FGOT_QUIT_SIGNAL says
  ioCall,         \* where the call is
  cmin,           \* characters still to be read, at least
  cread, cwrite,  \* the room left, and what is left to write
  wouldBlock,     \* reads that would have blocked
  czero,          \* writes of nothing
  expired,        \* history: the time of this read ran out
  ioGave          \* what the last call returned

ioModes   == <<flags, iflags, iwr_flags, asOpened>>
ioTimer   == <<timer, handler, fSalarm, expired>>
ioCounts  == <<cmin, cread, cwrite, wouldBlock, czero>>
ioPort    == <<double, sameFile, fterminal>>
connVars  == <<ioPort, o, ioModes, vmin, cSmin, ioTimer, quitSignal, ioCall,
               ioCounts, ioGave>>

Descriptors == {"rd", "wr"}

IoCalls ==
  {"closed", "idle", "setMin", "settingMin", "minInterrupted", "check", "toRead",
   "reading", "interrupted", "quiet", "write", "writing", "ioRead", "ioWrite",
   "select", "byte", "byteInterrupted"}

IoPortTypeOK ==
  /\ double \in BOOLEAN /\ sameFile \in BOOLEAN /\ fterminal \in BOOLEAN
  /\ o \in Descriptors
  /\ flags \in [Descriptors -> {"block", "nonblock"}]
  /\ iflags \in {"none", "block", "nonblock"}
  /\ iwr_flags \in {"none", "block", "nonblock"}
  /\ asOpened \in BOOLEAN
  /\ vmin \in 1..MinLimit /\ cSmin \in 1..MinLimit

IoCallTypeOK ==
  /\ timer \in BOOLEAN /\ fSalarm \in BOOLEAN /\ expired \in BOOLEAN
  /\ handler \in {"ignore", "usalarm"}
  /\ quitSignal \in BOOLEAN
  /\ ioCall \in IoCalls
  /\ cmin \in 0..MaxRead /\ cread \in 0..MaxRead /\ cwrite \in 0..MaxRead
  /\ wouldBlock \in 0..2
  /\ czero \in 0..ZeroLimit
  /\ ioGave \in {"nothing", "true", "false"}

ConnTypeOK == IoPortTypeOK /\ IoCallTypeOK

(* Standard input and output come in any mode, and a port that is opened   *)
(* without waiting for carrier does not block.                             *)
ConnInit ==
  /\ double = FALSE
  /\ sameFile = FALSE
  /\ fterminal = FALSE
  /\ o = "rd"
  /\ flags \in [Descriptors -> {"block", "nonblock"}]
  /\ iflags = "none"
  /\ iwr_flags = "none"
  /\ asOpened = FALSE
  /\ vmin = 1
  /\ cSmin = 1
  /\ timer = FALSE
  /\ handler = "ignore"
  /\ fSalarm = FALSE
  /\ expired = FALSE
  /\ quitSignal = FALSE
  /\ ioCall = "closed"
  /\ cmin = 0
  /\ cread = 0
  /\ cwrite = 0
  /\ wouldBlock = 0
  /\ czero = 0
  /\ ioGave = "nothing"

(* fsserial_open makes the first descriptor block and sets MIN;            *)
(* fsstdin_open then gets the flags of the second, and leaves them alone.  *)
ConnOpen ==
  /\ ioCall = "closed"
  /\ double' \in BOOLEAN
  /\ sameFile' \in {FALSE, double' /\ flags["rd"] = flags["wr"]}
  /\ fterminal' \in BOOLEAN
  /\ flags' = [d \in Descriptors |->
                 IF d = "rd" \/ sameFile' THEN "block" ELSE flags[d]]
  /\ iflags' = "block"
  /\ iwr_flags' = IF double' THEN flags'["wr"] ELSE "none"
  /\ asOpened' = TRUE
  /\ ioCall' = "idle"
  /\ UNCHANGED <<o, vmin, cSmin, ioTimer, quitSignal, ioCounts, ioGave>>

-----------------------------------------------------------------------------
(* fsblock, with q->o = d.  Nothing is done if q->iflags say that the mode *)
(* is right already; else both descriptors are changed, if there are two.  *)
Fsblock(d, mode) ==
  IF mode = iflags THEN UNCHANGED ioModes
  ELSE /\ flags' = [f \in Descriptors |->
                      IF f = d \/ sameFile \/ (iwr_flags # "none" /\ f = "wr")
                      THEN mode ELSE flags[f]]
       /\ iflags' = mode
       /\ iwr_flags' = IF iwr_flags # "none" THEN mode ELSE iwr_flags
       /\ asOpened' = FALSE

StartAlarm ==
  /\ handler' = "usalarm"
  /\ timer' = TRUE

Returns(r) == ioCall' = "idle" /\ ioGave' = r

(* The end of fsysdep_conn_read: SIGALRM is ignored, and then no longer    *)
(* scheduled.                                                              *)
Finish(r) ==
  /\ ioCall' = "quiet"
  /\ ioGave' = r
  /\ handler' = "ignore"

Quiet ==
  /\ ioCall = "quiet"
  /\ timer' = FALSE
  /\ ioCall' = "idle"
  /\ UNCHANGED <<ioPort, o, ioModes, vmin, cSmin, handler, fSalarm, expired,
                 quitSignal, ioCounts, ioGave>>

(* Variant: no other alarm is scheduled.                                   *)
UsalarmOnce ==
  /\ fSalarm' = TRUE
  /\ timer' = FALSE

(* usalarm, which schedules another alarm, in case the read has yet to     *)
(* begin.                                                                  *)
Usalarm ==
  /\ fSalarm' = TRUE
  /\ timer' = TRUE

(* A signal ends the call that is under way, as SIGALRM and the others do  *)
(* not restart it.                                                         *)
Interrupted ==
  ioCall' = IF ioCall = "reading" THEN "interrupted"
            ELSE IF ioCall = "settingMin" THEN "minInterrupted"
            ELSE IF ioCall = "writing" THEN "write"
            ELSE IF ioCall = "select" THEN "ioRead"
            ELSE IF ioCall = "byte" THEN "byteInterrupted"
            ELSE ioCall

AlarmRings ==
  /\ timer
  /\ IF handler = "usalarm"
     THEN Usalarm /\ Interrupted /\ expired' = TRUE
     ELSE timer' = FALSE /\ UNCHANGED <<fSalarm, ioCall, expired>>
  /\ UNCHANGED <<ioPort, o, ioModes, vmin, cSmin, handler, quitSignal,
                 ioCounts, ioGave>>

(* Another signal; SIGTERM, SIGQUIT and SIGPIPE set FGOT_QUIT_SIGNAL.      *)
SignalArrives ==
  /\ ioCall # "closed"
  /\ quitSignal' \in {quitSignal, TRUE}
  /\ Interrupted
  /\ UNCHANGED <<ioPort, o, ioModes, vmin, cSmin, ioTimer, ioCounts, ioGave>>

-----------------------------------------------------------------------------
(* fsdouble_read and fsysdep_conn_read *)

(* Variant: what an earlier alarm left in fSalarm is not reset.            *)
StartReadStale ==
  /\ ioCall = "idle"
  /\ o' = "rd"
  /\ \E want \in 1..MaxRead :
       /\ cread' = want
       /\ cmin' \in 1..want
  /\ Fsblock("rd", "block")
  /\ StartAlarm
  /\ expired' = FALSE
  /\ wouldBlock' = 0
  /\ ioCall' = "setMin"
  /\ cwrite' = 0
  /\ czero' = 0
  /\ ioGave' = "nothing"
  /\ UNCHANGED <<ioPort, vmin, cSmin, fSalarm, quitSignal>>

StartRead ==
  /\ ioCall = "idle"
  /\ o' = "rd"
  /\ \E want \in 1..MaxRead :
       /\ cread' = want
       /\ cmin' \in 1..want
  /\ Fsblock("rd", "block")
  /\ StartAlarm
  /\ fSalarm' = FALSE
  /\ expired' = FALSE
  /\ wouldBlock' = 0
  /\ ioCall' = "setMin"
  /\ cwrite' = 0
  /\ czero' = 0
  /\ ioGave' = "nothing"
  /\ UNCHANGED <<ioPort, vmin, cSmin, quitSignal>>

(* A read that is given no time returns at once: "we return TRUE when a    *)
(* timeout expires".  The time that the user sets may be 0 or less.        *)
ReadNoTime ==
  /\ ioCall = "idle"
  /\ o' = "rd"
  /\ \E want \in 1..MaxRead :
       /\ cread' = want
       /\ cmin' \in 1..want
  /\ expired' = TRUE
  /\ wouldBlock' = 0
  /\ cwrite' = 0
  /\ czero' = 0
  /\ Returns("true")
  /\ UNCHANGED <<ioPort, ioModes, vmin, cSmin, timer, handler, fSalarm, quitSignal>>

Csetmin == IF cmin < MinLimit THEN cmin ELSE MinLimit

(* MIN is set to what is still needed, if it is not that already.          *)
NeedsMin ==
  /\ ioCall = "setMin"
  /\ IF fterminal /\ Csetmin # cSmin
     THEN ioCall' = "settingMin"
     ELSE ioCall' = "check"
  /\ UNCHANGED <<ioPort, o, ioModes, vmin, cSmin, ioTimer, quitSignal, ioCounts,
                 ioGave>>

SetsMin ==
  /\ ioCall = "settingMin"
  /\ vmin' = Csetmin
  /\ cSmin' = Csetmin
  /\ ioCall' = "check"
  /\ UNCHANGED <<ioPort, o, ioModes, ioTimer, quitSignal, ioCounts, ioGave>>

CannotSetMin ==
  /\ ioCall = "settingMin"
  /\ Finish("false")
  /\ UNCHANGED <<ioPort, o, ioModes, vmin, cSmin, timer, fSalarm, expired,
                 quitSignal, ioCounts>>

(* If it was the alarm that interrupted it, the alarm is started again.    *)
MinInterrupted ==
  /\ ioCall = "minInterrupted"
  /\ IF quitSignal
     THEN Finish("false") /\ UNCHANGED <<timer, fSalarm, expired>>
     ELSE /\ ioCall' = "settingMin"
          /\ timer' = (timer \/ fSalarm)
          /\ fSalarm' = FALSE
          /\ expired' = (expired /\ ~fSalarm)
          /\ UNCHANGED <<handler, ioGave>>
  /\ UNCHANGED <<ioPort, o, ioModes, vmin, cSmin, quitSignal, ioCounts>>

CheckSignals ==
  /\ ioCall = "check"
  /\ IF quitSignal THEN Finish("false")
     ELSE IF fSalarm THEN Finish("true")
     ELSE ioCall' = "toRead" /\ UNCHANGED <<handler, ioGave>>
  /\ UNCHANGED <<ioPort, o, ioModes, vmin, cSmin, timer, fSalarm, expired,
                 quitSignal, ioCounts>>

BeginRead ==
  /\ ioCall = "toRead"
  /\ ioCall' = "reading"
  /\ UNCHANGED <<ioPort, o, ioModes, vmin, cSmin, ioTimer, quitSignal, ioCounts,
                 ioGave>>

(* Something is read.                                                      *)
ReadGets ==
  /\ ioCall = "reading"
  /\ \E n \in 1..cread :
       /\ cread' = cread - n
       /\ cmin' = IF n >= cmin THEN 0 ELSE cmin - n
  /\ wouldBlock' = 0
  /\ IF cmin' = 0 THEN Finish("true")
     ELSE ioCall' = "setMin" /\ UNCHANGED <<handler, ioGave>>
  /\ UNCHANGED <<ioPort, o, ioModes, vmin, cSmin, timer, fSalarm, expired,
                 quitSignal, cwrite, czero>>

(* The read says that it would block, although the descriptor blocks.      *)
ReadWouldBlock ==
  /\ ioCall = "reading"
  /\ IF fSalarm
     THEN Finish("true") /\ UNCHANGED wouldBlock
     ELSE IF quitSignal \/ wouldBlock = 2
     THEN Finish("false") /\ UNCHANGED wouldBlock
     ELSE /\ wouldBlock' = wouldBlock + 1
          /\ ioCall' = "setMin"
          /\ UNCHANGED <<handler, ioGave>>
  /\ UNCHANGED <<ioPort, o, ioModes, vmin, cSmin, timer, fSalarm, expired,
                 quitSignal, cmin, cread, cwrite, czero>>

(* It fails, or the line was hung up.                                      *)
ReadFails ==
  /\ ioCall = "reading"
  /\ \E r \in {"false"} \cup (IF fSalarm THEN {"true"} ELSE {}) : Finish(r)
  /\ UNCHANGED <<ioPort, o, ioModes, vmin, cSmin, timer, fSalarm, expired,
                 quitSignal, ioCounts>>

ReadInterrupted ==
  /\ ioCall = "interrupted"
  /\ IF fSalarm THEN Finish("true")
     ELSE IF quitSignal THEN Finish("false")
     ELSE ioCall' = "setMin" /\ UNCHANGED <<handler, ioGave>>
  /\ UNCHANGED <<ioPort, o, ioModes, vmin, cSmin, timer, fSalarm, expired,
                 quitSignal, ioCounts>>

-----------------------------------------------------------------------------
(* fsdouble_write and fsysdep_conn_write *)

WriteEnd == IF double THEN "wr" ELSE "rd"

(* The port is made to block through the first descriptor, so that the     *)
(* second call of fsblock finds it so.                                     *)
StartWrite ==
  /\ ioCall = "idle"
  /\ cwrite' \in 1..MaxRead
  /\ Fsblock("rd", "block")
  /\ o' = WriteEnd
  /\ czero' = 0
  /\ ioCall' = "write"
  /\ cmin' = 0
  /\ cread' = 0
  /\ wouldBlock' = 0
  /\ ioGave' = "nothing"
  /\ UNCHANGED <<ioPort, vmin, cSmin, ioTimer, quitSignal>>

BeginWrite ==
  /\ ioCall = "write"
  /\ IF quitSignal THEN Returns("false")
     ELSE ioCall' = "writing" /\ UNCHANGED ioGave
  /\ UNCHANGED <<ioPort, o, ioModes, vmin, cSmin, ioTimer, quitSignal, ioCounts>>

Writes ==
  /\ ioCall = "writing"
  /\ \E n \in 1..cwrite : cwrite' = cwrite - n
  /\ czero' = 0
  /\ IF cwrite' = 0 THEN Returns("true")
     ELSE ioCall' = "write" /\ UNCHANGED ioGave
  /\ UNCHANGED <<ioPort, o, ioModes, vmin, cSmin, ioTimer, quitSignal, cmin, cread,
                 wouldBlock>>

(* A write of nothing, or one that says it would block.                    *)
WritesNothing ==
  /\ ioCall = "writing"
  /\ czero' = czero + 1
  /\ IF czero' = ZeroLimit THEN Returns("false")
     ELSE ioCall' = "write" /\ UNCHANGED ioGave
  /\ UNCHANGED <<ioPort, o, ioModes, vmin, cSmin, ioTimer, quitSignal, cmin, cread,
                 cwrite, wouldBlock>>

IoFails ==
  /\ ioCall \in {"writing", "ioRead", "ioWrite"}
  /\ Returns("false")
  /\ UNCHANGED <<ioPort, o, ioModes, vmin, cSmin, ioTimer, quitSignal, ioCounts>>

-----------------------------------------------------------------------------
(* fsysdep_conn_io *)

StartIo ==
  /\ ioCall = "idle"
  /\ cread' \in 1..MaxRead
  /\ cwrite' \in 0..MaxRead
  /\ czero' = 0
  /\ ioCall' = "ioRead"
  /\ cmin' = 0
  /\ wouldBlock' = 0
  /\ ioGave' = "nothing"
  /\ UNCHANGED <<ioPort, o, ioModes, vmin, cSmin, ioTimer, quitSignal>>

(* What has come is read, without blocking.                                *)
IoReads ==
  /\ ioCall = "ioRead"
  /\ Fsblock("rd", "nonblock")
  /\ IF quitSignal
     THEN Returns("false") /\ o' = "rd" /\ UNCHANGED cread
     ELSE /\ \E n \in 0..cread : cread' = cread - n
          /\ IF cread' = 0 \/ cwrite = 0
             THEN Returns("true") /\ o' = "rd"
             ELSE ioCall' = "ioWrite" /\ o' = WriteEnd /\ UNCHANGED ioGave
  /\ UNCHANGED <<ioPort, vmin, cSmin, ioTimer, quitSignal, cmin, cwrite,
                 wouldBlock, czero>>

(* All is written that can be.  If that is nothing, select waits.          *)
IoWrites ==
  /\ ioCall = "ioWrite"
  /\ IF quitSignal
     THEN Returns("false") /\ UNCHANGED <<cwrite, czero>>
     ELSE \E n \in 0..cwrite :
            /\ cwrite' = cwrite - n
            /\ czero' = IF n > 0 THEN 0 ELSE czero
            /\ IF cwrite' = 0 THEN Returns("true")
               ELSE /\ ioCall' = IF n > 0 THEN "ioRead" ELSE "select"
                    /\ UNCHANGED ioGave
  /\ UNCHANGED <<ioPort, o, ioModes, vmin, cSmin, ioTimer, quitSignal, cmin, cread,
                 wouldBlock>>

SelectReturns ==
  /\ ioCall = "select"
  /\ \/ ioCall' = "ioRead" /\ UNCHANGED ioGave
     \/ quitSignal /\ Returns("false")
  /\ UNCHANGED <<ioPort, o, ioModes, vmin, cSmin, ioTimer, quitSignal, ioCounts>>

(* select does not work on the port: one byte is written, and the alarm    *)
(* limits the time that takes.                                             *)
SelectFails ==
  /\ ioCall = "select"
  /\ Fsblock("rd", "block")
  /\ o' = WriteEnd
  /\ IF quitSignal THEN Returns("false") /\ UNCHANGED <<timer, handler>>
     ELSE StartAlarm /\ ioCall' = "byte" /\ UNCHANGED ioGave
  /\ UNCHANGED <<ioPort, vmin, cSmin, fSalarm, expired, quitSignal, ioCounts>>

StopAlarm == handler' = "ignore" /\ timer' = FALSE

ByteWritten ==
  /\ ioCall = "byte"
  /\ StopAlarm
  /\ \E n \in {0, 1} :
       /\ cwrite' = cwrite - n
       /\ czero' = IF n = 1 THEN 0 ELSE czero + 1
  /\ IF czero' = ZeroLimit THEN Returns("false")
     ELSE ioCall' = "ioRead" /\ UNCHANGED ioGave
  /\ UNCHANGED <<ioPort, o, ioModes, vmin, cSmin, fSalarm, expired, quitSignal, cmin,
                 cread, wouldBlock>>

ByteInterrupted ==
  /\ ioCall = "byteInterrupted"
  /\ StopAlarm
  /\ ioCall' = "ioRead"
  /\ UNCHANGED <<ioPort, o, ioModes, vmin, cSmin, fSalarm, expired, quitSignal,
                 ioCounts, ioGave>>

ByteFails ==
  /\ ioCall = "byte"
  /\ StopAlarm
  /\ Returns("false")
  /\ UNCHANGED <<ioPort, o, ioModes, vmin, cSmin, fSalarm, expired, quitSignal,
                 ioCounts>>

ReadStep ==
  \/ NeedsMin \/ CannotSetMin \/ MinInterrupted \/ CheckSignals \/ BeginRead
  \/ ReadInterrupted \/ Quiet

ConnNext ==
  \/ ConnOpen \/ AlarmRings \/ SignalArrives
  \/ StartRead \/ ReadNoTime \/ ReadStep \/ SetsMin \/ ReadGets \/ ReadWouldBlock \/ ReadFails
  \/ StartWrite \/ BeginWrite \/ Writes \/ WritesNothing \/ IoFails
  \/ StartIo \/ IoReads \/ IoWrites \/ SelectReturns \/ SelectFails
  \/ ByteWritten \/ ByteInterrupted \/ ByteFails

(* A scheduled alarm rings, the program goes on unless it is in a system   *)
(* call, and what the terminal has to send goes out in the end, so that    *)
(* MIN can be set.  Nothing else is said of the port.                      *)
ConnFairness ==
  /\ WF_connVars(AlarmRings)
  /\ WF_connVars(NeedsMin \/ MinInterrupted \/ CheckSignals \/ BeginRead
                 \/ ReadInterrupted \/ Quiet)
  /\ SF_connVars(SetsMin)

ConnSpec == ConnInit /\ [][ConnNext]_connVars /\ ConnFairness

-----------------------------------------------------------------------------
(* Properties *)

(* "When fsysdep_conn_read finishes, there will be no SIGALRM scheduled    *)
(* and SIGALRM will be ignored", and so it is after the byte that          *)
(* fsysdep_conn_io writes, however they end: an alarm never interrupts     *)
(* another call.                                                           *)
AlarmsOff ==
  ioCall \in {"idle", "write", "writing", "ioRead", "ioWrite", "select"} =>
    ~timer /\ handler = "ignore"

(* The modes that are remembered to save calls of fcntl are those of the   *)
(* port, in whatever order the calls come, so that fsysdep_conn_io blocks  *)
(* on neither descriptor, and a read or a write that is to block does      *)
(* (fsblock and the routines that choose q->o): all but the writes to an   *)
(* output that came in another mode, until fsblock has changed it once.    *)
ModeFits ==
  /\ ioCall # "closed" =>
       iflags = flags["rd"] /\ iwr_flags = IF double THEN flags["wr"] ELSE "none"
  /\ ioCall = "reading" => o = "rd" /\ flags["rd"] = "block"
  /\ ioCall = "writing" =>
       /\ o = WriteEnd
       /\ flags[o] = "block" \/ (double /\ ~sameFile /\ asOpened)
  /\ ioCall = "byte" => o = WriteEnd /\ flags[o] = "block"
  /\ ioCall = "ioWrite" => \A d \in {"rd", WriteEnd} : flags[d] = "nonblock"

(* "Get the port flags, and make sure the ports are blocking"              *)
(* (serial.c:1056), "we want blocking writes here" (serial.c:1922): it is  *)
(* not so of an output of its own that came in another mode.               *)
OutputBlocks == ioCall = "writing" => flags[o] = "block"

(* A read of a terminal never waits for more than is still needed, nor     *)
(* wakes for less: MIN, which is set only when it is held to differ, is    *)
(* right although setting it may have failed or been interrupted before    *)
(* (fsysdep_conn_read, cSmin).                                             *)
MinFits == ioCall = "reading" /\ fterminal => vmin = Csetmin

(* A read that succeeds with less than was asked for has run out of time,  *)
(* or was given none: an alarm of an earlier call never ends it            *)
(* (fsysdep_conn_read, fSalarm).                                           *)
ReadEnough ==
  ioCall \in {"quiet", "idle"} /\ ioGave = "true" => cmin = 0 \/ expired

(* "There will be a span of time between the time the code checks the      *)
(* variable and the time it calls the read system call; if the SIGALRM     *)
(* occurs during that time, the read might hang forever": it does not, and *)
(* every read returns although nothing may ever come                       *)
(* (fsysdep_conn_read, usalarm).                                           *)
ReadReturns == ioCall = "setMin" ~> ioCall = "idle"

(* What the calls remember of the port, of its terminal and of the alarm   *)
(* is so, however the calls before have ended, and none of it makes a read *)
(* wait for too much or return too soon.                                   *)
ConnConsistent == AlarmsOff /\ ModeFits /\ MinFits /\ ReadEnough
=============================================================================
