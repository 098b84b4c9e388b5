----------------------------- MODULE PortSelect -----------------------------
(***************************************************************************)
(* How cu finds, opens, uses and gives back a port: main and ucuabort of   *)
(* src/cu.c with icuport_lock, and uuconf_taylor_find_port of              *)
(* src/uuconf/tport.c.                                                     *)
(*                                                                         *)
(* A command asks for a port by name, line or speed, or for a system whose *)
(* alternates are tried in turn.  That a line is locked by somebody else   *)
(* is found out when its lock is asked for.  The session itself, from      *)
(* "connected" on, is CuSession's.                                         *)
(***************************************************************************)
EXTENDS SerialPort, Sequences

CONSTANTS
  PortFiles,      \* configurations: the ports of all port files, in order
  Commands        \* what cu may be asked for

(* An alternate of a system; own is the port that it describes itself.     *)
AlternatePort ==
  [port : PortNames \cup {"any"}, speed : Nat, high : Nat, own : Ports, call : BOOLEAN]

PortCommand ==
  [port : PortNames \cup {"any"}, line : Lines \cup {NoLine}, speed : Nat,
   alternates : Seq(AlternatePort), parity : {"default", "none", "even", "odd"},
   strip : {"default", "sevenBits"}, stop : {"on", "off"}]

ASSUME SelectAssumption ==
  PortFiles \subseteq Seq(Ports) /\ Commands \subseteq PortCommand

VARIABLES
  files,          \* the ports of the files, in order
  cmd,            \* the command
  alternate,      \* the alternate of the system that is tried; 0: none
  place,          \* the port of the files that is looked at
  portAt,         \* where the program is
  fmatched,       \* sinfo: a port matched
  qCuconn,        \* there is a connection to give back
  fCuclose_conn,  \* and to close
  portMessage,    \* the reason of a failure
  portResult,     \* "none", "success" or "failure"
  drain,          \* history: how the output drained when the line was closed
  busy            \* history: the places whose ports were locked already

selectVars == <<portVars, files, cmd, alternate, place, portAt, fmatched, qCuconn,
                fCuclose_conn, portMessage, portResult, drain, busy>>

searchVars == <<alternate, place, fmatched, busy>>
asked      == <<files, cmd>>
holding    == <<qCuconn, fCuclose_conn>>
outcome    == <<portMessage, portResult, drain>>

Messages == {"none", "notRead", "inUse", "noPorts", "lineInUse", "denied",
             "unsupportedSpeed", "notOpened", "notSet", "signal", "session"}

PortTypeOK ==
  /\ psysdep \in {"none", "made", "freed"}
  /\ device \in Lines \cup {NoLine}
  /\ kernel \in [Lines -> LineSettings]
  /\ lockFiles \subseteq Lines
  /\ euid = "uucp"
  /\ isTerminal \in BOOLEAN /\ fmatched \in BOOLEAN
  /\ qCuconn \in BOOLEAN /\ fCuclose_conn \in BOOLEAN
  /\ files \in Seq(Ports) /\ cmd \in PortCommand
  /\ alternate \in 0..Len(cmd.alternates) + 1
  /\ portMessage \in Messages
  /\ portResult \in {"none", "success", "failure"}
  /\ drain \in Drains \cup {"none"}

NoCommand == [port |-> "any", line |-> NoLine, speed |-> 0, alternates |-> <<>>,
              parity |-> "default", strip |-> "default", stop |-> "on"]

SelectInit ==
  /\ SerialInit
  /\ files = <<>>
  /\ cmd = NoCommand
  /\ alternate = 0
  /\ place = 0
  /\ portAt = "start"
  /\ fmatched = FALSE
  /\ qCuconn = FALSE
  /\ fCuclose_conn = FALSE
  /\ portMessage = "none"
  /\ portResult = "none"
  /\ drain = "none"
  /\ busy = {}

-----------------------------------------------------------------------------
(* What is looked for *)

ByOptions == cmd.alternates = <<>>

(* What is asked of a port now: by the options, or by an alternate.        *)
Request ==
  IF ByOptions THEN [port |-> cmd.port, line |-> cmd.line, speed |-> cmd.speed,
                     high |-> 0]
  ELSE LET a == cmd.alternates[alternate]
       IN [port |-> a.port, line |-> NoLine, speed |-> a.speed, high |-> a.high]

(* fsysdep_port_is_line: the line of a direct port. *)
IsLine(p, line) == p.type = "direct" /\ p.line = line

(* The tests of uuconf_taylor_find_port and icuport_lock. *)
Fits(p, r) ==
  /\ r.port \in {"any", p.name}
  /\ r.speed # 0 /\ p.type = "direct" => p.speed \in {0, r.speed}
  /\ r.line # NoLine => IsLine(p, r.line)

Fatal(message) ==
  /\ portAt' = "abort"
  /\ portMessage' = message
  /\ portResult' = "failure"
  /\ UNCHANGED drain

StartSearch ==
  /\ portAt' = "search"
  /\ place' = 1
  /\ fmatched' = FALSE

-----------------------------------------------------------------------------
(* main, the choice of a port *)

(* The options are read.  With a port, a line or a speed the files are     *)
(* searched, else the alternates of the system are tried.                  *)
SelectStart ==
  /\ portAt = "start"
  /\ files' \in PortFiles
  /\ cmd' \in Commands
  /\ IF cmd'.alternates = <<>>
     THEN StartSearch /\ UNCHANGED alternate
     ELSE portAt' = "alternate" /\ alternate' = 1 /\ UNCHANGED <<place, fmatched>>
  /\ UNCHANGED <<portVars, holding, outcome, busy>>

(* An alternate that may not be called is skipped. *)
SkipAlternate ==
  /\ portAt = "alternate" /\ alternate <= Len(cmd.alternates)
  /\ ~cmd.alternates[alternate].call
  /\ alternate' = alternate + 1
  /\ UNCHANGED <<portVars, asked, portAt, place, fmatched, holding, outcome, busy>>

(* One with a port of its own uses that. *)
TryOwnPort ==
  /\ portAt = "alternate" /\ alternate <= Len(cmd.alternates)
  /\ LET a == cmd.alternates[alternate]
     IN a.call /\ a.own.type # "none" /\ FconnInit(a.own)
  /\ place' = 0
  /\ portAt' = "lock"
  /\ UNCHANGED <<asked, alternate, fmatched, busy, holding, outcome>>

SearchAlternate ==
  /\ portAt = "alternate" /\ alternate <= Len(cmd.alternates)
  /\ LET a == cmd.alternates[alternate] IN a.call /\ a.own.type = "none"
  /\ StartSearch
  /\ UNCHANGED <<portVars, asked, alternate, busy, holding, outcome>>

NoAlternateLeft ==
  /\ portAt = "alternate" /\ alternate > Len(cmd.alternates)
  /\ Fatal(IF fmatched THEN "inUse" ELSE "noPorts")
  /\ UNCHANGED <<portVars, asked, searchVars, holding>>

-----------------------------------------------------------------------------
(* uuconf_taylor_find_port with icuport_lock *)

SkipPort ==
  /\ portAt = "search" /\ place <= Len(files)
  /\ ~Fits(files[place], Request)
  /\ place' = place + 1
  /\ UNCHANGED <<portVars, asked, alternate, portAt, fmatched, busy, holding, outcome>>

TryPort ==
  /\ portAt = "search" /\ place <= Len(files)
  /\ Fits(files[place], Request)
  /\ FconnInit(files[place])
  /\ fmatched' = TRUE
  /\ portAt' = "lock"
  /\ UNCHANGED <<asked, alternate, place, busy, holding, outcome>>

(* A file cannot be opened or read; the last one may have no ports. *)
FilesFail ==
  /\ portAt = "search"
  /\ Fatal("notRead")
  /\ UNCHANGED <<portVars, asked, searchVars, holding>>

SearchEnds ==
  /\ portAt = "search" /\ place > Len(files)
  /\ UNCHANGED <<asked, busy, place, fmatched, holding>>
  /\ IF ~ByOptions
     THEN /\ portAt' = "alternate"
          /\ alternate' = alternate + 1
          /\ UNCHANGED <<portVars, outcome>>
     ELSE /\ UNCHANGED alternate
          /\ IF cmd.line = NoLine \/ cmd.port # "any"
             THEN /\ Fatal(IF fmatched THEN "inUse" ELSE "noPorts")
                  /\ UNCHANGED portVars
             ELSE \E hard \in BOOLEAN, carrier \in BOOLEAN :
                    (* A direct port is made for the line; nothing says    *)
                    (* what its hardware flow control and carrier are.     *)
                    /\ FconnInit([name |-> "line", type |-> "direct",
                                  line |-> cmd.line, speed |-> cmd.speed,
                                  hard |-> hard, carrier |-> carrier])
                    /\ portAt' = "lock"
                    /\ UNCHANGED outcome

Faked == place > Len(files)
AsUser == ByOptions       \* sinfo.fdirect, or the fuser of the port faked

(* fconn_lock. *)
GetLock ==
  /\ portAt = "lock"
  /\ IF qport.type = "direct"
     THEN TakesLock /\ portAt' = IF OpensAtLock THEN "lockLine" ELSE "locked"
     ELSE UNCHANGED portVars /\ portAt' = "locked"
  /\ UNCHANGED <<asked, searchVars, holding, outcome>>

LockTaken ==
  /\ portAt = "lock" /\ qport.type = "direct"
  /\ portAt' = "notLocked"
  /\ UNCHANGED <<portVars, asked, searchVars, holding, outcome>>

LockLine ==
  /\ portAt = "lockLine"
  /\ \/ LockOpensLine /\ portAt' = "locked"
     \/ LockCannotOpen(AsUser) /\ portAt' = "notLocked"
  /\ UNCHANGED <<asked, searchVars, holding, outcome>>

(* Variant: the search ends with the first port that is in use.            *)
NotLockedLast ==
  /\ portAt = "notLocked"
  /\ busy' = busy \cup {place}
  /\ UconnFree
  /\ portAt' = "search"
  /\ place' = Len(files) + 1
  /\ UNCHANGED <<asked, alternate, fmatched, holding, outcome>>

(* A port that could not be locked is freed, and the next one is tried; a  *)
(* line for which a port was made is the only one.                         *)
NotLocked ==
  /\ portAt = "notLocked"
  /\ busy' = busy \cup {place}
  /\ IF Faked
     THEN Fatal("lineInUse") /\ UNCHANGED <<portVars, place, alternate>>
     ELSE /\ UconnFree
          /\ UNCHANGED outcome
          /\ IF place = 0
             THEN portAt' = "alternate" /\ alternate' = alternate + 1 /\ UNCHANGED place
             ELSE portAt' = "search" /\ place' = place + 1 /\ UNCHANGED alternate
  /\ UNCHANGED <<asked, fmatched, holding>>

Locked ==
  /\ portAt = "locked"
  /\ qCuconn' = TRUE
  /\ portAt' = "found"
  /\ UNCHANGED <<portVars, asked, searchVars, fCuclose_conn, outcome>>

(* The port cannot be kept for want of memory: main unlocks and frees the  *)
(* connection and dies of it.                                              *)
FoundButNoMemory ==
  /\ portAt = "found" /\ place \in 1..Len(files) /\ psysdep = "made"
  /\ IF Unlocked THEN UconnFree /\ Fatal("notRead")
     ELSE UnlockStep /\ UNCHANGED <<portAt, outcome>>
  /\ UNCHANGED <<asked, searchVars, holding>>

(* The user may not use the line that was named. *)
AccessDenied ==
  /\ portAt = "found" /\ Faked
  /\ Fatal("denied")
  /\ UNCHANGED <<portVars, asked, searchVars, holding>>

-----------------------------------------------------------------------------
(* fconn_open, fconn_set *)

SpeedRefused ==
  /\ portAt = "found" /\ qport.type = "direct"
  /\ ~SpeedKnown(Request.speed, Request.high)
  /\ Fatal("unsupportedSpeed")
  /\ UNCHANGED <<portVars, asked, searchVars, holding>>

PortOpens ==
  /\ portAt = "found"
  /\ IF qport.type = "direct"
     THEN SpeedKnown(Request.speed, Request.high) /\ OpensLine /\ portAt' = "setRaw"
     ELSE UNCHANGED portVars /\ portAt' = "opened"
  /\ UNCHANGED <<asked, searchVars, holding, outcome>>

PortDoesNotOpen ==
  /\ portAt = "found" /\ qport.type = "direct"
  /\ SpeedKnown(Request.speed, Request.high)
  /\ CannotOpenLine
  /\ Fatal("notOpened")
  /\ UNCHANGED <<asked, searchVars, holding>>

SetRaw ==
  /\ portAt = "setRaw"
  /\ \/ SetsRaw(Request.speed, Request.high) /\ portAt' = "hardflow"
     \/ UNCHANGED portVars /\ portAt' = "opened"        \* it is not a terminal
  /\ UNCHANGED <<asked, searchVars, holding, outcome>>

RawFails ==
  /\ portAt = "setRaw"
  /\ CannotSetRaw
  /\ Fatal("notOpened")
  /\ UNCHANGED <<asked, searchVars, holding>>

SetHardflow ==
  /\ portAt = "hardflow"
  /\ Hardflow
  /\ portAt' = "opened"
  /\ UNCHANGED <<asked, searchVars, holding, outcome>>

HardflowFails ==
  /\ portAt = "hardflow"
  /\ CannotHardflow
  /\ Fatal("notOpened")
  /\ UNCHANGED <<asked, searchVars, holding>>

Opened ==
  /\ portAt = "opened"
  /\ fCuclose_conn' = TRUE
  /\ \/ portAt' = "set" /\ UNCHANGED outcome
     \/ Fatal("signal")
  /\ UNCHANGED <<portVars, asked, searchVars, qCuconn>>

SetPort ==
  /\ portAt = "set"
  /\ SetsPort(cmd.parity, cmd.strip, cmd.stop)
  /\ portAt' = "connected"
  /\ UNCHANGED <<asked, searchVars, holding, outcome>>

SetFails ==
  /\ portAt = "set"
  /\ CannotSetPort(cmd.parity, cmd.strip, cmd.stop)
  /\ Fatal("notSet")
  /\ UNCHANGED <<asked, searchVars, holding>>

-----------------------------------------------------------------------------
(* The end: main, or ucuabort *)

(* icunostop: the user changes the flow control, with ~%stop or ~%nostop.  *)
ChangeStop ==
  /\ portAt = "connected"
  /\ \E stop \in {"on", "off"} :
       /\ cmd' = [cmd EXCEPT !.stop = stop]
       /\ \/ SetsPort("default", "default", stop) /\ UNCHANGED <<portAt, outcome>>
          \/ CannotSetPort("default", "default", stop) /\ Fatal("notSet")
  /\ UNCHANGED <<files, searchVars, holding>>

SessionEnds ==
  /\ portAt = "connected"
  /\ \/ portAt' = "close" /\ portResult' = "success" /\ UNCHANGED <<portMessage, drain>>
     \/ Fatal("session")
  /\ UNCHANGED <<portVars, asked, searchVars, holding>>

(* ucuabort, which every fatal error comes to.                             *)
Abort ==
  /\ portAt = "abort"
  /\ portAt' = IF ~qCuconn THEN "exit" ELSE IF fCuclose_conn THEN "close" ELSE "unlock"
  /\ qCuconn' = FALSE
  /\ fCuclose_conn' = FALSE
  /\ UNCHANGED <<portVars, asked, searchVars, outcome>>

ClosePort ==
  /\ portAt = "close"
  /\ drain' \in Drains
  /\ ClosesLine(drain')
  /\ portAt' = "unlock"
  /\ UNCHANGED <<asked, searchVars, holding, portMessage, portResult>>

UnlockPort ==
  /\ portAt = "unlock" /\ ~Unlocked
  /\ UnlockStep
  /\ UNCHANGED <<asked, searchVars, portAt, holding, outcome>>

FreePort ==
  /\ portAt = "unlock" /\ Unlocked
  /\ UconnFree
  /\ portAt' = "exit"
  /\ UNCHANGED <<asked, searchVars, holding, outcome>>

SelectNext ==
  \/ SelectStart \/ SkipAlternate \/ TryOwnPort \/ SearchAlternate \/ NoAlternateLeft
  \/ SkipPort \/ TryPort \/ FilesFail \/ SearchEnds
  \/ GetLock \/ LockTaken \/ LockLine \/ NotLocked \/ Locked
  \/ AccessDenied
  \/ SpeedRefused \/ PortOpens \/ PortDoesNotOpen \/ SetRaw \/ RawFails
  \/ SetHardflow \/ HardflowFails \/ Opened \/ SetPort \/ SetFails
  \/ ChangeStop \/ SessionEnds \/ Abort \/ ClosePort \/ UnlockPort \/ FreePort

SelectSpec == SelectInit /\ [][SelectNext]_selectVars

-----------------------------------------------------------------------------
(* Properties *)

(* A line is open only while its lock file is this program's, on every way *)
(* from the lock to the exit: another program never finds it unlocked and  *)
(* in use (fsserial_lock, fsserial_open, fsserial_unlock).                 *)
OpenUnderLock == device # NoLine => device \in lockFiles

(* Wherever the search, the open, the settings or the session fail, no     *)
(* line is open and no lock file is left when the program exits            *)
(* (ucuabort, icuport_lock, fsserial_lock).                                *)
NothingLeft == portAt = "exit" => device = NoLine /\ lockFiles = {}

(* A connection that was opened leaves every line with the settings it had *)
(* before, also when its output did not drain in time, unless a signal     *)
(* ended the wait (fsserial_close, ucuabort).                              *)
SettingsRestored ==
  portAt = "exit" /\ portMessage # "notOpened" /\ drain # "interrupted" =>
    kernel = Natural

(* And if one did.                                                         *)
SettingsAlwaysRestored ==
  portAt = "exit" /\ portMessage # "notOpened" => kernel = Natural

(* While it is connected the line has the settings that the options and    *)
(* the port ask for, on whatever way they were set (fsserial_open,         *)
(* fsserial_hardflow, fsserial_set).                                       *)
SettingsAsAsked ==
  portAt = "connected" /\ isTerminal =>
    LET is     == kernel[qport.line]
        speeds == {Request.speed, Request.high, qport.speed} \ {0}
    IN /\ is.raw
       /\ is.speed \in IF speeds = {} THEN {Natural[qport.line].speed} ELSE speeds
       /\ is.parity = IF cmd.parity = "default" THEN "none" ELSE cmd.parity
       /\ is.strip = (cmd.strip = "sevenBits")
       /\ is.hard = qport.hard
       /\ is.xon = IF cmd.stop = "off" THEN "none"
                   ELSE IF is.hard THEN "recognised" ELSE "both"
       /\ is.local = ~qport.carrier

(* The port that is used has the name, the line and the speed that were    *)
(* asked for, and those before it in the files that would have done as     *)
(* well were in use (uuconf_taylor_find_port, icuport_lock).               *)
FirstFreePort ==
  portAt = "found" /\ place \in 1..Len(files) =>
    LET does(p) == /\ Request.port # "any" => p.name = Request.port
                   /\ Request.line # NoLine => p.line = Request.line
                   /\ p.type = "direct" =>
                        Request.speed = 0 \/ p.speed = 0 \/ p.speed = Request.speed
    IN does(qport) /\ \A i \in 1..place - 1 : does(files[i]) => i \in busy

(* The user is told that all ports are in use if there are some that fit   *)
(* and all of them are, and that there are none if there are none (main,   *)
(* sinfo.fmatched).                                                        *)
MessageTrue ==
  portAt = "exit" /\ ByOptions =>
    /\ portMessage = "inUse" =>
         busy # {} /\ \A i \in 1..Len(files) : Fits(files[i], Request) => i \in busy
    /\ portMessage = "noPorts" => \A i \in 1..Len(files) : ~Fits(files[i], Request)

(* A connection is closed and unlocked only while it has its data: none is *)
(* given back twice (ucuabort, qCuconn).                                   *)
GivenBackOnce == portAt \in {"close", "unlock"} => psysdep = "made"

(* "If the speed is not specified here and is not specified by the system, *)
(* the natural speed of the port will be used by default."                 *)
NaturalSpeed ==
  portMessage = "unsupportedSpeed" =>
    Request.speed # 0 \/ qport.speed \notin {0, NoSpeed}

(* An alternate's ports that are in use are not forgotten when the next    *)
(* one has none.                                                           *)
InUseRemembered ==
  portAt = "exit" /\ portMessage = "noPorts" => busy = {}

(* A port is locked as long as it is used, and everything is given back,   *)
(* once, on every way out of main.                                         *)
LockCoversUse == OpenUnderLock /\ NothingLeft /\ GivenBackOnce

(* The settings are those that were asked for while the port is used, and  *)
(* those it had before afterwards.                                         *)
SettingsKept == SettingsRestored /\ SettingsAsAsked

(* The port is the first that was asked for and is free; if there is none, *)
(* the user is told why.                                                   *)
PortAsAsked == FirstFreePort /\ MessageTrue
=============================================================================
