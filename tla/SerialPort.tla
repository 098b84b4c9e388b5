----------------------------- MODULE SerialPort -----------------------------
(***************************************************************************)
(* A connection over a direct port or a pipe, from fconn_init to           *)
(* uconn_free: src/conn.c, the routines of src/unix/serial.c that lock,    *)
(* open, set up, close and unlock a line, and those of src/unix/pipe.c.    *)
(*                                                                         *)
(* A connection has one port at a time.  The terminal settings of a line   *)
(* are those that the program changes; the system keeps them when the line *)
(* is closed.  Setting them back never fails for want of a terminal.  The  *)
(* routines are those that the command tables name for each operation;     *)
(* what the tables make of them is in ConnTable.                           *)
(***************************************************************************)
EXTENDS Integers

CONSTANTS
  PortNames,      \* the names of ports
  Lines,          \* the serial lines
  Speeds,         \* the speeds of asSbaud_table
  Natural,        \* the settings of each line before the program runs
  OpensAtLock     \* fsserial_lock opens the line: HAVE_TIOCEXCL

NoLine  == "noLine"
NoSpeed == -1     \* uuconf_ibaud of a direct port without a "speed" command

LineSettings ==
  [raw : BOOLEAN, speed : Speeds, parity : {"none", "even", "odd"}, strip : BOOLEAN,
   xon : {"none", "recognised", "both"}, hard : BOOLEAN, local : BOOLEAN]

(* A port of the files, of a system, or made for a line that was named.    *)
(* Only a direct port has a line.                                          *)
Port == [name : PortNames \cup {"none", "line"}, type : {"none", "direct", "pipe"},
         line : Lines \cup {NoLine}, speed : Int, hard : BOOLEAN, carrier : BOOLEAN]
Ports == {p \in Port : p.type = "direct" <=> p.line # NoLine}

ASSUME LineAssumption ==
  /\ NoLine \notin Lines
  /\ Speeds \subseteq Nat \ {0}
  /\ Natural \in [Lines -> LineSettings]
  /\ OpensAtLock \in BOOLEAN

VARIABLES
  qport,          \* the port of the connection
  psysdep,        \* its data are "none", "made" or "freed"
  device,         \* the line that is open, q->o, or NoLine
  isTerminal,     \* q->fterminal
  sorig, snew,    \* the settings the line had, and those it was given
  kernel,         \* the settings of each line
  lockFiles,      \* the lines whose lock file is this program's
  euid            \* whose permissions it uses: "uucp" or "user"

portVars == <<qport, psysdep, device, isTerminal, sorig, snew, kernel, lockFiles,
              euid>>

NoPort == [name |-> "none", type |-> "none", line |-> NoLine, speed |-> 0,
           hard |-> FALSE, carrier |-> FALSE]

PlainSettings == [raw |-> FALSE, speed |-> 0, parity |-> "none", strip |-> FALSE,
                  xon |-> "none", hard |-> FALSE, local |-> FALSE]

SerialInit ==
  /\ qport = NoPort
  /\ psysdep = "none"
  /\ device = NoLine
  /\ isTerminal = FALSE
  /\ sorig = PlainSettings
  /\ snew = PlainSettings
  /\ kernel = Natural
  /\ lockFiles = {}
  /\ euid = "uucp"

-----------------------------------------------------------------------------
(* fconn_init, fsserial_init and fsysdep_pipe_init. *)
FconnInit(port) ==
  /\ qport' = port
  /\ psysdep' = "made"
  /\ device' = NoLine
  /\ isTerminal' = FALSE
  /\ UNCHANGED <<sorig, snew, kernel, lockFiles, euid>>

(* uconn_free, usserial_free and uspipe_free. *)
UconnFree ==
  /\ psysdep' = "freed"
  /\ UNCHANGED <<qport, device, isTerminal, sorig, snew, kernel, lockFiles, euid>>

(* fsserial_lockfile (TRUE): fsdo_lock, which PortLock models. *)
TakesLock ==
  /\ qport.type = "direct"
  /\ lockFiles' = lockFiles \cup {qport.line}
  /\ UNCHANGED <<qport, psysdep, device, isTerminal, sorig, snew, kernel, euid>>

(* fsserial_lockfile (FALSE): the file is uucp's to remove. *)
RemovesLock ==
  lockFiles' = IF euid' = "uucp" THEN lockFiles \ {qport.line} ELSE lockFiles

(* fsserial_lock opens the line, with the permissions of the user if the   *)
(* port was not named by a system, and takes its own back.                 *)
LockOpensLine ==
  /\ device' = qport.line
  /\ UNCHANGED <<qport, psysdep, isTerminal, sorig, snew, kernel, lockFiles, euid>>

(* Variant: the lock file is removed with the permissions of the user.     *)
LockCannotOpenAs(user) ==
  /\ euid' = IF user THEN "user" ELSE euid
  /\ RemovesLock
  /\ UNCHANGED <<qport, psysdep, device, isTerminal, sorig, snew, kernel>>

LockCannotOpen(user) ==
  /\ UNCHANGED euid
  /\ RemovesLock
  /\ UNCHANGED <<qport, psysdep, device, isTerminal, sorig, snew, kernel>>

-----------------------------------------------------------------------------
(* fconn_open, and the speed that it and fsdirect_open choose for the      *)
(* speeds that the caller asks for.                                        *)
OpenSpeed(ibaud, ihighbaud) ==
  LET own == qport.speed
      ask == IF ihighbaud = 0 THEN ibaud ELSE IF own # 0 THEN own ELSE ihighbaud
  IN IF ask = 0 THEN own ELSE ask

SpeedKnown(ibaud, ihighbaud) == OpenSpeed(ibaud, ihighbaud) \in Speeds \cup {0}

(* fsserial_open, up to fgetterminfo: the line may be open already. *)
OpensLine ==
  /\ device' = qport.line
  /\ UNCHANGED <<qport, psysdep, isTerminal, sorig, snew, kernel, lockFiles, euid>>

(* It cannot be opened, or cannot be set to block. *)
CannotOpenLine ==
  /\ device' \in {device, qport.line}
  /\ UNCHANGED <<qport, psysdep, isTerminal, sorig, snew, kernel, lockFiles, euid>>

(* fsserial_open, the settings of a terminal: raw, eight bits, no parity,  *)
(* no flow control; CRTSCTS stays as it was.                               *)
SetsRaw(ibaud, ihighbaud) ==
  LET speed == OpenSpeed(ibaud, ihighbaud)
      old   == kernel[device]
  IN /\ sorig' = old
     /\ snew' = [raw |-> TRUE, speed |-> IF speed = 0 THEN old.speed ELSE speed,
                 parity |-> "none", strip |-> FALSE, xon |-> "none",
                 hard |-> old.hard, local |-> ~qport.carrier]
     /\ kernel' = [kernel EXCEPT ![device] = snew']
     /\ isTerminal' = TRUE
     /\ UNCHANGED <<qport, psysdep, device, lockFiles, euid>>

CannotSetRaw ==
  /\ sorig' = kernel[device]
  /\ isTerminal' = TRUE
  /\ UNCHANGED <<qport, psysdep, device, snew, kernel, lockFiles, euid>>

(* fsserial_hardflow, which fsdirect_open always calls. *)
Hardflow ==
  /\ snew' = [snew EXCEPT !.hard = qport.hard]
  /\ kernel' = [kernel EXCEPT ![device] = snew']
  /\ UNCHANGED <<qport, psysdep, device, isTerminal, sorig, lockFiles, euid>>

CannotHardflow ==
  /\ snew' = [snew EXCEPT !.hard = qport.hard]
  /\ UNCHANGED <<qport, psysdep, device, isTerminal, sorig, kernel, lockFiles, euid>>

-----------------------------------------------------------------------------
(* fconn_set and fsserial_set: "default" changes nothing.  With hardware   *)
(* flow control XON and XOFF are recognised but not sent.                  *)
SettingsFor(old, parity, strip, txonxoff) ==
  [old EXCEPT
     !.parity = IF parity = "default" THEN @ ELSE parity,
     !.strip  = IF strip = "default" THEN @ ELSE strip = "sevenBits",
     !.xon    = IF txonxoff = "off" THEN "none"
                ELSE IF txonxoff = "on" THEN IF old.hard THEN "recognised" ELSE "both"
                ELSE @]

(* Variant: only the flow control is looked at to see what has changed.    *)
SetsPortForFlow(parity, strip, txonxoff) ==
  /\ snew' = IF isTerminal THEN SettingsFor(snew, parity, strip, txonxoff) ELSE snew
  /\ kernel' = IF snew'.xon # snew.xon THEN [kernel EXCEPT ![device] = snew']
               ELSE kernel
  /\ UNCHANGED <<qport, psysdep, device, isTerminal, sorig, lockFiles, euid>>

SetsPort(parity, strip, txonxoff) ==
  /\ snew' = IF isTerminal THEN SettingsFor(snew, parity, strip, txonxoff) ELSE snew
  /\ kernel' = IF snew' # snew THEN [kernel EXCEPT ![device] = snew'] ELSE kernel
  /\ UNCHANGED <<qport, psysdep, device, isTerminal, sorig, lockFiles, euid>>

CannotSetPort(parity, strip, txonxoff) ==
  /\ isTerminal
  /\ snew' = SettingsFor(snew, parity, strip, txonxoff)
  /\ snew' # snew
  /\ UNCHANGED <<qport, psysdep, device, isTerminal, sorig, kernel, lockFiles, euid>>

-----------------------------------------------------------------------------
(* fconn_close, fsserial_close and fspipe_close.  The settings are         *)
(* restored by a call that waits until the output has drained.  If the     *)
(* alarm ends that after 30 seconds, another call restores them without    *)
(* waiting; if another signal does, nothing restores them.                 *)
Drains == {"drained", "timedOut", "interrupted"}

(* Variant: there is no second call.                                       *)
ClosesLineOnce(drain) ==
  /\ kernel' = IF device # NoLine /\ isTerminal /\ drain = "drained"
               THEN [kernel EXCEPT ![device] = sorig] ELSE kernel
  /\ device' = NoLine
  /\ UNCHANGED <<qport, psysdep, isTerminal, sorig, snew, lockFiles, euid>>

ClosesLine(drain) ==
  /\ kernel' = IF device # NoLine /\ isTerminal /\ drain \in {"drained", "timedOut"}
               THEN [kernel EXCEPT ![device] = sorig] ELSE kernel
  /\ device' = NoLine
  /\ UNCHANGED <<qport, psysdep, isTerminal, sorig, snew, lockFiles, euid>>

(* Variant: the lock file is removed first. *)
UnlockRemovesFirst ==
  /\ IF qport.line \in lockFiles
     THEN UNCHANGED <<device, euid>> /\ RemovesLock
     ELSE device' = NoLine /\ UNCHANGED <<lockFiles, euid>>
  /\ UNCHANGED <<qport, psysdep, isTerminal, sorig, snew, kernel>>

(* fconn_unlock and fsserial_unlock: the line is closed, if it still is    *)
(* open, and then the lock file is removed.                                *)
UnlockStep ==
  /\ IF device # NoLine
     THEN device' = NoLine /\ UNCHANGED <<lockFiles, euid>>
     ELSE UNCHANGED <<device, euid>> /\ RemovesLock
  /\ UNCHANGED <<qport, psysdep, isTerminal, sorig, snew, kernel>>

Unlocked == device = NoLine /\ qport.line \notin lockFiles
=============================================================================
