----------------------------- MODULE PortsProof ------------------------------
(***************************************************************************)
(* Proofs about PortSelect, for any port files, commands, lines, speeds    *)
(* and settings: a port is locked as long as it is used and given back     *)
(* once (LockCoversUse), a line has the settings that were asked for and   *)
(* gets its own back (SettingsKept), and the port is the first that fits   *)
(* and is free (PortAsAsked).                                              *)
(*                                                                         *)
(* None of them is inductive: what holds depends on where the program is.  *)
(* SelectInv says it of every place, in five parts that are proved one     *)
(* after the other: the types, where the search stands, what is held, what *)
(* the terminal settings are and what they are to be.                      *)
(*                                                                         *)
(* And about Spawn, for any pipe and any output: programs and callers have *)
(* the descriptors they should have (SpawnSafe).  SpawnInv follows the     *)
(* descriptors from the request through the numbers that the null device   *)
(* and the pipes get, the fork and each dup2 to exec.                      *)
(*                                                                         *)
(* At last, that the components of MCPorts go on each by itself, so that   *)
(* what is proved of one of them holds in the run of all.                  *)
(***************************************************************************)
EXTENDS MCPorts, ReceiveProof

-----------------------------------------------------------------------------
(* The invariant *)

Places == {"start", "alternate", "search", "lock", "lockLine", "notLocked", "locked",
           "found", "setRaw", "hardflow", "opened", "set", "connected", "close",
           "unlock", "abort", "exit"}

SelectTypes ==
  /\ PortTypeOK
  /\ qport \in Ports
  /\ portAt \in Places
  /\ place \in Nat

(* Where the search stands: which alternate and which port are tried, and  *)
(* why none of those before it was taken.                                  *)
Trying == {"lock", "lockLine", "notLocked", "locked", "found"}

AlternateInRange ==
  /\ portAt = "start" => alternate = 0
  /\ portAt = "alternate" => ~ByOptions /\ alternate # 0
  /\ portAt \in {"search", "lock", "lockLine", "notLocked"} /\ ~ByOptions =>
       alternate \in 1..Len(cmd.alternates)

PlaceTried ==
  /\ portAt = "search" => place \in 1..Len(files) + 1
  /\ portAt \in Trying /\ place = 0 => ~ByOptions
  /\ portAt \in Trying /\ place \in 1..Len(files) =>
       qport = files[place] /\ Fits(qport, Request) /\ fmatched

PassedWereBusy ==
  portAt = "search" \/ portAt \in Trying =>
    \A i \in 1..Len(files) : i < place /\ Fits(files[i], Request) => i \in busy

MatchesRemembered ==
  portAt = "search" /\ ByOptions =>
    /\ fmatched => busy # {}
    /\ ~fmatched => \A i \in 1..Len(files) : i < place => ~Fits(files[i], Request)

MessageKnown ==
  /\ portAt \notin {"abort", "close", "unlock", "exit"} => portMessage = "none"
  /\ ByOptions /\ portMessage = "inUse" =>
       busy # {} /\ \A i \in 1..Len(files) : Fits(files[i], Request) => i \in busy
  /\ ByOptions /\ portMessage = "noPorts" =>
       \A i \in 1..Len(files) : ~Fits(files[i], Request)

SearchInv ==
  /\ AlternateInRange
  /\ PlaceTried
  /\ PassedWereBusy
  /\ MatchesRemembered
  /\ MessageKnown

(* What is held: the lock of the port's line from "locked" on, and the     *)
(* line itself from "setRaw" on.                                           *)
NothingHeld == device = NoLine /\ lockFiles = {}
Held ==
  /\ psysdep = "made"
  /\ qport.type = "direct" => lockFiles = {qport.line} /\ device \in {NoLine, qport.line}
  /\ qport.type # "direct" => NothingHeld

InUse == {"found", "setRaw", "hardflow", "opened", "set", "connected"}

HeldInv ==
  /\ portAt \in {"start", "alternate", "search", "lock", "notLocked", "exit"} => NothingHeld
  /\ portAt = "lock" => psysdep = "made"
  /\ portAt = "lockLine" =>
       psysdep = "made" /\ qport.type = "direct" /\ lockFiles = {qport.line} /\ device = NoLine
  /\ portAt \in {"locked", "close"} \/ portAt \in InUse => Held
  /\ portAt \in InUse <=> qCuconn /\ portAt \notin {"abort", "close", "unlock", "exit"}
  /\ portAt = "abort" => IF qCuconn THEN Held ELSE NothingHeld
  /\ portAt = "unlock" =>
       /\ psysdep = "made"
       /\ lockFiles \subseteq {qport.line}
       /\ device # NoLine => device = qport.line /\ lockFiles = {qport.line}
  /\ portAt \in {"setRaw", "hardflow"} => qport.type = "direct" /\ device = qport.line

(* The settings of the lines: only those of the open line change, and what *)
(* it had is kept.                                                         *)
OthersNatural == \A l \in Lines \ {device} : kernel[l] = Natural[l]
Restorable ==
  /\ isTerminal => /\ device = qport.line /\ device \in Lines
                   /\ sorig = Natural[device] /\ OthersNatural
  /\ ~isTerminal => kernel = Natural

SettingsInv ==
  /\ portAt \notin {"hardflow", "opened", "set", "connected", "abort", "close", "unlock",
                    "exit"} => ~isTerminal /\ kernel = Natural
  /\ portAt \in {"hardflow", "opened", "set", "connected", "close"} => Restorable
  /\ portAt \in {"hardflow", "opened", "set", "connected"} /\ isTerminal =>
       qport.type = "direct" /\ snew \in LineSettings /\ kernel[device] = snew
  /\ portAt = "hardflow" => isTerminal
  /\ portAt = "setRaw" => SpeedKnown(Request.speed, Request.high)
  /\ portAt \in {"set", "connected"} => fCuclose_conn
  /\ fCuclose_conn => portAt \in {"set", "connected", "abort", "close", "unlock", "exit"}
  /\ portAt = "abort" =>
       IF fCuclose_conn THEN qCuconn /\ Restorable
       ELSE portMessage = "notOpened" \/ kernel = Natural
  /\ portAt \in {"unlock", "exit"} =>
       portMessage = "notOpened" \/ drain = "interrupted" \/ kernel = Natural

(* What the settings are to be. *)
SpeedAsked(s) ==
  LET speeds == {Request.speed, Request.high, qport.speed} \ {0}
  IN s \in IF speeds = {} THEN {Natural[qport.line].speed} ELSE speeds

RawSettings ==
  /\ snew.raw
  /\ SpeedAsked(snew.speed)
  /\ snew.local = ~qport.carrier
  /\ portAt # "connected" => snew.parity = "none" /\ ~snew.strip /\ snew.xon = "none"
  /\ portAt # "hardflow" => snew.hard = qport.hard

AskedInv ==
  /\ portAt \in {"hardflow", "opened", "set", "connected"} /\ isTerminal => RawSettings
  /\ portAt = "connected" /\ isTerminal =>
       /\ snew.parity = IF cmd.parity = "default" THEN "none" ELSE cmd.parity
       /\ snew.strip = (cmd.strip = "sevenBits")
       /\ snew.xon = IF cmd.stop = "off" THEN "none"
                     ELSE IF snew.hard THEN "recognised" ELSE "both"

SelectInv == SelectTypes /\ SearchInv /\ HeldInv /\ SettingsInv /\ AskedInv

-----------------------------------------------------------------------------
(* Types *)

(* The port and the speeds that are asked for have values of their types,  *)
(* of an alternate as of the options (main).                               *)
LEMMA RequestTyped ==
  ASSUME PortTypeOK, ByOptions \/ alternate \in 1..Len(cmd.alternates)
  PROVE  /\ Request.speed \in Nat /\ Request.high \in Nat
         /\ Request.line \in Lines \cup {NoLine}
  <1>1. CASE ByOptions
    BY <1>1 DEF PortTypeOK, PortCommand, Request
  <1>2. CASE ~ByOptions
    <2>1. cmd.alternates[alternate] \in AlternatePort
      BY <1>2 DEF PortTypeOK, PortCommand
    <2>. QED  BY <1>2, <2>1 DEF AlternatePort, Request
  <1>. QED  BY <1>1, <1>2

(* Setting the parity, the stripping and the flow control of a line makes  *)
(* settings of settings (fsserial_set).                                    *)
LEMMA SettingsForTyped ==
  ASSUME NEW old \in LineSettings,
         NEW parity \in {"default", "none", "even", "odd"},
         NEW strip \in {"default", "sevenBits"}, NEW stop
  PROVE  SettingsFor(old, parity, strip, stop) \in LineSettings
  BY DEF SettingsFor, LineSettings

LEMMA SelectTypesInit == SelectInit => SelectTypes
  <1>. SUFFICES ASSUME SelectInit PROVE SelectTypes
    OBVIOUS
  <1>. USE DEF SelectInit, SerialInit
  <1>1. NoPort \in Ports
    BY DEF NoPort, Ports, Port
  <1>2. NoCommand \in PortCommand /\ NoCommand.alternates = <<>>
    BY DEF NoCommand, PortCommand
  <1>3. Natural \in [Lines -> LineSettings]
    BY LineAssumption DEF LineAssumption
  <1>4. files \in Seq(Ports) /\ alternate \in 0..Len(cmd.alternates) + 1
    BY <1>2
  <1>5. /\ isTerminal \in BOOLEAN /\ fmatched \in BOOLEAN
        /\ qCuconn \in BOOLEAN /\ fCuclose_conn \in BOOLEAN
    BY Zenon
  <1>. QED
    BY <1>1, <1>2, <1>3, <1>4, <1>5 DEF SelectTypes, PortTypeOK, Places, Messages

(* The settings of the open line are replaced by settings. *)
LEMMA KernelTyped ==
  ASSUME kernel \in [Lines -> LineSettings], NEW l, NEW new \in LineSettings
  PROVE  [kernel EXCEPT ![l] = new] \in [Lines -> LineSettings]
  OBVIOUS

(* While the port is set up, whatever its parity, stripping and flow       *)
(* control are to be, the lines keep settings (fconn_set).                 *)
LEMMA SetsPortTyped ==
  ASSUME SelectTypes, SettingsInv, portAt \in {"set", "connected"},
         NEW parity \in {"default", "none", "even", "odd"},
         NEW strip \in {"default", "sevenBits"}, NEW stop,
         SetsPort(parity, strip, stop)
  PROVE  kernel' \in [Lines -> LineSettings]
  <1>1. kernel \in [Lines -> LineSettings] /\ isTerminal \in BOOLEAN
    BY DEF SelectTypes, PortTypeOK
  <1>2. CASE ~isTerminal
    BY <1>1, <1>2 DEF SetsPort
  <1>3. CASE isTerminal
    <2>1. snew' \in LineSettings
      BY <1>3, SettingsForTyped DEF SetsPort, SettingsInv
    <2>. QED  BY <1>1, <2>1, KernelTyped DEF SetsPort
  <1>. QED  BY <1>1, <1>2, <1>3

(* Every step keeps the types.  The settings that a step of the open line  *)
(* gives it are settings as the line is one (HeldInv), and its speed is    *)
(* one of the table (SettingsInv).                                         *)
LEMMA SelectTypesStep ==
  ASSUME SelectTypes, SearchInv, HeldInv, SettingsInv, [SelectNext]_selectVars
  PROVE  SelectTypes'
  <1>. USE DEF SelectTypes, PortTypeOK, Places, Messages
  <1>1. CASE SelectStart
    <2>1. files' \in Seq(Ports) /\ cmd' \in PortCommand /\ alternate = 0
      BY <1>1, SelectAssumption
      DEF SelectAssumption, SelectStart, SearchInv, AlternateInRange
    <2>2. Len(cmd'.alternates) \in Nat
      BY <2>1 DEF PortCommand
    <2>3. UNCHANGED <<portVars, holding, outcome>>
      BY <1>1 DEF SelectStart
    <2>4. /\ portAt' \in {"search", "alternate"} /\ place' \in {1, place}
          /\ alternate' \in {0, 1} /\ fmatched' \in {FALSE, fmatched}
      BY <1>1, <2>1 DEF SelectStart, StartSearch
    <2>5. alternate' \in 0..Len(cmd'.alternates) + 1 /\ place' \in Nat
      BY <2>2, <2>4
    <2>6. fmatched' \in BOOLEAN
      BY <2>4, Zenon
    <2>. QED
      BY <2>1, <2>3, <2>4, <2>5, <2>6 DEF portVars, holding, outcome
  <1>2. CASE SkipAlternate
    BY <1>2 DEF SkipAlternate, portVars, searchVars, asked, holding, outcome
  <1>3. CASE TryOwnPort
    <2>1. cmd.alternates[alternate] \in AlternatePort
      BY <1>3 DEF TryOwnPort, SearchInv, AlternateInRange, PortCommand
    <2>2. cmd.alternates[alternate].own \in Ports
      BY <2>1 DEF AlternatePort
    <2>. QED
      BY <1>3, <2>2 DEF TryOwnPort, FconnInit, asked, holding, outcome
  <1>4. CASE SearchAlternate
    BY <1>4, ZenonT(60)
    DEF SearchAlternate, StartSearch, portVars, searchVars, asked, holding,
        outcome
  <1>5. CASE NoAlternateLeft
    BY <1>5
    DEF NoAlternateLeft, Fatal, portVars, searchVars, asked, holding, outcome
  <1>6. CASE SkipPort
    BY <1>6 DEF SkipPort, portVars, searchVars, asked, holding, outcome
  <1>7. CASE TryPort
    <2>1. files[place] \in Ports
      BY <1>7 DEF TryPort, SearchInv, PlaceTried
    <2>. QED
      BY <1>7, <2>1 DEF TryPort, FconnInit, asked, holding, outcome
  <1>8. CASE FilesFail
    BY <1>8 DEF FilesFail, Fatal, portVars, searchVars, asked, holding, outcome
  <1>9. CASE SearchEnds
    <2>1. CASE ~ByOptions
      BY <1>9, <2>1
      DEF SearchEnds, SearchInv, AlternateInRange, portVars, asked, holding,
          outcome
    <2>2. CASE ByOptions /\ (cmd.line = NoLine \/ cmd.port # "any")
      BY <1>9, <2>2 DEF SearchEnds, Fatal, portVars, asked, holding
    <2>3. CASE ByOptions /\ ~(cmd.line = NoLine \/ cmd.port # "any")
      <3>1. PICK hard \in BOOLEAN, carrier \in BOOLEAN :
              FconnInit([name |-> "line", type |-> "direct", line |-> cmd.line,
                         speed |-> cmd.speed, hard |-> hard, carrier |-> carrier])
        BY <1>9, <2>3 DEF SearchEnds
      <3>2. qport' \in Ports
        BY <2>3, <3>1 DEF FconnInit, Ports, Port, PortCommand
      <3>3. /\ portAt' = "lock"
            /\ UNCHANGED <<files, cmd, alternate, place, fmatched, busy, qCuconn,
                           fCuclose_conn, portMessage, portResult, drain>>
        BY <1>9, <2>3 DEF SearchEnds, asked, holding, outcome
      <3>4. /\ psysdep' = "made" /\ device' = NoLine /\ isTerminal' = FALSE
            /\ UNCHANGED <<sorig, snew, kernel, lockFiles, euid>>
        BY <3>1 DEF FconnInit
      <3>. QED  BY <3>2, <3>3, <3>4
    <2>. QED  BY <2>1, <2>2, <2>3
  <1>10. CASE GetLock
    BY <1>10
    DEF GetLock, TakesLock, Ports, Port, portVars, searchVars, asked, holding,
        outcome
  <1>11. CASE LockTaken
    BY <1>11 DEF LockTaken, portVars, searchVars, asked, holding, outcome
  <1>12. CASE LockLine
    BY <1>12
    DEF LockLine, LockOpensLine, LockCannotOpen, RemovesLock, HeldInv, Ports,
        Port, portVars, searchVars, asked, holding, outcome
  <1>13. CASE NotLocked
    <2>1. place = 0 => alternate + 1 \in 0..Len(cmd.alternates) + 1
      BY <1>13 DEF NotLocked, SearchInv, PlaceTried, AlternateInRange, Trying
    <2>. QED
      BY <1>13, <2>1
      DEF NotLocked, Fatal, UconnFree, portVars, asked, holding, outcome
  <1>14. CASE Locked
    BY <1>14 DEF Locked, portVars, searchVars, asked, holding, outcome
  <1>15. CASE AccessDenied
    BY <1>15
    DEF AccessDenied, Fatal, portVars, searchVars, asked, holding, outcome
  <1>16. CASE SpeedRefused
    BY <1>16
    DEF SpeedRefused, Fatal, portVars, searchVars, asked, holding, outcome
  <1>17. CASE PortOpens
    BY <1>17
    DEF PortOpens, OpensLine, Ports, Port, portVars, searchVars, asked,
        holding, outcome
  <1>18. CASE PortDoesNotOpen
    BY <1>18
    DEF PortDoesNotOpen, CannotOpenLine, Fatal, Ports, Port, portVars,
        searchVars, asked, holding, outcome
  <1>19. CASE SetRaw
    <2>1. CASE UNCHANGED portVars /\ portAt' = "opened"
      BY <1>19, <2>1 DEF SetRaw, portVars, searchVars, asked, holding, outcome
    <2>2. CASE SetsRaw(Request.speed, Request.high) /\ portAt' = "hardflow"
      <3>1. device \in Lines /\ SpeedKnown(Request.speed, Request.high)
        BY <1>19 DEF SetRaw, HeldInv, SettingsInv, Ports, Port
      <3>2. snew' \in LineSettings
        BY <2>2, <3>1 DEF SetsRaw, SpeedKnown, LineSettings, Ports, Port
      <3>3. kernel' \in [Lines -> LineSettings]
        BY <2>2, <3>2, KernelTyped DEF SetsRaw
      <3>. QED
        BY <1>19, <2>2, <3>3
        DEF SetRaw, SetsRaw, portVars, searchVars, asked, holding, outcome
    <2>. QED  BY <1>19, <2>1, <2>2 DEF SetRaw
  <1>20. CASE RawFails
    BY <1>20
    DEF RawFails, CannotSetRaw, Fatal, portVars, searchVars, asked, holding,
        outcome
  <1>21. CASE SetHardflow
    <2>1. snew' \in LineSettings
      BY <1>21 DEF SetHardflow, Hardflow, SettingsInv, LineSettings, Ports, Port
    <2>2. kernel' \in [Lines -> LineSettings]
      BY <1>21, <2>1, KernelTyped DEF SetHardflow, Hardflow
    <2>. QED
      BY <1>21, <2>2
      DEF SetHardflow, Hardflow, portVars, searchVars, asked, holding, outcome
  <1>22. CASE HardflowFails
    BY <1>22
    DEF HardflowFails, CannotHardflow, Fatal, portVars, searchVars, asked,
        holding, outcome
  <1>23. CASE Opened
    BY <1>23 DEF Opened, Fatal, portVars, searchVars, asked, holding, outcome
  <1>24. CASE SetPort
    <2>1. kernel' \in [Lines -> LineSettings]
      BY <1>24, SetsPortTyped DEF SetPort, PortCommand
    <2>. QED
      BY <1>24, <2>1
      DEF SetPort, SetsPort, portVars, searchVars, asked, holding, outcome
  <1>25. CASE SetFails
    BY <1>25
    DEF SetFails, CannotSetPort, Fatal, portVars, searchVars, asked, holding,
        outcome
  <1>26. CASE ChangeStop
    <2>1. PICK stop \in {"on", "off"} :
            /\ cmd' = [cmd EXCEPT !.stop = stop]
            /\ \/ SetsPort("default", "default", stop) /\ UNCHANGED <<portAt, outcome>>
               \/ CannotSetPort("default", "default", stop) /\ Fatal("notSet")
      BY <1>26 DEF ChangeStop
    <2>2. cmd' \in PortCommand /\ cmd'.alternates = cmd.alternates
      BY <2>1 DEF PortCommand
    <2>3. kernel' \in [Lines -> LineSettings]
      BY <1>26, <2>1, SetsPortTyped DEF ChangeStop, CannotSetPort
    <2>. QED
      BY <1>26, <2>1, <2>2, <2>3
      DEF ChangeStop, SetsPort, CannotSetPort, Fatal, portVars, searchVars,
          asked, holding, outcome
  <1>27. CASE SessionEnds
    BY <1>27
    DEF SessionEnds, Fatal, portVars, searchVars, asked, holding, outcome
  <1>28. CASE Abort
    BY <1>28, ZenonT(60) DEF Abort, portVars, searchVars, asked, holding, outcome
  <1>29. CASE ClosePort
    <2>1. drain' \in Drains /\ ClosesLine(drain')
      BY <1>29 DEF ClosePort
    <2>2. kernel' \in [Lines -> LineSettings]
      <3>1. isTerminal /\ device # NoLine => sorig \in LineSettings
        BY <1>29, LineAssumption
        DEF LineAssumption, ClosePort, SettingsInv, Restorable
      <3>. QED  BY <2>1, <3>1, KernelTyped DEF ClosesLine
    <2>. QED
      BY <1>29, <2>1, <2>2
      DEF ClosePort, ClosesLine, portVars, searchVars, asked, holding, outcome
  <1>30. CASE UnlockPort
    BY <1>30
    DEF UnlockPort, UnlockStep, RemovesLock, portVars, searchVars, asked,
        holding, outcome
  <1>31. CASE FreePort
    BY <1>31
    DEF FreePort, UconnFree, portVars, searchVars, asked, holding, outcome
  <1>32. CASE UNCHANGED selectVars
    BY <1>32 DEF selectVars, portVars
  <1>. QED
    BY <1>1, <1>2, <1>3, <1>4, <1>5, <1>6, <1>7, <1>8, <1>9, <1>10, <1>11,
       <1>12, <1>13, <1>14, <1>15, <1>16, <1>17, <1>18, <1>19, <1>20, <1>21,
       <1>22, <1>23, <1>24, <1>25, <1>26, <1>27, <1>28, <1>29, <1>30, <1>31,
       <1>32
    DEF SelectNext

-----------------------------------------------------------------------------
(* What is held *)

LEMMA HeldInit == SelectInit => HeldInv
  BY DEF SelectInit, SerialInit, HeldInv, NothingHeld, InUse

(* Every step takes and gives back what its places say. *)
LEMMA HeldStep ==
  ASSUME SelectTypes, HeldInv, [SelectNext]_selectVars
  PROVE  HeldInv'
  <1>. USE DEF HeldInv, NothingHeld, Held, InUse
  <1>0. /\ euid = "uucp" /\ portAt \in Places
        /\ qport.type = "direct" => qport.line # NoLine
    BY DEF SelectTypes, PortTypeOK, Ports
  <1>1. CASE SelectStart
    BY <1>1, <1>0
    DEF SelectStart, StartSearch, portVars, searchVars, asked, holding, outcome
  <1>2. CASE SkipAlternate
    BY <1>2, <1>0
    DEF SkipAlternate, portVars, searchVars, asked, holding, outcome
  <1>3. CASE TryOwnPort
    BY <1>3, <1>0
    DEF TryOwnPort, FconnInit, portVars, searchVars, asked, holding, outcome
  <1>4. CASE SearchAlternate
    BY <1>4, <1>0
    DEF SearchAlternate, StartSearch, portVars, searchVars, asked, holding,
        outcome
  <1>5. CASE NoAlternateLeft
    BY <1>5, <1>0
    DEF NoAlternateLeft, Fatal, portVars, searchVars, asked, holding, outcome
  <1>6. CASE SkipPort
    BY <1>6, <1>0 DEF SkipPort, portVars, searchVars, asked, holding, outcome
  <1>7. CASE TryPort
    BY <1>7, <1>0
    DEF TryPort, FconnInit, portVars, searchVars, asked, holding, outcome
  <1>8. CASE FilesFail
    BY <1>8, <1>0
    DEF FilesFail, Fatal, portVars, searchVars, asked, holding, outcome
  <1>9. CASE SearchEnds
    BY <1>9, <1>0
    DEF SearchEnds, Fatal, FconnInit, portVars, searchVars, asked, holding,
        outcome
  <1>10. CASE GetLock
    BY <1>10, <1>0
    DEF GetLock, TakesLock, portVars, searchVars, asked, holding, outcome
  <1>11. CASE LockTaken
    BY <1>11, <1>0 DEF LockTaken, portVars, searchVars, asked, holding, outcome
  <1>12. CASE LockLine
    BY <1>12, <1>0
    DEF LockLine, LockOpensLine, LockCannotOpen, RemovesLock, portVars,
        searchVars, asked, holding, outcome
  <1>13. CASE NotLocked
    BY <1>13, <1>0
    DEF NotLocked, Fatal, UconnFree, portVars, searchVars, asked, holding,
        outcome
  <1>14. CASE Locked
    BY <1>14, <1>0 DEF Locked, portVars, searchVars, asked, holding, outcome
  <1>15. CASE AccessDenied
    BY <1>15, <1>0
    DEF AccessDenied, Fatal, portVars, searchVars, asked, holding, outcome
  <1>16. CASE SpeedRefused
    BY <1>16, <1>0
    DEF SpeedRefused, Fatal, portVars, searchVars, asked, holding, outcome
  <1>17. CASE PortOpens
    BY <1>17, <1>0
    DEF PortOpens, OpensLine, portVars, searchVars, asked, holding, outcome
  <1>18. CASE PortDoesNotOpen
    BY <1>18, <1>0
    DEF PortDoesNotOpen, CannotOpenLine, Fatal, portVars, searchVars, asked,
        holding, outcome
  <1>19. CASE SetRaw
    BY <1>19, <1>0
    DEF SetRaw, SetsRaw, portVars, searchVars, asked, holding, outcome
  <1>20. CASE RawFails
    BY <1>20, <1>0
    DEF RawFails, CannotSetRaw, Fatal, portVars, searchVars, asked, holding,
        outcome
  <1>21. CASE SetHardflow
    BY <1>21, <1>0
    DEF SetHardflow, Hardflow, portVars, searchVars, asked, holding, outcome
  <1>22. CASE HardflowFails
    BY <1>22, <1>0
    DEF HardflowFails, CannotHardflow, Fatal, portVars, searchVars, asked,
        holding, outcome
  <1>23. CASE Opened
    BY <1>23, <1>0
    DEF Opened, Fatal, portVars, searchVars, asked, holding, outcome
  <1>24. CASE SetPort
    BY <1>24, <1>0
    DEF SetPort, SetsPort, portVars, searchVars, asked, holding, outcome
  <1>25. CASE SetFails
    BY <1>25, <1>0
    DEF SetFails, CannotSetPort, Fatal, portVars, searchVars, asked, holding,
        outcome
  <1>26. CASE ChangeStop
    BY <1>26, <1>0
    DEF ChangeStop, SetsPort, CannotSetPort, Fatal, portVars, searchVars,
        asked, holding, outcome
  <1>27. CASE SessionEnds
    BY <1>27, <1>0
    DEF SessionEnds, Fatal, portVars, searchVars, asked, holding, outcome
  <1>28. CASE Abort
    BY <1>28, <1>0 DEF Abort, portVars, searchVars, asked, holding, outcome
  <1>29. CASE ClosePort
    BY <1>29, <1>0
    DEF ClosePort, ClosesLine, portVars, searchVars, asked, holding, outcome
  <1>30. CASE UnlockPort
    BY <1>30, <1>0
    DEF UnlockPort, UnlockStep, RemovesLock, Unlocked, portVars, searchVars,
        asked, holding, outcome
  <1>31. CASE FreePort
    BY <1>31, <1>0
    DEF FreePort, UconnFree, Unlocked, portVars, searchVars, asked, holding,
        outcome
  <1>32. CASE UNCHANGED selectVars
    BY <1>32 DEF selectVars, portVars
  <1>. QED
    BY <1>1, <1>2, <1>3, <1>4, <1>5, <1>6, <1>7, <1>8, <1>9, <1>10, <1>11,
       <1>12, <1>13, <1>14, <1>15, <1>16, <1>17, <1>18, <1>19, <1>20, <1>21,
       <1>22, <1>23, <1>24, <1>25, <1>26, <1>27, <1>28, <1>29, <1>30, <1>31,
       <1>32
    DEF SelectNext

-----------------------------------------------------------------------------
(* Where the search stands *)

LEMMA SearchInit == SelectInit => SearchInv
  BY DEF SelectInit, SerialInit, SearchInv, AlternateInRange, PlaceTried,
         PassedWereBusy, MatchesRemembered, MessageKnown, Trying

(* Every step but the choice of a command leaves what is asked of a port   *)
(* as it is, and every port that was passed remains known as in use.       *)
LEMMA SearchStep ==
  ASSUME SelectTypes, SearchInv, [SelectNext]_selectVars
  PROVE  SearchInv'
  <1>. USE DEF SearchInv, AlternateInRange, PlaceTried, PassedWereBusy, MatchesRemembered,
               MessageKnown, Trying
  <1>0. /\ portAt \in Places /\ place \in Nat
        /\ Len(files) \in Nat /\ Len(cmd.alternates) \in Nat /\ alternate \in Nat
    BY DEF SelectTypes, PortTypeOK, PortCommand
  <1>1. CASE SelectStart
    BY <1>1, <1>0
    DEF SelectStart, StartSearch, portVars, searchVars, asked, holding,
        outcome, ByOptions, Request
  <1>2. CASE SkipAlternate
    BY <1>2, <1>0
    DEF SkipAlternate, portVars, searchVars, asked, holding, outcome,
        ByOptions, Request
  <1>3. CASE TryOwnPort
    BY <1>3, <1>0
    DEF TryOwnPort, FconnInit, portVars, searchVars, asked, holding, outcome,
        ByOptions, Request
  <1>4. CASE SearchAlternate
    BY <1>4, <1>0
    DEF SearchAlternate, StartSearch, portVars, searchVars, asked, holding,
        outcome, ByOptions, Request
  <1>5. CASE NoAlternateLeft
    BY <1>5, <1>0
    DEF NoAlternateLeft, Fatal, portVars, searchVars, asked, holding, outcome,
        ByOptions, Request
  <1>6. CASE SkipPort
    BY <1>6, <1>0
    DEF SkipPort, portVars, searchVars, asked, holding, outcome, ByOptions,
        Request
  <1>7. CASE TryPort
    BY <1>7, <1>0
    DEF TryPort, FconnInit, portVars, searchVars, asked, holding, outcome,
        ByOptions, Request
  <1>8. CASE FilesFail
    BY <1>8, <1>0
    DEF FilesFail, Fatal, portVars, searchVars, asked, holding, outcome,
        ByOptions, Request
  <1>9. CASE SearchEnds
    BY <1>9, <1>0
    DEF SearchEnds, Fatal, FconnInit, portVars, searchVars, asked, holding,
        outcome, ByOptions, Request
  <1>10. CASE GetLock
    BY <1>10, <1>0
    DEF GetLock, TakesLock, portVars, searchVars, asked, holding, outcome,
        ByOptions, Request
  <1>11. CASE LockTaken
    BY <1>11, <1>0
    DEF LockTaken, portVars, searchVars, asked, holding, outcome, ByOptions,
        Request
  <1>12. CASE LockLine
    BY <1>12, <1>0
    DEF LockLine, LockOpensLine, LockCannotOpen, RemovesLock, portVars,
        searchVars, asked, holding, outcome, ByOptions, Request
  <1>13. CASE NotLocked
    BY <1>13, <1>0, SMTT(30)
    DEF NotLocked, Fatal, UconnFree, Faked, portVars, searchVars, asked,
        holding, outcome, ByOptions, Request
  <1>14. CASE Locked
    BY <1>14, <1>0
    DEF Locked, portVars, searchVars, asked, holding, outcome, ByOptions,
        Request
  <1>15. CASE AccessDenied
    BY <1>15, <1>0
    DEF AccessDenied, Fatal, portVars, searchVars, asked, holding, outcome,
        ByOptions, Request
  <1>16. CASE SpeedRefused
    BY <1>16, <1>0
    DEF SpeedRefused, Fatal, portVars, searchVars, asked, holding, outcome,
        ByOptions, Request
  <1>17. CASE PortOpens
    BY <1>17, <1>0
    DEF PortOpens, OpensLine, portVars, searchVars, asked, holding, outcome,
        ByOptions, Request
  <1>18. CASE PortDoesNotOpen
    BY <1>18, <1>0
    DEF PortDoesNotOpen, CannotOpenLine, Fatal, portVars, searchVars, asked,
        holding, outcome, ByOptions, Request
  <1>19. CASE SetRaw
    BY <1>19, <1>0
    DEF SetRaw, SetsRaw, portVars, searchVars, asked, holding, outcome,
        ByOptions, Request
  <1>20. CASE RawFails
    BY <1>20, <1>0
    DEF RawFails, CannotSetRaw, Fatal, portVars, searchVars, asked, holding,
        outcome, ByOptions, Request
  <1>21. CASE SetHardflow
    BY <1>21, <1>0
    DEF SetHardflow, Hardflow, portVars, searchVars, asked, holding, outcome,
        ByOptions, Request
  <1>22. CASE HardflowFails
    BY <1>22, <1>0
    DEF HardflowFails, CannotHardflow, Fatal, portVars, searchVars, asked,
        holding, outcome, ByOptions, Request
  <1>23. CASE Opened
    BY <1>23, <1>0
    DEF Opened, Fatal, portVars, searchVars, asked, holding, outcome,
        ByOptions, Request
  <1>24. CASE SetPort
    BY <1>24, <1>0
    DEF SetPort, SetsPort, portVars, searchVars, asked, holding, outcome,
        ByOptions, Request
  <1>25. CASE SetFails
    BY <1>25, <1>0
    DEF SetFails, CannotSetPort, Fatal, portVars, searchVars, asked, holding,
        outcome, ByOptions, Request
  <1>26. CASE ChangeStop
    BY <1>26, <1>0
    DEF ChangeStop, SetsPort, CannotSetPort, Fatal, PortCommand, portVars,
        searchVars, asked, holding, outcome, ByOptions, Request
  <1>27. CASE SessionEnds
    BY <1>27, <1>0
    DEF SessionEnds, Fatal, portVars, searchVars, asked, holding, outcome,
        ByOptions, Request
  <1>28. CASE Abort
    BY <1>28, <1>0
    DEF Abort, portVars, searchVars, asked, holding, outcome, ByOptions,
        Request
  <1>29. CASE ClosePort
    BY <1>29, <1>0
    DEF ClosePort, ClosesLine, portVars, searchVars, asked, holding, outcome,
        ByOptions, Request
  <1>30. CASE UnlockPort
    BY <1>30, <1>0
    DEF UnlockPort, UnlockStep, RemovesLock, Unlocked, portVars, searchVars,
        asked, holding, outcome, ByOptions, Request
  <1>31. CASE FreePort
    BY <1>31, <1>0
    DEF FreePort, UconnFree, Unlocked, portVars, searchVars, asked, holding,
        outcome, ByOptions, Request
  <1>32. CASE UNCHANGED selectVars
    <2>1. UNCHANGED <<qport, files, cmd, alternate, place, portAt, fmatched, portMessage, busy>>
      BY <1>32 DEF selectVars, portVars
    <2>2. UNCHANGED <<ByOptions, Request>>
      BY <2>1 DEF ByOptions, Request
    <2>3. UNCHANGED <<AlternateInRange, PlaceTried, PassedWereBusy>>
      BY <2>1, <2>2
    <2>4. UNCHANGED <<MatchesRemembered, MessageKnown>>
      BY <2>1, <2>2
    <2>. QED  BY <2>3, <2>4
  <1>. QED
    BY <1>1, <1>2, <1>3, <1>4, <1>5, <1>6, <1>7, <1>8, <1>9, <1>10, <1>11,
       <1>12, <1>13, <1>14, <1>15, <1>16, <1>17, <1>18, <1>19, <1>20, <1>21,
       <1>22, <1>23, <1>24, <1>25, <1>26, <1>27, <1>28, <1>29, <1>30, <1>31,
       <1>32
    DEF SelectNext

-----------------------------------------------------------------------------
(* The settings *)

LEMMA SettingsInit == SelectInit => SettingsInv
  BY DEF SelectInit, SerialInit, SettingsInv

(* What was asked for keeps its value as long as the command and the       *)
(* alternate do, but for the flow control, which is none of it.            *)
LEMMA RequestKept ==
  ASSUME UNCHANGED alternate,
         UNCHANGED cmd \/ \E stop : cmd' = [cmd EXCEPT !.stop = stop], SelectTypes
  PROVE  Request' = Request
  BY DEF Request, ByOptions, SelectTypes, PortTypeOK, PortCommand

(* The open line alone is changed, and its own settings are kept until     *)
(* they are put back.                                                      *)
LEMMA SettingsStep ==
  ASSUME SelectTypes, HeldInv, SettingsInv, [SelectNext]_selectVars
  PROVE  SettingsInv'
  <1>. USE DEF SettingsInv, Restorable, OthersNatural
  <1>0. /\ portAt \in Places /\ isTerminal \in BOOLEAN /\ kernel \in [Lines -> LineSettings]
        /\ qport.type = "direct" => qport.line \in Lines /\ qport.line # NoLine
        /\ qCuconn \in BOOLEAN /\ fCuclose_conn \in BOOLEAN
    BY DEF SelectTypes, PortTypeOK, Ports, Port
  <1>1. CASE SelectStart
    BY <1>1, <1>0
    DEF SelectStart, StartSearch, portVars, searchVars, asked, holding, outcome
  <1>2. CASE SkipAlternate
    BY <1>2, <1>0
    DEF SkipAlternate, portVars, searchVars, asked, holding, outcome
  <1>3. CASE TryOwnPort
    BY <1>3, <1>0
    DEF TryOwnPort, FconnInit, portVars, searchVars, asked, holding, outcome
  <1>4. CASE SearchAlternate
    BY <1>4, <1>0
    DEF SearchAlternate, StartSearch, portVars, searchVars, asked, holding,
        outcome
  <1>5. CASE NoAlternateLeft
    BY <1>5, <1>0
    DEF NoAlternateLeft, Fatal, portVars, searchVars, asked, holding, outcome
  <1>6. CASE SkipPort
    BY <1>6, <1>0 DEF SkipPort, portVars, searchVars, asked, holding, outcome
  <1>7. CASE TryPort
    BY <1>7, <1>0
    DEF TryPort, FconnInit, portVars, searchVars, asked, holding, outcome
  <1>8. CASE FilesFail
    BY <1>8, <1>0
    DEF FilesFail, Fatal, portVars, searchVars, asked, holding, outcome
  <1>9. CASE SearchEnds
    BY <1>9, <1>0
    DEF SearchEnds, Fatal, FconnInit, portVars, searchVars, asked, holding,
        outcome
  <1>10. CASE GetLock
    BY <1>10, <1>0
    DEF GetLock, TakesLock, portVars, searchVars, asked, holding, outcome
  <1>11. CASE LockTaken
    BY <1>11, <1>0 DEF LockTaken, portVars, searchVars, asked, holding, outcome
  <1>12. CASE LockLine
    BY <1>12, <1>0
    DEF LockLine, LockOpensLine, LockCannotOpen, RemovesLock, portVars,
        searchVars, asked, holding, outcome
  <1>13. CASE NotLocked
    BY <1>13, <1>0
    DEF NotLocked, Fatal, UconnFree, Faked, portVars, searchVars, asked,
        holding, outcome
  <1>14. CASE Locked
    BY <1>14, <1>0 DEF Locked, portVars, searchVars, asked, holding, outcome
  <1>15. CASE AccessDenied
    BY <1>15, <1>0
    DEF AccessDenied, Fatal, portVars, searchVars, asked, holding, outcome
  <1>16. CASE SpeedRefused
    BY <1>16, <1>0
    DEF SpeedRefused, Fatal, portVars, searchVars, asked, holding, outcome
  <1>17. CASE PortOpens
    <2>1. Request' = Request /\ UNCHANGED qport
      BY <1>17, RequestKept DEF PortOpens, OpensLine, portVars, searchVars, asked
    <2>. QED
      BY <1>17, <1>0, <2>1
      DEF PortOpens, OpensLine, SpeedKnown, OpenSpeed, portVars, searchVars, asked,
          holding, outcome
  <1>18. CASE PortDoesNotOpen
    BY <1>18, <1>0
    DEF PortDoesNotOpen, CannotOpenLine, Fatal, portVars, searchVars, asked,
        holding, outcome
  <1>19. CASE SetRaw
    <2>1. CASE UNCHANGED portVars /\ portAt' = "opened"
      BY <1>19, <1>0, <2>1 DEF SetRaw, portVars, holding, outcome
    <2>2. CASE SetsRaw(Request.speed, Request.high) /\ portAt' = "hardflow"
      <3>1. qport.type = "direct" /\ device = qport.line /\ device \in Lines
        BY <1>19, <1>0 DEF SetRaw, HeldInv
      <3>2. snew' \in LineSettings
        BY <1>19, <1>0, <2>2, <3>1
        DEF SetRaw, SetsRaw, SpeedKnown, LineSettings, SelectTypes, Ports, Port
      <3>3. /\ kernel' = [kernel EXCEPT ![device] = snew'] /\ sorig' = kernel[device]
            /\ isTerminal' /\ UNCHANGED <<qport, device, fCuclose_conn>>
        BY <1>19, <2>2 DEF SetRaw, SetsRaw, holding
      <3>. QED  BY <1>0, <1>19, <2>2, <3>1, <3>2, <3>3 DEF SetRaw
    <2>. QED  BY <1>19, <2>1, <2>2 DEF SetRaw
  <1>20. CASE RawFails
    BY <1>20, <1>0
    DEF RawFails, CannotSetRaw, Fatal, portVars, searchVars, asked, holding,
        outcome
  <1>21. CASE SetHardflow
    <2>1. snew' \in LineSettings
      BY <1>21 DEF SetHardflow, Hardflow, LineSettings, SelectTypes, Ports, Port
    <2>2. /\ kernel' = [kernel EXCEPT ![device] = snew']
          /\ UNCHANGED <<qport, device, sorig, isTerminal, fCuclose_conn>>
      BY <1>21 DEF SetHardflow, Hardflow, holding
    <2>. QED  BY <1>0, <1>21, <2>1, <2>2 DEF SetHardflow
  <1>22. CASE HardflowFails
    BY <1>22, <1>0
    DEF HardflowFails, CannotHardflow, Fatal, portVars, searchVars, asked,
        holding, outcome
  <1>23. CASE Opened
    <2>1. UNCHANGED <<qport, device, sorig, snew, kernel, isTerminal, qCuconn>> /\ qCuconn
      BY <1>23 DEF Opened, HeldInv, InUse, portVars
    <2>2. fCuclose_conn' /\ portAt' \in {"set", "abort"}
      BY <1>23 DEF Opened, Fatal
    <2>. QED  BY <1>0, <1>23, <2>1, <2>2 DEF Opened
  <1>24. CASE SetPort
    <2>1. /\ UNCHANGED <<qport, device, sorig, isTerminal, fCuclose_conn>> /\ fCuclose_conn
          /\ portAt' = "connected"
      BY <1>24 DEF SetPort, SetsPort, holding
    <2>2. SetsPort(cmd.parity, cmd.strip, cmd.stop)
      BY <1>24 DEF SetPort
    <2>3. CASE ~isTerminal
      BY <1>24, <2>1, <2>2, <2>3 DEF SetPort, SetsPort
    <2>4. CASE isTerminal
      <3>1. snew' \in LineSettings
        BY <1>24, <2>2, <2>4, SettingsForTyped
        DEF SetPort, SetsPort, SelectTypes, PortTypeOK, PortCommand
      <3>2. kernel' = [kernel EXCEPT ![device] = snew']
        BY <1>0, <1>24, <2>2, <2>4 DEF SetPort, SetsPort
      <3>. QED  BY <1>0, <1>24, <2>1, <2>4, <3>1, <3>2 DEF SetPort
    <2>. QED  BY <1>0, <2>3, <2>4
  <1>25. CASE SetFails
    <2>1. /\ UNCHANGED <<qport, device, sorig, kernel, isTerminal, qCuconn, fCuclose_conn>>
          /\ qCuconn /\ fCuclose_conn /\ portAt' = "abort"
      BY <1>25 DEF SetFails, CannotSetPort, Fatal, HeldInv, InUse, holding
    <2>. QED  BY <1>0, <1>25, <2>1 DEF SetFails
  <1>26. CASE ChangeStop
    <2>1. PICK stop \in {"on", "off"} :
            \/ SetsPort("default", "default", stop) /\ UNCHANGED <<portAt, outcome>>
            \/ CannotSetPort("default", "default", stop) /\ Fatal("notSet")
      BY <1>26 DEF ChangeStop
    <2>2. /\ UNCHANGED <<qport, device, sorig, isTerminal, qCuconn, fCuclose_conn>>
          /\ qCuconn /\ fCuclose_conn
      BY <1>26, <2>1 DEF ChangeStop, SetsPort, CannotSetPort, HeldInv, InUse, holding
    <2>3. CASE CannotSetPort("default", "default", stop) /\ Fatal("notSet")
      <3>1. UNCHANGED kernel /\ portAt' = "abort"
        BY <2>3 DEF CannotSetPort, Fatal
      <3>. QED  BY <1>0, <1>26, <2>2, <3>1 DEF ChangeStop
    <2>4. CASE ~isTerminal /\ SetsPort("default", "default", stop) /\ UNCHANGED portAt
      BY <1>26, <2>2, <2>4 DEF ChangeStop, SetsPort
    <2>5. CASE isTerminal /\ SetsPort("default", "default", stop) /\ UNCHANGED portAt
      <3>1. snew' \in LineSettings
        BY <1>26, <2>5, SettingsForTyped DEF ChangeStop, SetsPort
      <3>2. kernel' = [kernel EXCEPT ![device] = snew']
        BY <1>0, <1>26, <2>5 DEF ChangeStop, SetsPort
      <3>. QED  BY <1>0, <1>26, <2>2, <2>5, <3>1, <3>2 DEF ChangeStop
    <2>. QED  BY <1>0, <2>1, <2>3, <2>4, <2>5
  <1>27. CASE SessionEnds
    <2>1. /\ UNCHANGED <<qport, device, sorig, snew, kernel, isTerminal, qCuconn, fCuclose_conn>>
          /\ qCuconn /\ fCuclose_conn
      BY <1>27 DEF SessionEnds, HeldInv, InUse, portVars, holding
    <2>2. portAt' \in {"close", "abort"}
      BY <1>27 DEF SessionEnds, Fatal
    <2>. QED  BY <1>0, <1>27, <2>1, <2>2 DEF SessionEnds
  <1>28. CASE Abort
    BY <1>28, <1>0 DEF Abort, portVars, searchVars, asked, holding, outcome
  <1>29. CASE ClosePort
    <2>1. drain' \in Drains /\ ClosesLine(drain')
      BY <1>29 DEF ClosePort
    <2>2. drain' # "interrupted" => kernel' = Natural
      <3>. SUFFICES ASSUME drain' # "interrupted" PROVE kernel' = Natural
        OBVIOUS
      <3>1. CASE ~isTerminal
        BY <1>29, <2>1, <3>1 DEF ClosePort, ClosesLine
      <3>2. CASE isTerminal
        <4>1. /\ device \in Lines /\ sorig = Natural[device]
              /\ \A l \in Lines \ {device} : kernel[l] = Natural[l]
          BY <1>29, <3>2 DEF ClosePort
        <4>2. device # NoLine /\ Natural \in [Lines -> LineSettings]
          BY <4>1, LineAssumption DEF LineAssumption
        <4>3. kernel' = [kernel EXCEPT ![device] = sorig]
          BY <2>1, <3>2, <4>2 DEF ClosesLine, Drains
        <4>. QED  BY <1>0, <4>1, <4>2, <4>3
      <3>. QED  BY <1>0, <3>1, <3>2
    <2>. QED
      BY <1>29, <1>0, <2>1, <2>2 DEF ClosePort, ClosesLine, holding, outcome
  <1>30. CASE UnlockPort
    BY <1>30, <1>0
    DEF UnlockPort, UnlockStep, RemovesLock, Unlocked, portVars, searchVars,
        asked, holding, outcome
  <1>31. CASE FreePort
    BY <1>31, <1>0
    DEF FreePort, UconnFree, Unlocked, portVars, searchVars, asked, holding,
        outcome
  <1>32. CASE UNCHANGED selectVars
    BY <1>32 DEF selectVars, portVars, Request, ByOptions, SpeedKnown, OpenSpeed
  <1>. QED
    BY <1>1, <1>2, <1>3, <1>4, <1>5, <1>6, <1>7, <1>8, <1>9, <1>10, <1>11,
       <1>12, <1>13, <1>14, <1>15, <1>16, <1>17, <1>18, <1>19, <1>20, <1>21,
       <1>22, <1>23, <1>24, <1>25, <1>26, <1>27, <1>28, <1>29, <1>30, <1>31,
       <1>32
    DEF SelectNext

-----------------------------------------------------------------------------
(* What the settings are to be *)

LEMMA AskedInit == SelectInit => AskedInv
  BY DEF SelectInit, SerialInit, AskedInv

(* The speed that is chosen for the line is one of those that were asked   *)
(* for, or, if none was, the one the line has (fsserial_open).             *)
LEMMA OpenSpeedAsked ==
  LET speed == OpenSpeed(Request.speed, Request.high)
  IN SpeedAsked(IF speed = 0 THEN Natural[qport.line].speed ELSE speed)
  BY DEF OpenSpeed, SpeedAsked

(* Every step that sets the line gives it what was asked for so far. *)
LEMMA AskedStep ==
  ASSUME SelectTypes, HeldInv, SettingsInv, AskedInv, [SelectNext]_selectVars
  PROVE  AskedInv'
  <1>. USE DEF AskedInv, RawSettings
  <1>1. CASE SelectStart
    BY <1>1 DEF SelectStart, StartSearch
  <1>2. CASE SkipAlternate
    BY <1>2 DEF SkipAlternate
  <1>3. CASE TryOwnPort
    BY <1>3 DEF TryOwnPort, FconnInit
  <1>4. CASE SearchAlternate
    BY <1>4 DEF SearchAlternate, StartSearch
  <1>5. CASE NoAlternateLeft
    BY <1>5 DEF NoAlternateLeft, Fatal
  <1>6. CASE SkipPort
    BY <1>6 DEF SkipPort
  <1>7. CASE TryPort
    BY <1>7 DEF TryPort, FconnInit
  <1>8. CASE FilesFail
    BY <1>8 DEF FilesFail, Fatal
  <1>9. CASE SearchEnds
    BY <1>9 DEF SearchEnds, Fatal, FconnInit
  <1>10. CASE GetLock
    BY <1>10 DEF GetLock, TakesLock
  <1>11. CASE LockTaken
    BY <1>11 DEF LockTaken
  <1>12. CASE LockLine
    BY <1>12 DEF LockLine, LockOpensLine, LockCannotOpen, RemovesLock
  <1>13. CASE NotLocked
    BY <1>13 DEF NotLocked, Fatal, UconnFree, Faked
  <1>14. CASE Locked
    BY <1>14 DEF Locked
  <1>15. CASE AccessDenied
    BY <1>15 DEF AccessDenied, Fatal
  <1>16. CASE SpeedRefused
    BY <1>16 DEF SpeedRefused, Fatal
  <1>17. CASE PortOpens
    BY <1>17 DEF PortOpens, SettingsInv, OpensLine, portVars
  <1>18. CASE PortDoesNotOpen
    BY <1>18 DEF PortDoesNotOpen, CannotOpenLine, Fatal
  <1>19. CASE SetRaw
    <2>1. CASE UNCHANGED portVars /\ portAt' = "opened"
      BY <1>19, <2>1 DEF SetRaw, SettingsInv, portVars
    <2>2. CASE SetsRaw(Request.speed, Request.high) /\ portAt' = "hardflow"
      <3>1. qport.type = "direct" /\ device = qport.line /\ kernel = Natural
        BY <1>19 DEF SetRaw, HeldInv, SettingsInv
      <3>2. Request' = Request /\ UNCHANGED qport
        BY <1>19, <2>2, RequestKept DEF SetRaw, SetsRaw, searchVars, asked
      <3>3. SpeedAsked(snew'.speed)
        BY <2>2, <3>1, OpenSpeedAsked DEF SetsRaw
      <3>4. SpeedAsked(snew.speed)'
        BY <3>2, <3>3 DEF SpeedAsked
      <3>5. /\ snew'.raw /\ snew'.local = ~qport'.carrier
            /\ snew'.parity = "none" /\ ~snew'.strip /\ snew'.xon = "none"
        BY <2>2, <3>2 DEF SetsRaw
      <3>. QED  BY <2>2, <3>4, <3>5
    <2>. QED  BY <1>19, <2>1, <2>2 DEF SetRaw
  <1>20. CASE RawFails
    BY <1>20 DEF RawFails, CannotSetRaw, Fatal
  <1>21. CASE SetHardflow
    <2>1. Request' = Request /\ UNCHANGED <<qport, isTerminal>>
      BY <1>21, RequestKept DEF SetHardflow, Hardflow, searchVars, asked
    <2>2. /\ snew \in LineSettings /\ RawSettings /\ snew' = [snew EXCEPT !.hard = qport.hard]
          /\ portAt' = "opened" /\ portAt = "hardflow"
      BY <1>21 DEF SetHardflow, Hardflow, SettingsInv
    <2>. QED  BY <2>1, <2>2 DEF LineSettings, SpeedAsked
  <1>22. CASE HardflowFails
    BY <1>22 DEF HardflowFails, CannotHardflow, Fatal
  <1>23. CASE Opened
    <2>1. Request' = Request
      BY <1>23, RequestKept DEF Opened, searchVars, asked
    <2>2. UNCHANGED <<qport, isTerminal, snew>> /\ portAt = "opened"
      BY <1>23 DEF Opened, portVars
    <2>3. portAt' \in {"set", "abort"}
      BY <1>23 DEF Opened, Fatal
    <2>. QED  BY <2>1, <2>2, <2>3 DEF SpeedAsked
  <1>24. CASE SetPort
    <2>1. Request' = Request /\ UNCHANGED <<qport, isTerminal, cmd>> /\ portAt' = "connected"
      BY <1>24, RequestKept DEF SetPort, SetsPort, searchVars, asked
    <2>2. CASE isTerminal
      <3>1. /\ snew \in LineSettings /\ RawSettings /\ portAt = "set"
            /\ snew' = SettingsFor(snew, cmd.parity, cmd.strip, cmd.stop)
        BY <1>24, <2>2 DEF SetPort, SetsPort, SettingsInv
      <3>2. cmd \in PortCommand
        BY DEF SelectTypes, PortTypeOK
      <3>3. /\ snew'.raw = snew.raw /\ snew'.speed = snew.speed
            /\ snew'.local = snew.local /\ snew'.hard = snew.hard
        BY <3>1 DEF SettingsFor, LineSettings
      <3>4. /\ snew'.parity = IF cmd.parity = "default" THEN "none" ELSE cmd.parity
            /\ snew'.strip = (cmd.strip = "sevenBits")
            /\ snew'.xon = IF cmd.stop = "off" THEN "none"
                           ELSE IF snew.hard THEN "recognised" ELSE "both"
        BY <3>1, <3>2 DEF SettingsFor, LineSettings, PortCommand
      <3>. QED  BY <2>1, <3>1, <3>3, <3>4 DEF SpeedAsked
    <2>. QED  BY <2>1, <2>2
  <1>25. CASE SetFails
    BY <1>25 DEF SetFails, CannotSetPort, Fatal
  <1>26. CASE ChangeStop
    <2>1. PICK stop \in {"on", "off"} :
            /\ cmd' = [cmd EXCEPT !.stop = stop]
            /\ \/ SetsPort("default", "default", stop) /\ UNCHANGED <<portAt, outcome>>
               \/ CannotSetPort("default", "default", stop) /\ Fatal("notSet")
      BY <1>26 DEF ChangeStop
    <2>2. Request' = Request /\ UNCHANGED <<qport, isTerminal>>
      BY <1>26, <2>1, RequestKept DEF ChangeStop, SetsPort, CannotSetPort, searchVars
    <2>3. CASE ~isTerminal \/ portAt' = "abort"
      BY <2>2, <2>3
    <2>4. CASE isTerminal /\ SetsPort("default", "default", stop) /\ UNCHANGED portAt
      <3>1. /\ snew \in LineSettings /\ RawSettings /\ portAt = "connected"
            /\ snew' = SettingsFor(snew, "default", "default", stop)
        BY <1>26, <2>4 DEF ChangeStop, SetsPort, SettingsInv
      <3>2. cmd'.parity = cmd.parity /\ cmd'.strip = cmd.strip /\ cmd'.stop = stop
        BY <2>1 DEF SelectTypes, PortTypeOK, PortCommand
      <3>3. /\ snew'.raw = snew.raw /\ snew'.speed = snew.speed
            /\ snew'.local = snew.local /\ snew'.hard = snew.hard
            /\ snew'.parity = snew.parity /\ snew'.strip = snew.strip
            /\ snew'.xon = IF stop = "off" THEN "none"
                           ELSE IF snew.hard THEN "recognised" ELSE "both"
        BY <3>1 DEF SettingsFor, LineSettings
      <3>. QED  BY <2>2, <2>4, <3>1, <3>2, <3>3 DEF SpeedAsked
    <2>. QED  BY <2>1, <2>3, <2>4 DEF Fatal
  <1>27. CASE SessionEnds
    BY <1>27 DEF SessionEnds, Fatal
  <1>28. CASE Abort
    BY <1>28 DEF Abort
  <1>29. CASE ClosePort
    BY <1>29 DEF ClosePort, ClosesLine
  <1>30. CASE UnlockPort
    BY <1>30 DEF UnlockPort, UnlockStep, RemovesLock, Unlocked
  <1>31. CASE FreePort
    BY <1>31 DEF FreePort, UconnFree, Unlocked
  <1>32. CASE UNCHANGED selectVars
    <2>1. Request' = Request
      BY <1>32, RequestKept DEF selectVars
    <2>. QED  BY <1>32, <2>1 DEF selectVars, portVars, SpeedAsked
  <1>. QED
    BY <1>1, <1>2, <1>3, <1>4, <1>5, <1>6, <1>7, <1>8, <1>9, <1>10, <1>11,
       <1>12, <1>13, <1>14, <1>15, <1>16, <1>17, <1>18, <1>19, <1>20, <1>21,
       <1>22, <1>23, <1>24, <1>25, <1>26, <1>27, <1>28, <1>29, <1>30, <1>31,
       <1>32
    DEF SelectNext

-----------------------------------------------------------------------------
(* The theorems *)

(* The invariant of every place holds in every state: cu, its search and   *)
(* the routines of the line keep it (main, ucuabort, icuport_lock,         *)
(* uuconf_taylor_find_port, src/unix/serial.c).                            *)
THEOREM SelectInvariant == SelectSpec => []SelectInv
  <1>1. SelectInit => SelectInv
    BY SelectTypesInit, SearchInit, HeldInit, SettingsInit, AskedInit DEF SelectInv
  <1>2. SelectInv /\ [SelectNext]_selectVars => SelectInv'
    BY SelectTypesStep, SearchStep, HeldStep, SettingsStep, AskedStep DEF SelectInv
  <1>. QED  BY <1>1, <1>2, PTL DEF SelectSpec

(* The variables of the connection and of the search have values of their  *)
(* types, whatever is asked for.                                           *)
THEOREM PortTypeCorrect == SelectSpec => []PortTypeOK
  <1>1. SelectInv => PortTypeOK
    BY DEF SelectInv, SelectTypes
  <1>. QED  BY <1>1, SelectInvariant, PTL

(* A line is open only under this program's lock file, nothing is left     *)
(* when the program exits, and nothing is given back twice, wherever the   *)
(* search, the open, the settings or the session fail (ucuabort).          *)
THEOREM LockCovers == SelectSpec => []LockCoversUse
  <1>1. SelectInv => LockCoversUse
    <2>. SUFFICES ASSUME SelectInv PROVE LockCoversUse
      OBVIOUS
    <2>1. portAt \in Places /\ HeldInv
      BY DEF SelectInv, SelectTypes
    <2>2. OpenUnderLock
      BY <2>1 DEF OpenUnderLock, HeldInv, Held, NothingHeld, InUse, Places
    <2>3. NothingLeft /\ GivenBackOnce
      BY <2>1 DEF NothingLeft, GivenBackOnce, HeldInv, Held, NothingHeld
    <2>. QED  BY <2>2, <2>3 DEF LockCoversUse
  <1>. QED  BY <1>1, SelectInvariant, PTL

(* While it is connected the line has the settings that the options and    *)
(* the port ask for, and every line has its own again when the program     *)
(* exits, unless the open itself failed half way (fsserial_open,           *)
(* fsserial_set, fsserial_close).                                          *)
THEOREM SettingsAreKept == SelectSpec => []SettingsKept
  <1>1. SelectInv => SettingsKept
    <2>. SUFFICES ASSUME SelectInv PROVE SettingsKept
      OBVIOUS
    <2>1. SettingsRestored
      BY DEF SelectInv, SettingsInv, SettingsRestored
    <2>2. SettingsAsAsked
      <3>. SUFFICES ASSUME portAt = "connected", isTerminal
                    PROVE  SettingsAsAsked
        BY DEF SettingsAsAsked
      <3>1. kernel[qport.line] = snew
        BY DEF SelectInv, SettingsInv, Restorable
      <3>2. RawSettings /\ snew.hard = qport.hard
        BY DEF SelectInv, AskedInv, RawSettings
      <3>3. /\ snew.parity = IF cmd.parity = "default" THEN "none" ELSE cmd.parity
            /\ snew.strip = (cmd.strip = "sevenBits")
            /\ snew.xon = IF cmd.stop = "off" THEN "none"
                          ELSE IF snew.hard THEN "recognised" ELSE "both"
        BY DEF SelectInv, AskedInv
      <3>. QED
        BY <3>1, <3>2, <3>3 DEF SettingsAsAsked, RawSettings, SpeedAsked
    <2>. QED  BY <2>1, <2>2 DEF SettingsKept
  <1>. QED  BY <1>1, SelectInvariant, PTL

(* The port that is used is what was asked for, all before it that are as  *)
(* well are in use; and "in use" or "no ports" is said only if it is so    *)
(* (uuconf_taylor_find_port, icuport_lock, main).                          *)
THEOREM PortIsAsAsked == SelectSpec => []PortAsAsked
  <1>1. SelectInv => PortAsAsked
    <2>. SUFFICES ASSUME SelectInv PROVE PortAsAsked
      OBVIOUS
    <2>1. MessageTrue
      BY DEF SelectInv, SearchInv, MessageKnown, MessageTrue
    <2>2. FirstFreePort
      <3>. SUFFICES ASSUME portAt = "found", place \in 1..Len(files)
                    PROVE  FirstFreePort
        BY DEF FirstFreePort
      <3>1. Fits(qport, Request)
        BY DEF SelectInv, SearchInv, PlaceTried, Trying
      <3>2. Len(files) \in Nat /\ \A i \in 1..Len(files) : files[i] \in Ports
        BY DEF SelectInv, SelectTypes, PortTypeOK
      <3>3. \A i \in 1..place - 1 : Fits(files[i], Request) => i \in busy
        BY <3>2 DEF SelectInv, SearchInv, PassedWereBusy, Trying
      <3>4. \A i \in 1..place - 1 : files[i] \in Ports
        BY <3>2
      <3>5. \A p \in Ports :
              p.line = Request.line /\ Request.line # NoLine => p.type = "direct"
        BY DEF Ports
      <3>. QED
        BY <3>1, <3>3, <3>4, <3>5 DEF FirstFreePort, Fits, IsLine
    <2>. QED  BY <2>1, <2>2 DEF PortAsAsked
  <1>. QED  BY <1>1, SelectInvariant, PTL

-----------------------------------------------------------------------------
(* The invariant of Spawn *)

Pipes == {ReadPipe, WritePipe}

(* What has been opened for the child.                                     *)
MadeFds == parClose \cup childClose

(* New descriptors are the lowest free ones: one for the null device, two  *)
(* for a pipe.                                                             *)
OpenedInOrder ==
  /\ childClose = {} /\ NullFds = {} => MadeFds = {}
  /\ childClose = {} /\ NullFds # {} => MadeFds = {5}
  /\ childClose # {} /\ NullFds = {} => MadeFds = {5, 6}
  /\ childClose # {} /\ NullFds # {} => MadeFds = {5, 6, 7}

(* A descriptor is what was asked for as a.                                *)
IsAsked(a, f) ==
  /\ a = Null => f.file = "null"
  /\ a = ReadPipe => WriteSide(f)
  /\ a = WritePipe => ReadSide(f)
  /\ a >= 0 => f = [Std[a] EXCEPT !.cloexec = FALSE]

(* Descriptor d of a table is to become stream i, for which a was asked.   *)
ToBe(a, d, t, i) ==
  /\ d \in {i} \cup 3..7
  /\ a >= 0 => t[d] = Std[a]
  /\ a < 0 => IsAsked(a, t[d])

SetUpAs(ask) ==
  /\ \A i \in 0..2 : i >= stream => aidescs[i + 1] = ask[i + 1]
  /\ \A i \in 0..2 : i < stream => ToBe(ask[i + 1], childDescs[i + 1], fds, i)
  /\ childClose # {} => \E i \in 0..2 : i < stream /\ ask[i + 1] \in Pipes

(* The caller has its own descriptors, and those in open. *)
OwnAnd(t, open) ==
  \A r \in Fds : /\ r \notin open => t[r] = Std[r]
                 /\ r \in open => t[r] \in {File("null"), File("read"), File("write")}

CallerInv ==
  /\ spawnAt = "idle" => job = "none"
  /\ spawnAt # "idle" => job \in Jobs
  /\ spawnAt \in {"idle", "failed"} => fds = Std
  /\ spawnAt = "setUp" => OpenedInOrder /\ \E ask \in Asks(job) : SetUpAs(ask)
  /\ spawnAt \in {"setUp", "fails"} =>
       MadeFds \subseteq 5..7 /\ OwnAnd(fds, MadeFds)
  /\ spawnAt = "spawned" => \A r \in Fds \ childClose : fds[r] = Std[r]
  /\ spawnAt = "spawned" => childClose \subseteq 5..7
  /\ job \notin {"popen", "mail"} => childClose = {}
  /\ spawnAt \in {"wait", "waited", "left", "done"} =>
       fds = IF job = "execute" THEN Without(Std, {3, 4}) ELSE Std

(* Until it is passed on, a descriptor of the child is closed on exec; what *)
(* stands for the later streams is not yet overwritten.                     *)
DupInv(ask) ==
  /\ \A i \in 0..2 : i >= stream => ToBe(ask[i + 1], childDescs[i + 1], childFds, i)
  /\ \A i \in 0..2 : i < stream => IsAsked(ask[i + 1], childFds[i]) /\ ~childFds[i].cloexec
  /\ \A r \in 3..7 : childFds[r] = NoFile \/ childFds[r].cloexec

ChildInv ==
  /\ spawnAt \in {"idle", "setUp", "fails", "failed", "waited", "done"} => childAt = "none"
  /\ childAt = "dup" => \E ask \in Asks(job) : DupInv(ask)
  /\ StreamsAsAsked

SpawnInv == SpawnTypeOK /\ CallerInv /\ ChildInv

-----------------------------------------------------------------------------
(* What is asked for, and what is open *)

(* What is asked for: null device, pipe or descriptor; a pipe only once.   *)
LEMMA AskFacts ==
  ASSUME NEW j \in Jobs, NEW ask \in Asks(j)
  PROVE  /\ ask \in [1..3 -> WritePipe..7]
         /\ \A i \in 0..2 : ask[i + 1] \in {Null, ReadPipe, WritePipe, i, 3, 4}
         /\ \A i, k \in 0..2 : ask[i + 1] \in Pipes /\ ask[k + 1] \in Pipes => i = k
         /\ \A i \in 0..2 : ask[i + 1] \in Pipes => j \in {"popen", "mail"}
<1>1. \/ j = "popen" /\ ask = <<Null, ReadPipe, Null>>
      \/ j = "mail" /\ ask = <<WritePipe, Null, Null>>
      \/ j = "run" /\ ask = <<Null, Null, Null>>
      \/ j = "execute" /\ ask \in {<<3, Null, 4>>, <<Null, 3, 4>>}
      \/ j = "shell" /\ ask \in {<<0, 1, 2>>, <<3, 1, 2>>, <<0, 3, 2>>, <<3, 3, 2>>}
  BY DEF Asks, Jobs
<1>2. /\ ask = <<ask[1], ask[2], ask[3]>>
      /\ \A k \in 1..3 : ask[k] \in WritePipe..7
  BY <1>1 DEF Null, ReadPipe, WritePipe
<1>3. ask \in [1..3 -> WritePipe..7]
  BY <1>2
<1>4. /\ ask[1] \in {Null, WritePipe, 0, 3}
      /\ ask[2] \in {Null, ReadPipe, 1, 3}
      /\ ask[3] \in {Null, 2, 4}
      /\ ask[1] = WritePipe => ask[2] # ReadPipe /\ j = "mail"
      /\ ask[2] = ReadPipe => j = "popen"
  BY <1>1 DEF Null, ReadPipe, WritePipe
<1>5. \A i \in 0..2 : i = 0 \/ i = 1 \/ i = 2
  OBVIOUS
<1>6. \A i \in 0..2 : ask[i + 1] \in {Null, ReadPipe, WritePipe, i, 3, 4}
  BY <1>4, <1>5
<1>7. \A i \in 0..2 : ask[i + 1] \in Pipes => i \in {0, 1}
  BY <1>4, <1>5 DEF Pipes, Null, ReadPipe, WritePipe
<1>8. ~(ask[1] \in Pipes /\ ask[2] \in Pipes)
  BY <1>4 DEF Pipes, Null, ReadPipe, WritePipe
<1>9. \A i, k \in 0..2 : ask[i + 1] \in Pipes /\ ask[k + 1] \in Pipes => i = k
  BY <1>7, <1>8
<1>10. \A i \in 0..2 : ask[i + 1] \in Pipes => j \in {"popen", "mail"}
  BY <1>4, <1>7 DEF Pipes, Null, ReadPipe, WritePipe
<1> QED  BY <1>3, <1>6, <1>9, <1>10

(* The descriptors that a program begins with. *)
LEMMA StdFds ==
  /\ Std \in [Fds -> Entry] /\ Without(Std, {3, 4}) \in [Fds -> Entry]
  /\ \A r \in 0..4 : Std[r] # NoFile /\ Std[r].file \notin {"none", "null", "read", "write"}
  /\ \A r \in 5..7 : Std[r] = NoFile
  /\ \A r \in 3..7 : Std[r] = NoFile \/ Std[r].cloexec = TRUE
  /\ \A r \in 0..2 : Std[r].cloexec = FALSE
<1>1. NoFile \in Entry
  BY DEF NoFile, Entry
<1>2. \A r \in 0..2 : [File("terminal") EXCEPT !.n = r, !.cloexec = FALSE] \in Entry
  BY DEF File, Entry
<1>3. File("port") \in Entry /\ File("error") \in Entry
  BY DEF File, Entry
<1>4. Std \in [Fds -> Entry]
  BY <1>1, <1>2, <1>3 DEF Std, Fds
<1>5. Without(Std, {3, 4}) \in [Fds -> Entry]
  BY <1>1, <1>4 DEF Without
<1>6. \A r \in 0..2 : Std[r].file = "terminal" /\ Std[r].cloexec = FALSE
  BY DEF Std, Fds, File
<1>7. /\ Std[3].file = "port" /\ Std[3].cloexec = TRUE
      /\ Std[4].file = "error" /\ Std[4].cloexec = TRUE
  BY DEF Std, Fds, File
<1>8. \A r \in 5..7 : Std[r] = NoFile
  BY DEF Std, Fds
<1>9. NoFile.file = "none"
  BY DEF NoFile
<1>10. \A r \in 0..4 : r \in 0..2 \/ r = 3 \/ r = 4
  OBVIOUS
<1>11. \A r \in 3..7 : r \in 5..7 \/ r = 3 \/ r = 4
  OBVIOUS
<1>12. \A r \in 0..4 : Std[r] # NoFile /\ Std[r].file \notin {"none", "null", "read", "write"}
  BY <1>6, <1>7, <1>9, <1>10
<1> QED  BY <1>4, <1>5, <1>6, <1>7, <1>8, <1>11, <1>12

(* A descriptor that is not open is taken, the lowest. *)
LEMMA LowestFree ==
  ASSUME NEW t, NEW taken, NEW lo \in 5..7,
         {r \in Fds : t[r] = NoFile} \ taken = lo..7
  PROVE  FreeFd(t, taken) = lo
<1>1. lo \in lo..7 /\ \A y \in lo..7 : lo <= y
  OBVIOUS
<1>2. \A x \in lo..7 : (\A y \in lo..7 : x <= y) => x = lo
  BY <1>1
<1>3. (CHOOSE x \in lo..7 : \A y \in lo..7 : x <= y) = lo
  BY <1>1, <1>2
<1> QED  BY <1>3 DEF FreeFd, Min

LEMMA SpawnInvInit == SpawnInit => SpawnInv
  <1> SUFFICES ASSUME SpawnInit  PROVE  SpawnInv
    OBVIOUS
  <1>1. NoFile \in Entry
    BY DEF NoFile, Entry
  <1>2. childFds \in [Fds -> Entry] /\ fds \in [Fds -> Entry]
    BY <1>1, StdFds DEF SpawnInit
  <1>3. aidescs \in [1..3 -> WritePipe..7] /\ childDescs \in [1..3 -> WritePipe..7]
    BY DEF SpawnInit, WritePipe
  <1>4. inPipe \in 0..PipeRoom /\ childTodo \in 0..Output
    BY SpawnAssumption DEF SpawnInit, SpawnAssumption
  <1>5. SpawnTypeOK
    BY <1>2, <1>3, <1>4 DEF SpawnInit, SpawnTypeOK
  <1>6. CallerInv
    BY DEF SpawnInit, CallerInv
  <1>7. ChildInv
    BY DEF SpawnInit, ChildInv, StreamsAsAsked
  <1> QED  BY <1>5, <1>6, <1>7 DEF SpawnInv

(* The child is not there yet. *)
LEMMA NoChildYet ==
  ASSUME ChildInv, spawnAt \in {"idle", "setUp", "fails", "failed"}, childAt' = childAt
  PROVE  ChildInv'
<1>1. childAt = "none"
  BY DEF ChildInv
<1> QED  BY <1>1 DEF ChildInv, StreamsAsAsked

LEMMA SpawnStartStep ==
  ASSUME SpawnInv, SpawnStart
  PROVE  SpawnInv'
<1>1. PICK ask \in Asks(job') : aidescs' = ask /\ childDescs' = ask
  BY DEF SpawnStart
<1>2. /\ job' \in Jobs /\ parClose' = {} /\ childClose' = {} /\ stream' = 0
      /\ spawnAt' = "setUp" /\ childAt' = "none" /\ childTodo' = 0
      /\ childFds' = [r \in Fds |-> NoFile] /\ inPipe' = 0 /\ fds' = fds
      /\ fds = Std
  BY DEF SpawnStart, SpawnInv, CallerInv
<1>3. ask \in [1..3 -> WritePipe..7]
  BY <1>1, <1>2, AskFacts
<1>4. SpawnTypeOK'
  <2>1. NoFile \in Entry
    BY DEF NoFile, Entry
  <2>2. childFds' \in [Fds -> Entry] /\ fds' \in [Fds -> Entry]
    BY <1>2, <2>1, StdFds
  <2>3. inPipe' \in 0..PipeRoom /\ childTodo' \in 0..Output
    <3>1. 0 \in 0..PipeRoom /\ 0 \in 0..Output
      BY SpawnAssumption DEF SpawnAssumption
    <3> QED  BY <1>2, <3>1
  <2>4. aidescs' \in [1..3 -> WritePipe..7] /\ childDescs' \in [1..3 -> WritePipe..7]
    BY <1>1, <1>3
  <2> QED  BY <1>2, <2>2, <2>3, <2>4 DEF SpawnTypeOK
<1>5. CallerInv'
  <2>1. OpenedInOrder'
    <3>1. NullFds' = {} /\ MadeFds' = {}
      BY <1>2 DEF NullFds, MadeFds
    <3> QED  BY <1>2, <3>1 DEF OpenedInOrder
  <2>2. SetUpAs(ask)'
    BY <1>1, <1>2 DEF SetUpAs
  <2>3. OwnAnd(fds', MadeFds') /\ MadeFds' = {}
    BY <1>2 DEF OwnAnd, MadeFds
  <2>4. \E a \in Asks(job') : SetUpAs(a)'
    BY <1>1, <2>2
  <2> QED  BY <1>2, <2>1, <2>3, <2>4 DEF CallerInv
<1>6. ChildInv'
  BY <1>2 DEF ChildInv, StreamsAsAsked
<1> QED  BY <1>4, <1>5, <1>6 DEF SpawnInv

(* What is set up for the streams before stays when another one is set up.  *)
LEMMA StreamSetUp ==
  ASSUME SpawnInv, SettingUp, NEW ask \in Asks(job), SetUpAs(ask), NEW d \in Fds,
         stream' = stream + 1, childDescs' = [childDescs EXCEPT ![stream + 1] = d],
         \A i \in 0..2 : i > stream => aidescs'[i + 1] = aidescs[i + 1],
         \A r \in Fds : fds[r] # NoFile => fds'[r] = fds[r],
         ToBe(ask[stream + 1], d, fds', stream),
         childClose' = childClose \/ ask[stream + 1] \in Pipes
  PROVE  SetUpAs(ask)'
<1>1. stream \in 0..2 /\ job \in Jobs /\ childDescs \in [1..3 -> WritePipe..7]
  BY DEF SpawnInv, SpawnTypeOK, CallerInv, SettingUp
<1>2. ASSUME NEW i \in 0..2, i < stream'
      PROVE  ToBe(ask[i + 1], childDescs'[i + 1], fds', i)
  <2>1. CASE i = stream
    <3>1. childDescs'[i + 1] = d
      BY <1>1, <2>1
    <3> QED  BY <2>1, <3>1
  <2>2. CASE i # stream
    <3>1. i < stream /\ childDescs'[i + 1] = childDescs[i + 1]
      BY <1>1, <1>2, <2>2
    <3>2. PICK e : e = childDescs[i + 1]
      OBVIOUS
    <3>3. ToBe(ask[i + 1], e, fds, i)
      BY <3>1, <3>2 DEF SetUpAs
    <3>4. e \in Fds
      BY <3>3 DEF ToBe, Fds
    <3>5. fds[e] # NoFile
      <4>1. ask[i + 1] \in {Null, ReadPipe, WritePipe, i, 3, 4}
        BY <1>1, AskFacts
      <4>2. CASE ask[i + 1] \in {i, 3, 4}
        <5>1. ask[i + 1] >= 0 /\ ask[i + 1] \in 0..4
          BY <4>2
        <5> QED  BY <3>3, <5>1, StdFds DEF ToBe
      <4>3. CASE ask[i + 1] \in {Null, ReadPipe, WritePipe}
        <5>1. ask[i + 1] < 0
          BY <4>3 DEF Null, ReadPipe, WritePipe
        <5>2. fds[e].file \in {"null", "read", "write"}
          BY <3>3, <4>3, <5>1 DEF ToBe, IsAsked, ReadSide, WriteSide
        <5> QED  BY <5>2 DEF NoFile
      <4> QED  BY <4>1, <4>2, <4>3
    <3>6. fds'[e] = fds[e]
      BY <3>4, <3>5
    <3> QED  BY <3>1, <3>2, <3>3, <3>6 DEF ToBe
  <2> QED  BY <2>1, <2>2
<1>3. ASSUME NEW i \in 0..2, i >= stream'
      PROVE  aidescs'[i + 1] = ask[i + 1]
  BY <1>1, <1>3 DEF SetUpAs
<1>4. childClose' # {} => \E i \in 0..2 : i < stream' /\ ask[i + 1] \in Pipes
  BY <1>1 DEF SetUpAs
<1> QED  BY <1>2, <1>3, <1>4 DEF SetUpAs

LEMMA GiveFdStep ==
  ASSUME SpawnInv, GiveFd
  PROVE  SpawnInv'
<1>1. /\ spawnAt = "setUp" /\ stream \in 0..2 /\ Asked >= 0
      /\ childDescs' = [childDescs EXCEPT ![stream + 1] = Asked]
      /\ stream' = stream + 1
      /\ UNCHANGED <<fds, job, aidescs, parClose, childClose, spawnAt, inPipe>>
      /\ childFds' = childFds /\ childAt' = childAt /\ childTodo' = childTodo
  BY DEF GiveFd, SettingUp, child, SpawnInv, SpawnTypeOK
<1>2. PICK ask \in Asks(job) : SetUpAs(ask)
  BY <1>1 DEF SpawnInv, CallerInv
<1>3. job \in Jobs
  BY <1>1 DEF SpawnInv, CallerInv
<1>4. Asked = ask[stream + 1]
  BY <1>1, <1>2 DEF SetUpAs, Asked
<1>5. Asked \in {stream, 3, 4} /\ Asked \in 0..4
  <2>1. ask[stream + 1] \in {Null, ReadPipe, WritePipe, stream, 3, 4}
    BY <1>1, <1>3, AskFacts
  <2> QED  BY <1>1, <1>4, <2>1 DEF Null, ReadPipe, WritePipe
<1>6. SpawnTypeOK'
  <2>1. childDescs' \in [1..3 -> WritePipe..7]
    BY <1>1, <1>5 DEF SpawnInv, SpawnTypeOK, WritePipe
  <2> QED  BY <1>1, <2>1 DEF SpawnInv, SpawnTypeOK
<1>7. CallerInv'
  <2>1. OpenedInOrder'
    BY <1>1 DEF SpawnInv, CallerInv, OpenedInOrder, MadeFds, NullFds
  <2>2. fds[Asked] = Std[Asked]
    <3>1. Asked \notin MadeFds /\ Asked \in Fds
      BY <1>1, <1>5 DEF SpawnInv, CallerInv, Fds
    <3> QED  BY <1>1, <3>1 DEF SpawnInv, CallerInv, OwnAnd
  <2>3. ToBe(ask[stream + 1], Asked, fds', stream) /\ Asked \in Fds
    BY <1>1, <1>4, <1>5, <2>2 DEF ToBe, Fds
  <2>4. SetUpAs(ask)'
    BY <1>1, <1>2, <2>3, StreamSetUp DEF GiveFd
  <2>5. \E a \in Asks(job') : SetUpAs(a)'
    BY <1>1, <2>4
  <2>6. MadeFds' \subseteq 5..7 /\ OwnAnd(fds', MadeFds')
    BY <1>1 DEF SpawnInv, CallerInv, MadeFds
  <2> QED  BY <1>1, <2>1, <2>5, <2>6 DEF SpawnInv, CallerInv
<1>8. ChildInv'
  BY <1>1, NoChildYet DEF SpawnInv
<1> QED  BY <1>6, <1>7, <1>8 DEF SpawnInv

(* The descriptors from lo on are free.                                    *)
LEMMA FreeFrom ==
  ASSUME SpawnInv, spawnAt = "setUp", NEW lo \in 5..8, MadeFds = 5..(lo - 1)
  PROVE  {r \in Fds : fds[r] = NoFile} = lo..7
<1>1. OwnAnd(fds, MadeFds)
  BY DEF SpawnInv, CallerInv
<1>2. ASSUME NEW r \in Fds
      PROVE  fds[r] = NoFile <=> r \in lo..7
  <2>1. CASE r \in 0..4
    BY <1>1, <2>1, StdFds DEF OwnAnd
  <2>2. CASE r \in 5..(lo - 1)
    <3>1. fds[r].file \in {"null", "read", "write"}
      BY <1>1, <2>2 DEF OwnAnd, File
    <3> QED  BY <2>2, <3>1 DEF NoFile
  <2>3. CASE r \in lo..7
    BY <1>1, <2>3, StdFds DEF OwnAnd
  <2> QED  BY <2>1, <2>2, <2>3 DEF Fds
<1> QED  BY <1>2 DEF Fds

LEMMA GiveNullStep ==
  ASSUME SpawnInv, GiveNull
  PROVE  SpawnInv'
<1>1. PICK r : /\ r = IF NullFds = {} THEN FreeFd(fds, {}) ELSE CHOOSE x \in NullFds : TRUE
               /\ fds' = [fds EXCEPT ![r] = File("null")]
               /\ parClose' = parClose \cup {r}
               /\ childDescs' = [childDescs EXCEPT ![stream + 1] = r]
  BY DEF GiveNull
<1>2. /\ spawnAt = "setUp" /\ stream \in 0..2 /\ Asked = Null
      /\ stream' = stream + 1
      /\ UNCHANGED <<job, aidescs, childClose, spawnAt, inPipe>>
      /\ childFds' = childFds /\ childAt' = childAt /\ childTodo' = childTodo
  BY DEF GiveNull, SettingUp, child, SpawnInv, SpawnTypeOK
<1>3. PICK ask \in Asks(job) : SetUpAs(ask)
  BY <1>2 DEF SpawnInv, CallerInv
<1>4. /\ OpenedInOrder /\ MadeFds \subseteq 5..7 /\ OwnAnd(fds, MadeFds)
      /\ fds \in [Fds -> Entry] /\ SpawnTypeOK
  BY <1>2 DEF SpawnInv, CallerInv, SpawnTypeOK
<1>5. ask[stream + 1] = Null
  BY <1>2, <1>3 DEF SetUpAs, Asked
<1>6. /\ r \in 5..7
      /\ NullFds = {} => fds[r] = NoFile
      /\ NullFds # {} => r \in parClose /\ fds[r] = File("null")
      /\ childClose = {} /\ NullFds = {} => r = 5
      /\ childClose # {} /\ NullFds = {} => r = 7
  <2>1. CASE NullFds # {}
    <3>1. r \in NullFds
      BY <1>1, <2>1
    <3>2. r \in parClose /\ fds[r].file = "null" /\ r \in MadeFds
      BY <3>1 DEF NullFds, MadeFds
    <3>3. r \in 5..7
      BY <1>4, <3>2
    <3>4. r \in Fds
      BY <3>3 DEF Fds
    <3>5. fds[r] \in {File("null"), File("read"), File("write")}
      BY <1>4, <3>2, <3>4 DEF OwnAnd
    <3>6. File("read").file = "read" /\ File("write").file = "write"
      BY DEF File
    <3>7. fds[r] = File("null")
      BY <3>2, <3>5, <3>6
    <3> QED  BY <2>1, <3>2, <3>3, <3>7
  <2>2. CASE NullFds = {} /\ childClose = {}
    <3>1. MadeFds = 5..(5 - 1)
      BY <1>4, <2>2 DEF OpenedInOrder
    <3>2. {p \in Fds : fds[p] = NoFile} = 5..7
      BY <1>2, <3>1, FreeFrom
    <3>3. r = 5
      <4>1. {p \in Fds : fds[p] = NoFile} \ {} = 5..7
        BY <3>2
      <4>2. FreeFd(fds, {}) = 5
        BY <4>1, LowestFree
      <4> QED  BY <1>1, <2>2, <4>2
    <3>4. fds[r] = NoFile
      BY <3>2, <3>3
    <3> QED  BY <2>2, <3>3, <3>4
  <2>3. CASE NullFds = {} /\ childClose # {}
    <3>1. MadeFds = 5..(7 - 1)
      BY <1>4, <2>3 DEF OpenedInOrder
    <3>2. {p \in Fds : fds[p] = NoFile} = 7..7
      BY <1>2, <3>1, FreeFrom
    <3>3. r = 7
      <4>1. {p \in Fds : fds[p] = NoFile} \ {} = 7..7
        BY <3>2
      <4>2. FreeFd(fds, {}) = 7
        BY <4>1, LowestFree
      <4> QED  BY <1>1, <2>3, <4>2
    <3>4. fds[r] = NoFile
      BY <3>2, <3>3
    <3> QED  BY <2>3, <3>3, <3>4
  <2> QED  BY <2>1, <2>2, <2>3
<1>7. /\ fds'[r] = File("null") /\ \A p \in Fds : p # r => fds'[p] = fds[p]
      /\ r \in Fds /\ fds' \in [Fds -> Entry]
  <2>1. File("null") \in Entry /\ r \in Fds
    BY <1>6 DEF File, Entry, Fds
  <2> QED  BY <1>1, <1>4, <2>1
<1>8. MadeFds' = MadeFds \cup {r} /\ NullFds' = NullFds \cup {r}
  <2>1. MadeFds' = MadeFds \cup {r}
    BY <1>1, <1>2 DEF MadeFds
  <2>2. \A p \in parClose : p \in Fds
    BY <1>4 DEF SpawnTypeOK
  <2>3. fds'[r].file = "null"
    BY <1>7 DEF File
  <2>4. NullFds' = {p \in parClose \cup {r} : fds'[p].file = "null"}
    BY <1>1 DEF NullFds
  <2>5. \A p \in parClose : p # r => fds'[p] = fds[p]
    BY <1>7, <2>2
  <2>6. NullFds' \subseteq NullFds \cup {r}
    BY <2>4, <2>5 DEF NullFds
  <2>7. NullFds \cup {r} \subseteq NullFds'
    BY <2>3, <2>4, <2>5 DEF NullFds
  <2>8. \A p : p \in NullFds' <=> p \in NullFds \cup {r}
    BY <2>6, <2>7
  <2>9. NullFds' = NullFds \cup {r}
    BY <2>8
  <2> QED  BY <2>1, <2>9
<1>9. SpawnTypeOK'
  <2>1. childDescs' \in [1..3 -> WritePipe..7]
    <3>1. r \in WritePipe..7
      BY <1>6 DEF WritePipe
    <3> QED  BY <1>1, <1>2, <1>4, <3>1 DEF SpawnTypeOK
  <2>2. parClose' \subseteq Fds
    BY <1>1, <1>4, <1>7 DEF SpawnTypeOK
  <2> QED  BY <1>2, <1>4, <1>7, <2>1, <2>2 DEF SpawnTypeOK
<1>10. CallerInv'
  <2>1. OpenedInOrder'
    <3>1. CASE NullFds = {}
      BY <1>2, <1>4, <1>6, <1>8, <3>1 DEF OpenedInOrder
    <3>2. CASE NullFds # {}
      <4>1. r \in MadeFds /\ NullFds' # {}
        BY <1>6, <1>8, <3>2 DEF MadeFds
      <4>2. MadeFds' = MadeFds
        BY <1>8, <4>1
      <4> QED  BY <1>2, <1>4, <3>2, <4>1, <4>2 DEF OpenedInOrder
    <3> QED  BY <3>1, <3>2
  <2>2. \A p \in Fds : fds[p] # NoFile => fds'[p] = fds[p]
    BY <1>6, <1>7
  <2>3. ToBe(ask[stream + 1], r, fds', stream)
    <3>1. fds'[r].file = "null"
      BY <1>7 DEF File
    <3> QED  BY <1>5, <1>6, <3>1 DEF ToBe, IsAsked, Null, ReadPipe, WritePipe
  <2>4. SetUpAs(ask)'
    BY <1>1, <1>2, <1>3, <1>7, <2>2, <2>3, StreamSetUp DEF GiveNull
  <2>5. \E a \in Asks(job') : SetUpAs(a)'
    BY <1>2, <1>3, <2>4
  <2>6. MadeFds' \subseteq 5..7
    BY <1>4, <1>6, <1>8
  <2>7. OwnAnd(fds', MadeFds')
    BY <1>4, <1>7, <1>8 DEF OwnAnd
  <2> QED  BY <1>2, <2>1, <2>5, <2>6, <2>7 DEF SpawnInv, CallerInv
<1>11. ChildInv'
  BY <1>2, NoChildYet DEF SpawnInv
<1> QED  BY <1>9, <1>10, <1>11 DEF SpawnInv


(* The two ends of a pipe, in the two lowest free descriptors.             *)
LEMMA PipeEnds ==
  ASSUME SpawnInv, GivePipe
  PROVE  \E lo \in {5, 6}, mine, its \in 5..7 :
           /\ MadeFds = 5..(lo - 1) /\ (NullFds = {} <=> lo = 5) /\ childClose = {}
           /\ \/ mine = lo /\ its = lo + 1
              \/ mine = lo + 1 /\ its = lo
           /\ fds[mine] = NoFile /\ fds[its] = NoFile
           /\ PipeMade(mine, its, TRUE)
<1>1. /\ spawnAt = "setUp" /\ stream \in 0..2 /\ job \in Jobs
      /\ OpenedInOrder
      /\ Asked \in {ReadPipe, WritePipe}
  BY DEF GivePipe, SettingUp, SpawnInv, SpawnTypeOK, CallerInv
<1>2. PICK ask \in Asks(job) : SetUpAs(ask)
  BY <1>1 DEF SpawnInv, CallerInv
<1>3. childClose = {}
  <2>1. ask[stream + 1] \in Pipes
    BY <1>1, <1>2 DEF SetUpAs, Asked, Pipes
  <2>2. \A i \in 0..2 : ask[i + 1] \in Pipes => i = stream
    BY <1>1, <2>1, AskFacts
  <2> QED  BY <1>1, <1>2, <2>2 DEF SetUpAs
<1>4. PICK lo \in {5, 6} : MadeFds = 5..(lo - 1) /\ (NullFds = {} <=> lo = 5)
  <2>1. CASE NullFds = {}
    <3>1. MadeFds = 5..(5 - 1)
      BY <1>1, <1>3, <2>1 DEF OpenedInOrder
    <3> QED  BY <2>1, <3>1
  <2>2. CASE NullFds # {}
    <3>1. MadeFds = 5..(6 - 1)
      BY <1>1, <1>3, <2>2 DEF OpenedInOrder
    <3> QED  BY <2>2, <3>1
  <2> QED  BY <2>1, <2>2
<1>5. {r \in Fds : fds[r] = NoFile} = lo..7
  BY <1>1, <1>4, FreeFrom
<1>6. FreeFd(fds, {}) = lo
  <2>1. {r \in Fds : fds[r] = NoFile} \ {} = lo..7
    BY <1>5
  <2> QED  BY <1>4, <2>1, LowestFree
<1>7. FreeFd(fds, {lo}) = lo + 1
  <2>1. {r \in Fds : fds[r] = NoFile} \ {lo} = (lo + 1)..7
    BY <1>4, <1>5
  <2>2. lo + 1 \in 5..7
    BY <1>4
  <2> QED  BY <2>1, <2>2, LowestFree
<1>8. fds[lo] = NoFile /\ fds[lo + 1] = NoFile /\ lo \in 5..7 /\ lo + 1 \in 5..7
  <2>1. lo \in lo..7 /\ lo + 1 \in lo..7 /\ lo \in 5..7 /\ lo + 1 \in 5..7
    BY <1>4
  <2> QED  BY <1>5, <2>1
<1>9. IF Asked = ReadPipe THEN PipeMade(lo, lo + 1, TRUE) ELSE PipeMade(lo + 1, lo, TRUE)
  BY <1>6, <1>7 DEF GivePipe
<1>10. CASE Asked = ReadPipe
  BY <1>3, <1>4, <1>8, <1>9, <1>10
<1>11. CASE Asked # ReadPipe
  BY <1>3, <1>4, <1>8, <1>9, <1>11
<1> QED  BY <1>10, <1>11

LEMMA GivePipeStep ==
  ASSUME SpawnInv, GivePipe
  PROVE  SpawnInv'
<1>1. /\ spawnAt = "setUp" /\ stream \in 0..2 /\ job \in Jobs
      /\ OpenedInOrder /\ MadeFds \subseteq 5..7 /\ OwnAnd(fds, MadeFds)
      /\ SpawnTypeOK
      /\ Asked \in {ReadPipe, WritePipe}
      /\ UNCHANGED <<job, inPipe>>
      /\ childFds' = childFds /\ childAt' = childAt /\ childTodo' = childTodo
      /\ \/ stream' = stream + 1 /\ spawnAt' = "setUp"
         \/ spawnAt' = "fails" /\ stream' = stream
  BY DEF GivePipe, SettingUp, child, SpawnInv, SpawnTypeOK, CallerInv
<1>2. PICK lo \in {5, 6}, mine, its \in 5..7 :
        /\ MadeFds = 5..(lo - 1) /\ (NullFds = {} <=> lo = 5) /\ childClose = {}
        /\ \/ mine = lo /\ its = lo + 1
           \/ mine = lo + 1 /\ its = lo
        /\ fds[mine] = NoFile /\ fds[its] = NoFile
        /\ PipeMade(mine, its, TRUE)
  BY PipeEnds
<1>3. PICK ask \in Asks(job) : SetUpAs(ask)
  BY <1>1 DEF SpawnInv, CallerInv
<1>4. ask[stream + 1] = Asked
  BY <1>1, <1>3 DEF SetUpAs, Asked
<1>5. PICK m \in {"read", "write"}, c \in {"read", "write"} :
        /\ m = IF Asked = ReadPipe THEN "read" ELSE "write"
        /\ c = IF Asked = ReadPipe THEN "write" ELSE "read"
  OBVIOUS
<1>6. /\ mine \in Fds /\ its \in Fds /\ mine # its
      /\ fds' = [fds EXCEPT ![mine] = File(m), ![its] = File(c)]
  <2>1. mine \in Fds /\ its \in Fds /\ mine # its
    BY <1>2 DEF Fds
  <2> QED  BY <1>2, <1>5, <2>1 DEF PipeMade, File
<1>7. /\ fds'[mine] = File(m) /\ fds'[its] = File(c) /\ fds' \in [Fds -> Entry]
      /\ \A r \in Fds : r # mine /\ r # its => fds'[r] = fds[r]
  <2>1. File(m) \in Entry /\ File(c) \in Entry
    BY DEF File, Entry
  <2> QED  BY <1>1, <1>6, <2>1 DEF SpawnTypeOK
<1>8. /\ childClose' = {mine} /\ parClose' = parClose \cup {its}
      /\ aidescs' = [aidescs EXCEPT ![stream + 1] = mine]
      /\ childDescs' = [childDescs EXCEPT ![stream + 1] = its]
  BY <1>2 DEF PipeMade
<1>9. SpawnTypeOK'
  <2>1. mine \in WritePipe..7 /\ its \in WritePipe..7
    BY DEF WritePipe
  <2>2. aidescs' \in [1..3 -> WritePipe..7] /\ childDescs' \in [1..3 -> WritePipe..7]
    BY <1>1, <1>8, <2>1 DEF SpawnTypeOK
  <2>3. stream' \in 0..3
    BY <1>1
  <2> QED  BY <1>1, <1>6, <1>7, <1>8, <2>2, <2>3 DEF SpawnTypeOK
<1>10. MadeFds' = MadeFds \cup {mine, its} /\ MadeFds' = 5..(lo + 1)
  <2>1. MadeFds' = MadeFds \cup {mine, its}
    BY <1>2, <1>8 DEF MadeFds
  <2>2. MadeFds \cup {mine, its} = 5..(lo + 1)
    BY <1>2
  <2> QED  BY <2>1, <2>2
<1>11. NullFds' = NullFds
  <2>1. \A p \in parClose : p \in 5..(lo - 1)
    BY <1>2 DEF MadeFds
  <2>2. \A p \in parClose : p # mine /\ p # its /\ p \in Fds
    BY <1>2, <2>1 DEF Fds
  <2>3. \A p \in parClose : fds'[p] = fds[p]
    BY <1>7, <2>2
  <2>4. fds'[its].file # "null"
    BY <1>7 DEF File
  <2>5. NullFds' = {p \in parClose \cup {its} : fds'[p].file = "null"}
    BY <1>8 DEF NullFds
  <2>6. \A p : p \in NullFds' <=> p \in NullFds
    BY <2>3, <2>4, <2>5 DEF NullFds
  <2> QED  BY <2>6 DEF NullFds
<1>12. OpenedInOrder'
  <2>1. childClose' # {}
    BY <1>8
  <2>2. lo = 5 => MadeFds' = {5, 6}
    BY <1>10
  <2>3. lo = 6 => MadeFds' = {5, 6, 7}
    BY <1>10
  <2> QED  BY <1>2, <1>11, <2>1, <2>2, <2>3 DEF OpenedInOrder
<1>13. OwnAnd(fds', MadeFds') /\ MadeFds' \subseteq 5..7
  <2>1. File(m) \in {File("null"), File("read"), File("write")}
    OBVIOUS
  <2>2. File(c) \in {File("null"), File("read"), File("write")}
    OBVIOUS
  <2>3. OwnAnd(fds', MadeFds')
    BY <1>1, <1>7, <1>10, <2>1, <2>2 DEF OwnAnd
  <2> QED  BY <1>1, <1>10, <2>3
<1>14. ToBe(ask[stream + 1], its, fds', stream)
  <2>1. Asked < 0 /\ ~(Asked >= 0) /\ Asked # Null /\ ReadPipe # WritePipe
    BY <1>1 DEF ReadPipe, WritePipe, Null
  <2>2. fds'[its].file = c
    BY <1>7 DEF File
  <2>3. IsAsked(Asked, fds'[its])
    BY <1>1, <1>5, <2>1, <2>2 DEF IsAsked, ReadSide, WriteSide
  <2>4. its \in {stream} \cup 3..7
    OBVIOUS
  <2> QED  BY <1>4, <2>1, <2>3, <2>4 DEF ToBe
<1>15. stream' = stream + 1 => SetUpAs(ask)'
  <2>1. SUFFICES ASSUME stream' = stream + 1  PROVE  SetUpAs(ask)'
    OBVIOUS
  <2>2. \A i \in 0..2 : i > stream => aidescs'[i + 1] = aidescs[i + 1]
    BY <1>1, <1>8 DEF SpawnTypeOK
  <2>3. \A r \in Fds : fds[r] # NoFile => fds'[r] = fds[r]
    BY <1>2, <1>7
  <2>4. ask[stream + 1] \in Pipes /\ SettingUp
    BY <1>1, <1>4 DEF Pipes, SettingUp
  <2> QED  BY <1>3, <1>6, <1>8, <1>14, <2>1, <2>2, <2>3, <2>4, StreamSetUp
<1>16. CallerInv'
  <2>1. job' \in {"popen", "mail"}
    BY <1>1, <1>4, AskFacts DEF Pipes
  <2>2. spawnAt' = "setUp" => \E a \in Asks(job') : SetUpAs(a)'
    BY <1>1, <1>3, <1>15
  <2>3. spawnAt' \in {"setUp", "fails"} /\ job' \in Jobs
    BY <1>1
  <2> QED  BY <1>12, <1>13, <2>1, <2>2, <2>3 DEF CallerInv
<1>17. ChildInv'
  BY <1>1, NoChildYet DEF SpawnInv, ChildInv, StreamsAsAsked
<1> QED  BY <1>9, <1>16, <1>17 DEF SpawnInv

LEMMA SetUpFailsStep ==
  ASSUME SpawnInv, SetUpFails \/ ForkFails
  PROVE  SpawnInv'
<1>1. /\ spawnAt = "setUp" /\ spawnAt' = "fails"
      /\ UNCHANGED <<fds, job, aidescs, childDescs, parClose, childClose, stream,
                     childFds, childAt, childTodo, inPipe>>
  BY DEF SetUpFails, ForkFails, SettingUp, setUp, child
<1>2. SpawnTypeOK'
  BY <1>1 DEF SpawnInv, SpawnTypeOK
<1>3. CallerInv'
  BY <1>1 DEF SpawnInv, CallerInv, MadeFds
<1>4. ChildInv'
  BY <1>1, NoChildYet DEF SpawnInv
<1> QED  BY <1>2, <1>3, <1>4 DEF SpawnInv

(* Closing what had been opened leaves the caller its own descriptors.      *)
LEMMA CloseOpened ==
  ASSUME NEW t \in [Fds -> Entry], NEW open \in SUBSET (5..7), OwnAnd(t, open),
         NEW kept \in SUBSET open
  PROVE  /\ Without(t, open \ kept) \in [Fds -> Entry]
         /\ OwnAnd(Without(t, open \ kept), kept)
         /\ kept = {} => Without(t, open \ kept) = Std
<1>1. NoFile \in Entry
  BY DEF NoFile, Entry
<1>2. Without(t, open \ kept) \in [Fds -> Entry]
  BY <1>1 DEF Without
<1>3. \A r \in Fds : r \in open \ kept => Without(t, open \ kept)[r] = Std[r]
  BY StdFds DEF Without
<1>4. \A r \in Fds : r \notin open \ kept => Without(t, open \ kept)[r] = t[r]
  BY DEF Without
<1>5. OwnAnd(Without(t, open \ kept), kept)
  BY <1>3, <1>4 DEF OwnAnd
<1>6. ASSUME kept = {}  PROVE Without(t, open \ kept) = Std
  <2>1. \A r \in Fds : Without(t, open \ kept)[r] = Std[r]
    BY <1>3, <1>4, <1>6 DEF OwnAnd
  <2>2. Std \in [Fds -> Entry]
    BY StdFds
  <2> QED  BY <1>2, <2>1, <2>2
<1> QED  BY <1>2, <1>5, <1>6

LEMMA SpawnFailsStep ==
  ASSUME SpawnInv, SpawnFails
  PROVE  SpawnInv'
<1>1. /\ spawnAt = "fails" /\ spawnAt' = "failed"
      /\ fds' = Without(fds, childClose \cup parClose)
      /\ UNCHANGED <<job, aidescs, childDescs, parClose, childClose, stream,
                     childFds, childAt, childTodo, inPipe>>
  BY DEF SpawnFails, setUp, child
<1>2. /\ fds \in [Fds -> Entry] /\ MadeFds \in SUBSET (5..7) /\ OwnAnd(fds, MadeFds)
      /\ {} \in SUBSET MadeFds
  BY <1>1 DEF SpawnInv, SpawnTypeOK, CallerInv
<1>3. childClose \cup parClose = MadeFds \ {}
  BY DEF MadeFds
<1>4. fds' = Std /\ fds' \in [Fds -> Entry]
  BY <1>1, <1>2, <1>3, CloseOpened
<1>5. SpawnTypeOK'
  BY <1>1, <1>4 DEF SpawnInv, SpawnTypeOK
<1>6. CallerInv'
  BY <1>1, <1>4 DEF SpawnInv, CallerInv
<1>7. ChildInv'
  BY <1>1, NoChildYet DEF SpawnInv
<1> QED  BY <1>5, <1>6, <1>7 DEF SpawnInv

LEMMA ForksStep ==
  ASSUME SpawnInv, Forks
  PROVE  SpawnInv'
<1>1. /\ spawnAt = "setUp" /\ stream = 3 /\ job \in Jobs
      /\ childFds' = fds /\ childAt' = "dup" /\ fds' = Without(fds, parClose)
      /\ stream' = 0 /\ spawnAt' = "spawned" /\ childTodo' \in {0, Output}
      /\ UNCHANGED <<job, aidescs, childDescs, parClose, childClose, inPipe>>
  BY DEF Forks, SpawnInv, CallerInv
<1>2. /\ fds \in [Fds -> Entry] /\ SpawnTypeOK
      /\ MadeFds \subseteq 5..7 /\ OwnAnd(fds, MadeFds)
  BY <1>1 DEF SpawnInv, SpawnTypeOK, CallerInv
<1>3. PICK ask \in Asks(job) : SetUpAs(ask)
  BY <1>1 DEF SpawnInv, CallerInv
<1>4. SpawnTypeOK'
  <2>1. NoFile \in Entry
    BY DEF NoFile, Entry
  <2>2. fds' \in [Fds -> Entry]
    BY <1>1, <1>2, <2>1 DEF Without
  <2>3. childTodo' \in 0..Output
    BY <1>1, SpawnAssumption DEF SpawnAssumption
  <2> QED  BY <1>1, <1>2, <2>2, <2>3 DEF SpawnTypeOK
<1>5. CallerInv'
  <2>1. ASSUME NEW r \in Fds \ childClose
        PROVE  fds'[r] = Std[r]
    <3>1. CASE r \in parClose
      <4>1. r \in 5..7 /\ fds'[r] = NoFile
        BY <1>1, <1>2, <3>1 DEF MadeFds, Without
      <4> QED  BY <4>1, StdFds
    <3>2. CASE r \notin parClose
      BY <1>1, <1>2, <3>2 DEF MadeFds, Without, OwnAnd
    <3> QED  BY <3>1, <3>2
  <2>2. childClose \subseteq 5..7
    BY <1>2 DEF MadeFds
  <2>3. job \notin {"popen", "mail"} => childClose = {}
    BY DEF SpawnInv, CallerInv
  <2> QED  BY <1>1, <2>1, <2>2, <2>3 DEF CallerInv
<1>6. DupInv(ask)'
  <2>1. \A i \in 0..2 : i < stream /\ i >= stream' /\ ~(i < stream')
    BY <1>1
  <2>2. \A i \in 0..2 : ToBe(ask[i + 1], childDescs'[i + 1], childFds', i)
    BY <1>1, <1>3, <2>1 DEF SetUpAs
  <2>3. ASSUME NEW r \in 3..7
        PROVE  childFds'[r] = NoFile \/ childFds'[r].cloexec
    <3>1. r \in Fds
      BY DEF Fds
    <3>2. CASE r \in MadeFds
      BY <1>1, <1>2, <3>1, <3>2 DEF OwnAnd, File
    <3>3. CASE r \notin MadeFds
      <4>1. childFds'[r] = Std[r]
        BY <1>1, <1>2, <3>1, <3>3 DEF OwnAnd
      <4> QED  BY <4>1, StdFds
    <3> QED  BY <3>2, <3>3
  <2> QED  BY <2>1, <2>2, <2>3 DEF DupInv
<1>7. ChildInv'
  BY <1>1, <1>6 DEF ChildInv, StreamsAsAsked
<1> QED  BY <1>4, <1>5, <1>7 DEF SpawnInv

LEMMA ChildDupStep ==
  ASSUME SpawnInv, ChildDup
  PROVE  SpawnInv'
<1>1. /\ childAt = "dup" /\ stream \in 0..2
      /\ childFds' = [childFds EXCEPT ![stream] =
                        [childFds[childDescs[stream + 1]] EXCEPT !.cloexec = FALSE]]
      /\ stream' = stream + 1
      /\ UNCHANGED <<fds, job, aidescs, childDescs, parClose, childClose, spawnAt,
                     childAt, childTodo, inPipe>>
      /\ SpawnTypeOK
  BY DEF ChildDup, SpawnInv, SpawnTypeOK
<1>2. spawnAt \in {"spawned", "wait", "left"} /\ job \in Jobs
  BY <1>1 DEF SpawnInv, ChildInv, CallerInv, SpawnTypeOK
<1>3. PICK ask \in Asks(job) : DupInv(ask)
  BY <1>1 DEF SpawnInv, ChildInv
<1>4. PICK d : d = childDescs[stream + 1]
  OBVIOUS
<1>5. PICK i \in 0..2 : i = stream
  BY <1>1
<1>6. ToBe(ask[i + 1], d, childFds, i) /\ d \in Fds
  <2>1. ToBe(ask[i + 1], d, childFds, i)
    BY <1>3, <1>4, <1>5 DEF DupInv
  <2> QED  BY <2>1 DEF ToBe, Fds
<1>7. PICK new : new = [childFds[d] EXCEPT !.cloexec = FALSE]
  OBVIOUS
<1>8. /\ new \in Entry /\ new.file = childFds[d].file /\ ~new.cloexec
      /\ childFds' = [childFds EXCEPT ![i] = new] /\ i \in Fds
  <2>1. \A e \in Entry : /\ [e EXCEPT !.cloexec = FALSE] \in Entry
                         /\ [e EXCEPT !.cloexec = FALSE].file = e.file
                         /\ ~[e EXCEPT !.cloexec = FALSE].cloexec
    BY DEF Entry
  <2>2. childFds[d] \in Entry
    BY <1>1, <1>6 DEF SpawnTypeOK
  <2>3. new \in Entry /\ new.file = childFds[d].file /\ ~new.cloexec
    BY <1>7, <2>1, <2>2
  <2> QED  BY <1>1, <1>4, <1>5, <1>7, <2>3 DEF Fds
<1>9. /\ childFds'[i] = new /\ childFds' \in [Fds -> Entry]
      /\ \A r \in Fds : r # i => childFds'[r] = childFds[r]
  BY <1>1, <1>8 DEF SpawnTypeOK
<1>10. IsAsked(ask[i + 1], new)
  <2>1. ask[i + 1] \in Int
    <3>1. ask[i + 1] \in {Null, ReadPipe, WritePipe, i, 3, 4}
      BY <1>2, AskFacts
    <3> QED  BY <3>1 DEF Null, ReadPipe, WritePipe
  <2>2. CASE ask[i + 1] >= 0
    <3>1. new = [Std[ask[i + 1]] EXCEPT !.cloexec = FALSE]
      BY <1>6, <1>7, <2>2 DEF ToBe
    <3>2. ~(ask[i + 1] < 0)
      BY <2>1, <2>2
    <3>3. ask[i + 1] \notin {Null, ReadPipe, WritePipe}
      BY <2>2 DEF Null, ReadPipe, WritePipe
    <3> QED  BY <3>1, <3>3 DEF IsAsked
  <2>3. CASE ask[i + 1] < 0
    <3>1. IsAsked(ask[i + 1], childFds[d]) /\ ~(ask[i + 1] >= 0)
      BY <1>6, <2>1, <2>3 DEF ToBe
    <3> QED  BY <1>8, <3>1 DEF IsAsked, ReadSide, WriteSide
  <2> QED  BY <2>1, <2>2, <2>3
<1>11. DupInv(ask)'
  <2>1. ASSUME NEW k \in 0..2, k >= stream'
        PROVE  ToBe(ask[k + 1], childDescs'[k + 1], childFds', k)
    <3>1. PICK e : e = childDescs[k + 1]
      OBVIOUS
    <3>2. ToBe(ask[k + 1], e, childFds, k)
      BY <1>1, <1>3, <2>1, <3>1 DEF DupInv
    <3>3. e \in {k} \cup 3..7 /\ k # i
      BY <1>1, <1>5, <2>1, <3>2 DEF ToBe
    <3>4. childFds'[e] = childFds[e]
      BY <1>9, <3>3 DEF Fds
    <3> QED  BY <1>1, <3>1, <3>2, <3>4 DEF ToBe
  <2>2. ASSUME NEW k \in 0..2, k < stream'
        PROVE  IsAsked(ask[k + 1], childFds'[k]) /\ ~childFds'[k].cloexec
    <3>1. CASE k = i
      BY <1>8, <1>9, <1>10, <3>1
    <3>2. CASE k # i
      <4>1. k < stream /\ k \in Fds
        BY <1>1, <1>5, <2>2, <3>2 DEF Fds
      <4>2. childFds'[k] = childFds[k]
        BY <1>9, <3>2, <4>1
      <4> QED  BY <1>3, <4>1, <4>2 DEF DupInv
    <3> QED  BY <3>1, <3>2
  <2>3. ASSUME NEW r \in 3..7
        PROVE  childFds'[r] = NoFile \/ childFds'[r].cloexec
    <3>1. r \in Fds /\ r # i
      BY DEF Fds
    <3>2. childFds'[r] = childFds[r]
      BY <1>9, <3>1
    <3> QED  BY <1>3, <3>2 DEF DupInv
  <2> QED  BY <2>1, <2>2, <2>3 DEF DupInv
<1>12. SpawnTypeOK'
  <2>1. stream' \in 0..3
    BY <1>1
  <2> QED  BY <1>1, <1>9, <2>1 DEF SpawnTypeOK
<1>13. CallerInv'
  BY <1>1, <1>2 DEF SpawnInv, CallerInv
<1>14. ChildInv'
  BY <1>1, <1>2, <1>3, <1>11 DEF ChildInv, StreamsAsAsked
<1> QED  BY <1>12, <1>13, <1>14 DEF SpawnInv

(* What the program runs with is what was asked for.                       *)
LEMMA ExecAsked ==
  ASSUME NEW j \in Jobs, NEW ask \in Asks(j), NEW i \in 0..2, NEW f, IsAsked(ask[i + 1], f)
  PROVE  LET a == ask[i + 1]
         IN CASE a = Null      -> f.file = "null"
              [] a = ReadPipe  -> WriteSide(f)
              [] a = WritePipe -> ReadSide(f)
              [] OTHER         -> f = [Std[a] EXCEPT !.cloexec = FALSE]
<1>1. ask[i + 1] \in {Null, ReadPipe, WritePipe, i, 3, 4}
  BY AskFacts
<1>2. PICK a : a = ask[i + 1]
  OBVIOUS
<1>3. IsAsked(a, f) /\ (a \notin {Null, ReadPipe, WritePipe} => a >= 0)
  BY <1>1, <1>2
<1>4. Null # ReadPipe /\ Null # WritePipe /\ ReadPipe # WritePipe
  BY DEF Null, ReadPipe, WritePipe
<1> QED  BY <1>2, <1>3, <1>4 DEF IsAsked

LEMMA ChildExecStep ==
  ASSUME SpawnInv, ChildExec
  PROVE  SpawnInv'
<1>1. /\ childAt = "dup" /\ stream = 3
      /\ UNCHANGED <<fds, job, aidescs, childDescs, parClose, childClose, stream, spawnAt,
                     childTodo, inPipe>>
      /\ SpawnTypeOK
      /\ \/ /\ childFds' = Without(childFds, {r \in Fds : childFds[r].cloexec})
            /\ childAt' = "runs"
         \/ /\ childAt' = "exited"
            /\ childFds' = [r \in Fds |-> NoFile]
  BY DEF ChildExec, setUp, SpawnInv
<1>2. spawnAt \in {"spawned", "wait", "left"} /\ job \in Jobs
  BY <1>1 DEF SpawnInv, ChildInv, CallerInv, SpawnTypeOK
<1>3. SpawnTypeOK'
  <2>1. NoFile \in Entry
    BY DEF NoFile, Entry
  <2>2. childFds' \in [Fds -> Entry]
    BY <1>1, <2>1 DEF Without, SpawnTypeOK
  <2> QED  BY <1>1, <2>2 DEF SpawnTypeOK
<1>4. CallerInv'
  BY <1>1, <1>2 DEF SpawnInv, CallerInv
<1>5. StreamsAsAsked'
  <2>1. SUFFICES ASSUME childAt' = "runs"  PROVE StreamsAsAsked'
    BY DEF StreamsAsAsked
  <2>2. childFds' = Without(childFds, {r \in Fds : childFds[r].cloexec})
    BY <1>1, <2>1
  <2>3. PICK ask \in Asks(job) : DupInv(ask)
    BY <1>1 DEF SpawnInv, ChildInv
  <2>4. \A r \in 3..7 : childFds'[r] = NoFile
    BY <2>2, <2>3 DEF DupInv, Without, Fds
  <2>5. \A i \in 0..2 : IsAsked(ask[i + 1], childFds[i]) /\ ~childFds[i].cloexec
    BY <1>1, <2>3 DEF DupInv
  <2>6. \A i \in 0..2 : childFds'[i] = childFds[i]
    BY <2>2, <2>5 DEF Without, Fds
  <2>7. \A i \in 0..2 : IsAsked(ask[i + 1], childFds'[i])
    BY <2>5, <2>6
  <2>8. ASSUME NEW i \in 0..2
        PROVE  LET a == ask[i + 1]
                   f == childFds'[i]
               IN CASE a = Null      -> f.file = "null"
                    [] a = ReadPipe  -> WriteSide(f)
                    [] a = WritePipe -> ReadSide(f)
                    [] OTHER         -> f = [Std[a] EXCEPT !.cloexec = FALSE]
    <3>1. PICK f : f = childFds'[i]
      OBVIOUS
    <3>2. IsAsked(ask[i + 1], f)
      BY <2>7, <3>1
    <3> QED  BY <1>2, <3>1, <3>2, ExecAsked
  <2>9. ask \in Asks(job')
    BY <1>1
  <2> QED  BY <2>4, <2>8, <2>9 DEF StreamsAsAsked
<1>6. ChildInv'
  BY <1>1, <1>2, <1>5 DEF ChildInv
<1> QED  BY <1>3, <1>4, <1>6 DEF SpawnInv

(* The child goes on as it was while the caller does something else.        *)
LEMMA ChildStays ==
  ASSUME ChildInv, UNCHANGED <<childAt, childFds, job, stream, childDescs>>,
         spawnAt' = spawnAt \/ spawnAt' \in {"wait", "left"} \/ childAt = "none"
  PROVE  ChildInv'
  BY ZenonT(60) DEF ChildInv, DupInv, ToBe, IsAsked, StreamsAsAsked, ReadSide, WriteSide

(* So does the caller while the child does something.                       *)
LEMMA CallerStays ==
  ASSUME CallerInv, spawnAt \notin {"setUp", "fails"},
         UNCHANGED <<fds, job, parClose, childClose, spawnAt>>
  PROVE  CallerInv'
  BY DEF CallerInv

LEMMA PipeStep ==
  ASSUME SpawnInv, ChildWrites \/ ChildReads \/ CallerReads \/ CallerWrites
  PROVE  SpawnInv'
<1>1. /\ UNCHANGED <<fds, job, aidescs, childDescs, parClose, childClose, stream, spawnAt,
                     childFds, childAt>>
      /\ childAt = "runs" \/ spawnAt = "spawned"
      /\ SpawnTypeOK /\ ChildInv /\ CallerInv
  BY DEF ChildWrites, ChildReads, CallerReads, CallerWrites, setUp, child, SpawnInv
<1>2. inPipe' \in 0..PipeRoom /\ childTodo' \in 0..Output
  <2>1. PipeRoom \in Nat /\ Output \in Nat
    BY SpawnAssumption DEF SpawnAssumption
  <2>2. inPipe \in 0..PipeRoom /\ childTodo \in 0..Output
    BY <1>1 DEF SpawnTypeOK
  <2>3. CASE ChildWrites
    BY <2>1, <2>2, <2>3 DEF ChildWrites
  <2>4. CASE ChildReads
    BY <2>1, <2>2, <2>4 DEF ChildReads, child
  <2>5. CASE CallerReads
    BY <2>1, <2>2, <2>5 DEF CallerReads, child
  <2>6. CASE CallerWrites
    BY <2>1, <2>2, <2>6 DEF CallerWrites, child
  <2> QED  BY <2>3, <2>4, <2>5, <2>6
<1>3. SpawnTypeOK'
  BY <1>1, <1>2 DEF SpawnTypeOK
<1>4. ChildInv'
  BY <1>1, ChildStays
<1>5. CallerInv'
  <2>1. spawnAt \notin {"setUp", "fails"}
    BY <1>1 DEF ChildInv
  <2> QED  BY <1>1, <2>1, CallerStays
<1> QED  BY <1>3, <1>4, <1>5 DEF SpawnInv

LEMMA ChildEndsStep ==
  ASSUME SpawnInv, ChildEnds
  PROVE  SpawnInv'
<1>1. /\ childAt = "runs" /\ childAt' = "exited" /\ childFds' = [r \in Fds |-> NoFile]
      /\ UNCHANGED <<fds, job, aidescs, childDescs, parClose, childClose, stream, spawnAt,
                     childTodo, inPipe>>
      /\ SpawnTypeOK /\ ChildInv /\ CallerInv
  BY DEF ChildEnds, setUp, SpawnInv
<1>2. spawnAt \notin {"idle", "setUp", "fails", "failed", "waited", "done"}
  BY <1>1 DEF ChildInv
<1>3. SpawnTypeOK'
  <2>1. NoFile \in Entry
    BY DEF NoFile, Entry
  <2> QED  BY <1>1, <2>1 DEF SpawnTypeOK
<1>4. CallerInv'
  BY <1>1, <1>2, CallerStays
<1>5. ChildInv'
  BY <1>1, <1>2 DEF ChildInv, StreamsAsAsked
<1> QED  BY <1>3, <1>4, <1>5 DEF SpawnInv

(* What a caller has when it has closed its ends of the pipes.              *)
LEMMA EndsClosed ==
  ASSUME SpawnInv, spawnAt = "spawned"
  PROVE  Without(fds, childClose) = Std
<1>1. /\ fds \in [Fds -> Entry] /\ childClose \subseteq 5..7
      /\ \A r \in Fds \ childClose : fds[r] = Std[r]
  BY DEF SpawnInv, SpawnTypeOK, CallerInv
<1>2. \A r \in Fds : Without(fds, childClose)[r] = Std[r]
  BY <1>1, StdFds DEF Without
<1>3. Without(fds, childClose) = [r \in Fds |-> Without(fds, childClose)[r]]
  BY DEF Without
<1>4. Std = [r \in Fds |-> Std[r]]
  BY StdFds
<1> QED  BY <1>2, <1>3, <1>4

LEMMA CallerClosesStep ==
  ASSUME SpawnInv, FdopenFails \/ CallerReadsEnd \/ CallerCloses \/ CallerWaits
  PROVE  SpawnInv'
<1>1. /\ spawnAt = "spawned" /\ spawnAt' = "wait"
      /\ UNCHANGED <<job, aidescs, childDescs, parClose, childClose, stream, childTodo,
                     inPipe>>
      /\ SpawnTypeOK /\ ChildInv /\ CallerInv
  BY DEF FdopenFails, CallerReadsEnd, CallerCloses, CallerWaits, setUp, child, SpawnInv
<1>2. Without(fds, childClose) = Std
  BY <1>1, EndsClosed
<1>3. fds' = IF job = "execute" THEN Without(Std, {3, 4}) ELSE Std
  <2>1. CASE CallerWaits
    <3>1. childClose = {} /\ fds' = FilesClosed
      BY <1>1, <2>1 DEF CallerWaits, CallerInv
    <3>2. fds = Std
      <4>1. \A r \in Fds : fds[r] = Std[r]
        BY <1>1, <3>1 DEF CallerInv
      <4>2. fds \in [Fds -> Entry]
        BY <1>1 DEF SpawnTypeOK
      <4>3. Std \in [Fds -> Entry]
        BY StdFds
      <4> QED  BY <4>1, <4>2, <4>3
    <3> QED  BY <3>1, <3>2 DEF FilesClosed
  <2>2. CASE ~CallerWaits
    <3>1. job \in {"popen", "mail"} /\ fds' = Without(fds, childClose)
      BY <2>2 DEF FdopenFails, CallerReadsEnd, CallerCloses, Mine
    <3> QED  BY <1>2, <3>1
  <2> QED  BY <2>1, <2>2
<1>4. /\ \/ childFds' = childFds /\ childAt' = childAt
         \/ childFds' = [r \in Fds |-> NoFile] /\ childAt' = "exited"
  BY DEF FdopenFails, CallerReadsEnd, CallerCloses, CallerWaits, child
<1>5. SpawnTypeOK'
  <2>1. fds' \in [Fds -> Entry]
    <3>1. Std \in [Fds -> Entry] /\ Without(Std, {3, 4}) \in [Fds -> Entry]
      BY StdFds
    <3> QED  BY <1>3, <3>1
  <2>2. NoFile \in Entry
    BY DEF NoFile, Entry
  <2>3. childFds' \in [Fds -> Entry] /\ childAt' \in {"none", "dup", "runs", "exited"}
    BY <1>1, <1>4, <2>2 DEF SpawnTypeOK
  <2> QED  BY <1>1, <2>1, <2>3 DEF SpawnTypeOK
<1>6. CallerInv'
  BY <1>1, <1>3 DEF CallerInv
<1>7. ChildInv'
  <2>1. CASE childFds' = childFds /\ childAt' = childAt
    BY <1>1, <2>1, ChildStays
  <2>2. CASE childFds' = [r \in Fds |-> NoFile] /\ childAt' = "exited"
    BY <1>1, <2>2 DEF ChildInv, StreamsAsAsked
  <2> QED  BY <1>4, <2>1, <2>2
<1> QED  BY <1>5, <1>6, <1>7 DEF SpawnInv

LEMMA CallerReturnsStep ==
  ASSUME SpawnInv, CallerReturns
  PROVE  SpawnInv'
<1>1. /\ spawnAt = "spawned" /\ job = "run" /\ spawnAt' = "left"
      /\ UNCHANGED <<fds, job, aidescs, childDescs, parClose, childClose, stream,
                     childFds, childAt, childTodo, inPipe>>
      /\ SpawnTypeOK /\ ChildInv /\ CallerInv
  BY DEF CallerReturns, setUp, child, SpawnInv
<1>2. fds = Std
  <2>1. \A r \in Fds : fds[r] = Std[r]
    BY <1>1 DEF CallerInv
  <2>2. fds \in [Fds -> Entry]
    BY <1>1 DEF SpawnTypeOK
  <2>3. Std \in [Fds -> Entry]
    BY StdFds
  <2> QED  BY <2>1, <2>2, <2>3
<1>3. SpawnTypeOK'
  BY <1>1 DEF SpawnTypeOK
<1>4. CallerInv'
  BY <1>1, <1>2 DEF CallerInv
<1>5. ChildInv'
  BY <1>1, ChildStays
<1> QED  BY <1>3, <1>4, <1>5 DEF SpawnInv

LEMMA IxswaitStep ==
  ASSUME SpawnInv, Ixswait
  PROVE  SpawnInv'
<1>1. /\ spawnAt = "wait" /\ spawnAt' = "waited" /\ childAt' = "none"
      /\ UNCHANGED <<fds, job, aidescs, childDescs, parClose, childClose, stream,
                     childFds, childTodo, inPipe>>
      /\ SpawnTypeOK /\ ChildInv /\ CallerInv
  BY DEF Ixswait, setUp, SpawnInv
<1>2. SpawnTypeOK'
  BY <1>1 DEF SpawnTypeOK
<1>3. CallerInv'
  BY <1>1 DEF CallerInv
<1>4. ChildInv'
  BY <1>1 DEF ChildInv, StreamsAsAsked
<1> QED  BY <1>2, <1>3, <1>4 DEF SpawnInv

LEMMA SpawnDoneStep ==
  ASSUME SpawnInv, SpawnDone
  PROVE  SpawnInv'
<1>1. /\ spawnAt \in {"failed", "waited"} /\ spawnAt' = "done"
      /\ fds' = IF spawnAt = "failed" THEN FilesClosed ELSE fds
      /\ UNCHANGED <<job, aidescs, childDescs, parClose, childClose, stream,
                     childFds, childAt, childTodo, inPipe>>
      /\ SpawnTypeOK /\ ChildInv /\ CallerInv
  BY DEF SpawnDone, setUp, child, SpawnInv
<1>2. fds' = IF job = "execute" THEN Without(Std, {3, 4}) ELSE Std
  BY <1>1 DEF CallerInv, FilesClosed
<1>3. SpawnTypeOK'
  <2>1. fds' \in [Fds -> Entry]
    <3>1. Std \in [Fds -> Entry] /\ Without(Std, {3, 4}) \in [Fds -> Entry]
      BY StdFds
    <3> QED  BY <1>2, <3>1
  <2> QED  BY <1>1, <2>1 DEF SpawnTypeOK
<1>4. CallerInv'
  BY <1>1, <1>2 DEF CallerInv
<1>5. ChildInv'
  <2>1. childAt = "none"
    BY <1>1 DEF ChildInv
  <2> QED  BY <1>1, <2>1, ChildStays
<1> QED  BY <1>3, <1>4, <1>5 DEF SpawnInv

LEMMA SpawnInvStep == SpawnInv /\ [SpawnNext]_spawnVars => SpawnInv'
  <1> SUFFICES ASSUME SpawnInv, [SpawnNext]_spawnVars  PROVE  SpawnInv'
    OBVIOUS
  <1>1. CASE SpawnStart
    BY <1>1, SpawnStartStep
  <1>2. CASE GiveFd
    BY <1>2, GiveFdStep
  <1>3. CASE GiveNull
    BY <1>3, GiveNullStep
  <1>4. CASE GivePipe
    BY <1>4, GivePipeStep
  <1>5. CASE SetUpFails \/ ForkFails
    BY <1>5, SetUpFailsStep
  <1>6. CASE SpawnFails
    BY <1>6, SpawnFailsStep
  <1>7. CASE Forks
    BY <1>7, ForksStep
  <1>8. CASE ChildDup
    BY <1>8, ChildDupStep
  <1>9. CASE ChildExec
    BY <1>9, ChildExecStep
  <1>10. CASE ChildWrites \/ ChildReads \/ CallerReads \/ CallerWrites
    BY <1>10, PipeStep
  <1>11. CASE ChildEnds
    BY <1>11, ChildEndsStep
  <1>12. CASE FdopenFails \/ CallerReadsEnd \/ CallerCloses \/ CallerWaits
    BY <1>12, CallerClosesStep
  <1>13. CASE CallerReturns
    BY <1>13, CallerReturnsStep
  <1>14. CASE Ixswait
    BY <1>14, IxswaitStep
  <1>15. CASE SpawnDone
    BY <1>15, SpawnDoneStep
  <1>16. CASE UNCHANGED spawnVars
    <2>1. UNCHANGED <<fds, job, aidescs, childDescs, parClose, childClose, stream,
                      spawnAt, childFds, childAt, childTodo, inPipe>>
      BY <1>16 DEF spawnVars
    <2>2. SpawnTypeOK'
      BY <2>1 DEF SpawnInv, SpawnTypeOK
    <2>3. CallerInv'
      BY <2>1, ZenonT(30) DEF SpawnInv, CallerInv, OpenedInOrder, MadeFds, NullFds, SetUpAs, ToBe,
                  IsAsked, OwnAnd, ReadSide, WriteSide
    <2>4. ChildInv'
      BY <2>1, ChildStays DEF SpawnInv
    <2> QED  BY <2>2, <2>3, <2>4 DEF SpawnInv
  <1> QED  BY <1>1, <1>2, <1>3, <1>4, <1>5, <1>6, <1>7, <1>8, <1>9, <1>10, <1>11, <1>12,
              <1>13, <1>14, <1>15, <1>16 DEF SpawnNext, CallerStep, ChildStep

(* At every moment the descriptors of caller and child are what the streams *)
(* that have been set up, and the steps that are still to come, ask for     *)
(* (ixsspawn, espopen, ixswait).                                            *)
THEOREM SpawnInvariant == SpawnSpec => []SpawnInv
  BY SpawnInvInit, SpawnInvStep, PTL DEF SpawnSpec

(* The variables of the two processes keep their types (ixsspawn).          *)
THEOREM SpawnTypeCorrect == SpawnSpec => []SpawnTypeOK
  <1>1. SpawnInv => SpawnTypeOK
    BY DEF SpawnInv
  <1> QED  BY <1>1, SpawnInvariant, PTL

(* A program runs with the descriptors that were asked for it and no others; *)
(* its caller keeps those it had, whatever fails; and a caller that is done  *)
(* has waited for its child (ixsspawn, espopen, fsysdep_execute, ixswait).   *)
THEOREM SpawnIsSafe == SpawnSpec => []SpawnSafe
  <1>1. SpawnInv => NoFdLeft
    BY DEF SpawnInv, CallerInv, NoFdLeft, Mine
  <1>2. SpawnInv => ChildrenWaitedFor
    BY DEF SpawnInv, ChildInv, ChildrenWaitedFor
  <1>3. SpawnInv => SpawnSafe
    BY <1>1, <1>2 DEF SpawnInv, ChildInv, SpawnSafe
  <1> QED  BY <1>3, SpawnInvariant, PTL

-----------------------------------------------------------------------------
(* The components of MCPorts together *)

portsVars == <<part, ringVars, takeVars, connVars, selectVars, spawnVars>>

(* A step of the components is one of one of them, and leaves the others.   *)
LEMMA PortsStepIsOne ==
  [PortsNext]_portsVars =>
    /\ [RingNext]_ringVars /\ [TakeNext]_takeVars /\ [ConnNext]_connVars
    /\ [SelectNext]_selectVars /\ [SpawnNext]_spawnVars
<1> SUFFICES ASSUME [PortsNext]_portsVars
             PROVE  /\ [RingNext]_ringVars /\ [TakeNext]_takeVars /\ [ConnNext]_connVars
                    /\ [SelectNext]_selectVars /\ [SpawnNext]_spawnVars
  OBVIOUS
<1>1. CASE ShowRing
  BY <1>1 DEF ShowRing
<1>2. CASE ShowTake
  BY <1>2 DEF ShowTake
<1>3. CASE ShowConn
  BY <1>3 DEF ShowConn
<1>4. CASE ShowPort
  BY <1>4 DEF ShowPort
<1>5. CASE ShowSpawn
  BY <1>5 DEF ShowSpawn
<1>6. CASE UNCHANGED portsVars
  BY <1>6 DEF portsVars
<1> QED  BY <1>1, <1>2, <1>3, <1>4, <1>5, <1>6 DEF PortsNext

(* What is proved of a component so holds of its behaviours in the run.     *)
LEMMA PortsShowEach ==
  PortsSpec => /\ RingSpec /\ TakeSpec /\ SelectSpec /\ SpawnSpec
               /\ ConnInit /\ [][ConnNext]_connVars
<1>1. PortsInit => RingInit /\ TakeInit /\ ConnInit /\ SelectInit /\ SpawnInit
  BY DEF PortsInit
<1>2. PortsSpec => PortsInit /\ [][PortsNext]_portsVars
  BY DEF PortsSpec, portsVars
<1> QED  BY <1>1, <1>2, PortsStepIsOne, PTL DEF RingSpec, TakeSpec, SelectSpec, SpawnSpec

(* The receive buffer, ~take, the connection layer, the port and the        *)
(* programs that are run keep the types of their variables, whichever of    *)
(* them goes on.                                                            *)
THEOREM PortsTypesCorrect ==
  ASSUME TakeProper
  PROVE  PortsSpec => []PortsTypeOK
<1>1. IOInv => ConnTypeOK
  BY DEF IOInv
<1>2. ConnInit /\ [][ConnNext]_connVars => []ConnTypeOK
  BY <1>1, IOInitially, IOKeepsInv, PTL
<1>3. TakeSpec => []TakeTypeOK
  BY TakeTypeCorrect
<1>4. RingTypeOK /\ TakeTypeOK /\ ConnTypeOK /\ PortTypeOK /\ SpawnTypeOK => PortsTypeOK
  BY DEF PortsTypeOK
<1> QED  BY <1>2, <1>3, <1>4, PortsShowEach, TypeCorrect, PortTypeCorrect, SpawnTypeCorrect, PTL
=============================================================================
