------------------------------- MODULE Uuxqt --------------------------------
(***************************************************************************)
(* The locks, directories and files of uuxqt: src/unix/xqtsub.c and the    *)
(* scan for execute files of src/unix/xqtfil.c, called by several          *)
(* processes in the order that src/system.h gives.                         *)
(*                                                                         *)
(* A lock is that of fsdo_lock, whose steps are PortLock's: here it is     *)
(* taken at once, if nobody has it or the one who had it is dead.  An      *)
(* execute file is known by its name; a directory by what is in it.        *)
(***************************************************************************)
EXTENDS Integers, FiniteSets, TLC

CONSTANTS
  Uuxqts,         \* the processes
  XqtFiles,       \* the names of execute files
  MaxUuxqts,      \* cmaxuuxqts
  XqtCrashes,     \* bound on the processes that die
  Orphans         \* the program of a uuxqt that died may go on

Nobody == "nobody"
Dead   == "dead"

ASSUME UuxqtAssumption ==
  /\ MaxUuxqts \in Nat \ {0} /\ XqtCrashes \in Nat /\ Orphans \in BOOLEAN
  /\ Nobody \notin Uuxqts /\ Dead \notin Uuxqts

VARIABLES
  xqtLocks,       \* who has each lock
  xqtSpool,       \* the execute files that are there
  xqtDirs,        \* what is in each execution directory
  uuxqt,          \* each process: what it is at, and with what
  orphans,        \* where programs run whose uuxqt has died
  finished,       \* history: the execute files that were done with
  nXqtCrashes

xqtVars == <<xqtLocks, xqtSpool, xqtDirs, uuxqt, orphans, finished, nXqtCrashes>>

Slots == 0..MaxUuxqts - 1
NoXqt == "noFile"
AnyCommand == "any"
XqtCommands == {AnyCommand, "rmail"}   \* of a command nine letters count

SlotLock(i)    == <<"LCK.XQT", i>>
CommandLock(c) == <<"LXQ", c>>
FileLock(f)    == <<"L", f>>
XqtLockNames ==
  {SlotLock(i) : i \in Slots} \cup {CommandLock("rmail")} \cup {FileLock(f) : f \in XqtFiles}

Resting == [at |-> "none", i |-> 0, cmd |-> AnyCommand, file |-> NoXqt, toRead |-> {}]

Ats == {"none", "slots", "command", "locked", "scan", "found", "file", "dir", "executing",
        "unlockDir", "unlockFile", "scanned", "unlockCommand"}

UuxqtStates ==
  [at : Ats, i : 0..MaxUuxqts, cmd : XqtCommands, file : XqtFiles \cup {NoXqt},
   toRead : SUBSET XqtFiles]

XqtTypeOK ==
  /\ xqtLocks \in [XqtLockNames -> Uuxqts \cup {Nobody, Dead}]
  /\ xqtSpool \subseteq XqtFiles
  /\ xqtDirs \in [Slots -> SUBSET XqtFiles]
  /\ uuxqt \in [Uuxqts -> UuxqtStates]
  /\ orphans \subseteq Slots
  /\ finished \subseteq XqtFiles
  /\ nXqtCrashes \in 0..XqtCrashes

XqtInit ==
  /\ xqtLocks = [l \in XqtLockNames |-> Nobody]
  /\ xqtSpool = {}
  /\ xqtDirs = [i \in Slots |-> {}]
  /\ uuxqt = [p \in Uuxqts |-> Resting]
  /\ orphans = {}
  /\ finished = {}
  /\ nXqtCrashes = 0

AtXqt(p, at) == uuxqt[p].at = at
XqtGoes(p, at) == uuxqt' = [uuxqt EXCEPT ![p].at = at]
Free(l) == xqtLocks[l] \in {Nobody, Dead}
Takes(p, l) == xqtLocks' = [xqtLocks EXCEPT ![l] = p]
Gives(l) == xqtLocks' = [xqtLocks EXCEPT ![l] = Nobody]
MySlot(p) == SlotLock(uuxqt[p].i)

(* An execute file comes, with a name that none has had. *)
XqtComes(f) ==
  /\ f \notin xqtSpool \cup finished
  /\ xqtSpool' = xqtSpool \cup {f}
  /\ UNCHANGED <<xqtLocks, xqtDirs, uuxqt, orphans, finished, nXqtCrashes>>

-----------------------------------------------------------------------------
(* ixsysdep_lock_uuxqt and fsysdep_unlock_uuxqt *)

LockUuxqt(p, cmd) ==
  /\ AtXqt(p, "none")
  /\ uuxqt' = [uuxqt EXCEPT ![p] = [Resting EXCEPT !.at = "slots", !.cmd = cmd]]
  /\ UNCHANGED <<xqtLocks, xqtSpool, xqtDirs, orphans, finished, nXqtCrashes>>

TrySlot(p) ==
  /\ AtXqt(p, "slots") /\ uuxqt[p].i < MaxUuxqts
  /\ IF Free(MySlot(p))
     THEN /\ Takes(p, MySlot(p))
          /\ XqtGoes(p, IF uuxqt[p].cmd = AnyCommand THEN "locked" ELSE "command")
     ELSE /\ uuxqt' = [uuxqt EXCEPT ![p].i = @ + 1]
          /\ UNCHANGED xqtLocks
  /\ UNCHANGED <<xqtSpool, xqtDirs, orphans, finished, nXqtCrashes>>

NoSlot(p) ==
  /\ AtXqt(p, "slots") /\ uuxqt[p].i = MaxUuxqts
  /\ uuxqt' = [uuxqt EXCEPT ![p] = Resting]
  /\ UNCHANGED <<xqtLocks, xqtSpool, xqtDirs, orphans, finished, nXqtCrashes>>

LockCommand(p) ==
  /\ AtXqt(p, "command")
  /\ IF Free(CommandLock(uuxqt[p].cmd))
     THEN Takes(p, CommandLock(uuxqt[p].cmd)) /\ XqtGoes(p, "locked")
     ELSE Gives(MySlot(p)) /\ uuxqt' = [uuxqt EXCEPT ![p] = Resting]
  /\ UNCHANGED <<xqtSpool, xqtDirs, orphans, finished, nXqtCrashes>>

UnlockSlot(p) ==
  /\ AtXqt(p, "scanned")
  /\ Gives(MySlot(p))
  /\ uuxqt' = [uuxqt EXCEPT ![p] = IF @.cmd = AnyCommand THEN Resting
                                   ELSE [@ EXCEPT !.at = "unlockCommand"]]
  /\ UNCHANGED <<xqtSpool, xqtDirs, orphans, finished, nXqtCrashes>>

UnlockCommand(p) ==
  /\ AtXqt(p, "unlockCommand")
  /\ Gives(CommandLock(uuxqt[p].cmd))
  /\ uuxqt' = [uuxqt EXCEPT ![p] = Resting]
  /\ UNCHANGED <<xqtSpool, xqtDirs, orphans, finished, nXqtCrashes>>

-----------------------------------------------------------------------------
(* fsysdep_get_xqt_init, zsysdep_get_xqt and usysdep_get_xqt_free          *)

GetXqtInit(p) ==
  /\ AtXqt(p, "locked")
  /\ uuxqt' = [uuxqt EXCEPT ![p].at = "scan", ![p].toRead = xqtSpool]
  /\ UNCHANGED <<xqtLocks, xqtSpool, xqtDirs, orphans, finished, nXqtCrashes>>

(* The file may be gone by now. *)
GetXqt(p, f) ==
  /\ AtXqt(p, "scan") /\ f \in uuxqt[p].toRead
  /\ uuxqt' = [uuxqt EXCEPT ![p].at = "found", ![p].file = f, ![p].toRead = @ \ {f}]
  /\ UNCHANGED <<xqtLocks, xqtSpool, xqtDirs, orphans, finished, nXqtCrashes>>

GetXqtEnd(p) ==
  /\ AtXqt(p, "scan") /\ uuxqt[p].toRead = {}
  /\ XqtGoes(p, "scanned")
  /\ UNCHANGED <<xqtLocks, xqtSpool, xqtDirs, orphans, finished, nXqtCrashes>>

-----------------------------------------------------------------------------
(* An execute file: fsysdep_lock_uuxqt_file, fsysdep_lock_uuxqt_dir,       *)
(* fsysdep_copy_uuxqt_files, fsysdep_execute, fsysdep_unlock_uuxqt_dir,    *)
(* fsysdep_unlock_uuxqt_file                                               *)

LockUuxqtFile(p) ==
  /\ AtXqt(p, "found")
  /\ IF Free(FileLock(uuxqt[p].file))
     THEN Takes(p, FileLock(uuxqt[p].file)) /\ XqtGoes(p, "file")
     ELSE XqtGoes(p, "scan") /\ UNCHANGED xqtLocks
  /\ UNCHANGED <<xqtSpool, xqtDirs, orphans, finished, nXqtCrashes>>

(* Variant: the directory is not emptied. *)
LockUuxqtDirFull(p) ==
  /\ AtXqt(p, "file") /\ uuxqt[p].file \in xqtSpool
  /\ XqtGoes(p, "dir")
  /\ UNCHANGED <<xqtLocks, xqtSpool, xqtDirs, orphans, finished, nXqtCrashes>>

(* The file was opened under its lock. *)
LockUuxqtDir(p) ==
  /\ AtXqt(p, "file") /\ uuxqt[p].file \in xqtSpool
  /\ xqtDirs' = [xqtDirs EXCEPT ![uuxqt[p].i] = {}]
  /\ XqtGoes(p, "dir")
  /\ UNCHANGED <<xqtLocks, xqtSpool, orphans, finished, nXqtCrashes>>

(* The file is gone, or there can be no directory. *)
GivesUpFile(p) ==
  /\ AtXqt(p, "file")
  /\ XqtGoes(p, "unlockFile")
  /\ UNCHANGED <<xqtLocks, xqtSpool, xqtDirs, orphans, finished, nXqtCrashes>>

(* All files are copied, or some; without them nothing is executed. *)
CopyUuxqtFiles(p) ==
  /\ AtXqt(p, "dir")
  /\ xqtDirs' = [xqtDirs EXCEPT ![uuxqt[p].i] = @ \cup {uuxqt[p].file}]
  /\ XqtGoes(p, "executing") \/ XqtGoes(p, "unlockDir")
  /\ UNCHANGED <<xqtLocks, xqtSpool, orphans, finished, nXqtCrashes>>

(* The execute file is removed, or left for a later try. *)
Executed(p) ==
  /\ AtXqt(p, "executing")
  /\ XqtGoes(p, "unlockDir")
  /\ \/ /\ xqtSpool' = xqtSpool \ {uuxqt[p].file}
        /\ finished' = finished \cup {uuxqt[p].file}
     \/ UNCHANGED <<xqtSpool, finished>>
  /\ UNCHANGED <<xqtLocks, xqtDirs, orphans, nXqtCrashes>>

UnlockUuxqtDir(p) ==
  /\ AtXqt(p, "unlockDir")
  /\ xqtDirs' = [xqtDirs EXCEPT ![uuxqt[p].i] = {}]
  /\ XqtGoes(p, "unlockFile")
  /\ UNCHANGED <<xqtLocks, xqtSpool, orphans, finished, nXqtCrashes>>

UnlockUuxqtFile(p) ==
  /\ AtXqt(p, "unlockFile")
  /\ Gives(FileLock(uuxqt[p].file))
  /\ uuxqt' = [uuxqt EXCEPT ![p].at = "scan", ![p].file = NoXqt]
  /\ UNCHANGED <<xqtSpool, xqtDirs, orphans, finished, nXqtCrashes>>

(* A uuxqt dies, and leaves its locks and its files behind. *)
UuxqtDies(p) ==
  /\ ~AtXqt(p, "none") /\ nXqtCrashes < XqtCrashes
  /\ nXqtCrashes' = nXqtCrashes + 1
  /\ xqtLocks' = [l \in XqtLockNames |-> IF xqtLocks[l] = p THEN Dead ELSE xqtLocks[l]]
  /\ uuxqt' = [uuxqt EXCEPT ![p] = Resting]
  /\ orphans' = IF Orphans /\ AtXqt(p, "executing") THEN orphans \cup {uuxqt[p].i}
                ELSE orphans
  /\ UNCHANGED <<xqtSpool, xqtDirs, finished>>

XqtStep(p) ==
  \/ \E cmd \in XqtCommands : LockUuxqt(p, cmd)
  \/ TrySlot(p) \/ NoSlot(p) \/ LockCommand(p) \/ UnlockSlot(p) \/ UnlockCommand(p)
  \/ GetXqtInit(p) \/ GetXqtEnd(p) \/ \E f \in XqtFiles : GetXqt(p, f)
  \/ LockUuxqtFile(p) \/ LockUuxqtDir(p) \/ GivesUpFile(p) \/ CopyUuxqtFiles(p)
  \/ Executed(p) \/ UnlockUuxqtDir(p) \/ UnlockUuxqtFile(p) \/ UuxqtDies(p)

XqtNext == (\E p \in Uuxqts : XqtStep(p)) \/ \E f \in XqtFiles : XqtComes(f)

XqtSpec == XqtInit /\ [][XqtNext]_xqtVars

-----------------------------------------------------------------------------
(* Properties *)

Holding(p) == {l \in XqtLockNames : xqtLocks[l] = p}
Executing(p) == AtXqt(p, "executing")

(* A program runs in a directory of its own, with the files of its command *)
(* and no others, whatever those before it have left there                 *)
(* (fsysdep_lock_uuxqt_dir, "it is empty").                                *)
DirsApart ==
  \A p \in Uuxqts : Executing(p) =>
    /\ xqtDirs[uuxqt[p].i] = {uuxqt[p].file}
    /\ uuxqt[p].i \notin orphans
    /\ \A q \in Uuxqts \ {p} : ~(Executing(q) /\ uuxqt[q].i = uuxqt[p].i)

(* An execute file is executed by one uuxqt at a time, and never again     *)
(* once it is done, though several have found it in the directory          *)
(* (fsysdep_lock_uuxqt_file).                                              *)
ExecutedByOne ==
  \A p \in Uuxqts : Executing(p) =>
    /\ uuxqt[p].file \notin finished
    /\ \A q \in Uuxqts \ {p} : ~(Executing(q) /\ uuxqt[q].file = uuxqt[p].file)

(* A uuxqt that gave up, or is done, holds no place, no command and no     *)
(* file; the one that locked a command is the only one that works for it   *)
(* (ixsysdep_lock_uuxqt).                                                  *)
XqtLocksReturned ==
  \A p \in Uuxqts :
    /\ AtXqt(p, "none") => Holding(p) = {}
    /\ AtXqt(p, "scan") =>
         /\ \A f \in XqtFiles : FileLock(f) \notin Holding(p)
         /\ uuxqt[p].cmd # AnyCommand =>
              \A q \in Uuxqts \ {p} : ~(AtXqt(q, "scan") /\ uuxqt[q].cmd = uuxqt[p].cmd)

(* No two of the uuxqts that run have a directory, an execute file or a    *)
(* command that is locked in common, and they leave none behind.           *)
UuxqtsApart == DirsApart /\ ExecutedByOne /\ XqtLocksReturned
=============================================================================
