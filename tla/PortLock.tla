------------------------------- MODULE PortLock -------------------------------
(***************************************************************************)
(* Lock files: fsdo_lock and fsdo_unlock of unix/lock.c, called by every   *)
(* process that wants a serial port (unix/serial.c) or any other resource  *)
(* with a lock file.                                                       *)
(*                                                                         *)
(* A process writes its pid into a temporary file and links that file to   *)
(* the name of the lock.  If the name exists it reads the pid in it; if    *)
(* that process is gone the lock is stale, and is broken by writing one's  *)
(* own pid over the old one, sleeping for five seconds and looking whether *)
(* the pid is still there.                                                 *)
(*                                                                         *)
(* Each action is one system call, or a system call with the calls before  *)
(* it that no other process can see.  A process may die before any of      *)
(* them, leaving its files behind.  Files are inodes: the temporary file   *)
(* and the lock may be the same one, and a descriptor keeps the inode that *)
(* was opened after the name is gone.                                      *)
(***************************************************************************)
EXTENDS Naturals, FiniteSets

CONSTANTS
  Procs,          \* the processes, each known by its pid
  Inodes,         \* the inodes of the file system
  NoFile,         \* no inode: a name that does not exist, a closed descriptor
  Empty,          \* what an empty file holds
  MaxCalls,       \* bound: how often each process calls fsdo_lock
  ReadOnly,       \* processes that may find the lock file unwritable
  Crashes,        \* TRUE: processes die at any point, not only between calls
  IOErrors,       \* TRUE: system calls may fail
  RetriedLinks,   \* TRUE: a link over NFS may be made and reported as failed
  PidsReused,     \* TRUE: a pid may be given to a new process
  TimelyWrite,    \* TRUE: whoever found a lock stale acts within 5 seconds
  Signals         \* TRUE: a signal may be caught while a process sleeps

ASSUME NoFileAssumption == NoFile \notin Inodes
ASSUME EmptyAssumption == Empty \notin Procs
ASSUME MaxCallsAssumption == MaxCalls \in Nat
ASSUME ReadOnlyAssumption == ReadOnly \subseteq Procs
ASSUME OptionsAssumption ==
  {Crashes, IOErrors, RetriedLinks, PidsReused, TimelyWrite, Signals}
    \subseteq BOOLEAN

VARIABLES
  path,      \* the inode that zpath, the lock file, names
  temp,      \* the inode that each process's ztempfile names
  fd,        \* the inode behind each process's descriptor o
  content,   \* the pid each inode holds
  seen,      \* ipid: what each process read from the lock file
  readonly,  \* the processes whose freadonly is set
  pc,        \* where in fsdo_lock each process is
  calls      \* how many calls each process has begun

vars == <<path, temp, fd, content, seen, readonly, pc, calls>>

Files == Inodes \cup {NoFile}
Pids == Procs \cup {Empty}

Steps == {"writing", "linking", "opening", "reading", "killing", "breaking",
          "sleeping", "checking", "won", "lost"}

Alive(pid) == pid \in Procs /\ pc[pid] # "dead"

\* A call that will return TRUE or has; the caller has the lock.
Has(p) == pc[p] \in {"won", "held"}

InCall(p) == pc[p] \in Steps

\* Inodes without a name and without a descriptor can be used again.
FreeInodes ==
  {i \in Inodes : i # path /\ \A p \in Procs : temp[p] # i /\ fd[p] # i}

-----------------------------------------------------------------------------
(* Some processes may be dead already, and one of them, or a system crash,  *)
(* may have left a lock file.                                               *)
Init ==
  /\ path \in Files
  /\ pc \in [Procs -> {"idle", "dead"}]
  /\ content \in {[i \in Inodes |-> c] : c \in Pids}
  /\ path # NoFile => \A i \in Inodes : ~ Alive(content[i])
  /\ path = NoFile => \A i \in Inodes : content[i] = Empty
  /\ temp = [p \in Procs |-> NoFile]
  /\ fd = [p \in Procs |-> NoFile]
  /\ seen = [p \in Procs |-> Empty]
  /\ readonly = {}
  /\ calls = [p \in Procs |-> 0]

Goto(p, step) == pc' = [pc EXCEPT ![p] = step]
Close(p) == fd' = [fd EXCEPT ![p] = NoFile]

(* creat: a new file, or the one left under this name by a dead process    *)
(* with the same pid, now empty.                                           *)
Create(p) ==
  /\ pc[p] = "idle"
  /\ calls[p] < MaxCalls
  /\ \E i \in IF temp[p] = NoFile THEN FreeInodes ELSE {temp[p]} :
       /\ temp' = [temp EXCEPT ![p] = i]
       /\ content' = [content EXCEPT ![i] = Empty]
  /\ calls' = [calls EXCEPT ![p] = @ + 1]
  /\ Goto(p, "writing")
  /\ UNCHANGED <<path, fd, seen, readonly>>

(* The pid is written before anyone can know of the file.                  *)
WritePid(p) ==
  /\ pc[p] = "writing"
  /\ content' = [content EXCEPT ![temp[p]] = p]
  /\ Goto(p, "linking")
  /\ UNCHANGED <<path, temp, fd, seen, readonly, calls>>

(* link makes the lock, or reports EEXIST.  Over NFS it may do both.       *)
Link(p) ==
  /\ pc[p] = "linking"
  /\ \/ /\ path = NoFile
        /\ path' = temp[p]
        /\ \/ Goto(p, "won")
           \/ RetriedLinks /\ Goto(p, "opening")
     \/ /\ path # NoFile
        /\ Goto(p, "opening")
        /\ UNCHANGED path
  /\ UNCHANGED <<temp, fd, content, seen, readonly, calls>>

(* open, for reading and writing or, if that is not permitted, for reading. *)
(* If the lock has been removed since the link, the link is tried again.    *)
Open(p) ==
  /\ pc[p] = "opening"
  /\ \/ path = NoFile /\ Goto(p, "linking") /\ UNCHANGED <<fd, readonly>>
     \/ /\ path # NoFile
        /\ fd' = [fd EXCEPT ![p] = path]
        /\ \/ readonly' = readonly \ {p}
           \/ p \in ReadOnly /\ readonly' = readonly \cup {p}
        /\ Goto(p, "reading")
  /\ UNCHANGED <<path, temp, content, seen, calls>>

(* Variant: no case for our own pid. *)
ReadIgnoresOwn(p) ==
  /\ pc[p] = "reading"
  /\ seen' = [seen EXCEPT ![p] = content[fd[p]]]
  /\ Goto(p, "killing")
  /\ UNCHANGED <<path, temp, fd, content, readonly, calls>>

(* read: our own pid means that the link was made after all.               *)
Read(p) ==
  /\ pc[p] = "reading"
  /\ seen' = [seen EXCEPT ![p] = content[fd[p]]]
  /\ \/ content[fd[p]] = p /\ Goto(p, "won") /\ Close(p)
     \/ content[fd[p]] # p /\ Goto(p, "killing") /\ UNCHANGED fd
  /\ UNCHANGED <<path, temp, content, readonly, calls>>

(* kill (ipid, 0): a live process keeps its lock.  An empty lock file is   *)
(* taken to be stale.                                                      *)
Kill(p) ==
  /\ pc[p] = "killing"
  /\ \/ Alive(seen[p]) /\ Goto(p, "lost") /\ Close(p)
     \/ ~ Alive(seen[p]) /\ Goto(p, "breaking") /\ UNCHANGED fd
  /\ UNCHANGED <<path, temp, content, seen, readonly, calls>>

(* A stale lock that cannot be written is removed, whichever file the name *)
(* stands for by now.                                                      *)
RemoveStale(p) ==
  /\ pc[p] = "breaking"
  /\ p \in readonly
  /\ \/ path # NoFile /\ path' = NoFile /\ Goto(p, "linking")
     \/ path = NoFile /\ Goto(p, "lost") /\ UNCHANGED path
  /\ Close(p)
  /\ UNCHANGED <<temp, content, seen, readonly, calls>>

(* Variant: the pid is appended, without a seek to the start of the file. *)
OverwriteAppends(p) ==
  /\ pc[p] = "breaking"
  /\ p \notin readonly
  /\ Goto(p, "sleeping")
  /\ UNCHANGED <<path, temp, fd, content, seen, readonly, calls>>

(* Otherwise our pid is written over the old one, at the start of the file. *)
Overwrite(p) ==
  /\ pc[p] = "breaking"
  /\ p \notin readonly
  /\ content' = [content EXCEPT ![fd[p]] = p]
  /\ Goto(p, "sleeping")
  /\ UNCHANGED <<path, temp, fd, seen, readonly, calls>>

(* Those who read the file before p wrote it and have not acted on it: if  *)
(* p's pid is still there nobody has written since, and whoever read       *)
(* something else read it earlier.                                         *)
Undecided(p) ==
  {q \in Procs \ {p} : /\ fd[q] = fd[p]
                       /\ pc[q] \in {"killing", "breaking"}
                       /\ seen[q] # p}

(* The sleep gives them the time to act; a signal that is caught ends it   *)
(* early.                                                                  *)
FiveSeconds == TimelyWrite /\ ~ Signals

(* Variant: the pid is not looked at after the sleep. *)
WakeTrusts(p) ==
  /\ pc[p] = "sleeping"
  /\ FiveSeconds => Undecided(p) = {}
  /\ Goto(p, "checking")
  /\ UNCHANGED <<path, temp, fd, content, seen, readonly, calls>>

(* After the sleep: is our pid still there?                                *)
Wake(p) ==
  /\ pc[p] = "sleeping"
  /\ \/ /\ content[fd[p]] = p
        /\ FiveSeconds => Undecided(p) = {}
        /\ Goto(p, "checking")
        /\ UNCHANGED fd
     \/ content[fd[p]] # p /\ Goto(p, "linking") /\ Close(p)
  /\ UNCHANGED <<path, temp, content, seen, readonly, calls>>

(* Variant: without the final stat. *)
CheckTrusts(p) ==
  /\ pc[p] = "checking"
  /\ Goto(p, "won")
  /\ Close(p)
  /\ UNCHANGED <<path, temp, content, seen, readonly, calls>>

(* stat and fstat: is the file we wrote still the lock file?               *)
Check(p) ==
  /\ pc[p] = "checking"
  /\ \/ path = fd[p] /\ Goto(p, "won")
     \/ path # fd[p] /\ Goto(p, "linking")
  /\ Close(p)
  /\ UNCHANGED <<path, temp, content, seen, readonly, calls>>

(* Any of these calls may fail, and fsdo_lock gives up.                    *)
CallFails(p) ==
  /\ IOErrors
  /\ pc[p] \in Steps \ {"killing", "won", "lost"}
  /\ Goto(p, "lost")
  /\ Close(p)
  /\ UNCHANGED <<path, temp, content, seen, readonly, calls>>

(* The temporary file is removed and fsdo_lock returns.                    *)
Finish(p) ==
  /\ \/ pc[p] = "won" /\ Goto(p, "held")
     \/ pc[p] = "lost" /\ Goto(p, "idle")
  /\ temp' = [temp EXCEPT ![p] = NoFile]
  /\ UNCHANGED <<path, fd, content, seen, readonly, calls>>

(* fsdo_unlock removes the lock file without a look at what is in it.      *)
Unlock(p) ==
  /\ pc[p] = "held"
  /\ path' = NoFile
  /\ Goto(p, "idle")
  /\ UNCHANGED <<temp, fd, content, seen, readonly, calls>>

(* A process exits between calls, or dies anywhere.  Its descriptors are   *)
(* closed; its files stay.                                                 *)
Die(p) ==
  /\ pc[p] # "dead"
  /\ Crashes \/ pc[p] = "idle"
  /\ Goto(p, "dead")
  /\ Close(p)
  /\ UNCHANGED <<path, temp, content, seen, readonly, calls>>

(* The pid of a dead process is given to a new one.                        *)
Start(p) ==
  /\ PidsReused
  /\ pc[p] = "dead"
  /\ Goto(p, "idle")
  /\ UNCHANGED <<path, temp, fd, content, seen, readonly, calls>>

Step(p) ==
  \/ WritePid(p) \/ Link(p) \/ Open(p) \/ Read(p) \/ Kill(p)
  \/ RemoveStale(p) \/ Overwrite(p) \/ Wake(p) \/ Check(p)
  \/ Finish(p)

Environment(p) ==
  Create(p) \/ CallFails(p) \/ Unlock(p) \/ Die(p) \/ Start(p)

Next == \E p \in Procs : Step(p) \/ Environment(p)

Spec == Init /\ [][Next]_vars

(* A process inside fsdo_lock is never blocked but by its own sleep, and   *)
(* runs on until it returns.                                               *)
FairSpec == Spec /\ \A p \in Procs : WF_vars(Step(p))

-----------------------------------------------------------------------------
(* Types, and that fsdo_lock gives back what it opens: outside of a call a  *)
(* live process that never shared its pid has neither descriptor nor        *)
(* temporary file, and its descriptor is open where it is used.             *)
TypeOK ==
  /\ path \in Files
  /\ temp \in [Procs -> Files]
  /\ fd \in [Procs -> Files]
  /\ content \in [Inodes -> Pids]
  /\ seen \in [Procs -> Pids]
  /\ readonly \in SUBSET Procs
  /\ pc \in [Procs -> Steps \cup {"idle", "held", "dead"}]
  /\ calls \in [Procs -> 0..MaxCalls]
  /\ \A p \in Procs :
       /\ fd[p] # NoFile <=> pc[p] \in {"reading", "killing", "breaking",
                                         "sleeping", "checking"}
       /\ InCall(p) => temp[p] # NoFile
       /\ pc[p] \in {"idle", "held"} /\ ~ PidsReused => temp[p] = NoFile

(* Two live processes never both think they have the lock: not when both   *)
(* found the same stale lock, not when one of them died half way through   *)
(* breaking it, not when the lock was released and taken again between the *)
(* read and the kill.  (lock.c:388-408; a write that comes too late, which *)
(* the comment excludes, is excluded by TimelyWrite, and a lock file that  *)
(* cannot be written by an empty ReadOnly.)                                *)
MutualExclusion == \A p, q \in Procs : Has(p) /\ Has(q) => p = q

(* While a process has the lock, the lock file is there and holds its pid, *)
(* so that others fail, and so that fsdo_unlock, which does not look,      *)
(* removes its own lock file.                                              *)
HolderOwnsFile ==
  \A p \in Procs : Has(p) => path # NoFile /\ content[path] = p

(* A call that fails leaves no lock file with the pid of the caller: nobody *)
(* would break that lock while the caller lives.                            *)
NoOrphanLock ==
  \A p \in Procs : pc[p] = "idle" /\ path # NoFile => content[path] # p

(* Nobody can see the lock file before the pid is in it (lock.c:127-130).  *)
NotSeenUnfinished ==
  \A p \in Procs : pc[p] = "writing" => path # temp[p]

(* Each call of fsdo_lock returns, unless the process dies: whatever the   *)
(* others do, the loop around link is not run for ever.                    *)
CallsReturn == \A p \in Procs : InCall(p) ~> ~ InCall(p)

(* If nobody dies, a lock whose holder is gone does not stay: when some    *)
(* process tries to take it, some process gets it.                         *)
Stale == path # NoFile /\ ~ Alive(content[path])
StaleLockBroken ==
  Stale /\ (\E p \in Procs : InCall(p)) ~> \E p \in Procs : Has(p)
=============================================================================
