------------------------------- MODULE Spawn --------------------------------
(***************************************************************************)
(* Other programs: ixsspawn, espopen, ixswait, fsysdep_mail, fsysdep_run   *)
(* and fsysdep_execute of src/unix, with the descriptors they open, pass   *)
(* on and close.                                                           *)
(*                                                                         *)
(* There are two processes: the one that calls these routines and the      *)
(* child, each with its table of descriptors.  The child's program reads   *)
(* or writes the pipe it is given, if any, and ends.  What is kept of a    *)
(* pipe is how much is in it.  Descriptors 0, 1 and 2 are open, as         *)
(* usysdep_initialize sees to.                                             *)
(***************************************************************************)
EXTENDS Integers, FiniteSets, FiniteSetsExt

CONSTANTS
  PipeRoom,       \* what a pipe holds
  Output          \* what a child writes that is read

ASSUME SpawnAssumption == PipeRoom \in Nat \ {0} /\ Output \in Nat \ {0}

VARIABLES
  fds,            \* the descriptors of the caller
  job,            \* what is run
  aidescs,        \* the descriptors that were asked for, and then made
  childDescs,     \* those of the child
  parClose,       \* to be closed by the caller when it has forked
  childClose,     \* and if it cannot
  stream,         \* the descriptor that is set up
  spawnAt,        \* where the caller is
  childFds,       \* the descriptors of the child
  childAt,        \* where the child is
  childTodo,      \* what it has still to write, or 0
  inPipe          \* what is in the pipe

spawnVars == <<fds, job, aidescs, childDescs, parClose, childClose, stream,
               spawnAt, childFds, childAt, childTodo, inPipe>>

setUp   == <<aidescs, childDescs, parClose, childClose, stream>>
child   == <<childFds, childAt, childTodo>>

Fds     == 0..7
NoFile == [file |-> "none", n |-> 0, cloexec |-> FALSE]
File(f) == [file |-> f, n |-> 0, cloexec |-> TRUE]

(* The ends of the pipe. *)
ReadSide(e)  == e.file = "read"
WriteSide(e) == e.file = "write"
Holds(t, does(_)) == \E o \in Fds : does(t[o])

Without(t, closed) == [o \in Fds |-> IF o \in closed THEN NoFile ELSE t[o]]

FreeFd(t, taken) == Min({o \in Fds : t[o] = NoFile} \ taken)

(* What is asked for each of 0, 1 and 2: the null device, a pipe, or a     *)
(* descriptor.  The port, or the file of fsysdep_execute, has 3.           *)
Null == -1
ReadPipe == -2
WritePipe == -3

Jobs == {"popen", "mail", "run", "execute", "shell"}

Asks(j) ==
  CASE j = "popen"     -> {<<Null, ReadPipe, Null>>}
    [] j = "mail"      -> {<<WritePipe, Null, Null>>}
    [] j = "run"       -> {<<Null, Null, Null>>}
    [] j = "execute"   -> {<<3, Null, 4>>, <<Null, 3, 4>>}
    [] j = "shell"     -> {<<0, 1, 2>>, <<3, 1, 2>>, <<0, 3, 2>>, <<3, 3, 2>>}

Std == [o \in Fds |-> IF o <= 2 THEN [File("terminal") EXCEPT !.n = o, !.cloexec = FALSE]
                      ELSE IF o = 3 THEN File("port") ELSE IF o = 4 THEN File("error")
                      ELSE NoFile]

Entry == [file : {"none", "terminal", "port", "error", "null", "read", "write"},
          n : 0..2, cloexec : BOOLEAN]

SpawnTypeOK ==
  /\ fds \in [Fds -> Entry] /\ childFds \in [Fds -> Entry]
  /\ job \in Jobs \cup {"none"}
  /\ spawnAt \in {"idle", "setUp", "fails", "failed", "spawned", "wait", "waited", "left",
                 "done"}
  /\ childAt \in {"none", "dup", "runs", "exited"}
  /\ aidescs \in [1..3 -> WritePipe..7] /\ childDescs \in [1..3 -> WritePipe..7]
  /\ parClose \subseteq Fds /\ childClose \subseteq Fds
  /\ stream \in 0..3
  /\ childTodo \in 0..Output
  /\ inPipe \in 0..PipeRoom

SpawnInit ==
  /\ fds = Std
  /\ job = "none"
  /\ aidescs = <<0, 1, 2>>
  /\ childDescs = <<0, 1, 2>>
  /\ parClose = {} /\ childClose = {}
  /\ stream = 0
  /\ spawnAt = "idle"
  /\ childFds = [o \in Fds |-> NoFile]
  /\ childAt = "none"
  /\ childTodo = 0
  /\ inPipe = 0

-----------------------------------------------------------------------------
(* ixsspawn: the descriptors of the child are made *)

SpawnStart ==
  /\ spawnAt = "idle"
  /\ job' \in Jobs
  /\ \E ask \in Asks(job') : aidescs' = ask /\ childDescs' = ask
  /\ parClose' = {} /\ childClose' = {}
  /\ stream' = 0
  /\ spawnAt' = "setUp"
  /\ childAt' = "none" /\ childTodo' = 0 /\ childFds' = [o \in Fds |-> NoFile]
  /\ inPipe' = 0
  /\ UNCHANGED fds

Asked == aidescs[stream + 1]
SettingUp == spawnAt = "setUp" /\ stream < 3
NullFds == {o \in parClose : fds[o].file = "null"}

GiveFd ==
  /\ SettingUp
  /\ Asked >= 0
  /\ childDescs' = [childDescs EXCEPT ![stream + 1] = Asked]
  /\ stream' = stream + 1
  /\ UNCHANGED <<fds, job, aidescs, parClose, childClose, spawnAt, child, inPipe>>

(* The null device is opened once for all. *)
GiveNull ==
  /\ SettingUp
  /\ Asked = Null
  /\ LET o == IF NullFds = {} THEN FreeFd(fds, {}) ELSE CHOOSE x \in NullFds : TRUE
     IN /\ fds' = [fds EXCEPT ![o] = File("null")]
        /\ parClose' = parClose \cup {o}
        /\ childDescs' = [childDescs EXCEPT ![stream + 1] = o]
  /\ stream' = stream + 1
  /\ UNCHANGED <<job, aidescs, childClose, spawnAt, child, inPipe>>

(* The null device or a pipe cannot be opened. *)
SetUpFails ==
  /\ SettingUp
  /\ Asked < 0 /\ (Asked = Null => NullFds = {})
  /\ spawnAt' = "fails"
  /\ UNCHANGED <<fds, job, setUp, child, inPipe>>

(* pipe: the caller's end is "mine", the child's "its"; both may not be set *)
(* to be closed on exec.                                                    *)
PipeMade(mine, its, cloexec) ==
  /\ fds' = [fds EXCEPT
       ![mine] = [file |-> IF Asked = ReadPipe THEN "read" ELSE "write", n |-> 0,
                  cloexec |-> cloexec],
       ![its] = File(IF Asked = ReadPipe THEN "write" ELSE "read")]
  /\ aidescs' = [aidescs EXCEPT ![stream + 1] = mine]
  /\ childDescs' = [childDescs EXCEPT ![stream + 1] = its]
  /\ childClose' = childClose \cup {mine}
  /\ parClose' = parClose \cup {its}

(* Variant: an end that is passed on is not closed on exec. *)
GivePipeOpen ==
  /\ SettingUp /\ Asked \in {ReadPipe, WritePipe}
  /\ LET a == FreeFd(fds, {})
         b == FreeFd(fds, {a})
     IN IF Asked = ReadPipe THEN PipeMade(a, b, FALSE) ELSE PipeMade(b, a, FALSE)
  /\ \/ stream' = stream + 1 /\ UNCHANGED spawnAt
     \/ spawnAt' = "fails" /\ UNCHANGED stream
  /\ UNCHANGED <<job, child, inPipe>>

GivePipe ==
  /\ SettingUp /\ Asked \in {ReadPipe, WritePipe}
  /\ LET a == FreeFd(fds, {})
         b == FreeFd(fds, {a})
     IN IF Asked = ReadPipe THEN PipeMade(a, b, TRUE) ELSE PipeMade(b, a, TRUE)
  /\ \/ stream' = stream + 1 /\ UNCHANGED spawnAt
     \/ spawnAt' = "fails" /\ UNCHANGED stream
  /\ UNCHANGED <<job, child, inPipe>>

SpawnFails ==
  /\ spawnAt = "fails"
  /\ fds' = Without(fds, childClose \cup parClose)
  /\ spawnAt' = "failed"
  /\ UNCHANGED <<job, setUp, child, inPipe>>

(* Variant: the caller does not close the child's ends. *)
ForksKeeping ==
  /\ spawnAt = "setUp" /\ stream = 3
  /\ childFds' = fds
  /\ childAt' = "dup"
  /\ UNCHANGED fds
  /\ stream' = 0
  /\ childTodo' = IF job = "popen" THEN Output ELSE 0
  /\ spawnAt' = "spawned"
  /\ UNCHANGED <<job, aidescs, childDescs, parClose, childClose, inPipe>>

Forks ==
  /\ spawnAt = "setUp" /\ stream = 3
  /\ childFds' = fds
  /\ childAt' = "dup"
  /\ fds' = Without(fds, parClose)
  /\ stream' = 0
  /\ childTodo' = IF job = "popen" THEN Output ELSE 0
  /\ spawnAt' = "spawned"
  /\ UNCHANGED <<job, aidescs, childDescs, parClose, childClose, inPipe>>

ForkFails ==
  /\ spawnAt = "setUp" /\ stream = 3
  /\ spawnAt' = "fails"
  /\ UNCHANGED <<fds, job, setUp, child, inPipe>>

-----------------------------------------------------------------------------
(* ixsspawn in the child, and the program it runs *)

ChildDup ==
  /\ childAt = "dup" /\ stream < 3
  /\ childFds' = [childFds EXCEPT ![stream] =
                    [childFds[childDescs[stream + 1]] EXCEPT !.cloexec = FALSE]]
  /\ stream' = stream + 1
  /\ UNCHANGED <<fds, job, aidescs, childDescs, parClose, childClose, spawnAt,
                 childAt, childTodo, inPipe>>

ChildExec ==
  /\ childAt = "dup" /\ stream = 3
  /\ \/ /\ childFds' = Without(childFds, {o \in Fds : childFds[o].cloexec})
        /\ childAt' = "runs"
     \/ /\ childAt' = "exited"
        /\ childFds' = [o \in Fds |-> NoFile]
  /\ UNCHANGED <<fds, job, setUp, spawnAt, childTodo, inPipe>>

ChildWrites ==
  /\ childAt = "runs" /\ childTodo > 0
  /\ WriteSide(childFds[1]) /\ Holds(fds, ReadSide) /\ inPipe < PipeRoom
  /\ inPipe' = inPipe + 1
  /\ childTodo' = childTodo - 1
  /\ UNCHANGED <<fds, job, setUp, spawnAt, childFds, childAt>>

ChildReads ==
  /\ childAt = "runs" /\ ReadSide(childFds[0]) /\ inPipe > 0
  /\ inPipe' = inPipe - 1
  /\ UNCHANGED <<fds, job, setUp, spawnAt, child>>

(* It has written all, or nobody reads it; it has read all, to the end; a  *)
(* program without a pipe just ends.                                       *)
ChildEnds ==
  /\ childAt = "runs"
  /\ childTodo > 0 => ~Holds(fds, ReadSide)
  /\ ReadSide(childFds[0]) =>
       inPipe = 0 /\ ~Holds(fds, WriteSide) /\ ~Holds(childFds, WriteSide)
  /\ childAt' = "exited"
  /\ childFds' = [o \in Fds |-> NoFile]
  /\ UNCHANGED <<fds, job, setUp, spawnAt, childTodo, inPipe>>

-----------------------------------------------------------------------------
(* The callers *)

Mine == childClose    \* its ends of the pipes

(* espopen: the stream cannot be made of the pipe. *)
FdopenFails ==
  /\ spawnAt = "spawned" /\ job \in {"popen", "mail"}
  /\ fds' = Without(fds, Mine)
  /\ childAt' = "exited" /\ childFds' = [o \in Fds |-> NoFile]
  /\ spawnAt' = "wait"
  /\ UNCHANGED <<job, setUp, childTodo, inPipe>>

(* The caller of espopen reads to the end. *)
CallerReads ==
  /\ spawnAt = "spawned" /\ job = "popen"
  /\ inPipe > 0
  /\ inPipe' = inPipe - 1
  /\ UNCHANGED <<fds, job, setUp, spawnAt, child>>

CallerReadsEnd ==
  /\ spawnAt = "spawned" /\ job = "popen"
  /\ inPipe = 0 /\ ~Holds(fds, WriteSide) /\ ~Holds(childFds, WriteSide)
  /\ fds' = Without(fds, Mine)
  /\ spawnAt' = "wait"
  /\ UNCHANGED <<job, setUp, child, inPipe>>

(* fsysdep_mail writes, and closes the pipe. *)
CallerWrites ==
  /\ spawnAt = "spawned" /\ job \in {"mail"}
  /\ Holds(childFds, ReadSide) /\ inPipe < PipeRoom
  /\ inPipe' = inPipe + 1
  /\ UNCHANGED <<fds, job, setUp, spawnAt, child>>

CallerCloses ==
  /\ spawnAt = "spawned" /\ job \in {"mail"}
  /\ fds' = Without(fds, Mine)
  /\ spawnAt' = "wait"
  /\ UNCHANGED <<job, setUp, child, inPipe>>

FilesClosed == IF job = "execute" THEN Without(fds, {3, 4}) ELSE fds

(* fsysdep_shell waits; fsysdep_execute closes its files first.            *)
CallerWaits ==
  /\ spawnAt = "spawned" /\ job \in {"shell", "execute"}
  /\ fds' = FilesClosed
  /\ spawnAt' = "wait"
  /\ UNCHANGED <<job, setUp, child, inPipe>>

(* fsysdep_run does not. *)
CallerReturns ==
  /\ spawnAt = "spawned" /\ job = "run"
  /\ spawnAt' = "left"
  /\ UNCHANGED <<fds, job, setUp, child, inPipe>>

(* ixswait, whatever signals interrupt it. *)
Ixswait ==
  /\ spawnAt = "wait" /\ childAt = "exited"
  /\ childAt' = "none"
  /\ spawnAt' = "waited"
  /\ UNCHANGED <<fds, job, setUp, childFds, childTodo, inPipe>>

SpawnDone ==
  /\ spawnAt \in {"failed", "waited"}
  /\ spawnAt' = "done"
  /\ fds' = IF spawnAt = "failed" THEN FilesClosed ELSE fds
  /\ UNCHANGED <<job, setUp, child, inPipe>>

CallerStep ==
  \/ GiveFd \/ GiveNull \/ GivePipe \/ SetUpFails \/ SpawnFails \/ Forks \/ ForkFails
  \/ CallerReads \/ CallerReadsEnd \/ CallerCloses \/ CallerWaits
  \/ CallerReturns \/ Ixswait \/ SpawnDone

ChildStep == ChildDup \/ ChildExec \/ ChildWrites \/ ChildReads \/ ChildEnds

SpawnNext == SpawnStart \/ CallerStep \/ FdopenFails \/ CallerWrites \/ ChildStep

(* Both processes go on when they can; that the stream cannot be made, and *)
(* that there is more to write, is not to be relied on.                    *)
SpawnFairness == WF_spawnVars(CallerStep) /\ WF_spawnVars(ChildStep)

SpawnSpec == SpawnInit /\ [][SpawnNext]_spawnVars
SpawnFairSpec == SpawnSpec /\ SpawnFairness

-----------------------------------------------------------------------------
(* Properties *)

(* A program runs with the standard descriptors that were asked for it,    *)
(* and no others, whatever numbers the new descriptors have (ixsspawn,     *)
(* dup2 and close-on-exec).                                                *)
StreamsAsAsked ==
  childAt = "runs" =>
    /\ \A o \in 3..7 : childFds[o] = NoFile
    /\ \E ask \in Asks(job) : \A i \in 0..2 :
         LET a == ask[i + 1]
             f == childFds[i]
         IN CASE a = Null      -> f.file = "null"
              [] a = ReadPipe  -> WriteSide(f)
              [] a = WritePipe -> ReadSide(f)
              [] OTHER         -> f = [Std[a] EXCEPT !.cloexec = FALSE]

(* Wherever the descriptors, the fork or the stream fail, the caller is    *)
(* left with those it had; with a child it has its ends of the pipes as    *)
(* well, until it closes them (ixsspawn, espopen).                         *)
NoFdLeft ==
  LET own == IF job = "execute" THEN Without(Std, {3, 4}) ELSE Std
  IN /\ spawnAt = "failed" => fds = Std
     /\ spawnAt \in {"wait", "left", "done"} => fds = own
     /\ spawnAt = "spawned" => \A o \in Fds : fds[o] # Std[o] => o \in Mine

(* A caller that is done has waited for its child, unless it is one that   *)
(* does not wait at all (ixswait).                                         *)
ChildrenWaitedFor == spawnAt = "done" => childAt = "none"

(* The caller comes back: it never waits for a program that waits for it,  *)
(* or for the end of a pipe that it holds open itself.                     *)
SpawnReturns == spawnAt = "setUp" ~> spawnAt \in {"done", "left"}

(* Programs and callers have the descriptors they should have, whatever    *)
(* fails on the way, and no program is left that nobody waits for.         *)
SpawnSafe == StreamsAsAsked /\ NoFdLeft /\ ChildrenWaitedFor
=============================================================================
