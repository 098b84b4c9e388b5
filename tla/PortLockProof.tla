--------------------------- MODULE PortLockProof ---------------------------
(***************************************************************************)
(* Proofs about the lock files of PortLock, for any number of processes,   *)
(* of calls and of inodes.                                                 *)
(*                                                                         *)
(* The argument: a file is p's (Mine) if it holds p's pid and everybody    *)
(* who is about to act on what he read in it has read p's pid.  While p    *)
(* lives nobody will write such a file.  p's temporary file is p's from    *)
(* the time its pid is written; the file p broke is p's once the five      *)
(* seconds have passed and p's pid is still there; so the lock file is p's *)
(* when p has the lock, and it is no one else's.                           *)
(***************************************************************************)
EXTENDS PortLock, TLAPS

(* What the comments in lock.c ask for: see lock.c:302-311 and 364-412.    *)
Careful ==
  TimelyWrite /\ ~ Signals /\ ~ PidsReused /\ ~ IOErrors /\ ReadOnly = {}

-----------------------------------------------------------------------------
Deciding(q) == pc[q] \in {"killing", "breaking"}

Mine(i, p) ==
  /\ content[i] = p
  /\ \A q \in Procs : fd[q] = i /\ Deciding(q) => seen[q] = p

\* The lock file does not hold p's pid.
Clean(p) == path # NoFile => content[path] # p

\* Nobody but p knows p's temporary file.
Private(p) ==
  /\ temp[p] # path
  /\ \A q \in Procs : fd[q] # temp[p] /\ (q # p => temp[q] # temp[p])

PrivateInv == \A p \in Procs : pc[p] = "writing" => Private(p)

TempInv ==
  \A p \in Procs : InCall(p) /\ pc[p] # "writing" => Mine(temp[p], p)

BreakInv ==
  /\ readonly = {}
  /\ \A p \in Procs : pc[p] = "breaking" => ~ Alive(seen[p])

CheckInv == \A p \in Procs : pc[p] = "checking" => Mine(fd[p], p)

HoldInv == \A p \in Procs : Has(p) => path # NoFile /\ Mine(path, p)

(* Where p's pid may be in the lock file although p has not got the lock.  *)
OrphanInv ==
  \A p \in Procs :
    /\ pc[p] \in {"idle", "writing", "linking", "killing", "breaking", "lost"}
         => Clean(p)
    /\ pc[p] = "opening" => Clean(p) \/ path = temp[p]
    /\ pc[p] = "reading" => /\ Clean(p) \/ (path = temp[p] /\ fd[p] = path)
                            /\ content[fd[p]] = p => fd[p] = path
    /\ pc[p] \in {"sleeping", "checking"} => Clean(p) \/ path = fd[p]

IInv == /\ TypeOK
        /\ PrivateInv
        /\ TempInv
        /\ BreakInv
        /\ CheckInv
        /\ HoldInv
        /\ OrphanInv

-----------------------------------------------------------------------------
(* Every step of a process keeps each part of the invariant. *)

(* Types and open descriptors. *)
LEMMA TypeStep ==
  ASSUME TypeOK,
         NEW r \in Procs, Step(r) \/ Environment(r)
  PROVE  TypeOK'
<1>1. CASE Create(r)
  <2>1. PICK i \in Inodes : /\ temp' = [temp EXCEPT ![r] = i]
                           /\ content' = [content EXCEPT ![i] = Empty]
    BY <1>1 DEF Create, TypeOK, Files, FreeInodes
  <2>2. calls' \in [Procs -> 0..MaxCalls]
    BY <1>1, MaxCallsAssumption DEF Create, TypeOK
  <2>3. path' \in Files /\ fd' = fd /\ seen' = seen /\ readonly' = readonly
    BY <1>1 DEF Create, TypeOK
  <2>4. pc[r] = "idle" /\ pc' = [pc EXCEPT ![r] = "writing"]
    BY <1>1 DEF Create, Goto
  <2> QED
    BY <2>1, <2>2, <2>3, <2>4, NoFileAssumption
    DEF TypeOK, Steps, Files, Pids, InCall
<1>2. CASE WritePid(r)
  BY <1>2 DEF WritePid, Goto, TypeOK, Steps, Files, Pids, InCall
<1>3. CASE Link(r)
  BY <1>3 DEF Link, Goto, TypeOK, Steps, InCall
<1>4. CASE Open(r)
  BY <1>4 DEF Open, Goto, TypeOK, Steps, InCall
<1>5. CASE Read(r)
  BY <1>5 DEF Read, Goto, Close, TypeOK, Steps, Files, Pids, InCall
<1>6. CASE Kill(r)
  BY <1>6 DEF Kill, Goto, Close, TypeOK, Steps, Files, Pids, InCall
<1>7. CASE RemoveStale(r)
  BY <1>7 DEF RemoveStale, Goto, Close, TypeOK, Steps, Files, Pids, InCall
<1>8. CASE Overwrite(r)
  BY <1>8 DEF Overwrite, Goto, TypeOK, Steps, Files, Pids, InCall
<1>9. CASE Wake(r)
  BY <1>9 DEF Wake, Goto, Close, TypeOK, Steps, Files, Pids, InCall
<1>10. CASE Check(r)
  BY <1>10 DEF Check, Goto, Close, TypeOK, Steps, Files, Pids, InCall
<1>11. CASE CallFails(r)
  BY <1>11 DEF CallFails, Goto, Close, TypeOK, Steps, Files, Pids, InCall
<1>12. CASE Finish(r)
  BY <1>12 DEF Finish, Goto, TypeOK, Steps, InCall
<1>13. CASE Unlock(r)
  BY <1>13 DEF Unlock, Goto, TypeOK, Steps, InCall
<1>14. CASE Die(r)
  BY <1>14 DEF Die, Goto, Close, TypeOK, Steps, Files, Pids, InCall
<1>15. CASE Start(r)
  BY <1>15 DEF Start, Goto, TypeOK, Steps, InCall
<1> QED
  BY <1>1, <1>2, <1>3, <1>4, <1>5, <1>6, <1>7, <1>8, <1>9, <1>10, <1>11,
    <1>12, <1>13, <1>14, <1>15 DEF Step, Environment

(* A temporary file is unknown to others until it is written. *)
LEMMA PrivateStep ==
  ASSUME Careful, IInv,
         NEW r \in Procs, Step(r) \/ Environment(r)
  PROVE  PrivateInv'
<1> SUFFICES ASSUME NEW p \in Procs, (pc[p] = "writing")'
             PROVE  Private(p)'
  BY DEF PrivateInv
<1>1. CASE Create(r)
  <2>1. temp[r] = NoFile /\ pc[r] = "idle"
    BY <1>1 DEF Create, Careful, IInv, TypeOK
  <2>2. PICK i \in FreeInodes : temp' = [temp EXCEPT ![r] = i]
    BY <1>1, <2>1 DEF Create
  <2>3. path' = path /\ fd' = fd /\ pc' = [pc EXCEPT ![r] = "writing"]
    BY <1>1 DEF Create, Goto
  <2>4. /\ i \in Inodes /\ i # path
        /\ \A q \in Procs : temp[q] # i /\ fd[q] # i
    BY <2>2 DEF FreeInodes
  <2>5. /\ temp \in [Procs -> Files]
        /\ pc \in [Procs -> Steps \cup {"idle", "held", "dead"}]
    BY DEF IInv, TypeOK
  <2>6. CASE p = r
    BY <2>2, <2>3, <2>4, <2>5, <2>6 DEF Private
  <2>7. CASE p # r
    BY <2>2, <2>3, <2>4, <2>5, <2>7 DEF IInv, PrivateInv, Private
  <2> QED
    BY <2>6, <2>7
<1>2. CASE WritePid(r)
  BY <1>2 DEF WritePid, Goto, IInv, PrivateInv, Private
<1>3. CASE Link(r)
  BY <1>3 DEF Link, Goto, IInv, TypeOK, PrivateInv, Private
<1>4. CASE Open(r)
  BY <1>4 DEF Open, Goto, IInv, TypeOK, PrivateInv, Private
<1>5. CASE Read(r)
  BY <1>5 DEF Read, Goto, Close, IInv, TypeOK, PrivateInv, Private
<1>6. CASE Kill(r)
  BY <1>6 DEF Kill, Goto, Close, IInv, TypeOK, PrivateInv, Private
<1>7. CASE RemoveStale(r)
  BY <1>7 DEF RemoveStale, Goto, Close, IInv, TypeOK, PrivateInv, Private
<1>8. CASE Overwrite(r)
  BY <1>8 DEF Overwrite, Goto, IInv, PrivateInv, Private
<1>9. CASE Wake(r)
  BY <1>9 DEF Wake, Goto, Close, IInv, TypeOK, PrivateInv, Private
<1>10. CASE Check(r)
  BY <1>10 DEF Check, Goto, Close, IInv, TypeOK, PrivateInv, Private
<1>11. CASE CallFails(r)
  BY <1>11 DEF CallFails, Goto, Close, IInv, TypeOK, PrivateInv, Private
<1>12. CASE Finish(r)
  BY <1>12 DEF Finish, Goto, IInv, TypeOK, PrivateInv, Private
<1>13. CASE Unlock(r)
  BY <1>13 DEF Unlock, Goto, IInv, TypeOK, PrivateInv, Private
<1>14. CASE Die(r)
  BY <1>14 DEF Die, Goto, Close, IInv, TypeOK, PrivateInv, Private
<1>15. CASE Start(r)
  BY <1>15 DEF Start, Goto, IInv, PrivateInv, Private
<1> QED
  BY <1>1, <1>2, <1>3, <1>4, <1>5, <1>6, <1>7, <1>8, <1>9, <1>10, <1>11,
    <1>12, <1>13, <1>14, <1>15 DEF Step, Environment

(* A temporary file with a pid in it stays its owner's. *)
LEMMA TempStep ==
  ASSUME Careful, IInv,
         NEW r \in Procs, Step(r) \/ Environment(r)
  PROVE  TempInv'
<1> SUFFICES ASSUME NEW p \in Procs, (InCall(p) /\ pc[p] # "writing")'
             PROVE  Mine(temp[p], p)'
  BY DEF TempInv
<1>1. CASE Create(r)
  BY <1>1 DEF Create, Goto, Careful, IInv, TypeOK, InCall, Steps, Mine,
    Deciding, FreeInodes, TempInv
<1>2. CASE WritePid(r)
  BY <1>2 DEF WritePid, Goto, IInv, TypeOK, InCall, Steps, Files, Pids, Mine,
    Deciding, PrivateInv, Private, TempInv
<1>3. CASE Link(r)
  BY <1>3 DEF Link, Goto, IInv, TypeOK, InCall, Steps, Mine, Deciding, TempInv
<1>4. CASE Open(r)
  BY <1>4 DEF Open, Goto, IInv, TypeOK, InCall, Steps, Mine, Deciding, TempInv
<1>5. CASE Read(r)
  BY <1>5 DEF Read, Goto, Close, IInv, TypeOK, InCall, Steps, Mine, Deciding,
    TempInv
<1>6. CASE Kill(r)
  BY <1>6 DEF Kill, Goto, Close, IInv, TypeOK, InCall, Steps, Mine, Deciding,
    TempInv
<1>7. CASE RemoveStale(r)
  BY <1>7 DEF RemoveStale, IInv, BreakInv
<1>8. CASE Overwrite(r)
  BY <1>8 DEF Overwrite, Goto, IInv, InCall, Steps, Alive, Mine, Deciding,
    TempInv, BreakInv
<1>9. CASE Wake(r)
  BY <1>9 DEF Wake, Goto, Close, IInv, TypeOK, InCall, Steps, Mine, Deciding,
    TempInv
<1>10. CASE Check(r)
  BY <1>10 DEF Check, Goto, Close, IInv, TypeOK, InCall, Steps, Mine,
    Deciding, TempInv
<1>11. CASE CallFails(r)
  BY <1>11 DEF CallFails, Careful, IInv
<1>12. CASE Finish(r)
  BY <1>12 DEF Finish, Goto, IInv, TypeOK, InCall, Steps, Mine, Deciding,
    TempInv
<1>13. CASE Unlock(r)
  BY <1>13 DEF Unlock, Goto, IInv, InCall, Steps, Mine, Deciding, TempInv
<1>14. CASE Die(r)
  BY <1>14 DEF Die, Goto, Close, IInv, TypeOK, InCall, Steps, Mine, Deciding,
    TempInv
<1>15. CASE Start(r)
  BY <1>15 DEF Start, Careful, IInv
<1> QED
  BY <1>1, <1>2, <1>3, <1>4, <1>5, <1>6, <1>7, <1>8, <1>9, <1>10, <1>11,
    <1>12, <1>13, <1>14, <1>15 DEF Step, Environment

(* Only the locks of the dead are broken. *)
LEMMA BreakStep ==
  ASSUME Careful, IInv,
         NEW r \in Procs, Step(r) \/ Environment(r)
  PROVE  BreakInv'
<1>1. CASE Create(r)
  BY <1>1 DEF Create, Goto, IInv, Alive, BreakInv
<1>2. CASE WritePid(r)
  BY <1>2 DEF WritePid, Goto, IInv, Alive, BreakInv
<1>3. CASE Link(r)
  BY <1>3 DEF Link, Goto, IInv, TypeOK, Alive, BreakInv
<1>4. CASE Open(r)
  BY <1>4 DEF Open, Goto, Careful, IInv, TypeOK, Alive, BreakInv
<1>5. CASE Read(r)
  BY <1>5 DEF Read, Goto, IInv, TypeOK, Alive, BreakInv
<1>6. CASE Kill(r)
  BY <1>6 DEF Kill, Goto, IInv, TypeOK, Alive, BreakInv
<1>7. CASE RemoveStale(r)
  BY <1>7 DEF RemoveStale, IInv, BreakInv
<1>8. CASE Overwrite(r)
  BY <1>8 DEF Overwrite, Goto, IInv, Alive, BreakInv
<1>9. CASE Wake(r)
  BY <1>9 DEF Wake, Goto, IInv, TypeOK, Alive, BreakInv
<1>10. CASE Check(r)
  BY <1>10 DEF Check, Goto, IInv, TypeOK, Alive, BreakInv
<1>11. CASE CallFails(r)
  BY <1>11 DEF CallFails, Careful, IInv
<1>12. CASE Finish(r)
  BY <1>12 DEF Finish, Goto, IInv, TypeOK, Alive, BreakInv
<1>13. CASE Unlock(r)
  BY <1>13 DEF Unlock, Goto, IInv, Alive, BreakInv
<1>14. CASE Die(r)
  BY <1>14 DEF Die, Goto, IInv, Alive, BreakInv
<1>15. CASE Start(r)
  BY <1>15 DEF Start, Careful, IInv
<1> QED
  BY <1>1, <1>2, <1>3, <1>4, <1>5, <1>6, <1>7, <1>8, <1>9, <1>10, <1>11,
    <1>12, <1>13, <1>14, <1>15 DEF Step, Environment

(* The file that was broken is its breaker's after the sleep. *)
LEMMA CheckStep ==
  ASSUME Careful, IInv,
         NEW r \in Procs, Step(r) \/ Environment(r)
  PROVE  CheckInv'
<1> SUFFICES ASSUME NEW p \in Procs, (pc[p] = "checking")'
             PROVE  Mine(fd[p], p)'
  BY DEF CheckInv
<1>1. CASE Create(r)
  BY <1>1 DEF Create, Goto, Careful, IInv, TypeOK, Mine, Deciding, FreeInodes,
    CheckInv
<1>2. CASE WritePid(r)
  BY <1>2 DEF WritePid, Goto, IInv, Mine, Deciding, CheckInv, PrivateInv,
    Private
<1>3. CASE Link(r)
  BY <1>3 DEF Link, Goto, IInv, TypeOK, Mine, Deciding, CheckInv
<1>4. CASE Open(r)
  BY <1>4 DEF Open, Goto, IInv, TypeOK, Mine, Deciding, CheckInv
<1>5. CASE Read(r)
  BY <1>5 DEF Read, Goto, Close, IInv, TypeOK, Mine, Deciding, CheckInv
<1>6. CASE Kill(r)
  BY <1>6 DEF Kill, Goto, Close, IInv, TypeOK, Mine, Deciding, CheckInv
<1>7. CASE RemoveStale(r)
  BY <1>7 DEF RemoveStale, IInv, BreakInv
<1>8. CASE Overwrite(r)
  BY <1>8 DEF Overwrite, Goto, IInv, Alive, Mine, Deciding, CheckInv, BreakInv
<1>9. CASE Wake(r)
  BY <1>9 DEF Wake, Goto, Close, Careful, IInv, TypeOK, Mine, Deciding,
    Undecided, FiveSeconds, CheckInv
<1>10. CASE Check(r)
  BY <1>10 DEF Check, Goto, Close, IInv, TypeOK, Mine, Deciding, CheckInv
<1>11. CASE CallFails(r)
  BY <1>11 DEF CallFails, Careful, IInv
<1>12. CASE Finish(r)
  BY <1>12 DEF Finish, Goto, IInv, TypeOK, Mine, Deciding, CheckInv
<1>13. CASE Unlock(r)
  BY <1>13 DEF Unlock, Goto, IInv, Mine, Deciding, CheckInv
<1>14. CASE Die(r)
  BY <1>14 DEF Die, Goto, Close, IInv, TypeOK, Mine, Deciding, CheckInv
<1>15. CASE Start(r)
  BY <1>15 DEF Start, Careful, IInv
<1> QED
  BY <1>1, <1>2, <1>3, <1>4, <1>5, <1>6, <1>7, <1>8, <1>9, <1>10, <1>11,
    <1>12, <1>13, <1>14, <1>15 DEF Step, Environment

(* The lock file is the holder's. *)
LEMMA HoldStep ==
  ASSUME Careful, IInv,
         NEW r \in Procs, Step(r) \/ Environment(r)
  PROVE  HoldInv'
<1> SUFFICES ASSUME NEW p \in Procs, Has(p)'
             PROVE  (path # NoFile /\ Mine(path, p))'
  BY DEF HoldInv
<1>1. CASE Create(r)
  BY <1>1 DEF Create, Goto, Careful, IInv, TypeOK, Has, Mine, Deciding,
    FreeInodes, HoldInv
<1>2. CASE WritePid(r)
  BY <1>2 DEF WritePid, Goto, IInv, Has, Mine, Deciding, HoldInv, PrivateInv,
    Private
<1>3. CASE Link(r)
  BY <1>3 DEF Link, Goto, IInv, TypeOK, InCall, Steps, Has, Mine, Deciding,
    HoldInv, TempInv
<1>4. CASE Open(r)
  BY <1>4 DEF Open, Goto, IInv, TypeOK, Has, Mine, Deciding, HoldInv
<1>5. CASE Read(r)
  BY <1>5 DEF Read, Goto, Close, IInv, TypeOK, InCall, Steps, Has, Mine,
    Deciding, Clean, HoldInv, TempInv, OrphanInv
<1>6. CASE Kill(r)
  BY <1>6 DEF Kill, Goto, Close, IInv, TypeOK, Has, Mine, Deciding, HoldInv
<1>7. CASE RemoveStale(r)
  BY <1>7 DEF RemoveStale, IInv, BreakInv
<1>8. CASE Overwrite(r)
  BY <1>8 DEF Overwrite, Goto, IInv, Has, Alive, Mine, Deciding, HoldInv,
    BreakInv
<1>9. CASE Wake(r)
  BY <1>9 DEF Wake, Goto, Close, IInv, TypeOK, Has, Mine, Deciding, HoldInv
<1>10. CASE Check(r)
  BY <1>10 DEF Check, Goto, Close, IInv, TypeOK, Has, Mine, Deciding, HoldInv,
    CheckInv
<1>11. CASE CallFails(r)
  BY <1>11 DEF CallFails, Careful, IInv
<1>12. CASE Finish(r)
  BY <1>12 DEF Finish, Goto, IInv, TypeOK, Has, Mine, Deciding, HoldInv
<1>13. CASE Unlock(r)
  BY <1>13 DEF Unlock, Goto, IInv, TypeOK, Has, Mine, Deciding, HoldInv
<1>14. CASE Die(r)
  BY <1>14 DEF Die, Goto, Close, IInv, Has, Mine, Deciding, HoldInv
<1>15. CASE Start(r)
  BY <1>15 DEF Start, Careful, IInv
<1> QED
  BY <1>1, <1>2, <1>3, <1>4, <1>5, <1>6, <1>7, <1>8, <1>9, <1>10, <1>11,
    <1>12, <1>13, <1>14, <1>15 DEF Step, Environment

(* Whoever has not got the lock has not left its pid in it. *)
LEMMA OrphanStep ==
  ASSUME Careful, IInv,
         NEW r \in Procs, Step(r) \/ Environment(r)
  PROVE  OrphanInv'
<1> SUFFICES ASSUME NEW p \in Procs
             PROVE  (/\ pc[p] \in {"idle", "writing", "linking", "killing",
                                   "breaking", "lost"} => Clean(p)
                     /\ pc[p] = "opening" => Clean(p) \/ path = temp[p]
                     /\ pc[p] = "reading" =>
                          /\ Clean(p) \/ (path = temp[p] /\ fd[p] = path)
                          /\ content[fd[p]] = p => fd[p] = path
                     /\ pc[p] \in {"sleeping", "checking"} =>
                          Clean(p) \/ path = fd[p])'
  BY DEF OrphanInv
<1>1. CASE Create(r)
  BY <1>1, EmptyAssumption DEF Create, Goto, IInv, Clean, OrphanInv
<1>2. CASE WritePid(r)
  BY <1>2 DEF WritePid, Goto, IInv, Clean, OrphanInv, PrivateInv, Private
<1>3. CASE Link(r)
  BY <1>3 DEF Link, Goto, IInv, TypeOK, InCall, Steps, Mine, Deciding, Clean,
    OrphanInv, TempInv
<1>4. CASE Open(r)
  BY <1>4 DEF Open, Goto, IInv, TypeOK, Clean, OrphanInv
<1>5. CASE Read(r)
  BY <1>5 DEF Read, Goto, Close, IInv, TypeOK, Clean, OrphanInv
<1>6. CASE Kill(r)
  BY <1>6 DEF Kill, Goto, Close, IInv, TypeOK, Clean, OrphanInv
<1>7. CASE RemoveStale(r)
  BY <1>7 DEF RemoveStale, IInv, BreakInv
<1>8. CASE Overwrite(r)
  BY <1>8 DEF Overwrite, Goto, IInv, TypeOK, Clean, OrphanInv
<1>9. CASE Wake(r)
  BY <1>9 DEF Wake, Goto, Close, IInv, TypeOK, Clean, OrphanInv
<1>10. CASE Check(r)
  BY <1>10 DEF Check, Goto, Close, IInv, TypeOK, Clean, OrphanInv
<1>11. CASE CallFails(r)
  BY <1>11 DEF CallFails, Careful, IInv
<1>12. CASE Finish(r)
  BY <1>12 DEF Finish, Goto, IInv, TypeOK, Clean, OrphanInv
<1>13. CASE Unlock(r)
  BY <1>13 DEF Unlock, Goto, IInv, Has, Mine, Deciding, Clean, OrphanInv,
    HoldInv
<1>14. CASE Die(r)
  BY <1>14 DEF Die, Goto, Close, IInv, TypeOK, Clean, OrphanInv
<1>15. CASE Start(r)
  BY <1>15 DEF Start, Careful, IInv
<1> QED
  BY <1>1, <1>2, <1>3, <1>4, <1>5, <1>6, <1>7, <1>8, <1>9, <1>10, <1>11,
    <1>12, <1>13, <1>14, <1>15 DEF Step, Environment

(* The invariant holds at first: whoever lives has no lock file. *)
LEMMA InitInv ==
  ASSUME Init
  PROVE  IInv
<1>1. TypeOK
  BY MaxCallsAssumption
  DEF Init, TypeOK, Files, Pids, Steps, InCall
<1>2. OrphanInv
  BY DEF Init, OrphanInv, Clean, Alive, Files
<1> QED
  BY <1>1, <1>2 DEF Init, IInv, PrivateInv, TempInv, BreakInv, CheckInv,
                    HoldInv, InCall, Steps, Has

(* Nothing changes in a stuttering step. *)
LEMMA Stutter ==
  ASSUME IInv, UNCHANGED vars
  PROVE  IInv'
BY DEF vars, IInv, TypeOK, PrivateInv, Private, TempInv, BreakInv, CheckInv,
  HoldInv,
       OrphanInv, InCall, Has, Alive, Mine, Deciding, Clean

-----------------------------------------------------------------------------
(* Types are right, and files and descriptors are given back, whatever is   *)
(* assumed about signals, errors and pids (lock.c:83-564).                  *)
THEOREM TypeCorrect == Spec => []TypeOK
<1>1. Init => TypeOK
  BY InitInv DEF IInv
<1>2. TypeOK /\ [Next]_vars => TypeOK'
  <2>1. ASSUME TypeOK, Next  PROVE TypeOK'
    BY <2>1, TypeStep DEF Next
  <2>2. ASSUME TypeOK, UNCHANGED vars  PROVE TypeOK'
    BY <2>2 DEF vars, TypeOK, InCall
  <2> QED
    BY <2>1, <2>2
<1> QED
  BY <1>1, <1>2, PTL DEF Spec

(* The invariant of careful processes, for any number of them.             *)
THEOREM Invariance ==
  ASSUME Careful
  PROVE  Spec => []IInv
<1>1. Init => IInv
  BY InitInv
<1>2. IInv /\ [Next]_vars => IInv'
  <2>1. ASSUME IInv, NEW r \in Procs, Step(r) \/ Environment(r)
        PROVE  IInv'
    <3>1. TypeOK' /\ PrivateInv' /\ TempInv' /\ BreakInv'
      BY Careful, <2>1, TypeStep, PrivateStep, TempStep, BreakStep DEF IInv
    <3>2. CheckInv' /\ HoldInv' /\ OrphanInv'
      BY Careful, <2>1, CheckStep, HoldStep, OrphanStep
    <3> QED
      BY <3>1, <3>2 DEF IInv
  <2> QED
    BY <2>1, Stutter DEF Next
<1> QED
  BY <1>1, <1>2, PTL DEF Spec

(* Careful processes never both have the lock (lock.c:388-408).            *)
THEOREM Exclusion ==
  ASSUME Careful
  PROVE  Spec => []MutualExclusion
<1>1. IInv => MutualExclusion
  BY DEF IInv, HoldInv, Mine, MutualExclusion
<1> QED
  BY <1>1, Invariance, PTL

(* The lock file is there and holds the holder's pid, until the holder      *)
(* removes it (lock.c:568-597).                                             *)
THEOREM HolderHasFile ==
  ASSUME Careful
  PROVE  Spec => []HolderOwnsFile
<1>1. IInv => HolderOwnsFile
  BY DEF IInv, HoldInv, Mine, HolderOwnsFile
<1> QED
  BY <1>1, Invariance, PTL

(* A call that fails leaves no lock with a live pid behind.                *)
THEOREM FailureLeavesNoLock ==
  ASSUME Careful
  PROVE  Spec => []NoOrphanLock
<1>1. IInv => NoOrphanLock
  BY DEF IInv, OrphanInv, Clean, NoOrphanLock
<1> QED
  BY <1>1, Invariance, PTL
=============================================================================
