---------------------------- MODULE SpoolProof -----------------------------
(***************************************************************************)
(* Proofs about the spool: the scan for command files of one process, and  *)
(* the uuxqts that execute what has arrived.                               *)
(*                                                                         *)
(* Of Work: a scan returns every command once, and a command file goes     *)
(* when, and only when, all that it asks for is done (ScanOnce,            *)
(* NoCommandLost).  The argument relates what is in memory of a file to    *)
(* the spool and to the commands that were reported (MemoryInv, ReadInv);  *)
(* it needs the new names of a search to come behind those already seen    *)
(* (SearchAdds).                                                           *)
(*                                                                         *)
(* Of Uuxqt, for any number of processes, places, execute files and        *)
(* deaths: the uuxqts that run have no directory, execute file or command  *)
(* that is locked in common, and leave no lock behind (UuxqtsApart).       *)
(* Who may execute what follows from who has which lock, and that from     *)
(* where each process is: XqtLocksHeld says both ways what a process has   *)
(* at every place.  A file that is being executed is still in the spool,   *)
(* because only the one who has its lock removes it (XqtFilesSafe).        *)
(***************************************************************************)
EXTENDS Work, Uuxqt, FiniteSetTheorems, SequenceTheorems, TLAPS

-----------------------------------------------------------------------------
(* The invariant of the work scan *)

(* The files that the scan has read or passed.                             *)
Seen == {asSwork_files[j] : j \in 1..iSwork_file}

(* A file is in the list of the scan once.                                 *)
ListedOnce == \A i, j \in 1..Len(asSwork_files) : asSwork_files[i] = asSwork_files[j] => i = j

(* What is in memory of a file is what is in the spool.                    *)
MemoryInv ==
  \A n \in DOMAIN ssfiles :
    /\ n \in Seen
    /\ ssfiles[n].lines = Lines(n)
    /\ ssfiles[n].cdid <= Count(n)
    /\ \A i \in ssfiles[n].qfile : i \in 1..ssfiles[n].cdid

(* A command that is not reported is one that its file waits for.          *)
PseqsInv ==
  \A c \in pseqs : /\ c[1] \in DOMAIN ssfiles /\ c[2] \in ssfiles[c[1]].qfile
                   /\ ssfiles[c[1]].lines[c[2]] # "bad"

(* What was returned is from a file that was seen and a line that was read. *)
ReturnedInv ==
  /\ \A i, j \in 1..Len(returned) : returned[i] = returned[j] => i = j
  /\ \A i \in 1..Len(returned) :
       /\ returned[i][1] \in Seen
       /\ returned[i][1] \in DOMAIN ssfiles => returned[i][2] <= ssfiles[returned[i][1]].cdid

(* So is what was done; its file no longer waits for it, or is gone.       *)
DidInv ==
  \A c \in did :
    /\ c[1] \in Seen
    /\ c[1] \notin DOMAIN ssfiles => ~spool[c[1]].there
    /\ c[1] \in DOMAIN ssfiles =>
         c[2] <= ssfiles[c[1]].cdid /\ c[2] \notin ssfiles[c[1]].qfile
           /\ ssfiles[c[1]].lines[c[2]] # "bad"

(* While a line is to be read or done, each one that was read is bad,      *)
(* waited for or done.                                                     *)
ReadInv ==
  \A n \in DOMAIN ssfiles : ~AllDone(ssfiles[n]) => \A i \in 1..ssfiles[n].cdid :
    ssfiles[n].lines[i] = "bad" \/ i \in ssfiles[n].qfile \/ <<n, i>> \in did

(* A file with all lines read and reported stays only for a bad one, or    *)
(* for one whose report failed.                                            *)
StaysInv ==
  \A n \in DOMAIN ssfiles :
    spool[n].there /\ AllDone(ssfiles[n]) =>
      \E i \in 1..Count(n) : ssfiles[n].lines[i] = "bad" \/ <<n, i>> \notin did

WorkInv ==
  /\ WorkTypeOK /\ ListedOnce /\ MemoryInv /\ PseqsInv /\ ReturnedInv /\ DidInv /\ ReadInv
  /\ StaysInv

-----------------------------------------------------------------------------
(* The invariant holds at first, and calls and other programs keep it *)

LEMMA WorkTypesInit == WorkInit => WorkTypeOK
  <1>1. (CHOOSE l \in CommandLists : TRUE) \in CommandLists
    BY WorkAssumption DEF WorkAssumption
  <1>2. Sessions \in Nat
    BY WorkAssumption DEF WorkAssumption
  <1> QED  BY <1>1, <1>2 DEF WorkInit, WorkTypeOK

LEMMA WorkInvInit == WorkInit => WorkInv
  <1> SUFFICES ASSUME WorkInit  PROVE  WorkInv
    OBVIOUS
  <1>1. DOMAIN ssfiles = {} /\ Len(asSwork_files) = 0 /\ Len(returned) = 0
    BY DEF WorkInit
  <1>2. ListedOnce /\ MemoryInv /\ PseqsInv /\ ReturnedInv /\ DidInv /\ ReadInv /\ StaysInv
    BY <1>1 DEF WorkInit, ListedOnce, MemoryInv, PseqsInv, ReturnedInv, DidInv, ReadInv,
                StaysInv
  <1> QED  BY <1>2, WorkTypesInit DEF WorkInv

(* A step that reads and reports nothing keeps the invariant.              *)
LEMMA QuietStep ==
  ASSUME WorkInv, WorkTypeOK',
         UNCHANGED <<spool, scan, ssfiles, pseqs, returned, did>>
  PROVE  WorkInv'
<1>1. /\ spool' = spool /\ asSwork_files' = asSwork_files /\ iSwork_file' = iSwork_file
      /\ ssfiles' = ssfiles /\ pseqs' = pseqs /\ returned' = returned /\ did' = did
  BY DEF scan
<1>2. /\ Seen' = Seen /\ \A n : Lines(n)' = Lines(n) /\ Count(n)' = Count(n)
  BY <1>1 DEF Seen, Lines, Count
<1>3. ListedOnce' /\ MemoryInv' /\ PseqsInv'
  BY <1>1, <1>2 DEF WorkInv, ListedOnce, MemoryInv, PseqsInv
<1>4. ReturnedInv' /\ DidInv'
  BY <1>1, <1>2 DEF WorkInv, ReturnedInv, DidInv
<1>5. ReadInv' /\ StaysInv'
  BY <1>1, <1>2 DEF WorkInv, ReadInv, StaysInv
<1> QED  BY <1>3, <1>4, <1>5 DEF WorkInv

LEMMA CallsStep ==
  ASSUME WorkInv,
         GetWork \/ NoMoreWork \/ FileUsedUp \/ \E c \in pseqs : SaveTempFile(c)
  PROVE  WorkInv'
<1>1. CASE GetWork
  <2>1. WorkTypeOK'
    BY <1>1 DEF GetWork, WorkInv, WorkTypeOK, scan
  <2> QED  BY <1>1, <2>1, QuietStep DEF GetWork
<1>2. CASE NoMoreWork
  <2>1. WorkTypeOK'
    BY <1>2 DEF NoMoreWork, WorkInv, WorkTypeOK, scan
  <2> QED  BY <1>2, <2>1, QuietStep DEF NoMoreWork
<1>3. CASE FileUsedUp
  <2>1. WorkTypeOK'
    BY <1>3 DEF FileUsedUp, WorkInv, WorkTypeOK, scan
  <2> QED  BY <1>3, <2>1, QuietStep DEF FileUsedUp
<1>4. ASSUME NEW c \in pseqs, SaveTempFile(c)
      PROVE  WorkInv'
  <2>1. WorkTypeOK'
    BY <1>4 DEF SaveTempFile, WorkInv, WorkTypeOK, scan
  <2> QED  BY <1>4, <2>1, QuietStep DEF SaveTempFile
<1> QED  BY <1>1, <1>2, <1>3, <1>4

(* The spool changes under the scan. *)
LEMMA KillJobStep ==
  ASSUME WorkInv, NEW n \in Names, KillJob(n)
  PROVE  WorkInv'
<1>1. /\ asSwork_files' = asSwork_files /\ iSwork_file' = iSwork_file
      /\ ssfiles' = ssfiles /\ pseqs' = pseqs /\ returned' = returned /\ did' = did
      /\ spool' = [spool EXCEPT ![n].there = FALSE]
      /\ temps' \subseteq temps
      /\ UNCHANGED <<qSwork_file, workAt, nSessions>>
  BY DEF KillJob, scan
<1>2. WorkTypeOK
  BY DEF WorkInv
<1>3. \A m \in Names : /\ spool'[m].lines = spool[m].lines
                       /\ spool'[m].there => spool[m].there
  BY <1>1, <1>2 DEF WorkTypeOK
<1>4. Seen' = Seen /\ \A m \in Names : Lines(m)' = Lines(m) /\ Count(m)' = Count(m)
  BY <1>1, <1>3 DEF Seen, Lines, Count
<1>5. WorkTypeOK'
  BY <1>1, <1>2 DEF WorkTypeOK
<1>6. ListedOnce' /\ MemoryInv' /\ PseqsInv'
  BY <1>1, <1>2, <1>4 DEF WorkInv, ListedOnce, MemoryInv, PseqsInv, WorkTypeOK
<1>7. ReturnedInv'
  BY <1>1, <1>4 DEF WorkInv, ReturnedInv
<1>8. DidInv'
  <2>1. ASSUME NEW c \in did
        PROVE  c[1] \in Names
    BY <1>2 DEF WorkTypeOK, Command
  <2> QED  BY <1>1, <1>3, <1>4, <2>1 DEF WorkInv, DidInv
<1>9. ReadInv' /\ StaysInv'
  BY <1>1, <1>2, <1>3, <1>4 DEF WorkInv, ReadInv, StaysInv, WorkTypeOK
<1> QED  BY <1>5, <1>6, <1>7, <1>8, <1>9 DEF WorkInv

(* A file that was seen is in the list. *)
LEMMA SeenListed ==
  ASSUME WorkTypeOK, NEW n \in Seen
  PROVE  n \in Names /\ \E j \in 1..Len(asSwork_files) : asSwork_files[j] = n
<1>1. PICK j \in 1..iSwork_file : n = asSwork_files[j]
  BY DEF Seen
<1>2. j \in 1..Len(asSwork_files)
  BY DEF WorkTypeOK
<1> QED  BY <1>1, <1>2 DEF WorkTypeOK

LEMMA SpoolCommandsStep ==
  ASSUME WorkInv, NEW n \in Names, NEW lines \in CommandLists, SpoolCommands(n, lines)
  PROVE  WorkInv'
<1>1. /\ asSwork_files' = asSwork_files /\ iSwork_file' = iSwork_file
      /\ ssfiles' = ssfiles /\ pseqs' = pseqs /\ returned' = returned /\ did' = did
      /\ spool' = [spool EXCEPT ![n] = [there |-> TRUE, lines |-> lines]]
      /\ UNCHANGED <<qSwork_file, workAt, nSessions>>
  BY DEF SpoolCommands, scan
<1>2. WorkTypeOK
  BY DEF WorkInv
<1>3. ASSUME NEW m \in Seen
      PROVE  m # n /\ m \in Names
  BY <1>2, SeenListed DEF SpoolCommands
<1>4. \A m \in Seen : spool'[m] = spool[m]
  BY <1>1, <1>2, <1>3 DEF WorkTypeOK
<1>5. Seen' = Seen /\ \A m \in Seen : Lines(m)' = Lines(m) /\ Count(m)' = Count(m)
  BY <1>1, <1>4 DEF Seen, Lines, Count
<1>6. temps' \subseteq Command
  <2>1. \A i \in 1..Len(lines) : <<n, i>> \in Command
    BY DEF Command
  <2>2. temps' = temps \cup {<<n, i>> : i \in {j \in 1..Len(lines) : lines[j] = "send"}}
    BY DEF SpoolCommands
  <2> QED  BY <1>2, <2>1, <2>2 DEF WorkTypeOK
<1>7. WorkTypeOK'
  <2>1. [there |-> TRUE, lines |-> lines] \in [there : BOOLEAN, lines : CommandLists]
    OBVIOUS
  <2>2. spool' \in [Names -> [there : BOOLEAN, lines : CommandLists]]
    BY <1>1, <1>2, <2>1 DEF WorkTypeOK
  <2> QED  BY <1>1, <1>2, <1>6, <2>2 DEF WorkTypeOK
<1>8. ListedOnce' /\ MemoryInv' /\ PseqsInv'
  BY <1>1, <1>5 DEF WorkInv, ListedOnce, MemoryInv, PseqsInv
<1>9. ReturnedInv'
  BY <1>1, <1>5 DEF WorkInv, ReturnedInv
<1>10. DidInv'
  BY <1>1, <1>4, <1>5 DEF WorkInv, DidInv
<1>11. ReadInv'
  BY <1>1 DEF WorkInv, ReadInv
<1>12. StaysInv'
  BY <1>1, <1>4, <1>5 DEF WorkInv, StaysInv, MemoryInv
<1> QED  BY <1>7, <1>8, <1>9, <1>10, <1>11, <1>12 DEF WorkInv

-----------------------------------------------------------------------------
(* A file is read or passed *)

(* The scan goes one file on, to one that it has not seen. *)
LEMMA OneFileOn ==
  ASSUME WorkTypeOK, ListedOnce, iSwork_file < Len(asSwork_files),
         asSwork_files' = asSwork_files, iSwork_file' = iSwork_file + 1
  PROVE  /\ NextName \in Names /\ NextName \notin Seen
         /\ Seen' = Seen \cup {NextName}
         /\ iSwork_file' \in 0..Len(asSwork_files')
<1>1. /\ iSwork_file \in Nat /\ Len(asSwork_files) \in Nat /\ asSwork_files \in Seq(Names)
      /\ iSwork_file + 1 \in 1..Len(asSwork_files)
  BY DEF WorkTypeOK
<1>2. NextName \in Names
  BY <1>1 DEF NextName
<1>3. NextName \notin Seen
  <2>1. ASSUME NEW j \in 1..iSwork_file
        PROVE  asSwork_files[j] # NextName
    <3>1. j \in 1..Len(asSwork_files) /\ j # iSwork_file + 1
      BY <1>1
    <3> QED  BY <1>1, <3>1 DEF ListedOnce, NextName
  <2> QED  BY <2>1 DEF Seen
<1>4. Seen' = Seen \cup {NextName}
  <2>1. 1..(iSwork_file + 1) = 1..iSwork_file \cup {iSwork_file + 1}
    BY <1>1
  <2>2. Seen' = {asSwork_files[j] : j \in 1..(iSwork_file + 1)}
    BY DEF Seen
  <2> QED  BY <2>1, <2>2 DEF Seen, NextName
<1> QED  BY <1>1, <1>2, <1>3, <1>4

LEMMA PassFileStep ==
  ASSUME WorkInv, PassFile
  PROVE  WorkInv'
<1>1. /\ asSwork_files' = asSwork_files /\ iSwork_file' = iSwork_file + 1
      /\ iSwork_file < Len(asSwork_files)
      /\ spool' = spool /\ ssfiles' = ssfiles /\ pseqs' = pseqs /\ returned' = returned
      /\ did' = did /\ temps' = temps
      /\ UNCHANGED <<qSwork_file, workAt, nSessions>>
  BY DEF PassFile
<1>2. WorkTypeOK /\ ListedOnce
  BY DEF WorkInv
<1>3. /\ Seen' = Seen \cup {NextName} /\ iSwork_file' \in 0..Len(asSwork_files')
  BY <1>1, <1>2, OneFileOn
<1>4. \A n : Lines(n)' = Lines(n) /\ Count(n)' = Count(n)
  BY <1>1 DEF Lines, Count
<1>5. WorkTypeOK'
  BY <1>1, <1>2, <1>3 DEF WorkTypeOK
<1>6. ListedOnce' /\ MemoryInv' /\ PseqsInv'
  BY <1>1, <1>3, <1>4 DEF WorkInv, ListedOnce, MemoryInv, PseqsInv
<1>7. ReturnedInv'
  BY <1>1, <1>3 DEF WorkInv, ReturnedInv
<1>8. DidInv'
  BY <1>1, <1>3 DEF WorkInv, DidInv
<1>9. ReadInv' /\ StaysInv'
  BY <1>1, <1>4 DEF WorkInv, ReadInv, StaysInv
<1> QED  BY <1>5, <1>6, <1>7, <1>8, <1>9 DEF WorkInv

LEMMA ReadFileStep ==
  ASSUME WorkInv, ReadFile
  PROVE  WorkInv'
<1>0. PICK new : new = NextName
  OBVIOUS
<1>   PICK file : file = [lines |-> Lines(new), cdid |-> 0, qfile |-> {}]
  OBVIOUS
<1>1. /\ asSwork_files' = asSwork_files /\ iSwork_file' = iSwork_file + 1
      /\ iSwork_file < Len(asSwork_files)
      /\ spool' = spool /\ pseqs' = pseqs /\ returned' = returned
      /\ did' = did /\ temps' = temps /\ qSwork_file' = new
      /\ UNCHANGED <<workAt, nSessions>>
      /\ spool[new].there
  BY <1>0 DEF ReadFile
<1>2. WorkTypeOK /\ ListedOnce
  BY DEF WorkInv
<1>3. /\ new \in Names /\ new \notin Seen /\ Seen' = Seen \cup {new}
      /\ iSwork_file' \in 0..Len(asSwork_files')
  BY <1>0, <1>1, <1>2, OneFileOn
<1>4. \A n : Lines(n)' = Lines(n)
  BY <1>1 DEF Lines
<1>5. /\ DOMAIN ssfiles' = DOMAIN ssfiles \cup {new}
      /\ ssfiles'[new] = file
      /\ \A n \in DOMAIN ssfiles : n \in Seen /\ n # new /\ ssfiles'[n] = ssfiles[n]
      /\ ssfiles' = [n \in DOMAIN ssfiles \cup {new} |-> ssfiles'[n]]
  <2>1. ssfiles' = [n \in DOMAIN ssfiles \cup {new} |->
                      IF n = new THEN [lines |-> Lines(n), cdid |-> 0, qfile |-> {}]
                      ELSE ssfiles[n]]
    BY <1>0 DEF ReadFile
  <2>2. \A n \in DOMAIN ssfiles : n \in Seen
    BY DEF WorkInv, MemoryInv
  <2> QED  BY <1>3, <2>1, <2>2
<1>6. file \in FileInMemory
  <2>1. Lines(new) \in CommandLists \cup {<<"other">>}
    BY <1>2, <1>3 DEF WorkTypeOK, Lines
  <2> QED  BY <2>1 DEF FileInMemory
<1>7. file.cdid = 0 /\ file.qfile = {} /\ file.lines = Lines(new) /\ Len(Lines(new)) \in Nat
      /\ Len(Lines(new)) > 0
  <2>1. spool[new].lines \in Seq({"send", "other", "bad"})
    BY <1>2, <1>3, WorkAssumption DEF WorkTypeOK, WorkAssumption
  <2>2. Len(Lines(new)) \in Nat /\ Len(Lines(new)) > 0
    BY <2>1 DEF Lines
  <2> QED  BY <2>2
<1>8. WorkTypeOK'
  <2>1. ssfiles' \in [DOMAIN ssfiles' -> FileInMemory] /\ DOMAIN ssfiles' \subseteq Names
    <3>1. \A n \in DOMAIN ssfiles : ssfiles[n] \in FileInMemory /\ n \in Names
      BY <1>2 DEF WorkTypeOK
    <3>2. \A n \in DOMAIN ssfiles' : ssfiles'[n] \in FileInMemory /\ n \in Names
      BY <1>3, <1>5, <1>6, <3>1
    <3> QED  BY <1>5, <3>2
  <2>2. qSwork_file' \in DOMAIN ssfiles' \cup {NoName}
    BY <1>1, <1>5
  <2> QED  BY <1>1, <1>2, <1>3, <2>1, <2>2 DEF WorkTypeOK
<1>9. \A n \in DOMAIN ssfiles : Count(n)' = Count(n)
  BY <1>5 DEF Count
<1>10. Count(new)' = Len(Lines(new))
  BY <1>5, <1>7 DEF Count
<1>11. ListedOnce'
  BY <1>1, <1>2 DEF ListedOnce
<1>12. MemoryInv'
  <2>1. ASSUME NEW n \in DOMAIN ssfiles
        PROVE  /\ n \in Seen' /\ ssfiles'[n].lines = Lines(n)' /\ ssfiles'[n].cdid <= Count(n)'
               /\ \A i \in ssfiles'[n].qfile : i \in 1..ssfiles'[n].cdid
    BY <1>3, <1>4, <1>5, <1>9 DEF WorkInv, MemoryInv
  <2>2. /\ new \in Seen' /\ ssfiles'[new].lines = Lines(new)'
        /\ ssfiles'[new].cdid <= Count(new)' /\ ssfiles'[new].qfile = {}
    BY <1>3, <1>4, <1>5, <1>7, <1>10
  <2> QED  BY <1>5, <2>1, <2>2 DEF MemoryInv
<1>13. PseqsInv'
  BY <1>1, <1>5 DEF WorkInv, PseqsInv
<1>14. ReturnedInv'
  <2>1. \A i \in 1..Len(returned) : returned[i][1] # new /\ returned[i][1] \in Seen
    BY <1>3 DEF WorkInv, ReturnedInv
  <2> QED  BY <1>1, <1>3, <1>5, <2>1 DEF WorkInv, ReturnedInv
<1>15. DidInv'
  <2>1. \A c \in did : c[1] # new /\ c[1] \in Seen
    BY <1>3 DEF WorkInv, DidInv
  <2> QED  BY <1>1, <1>3, <1>5, <2>1 DEF WorkInv, DidInv
<1>16. ReadInv'
  <2>1. ssfiles'[new].cdid = 0 /\ 1..0 = {}
    BY <1>5, <1>7
  <2> QED  BY <1>1, <1>5, <2>1 DEF WorkInv, ReadInv
<1>17. StaysInv'
  <2>1. ~AllDone(ssfiles'[new])
    BY <1>5, <1>7 DEF AllDone
  <2> QED  BY <1>1, <1>5, <1>9, <2>1 DEF WorkInv, StaysInv
<1> QED  BY <1>8, <1>11, <1>12, <1>13, <1>14, <1>15, <1>16, <1>17 DEF WorkInv

-----------------------------------------------------------------------------
(* A line is read: a bad one is passed over, another one is waited for. *)
LEMMA LineRead ==
  ASSUME WorkInv, NEW n \in DOMAIN ssfiles, NEW i, NEW file, NEW line,
         n = qSwork_file, i = ssfiles[n].cdid + 1, line = ssfiles[n].lines[i],
         ssfiles[n].cdid < Count(n),
         file \in FileInMemory, ssfiles' = [ssfiles EXCEPT ![n] = file],
         file.lines = ssfiles[n].lines, file.cdid = i,
         \/ line = "bad" /\ file.qfile = ssfiles[n].qfile
         \/ line # "bad" /\ file.qfile = ssfiles[n].qfile \cup {i},
         UNCHANGED <<spool, temps, scan, qSwork_file, did, nSessions>>,
         \/ returned' = returned /\ pseqs' = pseqs
         \/ /\ line # "bad" /\ returned' = Append(returned, <<n, i>>)
            /\ pseqs' = pseqs \cup {<<n, i>>},
         workAt' \in {"idle", "getting", "failed"}
  PROVE  WorkInv'
<1>1. /\ asSwork_files' = asSwork_files /\ iSwork_file' = iSwork_file
      /\ spool' = spool /\ did' = did /\ temps' = temps
      /\ UNCHANGED <<qSwork_file, nSessions>>
  BY DEF scan
<1>2. WorkTypeOK
  BY DEF WorkInv
<1>3. /\ n \in Names /\ ssfiles[n] \in FileInMemory /\ ssfiles[n].cdid \in Nat /\ i \in Nat
      /\ i > 0 /\ Len(ssfiles[n].lines) \in Nat
  <2>1. n \in Names /\ ssfiles[n] \in FileInMemory
    BY <1>2 DEF WorkTypeOK
  <2>2. ssfiles[n].lines \in Seq({"send", "other", "bad"})
    <3>1. <<"other">> \in Seq({"send", "other", "bad"})
      OBVIOUS
    <3> QED  BY <2>1, <3>1, WorkAssumption DEF FileInMemory, WorkAssumption
  <2> QED  BY <2>1, <2>2 DEF FileInMemory
<1>4. /\ DOMAIN ssfiles' = DOMAIN ssfiles /\ ssfiles'[n] = file
      /\ \A m \in DOMAIN ssfiles : m # n => ssfiles'[m] = ssfiles[m]
      /\ ssfiles' = [m \in DOMAIN ssfiles |-> ssfiles'[m]]
  <2>1. ssfiles = [m \in DOMAIN ssfiles |-> ssfiles[m]]
    BY <1>2 DEF WorkTypeOK
  <2> QED  BY <2>1
<1>5. /\ Seen' = Seen /\ \A m : Lines(m)' = Lines(m)
      /\ \A m \in DOMAIN ssfiles : Count(m)' = Count(m)
  BY <1>1, <1>4 DEF Seen, Lines, Count
<1>6. i <= Count(n) /\ \A k \in file.qfile : k \in 1..i
  BY <1>3 DEF WorkInv, MemoryInv, Count
<1>7. <<n, i>> \in Command /\ \A k \in 1..Len(returned) : returned[k] # <<n, i>>
  <2>1. <<n, i>> \in Command
    BY <1>3 DEF Command
  <2>2. ASSUME NEW k \in 1..Len(returned), returned[k] = <<n, i>>
        PROVE  FALSE
    <3>1. returned[k][1] = n /\ returned[k][2] = i
      BY <2>2
    <3>2. i <= ssfiles[n].cdid
      BY <3>1 DEF WorkInv, ReturnedInv
    <3> QED  BY <1>3, <3>2
  <2> QED  BY <2>1, <2>2
<1>8. WorkTypeOK'
  <2>1. ssfiles' \in [DOMAIN ssfiles' -> FileInMemory] /\ DOMAIN ssfiles' \subseteq Names
    <3>1. \A m \in DOMAIN ssfiles : ssfiles[m] \in FileInMemory /\ m \in Names
      BY <1>2 DEF WorkTypeOK
    <3>2. \A m \in DOMAIN ssfiles' : ssfiles'[m] \in FileInMemory /\ m \in Names
      BY <1>4, <3>1
    <3> QED  BY <1>4, <3>2
  <2>2. pseqs' \subseteq Command /\ returned' \in Seq(Command)
    <3>1. pseqs \subseteq Command /\ returned \in Seq(Command)
      BY <1>2 DEF WorkTypeOK
    <3>2. Append(returned, <<n, i>>) \in Seq(Command)
      BY <1>7, <3>1
    <3>3. pseqs' \subseteq Command
      BY <1>7, <3>1
    <3> QED  BY <3>1, <3>2, <3>3
  <2> QED  BY <1>1, <1>2, <1>4, <2>1, <2>2 DEF WorkTypeOK
<1>9. ListedOnce'
  BY <1>1 DEF WorkInv, ListedOnce
<1>10. MemoryInv'
  <2>1. ASSUME NEW m \in DOMAIN ssfiles, m # n
        PROVE  /\ m \in Seen' /\ ssfiles'[m].lines = Lines(m)' /\ ssfiles'[m].cdid <= Count(m)'
               /\ \A k \in ssfiles'[m].qfile : k \in 1..ssfiles'[m].cdid
    BY <1>4, <1>5, <2>1 DEF WorkInv, MemoryInv
  <2>2. /\ n \in Seen' /\ ssfiles'[n].lines = Lines(n)' /\ ssfiles'[n].cdid <= Count(n)'
        /\ \A k \in ssfiles'[n].qfile : k \in 1..ssfiles'[n].cdid
    BY <1>4, <1>5, <1>6 DEF WorkInv, MemoryInv
  <2> QED  BY <1>4, <2>1, <2>2 DEF MemoryInv
<1>11. PseqsInv'
  <2>1. ASSUME NEW c \in pseqs
        PROVE  /\ c[1] \in DOMAIN ssfiles' /\ c[2] \in ssfiles'[c[1]].qfile
               /\ ssfiles'[c[1]].lines[c[2]] # "bad"
    <3>1. /\ c[1] \in DOMAIN ssfiles /\ c[2] \in ssfiles[c[1]].qfile
          /\ ssfiles[c[1]].lines[c[2]] # "bad"
      BY DEF WorkInv, PseqsInv
    <3>2. CASE c[1] = n
      BY <1>4, <3>1, <3>2
    <3>3. CASE c[1] # n
      BY <1>4, <3>1, <3>3
    <3> QED  BY <3>2, <3>3
  <2>2. ASSUME line # "bad", NEW c, c = <<n, i>>
        PROVE  /\ c[1] \in DOMAIN ssfiles' /\ c[2] \in ssfiles'[c[1]].qfile
               /\ ssfiles'[c[1]].lines[c[2]] # "bad"
    BY <1>4, <2>2
  <2> QED  BY <2>1, <2>2 DEF PseqsInv
<1>12. /\ \A k \in 1..Len(returned') :
            \/ k \in 1..Len(returned) /\ returned'[k] = returned[k]
            \/ k = Len(returned) + 1 /\ k = Len(returned') /\ returned'[k] = <<n, i>>
       /\ Len(returned) \in Nat
  BY <1>2 DEF WorkTypeOK
<1>13. ReturnedInv'
  <2>1. ASSUME NEW k \in 1..Len(returned'), NEW l \in 1..Len(returned'),
               returned'[k] = returned'[l]
        PROVE  k = l
    BY <1>7, <1>12, <2>1 DEF WorkInv, ReturnedInv
  <2>2. ASSUME NEW k \in 1..Len(returned'), NEW c, c = returned'[k]
        PROVE  /\ c[1] \in Seen'
               /\ c[1] \in DOMAIN ssfiles' => c[2] <= ssfiles'[c[1]].cdid
    <3>1. CASE k \in 1..Len(returned) /\ c = returned[k]
      <4>1. c[1] \in Seen /\ (c[1] \in DOMAIN ssfiles => c[2] <= ssfiles[c[1]].cdid)
        BY <3>1 DEF WorkInv, ReturnedInv
      <4>2. CASE c[1] = n
        <5>1. c[2] \in Nat
          BY <1>2, <3>1 DEF WorkTypeOK, Command
        <5> QED  BY <1>3, <1>4, <1>5, <4>1, <4>2, <5>1
      <4>3. CASE c[1] # n
        BY <1>4, <1>5, <4>1, <4>3
      <4> QED  BY <4>2, <4>3
    <3>2. CASE c = <<n, i>>
      <4>1. n \in Seen
        BY DEF WorkInv, MemoryInv
      <4> QED  BY <1>3, <1>4, <1>5, <3>2, <4>1
    <3> QED  BY <1>12, <2>2, <3>1, <3>2
  <2> QED  BY <2>1, <2>2 DEF ReturnedInv
<1>14. DidInv'
  <2>1. ASSUME NEW c \in did
        PROVE  /\ c[1] \in Seen'
               /\ c[1] \notin DOMAIN ssfiles' => ~spool'[c[1]].there
               /\ c[1] \in DOMAIN ssfiles' =>
                    c[2] <= ssfiles'[c[1]].cdid /\ c[2] \notin ssfiles'[c[1]].qfile
                      /\ ssfiles'[c[1]].lines[c[2]] # "bad"
    <3>1. /\ c[1] \in Seen
          /\ c[1] \notin DOMAIN ssfiles => ~spool[c[1]].there
          /\ c[1] \in DOMAIN ssfiles =>
               c[2] <= ssfiles[c[1]].cdid /\ c[2] \notin ssfiles[c[1]].qfile
                 /\ ssfiles[c[1]].lines[c[2]] # "bad"
      BY DEF WorkInv, DidInv
    <3>2. CASE c[1] = n
      <4>1. c[2] \in Nat
        BY <1>2 DEF WorkTypeOK, Command
      <4> QED  BY <1>3, <1>4, <1>5, <3>1, <3>2, <4>1
    <3>3. CASE c[1] # n
      BY <1>1, <1>4, <1>5, <3>1, <3>3
    <3> QED  BY <3>2, <3>3
  <2> QED  BY <1>1, <2>1 DEF DidInv
<1>15. ReadInv'
  <2>1. ASSUME NEW k \in 1..i
        PROVE  file.lines[k] = "bad" \/ k \in file.qfile \/ <<n, k>> \in did
    <3>1. CASE k = i
      BY <3>1
    <3>2. CASE k # i
      <4>1. k \in 1..ssfiles[n].cdid
        BY <1>3, <3>2
      <4>2. ~AllDone(ssfiles[n])
        BY <1>3 DEF AllDone, Count
      <4>3. ssfiles[n].lines[k] = "bad" \/ k \in ssfiles[n].qfile \/ <<n, k>> \in did
        BY <4>1, <4>2 DEF WorkInv, ReadInv
      <4> QED  BY <4>3
    <3> QED  BY <3>1, <3>2
  <2>2. ASSUME NEW m \in DOMAIN ssfiles, m # n, ~AllDone(ssfiles[m]),
               NEW k \in 1..ssfiles[m].cdid
        PROVE  ssfiles[m].lines[k] = "bad" \/ k \in ssfiles[m].qfile \/ <<m, k>> \in did
    BY <2>2 DEF WorkInv, ReadInv
  <2> QED  BY <1>1, <1>4, <2>1, <2>2 DEF ReadInv
<1>16. StaysInv'
  <2>1. spool[n].there /\ AllDone(file) => \E k \in 1..Count(n) : file.lines[k] = "bad"
    <3>1. AllDone(file) => line = "bad"
      BY DEF AllDone
    <3> QED  BY <1>3, <1>6, <3>1
  <2> QED  BY <1>1, <1>4, <1>5, <2>1 DEF WorkInv, StaysInv
<1> QED  BY <1>8, <1>9, <1>10, <1>11, <1>13, <1>14, <1>15, <1>16 DEF WorkInv

LEMMA NextLineStep ==
  ASSUME WorkInv, NextLine
  PROVE  WorkInv'
<1>1. WorkTypeOK
  BY DEF WorkInv
<1>2. PICK n : n = qSwork_file
  OBVIOUS
<1>3. n \in DOMAIN ssfiles /\ ssfiles[n] \in FileInMemory
  BY <1>1, <1>2 DEF NextLine, WorkTypeOK
<1>4. PICK i : i = ssfiles[n].cdid + 1
  OBVIOUS
<1>5. PICK line : line = ssfiles[n].lines[i]
  OBVIOUS
<1>6. PICK read : read = [ssfiles[n] EXCEPT !.cdid = i]
  OBVIOUS
<1>7. PICK waits : waits = [read EXCEPT !.qfile = @ \cup {i}]
  OBVIOUS
<1>8. /\ read \in FileInMemory /\ waits \in FileInMemory
      /\ read.lines = ssfiles[n].lines /\ read.cdid = i /\ read.qfile = ssfiles[n].qfile
      /\ waits.lines = ssfiles[n].lines /\ waits.cdid = i
      /\ waits.qfile = ssfiles[n].qfile \cup {i}
  <2>1. i \in Nat
    BY <1>3, <1>4 DEF FileInMemory
  <2>2. read \in FileInMemory
    BY <1>3, <1>6, <2>1 DEF FileInMemory
  <2> QED  BY <1>3, <1>6, <1>7, <2>1, <2>2 DEF FileInMemory
<1>9. /\ [ssfiles EXCEPT ![n].cdid = i] = [ssfiles EXCEPT ![n] = read]
      /\ [[ssfiles EXCEPT ![n].cdid = i] EXCEPT ![n].qfile = @ \cup {i}]
           = [ssfiles EXCEPT ![n] = waits]
  BY <1>1, <1>3, <1>6, <1>7 DEF WorkTypeOK
<1>10. /\ ssfiles[n].cdid < Count(n) /\ workAt = "getting"
       /\ UNCHANGED <<spool, temps, scan, qSwork_file, did, nSessions>>
  BY <1>2 DEF NextLine
<1>11. \/ /\ line = "bad" /\ ssfiles' = [ssfiles EXCEPT ![n] = read]
          /\ pseqs' = pseqs /\ workAt' = workAt /\ returned' = returned
       \/ /\ line # "bad" /\ ssfiles' = [ssfiles EXCEPT ![n] = waits]
          /\ pseqs' = pseqs \cup {<<n, i>>} /\ returned' = Append(returned, <<n, i>>)
          /\ workAt' = "idle"
       \/ /\ line = "send" /\ ssfiles' = [ssfiles EXCEPT ![n] = waits]
          /\ workAt' = "failed" /\ pseqs' = pseqs /\ returned' = returned
  BY <1>2, <1>4, <1>5, <1>9 DEF NextLine
<1>12. PICK file \in FileInMemory :
         /\ ssfiles' = [ssfiles EXCEPT ![n] = file]
         /\ file.lines = ssfiles[n].lines /\ file.cdid = i
         /\ \/ line = "bad" /\ file.qfile = ssfiles[n].qfile
            \/ line # "bad" /\ file.qfile = ssfiles[n].qfile \cup {i}
  BY <1>8, <1>11
<1>13. /\ \/ returned' = returned /\ pseqs' = pseqs
          \/ /\ line # "bad" /\ returned' = Append(returned, <<n, i>>)
             /\ pseqs' = pseqs \cup {<<n, i>>}
       /\ workAt' \in {"idle", "getting", "failed"}
  BY <1>10, <1>11
<1> QED  BY <1>2, <1>3, <1>4, <1>5, <1>10, <1>12, <1>13, LineRead, ZenonT(60)

LEMMA GetWorkFreeStep ==
  ASSUME WorkInv, GetWorkFree
  PROVE  WorkInv'
<1>1. /\ asSwork_files' = <<>> /\ iSwork_file' = 0 /\ qSwork_file' = NoName
      /\ ssfiles' = <<>> /\ pseqs' = {} /\ workAt' = "idle" /\ returned' = <<>> /\ did' = {}
      /\ spool' = spool /\ temps' = temps /\ nSessions' = nSessions + 1 /\ nSessions < Sessions
  BY DEF GetWorkFree
<1>2. DOMAIN ssfiles' = {} /\ Len(asSwork_files') = 0 /\ Len(returned') = 0
  BY <1>1
<1>3. WorkTypeOK'
  <2>1. nSessions' \in 0..Sessions
    BY <1>1, WorkAssumption DEF WorkInv, WorkTypeOK, WorkAssumption
  <2>2. ssfiles' \in [DOMAIN ssfiles' -> FileInMemory]
    BY <1>1
  <2> QED  BY <1>1, <1>2, <2>1, <2>2 DEF WorkInv, WorkTypeOK
<1>4. ListedOnce' /\ MemoryInv' /\ PseqsInv' /\ ReturnedInv' /\ DidInv' /\ ReadInv' /\ StaysInv'
  BY <1>1, <1>2 DEF ListedOnce, MemoryInv, PseqsInv, ReturnedInv, DidInv, ReadInv, StaysInv
<1> QED  BY <1>3, <1>4 DEF WorkInv

-----------------------------------------------------------------------------
(* A command is reported *)

(* What a report changes of the file. *)
LEMMA FileReported ==
  ASSUME WorkInv, NEW c \in pseqs
  PROVE  /\ c \in Command /\ c = <<c[1], c[2]>>
         /\ c[1] \in DOMAIN ssfiles /\ c[1] \in Names /\ ssfiles[c[1]] \in FileInMemory
         /\ c[2] \in ssfiles[c[1]].qfile /\ ssfiles[c[1]].lines[c[2]] # "bad"
         /\ c[2] \in 1..ssfiles[c[1]].cdid /\ c[1] \in Seen
<1>1. WorkTypeOK
  BY DEF WorkInv
<1>2. c \in Command /\ c = <<c[1], c[2]>>
  BY <1>1 DEF WorkTypeOK, Command
<1>3. /\ c[1] \in DOMAIN ssfiles /\ c[2] \in ssfiles[c[1]].qfile
      /\ ssfiles[c[1]].lines[c[2]] # "bad"
  BY DEF WorkInv, PseqsInv
<1>4. c[1] \in Names /\ ssfiles[c[1]] \in FileInMemory
  BY <1>1, <1>3 DEF WorkTypeOK
<1>5. c[2] \in 1..ssfiles[c[1]].cdid /\ c[1] \in Seen
  BY <1>3 DEF WorkInv, MemoryInv
<1> QED  BY <1>2, <1>3, <1>4, <1>5

(* The file is kept: it waits for one line less, and this one is done,     *)
(* unless the file should have gone.                                       *)
LEMMA ReportKept ==
  ASSUME WorkInv, NEW c \in pseqs, NEW n, NEW k, NEW file,
         n = c[1], k = c[2],
         file = [ssfiles[n] EXCEPT !.qfile = @ \ {k}],
         pseqs' = pseqs \ {c}, temps' = temps \ {c},
         IF AllDone(file) THEN did' = did ELSE did' = did \cup {c},
         ssfiles' = [ssfiles EXCEPT ![n] = file],
         UNCHANGED <<spool, qSwork_file, scan, workAt, returned, nSessions>>
  PROVE  WorkInv'
<1>1. /\ asSwork_files' = asSwork_files /\ iSwork_file' = iSwork_file
      /\ spool' = spool /\ returned' = returned
      /\ UNCHANGED <<qSwork_file, workAt, nSessions>>
  BY DEF scan
<1>2. WorkTypeOK
  BY DEF WorkInv
<1>3. /\ c \in Command /\ c = <<n, k>> /\ n \in DOMAIN ssfiles /\ n \in Names
      /\ ssfiles[n] \in FileInMemory /\ k \in ssfiles[n].qfile
      /\ ssfiles[n].lines[k] # "bad" /\ k \in 1..ssfiles[n].cdid /\ n \in Seen
  BY FileReported
<1>4. /\ file \in FileInMemory /\ file.lines = ssfiles[n].lines /\ file.cdid = ssfiles[n].cdid
      /\ file.qfile = ssfiles[n].qfile \ {k}
  BY <1>3 DEF FileInMemory
<1>5. /\ DOMAIN ssfiles' = DOMAIN ssfiles /\ ssfiles'[n] = file
      /\ \A m \in DOMAIN ssfiles : m # n => ssfiles'[m] = ssfiles[m]
      /\ ssfiles' = [m \in DOMAIN ssfiles |-> ssfiles'[m]]
  <2>1. ssfiles = [m \in DOMAIN ssfiles |-> ssfiles[m]]
    BY <1>2 DEF WorkTypeOK
  <2> QED  BY <1>3, <2>1
<1>6. /\ Seen' = Seen /\ \A m : Lines(m)' = Lines(m)
      /\ \A m \in DOMAIN ssfiles : Count(m)' = Count(m)
  BY <1>1, <1>4, <1>5 DEF Seen, Lines, Count
<1>7. WorkTypeOK'
  <2>1. ssfiles' \in [DOMAIN ssfiles' -> FileInMemory] /\ DOMAIN ssfiles' \subseteq Names
    <3>1. \A m \in DOMAIN ssfiles : ssfiles[m] \in FileInMemory /\ m \in Names
      BY <1>2 DEF WorkTypeOK
    <3>2. \A m \in DOMAIN ssfiles' : ssfiles'[m] \in FileInMemory /\ m \in Names
      BY <1>4, <1>5, <3>1
    <3> QED  BY <1>5, <3>2
  <2>2. did' \subseteq Command
    BY <1>2, <1>3 DEF WorkTypeOK
  <2> QED  BY <1>1, <1>2, <1>3, <1>5, <2>1, <2>2 DEF WorkTypeOK
<1>8. ListedOnce'
  BY <1>1 DEF WorkInv, ListedOnce
<1>9. MemoryInv'
  BY <1>4, <1>5, <1>6 DEF WorkInv, MemoryInv
<1>10. PseqsInv'
  <2>1. ASSUME NEW d \in pseqs, d # c
        PROVE  /\ d[1] \in DOMAIN ssfiles' /\ d[2] \in ssfiles'[d[1]].qfile
               /\ ssfiles'[d[1]].lines[d[2]] # "bad"
    <3>1. /\ d[1] \in DOMAIN ssfiles /\ d[2] \in ssfiles[d[1]].qfile
          /\ ssfiles[d[1]].lines[d[2]] # "bad" /\ d = <<d[1], d[2]>>
      BY FileReported
    <3>2. CASE d[1] = n
      <4>1. d[2] # k
        BY <1>3, <2>1, <3>1, <3>2
      <4> QED  BY <1>4, <1>5, <3>1, <3>2, <4>1
    <3>3. CASE d[1] # n
      BY <1>5, <3>1, <3>3
    <3> QED  BY <3>2, <3>3
  <2> QED  BY <2>1 DEF PseqsInv
<1>11. ReturnedInv'
  BY <1>1, <1>4, <1>5, <1>6 DEF WorkInv, ReturnedInv
<1>12. DidInv'
  <2>1. ASSUME NEW d \in did
        PROVE  /\ d[1] \in Seen'
               /\ d[1] \notin DOMAIN ssfiles' => ~spool'[d[1]].there
               /\ d[1] \in DOMAIN ssfiles' =>
                    d[2] <= ssfiles'[d[1]].cdid /\ d[2] \notin ssfiles'[d[1]].qfile
                      /\ ssfiles'[d[1]].lines[d[2]] # "bad"
    <3>1. /\ d[1] \in Seen
          /\ d[1] \notin DOMAIN ssfiles => ~spool[d[1]].there
          /\ d[1] \in DOMAIN ssfiles =>
               d[2] <= ssfiles[d[1]].cdid /\ d[2] \notin ssfiles[d[1]].qfile
                 /\ ssfiles[d[1]].lines[d[2]] # "bad"
      BY DEF WorkInv, DidInv
    <3>2. CASE d[1] = n
      BY <1>3, <1>4, <1>5, <1>6, <3>1, <3>2
    <3>3. CASE d[1] # n
      BY <1>1, <1>5, <1>6, <3>1, <3>3
    <3> QED  BY <3>2, <3>3
  <2>2. /\ n \in Seen' /\ n \in DOMAIN ssfiles'
        /\ k <= ssfiles'[n].cdid /\ k \notin ssfiles'[n].qfile /\ ssfiles'[n].lines[k] # "bad"
    <3>1. k <= ssfiles[n].cdid
      BY <1>3 DEF FileInMemory
    <3> QED  BY <1>3, <1>4, <1>5, <1>6, <3>1
  <2>3. c[1] = n /\ c[2] = k
    OBVIOUS
  <2>4. did' \subseteq did \cup {c}
    OBVIOUS
  <2> QED  BY <2>1, <2>2, <2>3, <2>4 DEF DidInv
<1>13. ReadInv'
  <2>1. ASSUME ~AllDone(file), NEW i \in 1..file.cdid
        PROVE  file.lines[i] = "bad" \/ i \in file.qfile \/ <<n, i>> \in did'
    <3>1. ~AllDone(ssfiles[n])
      BY <1>3 DEF AllDone
    <3>2. ssfiles[n].lines[i] = "bad" \/ i \in ssfiles[n].qfile \/ <<n, i>> \in did
      BY <1>3, <1>4, <3>1 DEF WorkInv, ReadInv
    <3> QED  BY <1>3, <1>4, <2>1, <3>2
  <2>2. ASSUME NEW m \in DOMAIN ssfiles, m # n, ~AllDone(ssfiles[m]),
               NEW i \in 1..ssfiles[m].cdid
        PROVE  ssfiles[m].lines[i] = "bad" \/ i \in ssfiles[m].qfile \/ <<m, i>> \in did'
    BY <2>2 DEF WorkInv, ReadInv
  <2> QED  BY <1>5, <2>1, <2>2 DEF ReadInv
<1>14. StaysInv'
  <2>1. ASSUME AllDone(file)
        PROVE  <<n, k>> \notin did' /\ k \in 1..Count(n)
    <3>1. <<n, k>> \notin did
      <4>1. c[1] \in DOMAIN ssfiles /\ c[2] \in ssfiles[c[1]].qfile
        BY <1>3
      <4> QED  BY <1>3, <4>1 DEF WorkInv, DidInv
    <3>2. did' = did
      BY <2>1
    <3>3. k \in Nat /\ k <= ssfiles[n].cdid /\ ssfiles[n].cdid \in Nat /\ k >= 1
      BY <1>3 DEF FileInMemory
    <3>4. ssfiles[n].cdid <= Count(n)
      BY <1>3 DEF WorkInv, MemoryInv
    <3>5. Count(n) \in Nat
      <4>1. <<"other">> \in Seq({"send", "other", "bad"})
        OBVIOUS
      <4>2. ssfiles[n].lines \in Seq({"send", "other", "bad"})
        BY <1>3, <4>1, WorkAssumption DEF FileInMemory, WorkAssumption
      <4> QED  BY <4>2 DEF Count
    <3>6. k \in 1..Count(n)
      BY <3>3, <3>4, <3>5
    <3> QED  BY <3>1, <3>2, <3>6
  <2>2. ASSUME NEW m \in DOMAIN ssfiles, m # n, spool[m].there, AllDone(ssfiles[m])
        PROVE  \E i \in 1..Count(m) : ssfiles[m].lines[i] = "bad" \/ <<m, i>> \notin did'
    <3>1. \A i : <<m, i>> # c
      BY <1>3, <2>2
    <3> QED  BY <2>2, <3>1 DEF WorkInv, StaysInv
  <2>3. ASSUME NEW m \in DOMAIN ssfiles, spool[m].there, AllDone(ssfiles'[m])
        PROVE  \E i \in 1..Count(m)' : ssfiles'[m].lines[i] = "bad" \/ <<m, i>> \notin did'
    <3>1. CASE m = n
      BY <1>5, <1>6, <2>1, <2>3, <3>1
    <3>2. CASE m # n
      BY <1>5, <1>6, <2>2, <2>3, <3>2
    <3> QED  BY <3>1, <3>2
  <2> QED  BY <1>1, <1>5, <2>3 DEF StaysInv
<1> QED  BY <1>7, <1>8, <1>9, <1>10, <1>11, <1>12, <1>13, <1>14 DEF WorkInv

(* The file is removed: nothing in memory is of it, and it is not in the spool. *)
LEMMA ReportRemoved ==
  ASSUME WorkInv, NEW c \in pseqs, NEW n, NEW k, NEW file,
         n = c[1], k = c[2],
         file = [ssfiles[n] EXCEPT !.qfile = @ \ {k}],
         pseqs' = pseqs \ {c}, did' = did \cup {c}, temps' = temps \ {c},
         AllDone(file),
         spool' = [spool EXCEPT ![n].there = FALSE],
         DOMAIN ssfiles' = DOMAIN ssfiles \ {n},
         \A m \in DOMAIN ssfiles \ {n} : ssfiles'[m] = ssfiles[m],
         ssfiles' = [m \in DOMAIN ssfiles' |-> ssfiles'[m]],
         qSwork_file' = NoName \/ (qSwork_file' = qSwork_file /\ qSwork_file # n),
         UNCHANGED <<scan, workAt, returned, nSessions>>
  PROVE  WorkInv'
<1>1. /\ asSwork_files' = asSwork_files /\ iSwork_file' = iSwork_file
      /\ returned' = returned
      /\ UNCHANGED <<workAt, nSessions>>
  BY DEF scan
<1>2. WorkTypeOK
  BY DEF WorkInv
<1>3. /\ c \in Command /\ c = <<n, k>> /\ n \in DOMAIN ssfiles /\ n \in Names
      /\ ssfiles[n] \in FileInMemory /\ k \in ssfiles[n].qfile
      /\ k \in 1..ssfiles[n].cdid /\ n \in Seen
  BY FileReported
<1>4. /\ DOMAIN ssfiles' = DOMAIN ssfiles \ {n}
      /\ \A m \in DOMAIN ssfiles' : ssfiles'[m] = ssfiles[m] /\ m \in DOMAIN ssfiles /\ m # n
      /\ ssfiles' = [m \in DOMAIN ssfiles' |-> ssfiles'[m]]
  OBVIOUS
<1>5. /\ \A m \in Names : /\ spool'[m].lines = spool[m].lines
                          /\ m # n => spool'[m] = spool[m]
      /\ ~spool'[n].there
  BY <1>2, <1>3 DEF WorkTypeOK
<1>6. /\ Seen' = Seen /\ \A m \in Names : Lines(m)' = Lines(m)
      /\ \A m \in DOMAIN ssfiles' : Count(m)' = Count(m) /\ m \in Names
  BY <1>1, <1>2, <1>4, <1>5 DEF Seen, Lines, Count, WorkTypeOK
<1>7. /\ \A d \in Command : d = <<d[1], d[2]>> /\ d[1] \in Names
      /\ file.qfile = ssfiles[n].qfile \ {k}
  BY <1>3 DEF Command, FileInMemory
<1>8. WorkTypeOK'
  <2>1. ssfiles' \in [DOMAIN ssfiles' -> FileInMemory] /\ DOMAIN ssfiles' \subseteq Names
    <3>1. \A m \in DOMAIN ssfiles : ssfiles[m] \in FileInMemory /\ m \in Names
      BY <1>2 DEF WorkTypeOK
    <3>2. \A m \in DOMAIN ssfiles' : ssfiles'[m] \in FileInMemory /\ m \in Names
      BY <1>4, <3>1
    <3> QED  BY <1>4, <3>2
  <2>2. spool' \in [Names -> [there : BOOLEAN, lines : CommandLists]]
    <3>1. \A r \in [there : BOOLEAN, lines : CommandLists] :
            [r EXCEPT !.there = FALSE] \in [there : BOOLEAN, lines : CommandLists]
      OBVIOUS
    <3>2. spool \in [Names -> [there : BOOLEAN, lines : CommandLists]]
      BY <1>2 DEF WorkTypeOK
    <3> QED  BY <1>3, <3>1, <3>2
  <2>3. qSwork_file' \in DOMAIN ssfiles' \cup {NoName}
    BY <1>2, <1>4 DEF WorkTypeOK
  <2> QED  BY <1>1, <1>2, <1>3, <2>1, <2>2, <2>3 DEF WorkTypeOK
<1>9. ListedOnce'
  BY <1>1 DEF WorkInv, ListedOnce
<1>10. MemoryInv'
  BY <1>4, <1>6 DEF WorkInv, MemoryInv
<1>11. PseqsInv'
  <2>1. ASSUME NEW d \in pseqs, d # c
        PROVE  /\ d[1] \in DOMAIN ssfiles' /\ d[2] \in ssfiles'[d[1]].qfile
               /\ ssfiles'[d[1]].lines[d[2]] # "bad"
    <3>1. /\ d[1] \in DOMAIN ssfiles /\ d[2] \in ssfiles[d[1]].qfile
          /\ ssfiles[d[1]].lines[d[2]] # "bad" /\ d = <<d[1], d[2]>>
      BY FileReported
    <3>2. CASE d[1] = n
      <4>1. d[2] # k
        BY <1>3, <2>1, <3>1, <3>2
      <4> QED  BY <1>7, <3>1, <3>2, <4>1 DEF AllDone
    <3>3. CASE d[1] # n
      BY <1>4, <3>1, <3>3
    <3> QED  BY <3>2, <3>3
  <2> QED  BY <2>1 DEF PseqsInv
<1>12. ReturnedInv'
  BY <1>1, <1>4, <1>6 DEF WorkInv, ReturnedInv
<1>13. DidInv'
  <2>1. ASSUME NEW d \in did
        PROVE  /\ d[1] \in Seen'
               /\ d[1] \notin DOMAIN ssfiles' => ~spool'[d[1]].there
               /\ d[1] \in DOMAIN ssfiles' =>
                    d[2] <= ssfiles'[d[1]].cdid /\ d[2] \notin ssfiles'[d[1]].qfile
                      /\ ssfiles'[d[1]].lines[d[2]] # "bad"
    <3>1. /\ d[1] \in Seen /\ d[1] \in Names
          /\ d[1] \notin DOMAIN ssfiles => ~spool[d[1]].there
          /\ d[1] \in DOMAIN ssfiles =>
               d[2] <= ssfiles[d[1]].cdid /\ d[2] \notin ssfiles[d[1]].qfile
                 /\ ssfiles[d[1]].lines[d[2]] # "bad"
      BY <1>2, <1>7 DEF WorkInv, DidInv, WorkTypeOK
    <3>2. CASE d[1] = n
      BY <1>4, <1>5, <1>6, <3>1, <3>2
    <3>3. CASE d[1] # n
      BY <1>4, <1>5, <1>6, <3>1, <3>3
    <3> QED  BY <3>2, <3>3
  <2>2. n \in Seen' /\ n \notin DOMAIN ssfiles' /\ ~spool'[n].there
    BY <1>3, <1>4, <1>5, <1>6
  <2> QED  BY <2>1, <2>2 DEF DidInv
<1>14. ReadInv'
  BY <1>4 DEF WorkInv, ReadInv
<1>15. StaysInv'
  BY <1>4, <1>5, <1>6 DEF WorkInv, StaysInv
<1> QED  BY <1>8, <1>9, <1>10, <1>11, <1>12, <1>13, <1>14, <1>15 DEF WorkInv

LEMMA DidWorkStep ==
  ASSUME WorkInv, NEW c \in pseqs, DidWork(c)
  PROVE  WorkInv'
<1>1. PICK n : n = c[1]
  OBVIOUS
<1>2. PICK k : k = c[2]
  OBVIOUS
<1>3. PICK file : file = [ssfiles[n] EXCEPT !.qfile = @ \ {k}]
  OBVIOUS
<1>4. /\ pseqs' = pseqs \ {c} /\ temps' = temps \ {c}
      /\ UNCHANGED <<scan, workAt, returned, nSessions>>
  BY DEF DidWork
<1>5. \/ /\ IF AllDone(file) THEN did' = did ELSE did' = did \cup {c}
         /\ ssfiles' = [ssfiles EXCEPT ![n] = file]
         /\ UNCHANGED <<spool, qSwork_file>>
      \/ /\ AllDone(file) /\ did' = did \cup {c}
         /\ spool' = [spool EXCEPT ![n].there = FALSE]
         /\ ssfiles' = [m \in DOMAIN ssfiles \ {n} |-> ssfiles[m]]
         /\ qSwork_file' = IF qSwork_file = n THEN NoName ELSE qSwork_file
  BY <1>1, <1>2, <1>3 DEF DidWork
<1>6. CASE /\ IF AllDone(file) THEN did' = did ELSE did' = did \cup {c}
           /\ ssfiles' = [ssfiles EXCEPT ![n] = file]
           /\ UNCHANGED <<spool, qSwork_file>>
  BY <1>1, <1>2, <1>3, <1>4, <1>6, ReportKept
<1>7. CASE /\ AllDone(file) /\ did' = did \cup {c}
           /\ spool' = [spool EXCEPT ![n].there = FALSE]
           /\ ssfiles' = [m \in DOMAIN ssfiles \ {n} |-> ssfiles[m]]
           /\ qSwork_file' = IF qSwork_file = n THEN NoName ELSE qSwork_file
  <2>1. /\ DOMAIN ssfiles' = DOMAIN ssfiles \ {n}
        /\ \A m \in DOMAIN ssfiles \ {n} : ssfiles'[m] = ssfiles[m]
        /\ ssfiles' = [m \in DOMAIN ssfiles' |-> ssfiles'[m]]
    BY <1>7
  <2>2. qSwork_file' = NoName \/ (qSwork_file' = qSwork_file /\ qSwork_file # n)
    BY <1>7
  <2>3. /\ AllDone(file) /\ did' = did \cup {c}
        /\ spool' = [spool EXCEPT ![n].there = FALSE]
    BY <1>7
  <2> QED  BY <1>1, <1>2, <1>3, <1>4, <2>1, <2>2, <2>3, ReportRemoved
<1> QED  BY <1>5, <1>6, <1>7

-----------------------------------------------------------------------------
(* The directory is searched again *)

(* The sorted list of a finite set has every member of it once. *)
LEMMA SortedList ==
  ASSUME NEW S, Cardinality(S) \in Nat, NEW s \in Sorted(S)
  PROVE  /\ s \in Seq(S) /\ Len(s) = Cardinality(S)
         /\ \A i, j \in 1..Len(s) : s[i] = s[j] => i = j
         /\ \A x \in S : \E i \in 1..Len(s) : s[i] = x
         /\ NamesInOrder(s) /\ ToSet(s) = S
<1>1. s \in Bijection(1..Cardinality(S), S)
  BY DEF Sorted
<1>2. /\ s \in [1..Cardinality(S) -> S]
      /\ \A i, j \in 1..Cardinality(S) : s[i] = s[j] => i = j
      /\ \A x \in S : \E i \in 1..Cardinality(S) : s[i] = x
  BY <1>1 DEF Bijection, Injection, Surjection, IsInjective
<1>3. s \in Seq(S) /\ Len(s) = Cardinality(S)
  BY <1>2
<1>4. NamesInOrder(s)
  BY DEF Sorted, NamesInOrder
<1>5. ToSet(s) = S
  BY <1>2 DEF ToSet
<1> QED  BY <1>2, <1>3, <1>4, <1>5

(* The list of the scan has as many places as names. *)
LEMMA ListCounted ==
  ASSUME WorkTypeOK, ListedOnce
  PROVE  Cardinality(ToSet(asSwork_files)) = Len(asSwork_files)
<1>1. PICK L \in Nat : L = Len(asSwork_files) /\ DOMAIN asSwork_files = 1..L
  BY DEF WorkTypeOK
<1>2. asSwork_files \in [1..L -> ToSet(asSwork_files)]
  <2>1. \A i \in 1..L : asSwork_files[i] \in ToSet(asSwork_files)
    BY <1>1 DEF ToSet
  <2>2. asSwork_files \in Seq(Names)
    BY DEF WorkTypeOK
  <2> QED  BY <1>1, <2>1, <2>2
<1>3. asSwork_files \in Injection(1..L, ToSet(asSwork_files))
  BY <1>1, <1>2 DEF ListedOnce, Injection, IsInjective
<1>4. asSwork_files \in Surjection(1..L, ToSet(asSwork_files))
  BY <1>1, <1>2 DEF Surjection, ToSet
<1>5. ExistsBijection(1..L, ToSet(asSwork_files))
  BY <1>3, <1>4 DEF ExistsBijection, Bijection
<1> QED  BY <1>1, <1>5, FS_CountingElements

(* The new files are none that the list has, because it is in order. *)
LEMMA NewFilesAreNew ==
  ASSUME NEW bgrade \in Names, NEW cmax \in Nat, NEW known, NamesInOrder(known),
         NEW new \in NewFiles(known, bgrade, cmax)
  PROVE  /\ new \subseteq Names /\ Cardinality(new) \in Nat
         /\ \A n \in new : n \notin ToSet(known)
<1>1. new \subseteq {n \in 1..bgrade : spool[n].there} \ ToSet(known)
  BY DEF NewFiles, Bsearch, kSubset
<1>2. WorkFiles \in Nat /\ bgrade \in Nat /\ bgrade <= WorkFiles
  BY WorkAssumption DEF WorkAssumption, Names
<1>3. new \subseteq 1..bgrade
  BY <1>1
<1>4. Cardinality(new) \in Nat
  <2>1. IsFiniteSet(1..bgrade)
    BY <1>2, FS_Interval
  <2>2. IsFiniteSet(new)
    BY <1>3, <2>1, FS_Subset
  <2> QED  BY <2>2, FS_CardinalityType
<1> QED  BY <1>1, <1>2, <1>3, <1>4 DEF Names

(* Between two scans a search adds names to the list behind those seen.    *)
LEMMA SearchAdds ==
  ASSUME WorkInv, MidScan = FALSE, NEW bgrade \in Names, GetWorkInit(bgrade)
  PROVE  /\ asSwork_files' \in Seq(Names) /\ iSwork_file \in 0..Len(asSwork_files')
         /\ \A i, j \in 1..Len(asSwork_files') : asSwork_files'[i] = asSwork_files'[j] => i = j
         /\ {asSwork_files'[j] : j \in 1..iSwork_file} = Seen
<1>1. WorkTypeOK /\ ListedOnce
  BY DEF WorkInv
<1>2. PICK L \in Nat : L = iSwork_file /\ L = Len(asSwork_files)
  BY <1>1 DEF GetWorkInit, MayInit, WorkTypeOK
<1>3. PICK S : S = ToSet(asSwork_files)
  OBVIOUS
<1>4. S \subseteq Names /\ S = Seen /\ Cardinality(S) = L
  <2>1. S = Seen /\ S \subseteq Names
    BY <1>1, <1>2, <1>3 DEF ToSet, Seen, WorkTypeOK
  <2> QED  BY <1>1, <1>2, <1>3, <2>1, ListCounted
<1>5. PICK known \in Sorted(S), cmax \in {0, 1} :
        \E new \in NewFiles(known, bgrade, cmax) :
          \E rest \in Sorted(ToSet(SubSeq(known, L + 1, Len(known))) \cup new) :
            asSwork_files' = SubSeq(known, 1, L) \o rest
  BY <1>2, <1>3 DEF GetWorkInit
<1>6. /\ known \in Seq(S) /\ Len(known) = L
      /\ \A i, j \in 1..L : known[i] = known[j] => i = j
      /\ \A x \in S : \E i \in 1..L : known[i] = x
      /\ NamesInOrder(known) /\ ToSet(known) = S
  BY <1>4, SortedList
<1>7. PICK new \in NewFiles(known, bgrade, cmax) :
        \E rest \in Sorted(ToSet(SubSeq(known, L + 1, Len(known))) \cup new) :
          asSwork_files' = SubSeq(known, 1, L) \o rest
  BY <1>5
<1>8. new \subseteq Names /\ Cardinality(new) \in Nat /\ \A n \in new : n \notin S
  BY <1>6, NewFilesAreNew
<1>9. ToSet(SubSeq(known, L + 1, Len(known))) \cup new = new
  <2>1. SubSeq(known, L + 1, Len(known)) = <<>>
    BY <1>6
  <2>2. ToSet(<<>>) = {}
    BY DEF ToSet
  <2> QED  BY <2>1, <2>2
<1>10. PICK rest \in Sorted(new) : asSwork_files' = SubSeq(known, 1, L) \o rest
  BY <1>7, <1>9
<1>11. /\ rest \in Seq(new) /\ \A i, j \in 1..Len(rest) : rest[i] = rest[j] => i = j
  BY <1>8, SortedList
<1>12. asSwork_files' = known \o rest
  <2>1. SubSeq(known, 1, L) = known
    BY <1>6
  <2> QED  BY <1>10, <2>1
<1>13. /\ asSwork_files' \in Seq(Names) /\ Len(asSwork_files') = L + Len(rest)
       /\ \A i \in 1..L : asSwork_files'[i] = known[i] /\ known[i] \in S
       /\ \A i \in (L + 1)..(L + Len(rest)) :
            /\ asSwork_files'[i] = rest[i - L] /\ rest[i - L] \in new
            /\ i - L \in 1..Len(rest)
       /\ Len(rest) \in Nat
  <2>1. known \in Seq(Names) /\ rest \in Seq(Names)
    BY <1>4, <1>6, <1>8, <1>11
  <2> QED  BY <1>6, <1>11, <1>12, <2>1
<1>14. ASSUME NEW i \in 1..Len(asSwork_files'), NEW j \in 1..Len(asSwork_files'),
              asSwork_files'[i] = asSwork_files'[j]
       PROVE  i = j
  <2>1. CASE i <= L /\ j <= L
    BY <1>6, <1>13, <1>14, <2>1
  <2>2. CASE i > L /\ j > L
    <3>1. rest[i - L] = rest[j - L] /\ i - L \in 1..Len(rest) /\ j - L \in 1..Len(rest)
      BY <1>13, <1>14, <2>2
    <3>2. i - L = j - L
      BY <1>11, <3>1
    <3> QED  BY <1>13, <3>2
  <2>3. CASE i <= L /\ j > L
    BY <1>8, <1>13, <1>14, <2>3
  <2>4. CASE i > L /\ j <= L
    BY <1>8, <1>13, <1>14, <2>4
  <2> QED  BY <1>13, <2>1, <2>2, <2>3, <2>4
<1>15. {asSwork_files'[j] : j \in 1..L} = S
  <2>1. \A j \in 1..L : asSwork_files'[j] = known[j] /\ known[j] \in S
    BY <1>6, <1>13
  <2>2. \A x \in S : \E j \in 1..L : asSwork_files'[j] = x
    BY <1>6, <2>1
  <2> QED  BY <2>1, <2>2
<1>16. L \in 0..Len(asSwork_files')
  BY <1>13
<1> QED  BY <1>2, <1>4, <1>13, <1>14, <1>15, <1>16

LEMMA GetWorkInitStep ==
  ASSUME WorkInv, MidScan = FALSE, NEW bgrade \in Names, GetWorkInit(bgrade)
  PROVE  WorkInv'
<1>1. /\ iSwork_file' = iSwork_file /\ spool' = spool /\ temps' = temps
      /\ ssfiles' = ssfiles /\ pseqs' = pseqs /\ returned' = returned /\ did' = did
      /\ UNCHANGED <<qSwork_file, workAt, nSessions>>
  BY DEF GetWorkInit
<1>2. /\ asSwork_files' \in Seq(Names) /\ iSwork_file \in 0..Len(asSwork_files')
      /\ \A i, j \in 1..Len(asSwork_files') : asSwork_files'[i] = asSwork_files'[j] => i = j
      /\ {asSwork_files'[j] : j \in 1..iSwork_file} = Seen
  BY SearchAdds
<1>3. Seen' = Seen /\ \A n : Lines(n)' = Lines(n) /\ Count(n)' = Count(n)
  BY <1>1, <1>2 DEF Seen, Lines, Count
<1>4. WorkTypeOK' /\ ListedOnce'
  BY <1>1, <1>2 DEF WorkInv, WorkTypeOK, ListedOnce
<1>5. MemoryInv' /\ PseqsInv'
  BY <1>1, <1>3 DEF WorkInv, MemoryInv, PseqsInv
<1>6. ReturnedInv' /\ DidInv'
  BY <1>1, <1>3 DEF WorkInv, ReturnedInv, DidInv
<1>7. ReadInv' /\ StaysInv'
  BY <1>1, <1>3 DEF WorkInv, ReadInv, StaysInv
<1> QED  BY <1>4, <1>5, <1>6, <1>7 DEF WorkInv

-----------------------------------------------------------------------------
(* The theorems about the scan *)

(* The invariant of the scan: its list has a file once, what is in memory  *)
(* is of a file that was seen, and a line that was read is bad, waited for *)
(* or done (fsysdep_get_work_init, fsysdep_get_work, fsysdep_did_work).  A *)
(* search waits for the end of the scan before it, as src/system.h asks of *)
(* the caller.                                                             *)
THEOREM WorkInvariant ==
  ASSUME MidScan = FALSE
  PROVE  WorkSpec => []WorkInv
<1>1. ASSUME WorkInv, WorkNext
      PROVE  WorkInv'
  <2>1. CASE \E n \in Names : KillJob(n)
    BY <1>1, <2>1, KillJobStep
  <2>2. CASE \E n \in Names : \E lines \in CommandLists : SpoolCommands(n, lines)
    BY <1>1, <2>2, SpoolCommandsStep
  <2>3. CASE \E bgrade \in Names : GetWorkInit(bgrade)
    BY <1>1, <2>3, GetWorkInitStep
  <2>4. CASE GetWork \/ NoMoreWork \/ FileUsedUp \/ \E c \in pseqs : SaveTempFile(c)
    BY <1>1, <2>4, CallsStep
  <2>5. CASE ReadFile
    BY <1>1, <2>5, ReadFileStep
  <2>6. CASE PassFile
    BY <1>1, <2>6, PassFileStep
  <2>7. CASE NextLine
    BY <1>1, <2>7, NextLineStep
  <2>8. CASE \E c \in pseqs : DidWork(c)
    BY <1>1, <2>8, DidWorkStep
  <2>9. CASE GetWorkFree
    BY <1>1, <2>9, GetWorkFreeStep
  <2> QED
    BY <1>1, <2>1, <2>2, <2>3, <2>4, <2>5, <2>6, <2>7, <2>8, <2>9 DEF WorkNext
<1>2. ASSUME WorkInv, UNCHANGED workVars
      PROVE  WorkInv'
  <2>1. WorkTypeOK'
    BY <1>2 DEF workVars, scan, WorkInv, WorkTypeOK
  <2> QED  BY <1>2, <2>1, QuietStep DEF workVars, scan
<1>3. WorkInv /\ [WorkNext]_workVars => WorkInv'
  BY <1>1, <1>2
<1> QED  BY <1>3, WorkInvInit, PTL DEF WorkSpec

(* The types of the scan, with a file in memory only of a name there is,   *)
(* and a place in the list that is in it.                                  *)
THEOREM WorkTypeCorrect ==
  ASSUME MidScan = FALSE
  PROVE  WorkSpec => []WorkTypeOK
<1>1. WorkInv => WorkTypeOK
  BY DEF WorkInv
<1> QED  BY <1>1, WorkInvariant, PTL

(* A scan returns a command once, however often the directory is searched  *)
(* while it lasts, and a file all of whose lines are reported does not     *)
(* stay in the spool (fsysdep_get_work_init, fsysdep_did_work).            *)
THEOREM ScanReturnsOnce ==
  ASSUME MidScan = FALSE
  PROVE  WorkSpec => []ScanOnce
<1>1. ASSUME WorkInv
      PROVE  ReturnedOnce
  <2>1. DOMAIN returned = 1..Len(returned)
    BY <1>1 DEF WorkInv, WorkTypeOK
  <2> QED  BY <1>1, <2>1 DEF WorkInv, ReturnedInv, ReturnedOnce, IsInjective
<1>2. ASSUME WorkInv
      PROVE  DoneIsGone
  <2>1. SUFFICES ASSUME NEW n \in ToSet(asSwork_files), spool[n].there,
                        \A i \in 1..Len(Lines(n)) : <<n, i>> \in did
                 PROVE  FALSE
    BY DEF DoneIsGone
  <2>2. n \in Names /\ Len(Lines(n)) \in Nat /\ Len(Lines(n)) > 0
    <3>1. n \in Names
      BY <1>2, <2>1 DEF WorkInv, WorkTypeOK, ToSet
    <3>2. spool[n].lines \in Seq({"send", "other", "bad"})
      BY <1>2, <3>1, WorkAssumption DEF WorkInv, WorkTypeOK, WorkAssumption
    <3> QED  BY <3>1, <3>2 DEF Lines
  <2>3. \A i \in 1..Len(Lines(n)) : <<n, i>>[1] = n /\ <<n, i>>[2] = i
    OBVIOUS
  <2>4. n \in DOMAIN ssfiles
    <3>1. <<n, 1>> \in did /\ <<n, 1>>[1] = n
      BY <2>1, <2>2
    <3> QED  BY <1>2, <2>1, <3>1 DEF WorkInv, DidInv
  <2>5. ssfiles[n].lines = Lines(n) /\ Count(n) = Len(Lines(n)) /\ ssfiles[n].cdid \in Nat
    BY <1>2, <2>4 DEF WorkInv, MemoryInv, Count, WorkTypeOK, FileInMemory
  <2>6. \A i \in 1..Count(n) : /\ i <= ssfiles[n].cdid /\ i \notin ssfiles[n].qfile
                               /\ ssfiles[n].lines[i] # "bad"
    <3>1. ASSUME NEW i \in 1..Count(n), NEW c, c = <<n, i>>
          PROVE  /\ i <= ssfiles[n].cdid /\ i \notin ssfiles[n].qfile
                 /\ ssfiles[n].lines[i] # "bad"
      <4>1. c \in did /\ c[1] = n /\ c[2] = i
        BY <2>1, <2>5, <3>1
      <4> QED  BY <1>2, <2>4, <4>1 DEF WorkInv, DidInv
    <3> QED  BY <3>1
  <2>7. ssfiles[n].cdid >= Count(n) /\ ssfiles[n].qfile = {}
    <3>1. ssfiles[n].cdid >= Count(n)
      BY <2>2, <2>5, <2>6
    <3>2. ASSUME NEW i \in ssfiles[n].qfile
          PROVE  FALSE
      <4>1. i \in 1..ssfiles[n].cdid /\ ssfiles[n].cdid <= Count(n)
        BY <1>2, <2>4 DEF WorkInv, MemoryInv
      <4>2. i \in 1..Count(n)
        BY <2>2, <2>5, <4>1
      <4> QED  BY <2>6, <4>2
    <3> QED  BY <3>1, <3>2
  <2>8. AllDone(ssfiles[n])
    BY <2>7 DEF AllDone, Count
  <2> QED  BY <1>2, <2>1, <2>4, <2>5, <2>6, <2>8 DEF WorkInv, StaysInv
<1>3. WorkInv => ScanOnce
  BY <1>1, <1>2 DEF ScanOnce
<1> QED  BY <1>3, WorkInvariant, PTL

(* A command file goes only when every command of it has been returned and *)
(* reported in the scan (fsysdep_did_work).                                *)
THEOREM NoCommandIsLost ==
  ASSUME MidScan = FALSE
  PROVE  WorkSpec => NoCommandLost
<1> DEFINE Kept ==
      \A n \in Names :
        spool[n].there /\ ~spool'[n].there /\ did' # did =>
          \A i \in 1..Len(spool[n].lines) : spool[n].lines[i] # "bad" => <<n, i>> \in did'
<1>1. ASSUME WorkInv, WorkNext
      PROVE  Kept
  <2>1. SUFFICES ASSUME NEW n \in Names, spool[n].there, ~spool'[n].there, did' # did,
                        NEW i \in 1..Len(spool[n].lines), spool[n].lines[i] # "bad"
                 PROVE  <<n, i>> \in did'
    OBVIOUS
  <2>2. WorkTypeOK
    BY <1>1 DEF WorkInv
  <2>3. \/ \E c \in pseqs : DidWork(c)
        \/ GetWorkFree
    BY <1>1, <2>1
       DEF WorkNext, KillJob, SpoolCommands, GetWorkInit, GetWork, ReadFile, PassFile,
           NoMoreWork, FileUsedUp, NextLine, SaveTempFile
  <2>4. ~GetWorkFree
    BY <2>1 DEF GetWorkFree
  <2>5. PICK c \in pseqs : DidWork(c)
    BY <2>3, <2>4
  <2>6. PICK m : m = c[1]
    OBVIOUS
  <2>7. PICK k : k = c[2]
    OBVIOUS
  <2>8. /\ c = <<m, k>> /\ m \in DOMAIN ssfiles /\ m \in Names
        /\ ssfiles[m] \in FileInMemory
    BY <1>1, <2>6, <2>7, FileReported
  <2>9. PICK file : file = [ssfiles[m] EXCEPT !.qfile = @ \ {k}]
    OBVIOUS
  <2>10. /\ did' = did \cup {c}
         /\ k \in ssfiles[m].qfile
         /\ spool' = spool \/ (AllDone(file) /\ spool' = [spool EXCEPT ![m].there = FALSE])
    <3>1. k \in ssfiles[m].qfile
      BY <1>1, <2>6, <2>7, FileReported
    <3>2. /\ did' = did \/ did' = did \cup {c}
          /\ spool' = spool \/ (AllDone(file) /\ spool' = [spool EXCEPT ![m].there = FALSE])
      BY <2>5, <2>6, <2>7, <2>9 DEF DidWork
    <3> QED  BY <2>1, <3>1, <3>2
  <2>11. AllDone(file) /\ m = n
    BY <2>1, <2>2, <2>8, <2>10 DEF WorkTypeOK
  <2>12. /\ file.lines = ssfiles[n].lines /\ file.cdid = ssfiles[n].cdid
         /\ file.qfile = ssfiles[n].qfile \ {k}
    BY <2>8, <2>9, <2>11 DEF FileInMemory
  <2>13. /\ ssfiles[n].lines = Lines(n)
         /\ \A j \in 1..ssfiles[n].cdid :
              ssfiles[n].lines[j] = "bad" \/ j \in ssfiles[n].qfile \/ <<n, j>> \in did
    <3>1. ~AllDone(ssfiles[n])
      BY <2>10, <2>11 DEF AllDone
    <3> QED  BY <1>1, <2>8, <2>11, <3>1 DEF WorkInv, MemoryInv, ReadInv
  <2>14. spool[n].lines \in Seq({"send", "other", "bad"})
    BY <2>2, WorkAssumption DEF WorkTypeOK, WorkAssumption
  <2>15. ssfiles[n].lines = spool[n].lines
    BY <2>1, <2>13, <2>14 DEF Lines
  <2>16. i \in 1..ssfiles[n].cdid
    <3>1. ssfiles[n].cdid \in Nat /\ Len(spool[n].lines) \in Nat
      BY <2>8, <2>11, <2>14 DEF FileInMemory
    <3>2. ssfiles[n].cdid >= Len(spool[n].lines)
      BY <2>11, <2>12, <2>15 DEF AllDone
    <3> QED  BY <3>1, <3>2
  <2>17. i \in ssfiles[n].qfile \/ <<n, i>> \in did
    BY <2>1, <2>13, <2>15, <2>16
  <2>18. i \in ssfiles[n].qfile => i = k
    BY <2>11, <2>12 DEF AllDone
  <2> QED  BY <2>8, <2>10, <2>11, <2>17, <2>18
<1>2. WorkInv /\ [WorkNext]_workVars => [Kept]_workVars
  BY <1>1
<1> QED  BY <1>2, WorkInvariant, PTL DEF WorkSpec, NoCommandLost

-----------------------------------------------------------------------------
(* The invariant *)

WithFile == {"file", "dir", "executing", "unlockDir", "unlockFile"}
Working  == {"locked", "scan", "found", "scanned"} \cup WithFile

HoldsSlot(p)    == uuxqt[p].at = "command" \/ uuxqt[p].at \in Working
HoldsCommand(p) == /\ uuxqt[p].at = "unlockCommand" \/ uuxqt[p].at \in Working
                   /\ uuxqt[p].cmd # AnyCommand
HoldsFile(p)    == uuxqt[p].at \in WithFile

(* A process has a lock if and only if it is at a place where it must. *)
LocksAsPlaced(p) ==
  /\ HoldsSlot(p) => uuxqt[p].i \in Slots
  /\ uuxqt[p].at = "found" \/ HoldsFile(p) => uuxqt[p].file \in XqtFiles
  /\ uuxqt[p].at \in {"command", "unlockCommand"} => uuxqt[p].cmd # AnyCommand
  /\ \A i \in Slots :
       xqtLocks[SlotLock(i)] = p <=> HoldsSlot(p) /\ uuxqt[p].i = i
  /\ \A c \in XqtCommands \ {AnyCommand} :
       xqtLocks[CommandLock(c)] = p <=> HoldsCommand(p) /\ uuxqt[p].cmd = c
  /\ \A f \in XqtFiles :
       xqtLocks[FileLock(f)] = p <=> HoldsFile(p) /\ uuxqt[p].file = f

XqtLocksHeld == \A p \in Uuxqts : LocksAsPlaced(p)

(* A directory is empty when it is locked and has the files of one command *)
(* when that is executed; a file that is done with is not there.           *)
FinishedGone == \A f \in finished : f \notin xqtSpool

FilesAsPlaced(p) ==
  /\ uuxqt[p].at \in {"dir", "executing"} => uuxqt[p].file \in xqtSpool
  /\ uuxqt[p].at = "dir" => xqtDirs[uuxqt[p].i] = {}
  /\ uuxqt[p].at = "executing" => xqtDirs[uuxqt[p].i] = {uuxqt[p].file}

XqtFilesSafe == FinishedGone /\ \A p \in Uuxqts : FilesAsPlaced(p)

NoOrphans == ~Orphans => orphans = {}

XqtInv == XqtTypeOK /\ XqtLocksHeld /\ XqtFilesSafe /\ NoOrphans

-----------------------------------------------------------------------------
(* Locks and types *)

(* No two locks have the same name. *)
LEMMA LockNamesDiffer ==
  /\ \A i, j \in Slots : SlotLock(i) = SlotLock(j) => i = j
  /\ \A c, d \in XqtCommands : CommandLock(c) = CommandLock(d) => c = d
  /\ \A f, g \in XqtFiles : FileLock(f) = FileLock(g) => f = g
  /\ \A i \in Slots, c \in XqtCommands : SlotLock(i) # CommandLock(c)
  /\ \A c \in XqtCommands, f \in XqtFiles : CommandLock(c) # FileLock(f)
  /\ \A i \in Slots, f \in XqtFiles : SlotLock(i) # FileLock(f)
  BY DEF SlotLock, CommandLock, FileLock

(* Each of them is one. *)
LEMMA LockNamesNamed ==
  /\ \A i \in Slots : SlotLock(i) \in XqtLockNames
  /\ \A c \in XqtCommands \ {AnyCommand} : CommandLock(c) \in XqtLockNames
  /\ \A f \in XqtFiles : FileLock(f) \in XqtLockNames
  BY DEF XqtLockNames, XqtCommands

LEMMA RestingTyped == Resting \in UuxqtStates
  BY UuxqtAssumption
  DEF UuxqtAssumption, Resting, UuxqtStates, Ats, XqtCommands

LEMMA XqtTypesInit == XqtInit => XqtTypeOK
  BY RestingTyped, UuxqtAssumption DEF UuxqtAssumption, XqtInit, XqtTypeOK

(* Every step keeps the types. *)
LEMMA XqtTypesStep ==
  ASSUME XqtTypeOK, XqtLocksHeld, [XqtNext]_xqtVars
  PROVE  XqtTypeOK'
  <1>. USE DEF XqtTypeOK
  <1>0. \A p \in Uuxqts : uuxqt[p] \in UuxqtStates
    OBVIOUS
  <1>1. ASSUME NEW p \in Uuxqts, NEW cmd \in XqtCommands, LockUuxqt(p, cmd)
        PROVE  XqtTypeOK'
    BY <1>1, <1>0, RestingTyped
    DEF LockUuxqt, AtXqt, XqtGoes, Free, Takes, Gives, MySlot, UuxqtStates,
        Ats, Slots
  <1>2. ASSUME NEW p \in Uuxqts, TrySlot(p)
        PROVE  XqtTypeOK'
    <2>1. UNCHANGED <<xqtSpool, xqtDirs, orphans, finished, nXqtCrashes>>
      BY <1>2 DEF TrySlot
    <2>2. xqtLocks' \in [XqtLockNames -> Uuxqts \cup {Nobody, Dead}]
      BY <1>2 DEF TrySlot, Takes
    <2>3. uuxqt[p].i + 1 \in 0..MaxUuxqts
      BY <1>2, <1>0, UuxqtAssumption DEF TrySlot, UuxqtStates, UuxqtAssumption
    <2>4. uuxqt' \in [Uuxqts -> UuxqtStates]
      BY <1>2, <1>0, <2>3 DEF TrySlot, XqtGoes, UuxqtStates, Ats
    <2>. QED  BY <2>1, <2>2, <2>4
  <1>3. ASSUME NEW p \in Uuxqts, NoSlot(p)
        PROVE  XqtTypeOK'
    BY <1>3, <1>0, RestingTyped
    DEF NoSlot, AtXqt, XqtGoes, Free, Takes, Gives, MySlot, UuxqtStates, Ats,
        Slots
  <1>4. ASSUME NEW p \in Uuxqts, LockCommand(p)
        PROVE  XqtTypeOK'
    <2>1. UNCHANGED <<xqtSpool, xqtDirs, orphans, finished, nXqtCrashes>>
      BY <1>4 DEF LockCommand
    <2>2. xqtLocks' \in [XqtLockNames -> Uuxqts \cup {Nobody, Dead}]
      BY <1>4 DEF LockCommand, Takes, Gives
    <2>3. uuxqt' \in [Uuxqts -> UuxqtStates]
      BY <1>4, <1>0, RestingTyped DEF LockCommand, XqtGoes, UuxqtStates, Ats
    <2>. QED  BY <2>1, <2>2, <2>3
  <1>5. ASSUME NEW p \in Uuxqts, UnlockSlot(p)
        PROVE  XqtTypeOK'
    BY <1>5, <1>0, RestingTyped, ZenonT(60)
    DEF UnlockSlot, AtXqt, XqtGoes, Free, Takes, Gives, MySlot, UuxqtStates,
        Ats, Slots
  <1>6. ASSUME NEW p \in Uuxqts, UnlockCommand(p)
        PROVE  XqtTypeOK'
    BY <1>6, <1>0, RestingTyped
    DEF UnlockCommand, AtXqt, XqtGoes, Free, Takes, Gives, MySlot, UuxqtStates,
        Ats, Slots
  <1>7. ASSUME NEW p \in Uuxqts, GetXqtInit(p)
        PROVE  XqtTypeOK'
    BY <1>7, <1>0, RestingTyped, ZenonT(60)
    DEF GetXqtInit, AtXqt, XqtGoes, Free, Takes, Gives, MySlot, UuxqtStates,
        Ats, Slots
  <1>8. ASSUME NEW p \in Uuxqts, GetXqtEnd(p)
        PROVE  XqtTypeOK'
    BY <1>8, <1>0, RestingTyped
    DEF GetXqtEnd, AtXqt, XqtGoes, Free, Takes, Gives, MySlot, UuxqtStates,
        Ats, Slots
  <1>9. ASSUME NEW p \in Uuxqts, NEW f \in XqtFiles, GetXqt(p, f)
        PROVE  XqtTypeOK'
    BY <1>9, <1>0, RestingTyped
    DEF GetXqt, AtXqt, XqtGoes, Free, Takes, Gives, MySlot, UuxqtStates, Ats,
        Slots
  <1>10. ASSUME NEW p \in Uuxqts, LockUuxqtFile(p)
        PROVE  XqtTypeOK'
    <2>1. UNCHANGED <<xqtSpool, xqtDirs, orphans, finished, nXqtCrashes>>
      BY <1>10 DEF LockUuxqtFile
    <2>2. xqtLocks' \in [XqtLockNames -> Uuxqts \cup {Nobody, Dead}]
      BY <1>10 DEF LockUuxqtFile, Takes, Gives
    <2>3. uuxqt' \in [Uuxqts -> UuxqtStates]
      BY <1>10, <1>0, RestingTyped DEF LockUuxqtFile, XqtGoes, UuxqtStates, Ats
    <2>. QED  BY <2>1, <2>2, <2>3
  <1>11. ASSUME NEW p \in Uuxqts, LockUuxqtDir(p)
        PROVE  XqtTypeOK'
    BY <1>11, <1>0, RestingTyped
    DEF LockUuxqtDir, AtXqt, XqtGoes, Free, Takes, Gives, MySlot, UuxqtStates,
        Ats, Slots
  <1>12. ASSUME NEW p \in Uuxqts, GivesUpFile(p)
        PROVE  XqtTypeOK'
    BY <1>12, <1>0, RestingTyped
    DEF GivesUpFile, AtXqt, XqtGoes, Free, Takes, Gives, MySlot, UuxqtStates,
        Ats, Slots
  <1>13. ASSUME NEW p \in Uuxqts, CopyUuxqtFiles(p)
        PROVE  XqtTypeOK'
    <2>1. UNCHANGED <<xqtLocks, xqtSpool, orphans, finished, nXqtCrashes>>
      BY <1>13 DEF CopyUuxqtFiles
    <2>2. uuxqt[p].file \in XqtFiles
      BY <1>13 DEF CopyUuxqtFiles, AtXqt, XqtLocksHeld, LocksAsPlaced, HoldsFile, WithFile
    <2>3. xqtDirs' \in [Slots -> SUBSET XqtFiles]
      BY <1>13, <2>2 DEF CopyUuxqtFiles
    <2>4. uuxqt' \in [Uuxqts -> UuxqtStates]
      BY <1>13, <1>0 DEF CopyUuxqtFiles, XqtGoes, UuxqtStates, Ats
    <2>. QED  BY <2>1, <2>3, <2>4
  <1>14. ASSUME NEW p \in Uuxqts, Executed(p)
        PROVE  XqtTypeOK'
    <2>1. UNCHANGED <<xqtLocks, xqtDirs, orphans, nXqtCrashes>>
      BY <1>14 DEF Executed
    <2>2. uuxqt[p].file \in XqtFiles
      BY <1>14 DEF Executed, AtXqt, XqtLocksHeld, LocksAsPlaced, HoldsFile, WithFile
    <2>3. xqtSpool' \subseteq XqtFiles /\ finished' \subseteq XqtFiles
      BY <1>14, <2>2 DEF Executed
    <2>4. uuxqt' \in [Uuxqts -> UuxqtStates]
      BY <1>14, <1>0 DEF Executed, XqtGoes, UuxqtStates, Ats
    <2>. QED  BY <2>1, <2>3, <2>4
  <1>15. ASSUME NEW p \in Uuxqts, UnlockUuxqtDir(p)
        PROVE  XqtTypeOK'
    BY <1>15, <1>0, RestingTyped
    DEF UnlockUuxqtDir, AtXqt, XqtGoes, Free, Takes, Gives, MySlot,
        UuxqtStates, Ats, Slots
  <1>16. ASSUME NEW p \in Uuxqts, UnlockUuxqtFile(p)
        PROVE  XqtTypeOK'
    BY <1>16, <1>0, RestingTyped, ZenonT(60)
    DEF UnlockUuxqtFile, AtXqt, XqtGoes, Free, Takes, Gives, MySlot,
        UuxqtStates, Ats, Slots
  <1>17. ASSUME NEW p \in Uuxqts, UuxqtDies(p)
        PROVE  XqtTypeOK'
    <2>1. UNCHANGED <<xqtSpool, xqtDirs, finished>>
      BY <1>17 DEF UuxqtDies
    <2>2. xqtLocks' \in [XqtLockNames -> Uuxqts \cup {Nobody, Dead}]
      BY <1>17 DEF UuxqtDies
    <2>3. uuxqt' \in [Uuxqts -> UuxqtStates]
      BY <1>17, RestingTyped DEF UuxqtDies
    <2>4. orphans' \subseteq Slots
      BY <1>17 DEF UuxqtDies, AtXqt, XqtLocksHeld, LocksAsPlaced, HoldsSlot, Working, WithFile
    <2>5. nXqtCrashes' \in 0..XqtCrashes
      BY <1>17, UuxqtAssumption DEF UuxqtDies, UuxqtAssumption
    <2>. QED  BY <2>1, <2>2, <2>3, <2>4, <2>5
  <1>18. ASSUME NEW f \in XqtFiles, XqtComes(f)
        PROVE  XqtTypeOK'
    BY <1>18, <1>0, RestingTyped DEF XqtComes, UuxqtStates, Ats, Slots
  <1>19. CASE UNCHANGED xqtVars
    BY <1>19, <1>0, RestingTyped DEF xqtVars, AtXqt, UuxqtStates, Ats, Slots
  <1>. QED
    BY <1>1, <1>2, <1>3, <1>4, <1>5, <1>6, <1>7, <1>8, <1>9, <1>10, <1>11,
       <1>12, <1>13, <1>14, <1>15, <1>16, <1>17, <1>18, <1>19
    DEF XqtNext, XqtStep

LEMMA XqtLocksInit == XqtInit => XqtLocksHeld
  BY LockNamesNamed, UuxqtAssumption
  DEF UuxqtAssumption, XqtInit, XqtLocksHeld, LocksAsPlaced, HoldsSlot, HoldsCommand,
      HoldsFile, Working, WithFile, Resting

(* A lock is taken only when nobody has it, and given only by the one who  *)
(* has it; those of the others are not touched.                            *)
LEMMA XqtLocksStep ==
  ASSUME XqtTypeOK, XqtLocksHeld, [XqtNext]_xqtVars, NEW q \in Uuxqts
  PROVE  LocksAsPlaced(q)'
  <1>. USE DEF LocksAsPlaced, HoldsSlot, HoldsCommand, HoldsFile, Working, WithFile
  <1>0. /\ LocksAsPlaced(q) /\ Nobody # q /\ Dead # q
        /\ xqtLocks \in [XqtLockNames -> Uuxqts \cup {Nobody, Dead}]
        /\ uuxqt \in [Uuxqts -> UuxqtStates]
    BY UuxqtAssumption DEF UuxqtAssumption, XqtLocksHeld, XqtTypeOK
  <1>1. ASSUME NEW p \in Uuxqts, NEW cmd \in XqtCommands, LockUuxqt(p, cmd)
        PROVE  LocksAsPlaced(q)'
    BY <1>1, <1>0, LockNamesDiffer, LockNamesNamed
    DEF LockUuxqt, AtXqt, XqtGoes, Free, Takes, Gives, MySlot, XqtLocksHeld,
        UuxqtStates, Resting
  <1>2. ASSUME NEW p \in Uuxqts, TrySlot(p)
        PROVE  LocksAsPlaced(q)'
    <2>1. uuxqt[p] \in UuxqtStates /\ uuxqt[p].i \in Slots /\ LocksAsPlaced(p)
      BY <1>2, <1>0, UuxqtAssumption
      DEF TrySlot, UuxqtStates, UuxqtAssumption, Slots, XqtLocksHeld
    <2>2. CASE Free(MySlot(p))
      <3>1. /\ xqtLocks' = [xqtLocks EXCEPT ![SlotLock(uuxqt[p].i)] = p]
            /\ uuxqt' = [uuxqt EXCEPT ![p].at = IF uuxqt[p].cmd = AnyCommand THEN "locked"
                                                ELSE "command"]
            /\ uuxqt[p].at = "slots" /\ xqtLocks[SlotLock(uuxqt[p].i)] \in {Nobody, Dead}
        BY <1>2, <2>2 DEF TrySlot, Takes, XqtGoes, MySlot, Free, AtXqt
      <3>2. uuxqt'[p].at \in {"locked", "command"}
        BY <1>0, <2>1, <3>1 DEF UuxqtStates
      <3>3. /\ uuxqt'[p].i = uuxqt[p].i /\ uuxqt'[p].cmd = uuxqt[p].cmd
            /\ uuxqt'[p].at = "command" => uuxqt[p].cmd # AnyCommand
            /\ uuxqt'[p].at = "locked" => uuxqt[p].cmd = AnyCommand
        BY <1>0, <2>1, <3>1 DEF UuxqtStates
      <3>4. CASE q = p
        BY <1>0, <2>1, <3>1, <3>2, <3>3, <3>4, LockNamesDiffer, LockNamesNamed
      <3>5. CASE q # p
        BY <1>0, <2>1, <3>1, <3>5, LockNamesDiffer, LockNamesNamed
      <3>. QED  BY <3>4, <3>5
    <2>3. CASE ~Free(MySlot(p))
      <3>1. /\ UNCHANGED xqtLocks /\ uuxqt[p].at = "slots"
            /\ uuxqt' = [uuxqt EXCEPT ![p].i = uuxqt[p].i + 1]
        BY <1>2, <2>3 DEF TrySlot, AtXqt
      <3>. QED  BY <1>0, <2>1, <3>1 DEF UuxqtStates
    <2>. QED  BY <2>2, <2>3
  <1>3. ASSUME NEW p \in Uuxqts, NoSlot(p)
        PROVE  LocksAsPlaced(q)'
    BY <1>3, <1>0, LockNamesDiffer, LockNamesNamed
    DEF NoSlot, AtXqt, XqtGoes, Free, Takes, Gives, MySlot, XqtLocksHeld,
        UuxqtStates, Resting
  <1>4. ASSUME NEW p \in Uuxqts, LockCommand(p)
        PROVE  LocksAsPlaced(q)'
    BY <1>4, <1>0, LockNamesDiffer, LockNamesNamed
    DEF LockCommand, AtXqt, XqtGoes, Free, Takes, Gives, MySlot, XqtLocksHeld,
        UuxqtStates, Resting
  <1>5. ASSUME NEW p \in Uuxqts, UnlockSlot(p)
        PROVE  LocksAsPlaced(q)'
    BY <1>5, <1>0, LockNamesDiffer, LockNamesNamed
    DEF UnlockSlot, AtXqt, XqtGoes, Free, Takes, Gives, MySlot, XqtLocksHeld,
        UuxqtStates, Resting
  <1>6. ASSUME NEW p \in Uuxqts, UnlockCommand(p)
        PROVE  LocksAsPlaced(q)'
    BY <1>6, <1>0, LockNamesDiffer, LockNamesNamed
    DEF UnlockCommand, AtXqt, XqtGoes, Free, Takes, Gives, MySlot,
        XqtLocksHeld, UuxqtStates, Resting
  <1>7. ASSUME NEW p \in Uuxqts, GetXqtInit(p)
        PROVE  LocksAsPlaced(q)'
    BY <1>7, <1>0, LockNamesDiffer, LockNamesNamed
    DEF GetXqtInit, AtXqt, XqtGoes, Free, Takes, Gives, MySlot, XqtLocksHeld,
        UuxqtStates, Resting
  <1>8. ASSUME NEW p \in Uuxqts, GetXqtEnd(p)
        PROVE  LocksAsPlaced(q)'
    BY <1>8, <1>0, LockNamesDiffer, LockNamesNamed
    DEF GetXqtEnd, AtXqt, XqtGoes, Free, Takes, Gives, MySlot, XqtLocksHeld,
        UuxqtStates, Resting
  <1>9. ASSUME NEW p \in Uuxqts, NEW f \in XqtFiles, GetXqt(p, f)
        PROVE  LocksAsPlaced(q)'
    BY <1>9, <1>0, LockNamesDiffer, LockNamesNamed
    DEF GetXqt, AtXqt, XqtGoes, Free, Takes, Gives, MySlot, XqtLocksHeld,
        UuxqtStates, Resting
  <1>10. ASSUME NEW p \in Uuxqts, LockUuxqtFile(p)
        PROVE  LocksAsPlaced(q)'
    BY <1>10, <1>0, LockNamesDiffer, LockNamesNamed
    DEF LockUuxqtFile, AtXqt, XqtGoes, Free, Takes, Gives, MySlot,
        XqtLocksHeld, UuxqtStates, Resting
  <1>11. ASSUME NEW p \in Uuxqts, LockUuxqtDir(p)
        PROVE  LocksAsPlaced(q)'
    BY <1>11, <1>0, LockNamesDiffer, LockNamesNamed
    DEF LockUuxqtDir, AtXqt, XqtGoes, Free, Takes, Gives, MySlot, XqtLocksHeld,
        UuxqtStates, Resting
  <1>12. ASSUME NEW p \in Uuxqts, GivesUpFile(p)
        PROVE  LocksAsPlaced(q)'
    BY <1>12, <1>0, LockNamesDiffer, LockNamesNamed
    DEF GivesUpFile, AtXqt, XqtGoes, Free, Takes, Gives, MySlot, XqtLocksHeld,
        UuxqtStates, Resting
  <1>13. ASSUME NEW p \in Uuxqts, CopyUuxqtFiles(p)
        PROVE  LocksAsPlaced(q)'
    BY <1>13, <1>0, LockNamesDiffer, LockNamesNamed
    DEF CopyUuxqtFiles, AtXqt, XqtGoes, Free, Takes, Gives, MySlot,
        XqtLocksHeld, UuxqtStates, Resting
  <1>14. ASSUME NEW p \in Uuxqts, Executed(p)
        PROVE  LocksAsPlaced(q)'
    BY <1>14, <1>0, LockNamesDiffer, LockNamesNamed
    DEF Executed, AtXqt, XqtGoes, Free, Takes, Gives, MySlot, XqtLocksHeld,
        UuxqtStates, Resting
  <1>15. ASSUME NEW p \in Uuxqts, UnlockUuxqtDir(p)
        PROVE  LocksAsPlaced(q)'
    BY <1>15, <1>0, LockNamesDiffer, LockNamesNamed
    DEF UnlockUuxqtDir, AtXqt, XqtGoes, Free, Takes, Gives, MySlot,
        XqtLocksHeld, UuxqtStates, Resting
  <1>16. ASSUME NEW p \in Uuxqts, UnlockUuxqtFile(p)
        PROVE  LocksAsPlaced(q)'
    BY <1>16, <1>0, LockNamesDiffer, LockNamesNamed
    DEF UnlockUuxqtFile, AtXqt, XqtGoes, Free, Takes, Gives, MySlot,
        XqtLocksHeld, UuxqtStates, Resting
  <1>17. ASSUME NEW p \in Uuxqts, UuxqtDies(p)
        PROVE  LocksAsPlaced(q)'
    BY <1>17, <1>0, LockNamesDiffer, LockNamesNamed
    DEF UuxqtDies, AtXqt, XqtGoes, Free, Takes, Gives, MySlot, XqtLocksHeld,
        UuxqtStates, Resting
  <1>18. ASSUME NEW f \in XqtFiles, XqtComes(f)
        PROVE  LocksAsPlaced(q)'
    BY <1>18, <1>0, LockNamesDiffer, LockNamesNamed
    DEF XqtComes, XqtLocksHeld, UuxqtStates, Resting
  <1>19. CASE UNCHANGED xqtVars
    BY <1>19, <1>0, LockNamesDiffer, LockNamesNamed
    DEF xqtVars, AtXqt, XqtLocksHeld, UuxqtStates, Resting
  <1>. QED
    BY <1>1, <1>2, <1>3, <1>4, <1>5, <1>6, <1>7, <1>8, <1>9, <1>10, <1>11,
       <1>12, <1>13, <1>14, <1>15, <1>16, <1>17, <1>18, <1>19
    DEF XqtNext, XqtStep

-----------------------------------------------------------------------------
(* Files and directories *)

(* Two processes at work are in different directories and have different   *)
(* execute files, as the locks of both are held by one.                    *)
LEMMA HoldersApart ==
  ASSUME XqtLocksHeld, NEW p \in Uuxqts, NEW q \in Uuxqts, p # q
  PROVE  /\ HoldsSlot(p) /\ HoldsSlot(q) => uuxqt[p].i # uuxqt[q].i
         /\ HoldsFile(p) /\ HoldsFile(q) => uuxqt[p].file # uuxqt[q].file
  BY DEF XqtLocksHeld, LocksAsPlaced, HoldsFile

LEMMA XqtFilesInit == XqtInit => XqtFilesSafe /\ NoOrphans
  BY DEF XqtInit, XqtFilesSafe, FinishedGone, FilesAsPlaced, NoOrphans, Resting

(* What is done with was in the spool and had a name of its own. *)
LEMMA FinishedGoneStep ==
  ASSUME XqtFilesSafe, [XqtNext]_xqtVars
  PROVE  FinishedGone'
  <1>. USE DEF XqtFilesSafe, FinishedGone
  <1>1. ASSUME NEW p \in Uuxqts, NEW cmd \in XqtCommands, LockUuxqt(p, cmd)
        PROVE  FinishedGone'
    BY <1>1 DEF LockUuxqt, AtXqt, XqtGoes, Free, Takes, Gives, MySlot
  <1>2. ASSUME NEW p \in Uuxqts, TrySlot(p)
        PROVE  FinishedGone'
    BY <1>2 DEF TrySlot, AtXqt, XqtGoes, Free, Takes, Gives, MySlot
  <1>3. ASSUME NEW p \in Uuxqts, NoSlot(p)
        PROVE  FinishedGone'
    BY <1>3 DEF NoSlot, AtXqt, XqtGoes, Free, Takes, Gives, MySlot
  <1>4. ASSUME NEW p \in Uuxqts, LockCommand(p)
        PROVE  FinishedGone'
    BY <1>4 DEF LockCommand, AtXqt, XqtGoes, Free, Takes, Gives, MySlot
  <1>5. ASSUME NEW p \in Uuxqts, UnlockSlot(p)
        PROVE  FinishedGone'
    BY <1>5 DEF UnlockSlot, AtXqt, XqtGoes, Free, Takes, Gives, MySlot
  <1>6. ASSUME NEW p \in Uuxqts, UnlockCommand(p)
        PROVE  FinishedGone'
    BY <1>6 DEF UnlockCommand, AtXqt, XqtGoes, Free, Takes, Gives, MySlot
  <1>7. ASSUME NEW p \in Uuxqts, GetXqtInit(p)
        PROVE  FinishedGone'
    BY <1>7 DEF GetXqtInit, AtXqt, XqtGoes, Free, Takes, Gives, MySlot
  <1>8. ASSUME NEW p \in Uuxqts, GetXqtEnd(p)
        PROVE  FinishedGone'
    BY <1>8 DEF GetXqtEnd, AtXqt, XqtGoes, Free, Takes, Gives, MySlot
  <1>9. ASSUME NEW p \in Uuxqts, NEW f \in XqtFiles, GetXqt(p, f)
        PROVE  FinishedGone'
    BY <1>9 DEF GetXqt, AtXqt, XqtGoes, Free, Takes, Gives, MySlot
  <1>10. ASSUME NEW p \in Uuxqts, LockUuxqtFile(p)
        PROVE  FinishedGone'
    BY <1>10 DEF LockUuxqtFile, AtXqt, XqtGoes, Free, Takes, Gives, MySlot
  <1>11. ASSUME NEW p \in Uuxqts, LockUuxqtDir(p)
        PROVE  FinishedGone'
    BY <1>11 DEF LockUuxqtDir, AtXqt, XqtGoes, Free, Takes, Gives, MySlot
  <1>12. ASSUME NEW p \in Uuxqts, GivesUpFile(p)
        PROVE  FinishedGone'
    BY <1>12 DEF GivesUpFile, AtXqt, XqtGoes, Free, Takes, Gives, MySlot
  <1>13. ASSUME NEW p \in Uuxqts, CopyUuxqtFiles(p)
        PROVE  FinishedGone'
    BY <1>13 DEF CopyUuxqtFiles, AtXqt, XqtGoes, Free, Takes, Gives, MySlot
  <1>14. ASSUME NEW p \in Uuxqts, Executed(p)
        PROVE  FinishedGone'
    BY <1>14 DEF Executed, AtXqt, XqtGoes, Free, Takes, Gives, MySlot
  <1>15. ASSUME NEW p \in Uuxqts, UnlockUuxqtDir(p)
        PROVE  FinishedGone'
    BY <1>15 DEF UnlockUuxqtDir, AtXqt, XqtGoes, Free, Takes, Gives, MySlot
  <1>16. ASSUME NEW p \in Uuxqts, UnlockUuxqtFile(p)
        PROVE  FinishedGone'
    BY <1>16 DEF UnlockUuxqtFile, AtXqt, XqtGoes, Free, Takes, Gives, MySlot
  <1>17. ASSUME NEW p \in Uuxqts, UuxqtDies(p)
        PROVE  FinishedGone'
    BY <1>17 DEF UuxqtDies, AtXqt, XqtGoes, Free, Takes, Gives, MySlot
  <1>18. ASSUME NEW f \in XqtFiles, XqtComes(f)
        PROVE  FinishedGone'
    BY <1>18 DEF XqtComes
  <1>19. CASE UNCHANGED xqtVars
    BY <1>19 DEF xqtVars, AtXqt
  <1>. QED
    BY <1>1, <1>2, <1>3, <1>4, <1>5, <1>6, <1>7, <1>8, <1>9, <1>10, <1>11,
       <1>12, <1>13, <1>14, <1>15, <1>16, <1>17, <1>18, <1>19
    DEF XqtNext, XqtStep

(* Only the one that has the lock of a directory changes what is in it,    *)
(* and only the one that has that of an execute file removes the file.     *)
LEMMA XqtFilesStep ==
  ASSUME XqtTypeOK, XqtLocksHeld, XqtFilesSafe, [XqtNext]_xqtVars, NEW q \in Uuxqts
  PROVE  FilesAsPlaced(q)'
  <1>. USE DEF FilesAsPlaced
  <1>0. /\ FilesAsPlaced(q) /\ xqtDirs \in [Slots -> SUBSET XqtFiles]
        /\ uuxqt \in [Uuxqts -> UuxqtStates]
    BY DEF XqtTypeOK, XqtFilesSafe
  <1>a. \A p \in Uuxqts \ {q} :
          /\ HoldsSlot(p) /\ HoldsSlot(q) => uuxqt[p].i # uuxqt[q].i
          /\ HoldsFile(p) /\ HoldsFile(q) => uuxqt[p].file # uuxqt[q].file
    BY HoldersApart
  <1>b. \A p \in Uuxqts : HoldsSlot(p) => uuxqt[p].i \in Slots
    BY DEF XqtLocksHeld, LocksAsPlaced
  <1>1. ASSUME NEW p \in Uuxqts, NEW cmd \in XqtCommands, LockUuxqt(p, cmd)
        PROVE  FilesAsPlaced(q)'
    BY <1>1, <1>0
    DEF LockUuxqt, AtXqt, XqtGoes, Free, Takes, Gives, MySlot, UuxqtStates,
        Resting
  <1>2. ASSUME NEW p \in Uuxqts, TrySlot(p)
        PROVE  FilesAsPlaced(q)'
    BY <1>2, <1>0, SMTT(30)
    DEF TrySlot, AtXqt, XqtGoes, Free, Takes, Gives, MySlot, UuxqtStates,
        Resting
  <1>3. ASSUME NEW p \in Uuxqts, NoSlot(p)
        PROVE  FilesAsPlaced(q)'
    BY <1>3, <1>0
    DEF NoSlot, AtXqt, XqtGoes, Free, Takes, Gives, MySlot, UuxqtStates,
        Resting
  <1>4. ASSUME NEW p \in Uuxqts, LockCommand(p)
        PROVE  FilesAsPlaced(q)'
    <2>1. /\ UNCHANGED <<xqtSpool, xqtDirs>>
          /\ \/ uuxqt' = [uuxqt EXCEPT ![p].at = "locked"]
             \/ uuxqt' = [uuxqt EXCEPT ![p] = Resting]
      BY <1>4 DEF LockCommand, XqtGoes
    <2>2. CASE uuxqt' = [uuxqt EXCEPT ![p].at = "locked"]
      BY <1>0, <2>1, <2>2 DEF UuxqtStates
    <2>3. CASE uuxqt' = [uuxqt EXCEPT ![p] = Resting]
      BY <1>0, <2>1, <2>3 DEF Resting
    <2>. QED  BY <2>1, <2>2, <2>3
  <1>5. ASSUME NEW p \in Uuxqts, UnlockSlot(p)
        PROVE  FilesAsPlaced(q)'
    BY <1>5, <1>0
    DEF UnlockSlot, AtXqt, XqtGoes, Free, Takes, Gives, MySlot, UuxqtStates,
        Resting
  <1>6. ASSUME NEW p \in Uuxqts, UnlockCommand(p)
        PROVE  FilesAsPlaced(q)'
    BY <1>6, <1>0
    DEF UnlockCommand, AtXqt, XqtGoes, Free, Takes, Gives, MySlot, UuxqtStates,
        Resting
  <1>7. ASSUME NEW p \in Uuxqts, GetXqtInit(p)
        PROVE  FilesAsPlaced(q)'
    BY <1>7, <1>0, ZenonT(60)
    DEF GetXqtInit, AtXqt, XqtGoes, Free, Takes, Gives, MySlot, UuxqtStates,
        Resting
  <1>8. ASSUME NEW p \in Uuxqts, GetXqtEnd(p)
        PROVE  FilesAsPlaced(q)'
    BY <1>8, <1>0
    DEF GetXqtEnd, AtXqt, XqtGoes, Free, Takes, Gives, MySlot, UuxqtStates,
        Resting
  <1>9. ASSUME NEW p \in Uuxqts, NEW f \in XqtFiles, GetXqt(p, f)
        PROVE  FilesAsPlaced(q)'
    BY <1>9, <1>0
    DEF GetXqt, AtXqt, XqtGoes, Free, Takes, Gives, MySlot, UuxqtStates,
        Resting
  <1>10. ASSUME NEW p \in Uuxqts, LockUuxqtFile(p)
        PROVE  FilesAsPlaced(q)'
    BY <1>10, <1>0
    DEF LockUuxqtFile, AtXqt, XqtGoes, Free, Takes, Gives, MySlot, UuxqtStates,
        Resting
  <1>11. ASSUME NEW p \in Uuxqts, LockUuxqtDir(p)
        PROVE  FilesAsPlaced(q)'
    BY <1>11, <1>0, <1>a, <1>b
    DEF LockUuxqtDir, UuxqtStates, HoldsSlot, HoldsFile, Working, WithFile,
        AtXqt, XqtGoes
  <1>12. ASSUME NEW p \in Uuxqts, GivesUpFile(p)
        PROVE  FilesAsPlaced(q)'
    BY <1>12, <1>0
    DEF GivesUpFile, AtXqt, XqtGoes, Free, Takes, Gives, MySlot, UuxqtStates,
        Resting
  <1>13. ASSUME NEW p \in Uuxqts, CopyUuxqtFiles(p)
        PROVE  FilesAsPlaced(q)'
    BY <1>13, <1>0, <1>a, <1>b
    DEF CopyUuxqtFiles, UuxqtStates, HoldsSlot, HoldsFile, Working, WithFile,
        AtXqt, XqtGoes
  <1>14. ASSUME NEW p \in Uuxqts, Executed(p)
        PROVE  FilesAsPlaced(q)'
    BY <1>14, <1>0, <1>a, <1>b
    DEF Executed, UuxqtStates, HoldsSlot, HoldsFile, Working, WithFile, AtXqt,
        XqtGoes
  <1>15. ASSUME NEW p \in Uuxqts, UnlockUuxqtDir(p)
        PROVE  FilesAsPlaced(q)'
    BY <1>15, <1>0, <1>a, <1>b
    DEF UnlockUuxqtDir, UuxqtStates, HoldsSlot, HoldsFile, Working, WithFile,
        AtXqt, XqtGoes
  <1>16. ASSUME NEW p \in Uuxqts, UnlockUuxqtFile(p)
        PROVE  FilesAsPlaced(q)'
    BY <1>16, <1>0, SMTT(30)
    DEF UnlockUuxqtFile, AtXqt
  <1>17. ASSUME NEW p \in Uuxqts, UuxqtDies(p)
        PROVE  FilesAsPlaced(q)'
    BY <1>17, <1>0
    DEF UuxqtDies, AtXqt, XqtGoes, Free, Takes, Gives, MySlot, UuxqtStates,
        Resting
  <1>18. ASSUME NEW f \in XqtFiles, XqtComes(f)
        PROVE  FilesAsPlaced(q)'
    BY <1>18, <1>0 DEF XqtComes, UuxqtStates, Resting
  <1>19. CASE UNCHANGED xqtVars
    BY <1>19, <1>0 DEF xqtVars, AtXqt, UuxqtStates, Resting
  <1>. QED
    BY <1>1, <1>2, <1>3, <1>4, <1>5, <1>6, <1>7, <1>8, <1>9, <1>10, <1>11,
       <1>12, <1>13, <1>14, <1>15, <1>16, <1>17, <1>18, <1>19
    DEF XqtNext, XqtStep

LEMMA NoOrphansStep ==
  ASSUME NoOrphans, [XqtNext]_xqtVars
  PROVE  NoOrphans'
  <1>. USE DEF NoOrphans
  <1>1. ASSUME NEW p \in Uuxqts, NEW cmd \in XqtCommands, LockUuxqt(p, cmd)
        PROVE  NoOrphans'
    BY <1>1 DEF LockUuxqt, AtXqt, XqtGoes, Free, Takes, Gives, MySlot
  <1>2. ASSUME NEW p \in Uuxqts, TrySlot(p)
        PROVE  NoOrphans'
    BY <1>2 DEF TrySlot, AtXqt, XqtGoes, Free, Takes, Gives, MySlot
  <1>3. ASSUME NEW p \in Uuxqts, NoSlot(p)
        PROVE  NoOrphans'
    BY <1>3 DEF NoSlot, AtXqt, XqtGoes, Free, Takes, Gives, MySlot
  <1>4. ASSUME NEW p \in Uuxqts, LockCommand(p)
        PROVE  NoOrphans'
    BY <1>4 DEF LockCommand, AtXqt, XqtGoes, Free, Takes, Gives, MySlot
  <1>5. ASSUME NEW p \in Uuxqts, UnlockSlot(p)
        PROVE  NoOrphans'
    BY <1>5 DEF UnlockSlot, AtXqt, XqtGoes, Free, Takes, Gives, MySlot
  <1>6. ASSUME NEW p \in Uuxqts, UnlockCommand(p)
        PROVE  NoOrphans'
    BY <1>6 DEF UnlockCommand, AtXqt, XqtGoes, Free, Takes, Gives, MySlot
  <1>7. ASSUME NEW p \in Uuxqts, GetXqtInit(p)
        PROVE  NoOrphans'
    BY <1>7 DEF GetXqtInit, AtXqt, XqtGoes, Free, Takes, Gives, MySlot
  <1>8. ASSUME NEW p \in Uuxqts, GetXqtEnd(p)
        PROVE  NoOrphans'
    BY <1>8 DEF GetXqtEnd, AtXqt, XqtGoes, Free, Takes, Gives, MySlot
  <1>9. ASSUME NEW p \in Uuxqts, NEW f \in XqtFiles, GetXqt(p, f)
        PROVE  NoOrphans'
    BY <1>9 DEF GetXqt, AtXqt, XqtGoes, Free, Takes, Gives, MySlot
  <1>10. ASSUME NEW p \in Uuxqts, LockUuxqtFile(p)
        PROVE  NoOrphans'
    BY <1>10 DEF LockUuxqtFile, AtXqt, XqtGoes, Free, Takes, Gives, MySlot
  <1>11. ASSUME NEW p \in Uuxqts, LockUuxqtDir(p)
        PROVE  NoOrphans'
    BY <1>11 DEF LockUuxqtDir, AtXqt, XqtGoes, Free, Takes, Gives, MySlot
  <1>12. ASSUME NEW p \in Uuxqts, GivesUpFile(p)
        PROVE  NoOrphans'
    BY <1>12 DEF GivesUpFile, AtXqt, XqtGoes, Free, Takes, Gives, MySlot
  <1>13. ASSUME NEW p \in Uuxqts, CopyUuxqtFiles(p)
        PROVE  NoOrphans'
    BY <1>13 DEF CopyUuxqtFiles, AtXqt, XqtGoes, Free, Takes, Gives, MySlot
  <1>14. ASSUME NEW p \in Uuxqts, Executed(p)
        PROVE  NoOrphans'
    BY <1>14 DEF Executed, AtXqt, XqtGoes, Free, Takes, Gives, MySlot
  <1>15. ASSUME NEW p \in Uuxqts, UnlockUuxqtDir(p)
        PROVE  NoOrphans'
    BY <1>15 DEF UnlockUuxqtDir, AtXqt, XqtGoes, Free, Takes, Gives, MySlot
  <1>16. ASSUME NEW p \in Uuxqts, UnlockUuxqtFile(p)
        PROVE  NoOrphans'
    BY <1>16 DEF UnlockUuxqtFile, AtXqt, XqtGoes, Free, Takes, Gives, MySlot
  <1>17. ASSUME NEW p \in Uuxqts, UuxqtDies(p)
        PROVE  NoOrphans'
    BY <1>17 DEF UuxqtDies, AtXqt, XqtGoes, Free, Takes, Gives, MySlot
  <1>18. ASSUME NEW f \in XqtFiles, XqtComes(f)
        PROVE  NoOrphans'
    BY <1>18 DEF XqtComes
  <1>19. CASE UNCHANGED xqtVars
    BY <1>19 DEF xqtVars, AtXqt
  <1>. QED
    BY <1>1, <1>2, <1>3, <1>4, <1>5, <1>6, <1>7, <1>8, <1>9, <1>10, <1>11,
       <1>12, <1>13, <1>14, <1>15, <1>16, <1>17, <1>18, <1>19
    DEF XqtNext, XqtStep

-----------------------------------------------------------------------------
(* The theorems *)

(* A process has exactly the locks that its place asks for, a directory    *)
(* only the files of the command that is executed in it, and what is done  *)
(* with is gone (xqtsub.c, xqtfil.c).                                      *)
THEOREM XqtInvariant == XqtSpec => []XqtInv
  <1>1. XqtInit => XqtInv
    BY XqtTypesInit, XqtLocksInit, XqtFilesInit DEF XqtInv
  <1>2. XqtInv /\ [XqtNext]_xqtVars => XqtInv'
    <2>. SUFFICES ASSUME XqtInv, [XqtNext]_xqtVars PROVE XqtInv'
      OBVIOUS
    <2>1. XqtTypeOK'
      BY XqtTypesStep DEF XqtInv
    <2>2. XqtLocksHeld'
      BY XqtLocksStep DEF XqtInv, XqtLocksHeld
    <2>3. XqtFilesSafe'
      BY FinishedGoneStep, XqtFilesStep DEF XqtInv, XqtFilesSafe
    <2>. QED  BY <2>1, <2>2, <2>3, NoOrphansStep DEF XqtInv
  <1>. QED  BY <1>1, <1>2, PTL DEF XqtSpec

(* The variables of uuxqt have values of their types. *)
THEOREM XqtTypeCorrect == XqtSpec => []XqtTypeOK
  <1>1. XqtInv => XqtTypeOK
    BY DEF XqtInv
  <1>. QED  BY <1>1, XqtInvariant, PTL

(* Whoever has died, and though its program may go on: an execute file is  *)
(* executed by one uuxqt at a time and never again once it is done         *)
(* (fsysdep_lock_uuxqt_file).                                              *)
THEOREM FilesExecutedByOne == XqtSpec => []ExecutedByOne
  <1>1. XqtInv => ExecutedByOne
    <2>. SUFFICES ASSUME XqtInv, NEW p \in Uuxqts, Executing(p)
                  PROVE  /\ uuxqt[p].file \notin finished
                         /\ \A q \in Uuxqts \ {p} :
                              ~(Executing(q) /\ uuxqt[q].file = uuxqt[p].file)
      BY DEF ExecutedByOne
    <2>1. uuxqt[p].file \notin finished
      BY DEF XqtInv, XqtFilesSafe, FinishedGone, FilesAsPlaced, Executing, AtXqt
    <2>2. \A q \in Uuxqts \ {p} : ~(Executing(q) /\ uuxqt[q].file = uuxqt[p].file)
      BY HoldersApart DEF XqtInv, HoldsFile, WithFile, Executing, AtXqt
    <2>. QED  BY <2>1, <2>2
  <1>. QED  BY <1>1, XqtInvariant, PTL

(* A uuxqt that gave up or is done holds no lock, and the one that locked  *)
(* a command is the only one that works for it (ixsysdep_lock_uuxqt).      *)
THEOREM LocksReturned == XqtSpec => []XqtLocksReturned
  <1>1. XqtInv => XqtLocksReturned
    <2>. SUFFICES ASSUME XqtInv, NEW p \in Uuxqts
                  PROVE  /\ AtXqt(p, "none") => Holding(p) = {}
                         /\ AtXqt(p, "scan") =>
                              /\ \A f \in XqtFiles : FileLock(f) \notin Holding(p)
                              /\ uuxqt[p].cmd # AnyCommand =>
                                   \A q \in Uuxqts \ {p} :
                                     ~(AtXqt(q, "scan") /\ uuxqt[q].cmd = uuxqt[p].cmd)
      BY DEF XqtLocksReturned
    <2>1. \A q \in Uuxqts : LocksAsPlaced(q) /\ uuxqt[q] \in UuxqtStates
      BY DEF XqtInv, XqtLocksHeld, XqtTypeOK
    <2>. USE DEF LocksAsPlaced, HoldsSlot, HoldsCommand, HoldsFile, Working, WithFile, AtXqt
    <2>2. AtXqt(p, "none") => Holding(p) = {}
      <3>. SUFFICES ASSUME AtXqt(p, "none"), NEW l \in XqtLockNames PROVE xqtLocks[l] # p
        BY DEF Holding
      <3>1. \/ \E i \in Slots : l = SlotLock(i)
            \/ l = CommandLock("rmail") /\ "rmail" \in XqtCommands \ {AnyCommand}
            \/ \E f \in XqtFiles : l = FileLock(f)
        BY DEF XqtLockNames, XqtCommands, AnyCommand
      <3>. QED  BY <2>1, <3>1
    <2>3. AtXqt(p, "scan") => \A f \in XqtFiles : FileLock(f) \notin Holding(p)
      BY <2>1 DEF Holding
    <2>4. ASSUME AtXqt(p, "scan"), uuxqt[p].cmd # AnyCommand, NEW q \in Uuxqts \ {p}
          PROVE  ~(AtXqt(q, "scan") /\ uuxqt[q].cmd = uuxqt[p].cmd)
      BY <2>1, <2>4 DEF UuxqtStates
    <2>. QED  BY <2>2, <2>3, <2>4
  <1>. QED  BY <1>1, XqtInvariant, PTL

(* If the programs of a uuxqt die with it, no two uuxqts have a directory, *)
(* an execute file or a locked command in common.  Without that the first  *)
(* does not hold: UuxqtOrphans.cfg has the counterexample.                 *)
THEOREM UuxqtsAreApart ==
  ASSUME Orphans = FALSE
  PROVE  XqtSpec => []UuxqtsApart
  <1>1. XqtInv => DirsApart
    <2>. SUFFICES ASSUME XqtInv, NEW p \in Uuxqts, Executing(p)
                  PROVE  /\ xqtDirs[uuxqt[p].i] = {uuxqt[p].file}
                         /\ uuxqt[p].i \notin orphans
                         /\ \A q \in Uuxqts \ {p} :
                              ~(Executing(q) /\ uuxqt[q].i = uuxqt[p].i)
      BY DEF DirsApart
    <2>1. xqtDirs[uuxqt[p].i] = {uuxqt[p].file}
      BY DEF XqtInv, XqtFilesSafe, FilesAsPlaced, Executing, AtXqt
    <2>2. orphans = {}
      BY DEF XqtInv, NoOrphans
    <2>3. \A q \in Uuxqts \ {p} : ~(Executing(q) /\ uuxqt[q].i = uuxqt[p].i)
      BY HoldersApart DEF XqtInv, HoldsSlot, Working, WithFile, Executing, AtXqt
    <2>. QED  BY <2>1, <2>2, <2>3
  <1>2. DirsApart /\ ExecutedByOne /\ XqtLocksReturned => UuxqtsApart
    BY DEF UuxqtsApart
  <1>. QED
    BY <1>1, <1>2, XqtInvariant, FilesExecutedByOne, LocksReturned, PTL
=============================================================================
