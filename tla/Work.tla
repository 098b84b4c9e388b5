-------------------------------- MODULE Work --------------------------------
(***************************************************************************)
(* The commands in the spool: the work scan of src/unix/work.c, the files  *)
(* that zsysdep_spool_commands makes (src/unix/splcmd.c), and the caller   *)
(* that asks for commands and reports those it has done, as src/system.h   *)
(* describes it.                                                           *)
(*                                                                         *)
(* The name of a command file is its place in the order of the names,      *)
(* which is also its grade.  Of a line there is whether it sends a         *)
(* temporary file, and whether it is a command at all.                     *)
(***************************************************************************)
EXTENDS Integers, Sequences, FiniteSets, SequencesExt, FiniteSetsExt

CONSTANTS
  WorkFiles,      \* how many names there are
  CommandLists,   \* what a command file may have
  MidScan,        \* a scan may be begun before the last one is at its end
  Sessions        \* bound on the sessions

ASSUME WorkAssumption ==
  /\ WorkFiles \in Nat /\ Sessions \in Nat
  /\ CommandLists # {} /\ CommandLists \subseteq Seq({"send", "other", "bad"})
  /\ MidScan \in BOOLEAN

VARIABLES
  spool,          \* the command files: are they there, and their lines
  temps,          \* the temporary files of their lines
  asSwork_files, iSwork_file, qSwork_file,
  ssfiles,        \* the files in memory: cdid, and the lines whose qfile is set
  pseqs,          \* the commands that the caller has not reported
  workAt,         \* what the caller is at: "idle", "getting" or "failed"
  returned,       \* history: the commands returned, in order
  did,            \* history: those reported since the scan began, without an error
  nSessions

workVars == <<spool, temps, asSwork_files, iSwork_file, qSwork_file, ssfiles, pseqs,
              workAt, returned, did, nSessions>>

scan == <<asSwork_files, iSwork_file>>

Names  == 1..WorkFiles
NoName == 0

(* The lists in which the names S are in order; there is one.              *)
Sorted(S) ==
  {s \in Bijection(1..Cardinality(S), S) : \A i, j \in DOMAIN s : i < j => s[i] < s[j]}

(* The lines that get_work finds: an empty file is a poll file. *)
Lines(n) == IF spool[n].lines = <<>> THEN <<"other">> ELSE spool[n].lines
Count(n) == Len(ssfiles[n].lines)

(* A command and the file in memory that it is from; names and lines have  *)
(* numbers.                                                                *)
Command == Names \X (Nat \ {0})
FileInMemory == [lines : CommandLists \cup {<<"other">>}, cdid : Nat, qfile : SUBSET Nat]

WorkTypeOK ==
  /\ spool \in [Names -> [there : BOOLEAN, lines : CommandLists]]
  /\ temps \subseteq Command
  /\ asSwork_files \in Seq(Names) /\ iSwork_file \in 0..Len(asSwork_files)
  /\ DOMAIN ssfiles \subseteq Names /\ ssfiles \in [DOMAIN ssfiles -> FileInMemory]
  /\ qSwork_file \in DOMAIN ssfiles \cup {NoName}
  /\ pseqs \subseteq Command /\ did \subseteq Command /\ returned \in Seq(Command)
  /\ workAt \in {"idle", "getting", "failed"}
  /\ nSessions \in 0..Sessions

WorkInit ==
  /\ spool = [n \in Names |-> [there |-> FALSE, lines |-> CHOOSE l \in CommandLists : TRUE]]
  /\ temps = {}
  /\ asSwork_files = <<>> /\ iSwork_file = 0 /\ qSwork_file = NoName
  /\ ssfiles = <<>>
  /\ pseqs = {}
  /\ workAt = "idle"
  /\ returned = <<>>
  /\ did = {}
  /\ nSessions = 0

-----------------------------------------------------------------------------
(* Other programs: a command file comes whole, by a link to a temporary    *)
(* one, with a name that none has had; or it is removed and its jobs killed. *)

SpoolCommands(n, lines) ==
  /\ ~spool[n].there
  /\ \A i \in 1..Len(asSwork_files) : asSwork_files[i] # n
  /\ spool' = [spool EXCEPT ![n] = [there |-> TRUE, lines |-> lines]]
  /\ temps' = temps \cup {<<n, i>> : i \in {j \in 1..Len(lines) : lines[j] = "send"}}
  /\ UNCHANGED <<scan, qSwork_file, ssfiles, pseqs, workAt, returned, did, nSessions>>

KillJob(n) ==
  /\ spool[n].there
  /\ spool' = [spool EXCEPT ![n].there = FALSE]
  /\ temps' = {t \in temps : t[1] # n}
  /\ UNCHANGED <<scan, qSwork_file, ssfiles, pseqs, workAt, returned, did, nSessions>>

-----------------------------------------------------------------------------
(* fsysdep_get_work_init.  The files that are known are sorted, and those  *)
(* that have not been read with the new ones.                              *)

(* bsearch finds what an array in order has; of another one it may miss    *)
(* anything.                                                               *)
NamesInOrder(list) == \A i, j \in DOMAIN list : i < j => list[i] < list[j]

Bsearch(list) == IF NamesInOrder(list) THEN {ToSet(list)} ELSE SUBSET ToSet(list)

(* The new files, of which no more than cmax + 1 are taken. *)
NewFiles(known, bgrade, cmax) ==
  UNION {LET new == {n \in 1..bgrade : spool[n].there} \ found
         IN IF cmax = 0 \/ Cardinality(new) <= cmax + 1 THEN {new}
            ELSE kSubset(cmax + 1, new) : found \in Bsearch(known)}

MayInit == workAt = "idle" /\ (MidScan \/ iSwork_file = Len(asSwork_files))

(* Variant: only what was found the last time is in order.                 *)
GetWorkInitUnsorted(bgrade) ==
  /\ MayInit
  /\ \E cmax \in {0, 1} : \E new \in NewFiles(asSwork_files, bgrade, cmax) :
       LET tail == SubSeq(asSwork_files, iSwork_file + 1, Len(asSwork_files))
       IN \E rest \in Sorted(ToSet(tail) \cup new) :
            asSwork_files' = SubSeq(asSwork_files, 1, iSwork_file) \o rest
  /\ UNCHANGED <<spool, temps, iSwork_file, qSwork_file, ssfiles, pseqs, workAt, returned,
                 did, nSessions>>

GetWorkInit(bgrade) ==
  /\ MayInit
  /\ \E known \in Sorted(ToSet(asSwork_files)), cmax \in {0, 1} :
       \E new \in NewFiles(known, bgrade, cmax) :
         LET tail == SubSeq(known, iSwork_file + 1, Len(known))
         IN \E rest \in Sorted(ToSet(tail) \cup new) :
              asSwork_files' = SubSeq(known, 1, iSwork_file) \o rest
  /\ UNCHANGED <<spool, temps, iSwork_file, qSwork_file, ssfiles, pseqs, workAt, returned,
                 did, nSessions>>

-----------------------------------------------------------------------------
(* fsysdep_get_work *)

GetWork ==
  /\ workAt = "idle" /\ asSwork_files # <<>>
  /\ qSwork_file' = IF qSwork_file # NoName /\ ssfiles[qSwork_file].cdid >= Count(qSwork_file)
                    THEN NoName ELSE qSwork_file
  /\ workAt' = "getting"
  /\ UNCHANGED <<spool, temps, scan, ssfiles, pseqs, returned, did, nSessions>>

NextName == asSwork_files[iSwork_file + 1]

ReadFile ==
  /\ workAt = "getting" /\ qSwork_file = NoName /\ iSwork_file < Len(asSwork_files)
  /\ spool[NextName].there
  /\ ssfiles' = [n \in DOMAIN ssfiles \cup {NextName} |->
                   IF n = NextName THEN [lines |-> Lines(n), cdid |-> 0, qfile |-> {}]
                   ELSE ssfiles[n]]
  /\ qSwork_file' = NextName
  /\ iSwork_file' = iSwork_file + 1
  /\ UNCHANGED <<spool, temps, asSwork_files, pseqs, workAt, returned, did, nSessions>>

(* The file is gone, or cannot be opened. *)
PassFile ==
  /\ workAt = "getting" /\ qSwork_file = NoName /\ iSwork_file < Len(asSwork_files)
  /\ iSwork_file' = iSwork_file + 1
  /\ UNCHANGED <<spool, temps, asSwork_files, qSwork_file, ssfiles, pseqs, workAt, returned,
                 did, nSessions>>

NoMoreWork ==
  /\ workAt = "getting" /\ qSwork_file = NoName /\ iSwork_file = Len(asSwork_files)
  /\ workAt' = "idle"
  /\ UNCHANGED <<spool, temps, scan, qSwork_file, ssfiles, pseqs, returned, did, nSessions>>

FileUsedUp ==
  /\ workAt = "getting" /\ qSwork_file # NoName
  /\ ssfiles[qSwork_file].cdid >= Count(qSwork_file)
  /\ qSwork_file' = NoName
  /\ UNCHANGED <<spool, temps, scan, ssfiles, pseqs, workAt, returned, did, nSessions>>

(* The next line; a bad one is passed over, and of a command that sends    *)
(* the name of the temporary file may not be had.                          *)
NextLine ==
  /\ workAt = "getting" /\ qSwork_file # NoName
  /\ ssfiles[qSwork_file].cdid < Count(qSwork_file)
  /\ LET i    == ssfiles[qSwork_file].cdid + 1
         line == ssfiles[qSwork_file].lines[i]
         read == [ssfiles EXCEPT ![qSwork_file].cdid = i]
         set  == [read EXCEPT ![qSwork_file].qfile = @ \cup {i}]
     IN \/ /\ line = "bad"
           /\ ssfiles' = read
           /\ UNCHANGED <<pseqs, workAt, returned>>
        \/ /\ line # "bad"
           /\ ssfiles' = set
           /\ pseqs' = pseqs \cup {<<qSwork_file, i>>}
           /\ returned' = Append(returned, <<qSwork_file, i>>)
           /\ workAt' = "idle"
        \/ /\ line = "send"
           /\ ssfiles' = set
           /\ workAt' = "failed"
           /\ UNCHANGED <<pseqs, returned>>
  /\ UNCHANGED <<spool, temps, scan, qSwork_file, did, nSessions>>

-----------------------------------------------------------------------------
(* fsysdep_did_work, zsysdep_save_temp_file, usysdep_get_work_free *)

(* Variant: the file is removed when its lines have been returned. *)
AllDoneRead(file) == file.cdid >= Len(file.lines)

(* Variant: one line too many is waited for. *)
AllDonePast(file) == file.cdid > Len(file.lines) /\ file.qfile = {}

(* Of the lines that have not been returned nothing is known. *)
AllDone(file) == file.cdid >= Len(file.lines) /\ file.qfile = {}

DidWork(c) ==
  /\ workAt = "idle" /\ c \in pseqs
  /\ LET n    == c[1]
         file == [ssfiles[n] EXCEPT !.qfile = @ \ {c[2]}]
         keep == [ssfiles EXCEPT ![n] = file]
     IN /\ pseqs' = pseqs \ {c}
        /\ temps' = temps \ {c}
        /\ \/ /\ ~AllDone(file)
              /\ ssfiles' = keep
              /\ did' = did \cup {c}
              /\ UNCHANGED <<spool, qSwork_file>>
           \/ /\ AllDone(file) /\ spool[n].there
              /\ spool' = [spool EXCEPT ![n].there = FALSE]
              /\ ssfiles' = [m \in DOMAIN ssfiles \ {n} |-> ssfiles[m]]
              /\ qSwork_file' = IF qSwork_file = n THEN NoName ELSE qSwork_file
              /\ did' = did \cup {c}
           \/ /\ AllDone(file)        \* it is gone, or cannot be removed
              /\ ssfiles' = keep
              /\ UNCHANGED <<spool, qSwork_file, did>>
  /\ UNCHANGED <<scan, workAt, returned, nSessions>>

(* The temporary file of a command that failed is kept elsewhere, if it is *)
(* there and can be moved.                                                 *)
SaveTempFile(c) ==
  /\ workAt = "idle" /\ c \in pseqs
  /\ temps' = temps \ {c}
  /\ UNCHANGED <<spool, scan, qSwork_file, ssfiles, pseqs, workAt, returned, did, nSessions>>

(* The scan is given up; what a caller still holds may not be used.  So    *)
(* does the end of the process, at any time.                               *)
GetWorkFree ==
  /\ nSessions < Sessions
  /\ nSessions' = nSessions + 1
  /\ asSwork_files' = <<>> /\ iSwork_file' = 0 /\ qSwork_file' = NoName
  /\ ssfiles' = <<>>
  /\ pseqs' = {}
  /\ workAt' = "idle"
  /\ returned' = <<>>
  /\ did' = {}
  /\ UNCHANGED <<spool, temps>>

WorkNext ==
  \/ \E n \in Names : KillJob(n) \/ \E lines \in CommandLists : SpoolCommands(n, lines)
  \/ \E bgrade \in Names : GetWorkInit(bgrade)
  \/ GetWork \/ ReadFile \/ PassFile \/ NoMoreWork \/ FileUsedUp \/ NextLine
  \/ \E c \in pseqs : DidWork(c) \/ SaveTempFile(c)
  \/ GetWorkFree

WorkSpec == WorkInit /\ [][WorkNext]_workVars

-----------------------------------------------------------------------------
(* Properties *)

(* A command is returned once in a scan, however often the directory is    *)
(* searched again ("We don't want to return files that we have already     *)
(* considered", fsysdep_get_work_init).                                    *)
ReturnedOnce == IsInjective(returned)

(* A command file goes only with all of its commands done in one scan,     *)
(* unless its job is killed; and with none of them a temporary file that   *)
(* is still to be sent ("we only remove a command file if we manage to     *)
(* complete every transfer it specifies", fsysdep_did_work).               *)
NoCommandLost ==
  [][\A n \in Names :
       spool[n].there /\ ~spool'[n].there /\ did' # did =>
         \A i \in 1..Len(spool[n].lines) : spool[n].lines[i] # "bad" => <<n, i>> \in did']_workVars

(* A command file whose lines are all done does not stay in the spool, to  *)
(* be done again, unless fsysdep_did_work said that it could not remove it. *)
DoneIsGone ==
  \A n \in ToSet(asSwork_files) :
    spool[n].there => \E i \in 1..Len(Lines(n)) : <<n, i>> \notin did

(* As DoneIsGone for the lines that are commands: a bad line, which is     *)
(* passed over, does not keep the file.                                    *)
BadLineKeepsNothing ==
  \A n \in DOMAIN ssfiles :
    /\ spool[n].there /\ workAt = "idle"
    /\ ssfiles[n].cdid = Count(n)
    /\ \E i \in 1..Count(n) : ssfiles[n].lines[i] # "bad"
    => \E i \in 1..Count(n) : ssfiles[n].lines[i] # "bad" /\ <<n, i>> \notin did

(* A scan returns every command once, and what is done does not stay.      *)
ScanOnce == ReturnedOnce /\ DoneIsGone
=============================================================================
