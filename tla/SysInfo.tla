------------------------------ MODULE SysInfo ------------------------------
(* What uuconf_system_info says of a system: the sys file is scanned once for  *)
(* the place of every system (rdlocs.c); then the defaults at its start and    *)
(* the lines of the system are read, each as a list of alternates (tsinfo.c),  *)
(* and the defaults are merged in, alternate by alternate (syssub.c).          *)
(* The value a line gives is the number of the line, so that every value names *)
(* the line it comes from.                                                     *)
EXTENDS Integers, Sequences, FiniteSets, FiniteSetsExt, SequencesExt

CONSTANTS
  SysFiles,    \* the sys files: sequences of lines [cmd, arg]
  Asked,       \* the names of systems that are asked for
  MaxAsked,    \* how often a name is asked for
  UnsetIsZero  \* the byte at _uuconf_unset, an empty structure, is 0

ASSUME SysInfoAssumption ==
  /\ SysFiles \subseteq Seq([cmd : STRING, arg : STRING])
  /\ MaxAsked \in Nat /\ UnsetIsZero \in BOOLEAN

VARIABLES
  sysLines,       \* the sys file
  sysLocs,        \* qsyslocs: the last line of the file first; each [name, falias, iloc]
  syslocsRead,    \* fread_syslocs
  sysPc,          \* what is being done
  sysLine,        \* the next line to read
  nAsked,         \* the names asked for so far
  zsystem,        \* the name that is asked for
  iloc,           \* qloc->iloc: the line of the system
  section,        \* *qsys: what has been read since the last "alternate"
  earlier,        \* si.salternate and its list; empty: si.falternates is FALSE
  defaultAlternates, \* si.fdefault_alternates
  sdefaults,      \* the defaults, a sequence of alternates
  sysInfo,        \* the system, a sequence of alternates
  sysResult       \* the value that is returned

sysVars == <<sysLines, sysLocs, syslocsRead, sysPc, sysLine, nAsked, zsystem, iloc,
             section, earlier, defaultAlternates, sdefaults, sysInfo, sysResult>>
readVars == <<sysLines, sysLocs, syslocsRead, nAsked, zsystem>>
readState == <<section, earlier, defaultAlternates>>

-----------------------------------------------------------------------------
Unset == 0
Builtin == -1   \* the value that _uuconf_isystem_basic_default puts in

(* The fields a command gives its value to; the ones named here stand for all  *)
(* of their kind: a string or a number, a boolean, and a list that grows.      *)
FieldsOf(cmd) ==
  CASE cmd = "phone"        -> {"phone"}
    [] cmd = "speed"        -> {"baud"}
    [] cmd = "called-login" -> {"called_login"}
    [] cmd = "send-request" -> {"send_request"}
    [] cmd = "request"      -> {"send_request", "rec_request"}
    [] cmd = "port"         -> {"zport"}
    [] OTHER                -> {}
PlainFields ==
  {"zalternate", "phone", "baud", "called_login", "send_request", "rec_request"}
ListOf(cmd) ==
  CASE cmd = "time"    -> {"timegrade"}
    [] cmd = "alias"   -> {"pzalias"}
    [] cmd = "param g" -> {"g"}
    [] cmd = "param i" -> {"i"}
    [] OTHER           -> {}
Protocols == {"g", "i"}
ListFields == {"timegrade", "pzalias"} \cup Protocols
Fields == PlainFields \cup ListFields \cup {"zport", "qport", "fcall", "fcalled"}

(* _uuconf_uclear_system *)
Cleared == [f \in Fields |-> CASE f \in ListFields -> {}
                               [] f \in {"fcall", "fcalled"} -> -1
                               [] OTHER -> Unset]

HowToCall == {"zport", "qport", "baud", "phone"}
SaysHow(s) == \E f \in HowToCall : s[f] # Unset

(* uiset_call: a section that says how or when to call is used to call.        *)
SetCall(s) ==
  [s EXCEPT !.fcall = IF s.timegrade # {} \/ SaysHow(s) THEN 1 ELSE 0,
            !.fcalled = IF s.called_login # Unset THEN 1 ELSE 0]

(* The loop of _uuconf_isystem_default for one alternate.  The protocols of    *)
(* the defaults are merged one by one; where the defaults have none but the    *)
(* alternate has, the structure at _uuconf_unset is read as their list.        *)
Defaulted(s, d) ==
  [f \in Fields |->
     CASE f \in {"fcall", "fcalled"} -> IF s[f] < 0 THEN d[f] ELSE s[f]
       [] f \in ListFields           -> IF s[f] = {} THEN d[f] ELSE s[f]
       [] f = "zport"                -> IF s.zport = Unset /\ s.qport = Unset
                                        THEN d.zport ELSE s.zport
       [] OTHER                      -> IF s[f] = Unset THEN d[f] ELSE s[f]]
ReadsUnset(s, d) ==
  /\ \E p \in Protocols : s[p] # {}
  /\ \A p \in Protocols : d[p] = {}
WithStray(s) == [s EXCEPT !["g"] = @ \cup {Builtin}]

(* _uuconf_isystem_default: with add, qset first gets as many alternates as    *)
(* qdefault has, each a copy of its first.  An alternate beyond the last of    *)
(* qdefault defaults to that one.                                              *)
Alternates(qset, qdefault, add) ==
  1..IF add THEN Max({Len(qset), Len(qdefault)}) ELSE Len(qset)
OrFirst(qset, i) == IF i <= Len(qset) THEN qset[i] ELSE qset[1]
OrLast(qdefault, i) == qdefault[Min({i, Len(qdefault)})]

(* Variant: every alternate defaults to the first of qdefault.                 *)
SystemDefaultOfFirst(qset, qdefault, add) ==
  [i \in Alternates(qset, qdefault, add) |-> Defaulted(OrFirst(qset, i), qdefault[1])]

SystemDefault(qset, qdefault, add) ==
  [i \in Alternates(qset, qdefault, add) |->
     Defaulted(OrFirst(qset, i), OrLast(qdefault, i))]

(* _uuconf_isystem_basic_default *)
BasicDefault(s) ==
  [f \in Fields |-> IF f \in {"send_request", "rec_request"} /\ s[f] = Unset
                    THEN Builtin ELSE s[f]]

-----------------------------------------------------------------------------
SysInit ==
  /\ sysLines \in SysFiles
  /\ sysLocs = <<>> /\ syslocsRead = FALSE
  /\ sysPc = "idle" /\ sysLine = 1 /\ nAsked = 0
  /\ zsystem = "" /\ iloc = 0
  /\ section = Cleared /\ earlier = <<>>
  /\ defaultAlternates = TRUE
  /\ sdefaults = <<>> /\ sysInfo = <<>> /\ sysResult = "none"

SysReturn(result) ==
  /\ sysPc' = "idle"
  /\ sysResult' = result

(* uuconf_system_info *)
SystemInfo ==
  /\ sysPc = "idle" /\ nAsked < MaxAsked
  /\ zsystem' \in Asked
  /\ nAsked' = nAsked + 1
  /\ sysPc' = IF syslocsRead THEN "find" ELSE "locations"
  /\ sysLine' = 1
  /\ sysInfo' = <<>>
  /\ sysResult' = "none"
  /\ UNCHANGED <<sysLines, sysLocs, syslocsRead, iloc, readState, sdefaults>>

(* _uuconf_iread_locations and itsystem: the lines are put at the head of the  *)
(* list.                                                                       *)
Location(i) ==
  [name |-> sysLines[i].arg, falias |-> sysLines[i].cmd = "alias", iloc |-> i]
LocateLine ==
  /\ sysPc = "locations" /\ sysLine <= Len(sysLines)
  /\ sysLocs' = IF sysLines[sysLine].cmd \in {"system", "alias"}
                THEN <<Location(sysLine)>> \o sysLocs ELSE sysLocs
  /\ sysLine' = sysLine + 1
  /\ UNCHANGED <<sysLines, syslocsRead, sysPc, nAsked, zsystem, iloc, readState,
                 sdefaults, sysInfo, sysResult>>

LocationsRead ==
  /\ sysPc = "locations" /\ sysLine > Len(sysLines)
  /\ syslocsRead' = TRUE
  /\ sysPc' = "find"
  /\ UNCHANGED <<sysLines, sysLocs, sysLine, nAsked, zsystem, iloc, readState,
                 sdefaults, sysInfo, sysResult>>

(* The sys file cannot be opened: the error is returned, the list stays empty, *)
(* and is not read again unless memory was short.                              *)
LocationsFail(memory) ==
  /\ sysPc = "locations"
  /\ sysLine = 1 \/ memory
  /\ sysLocs' = <<>>
  /\ syslocsRead' = ~memory
  /\ SysReturn("failed")
  /\ UNCHANGED <<sysLines, sysLine, nAsked, zsystem, iloc, readState, sdefaults,
                 sysInfo>>

(* The first location of that name, or, for an alias, the next in the list     *)
(* that is none.                                                               *)
Found(name) ==
  LET named == {i \in 1..Len(sysLocs) : sysLocs[i].name = name}
      real == {i \in 1..Len(sysLocs) : i >= Min(named) /\ ~sysLocs[i].falias}
  IN  IF named = {} \/ real = {} THEN {} ELSE {Min(real)}

FindSystem ==
  /\ sysPc = "find"
  /\ \E i \in Found(zsystem) : iloc' = sysLocs[i].iloc
  /\ sysPc' = "defaults"
  /\ sysLine' = 1
  /\ section' = Cleared /\ earlier' = <<>> /\ defaultAlternates' = TRUE
  /\ UNCHANGED <<readVars, sdefaults, sysInfo, sysResult>>

NoSystem ==
  /\ sysPc = "find"
  /\ Found(zsystem) = {}
  /\ SysReturn("not found")
  /\ UNCHANGED <<readVars, sysLine, iloc, readState, sdefaults, sysInfo>>

-----------------------------------------------------------------------------
LineThere == sysPc \in {"defaults", "system"} /\ sysLine <= Len(sysLines)
Reading(cmds) == LineThere /\ sysLines[sysLine].cmd \in cmds
Keeps == UNCHANGED <<readVars, sysPc, iloc, sdefaults, sysInfo, sysResult>>

(* uuconf_cmd_args: the value goes where the table says; iirequest and         *)
(* iicalled_login do so themselves, and "time" and the like add to a list.     *)
SetField ==
  /\ Reading({"phone", "speed", "called-login", "send-request", "request", "port",
              "time", "alias", "param g", "param i"})
  /\ LET cmd == sysLines[sysLine].cmd
     IN  section' = [f \in Fields |-> CASE f \in FieldsOf(cmd) -> sysLine
                                        [] f \in ListOf(cmd) -> section[f] \cup {sysLine}
                                        [] OTHER -> section[f]]
  /\ sysLine' = sysLine + 1
  /\ Keeps /\ UNCHANGED <<earlier, defaultAlternates>>

(* iiport with a description: "type direct" (argument TRUE) makes a port or    *)
(* clears the one there is.  A port whose description begins otherwise has     *)
(* whatever type the stack holds, and most of the other commands are unknown   *)
(* to most types.                                                              *)
DescribePort ==
  /\ Reading({"port type", "port device"})
  /\ section' = [section EXCEPT !.qport = IF @ = Unset THEN sysLine ELSE @]
  /\ sysLine' = sysLine + 1
  /\ Keeps /\ UNCHANGED <<earlier, defaultAlternates>>

DescribeUntyped ==
  /\ Reading({"port device"})
  /\ section.qport = Unset
  /\ SysReturn("syntax")
  /\ UNCHANGED <<readVars, sysLine, iloc, readState, sdefaults, sysInfo>>

(* iialternate: the section that ends is the first, or takes from the first    *)
(* what it does not say itself.                                                *)
WithSection ==
  IF earlier = <<>> THEN <<SetCall(section)>>
  ELSE earlier \o SystemDefault(<<SetCall(section)>>, earlier, FALSE)
SectionMayStray == earlier # <<>> /\ ReadsUnset(section, earlier[1]) /\ ~UnsetIsZero
Sections == {WithSection} \cup
            (IF SectionMayStray
             THEN {[WithSection EXCEPT ![Len(WithSection)] = WithStray(@)]} ELSE {})

AlternateLine ==
  /\ Reading({"alternate"})
  /\ earlier' \in Sections
  /\ section' = [Cleared EXCEPT !.zalternate = IF sysLines[sysLine].arg = ""
                                               THEN Unset ELSE sysLine]
  /\ sysLine' = sysLine + 1
  /\ Keeps /\ UNCHANGED defaultAlternates

(* iidefault_alternates *)
DefaultAlternatesLine ==
  /\ Reading({"default-alternates"})
  /\ defaultAlternates' = (sysLines[sysLine].arg = "true")
  /\ sysLine' = sysLine + 1
  /\ Keeps /\ UNCHANGED <<section, earlier>>

(* iiunknown, or an argument that is wrong: the file is read no further.       *)
UnknownLine ==
  /\ Reading({"unknown"})
  /\ SysReturn("syntax")
  /\ UNCHANGED <<readVars, sysLine, iloc, readState, sdefaults, sysInfo>>

SectionEnds == sysLine \in DOMAIN sysLines => sysLines[sysLine].cmd = "system"

(* The first "system" ends the defaults: they are put aside, and the file is   *)
(* read again from the line of the system.  What was said of                   *)
(* "default-alternates" holds for the system too.                              *)
DefaultsRead ==
  /\ sysPc = "defaults" /\ SectionEnds
  /\ sdefaults' \in Sections
  /\ sysPc' = "system"
  /\ sysLine' = iloc + 1
  /\ section' = Cleared
  /\ earlier' = <<>>
  /\ UNCHANGED <<readVars, iloc, defaultAlternates, sysInfo, sysResult>>

(* The end of _uuconf_itaylor_system_internal: the first alternate can always  *)
(* be called from, and be called if there is some way to.                      *)
FirstCalled(s) ==
  [s EXCEPT !.fcalled = 1,
            !.fcall = IF SaysHow(s) THEN 1 ELSE @]

(* What no alternate of the system says comes from the defaults.               *)
Merged(qset) == SystemDefault(qset, sdefaults, defaultAlternates)
MayStray(qset) ==
  IF UnsetIsZero THEN {}
  ELSE {i \in DOMAIN Merged(qset) : ReadsUnset(OrFirst(qset, i), OrLast(sdefaults, i))}

SystemRead ==
  /\ sysPc = "system" /\ SectionEnds
  /\ \E qset \in Sections : \E odd \in SUBSET MayStray(qset) :
       sysInfo' = [i \in DOMAIN Merged(qset) |->
                     LET s == IF i \in odd THEN WithStray(Merged(qset)[i])
                              ELSE Merged(qset)[i]
                     IN  BasicDefault(IF i = 1 THEN FirstCalled(s) ELSE s)]
  /\ SysReturn("success")
  /\ UNCHANGED <<readVars, sysLine, iloc, readState, sdefaults>>

(* There is no memory for a line or an alternate, or fseek fails.              *)
ReadFails ==
  /\ sysPc \in {"defaults", "system"}
  /\ SysReturn("failed")
  /\ UNCHANGED <<readVars, sysLine, iloc, readState, sdefaults, sysInfo>>

SysNext ==
  \/ SystemInfo \/ LocateLine \/ LocationsRead
  \/ \E memory \in BOOLEAN : LocationsFail(memory)
  \/ FindSystem \/ NoSystem
  \/ SetField \/ DescribePort \/ DescribeUntyped \/ AlternateLine
  \/ DefaultAlternatesLine \/ UnknownLine
  \/ DefaultsRead \/ SystemRead \/ ReadFails

SysSpec == SysInit /\ [][SysNext]_sysVars

-----------------------------------------------------------------------------
SysTypeOK ==
  /\ \A i \in DOMAIN sysLocs : sysLines[sysLocs[i].iloc].cmd \in {"system", "alias"}
  /\ syslocsRead \in BOOLEAN
  /\ sysPc \in {"idle", "locations", "find", "defaults", "system"}
  /\ sysLine \in 1..Len(sysLines) + 1
  /\ nAsked \in 0..MaxAsked
  /\ iloc \in 0..Len(sysLines)
  /\ \A s \in {section} \cup Range(earlier) \cup Range(sdefaults) \cup Range(sysInfo) :
       /\ DOMAIN s = Fields
       /\ \A f \in ListFields : s[f] \subseteq -1..Len(sysLines)
       /\ \A f \in Fields \ ListFields : s[f] \in -1..Len(sysLines)
  /\ sysPc = "system" => sdefaults # <<>>
  /\ sysResult = "success" => sysInfo # <<>>

(* What the manual says, on the lines of the file alone.                       *)
(* The line where the system of that name begins; the last one counts.         *)
StartOf(name) ==
  LET named == {i \in 1..Len(sysLines) : /\ sysLines[i].cmd \in {"system", "alias"}
                                         /\ sysLines[i].arg = name}
  IN  IF named = {} THEN {}
      ELSE {Max({0} \cup {i \in 1..Max(named) : sysLines[i].cmd = "system"})} \ {0}
(* The lines of the block that begins after line i, 0 for the defaults, up to  *)
(* the next "system", and the alternate of the block that a line belongs to.   *)
BlockOf(i) ==
  {j \in i + 1..Len(sysLines) : \A k \in i + 1..j : sysLines[k].cmd # "system"}
AlternateOf(i, j) == 1 + Cardinality({k \in i + 1..j : sysLines[k].cmd = "alternate"})
AlternatesOf(i) == Max({1} \cup {AlternateOf(i, j) : j \in BlockOf(i)})
SaidIn(i, a, f) ==
  {j \in BlockOf(i) :
     LET cmd == sysLines[j].cmd
     IN  /\ AlternateOf(i, j) = a
         /\ \/ f \in FieldsOf(cmd) \cup ListOf(cmd)
            \/ f = "zalternate" /\ cmd = "alternate" /\ sysLines[j].arg # ""
            \/ f = "qport" /\ cmd \in {"port type", "port device"}}
(* An alternate that says nothing of f is as the first of its block; what no   *)
(* alternate of the system says is as in the defaults.                         *)
SaidBy(i, a, f) == IF SaidIn(i, a, f) # {} THEN SaidIn(i, a, f) ELSE SaidIn(i, 1, f)
SaidFor(i, a, f) ==
  IF SaidBy(i, a, f) # {} THEN SaidBy(i, a, f)
  ELSE SaidBy(0, Min({a, AlternatesOf(0)}), f)
Given == sysPc = "idle" /\ sysResult = "success"

(* The system that is given is the last of that name in the file, or the one   *)
(* that the alias of that name follows; and none is given as not found unless  *)
(* the file has none or could not be read (tsinfo.c:201, rdlocs.c:212).        *)
FoundRight ==
  /\ Given => {iloc} = StartOf(zsystem)
  /\ sysPc = "idle" /\ sysResult = "not found" =>
       StartOf(zsystem) = {} \/ sysLocs = <<>>

(* Every field of every alternate has the value of the nearest section that    *)
(* says anything of it: its own, the first of the system, the alternate of the *)
(* defaults of the same number, or the last, or the first of the defaults.  A  *)
(* later line of a section overrides an earlier one; the lines of a list are   *)
(* all kept (uucp.texi:4026, syssub.c:188, tsinfo.c:388).                      *)
NearestSays ==
  Given =>
    \A a \in DOMAIN sysInfo :
      /\ \A f \in PlainFields :
           sysInfo[a][f] \in {Max({Unset} \cup SaidFor(iloc, a, f))}
                              \cup IF SaidFor(iloc, a, f) = {} THEN {Builtin} ELSE {}
      /\ \A f \in ListFields : sysInfo[a][f] = SaidFor(iloc, a, f)

(* A port that is described is not overridden by a port that a section further *)
(* away names (syssub.c:208).                                                  *)
DescribedPortKept ==
  Given =>
    \A a \in DOMAIN sysInfo :
      /\ SaidIn(iloc, a, "qport") # {} /\ SaidIn(iloc, a, "zport") = {} =>
           sysInfo[a].zport = Unset
      /\ SaidFor(iloc, a, "qport") = {} <=> sysInfo[a].qport = Unset

(* There are as many alternates as the system has, or as the defaults have     *)
(* unless the last "default-alternates" that was read says no; an alternate of *)
(* the system is used to call only if its section says how or when to, and the *)
(* first if anything says how (tsinfo.c:296, 322).                             *)
AlternatesUsed ==
  Given =>
    LET said == {j \in BlockOf(0) \cup BlockOf(iloc) :
                   sysLines[j].cmd = "default-alternates"}
        add == said = {} \/ sysLines[Max(said)].arg = "true"
    IN  /\ Len(sysInfo) = IF add THEN Max({AlternatesOf(iloc), AlternatesOf(0)})
                          ELSE AlternatesOf(iloc)
        /\ sysInfo[1].fcalled = 1
        /\ sysInfo[1].fcall = 1 <=>
              \/ SaidIn(iloc, 1, "timegrade") # {}
              \/ \E f \in HowToCall : SaidFor(iloc, 1, f) # {}
        /\ \A a \in 2..AlternatesOf(iloc) :
             sysInfo[a].fcall = 1 <=>
               \E f \in HowToCall \cup {"timegrade"} : SaidIn(iloc, a, f) # {}

(* What is said of a system overrides the defaults (uucp.texi:3993): a port    *)
(* that the system names, and does not describe, is the port that is used;     *)
(* main uses the description if there is one (cu.c:613).                       *)
NamedPortUsed ==
  Given => \A a \in DOMAIN sysInfo :
             SaidBy(iloc, a, "zport") # {} /\ SaidBy(iloc, a, "qport") = {} =>
               sysInfo[a].qport = Unset

(* The alternates of the defaults that are left over are used unmodified       *)
(* (uucp.texi:4034): one that says how to call is used to call.                *)
DefaultAlternateUsed ==
  Given => \A a \in AlternatesOf(iloc) + 1..Len(sysInfo) :
             (\E f \in HowToCall : SaidIn(0, a, f) # {}) => sysInfo[a].fcall = 1

(* What is given for a system is what the sys file says of it.             *)
SystemAsSaid == FoundRight /\ NearestSays /\ DescribedPortKept /\ AlternatesUsed
=============================================================================
