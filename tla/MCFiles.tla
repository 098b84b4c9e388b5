------------------------------ MODULE MCFiles ------------------------------
(***************************************************************************)
(* The components that keep files and what is read from them, each by      *)
(* itself: what the sys file says of a system, its times, the log, the     *)
(* command files of the spool and the execute files.  They keep no state   *)
(* in common; part says which of them a behaviour shows.                   *)
(***************************************************************************)
EXTENDS SysInfo, TimeSpan, LogFile, Work, Uuxqt

VARIABLE part

-----------------------------------------------------------------------------
(* Sys files: defaults of up to three lines, a system or more, and what    *)
(* may follow them.                                                        *)

Line(cmd) == [cmd |-> cmd, arg |-> ""]
SectionLines(cmds, n) ==
  UNION {[1..k -> cmds] : k \in 0..n}
DefaultLines ==
  {Line(c) : c \in {"port", "port type", "alternate", "phone", "param g"}}
SystemLines ==
  {Line(c) : c \in {"port", "port device", "alternate", "time", "param i"}}
OtherLines ==
  {Line(c) : c \in {"speed", "called-login", "send-request", "request", "param g",
                    "unknown"}}
    \cup {[cmd |-> "alternate", arg |-> "named"]}
    \cup {[cmd |-> "default-alternates", arg |-> a] : a \in {"true", "false"}}
SystemLine(name) == <<[cmd |-> "system", arg |-> name]>>
AliasLine(name) == <<[cmd |-> "alias", arg |-> name]>>
TwoSections(cmds) ==
  {<<a, Line("alternate"), b>> : a \in cmds, b \in cmds}

(* The defaults and one system, with alternates of both.                   *)
OneSystem ==
  {d \o SystemLine("s1") \o s :
     d \in SectionLines(DefaultLines, 2) \cup TwoSections(DefaultLines),
     s \in SectionLines(SystemLines, 2) \cup TwoSections(SystemLines)}

(* Lines of every other kind, before and after the others.                 *)
OddLines ==
  {<<o>> \o d \o SystemLine("s1") \o s \o <<p>> :
     o \in OtherLines, p \in OtherLines,
     d \in SectionLines({Line("alternate"), Line("port")}, 2),
     s \in SectionLines({Line("alternate")}, 1)}

(* Three systems with aliases, some of which are names of systems.         *)
Aliases ==
  {d \o SystemLine("s1") \o AliasLine(a) \o s \o SystemLine("s2") \o AliasLine(b)
     \o t \o SystemLine(c) \o d :
     d \in SectionLines({Line("phone")}, 1), a \in {"s2", "s3"}, b \in {"s1", "s3"},
     c \in {"s1", "s4"}, s \in SectionLines({Line("speed")}, 1),
     t \in SectionLines({Line("speed")}, 1)}

SomeSysFiles == {<<>>} \cup OneSystem \cup OddLines \cup Aliases

TwoSignals == <<"hup", "quit">>

SomeLists ==
  {<<>>, <<"send">>, <<"other", "send">>, <<"send", "bad">>, <<"bad", "other">>}

-----------------------------------------------------------------------------
FilesInit ==
  /\ part \in {"system", "times", "log", "work", "uuxqt"}
  /\ SysInit /\ SpanInit /\ LogInit /\ WorkInit /\ XqtInit
  /\ part # "system" => sysLines = <<>>
  /\ part # "log" => iDebug = FALSE /\ handler = [s \in LogSignals |-> "default"]

ShowSystem ==
  /\ part = "system" /\ SysNext
  /\ UNCHANGED <<part, spanVars, logVars, workVars, xqtVars>>
ShowTimes ==
  /\ part = "times" /\ SpanNext
  /\ UNCHANGED <<part, sysVars, logVars, workVars, xqtVars>>
ShowLog ==
  /\ part = "log" /\ LogNext
  /\ UNCHANGED <<part, sysVars, spanVars, workVars, xqtVars>>
ShowWork ==
  /\ part = "work" /\ WorkNext
  /\ UNCHANGED <<part, sysVars, spanVars, logVars, xqtVars>>
ShowUuxqt ==
  /\ part = "uuxqt" /\ XqtNext
  /\ UNCHANGED <<part, sysVars, spanVars, logVars, workVars>>

FilesNext == ShowSystem \/ ShowTimes \/ ShowLog \/ ShowWork \/ ShowUuxqt

FilesSpec ==
  FilesInit /\ [][FilesNext]_<<part, sysVars, spanVars, logVars, workVars, xqtVars>>

(* The variables of every component have values of their types. *)
FilesTypeOK == SysTypeOK /\ SpanTypeOK /\ LogTypeOK /\ WorkTypeOK /\ XqtTypeOK
=============================================================================
