----------------------------- MODULE FilesProof -----------------------------
(***************************************************************************)
(* Proofs about files that MCFiles composes: the log, the times and the    *)
(* sys file; those about the spool are in SpoolProof.                      *)
(*                                                                         *)
(* Of LogFile: however signals, failures and calls of ulog from within     *)
(* ulog fall, every signal is reported, every message is logged, and the   *)
(* calls of ulog go only so deep (LogComplete).  The argument is about the *)
(* stack of calls.  A call waits for another one only in a few places, and *)
(* can be in each of them only once (Once): it reports signals once        *)
(* because fdoing_sigs is set, and it finds that a file cannot be opened   *)
(* once because that is remembered (FilesInv).                             *)
(* The order follows from that: a signal that came before a message has    *)
(* its flag set when the message is to be logged, and waits for the one    *)
(* call that reports signals, which has not come to it, or is being        *)
(* reported by the call above that one (EarlyInv).                         *)
(*                                                                         *)
(* Of TimeSpan: the list of spans is sorted and has the best value of each *)
(* time (SpansMean).  The argument is about what the list, the span that   *)
(* is being added and those still to be added show together (Shows): no    *)
(* step of itadd_span shows anything new, and what one no longer shows it  *)
(* shows with a better value (AddStep).                                    *)
(*                                                                         *)
(* Of SysInfo: the system that is given is what the lines of the sys file  *)
(* say, as the manual reads them (SystemAsSaid).  The argument goes line   *)
(* by line (BlockInv): the section that is being read has what its lines    *)
(* said (RawIs); a section that has ended has that, or else what the first *)
(* of its block said (ClosedIs); and when the system has been read, every  *)
(* alternate gets from the defaults what no section of the system said     *)
(* (MergedIs).  The places of the systems are in the list, the last first  *)
(* (LocatedUpTo), so the first one that fits is the last of the file       *)
(* (FoundIs).                                                              *)
(* All of this takes the byte at _uuconf_unset to be zero.                 *)
(*                                                                         *)
(* At last, that the components of MCFiles, those of the spool among them, *)
(* go on each by itself, so that what is proved of one of them holds in    *)
(* the run of all.                                                         *)
(***************************************************************************)
EXTENDS MCFiles, SpoolProof, FiniteSetTheorems, SequenceTheorems,
        WellFoundedInduction, TLAPS

-----------------------------------------------------------------------------
(* The invariant of the log *)

(* Where a call waits for one that it has made itself. *)
Waiting == {"signals", "logFile", "noLog", "exit", "files", "written", "reported"}

(* Where a call is for which the program ends. *)
Ending == {"noLog", "exit"}

PlacesOf(of) ==
  IF of = "ulog"
  THEN {"start", "signals", "debugFile", "logFile", "noLog", "output", "exit"}
  ELSE IF of = "ulog_close" THEN {"start", "files"}
  ELSE IF of = "ustats" THEN {"start", "written"}
  ELSE {"start", "closed", "reported"}

FrameOK(f) ==
  /\ f.at \in PlacesOf(f.of)
  /\ f.about # "none" => f.of = "ulog" /\ f.type = "error" /\ f.message = TRUE

(* Only calls that wait are under others; a call from within the log is of *)
(* ulog, or of ulog_close if the program ends, and its message not fatal.  *)
StackOK(c) ==
  /\ \A i \in 1..Len(c) : FrameOK(c[i])
  /\ \A i \in 2..Len(c) : c[i].at \in Waiting
  /\ \A i \in 1..Len(c) : i < Len(c) =>
       /\ c[i].of \in {"ulog", "ulog_close"}
       /\ c[i].type # "fatal"
       /\ c[i].of = "ulog_close" => c[i + 1].at = "exit"

(* One call reports signals, one waits for the message that the debugging  *)
(* file cannot be opened, and one ends the program.                        *)
Once(c) ==
  /\ \A i, j \in 1..Len(c) : c[i].at = "signals" /\ c[j].at = "signals" => i = j
  /\ \A i, j \in 2..Len(c) : c[i].at = "logFile" /\ c[j].at = "logFile" => i = j
  /\ \A i, j \in 1..Len(c) : c[i].at \in Ending /\ c[j].at \in Ending => i = j

Failed(f) == logFile[f].tried = TRUE /\ logFile[f].open = FALSE

(* What the places of the calls say of the files. *)
FilesInv ==
  /\ \A f \in LogFiles : logFile[f].open = TRUE => logFile[f].tried = TRUE
  /\ \A i \in 2..Len(calls) : calls[i].at = "logFile" => Failed("debug")
  /\ \A i \in 1..Len(calls) : calls[i].at = "noLog" => Failed("log")
  /\ \A i \in 2..Len(calls) :
       calls[i].at = "exit" => fLfile = FALSE \/ logFile["log"].tried = TRUE
  /\ calls # <<>> /\ calls[1].at = "output" /\ calls[1].type # "debug" =>
       fLfile = FALSE \/ logFile["log"].open = TRUE

(* A log file that cannot be opened is the end of the program, and only    *)
(* then is a message dropped.                                              *)
FailInv ==
  /\ Failed("log") => ended = TRUE \/ \E i \in 1..Len(calls) : calls[i].at \in Ending
  /\ dropped = TRUE => Failed("log")

(* A signal that is not reported yet has its flag set or a call that is    *)
(* about to report it.                                                     *)
ReportInv ==
  \A s \in unreported :
    \/ s \in afLog_signal
    \/ Failed("log")
    \/ \E i \in 1..Len(calls) : calls[i].about = s

StackInv == StackOK(calls) /\ Once(calls) /\ FilesInv /\ FailInv /\ ReportInv

LogInv == LogTypeOK /\ StackInv

-----------------------------------------------------------------------------
(* The stack of calls *)

(* The innermost call goes on. *)
LEMMA TopChanged ==
  ASSUME NEW S, NEW c \in Seq(S), c # <<>>, NEW f \in S,
         NEW d, d = <<f>> \o Tail(c)
  PROVE  /\ d \in Seq(S)
         /\ Len(d) = Len(c)
         /\ Len(c) \in Nat /\ Len(c) >= 1
         /\ d[1] = f
         /\ \A i \in 2..Len(c) : d[i] = c[i]
  OBVIOUS

(* The innermost call makes another one. *)
LEMMA CallEntered ==
  ASSUME NEW S, NEW c \in Seq(S), c # <<>>, NEW f \in S, NEW g \in S,
         NEW d, d = <<g>> \o (<<f>> \o Tail(c))
  PROVE  /\ d \in Seq(S)
         /\ Len(d) = Len(c) + 1
         /\ Len(c) \in Nat /\ Len(c) >= 1
         /\ d[1] = g /\ d[2] = f
         /\ \A i \in 3..Len(c) + 1 : d[i] = c[i - 1]
<1>0. <<f>> \o Tail(c) \in Seq(S)
  BY TopChanged
<1>1. PICK e \in Seq(S) : e = <<f>> \o Tail(c)
  BY <1>0
<1>2. /\ Len(e) = Len(c) /\ e[1] = f /\ Len(c) \in Nat /\ Len(c) >= 1
      /\ \A i \in 2..Len(c) : e[i] = c[i]
  BY <1>1, TopChanged
<1>3. /\ d \in Seq(S) /\ Len(d) = Len(e) + 1 /\ d[1] = g
      /\ \A i \in 2..Len(e) + 1 : d[i] = e[i - 1]
  BY <1>1
<1> QED  BY <1>2, <1>3

(* The innermost call returns. *)
LEMMA CallLeft ==
  ASSUME NEW S, NEW c \in Seq(S), c # <<>>, NEW d, d = Tail(c)
  PROVE  /\ d \in Seq(S)
         /\ Len(d) = Len(c) - 1
         /\ Len(c) \in Nat /\ Len(c) >= 1
         /\ \A i \in 1..Len(c) - 1 : d[i] = c[i + 1]
  OBVIOUS

LEMMA TopKeepsStack ==
  ASSUME NEW c \in Seq(LogFrame), c # <<>>, StackOK(c), Once(c),
         NEW f \in LogFrame, FrameOK(f), f.of = c[1].of, f.type = c[1].type,
         f.at = "signals" => \A i \in 2..Len(c) : c[i].at # "signals",
         f.at \in Ending => \A i \in 2..Len(c) : c[i].at \notin Ending,
         NEW d, d = <<f>> \o Tail(c)
  PROVE  StackOK(d) /\ Once(d)
<1>1. /\ d \in Seq(LogFrame) /\ Len(d) = Len(c)
      /\ Len(c) \in Nat /\ Len(c) >= 1
      /\ d[1] = f /\ \A i \in 2..Len(c) : d[i] = c[i]
  BY TopChanged
<1>2. \A i \in 1..Len(d) : FrameOK(d[i])
  <2> TAKE i \in 1..Len(d)
  <2>1. CASE i = 1  BY <2>1, <1>1
  <2>2. CASE i # 1
    <3>1. i \in 2..Len(c) /\ i \in 1..Len(c)  BY <2>2, <1>1
    <3> QED  BY <3>1, <1>1 DEF StackOK
  <2> QED  BY <2>1, <2>2
<1>3. \A i \in 2..Len(d) : d[i].at \in Waiting
  BY <1>1 DEF StackOK
<1>4. ASSUME NEW i \in 1..Len(d), i < Len(d)
      PROVE  /\ d[i].of \in {"ulog", "ulog_close"}
             /\ d[i].type # "fatal"
             /\ d[i].of = "ulog_close" => d[i + 1].at = "exit"
  <2>1. d[i].of = c[i].of /\ d[i].type = c[i].type /\ d[i + 1] = c[i + 1]
    <3>1. CASE i = 1  BY <3>1, <1>1, <1>4
    <3>2. CASE i # 1  BY <3>2, <1>1, <1>4
    <3> QED  BY <3>1, <3>2
  <2>2. i \in 1..Len(c) /\ i < Len(c)  BY <1>1, <1>4
  <2> QED  BY <2>1, <2>2 DEF StackOK
<1>5. \A i, j \in 1..Len(d) : d[i].at = "signals" /\ d[j].at = "signals" => i = j
  BY <1>1 DEF Once
<1>6. \A i, j \in 2..Len(d) : d[i].at = "logFile" /\ d[j].at = "logFile" => i = j
  BY <1>1 DEF Once
<1>7. \A i, j \in 1..Len(d) : d[i].at \in Ending /\ d[j].at \in Ending => i = j
  BY <1>1 DEF Once
<1> QED  BY <1>2, <1>3, <1>4, <1>5, <1>6, <1>7 DEF StackOK, Once

LEMMA EnterKeepsStack ==
  ASSUME NEW c \in Seq(LogFrame), c # <<>>, StackOK(c), Once(c),
         NEW f \in LogFrame, FrameOK(f), f.of = c[1].of, f.type = c[1].type,
         f.at \in Waiting,
         f.at = "signals" => \A i \in 2..Len(c) : c[i].at # "signals",
         f.at = "logFile" => \A i \in 2..Len(c) : c[i].at # "logFile",
         f.at \in Ending => \A i \in 2..Len(c) : c[i].at \notin Ending,
         NEW g \in LogFrame, FrameOK(g), g.at = "start", g.type # "fatal",
         g.of = "ulog" \/ (g.of = "ulog_close" /\ f.at = "exit"),
         NEW d, d = <<g>> \o (<<f>> \o Tail(c))
  PROVE  StackOK(d) /\ Once(d)
<1>0. <<f>> \o Tail(c) \in Seq(LogFrame)
  BY TopChanged
<1>1. PICK e \in Seq(LogFrame) : e = <<f>> \o Tail(c)
  BY <1>0
<1>2. /\ Len(e) = Len(c) /\ Len(c) \in Nat /\ Len(c) >= 1
      /\ e[1] = f /\ \A i \in 2..Len(c) : e[i] = c[i]
  BY <1>1, TopChanged
<1>3. StackOK(e) /\ Once(e)
  BY <1>1, TopKeepsStack
<1>4. /\ d \in Seq(LogFrame) /\ Len(d) = Len(e) + 1 /\ d[1] = g
      /\ \A i \in 2..Len(e) + 1 : d[i] = e[i - 1]
  <2>1. d = <<g>> \o e  BY <1>1
  <2> QED  BY <2>1
<1>5. ASSUME NEW i \in 1..Len(d), i # 1
      PROVE  i - 1 \in 1..Len(e) /\ d[i] = e[i - 1]
  BY <1>2, <1>4, <1>5
<1>6. \A i \in 1..Len(d) : FrameOK(d[i])
  BY <1>3, <1>4, <1>5 DEF StackOK
<1>7. ASSUME NEW i \in 2..Len(d)
      PROVE  d[i].at \in Waiting
  <2>1. CASE i = 2  BY <2>1, <1>2, <1>4
  <2>2. CASE i # 2
    <3>1. i - 1 \in 2..Len(e) /\ d[i] = e[i - 1]  BY <2>2, <1>2, <1>4, <1>7
    <3> QED  BY <3>1, <1>3 DEF StackOK
  <2> QED  BY <2>1, <2>2
<1>8. ASSUME NEW i \in 1..Len(d), i < Len(d)
      PROVE  /\ d[i].of \in {"ulog", "ulog_close"}
             /\ d[i].type # "fatal"
             /\ d[i].of = "ulog_close" => d[i + 1].at = "exit"
  <2>1. CASE i = 1  BY <2>1, <1>2, <1>4
  <2>2. CASE i # 1
    <3>1. i - 1 \in 1..Len(e) /\ i - 1 < Len(e) /\ d[i] = e[i - 1]
      BY <2>2, <1>2, <1>4, <1>5, <1>8
    <3>2. d[i + 1] = e[(i - 1) + 1]
      BY <2>2, <1>2, <1>4, <1>5, <1>8
    <3> QED  BY <3>1, <3>2, <1>3 DEF StackOK
  <2> QED  BY <2>1, <2>2
<1>9. ASSUME NEW i \in 1..Len(d), NEW j \in 1..Len(d),
             d[i].at = "signals", d[j].at = "signals"
      PROVE  i = j
  <2>1. i # 1 /\ j # 1
    BY <1>4, <1>9
  <2>2. i - 1 = j - 1
    BY <2>1, <1>3, <1>5, <1>9 DEF Once
  <2> QED  BY <2>2, <1>2, <1>4
<1>10. ASSUME NEW i \in 2..Len(d), NEW j \in 2..Len(d),
              d[i].at = "logFile", d[j].at = "logFile"
       PROVE  i = j
  <2>1. i # 1 /\ j # 1 /\ i \in 1..Len(d) /\ j \in 1..Len(d)
    BY <1>4
  <2>2. /\ i - 1 \in 1..Len(e) /\ e[i - 1].at = "logFile"
        /\ j - 1 \in 1..Len(e) /\ e[j - 1].at = "logFile"
    BY <2>1, <1>5, <1>10
  <2>3. \A k \in 2..Len(e) : e[1].at = "logFile" => e[k].at # "logFile"
    BY <1>2
  <2>4. i - 1 = j - 1
    <3>1. CASE i - 1 # 1 /\ j - 1 # 1
      <4>1. i - 1 \in 2..Len(e) /\ j - 1 \in 2..Len(e)  BY <3>1, <2>2
      <4> QED  BY <4>1, <2>2, <1>3 DEF Once
    <3>2. CASE i - 1 = 1 /\ j - 1 # 1
      <4>1. e[1].at = "logFile" /\ j - 1 \in 2..Len(e)  BY <3>2, <2>2
      <4> QED  BY <4>1, <2>2, <2>3
    <3>3. CASE i - 1 # 1 /\ j - 1 = 1
      <4>1. e[1].at = "logFile" /\ i - 1 \in 2..Len(e)  BY <3>3, <2>2
      <4> QED  BY <4>1, <2>2, <2>3
    <3>4. CASE i - 1 = 1 /\ j - 1 = 1  BY <3>4
    <3> QED  BY <3>1, <3>2, <3>3, <3>4
  <2> QED  BY <2>4, <1>2, <1>4
<1>11. ASSUME NEW i \in 1..Len(d), NEW j \in 1..Len(d),
              d[i].at \in Ending, d[j].at \in Ending
       PROVE  i = j
  <2>1. i # 1 /\ j # 1
    BY <1>4, <1>11 DEF Ending
  <2>2. i - 1 = j - 1
    BY <2>1, <1>3, <1>5, <1>11 DEF Once
  <2> QED  BY <2>2, <1>2, <1>4
<1> QED  BY <1>6, <1>7, <1>8, <1>9, <1>10, <1>11 DEF StackOK, Once

LEMMA LeaveKeepsStack ==
  ASSUME NEW c \in Seq(LogFrame), c # <<>>, StackOK(c), Once(c), NEW d, d = Tail(c)
  PROVE  StackOK(d) /\ Once(d)
<1>1. /\ d \in Seq(LogFrame) /\ Len(d) = Len(c) - 1
      /\ Len(c) \in Nat /\ Len(c) >= 1
      /\ \A i \in 1..Len(c) - 1 : d[i] = c[i + 1]
  BY CallLeft
<1>2. \A i \in 1..Len(d) : i + 1 \in 2..Len(c) /\ i + 1 \in 1..Len(c) /\ d[i] = c[i + 1]
  BY <1>1
<1>3. StackOK(d)
  <2>1. \A i \in 1..Len(d) : FrameOK(d[i])
    BY <1>2 DEF StackOK
  <2>2. \A i \in 2..Len(d) : d[i].at \in Waiting
    BY <1>1, <1>2 DEF StackOK
  <2>3. ASSUME NEW i \in 1..Len(d), i < Len(d)
        PROVE  /\ d[i].of \in {"ulog", "ulog_close"}
               /\ d[i].type # "fatal"
               /\ d[i].of = "ulog_close" => d[i + 1].at = "exit"
    <3>1. i + 1 \in 1..Len(c) /\ i + 1 < Len(c) /\ d[i] = c[i + 1] /\ d[i + 1] = c[(i + 1) + 1]
      BY <1>1, <2>3
    <3> QED  BY <3>1 DEF StackOK
  <2> QED  BY <2>1, <2>2, <2>3 DEF StackOK
<1>4. \A i, j \in 1..Len(d) : d[i].at = "signals" /\ d[j].at = "signals" => i = j
  BY <1>1, <1>2 DEF Once
<1>5. \A i, j \in 2..Len(d) : d[i].at = "logFile" /\ d[j].at = "logFile" => i = j
  BY <1>1, <1>2 DEF Once
<1>6. \A i, j \in 1..Len(d) : d[i].at \in Ending /\ d[j].at \in Ending => i = j
  BY <1>1, <1>2 DEF Once
<1> QED  BY <1>3, <1>4, <1>5, <1>6 DEF Once

-----------------------------------------------------------------------------
(* What a call is given and becomes *)

LEMMA Inside ==
  ASSUME LogTypeOK, NEW of, NEW at, In(of, at)
  PROVE  /\ calls \in Seq(LogFrame) /\ calls # <<>>
         /\ Len(calls) \in Nat /\ Len(calls) >= 1 /\ 1 \in 1..Len(calls)
         /\ Call = calls[1] /\ Call \in LogFrame
         /\ calls[1].of = of /\ calls[1].at = at
         /\ ended = FALSE
<1>1. calls \in Seq(LogFrame) /\ ended \in BOOLEAN
  BY DEF LogTypeOK
<1>2. calls # <<>> /\ Call.of = of /\ Call.at = at
  BY DEF In
<1>3. ended = FALSE
  BY <1>1 DEF In
<1>4. Call = calls[1] /\ Len(calls) \in Nat /\ Len(calls) >= 1 /\ 1 \in 1..Len(calls)
  BY <1>1, <1>2 DEF Call
<1>5. Call \in LogFrame
  BY <1>1, <1>4
<1> QED  BY <1>1, <1>2, <1>3, <1>4, <1>5

LEMMA FrameGoes ==
  ASSUME NEW f \in LogFrame, NEW at \in PlacesOf(f.of), FrameOK(f),
         NEW g, g = [f EXCEPT !.at = at]
  PROVE  /\ g \in LogFrame /\ FrameOK(g)
         /\ g.of = f.of /\ g.type = f.type /\ g.message = f.message
         /\ g.about = f.about /\ g.sig = f.sig /\ g.at = at
<1>1. /\ g.of = f.of /\ g.type = f.type /\ g.message = f.message
      /\ g.about = f.about /\ g.sig = f.sig /\ g.at = at
  BY DEF LogFrame
<1>2. at \in {"start", "signals", "debugFile", "logFile", "noLog", "output", "exit",
              "files", "written", "closed", "reported"}
  BY DEF PlacesOf
<1>3. g \in LogFrame
  BY <1>2 DEF LogFrame
<1>4. FrameOK(g)
  BY <1>1 DEF FrameOK
<1> QED  BY <1>1, <1>3, <1>4

(* No signal is called none. *)
LEMMA SignalNames ==
  "none" \notin LogSignals
<1>1. \A i \in 1..Len(SignalOrder) :
        SignalOrder[i] \in {"hup", "int", "quit", "term", "pipe"}
  BY LogAssumption DEF LogAssumption
<1> QED  BY <1>1 DEF LogSignals

-----------------------------------------------------------------------------
(* What is kept when the innermost call goes on, makes a call or returns *)

(* A call below the innermost one reports signals. *)
DoingBelow == \E i \in 2..Len(calls) : calls[i].at = "signals"

Doing == \E i \in 1..Len(calls) : calls[i].at = "signals"

LEMMA TopStep ==
  ASSUME LogTypeOK, StackInv, calls # <<>>,
         NEW f \in LogFrame, FrameOK(f), f.of = calls[1].of, f.type = calls[1].type,
         f.about = calls[1].about,
         f.at = "signals" => ~DoingBelow,
         f.at \in Ending <=> calls[1].at \in Ending,
         calls' = <<f>> \o Tail(calls),
         \A g \in LogFiles :
           /\ logFile'[g].open = TRUE => logFile'[g].tried = TRUE
           /\ logFile[g].tried = TRUE => logFile'[g].tried = TRUE
           /\ Failed(g) <=> Failed(g)',
         f.at = "noLog" => Failed("log"),
         f.at = "output" /\ f.type # "debug" =>
           fLfile = FALSE \/ logFile'["log"].open = TRUE,
         \A s \in unreported' :
           s \in unreported /\ (s \in afLog_signal => s \in afLog_signal'),
         UNCHANGED <<fLfile, ended, dropped>>
  PROVE  /\ calls' \in Seq(LogFrame)
         /\ StackInv'
         /\ Doing' <=> f.at = "signals" \/ DoingBelow
<1>1. /\ calls \in Seq(LogFrame)
      /\ calls' \in Seq(LogFrame) /\ Len(calls') = Len(calls)
      /\ Len(calls) \in Nat /\ Len(calls) >= 1
      /\ calls'[1] = f /\ \A i \in 2..Len(calls) : calls'[i] = calls[i]
  <2>1. calls \in Seq(LogFrame)  BY DEF LogTypeOK
  <2> QED  BY <2>1, TopChanged
<1>2. StackOK(calls)' /\ Once(calls)'
  <2>1. f.at = "signals" => \A i \in 2..Len(calls) : calls[i].at # "signals"
    BY DEF DoingBelow
  <2>2. f.at \in Ending => \A i \in 2..Len(calls) : calls[i].at \notin Ending
    <3>1. ASSUME f.at \in Ending, NEW i \in 2..Len(calls), calls[i].at \in Ending
          PROVE  FALSE
      <4>1. 1 \in 1..Len(calls) /\ i \in 1..Len(calls) /\ calls[1].at \in Ending
        BY <1>1, <3>1
      <4>2. 1 = i  BY <4>1, <3>1 DEF StackInv, Once
      <4> QED  BY <4>2, <3>1
    <3> QED  BY <3>1
  <2>3. StackOK(calls) /\ Once(calls)  BY DEF StackInv
  <2> HIDE DEF Ending
  <2>4. StackOK(calls') /\ Once(calls')  BY <2>1, <2>2, <2>3, <1>1, TopKeepsStack
  <2> QED  BY <2>4 DEF StackOK, Once
<1>3. FilesInv'
  <2>1. \A g \in LogFiles : logFile'[g].open = TRUE => logFile'[g].tried = TRUE
    OBVIOUS
  <2>2. \A i \in 2..Len(calls') : calls'[i].at = "logFile" => Failed("debug")'
    <3>1. Failed("debug") <=> Failed("debug")'  BY DEF LogFiles
    <3> QED  BY <3>1, <1>1 DEF StackInv, FilesInv
  <2>3. \A i \in 1..Len(calls') : calls'[i].at = "noLog" => Failed("log")'
    <3>1. Failed("log") <=> Failed("log")'  BY DEF LogFiles
    <3>2. ASSUME NEW i \in 1..Len(calls'), calls'[i].at = "noLog"
          PROVE  Failed("log")
      <4>1. CASE i = 1  BY <4>1, <3>2, <1>1
      <4>2. CASE i # 1
        <5>1. i \in 1..Len(calls) /\ calls'[i] = calls[i]  BY <4>2, <1>1
        <5> QED  BY <5>1, <3>2 DEF StackInv, FilesInv
      <4> QED  BY <4>1, <4>2
    <3> QED  BY <3>1, <3>2
  <2>4. \A i \in 2..Len(calls') : calls'[i].at = "exit" =>
          fLfile' = FALSE \/ logFile'["log"].tried = TRUE
    <3>1. logFile["log"].tried = TRUE => logFile'["log"].tried = TRUE  BY DEF LogFiles
    <3> QED  BY <3>1, <1>1 DEF StackInv, FilesInv
  <2>5. calls' # <<>> /\ calls'[1].at = "output" /\ calls'[1].type # "debug" =>
          fLfile' = FALSE \/ logFile'["log"].open = TRUE
    BY <1>1
  <2> QED  BY <2>1, <2>2, <2>3, <2>4, <2>5 DEF FilesInv
<1>4. FailInv'
  <2>1. Failed("log") <=> Failed("log")'  BY DEF LogFiles
  <2>2. ASSUME NEW i \in 1..Len(calls), calls[i].at \in Ending
        PROVE  i \in 1..Len(calls') /\ calls'[i].at \in Ending
    BY <1>1, <2>2
  <2>3. Failed("log") => ended = TRUE \/ \E i \in 1..Len(calls) : calls[i].at \in Ending
    BY DEF StackInv, FailInv
  <2>4. dropped = TRUE => Failed("log")
    BY DEF StackInv, FailInv
  <2> QED  BY <2>1, <2>2, <2>3, <2>4 DEF FailInv
<1>5. ReportInv'
  <2>1. Failed("log") <=> Failed("log")'  BY DEF LogFiles
  <2>2. ASSUME NEW i \in 1..Len(calls)
        PROVE  i \in 1..Len(calls') /\ calls'[i].about = calls[i].about
    BY <1>1, <2>2
  <2>3. ASSUME NEW s \in unreported'
        PROVE  \/ s \in afLog_signal' \/ Failed("log")'
               \/ \E i \in 1..Len(calls') : calls'[i].about = s
    BY <2>1, <2>2, <2>3 DEF StackInv, ReportInv
  <2> QED  BY <2>3 DEF ReportInv
<1>6. Doing' <=> f.at = "signals" \/ DoingBelow
  <2>1. Doing' => f.at = "signals" \/ DoingBelow
    BY <1>1 DEF Doing, DoingBelow
  <2>2. 1 \in 1..Len(calls') /\ \A i \in 2..Len(calls) : i \in 1..Len(calls')
    BY <1>1
  <2>3. f.at = "signals" \/ DoingBelow => Doing'
    BY <1>1, <2>2 DEF Doing, DoingBelow
  <2> QED  BY <2>1, <2>3
<1> QED  BY <1>1, <1>2, <1>3, <1>4, <1>5, <1>6 DEF StackInv

LEMMA EnterStep ==
  ASSUME LogTypeOK, StackInv, calls # <<>>,
         NEW f \in LogFrame, FrameOK(f), f.of = calls[1].of, f.type = calls[1].type,
         f.about = calls[1].about \/ (f.about = "none" /\ calls[1].about \notin unreported'),
         f.at \in Waiting,
         f.at = "signals" => ~DoingBelow,
         f.at = "logFile" =>
           /\ \A i \in 2..Len(calls) : calls[i].at # "logFile"
           /\ Failed("debug")',
         f.at \in Ending => \A i \in 2..Len(calls) : calls[i].at \notin Ending,
         calls[1].at \in Ending => f.at \in Ending,
         f.at = "noLog" => Failed("log")',
         f.at = "exit" => fLfile = FALSE \/ logFile'["log"].tried = TRUE,
         Failed("log")' => Failed("log") \/ f.at \in Ending,
         NEW g \in LogFrame, FrameOK(g), g.at = "start", g.type # "fatal",
         g.of = "ulog" \/ (g.of = "ulog_close" /\ f.at = "exit"),
         calls' = <<g>> \o (<<f>> \o Tail(calls)),
         \A h \in LogFiles :
           /\ logFile'[h].open = TRUE => logFile'[h].tried = TRUE
           /\ logFile[h].tried = TRUE => logFile'[h].tried = TRUE
           /\ Failed(h) => Failed(h)',
         \A s \in unreported' :
           /\ s \in unreported
           /\ s \in afLog_signal => s \in afLog_signal' \/ g.about = s,
         UNCHANGED <<fLfile, ended, dropped>>
  PROVE  /\ calls' \in Seq(LogFrame)
         /\ StackInv'
         /\ Doing' <=> f.at = "signals" \/ DoingBelow
<1>1. /\ calls \in Seq(LogFrame)
      /\ calls' \in Seq(LogFrame) /\ Len(calls') = Len(calls) + 1
      /\ Len(calls) \in Nat /\ Len(calls) >= 1
      /\ calls'[1] = g /\ calls'[2] = f
      /\ \A i \in 3..Len(calls) + 1 : calls'[i] = calls[i - 1]
  <2>1. calls \in Seq(LogFrame)  BY DEF LogTypeOK
  <2> QED  BY <2>1, CallEntered
<1>a. ASSUME NEW i \in 2..Len(calls)
      PROVE  i + 1 \in 3..Len(calls') /\ i + 1 \in 1..Len(calls')
               /\ calls'[i + 1] = calls[i]
  BY <1>1, <1>a
<1>b. ASSUME NEW i \in 3..Len(calls')
      PROVE  i - 1 \in 2..Len(calls) /\ i - 1 \in 1..Len(calls)
               /\ calls'[i] = calls[i - 1]
  BY <1>1, <1>b
<1>2. StackOK(calls)' /\ Once(calls)'
  <2>1. f.at = "signals" => \A i \in 2..Len(calls) : calls[i].at # "signals"
    BY DEF DoingBelow
  <2>2. f.at = "logFile" => \A i \in 2..Len(calls) : calls[i].at # "logFile"
    OBVIOUS
  <2>3. StackOK(calls) /\ Once(calls)  BY DEF StackInv
  <2> HIDE DEF Ending, Waiting
  <2>4. StackOK(calls') /\ Once(calls')  BY <2>1, <2>2, <2>3, <1>1, EnterKeepsStack
  <2> QED  BY <2>4 DEF StackOK, Once
<1>3. FilesInv'
  <2>1. \A h \in LogFiles : logFile'[h].open = TRUE => logFile'[h].tried = TRUE
    OBVIOUS
  <2>2. ASSUME NEW i \in 2..Len(calls'), calls'[i].at = "logFile"
        PROVE  Failed("debug")'
    <3>1. CASE i = 2  BY <3>1, <2>2, <1>1
    <3>2. CASE i # 2
      <4>1. i - 1 \in 2..Len(calls) /\ calls'[i] = calls[i - 1]  BY <3>2, <1>1, <1>b
      <4>2. Failed("debug")  BY <4>1, <2>2 DEF StackInv, FilesInv
      <4> QED  BY <4>2 DEF LogFiles
    <3> QED  BY <3>1, <3>2
  <2>3. ASSUME NEW i \in 1..Len(calls'), calls'[i].at = "noLog"
        PROVE  Failed("log")'
    <3>1. i # 1  BY <2>3, <1>1
    <3>2. CASE i = 2  BY <3>2, <2>3, <1>1
    <3>3. CASE i # 2
      <4>1. i - 1 \in 1..Len(calls) /\ calls'[i] = calls[i - 1]  BY <3>1, <3>3, <1>1, <1>b
      <4>2. Failed("log")  BY <4>1, <2>3 DEF StackInv, FilesInv
      <4> QED  BY <4>2 DEF LogFiles
    <3> QED  BY <3>2, <3>3
  <2>4. ASSUME NEW i \in 2..Len(calls'), calls'[i].at = "exit"
        PROVE  fLfile' = FALSE \/ logFile'["log"].tried = TRUE
    <3>1. CASE i = 2  BY <3>1, <2>4, <1>1
    <3>2. CASE i # 2
      <4>1. i - 1 \in 2..Len(calls) /\ calls'[i] = calls[i - 1]  BY <3>2, <1>1, <1>b
      <4>2. fLfile = FALSE \/ logFile["log"].tried = TRUE
        BY <4>1, <2>4 DEF StackInv, FilesInv
      <4> QED  BY <4>2 DEF LogFiles
    <3> QED  BY <3>1, <3>2
  <2>5. calls' # <<>> /\ calls'[1].at = "output" /\ calls'[1].type # "debug" =>
          fLfile' = FALSE \/ logFile'["log"].open = TRUE
    BY <1>1
  <2> QED  BY <2>1, <2>2, <2>3, <2>4, <2>5 DEF FilesInv
<1>4. FailInv'
  <2>1. f.at \in Ending => \E i \in 1..Len(calls') : calls'[i].at \in Ending
    <3>1. 2 \in 1..Len(calls')  BY <1>1
    <3> QED  BY <3>1, <1>1
  <2>2. ASSUME NEW i \in 1..Len(calls), calls[i].at \in Ending
        PROVE  \E j \in 1..Len(calls') : calls'[j].at \in Ending
    <3>1. CASE i = 1  BY <3>1, <2>1, <2>2
    <3>2. CASE i # 1
      <4>1. i \in 2..Len(calls)  BY <3>2
      <4>2. i + 1 \in 1..Len(calls') /\ calls'[i + 1] = calls[i]  BY <4>1, <1>a
      <4> QED  BY <4>2, <2>2
    <3> QED  BY <3>1, <3>2
  <2>3. Failed("log") => ended = TRUE \/ \E i \in 1..Len(calls) : calls[i].at \in Ending
    BY DEF StackInv, FailInv
  <2>4. dropped = TRUE => Failed("log")
    BY DEF StackInv, FailInv
  <2>5. Failed("log") => Failed("log")'  BY DEF LogFiles
  <2>6. Failed("log")' => ended' = TRUE \/ \E j \in 1..Len(calls') : calls'[j].at \in Ending
    BY <2>1, <2>2, <2>3
  <2>7. dropped' = TRUE => Failed("log")'
    BY <2>4, <2>5
  <2> QED  BY <2>6, <2>7 DEF FailInv
<1>5. ReportInv'
  <2>1. Failed("log") => Failed("log")'  BY DEF LogFiles
  <2>2. ASSUME NEW s \in unreported', NEW i \in 1..Len(calls), calls[i].about = s
        PROVE  \E j \in 1..Len(calls') : calls'[j].about = s
    <3>1. CASE i = 1
      <4>1. 2 \in 1..Len(calls') /\ f.about = s  BY <3>1, <2>2, <1>1
      <4> QED  BY <4>1, <1>1
    <3>2. CASE i # 1
      <4>1. i \in 2..Len(calls)  BY <3>2
      <4>2. i + 1 \in 1..Len(calls') /\ calls'[i + 1] = calls[i]  BY <4>1, <1>a
      <4> QED  BY <4>2, <2>2
    <3> QED  BY <3>1, <3>2
  <2>3. 1 \in 1..Len(calls') /\ calls'[1] = g  BY <1>1
  <2>4. ASSUME NEW s \in unreported'
        PROVE  \/ s \in afLog_signal' \/ Failed("log")'
               \/ \E i \in 1..Len(calls') : calls'[i].about = s
    <3>1. \/ s \in afLog_signal \/ Failed("log")
          \/ \E i \in 1..Len(calls) : calls[i].about = s
      BY <2>4 DEF StackInv, ReportInv
    <3> QED  BY <3>1, <2>1, <2>2, <2>3, <2>4
  <2> QED  BY <2>4 DEF ReportInv
<1>6. Doing' <=> f.at = "signals" \/ DoingBelow
  <2>1. ASSUME NEW i \in 1..Len(calls'), calls'[i].at = "signals"
        PROVE  f.at = "signals" \/ DoingBelow
    <3>1. i # 1  BY <2>1, <1>1
    <3>2. CASE i = 2  BY <3>2, <2>1, <1>1
    <3>3. CASE i # 2
      <4>1. i - 1 \in 2..Len(calls) /\ calls'[i] = calls[i - 1]  BY <3>1, <3>3, <1>1, <1>b
      <4> QED  BY <4>1, <2>1 DEF DoingBelow
    <3> QED  BY <3>2, <3>3
  <2>2. f.at = "signals" => Doing'
    <3>1. 2 \in 1..Len(calls')  BY <1>1
    <3> QED  BY <3>1, <1>1 DEF Doing
  <2>3. DoingBelow => Doing'
    BY <1>a DEF DoingBelow, Doing
  <2> QED  BY <2>1, <2>2, <2>3 DEF Doing
<1> QED  BY <1>1, <1>2, <1>3, <1>4, <1>5, <1>6 DEF StackInv

LEMMA LeaveStep ==
  ASSUME LogTypeOK, StackInv, calls # <<>>,
         calls[1].at \notin Ending,
         calls' = Tail(calls),
         \A h \in LogFiles :
           /\ logFile'[h].open = TRUE => logFile'[h].tried = TRUE
           /\ Failed(h) <=> Failed(h)',
         logFile["log"].tried = TRUE =>
           \/ logFile'["log"].tried = TRUE
           \/ \A i \in 3..Len(calls) : calls[i].at # "exit",
         dropped' = TRUE => dropped = TRUE \/ Failed("log"),
         \A s \in unreported' :
           /\ s \in unreported
           /\ s \in afLog_signal => s \in afLog_signal'
           /\ calls[1].about = s => Failed("log"),
         UNCHANGED <<fLfile, ended>>
  PROVE  /\ calls' \in Seq(LogFrame)
         /\ StackInv'
         /\ Doing' <=> DoingBelow
<1>1. /\ calls \in Seq(LogFrame)
      /\ calls' \in Seq(LogFrame) /\ Len(calls') = Len(calls) - 1
      /\ Len(calls) \in Nat /\ Len(calls) >= 1
      /\ \A i \in 1..Len(calls) - 1 : calls'[i] = calls[i + 1]
  <2>1. calls \in Seq(LogFrame)  BY DEF LogTypeOK
  <2> QED  BY <2>1, CallLeft
<1>a. ASSUME NEW i \in 2..Len(calls)
      PROVE  i - 1 \in 1..Len(calls') /\ calls'[i - 1] = calls[i]
  BY <1>1, <1>a
<1>b. ASSUME NEW i \in 1..Len(calls')
      PROVE  i + 1 \in 2..Len(calls) /\ i + 1 \in 1..Len(calls)
               /\ calls'[i] = calls[i + 1]
  BY <1>1, <1>b
<1>2. StackOK(calls)' /\ Once(calls)'
  <2>1. StackOK(calls) /\ Once(calls)  BY DEF StackInv
  <2>2. StackOK(calls') /\ Once(calls')  BY <2>1, <1>1, LeaveKeepsStack
  <2> QED  BY <2>2 DEF StackOK, Once
<1>3. FilesInv'
  <2>1. \A h \in LogFiles : logFile'[h].open = TRUE => logFile'[h].tried = TRUE
    OBVIOUS
  <2>2. ASSUME NEW i \in 2..Len(calls'), calls'[i].at = "logFile"
        PROVE  Failed("debug")'
    <3>1. i + 1 \in 2..Len(calls) /\ calls'[i] = calls[i + 1]  BY <1>1, <1>b
    <3>2. Failed("debug")  BY <3>1, <2>2 DEF StackInv, FilesInv
    <3> QED  BY <3>2 DEF LogFiles
  <2>3. ASSUME NEW i \in 1..Len(calls'), calls'[i].at = "noLog"
        PROVE  Failed("log")'
    <3>1. Failed("log")  BY <1>b, <2>3 DEF StackInv, FilesInv
    <3> QED  BY <3>1 DEF LogFiles
  <2>4. ASSUME NEW i \in 2..Len(calls'), calls'[i].at = "exit"
        PROVE  fLfile' = FALSE \/ logFile'["log"].tried = TRUE
    <3>1. i + 1 \in 3..Len(calls) /\ i + 1 \in 2..Len(calls) /\ calls'[i] = calls[i + 1]
      BY <1>1, <1>b
    <3>2. fLfile = FALSE \/ logFile["log"].tried = TRUE
      BY <3>1, <2>4 DEF StackInv, FilesInv
    <3> QED  BY <3>1, <3>2, <2>4
  <2>5. ASSUME calls' # <<>>
        PROVE  calls'[1].at # "output"
    <3>1. 1 \in 1..Len(calls')  BY <2>5, <1>1
    <3>2. 2 \in 2..Len(calls) /\ calls'[1] = calls[2]  BY <3>1, <1>1
    <3>3. calls[2].at \in Waiting  BY <3>2 DEF StackInv, StackOK
    <3> QED  BY <3>2, <3>3 DEF Waiting
  <2> QED  BY <2>1, <2>2, <2>3, <2>4, <2>5 DEF FilesInv
<1>4. FailInv'
  <2>1. Failed("log") <=> Failed("log")'  BY DEF LogFiles
  <2>2. ASSUME NEW i \in 1..Len(calls), calls[i].at \in Ending
        PROVE  \E j \in 1..Len(calls') : calls'[j].at \in Ending
    <3>1. i # 1  BY <2>2
    <3>2. i \in 2..Len(calls)  BY <3>1
    <3>3. i - 1 \in 1..Len(calls') /\ calls'[i - 1] = calls[i]  BY <3>2, <1>a
    <3> QED  BY <3>3, <2>2
  <2>3. Failed("log") => ended = TRUE \/ \E i \in 1..Len(calls) : calls[i].at \in Ending
    BY DEF StackInv, FailInv
  <2>4. dropped = TRUE => Failed("log")
    BY DEF StackInv, FailInv
  <2> QED  BY <2>1, <2>2, <2>3, <2>4 DEF FailInv
<1>5. ReportInv'
  <2>1. Failed("log") => Failed("log")'  BY DEF LogFiles
  <2>2. ASSUME NEW s \in unreported', NEW i \in 1..Len(calls), calls[i].about = s
        PROVE  Failed("log") \/ \E j \in 1..Len(calls') : calls'[j].about = s
    <3>1. CASE i = 1  BY <3>1, <2>2
    <3>2. CASE i # 1
      <4>1. i \in 2..Len(calls)  BY <3>2
      <4>2. i - 1 \in 1..Len(calls') /\ calls'[i - 1] = calls[i]  BY <4>1, <1>a
      <4> QED  BY <4>2, <2>2
    <3> QED  BY <3>1, <3>2
  <2>4. ASSUME NEW s \in unreported'
        PROVE  \/ s \in afLog_signal' \/ Failed("log")'
               \/ \E i \in 1..Len(calls') : calls'[i].about = s
    <3>1. \/ s \in afLog_signal \/ Failed("log")
          \/ \E i \in 1..Len(calls) : calls[i].about = s
      BY <2>4 DEF StackInv, ReportInv
    <3> QED  BY <3>1, <2>1, <2>2, <2>4
  <2> QED  BY <2>4 DEF ReportInv
<1>6. Doing' <=> DoingBelow
  <2>1. Doing' => DoingBelow
    BY <1>b DEF DoingBelow, Doing
  <2>2. DoingBelow => Doing'
    BY <1>a DEF DoingBelow, Doing
  <2> QED  BY <2>1, <2>2
<1> QED  BY <1>1, <1>2, <1>3, <1>4, <1>5, <1>6 DEF StackInv

-----------------------------------------------------------------------------
(* The steps *)

(* What LogTypeOK says of all but the stack. *)
LogTypeRest ==
  /\ fLfile \in BOOLEAN /\ iDebug \in BOOLEAN /\ fLog_sighup \in BOOLEAN
  /\ ended \in BOOLEAN /\ dropped \in BOOLEAN
  /\ nLogCalls \in Nat /\ nArrivals \in Nat
  /\ logFile \in [LogFiles -> [open : BOOLEAN, tried : BOOLEAN]]
  /\ handler \in [LogSignals -> {"default", "ignored", "caught"}]
  /\ afLog_signal \subseteq LogSignals
  /\ unreported \subseteq LogSignals /\ early \subseteq LogSignals

LEMMA TypeKnown ==
  ASSUME LogTypeOK
  PROVE  /\ LogTypeRest /\ calls \in Seq(LogFrame)
         /\ fdoing_sigs \in BOOLEAN /\ (fdoing_sigs = TRUE <=> Doing)
<1>1. fdoing_sigs = TRUE <=> Doing
  BY Zenon DEF LogTypeOK, Doing
<1> QED  BY <1>1 DEF LogTypeOK, LogTypeRest

LEMMA TypeMade ==
  ASSUME LogTypeRest', calls' \in Seq(LogFrame),
         fdoing_sigs' \in BOOLEAN, fdoing_sigs' = TRUE <=> Doing'
  PROVE  LogTypeOK'
<1>1. fdoing_sigs' = (\E i \in 1..Len(calls') : calls'[i].at = "signals")
  BY Zenon DEF Doing
<1> QED  BY <1>1 DEF LogTypeOK, LogTypeRest

LEMMA DoingTop ==
  ASSUME calls \in Seq(LogFrame), calls # <<>>, Once(calls)
  PROVE  /\ Doing <=> calls[1].at = "signals" \/ DoingBelow
         /\ calls[1].at = "signals" => ~DoingBelow
<1>1. /\ Len(calls) \in Nat /\ Len(calls) >= 1 /\ 1 \in 1..Len(calls)
      /\ \A i \in 2..Len(calls) : i \in 1..Len(calls) /\ i # 1
      /\ \A i \in 1..Len(calls) : i = 1 \/ i \in 2..Len(calls)
  OBVIOUS
<1>2. Doing => calls[1].at = "signals" \/ DoingBelow
  BY <1>1 DEF Doing, DoingBelow
<1>3. calls[1].at = "signals" \/ DoingBelow => Doing
  BY <1>1 DEF Doing, DoingBelow
<1>4. calls[1].at = "signals" => ~DoingBelow
  BY <1>1 DEF DoingBelow, Once
<1> QED  BY <1>2, <1>3, <1>4

(* What every step from within a call may use. *)
LEMMA Known ==
  ASSUME LogInv, NEW of, NEW at, In(of, at)
  PROVE  /\ LogTypeOK /\ StackInv /\ LogTypeRest
         /\ calls \in Seq(LogFrame) /\ calls # <<>>
         /\ Len(calls) \in Nat /\ 1 \in 1..Len(calls)
         /\ Call = calls[1] /\ Call \in LogFrame /\ FrameOK(Call)
         /\ Call.of = of /\ Call.at = at
         /\ fdoing_sigs \in BOOLEAN
         /\ at = "signals" => fdoing_sigs = TRUE /\ ~DoingBelow
         /\ at # "signals" => (fdoing_sigs = TRUE <=> DoingBelow)
         /\ ended = FALSE
<1>1. LogTypeOK /\ StackInv
  BY DEF LogInv
<1>2. /\ calls \in Seq(LogFrame) /\ calls # <<>> /\ Len(calls) \in Nat
      /\ 1 \in 1..Len(calls) /\ Call = calls[1] /\ Call \in LogFrame
      /\ Call.of = of /\ Call.at = at /\ ended = FALSE
  BY <1>1, Inside
<1>3. FrameOK(Call)
  BY <1>1, <1>2 DEF StackInv, StackOK
<1>4. LogTypeRest /\ fdoing_sigs \in BOOLEAN /\ (fdoing_sigs = TRUE <=> Doing)
  BY <1>1, TypeKnown
<1>5. /\ Doing <=> calls[1].at = "signals" \/ DoingBelow
      /\ calls[1].at = "signals" => ~DoingBelow
  BY <1>1, <1>2, DoingTop DEF StackInv
<1> QED  BY <1>1, <1>2, <1>3, <1>4, <1>5

(* No file is touched. *)
LEMMA FilesSame ==
  ASSUME StackInv, UNCHANGED logFile
  PROVE  \A h \in LogFiles :
           /\ logFile'[h].open = TRUE => logFile'[h].tried = TRUE
           /\ logFile[h].tried = TRUE => logFile'[h].tried = TRUE
           /\ Failed(h) <=> Failed(h)'
BY DEF StackInv, FilesInv, Failed

LEMMA GoesStep ==
  ASSUME LogInv, NEW of, NEW at, In(of, at), NEW to \in PlacesOf(of),
         calls' = Goes(to),
         to = "signals" => ~DoingBelow,
         to \in Ending <=> at \in Ending,
         \A h \in LogFiles :
           /\ logFile'[h].open = TRUE => logFile'[h].tried = TRUE
           /\ logFile[h].tried = TRUE => logFile'[h].tried = TRUE
           /\ Failed(h) <=> Failed(h)',
         to = "noLog" => Failed("log"),
         to = "output" /\ Call.type # "debug" =>
           fLfile = FALSE \/ logFile'["log"].open = TRUE,
         LogTypeRest', fdoing_sigs' \in BOOLEAN,
         fdoing_sigs' = TRUE <=> to = "signals" \/ DoingBelow,
         UNCHANGED <<fLfile, ended, afLog_signal, unreported, dropped>>
  PROVE  LogInv'
<1> DEFINE f == [Call EXCEPT !.at = to]
<1>1. /\ LogTypeOK /\ StackInv
      /\ calls # <<>> /\ Call = calls[1] /\ Call \in LogFrame /\ FrameOK(Call)
      /\ Call.of = of /\ Call.at = at
  BY Known
<1>2. /\ f \in LogFrame /\ FrameOK(f)
      /\ f.of = Call.of /\ f.type = Call.type /\ f.about = Call.about /\ f.at = to
  BY <1>1, FrameGoes, SMTT(20)
<1>3. calls' = <<f>> \o Tail(calls)
  BY DEF Goes
<1> HIDE DEF f
<1>4. f.at \in Ending <=> calls[1].at \in Ending
  BY <1>1, <1>2
<1>5. f.at = "output" /\ f.type # "debug" =>
        fLfile = FALSE \/ logFile'["log"].open = TRUE
  BY <1>2
<1>6. /\ calls' \in Seq(LogFrame)
      /\ StackInv'
      /\ Doing' <=> f.at = "signals" \/ DoingBelow
  BY <1>1, <1>2, <1>3, <1>4, <1>5, TopStep
<1>7. LogTypeOK'
  BY <1>2, <1>6, TypeMade
<1> QED  BY <1>6, <1>7 DEF LogInv

LEMMA EntersStep ==
  ASSUME LogInv, NEW of, NEW at, In(of, at), NEW to \in PlacesOf(of),
         NEW g \in LogFrame, FrameOK(g), g.at = "start", g.type # "fatal",
         g.of = "ulog" \/ (g.of = "ulog_close" /\ to = "exit"),
         calls' = Enters(g, to),
         to \in Waiting, to # "signals", at # "signals",
         to = "logFile" =>
           /\ \A i \in 2..Len(calls) : calls[i].at # "logFile"
           /\ Failed("debug")',
         to \in Ending => \A i \in 2..Len(calls) : calls[i].at \notin Ending,
         at \in Ending => to \in Ending,
         to = "noLog" => Failed("log")',
         to = "exit" => fLfile = FALSE \/ logFile'["log"].tried = TRUE,
         Failed("log")' => Failed("log") \/ to \in Ending,
         \A h \in LogFiles :
           /\ logFile'[h].open = TRUE => logFile'[h].tried = TRUE
           /\ logFile[h].tried = TRUE => logFile'[h].tried = TRUE
           /\ Failed(h) => Failed(h)',
         unreported' \subseteq unreported,
         Call.about \in unreported' => Call.about \in unreported,
         LogTypeRest',
         UNCHANGED <<fLfile, ended, dropped, afLog_signal, fdoing_sigs>>
  PROVE  LogInv'
<1> DEFINE f == [Call EXCEPT !.at = to]
<1>1. /\ LogTypeOK /\ StackInv
      /\ calls # <<>> /\ Call = calls[1] /\ Call \in LogFrame /\ FrameOK(Call)
      /\ Call.of = of /\ Call.at = at
      /\ fdoing_sigs \in BOOLEAN
      /\ at # "signals" => (fdoing_sigs = TRUE <=> DoingBelow)
  BY Known
<1>2. /\ f \in LogFrame /\ FrameOK(f)
      /\ f.of = Call.of /\ f.type = Call.type /\ f.about = Call.about /\ f.at = to
  BY <1>1, FrameGoes
<1>3. calls' = <<g>> \o (<<f>> \o Tail(calls))
  BY DEF Enters, Goes
<1> HIDE DEF f
<1>4. /\ f.at = "logFile" =>
           /\ \A i \in 2..Len(calls) : calls[i].at # "logFile"
           /\ Failed("debug")'
      /\ f.at \in Ending => \A i \in 2..Len(calls) : calls[i].at \notin Ending
      /\ calls[1].at \in Ending => f.at \in Ending
      /\ f.at = "noLog" => Failed("log")'
      /\ f.at = "exit" => fLfile = FALSE \/ logFile'["log"].tried = TRUE
      /\ Failed("log")' => Failed("log") \/ f.at \in Ending
      /\ f.at \in Waiting /\ f.at # "signals"
      /\ g.of = "ulog" \/ (g.of = "ulog_close" /\ f.at = "exit")
      /\ f.of = calls[1].of /\ f.type = calls[1].type /\ f.about = calls[1].about
  BY <1>1, <1>2
<1>5. \A s \in unreported' :
        /\ s \in unreported
        /\ s \in afLog_signal => s \in afLog_signal' \/ g.about = s
  OBVIOUS
<1>6. /\ calls' \in Seq(LogFrame)
      /\ StackInv'
      /\ Doing' <=> f.at = "signals" \/ DoingBelow
  BY <1>1, <1>2, <1>3, <1>4, <1>5, EnterStep
<1>7. LogTypeOK'
  BY <1>1, <1>4, <1>6, TypeMade
<1> QED  BY <1>6, <1>7 DEF LogInv

LEMMA ReturnStep ==
  ASSUME LogInv, NEW of, NEW at, In(of, at),
         at \notin Ending, at # "signals",
         calls' = Tail(calls),
         \A h \in LogFiles :
           /\ logFile'[h].open = TRUE => logFile'[h].tried = TRUE
           /\ Failed(h) <=> Failed(h)',
         logFile["log"].tried = TRUE =>
           \/ logFile'["log"].tried = TRUE
           \/ \A i \in 3..Len(calls) : calls[i].at # "exit",
         dropped' = TRUE => dropped = TRUE \/ Failed("log"),
         \A s \in unreported' : s \in unreported /\ (Call.about = s => Failed("log")),
         LogTypeRest',
         UNCHANGED <<fLfile, ended, afLog_signal, fdoing_sigs>>
  PROVE  LogInv'
<1>1. /\ LogTypeOK /\ StackInv
      /\ calls # <<>> /\ Call = calls[1] /\ Call.at = at
      /\ fdoing_sigs \in BOOLEAN
      /\ at # "signals" => (fdoing_sigs = TRUE <=> DoingBelow)
  BY Known
<1>2. /\ calls' \in Seq(LogFrame)
      /\ StackInv'
      /\ Doing' <=> DoingBelow
  BY <1>1, LeaveStep
<1>3. LogTypeOK'
  BY <1>1, <1>2, TypeMade
<1> QED  BY <1>2, <1>3 DEF LogInv

LEMMA DoingElse ==
  ASSUME LogInv, NEW of, NEW at, In(of, at), at # "signals"
  PROVE  fdoing_sigs = TRUE <=> DoingBelow
<1>1. LogTypeOK /\ StackInv
  BY DEF LogInv
<1>2. calls \in Seq(LogFrame) /\ calls # <<>> /\ calls[1].at = at
  BY <1>1, Inside
<1>3. fdoing_sigs = TRUE <=> Doing
  BY <1>1, TypeKnown
<1>4. Doing <=> calls[1].at = "signals" \/ DoingBelow
  BY <1>1, <1>2, DoingTop DEF StackInv
<1>5. Doing <=> DoingBelow
  BY <1>2, <1>4
<1> QED  BY <1>3, <1>5

(* The calls that are made. *)
LEMMA NewError ==
  ASSUME NEW message, message = TRUE \/ message = FALSE
  PROVE  \E g \in LogFrame :
           /\ g = UlogCall("error", message, "none") /\ FrameOK(g)
           /\ g.of = "ulog" /\ g.type = "error" /\ g.at = "start"
<1> DEFINE g == UlogCall("error", message, "none")
<1>1. g.of = "ulog" /\ g.type = "error" /\ g.about = "none" /\ g.at = "start"
  BY DEF UlogCall
<1>2. 1 \in 1..Len(SignalOrder) + 1 /\ "error" \in LogTypes
  BY LogAssumption DEF LogAssumption, LogTypes
<1>3. g \in LogFrame
  <2>1. message \in BOOLEAN  OBVIOUS
  <2> QED  BY <1>2, <2>1 DEF UlogCall, LogFrame
<1>4. FrameOK(g)
  BY <1>1 DEF FrameOK, PlacesOf
<1> HIDE DEF g
<1>5. \E h \in LogFrame :
        /\ h = g /\ FrameOK(h)
        /\ h.of = "ulog" /\ h.type = "error" /\ h.at = "start"
  BY <1>1, <1>3, <1>4
<1> QED  BY <1>5 DEF g

LEMMA NewReport ==
  ASSUME NEW s \in LogSignals
  PROVE  \E g \in LogFrame :
           /\ g = UlogCall("error", TRUE, s) /\ FrameOK(g) /\ g.of = "ulog"
           /\ g.type = "error" /\ g.about = s /\ g.at = "start"
<1> DEFINE g == UlogCall("error", TRUE, s)
<1>1. /\ g.of = "ulog" /\ g.type = "error" /\ g.about = s /\ g.at = "start"
      /\ g.message = TRUE
  BY DEF UlogCall
<1>2. 1 \in 1..Len(SignalOrder) + 1 /\ "error" \in LogTypes
  BY LogAssumption DEF LogAssumption, LogTypes
<1>3. g \in LogFrame
  BY <1>2 DEF UlogCall, LogFrame
<1>4. FrameOK(g)
  BY <1>1 DEF FrameOK, PlacesOf
<1> HIDE DEF g
<1>5. \E h \in LogFrame :
        /\ h = g /\ FrameOK(h) /\ h.of = "ulog"
        /\ h.type = "error" /\ h.about = s /\ h.at = "start"
  BY <1>1, <1>3, <1>4
<1> QED  BY <1>5 DEF g

LEMMA NewClose ==
  \E g \in LogFrame :
    /\ g = OtherCall("ulog_close") /\ FrameOK(g)
    /\ g.of = "ulog_close" /\ g.type = "error" /\ g.at = "start"
<1> DEFINE g == OtherCall("ulog_close")
<1>1. /\ g.of = "ulog_close" /\ g.type = "error" /\ g.about = "none"
      /\ g.at = "start"
  BY DEF OtherCall
<1>2. 1 \in 1..Len(SignalOrder) + 1 /\ "error" \in LogTypes
  BY LogAssumption DEF LogAssumption, LogTypes
<1>3. g \in LogFrame
  BY <1>2 DEF OtherCall, LogFrame
<1>4. FrameOK(g)
  BY <1>1 DEF FrameOK, PlacesOf
<1> HIDE DEF g
<1>5. \E h \in LogFrame :
        /\ h = g /\ FrameOK(h)
        /\ h.of = "ulog_close" /\ h.type = "error" /\ h.at = "start"
  BY <1>1, <1>3, <1>4
<1> QED  BY <1>5 DEF g

(* esysdep_fopen opens a file, or cannot. *)
LEMMA FileOpened ==
  ASSUME StackInv, LogTypeRest, NEW f \in LogFiles, ToOpen(f),
         logFile' = [logFile EXCEPT ![f] = [open |-> TRUE, tried |-> TRUE]]
  PROVE  /\ logFile' \in [LogFiles -> [open : BOOLEAN, tried : BOOLEAN]]
         /\ logFile'[f].open = TRUE
         /\ \A h \in LogFiles :
              /\ logFile'[h].open = TRUE => logFile'[h].tried = TRUE
              /\ logFile[h].tried = TRUE => logFile'[h].tried = TRUE
              /\ Failed(h) <=> Failed(h)'
<1>1. /\ logFile \in [LogFiles -> [open : BOOLEAN, tried : BOOLEAN]]
      /\ logFile'[f] = [open |-> TRUE, tried |-> TRUE]
      /\ \A h \in LogFiles : h # f => logFile'[h] = logFile[h]
  BY DEF LogTypeRest
<1>2. logFile' \in [LogFiles -> [open : BOOLEAN, tried : BOOLEAN]]
  BY <1>1
<1>3. \A h \in LogFiles : logFile[h].open = TRUE => logFile[h].tried = TRUE
  BY DEF StackInv, FilesInv
<1>4. logFile[f].tried # TRUE
  BY DEF ToOpen
<1>5. ASSUME NEW h \in LogFiles
      PROVE  /\ logFile'[h].open = TRUE => logFile'[h].tried = TRUE
             /\ logFile[h].tried = TRUE => logFile'[h].tried = TRUE
             /\ Failed(h) <=> Failed(h)'
  <2>1. CASE h = f  BY <2>1, <1>1, <1>4 DEF Failed
  <2>2. CASE h # f  BY <2>2, <1>1, <1>3 DEF Failed
  <2> QED  BY <2>1, <2>2
<1> QED  BY <1>1, <1>2, <1>5

LEMMA FileFailed ==
  ASSUME StackInv, LogTypeRest, NEW f \in LogFiles, ToOpen(f),
         logFile' = [logFile EXCEPT ![f].tried = TRUE]
  PROVE  /\ logFile' \in [LogFiles -> [open : BOOLEAN, tried : BOOLEAN]]
         /\ Failed(f)'
         /\ \A h \in LogFiles :
              /\ logFile'[h].open = TRUE => logFile'[h].tried = TRUE
              /\ logFile[h].tried = TRUE => logFile'[h].tried = TRUE
              /\ Failed(h) => Failed(h)'
              /\ Failed(h)' => Failed(h) \/ h = f
<1>1. /\ logFile \in [LogFiles -> [open : BOOLEAN, tried : BOOLEAN]]
      /\ logFile'[f] = [logFile[f] EXCEPT !.tried = TRUE]
      /\ \A h \in LogFiles : h # f => logFile'[h] = logFile[h]
  BY DEF LogTypeRest
<1>2. logFile'[f].tried = TRUE /\ logFile'[f].open = logFile[f].open
  BY <1>1
<1>3. logFile[f].open = FALSE
  <2>1. logFile[f].open \in BOOLEAN  BY <1>1
  <2> QED  BY <2>1 DEF ToOpen
<1>4. logFile' \in [LogFiles -> [open : BOOLEAN, tried : BOOLEAN]]
  BY <1>1
<1>5. \A h \in LogFiles : logFile[h].open = TRUE => logFile[h].tried = TRUE
  BY DEF StackInv, FilesInv
<1>6. ASSUME NEW h \in LogFiles
      PROVE  /\ logFile'[h].open = TRUE => logFile'[h].tried = TRUE
             /\ logFile[h].tried = TRUE => logFile'[h].tried = TRUE
             /\ Failed(h) => Failed(h)'
             /\ Failed(h)' => Failed(h) \/ h = f
  <2>1. CASE h = f  BY <2>1, <1>1, <1>2, <1>3 DEF Failed
  <2>2. CASE h # f  BY <2>2, <1>1, <1>5 DEF Failed
  <2> QED  BY <2>1, <2>2
<1> QED  BY <1>2, <1>3, <1>4, <1>6 DEF Failed

LEMMA UlogStartStep ==
  ASSUME LogInv, UlogStart
  PROVE  LogInv'
<1>1. In("ulog", "start")
  BY DEF UlogStart
<1>2. /\ LogTypeOK /\ StackInv /\ LogTypeRest
      /\ calls \in Seq(LogFrame) /\ calls # <<>>
      /\ Len(calls) \in Nat /\ 1 \in 1..Len(calls)
      /\ Call = calls[1] /\ Call \in LogFrame /\ FrameOK(Call)
      /\ Call.of = "ulog" /\ Call.at = "start"
      /\ fdoing_sigs \in BOOLEAN
  BY <1>1, Known
<1>3. /\ fdoing_sigs' = TRUE
      /\ early' = IF fdoing_sigs THEN early ELSE {s \in unreported : Due(s)}
      /\ UNCHANGED <<fLfile, iDebug, handler, fLog_sighup, logFile, afLog_signal, ended,
                     nLogCalls, nArrivals, unreported, dropped>>
  BY DEF UlogStart, modes, counts
<1>a. early' \subseteq LogSignals
  BY <1>2, <1>3 DEF LogTypeRest
<1>4. fdoing_sigs = TRUE <=> DoingBelow
  BY <1>1, DoingElse
<1>5. \A h \in LogFiles :
        /\ logFile'[h].open = TRUE => logFile'[h].tried = TRUE
        /\ logFile[h].tried = TRUE => logFile'[h].tried = TRUE
        /\ Failed(h) <=> Failed(h)'
  BY <1>2, <1>3, FilesSame
<1>6. LogTypeRest'
  BY <1>2, <1>3, <1>a DEF LogTypeRest
<1>7. {"debugFile", "signals"} \cap Ending = {} /\ "start" \notin Ending
  BY DEF Ending
<1>8. {"debugFile", "signals"} \subseteq PlacesOf("ulog")
  BY DEF PlacesOf
<1>9. CASE fdoing_sigs = TRUE
  <2>1. calls' = Goes("debugFile")  BY <1>9 DEF UlogStart
  <2> QED  BY <2>1, <1>1, <1>3, <1>4, <1>5, <1>6, <1>7, <1>8, <1>9, GoesStep
<1>10. CASE fdoing_sigs = FALSE
  <2>1. calls' = Goes("signals")  BY <1>10 DEF UlogStart
  <2> QED  BY <2>1, <1>1, <1>3, <1>4, <1>5, <1>6, <1>7, <1>8, <1>10, GoesStep
<1> QED  BY <1>2, <1>9, <1>10

LEMMA SignalsDoneStep ==
  ASSUME LogInv, SignalsDone
  PROVE  LogInv'
<1>1. In("ulog", "signals")
  BY DEF SignalsDone
<1>2. /\ LogTypeOK /\ StackInv /\ LogTypeRest
      /\ calls \in Seq(LogFrame) /\ calls # <<>>
      /\ Len(calls) \in Nat /\ 1 \in 1..Len(calls)
      /\ Call = calls[1] /\ Call \in LogFrame /\ FrameOK(Call)
      /\ Call.of = "ulog" /\ Call.at = "signals"
      /\ fdoing_sigs \in BOOLEAN
  BY <1>1, Known
<1>3. /\ fdoing_sigs' = FALSE
      /\ calls' = Goes("debugFile")
      /\ UNCHANGED <<fLfile, iDebug, handler, fLog_sighup, logFile, afLog_signal, ended,
                     nLogCalls, nArrivals, unreported, early, dropped>>
  BY DEF SignalsDone, modes, counts, past
<1>4. ~DoingBelow
  BY <1>1, Known
<1>5. \A h \in LogFiles :
        /\ logFile'[h].open = TRUE => logFile'[h].tried = TRUE
        /\ logFile[h].tried = TRUE => logFile'[h].tried = TRUE
        /\ Failed(h) <=> Failed(h)'
  BY <1>2, <1>3, FilesSame
<1>6. LogTypeRest'
  BY <1>2, <1>3 DEF LogTypeRest
<1>7. "debugFile" \notin Ending /\ "signals" \notin Ending
  BY DEF Ending
<1>8. "debugFile" \in PlacesOf("ulog")
  BY DEF PlacesOf
<1> QED  BY <1>1, <1>3, <1>4, <1>5, <1>6, <1>7, <1>8, GoesStep

LEMMA FconnCloseStartStep ==
  ASSUME LogInv, FconnCloseStart
  PROVE  LogInv'
<1>1. In("fconn_close", "start")
  BY DEF FconnCloseStart
<1>2. /\ LogTypeOK /\ StackInv /\ LogTypeRest
      /\ calls \in Seq(LogFrame) /\ calls # <<>>
      /\ Len(calls) \in Nat /\ 1 \in 1..Len(calls)
      /\ Call = calls[1] /\ Call \in LogFrame /\ FrameOK(Call)
      /\ Call.of = "fconn_close" /\ Call.at = "start"
      /\ fdoing_sigs \in BOOLEAN
  BY <1>1, Known
<1>3. /\ calls' = Goes("closed")
      /\ UNCHANGED <<fLfile, iDebug, handler, logFile, afLog_signal, ended, fdoing_sigs,
                     nLogCalls, nArrivals, unreported, early, dropped>>
      /\ fLog_sighup' \in BOOLEAN
  BY <1>2 DEF FconnCloseStart, modes, counts, past, LogTypeRest
<1>4. fdoing_sigs = TRUE <=> DoingBelow
  BY <1>1, DoingElse
<1>5. \A h \in LogFiles :
        /\ logFile'[h].open = TRUE => logFile'[h].tried = TRUE
        /\ logFile[h].tried = TRUE => logFile'[h].tried = TRUE
        /\ Failed(h) <=> Failed(h)'
  BY <1>2, <1>3, FilesSame
<1>6. LogTypeRest'
  BY <1>2, <1>3 DEF LogTypeRest
<1>7. "closed" \notin Ending /\ "start" \notin Ending
  BY DEF Ending
<1>8. "closed" \in PlacesOf("fconn_close")
  BY DEF PlacesOf
<1> QED  BY <1>1, <1>2, <1>3, <1>4, <1>5, <1>6, <1>7, <1>8, GoesStep

LEMMA DebugFileStep ==
  ASSUME LogInv, DebugFile
  PROVE  LogInv'
<1>1. In("ulog", "debugFile")
  BY DEF DebugFile
<1>2. /\ LogTypeOK /\ StackInv /\ LogTypeRest
      /\ calls \in Seq(LogFrame) /\ calls # <<>>
      /\ Len(calls) \in Nat /\ 1 \in 1..Len(calls)
      /\ Call = calls[1] /\ Call \in LogFrame /\ FrameOK(Call)
      /\ Call.of = "ulog" /\ Call.at = "debugFile"
      /\ fdoing_sigs \in BOOLEAN
  BY <1>1, Known
<1>3. UNCHANGED <<fLfile, iDebug, handler, fLog_sighup, afLog_signal, ended, fdoing_sigs,
                nLogCalls, nArrivals, unreported, early, dropped>>
  BY DEF DebugFile, modes, counts, past
<1>4. fdoing_sigs = TRUE <=> DoingBelow
  BY <1>1, DoingElse
<1>5. /\ "logFile" \notin Ending /\ "debugFile" \notin Ending
      /\ "logFile" \in PlacesOf("ulog") /\ "debug" \in LogFiles
  BY DEF Ending, PlacesOf, LogFiles
<1>6. CASE calls' = Goes("logFile") /\ UNCHANGED logFile
  <2>1. \A h \in LogFiles :
          /\ logFile'[h].open = TRUE => logFile'[h].tried = TRUE
          /\ logFile[h].tried = TRUE => logFile'[h].tried = TRUE
          /\ Failed(h) <=> Failed(h)'
    BY <1>2, <1>6, FilesSame
  <2>2. LogTypeRest'  BY <1>2, <1>3, <1>6 DEF LogTypeRest
  <2> QED  BY <2>1, <2>2, <1>1, <1>3, <1>4, <1>5, <1>6, <1>2, GoesStep
<1>7. CASE /\ ToOpen("debug")
           /\ logFile' = [logFile EXCEPT !["debug"] = [open |-> TRUE, tried |-> TRUE]]
           /\ calls' = Goes("logFile")
  <2>1. /\ logFile' \in [LogFiles -> [open : BOOLEAN, tried : BOOLEAN]]
        /\ \A h \in LogFiles :
             /\ logFile'[h].open = TRUE => logFile'[h].tried = TRUE
             /\ logFile[h].tried = TRUE => logFile'[h].tried = TRUE
             /\ Failed(h) <=> Failed(h)'
    BY <1>2, <1>5, <1>7, FileOpened
  <2>2. LogTypeRest'  BY <2>1, <1>2, <1>3 DEF LogTypeRest
  <2> QED  BY <2>1, <2>2, <1>1, <1>3, <1>4, <1>5, <1>7, <1>2, GoesStep
<1>8. CASE /\ ToOpen("debug")
           /\ logFile' = [logFile EXCEPT !["debug"].tried = TRUE]
           /\ calls' = Enters(UlogCall("error", TRUE, "none"), "logFile")
  <2>1. /\ logFile' \in [LogFiles -> [open : BOOLEAN, tried : BOOLEAN]]
        /\ Failed("debug")'
        /\ \A h \in LogFiles :
             /\ logFile'[h].open = TRUE => logFile'[h].tried = TRUE
             /\ logFile[h].tried = TRUE => logFile'[h].tried = TRUE
             /\ Failed(h) => Failed(h)'
             /\ Failed(h)' => Failed(h) \/ h = "debug"
    BY <1>2, <1>5, <1>8, FileFailed
  <2>2. LogTypeRest'  BY <2>1, <1>2, <1>3 DEF LogTypeRest
  <2>3. \A i \in 2..Len(calls) : calls[i].at # "logFile"
    BY <1>2, <1>8 DEF StackInv, FilesInv, Failed, ToOpen
  <2>4. Failed("log")' => Failed("log")
    BY <2>1 DEF LogFiles
  <2>5. PICK g \in LogFrame :
          /\ g = UlogCall("error", TRUE, "none") /\ FrameOK(g)
          /\ g.of = "ulog" /\ g.type = "error" /\ g.at = "start"
    BY NewError
  <2>6. "logFile" \in Waiting
    BY DEF Waiting
  <2>7. calls' = Enters(g, "logFile")
    BY <2>5, <1>8
  <2>8. \A h \in LogFiles :
          /\ logFile'[h].open = TRUE => logFile'[h].tried = TRUE
          /\ logFile[h].tried = TRUE => logFile'[h].tried = TRUE
          /\ Failed(h) => Failed(h)'
    BY <2>1
  <2>9. Failed("debug")'
    BY <2>1
  <2>10. g.type # "fatal" /\ "logFile" # "noLog" /\ "logFile" # "exit" /\ "logFile" # "signals"
           /\ "debugFile" # "signals"
    BY <2>5
  <2> QED  BY <2>2, <2>3, <2>4, <2>5, <2>6, <2>7, <2>8, <2>9, <2>10, <1>1, <1>3, <1>5, EntersStep
<1> QED  BY <1>6, <1>7, <1>8 DEF DebugFile, Opens

LEMMA LogFileOpensStep ==
  ASSUME LogInv, LogFileOpens
  PROVE  LogInv'
<1>1. In("ulog", "logFile")
  BY DEF LogFileOpens
<1>2. /\ LogTypeOK /\ StackInv /\ LogTypeRest
      /\ calls \in Seq(LogFrame) /\ calls # <<>>
      /\ Len(calls) \in Nat /\ 1 \in 1..Len(calls)
      /\ Call = calls[1] /\ Call \in LogFrame /\ FrameOK(Call)
      /\ Call.of = "ulog" /\ Call.at = "logFile"
      /\ fdoing_sigs \in BOOLEAN
  BY <1>1, Known
<1>3. UNCHANGED <<fLfile, iDebug, handler, fLog_sighup, afLog_signal, ended, fdoing_sigs,
                nLogCalls, nArrivals, unreported, early, dropped>>
  BY DEF LogFileOpens, modes, counts, past
<1>4. fdoing_sigs = TRUE <=> DoingBelow
  BY <1>1, DoingElse
<1>5. /\ "output" \notin Ending /\ "logFile" \notin Ending
      /\ "output" \in PlacesOf("ulog") /\ "noLog" \in PlacesOf("ulog")
      /\ "log" \in LogFiles
  BY DEF Ending, PlacesOf, LogFiles
<1>6. ToOpen("log") /\ fLfile = TRUE
  BY <1>2 DEF LogFileOpens, LogTypeRest
<1>7. CASE /\ logFile' = [logFile EXCEPT !["log"] = [open |-> TRUE, tried |-> TRUE]]
           /\ calls' = Goes("output")
  <2>1. /\ logFile' \in [LogFiles -> [open : BOOLEAN, tried : BOOLEAN]]
        /\ logFile'["log"].open = TRUE
        /\ \A h \in LogFiles :
             /\ logFile'[h].open = TRUE => logFile'[h].tried = TRUE
             /\ logFile[h].tried = TRUE => logFile'[h].tried = TRUE
             /\ Failed(h) <=> Failed(h)'
    BY <1>2, <1>5, <1>6, <1>7, FileOpened
  <2>2. LogTypeRest'  BY <2>1, <1>2, <1>3 DEF LogTypeRest
  <2> QED  BY <2>1, <2>2, <1>1, <1>3, <1>4, <1>5, <1>7, <1>2, GoesStep
<1>8. CASE /\ logFile' = [logFile EXCEPT !["log"].tried = TRUE]
           /\ calls' = Enters(UlogCall("error", TRUE, "none"), "noLog")
  <2>1. /\ logFile' \in [LogFiles -> [open : BOOLEAN, tried : BOOLEAN]]
        /\ Failed("log")'
        /\ \A h \in LogFiles :
             /\ logFile'[h].open = TRUE => logFile'[h].tried = TRUE
             /\ logFile[h].tried = TRUE => logFile'[h].tried = TRUE
             /\ Failed(h) => Failed(h)'
    BY <1>2, <1>5, <1>6, <1>8, FileFailed
  <2>2. LogTypeRest'  BY <2>1, <1>2, <1>3 DEF LogTypeRest
  <2>3. logFile["log"].tried # TRUE /\ ~Failed("log")
    BY <1>6 DEF ToOpen, Failed
  <2>4. ASSUME NEW i \in 2..Len(calls), calls[i].at \in Ending
        PROVE  FALSE
    <3>1. i \in 1..Len(calls)  BY <1>2
    <3>2. calls[i].at # "noLog"  BY <3>1, <2>3, <1>2 DEF StackInv, FilesInv
    <3>3. calls[i].at # "exit"  BY <2>3, <1>2, <1>6 DEF StackInv, FilesInv
    <3> QED  BY <3>2, <3>3, <2>4 DEF Ending
  <2>5. PICK g \in LogFrame :
          /\ g = UlogCall("error", TRUE, "none") /\ FrameOK(g)
          /\ g.of = "ulog" /\ g.type = "error" /\ g.at = "start"
    BY NewError
  <2>6. "noLog" \in Waiting /\ "noLog" \in Ending
    BY DEF Waiting, Ending
  <2>7. calls' = Enters(g, "noLog")
    BY <2>5, <1>8
  <2> QED  BY <2>1, <2>2, <2>4, <2>5, <2>6, <2>7, <1>1, <1>3, <1>5, EntersStep
<1> QED  BY <1>7, <1>8 DEF LogFileOpens, Opens


LEMMA LogSignalStep ==
  ASSUME LogInv, LogSignal
  PROVE  LogInv'
<1>1. In("ulog", "signals")
  BY DEF LogSignal
<1>2. /\ LogTypeOK /\ StackInv /\ LogTypeRest
      /\ calls \in Seq(LogFrame) /\ calls # <<>>
      /\ Len(calls) \in Nat /\ 1 \in 1..Len(calls)
      /\ Call = calls[1] /\ Call \in LogFrame /\ FrameOK(Call)
      /\ Call.of = "ulog" /\ Call.at = "signals"
      /\ fdoing_sigs \in BOOLEAN
  BY <1>1, Known
<1> DEFINE s == SignalOrder[Call.sig]
           f == [Call EXCEPT !.sig = @ + 1]
<1>3. /\ afLog_signal' = afLog_signal \ {s}
      /\ unreported' = IF Due(s) THEN unreported ELSE unreported \ {s}
      /\ UNCHANGED <<fLfile, iDebug, handler, fLog_sighup, logFile, ended, fdoing_sigs,
                     nLogCalls, nArrivals, early, dropped>>
  BY DEF LogSignal, modes, counts
<1>4. /\ Call.sig \in 1..Len(SignalOrder) /\ Len(SignalOrder) \in Nat
      /\ s \in LogSignals
  <2>1. Len(SignalOrder) \in Nat  BY LogAssumption DEF LogAssumption
  <2>2. Call.sig \in 1..Len(SignalOrder) + 1 /\ Call.sig <= Len(SignalOrder)
    BY <1>2 DEF LogSignal, LogFrame
  <2>3. Call.sig \in 1..Len(SignalOrder)  BY <2>1, <2>2
  <2> QED  BY <2>1, <2>3 DEF LogSignals
<1>5. /\ f \in LogFrame /\ FrameOK(f) /\ f.of = Call.of /\ f.type = Call.type
      /\ f.about = Call.about /\ f.message = Call.message /\ f.at = "signals"
  <2>1. Call.sig + 1 \in 1..Len(SignalOrder) + 1
    BY <1>4
  <2>2. f \in LogFrame
    BY <2>1, <1>2 DEF LogFrame
  <2>3. /\ f.of = Call.of /\ f.type = Call.type /\ f.about = Call.about
        /\ f.message = Call.message /\ f.at = "signals"
    BY <1>2 DEF LogFrame
  <2>4. FrameOK(f)
    BY <1>2, <2>3 DEF FrameOK
  <2> QED  BY <2>2, <2>3, <2>4
<1>6. calls' = (IF Reports(s) THEN <<UlogCall("error", TRUE, s)>> ELSE <<>>)
                 \o (<<f>> \o Tail(calls))
  BY DEF LogSignal, NextSignal
<1> HIDE DEF f, s
<1>7. ~DoingBelow /\ fdoing_sigs = TRUE
  <2>1. ~DoingBelow  BY <1>2, DoingTop DEF StackInv
  <2>2. fdoing_sigs = TRUE <=> Doing  BY <1>2, TypeKnown
  <2>3. Doing  BY <1>2 DEF Doing
  <2> QED  BY <2>1, <2>2, <2>3
<1>8. LogTypeRest'
  BY <1>2, <1>3 DEF LogTypeRest
<1>9. \A h \in LogFiles :
        /\ logFile'[h].open = TRUE => logFile'[h].tried = TRUE
        /\ logFile[h].tried = TRUE => logFile'[h].tried = TRUE
        /\ Failed(h) <=> Failed(h)'
  BY <1>2, <1>3, FilesSame
<1>10. /\ "signals" \notin Ending /\ "signals" \in Waiting
  BY DEF Ending, Waiting
<1>11. \A r \in afLog_signal : r = s \/ r \in afLog_signal'
  BY <1>3
<1>12. CASE Reports(s)
  <2>1. PICK g \in LogFrame :
          /\ g = UlogCall("error", TRUE, s) /\ FrameOK(g) /\ g.of = "ulog"
          /\ g.type = "error" /\ g.about = s /\ g.at = "start"
    BY <1>4, NewReport
  <2>2. calls' = <<g>> \o (<<f>> \o Tail(calls))
    BY <1>6, <1>12, <2>1
  <2>3. \A r \in unreported' :
          /\ r \in unreported
          /\ r \in afLog_signal => r \in afLog_signal' \/ g.about = r
    BY <1>3, <1>11, <2>1
  <2>4. Failed("log")' => Failed("log")
    BY <1>9 DEF LogFiles
  <2>5. /\ f.at \in Waiting /\ f.at # "logFile" /\ f.at \notin Ending
        /\ calls[1].at \notin Ending /\ f.at # "noLog" /\ f.at # "exit"
        /\ g.type # "fatal"
        /\ f.of = calls[1].of /\ f.type = calls[1].type /\ f.about = calls[1].about
    BY <1>2, <1>5, <1>10, <2>1
  <2>6. /\ calls' \in Seq(LogFrame)
        /\ StackInv'
        /\ Doing' <=> f.at = "signals" \/ DoingBelow
    BY <1>2, <1>3, <1>5, <1>7, <1>9, <2>1, <2>2, <2>3, <2>4, <2>5, EnterStep
  <2>7. Doing' /\ fdoing_sigs' = TRUE
    BY <2>6, <1>3, <1>5, <1>7
  <2>8. LogTypeOK'
    BY <1>8, <2>6, <2>7, TypeMade
  <2> QED  BY <2>6, <2>8 DEF LogInv
<1>13. CASE ~Reports(s)
  <2>1. calls' = <<f>> \o Tail(calls)
    <3>1. calls' = <<>> \o (<<f>> \o Tail(calls))  BY <1>6, <1>13
    <3>2. <<f>> \o Tail(calls) \in Seq(LogFrame)  BY <1>2, <1>5, TopChanged
    <3> QED  BY <3>1, <3>2, ConcatEmptySeq
  <2>2. \A r \in unreported' :
          r \in unreported /\ (r \in afLog_signal => r \in afLog_signal')
    BY <1>3, <1>11, <1>13 DEF Reports
  <2>3. /\ f.at \in Ending <=> calls[1].at \in Ending
        /\ f.at # "noLog" /\ f.at # "output"
        /\ f.of = calls[1].of /\ f.type = calls[1].type /\ f.about = calls[1].about
    BY <1>2, <1>5, <1>10
  <2>4. UNCHANGED <<fLfile, ended, dropped>>
    BY <1>3
  <2>6. /\ calls' \in Seq(LogFrame)
        /\ StackInv'
        /\ Doing' <=> f.at = "signals" \/ DoingBelow
    BY <1>2, <1>5, <1>7, <1>9, <2>1, <2>2, <2>3, <2>4, TopStep
  <2>7. Doing' /\ fdoing_sigs' = TRUE
    BY <2>6, <1>3, <1>5, <1>7
  <2>8. LogTypeOK'
    BY <1>8, <2>6, <2>7, TypeMade
  <2> QED  BY <2>6, <2>8 DEF LogInv
<1> QED  BY <1>12, <1>13

LEMMA UstatsEndStep ==
  ASSUME LogInv, UstatsEnd
  PROVE  LogInv'
<1>1. In("ustats", "written")
  BY DEF UstatsEnd
<1>2. /\ LogTypeOK /\ StackInv /\ LogTypeRest
      /\ calls \in Seq(LogFrame) /\ calls # <<>>
      /\ Len(calls) \in Nat /\ 1 \in 1..Len(calls)
      /\ Call = calls[1] /\ Call \in LogFrame /\ FrameOK(Call)
      /\ Call.of = "ustats" /\ Call.at = "written"
      /\ fdoing_sigs \in BOOLEAN
  BY <1>1, Known
<1>3. /\ calls' = Tail(calls)
      /\ UNCHANGED <<fLfile, iDebug, handler, logFile, afLog_signal, ended, fdoing_sigs,
                     nLogCalls, nArrivals, unreported, early, dropped>>
      /\ fLog_sighup' \in BOOLEAN
  BY <1>2 DEF UstatsEnd, modes, counts, past, LogTypeRest
<1>4. LogTypeRest'
  BY <1>2, <1>3 DEF LogTypeRest
<1>5. \A h \in LogFiles :
        /\ logFile'[h].open = TRUE => logFile'[h].tried = TRUE
        /\ logFile[h].tried = TRUE => logFile'[h].tried = TRUE
        /\ Failed(h) <=> Failed(h)'
  BY <1>2, <1>3, FilesSame
<1>6. "written" \notin Ending
  BY DEF Ending
<1>7. Call.about = "none"
  BY <1>2 DEF FrameOK
<1>8. \A s \in unreported' : s \in unreported /\ (Call.about = s => Failed("log"))
  BY <1>2, <1>3, <1>7, SignalNames DEF LogTypeRest
<1> QED  BY <1>1, <1>3, <1>4, <1>5, <1>6, <1>8, ReturnStep

LEMMA FconnCloseEndStep ==
  ASSUME LogInv, FconnCloseEnd
  PROVE  LogInv'
<1>1. In("fconn_close", "reported")
  BY DEF FconnCloseEnd
<1>2. /\ LogTypeOK /\ StackInv /\ LogTypeRest
      /\ calls \in Seq(LogFrame) /\ calls # <<>>
      /\ Len(calls) \in Nat /\ 1 \in 1..Len(calls)
      /\ Call = calls[1] /\ Call \in LogFrame /\ FrameOK(Call)
      /\ Call.of = "fconn_close" /\ Call.at = "reported"
      /\ fdoing_sigs \in BOOLEAN
  BY <1>1, Known
<1>3. /\ calls' = Tail(calls)
      /\ UNCHANGED <<fLfile, iDebug, handler, logFile, afLog_signal, ended, fdoing_sigs,
                     nLogCalls, nArrivals, unreported, early, dropped>>
      /\ fLog_sighup' \in BOOLEAN
  BY <1>2 DEF FconnCloseEnd, modes, counts, past, LogTypeRest
<1>4. LogTypeRest'
  BY <1>2, <1>3 DEF LogTypeRest
<1>5. \A h \in LogFiles :
        /\ logFile'[h].open = TRUE => logFile'[h].tried = TRUE
        /\ logFile[h].tried = TRUE => logFile'[h].tried = TRUE
        /\ Failed(h) <=> Failed(h)'
  BY <1>2, <1>3, FilesSame
<1>6. "reported" \notin Ending
  BY DEF Ending
<1>7. Call.about = "none"
  BY <1>2 DEF FrameOK
<1>8. \A s \in unreported' : s \in unreported /\ (Call.about = s => Failed("log"))
  BY <1>2, <1>3, <1>7, SignalNames DEF LogTypeRest
<1> QED  BY <1>1, <1>3, <1>4, <1>5, <1>6, <1>8, ReturnStep

LEMMA UlogCloseFilesStep ==
  ASSUME LogInv, UlogCloseFiles
  PROVE  LogInv'
<1>1. In("ulog_close", "files")
  BY DEF UlogCloseFiles
<1>2. /\ LogTypeOK /\ StackInv /\ LogTypeRest
      /\ calls \in Seq(LogFrame) /\ calls # <<>>
      /\ Len(calls) \in Nat /\ 1 \in 1..Len(calls)
      /\ Call = calls[1] /\ Call \in LogFrame /\ FrameOK(Call)
      /\ Call.of = "ulog_close" /\ Call.at = "files"
      /\ fdoing_sigs \in BOOLEAN
  BY <1>1, Known
<1>3. /\ calls' = Tail(calls)
      /\ logFile' = [f \in LogFiles |-> IF f # "stats" /\ logFile[f].open THEN Closed
                                        ELSE logFile[f]]
      /\ UNCHANGED <<fLfile, iDebug, handler, fLog_sighup, afLog_signal, ended,
                     fdoing_sigs, nLogCalls, nArrivals, unreported, early, dropped>>
  BY DEF UlogCloseFiles, modes, counts, past
<1>4. \A f \in LogFiles :
        \/ logFile'[f] = logFile[f]
        \/ logFile[f].open = TRUE /\ logFile'[f] = [open |-> FALSE, tried |-> FALSE]
  <2>1. \A f \in LogFiles : logFile[f].open \in BOOLEAN
    BY <1>2 DEF LogTypeRest
  <2> QED  BY <2>1, <1>3 DEF Closed
<1>5. logFile' \in [LogFiles -> [open : BOOLEAN, tried : BOOLEAN]]
  <2>1. ASSUME NEW f \in LogFiles
        PROVE  logFile'[f] \in [open : BOOLEAN, tried : BOOLEAN]
    <3>1. CASE logFile'[f] = logFile[f]  BY <3>1, <1>2 DEF LogTypeRest
    <3>2. CASE logFile'[f] = [open |-> FALSE, tried |-> FALSE]  BY <3>2
    <3> QED  BY <3>1, <3>2, <1>4
  <2> QED  BY <2>1, <1>3
<1>6. LogTypeRest'
  BY <1>2, <1>3, <1>5 DEF LogTypeRest
<1>7. ASSUME NEW h \in LogFiles
      PROVE  /\ logFile'[h].open = TRUE => logFile'[h].tried = TRUE
             /\ Failed(h) <=> Failed(h)'
  <2>1. logFile[h].open = TRUE => logFile[h].tried = TRUE
    BY <1>2 DEF StackInv, FilesInv
  <2> QED  BY <2>1, <1>4, <1>7 DEF Failed
<1>8. "files" \notin Ending /\ "exit" \in Ending
  BY DEF Ending
<1>9. \A i \in 3..Len(calls) : calls[i].at # "exit"
  <2> SUFFICES ASSUME NEW i \in 3..Len(calls), calls[i].at = "exit"
               PROVE  FALSE
    OBVIOUS
  <2>1. 1 < Len(calls) /\ 2 \in 1..Len(calls) /\ i \in 1..Len(calls) /\ i # 2
    BY <1>2
  <2>2. calls[2].at = "exit"
    <3>1. calls[1 + 1].at = "exit"  BY <2>1, <1>2 DEF StackInv, StackOK
    <3> QED  BY <3>1
  <2> QED  BY <2>1, <2>2, <1>2, <1>8 DEF StackInv, Once
<1>10. Call.about = "none"
  BY <1>2 DEF FrameOK
<1>11. \A s \in unreported' : s \in unreported /\ (Call.about = s => Failed("log"))
  BY <1>2, <1>3, <1>10, SignalNames DEF LogTypeRest
<1> QED  BY <1>1, <1>3, <1>6, <1>7, <1>8, <1>9, <1>11, ReturnStep

LEMMA UstatsStep ==
  ASSUME LogInv, Ustats
  PROVE  LogInv'
<1>1. In("ustats", "start")
  BY DEF Ustats
<1>2. /\ LogTypeOK /\ StackInv /\ LogTypeRest
      /\ calls \in Seq(LogFrame) /\ calls # <<>>
      /\ Len(calls) \in Nat /\ 1 \in 1..Len(calls)
      /\ Call = calls[1] /\ Call \in LogFrame /\ FrameOK(Call)
      /\ Call.of = "ustats" /\ Call.at = "start"
      /\ fdoing_sigs \in BOOLEAN
  BY <1>1, Known
<1>3. UNCHANGED <<fLfile, iDebug, handler, fLog_sighup, afLog_signal, ended, fdoing_sigs,
                nLogCalls, nArrivals, unreported, early, dropped>>
  BY DEF Ustats, modes, counts, past
<1>4. fdoing_sigs = TRUE <=> DoingBelow
  BY <1>1, DoingElse
<1>5. /\ "written" \notin Ending /\ "start" \notin Ending
      /\ "written" \in PlacesOf("ustats") /\ "stats" \in LogFiles
  BY DEF Ending, PlacesOf, LogFiles
<1>6. CASE calls' = Goes("written") /\ UNCHANGED logFile
  <2>1. \A h \in LogFiles :
          /\ logFile'[h].open = TRUE => logFile'[h].tried = TRUE
          /\ logFile[h].tried = TRUE => logFile'[h].tried = TRUE
          /\ Failed(h) <=> Failed(h)'
    BY <1>2, <1>6, FilesSame
  <2>2. LogTypeRest'  BY <1>2, <1>3, <1>6 DEF LogTypeRest
  <2> QED  BY <2>1, <2>2, <1>1, <1>3, <1>4, <1>5, <1>6, <1>2, GoesStep
<1>7. CASE /\ ToOpen("stats")
           /\ logFile' = [logFile EXCEPT !["stats"] = [open |-> TRUE, tried |-> TRUE]]
           /\ calls' = Goes("written")
  <2>1. /\ logFile' \in [LogFiles -> [open : BOOLEAN, tried : BOOLEAN]]
        /\ \A h \in LogFiles :
             /\ logFile'[h].open = TRUE => logFile'[h].tried = TRUE
             /\ logFile[h].tried = TRUE => logFile'[h].tried = TRUE
             /\ Failed(h) <=> Failed(h)'
    BY <1>2, <1>5, <1>7, FileOpened
  <2>2. LogTypeRest'  BY <2>1, <1>2, <1>3 DEF LogTypeRest
  <2> QED  BY <2>1, <2>2, <1>1, <1>3, <1>4, <1>5, <1>7, <1>2, GoesStep
<1>8. CASE /\ ToOpen("stats")
           /\ logFile' = [logFile EXCEPT !["stats"].tried = TRUE]
           /\ calls' = Enters(UlogCall("error", TRUE, "none"), "written")
  <2>1. /\ logFile' \in [LogFiles -> [open : BOOLEAN, tried : BOOLEAN]]
        /\ \A h \in LogFiles :
             /\ logFile'[h].open = TRUE => logFile'[h].tried = TRUE
             /\ logFile[h].tried = TRUE => logFile'[h].tried = TRUE
             /\ Failed(h) => Failed(h)'
             /\ Failed(h)' => Failed(h) \/ h = "stats"
    BY <1>2, <1>5, <1>8, FileFailed
  <2>2. LogTypeRest'  BY <2>1, <1>2, <1>3 DEF LogTypeRest
  <2>3. Failed("log")' => Failed("log")
    BY <2>1 DEF LogFiles
  <2>4. PICK g \in LogFrame :
          /\ g = UlogCall("error", TRUE, "none") /\ FrameOK(g)
          /\ g.of = "ulog" /\ g.type = "error" /\ g.at = "start"
    BY NewError
  <2>5. "written" \in Waiting
    BY DEF Waiting
  <2>6. calls' = Enters(g, "written")
    BY <2>4, <1>8
  <2>7. \A h \in LogFiles :
          /\ logFile'[h].open = TRUE => logFile'[h].tried = TRUE
          /\ logFile[h].tried = TRUE => logFile'[h].tried = TRUE
          /\ Failed(h) => Failed(h)'
    BY <2>1
  <2>8. /\ g.type # "fatal" /\ "written" # "noLog" /\ "written" # "exit"
        /\ "written" # "signals" /\ "start" # "signals" /\ "written" # "logFile"
    BY <2>4
  <2> QED  BY <2>2, <2>3, <2>4, <2>5, <2>6, <2>7, <2>8, <1>1, <1>3, <1>5, EntersStep, ZenonT(60)
<1> QED  BY <1>6, <1>7, <1>8 DEF Ustats, Opens

LEMMA NoLogStep ==
  ASSUME LogInv, NoLog
  PROVE  LogInv'
<1>1. In("ulog", "noLog")
  BY DEF NoLog
<1>2. /\ LogTypeOK /\ StackInv /\ LogTypeRest
      /\ calls \in Seq(LogFrame) /\ calls # <<>>
      /\ Len(calls) \in Nat /\ 1 \in 1..Len(calls)
      /\ Call = calls[1] /\ Call \in LogFrame /\ FrameOK(Call)
      /\ Call.of = "ulog" /\ Call.at = "noLog"
      /\ fdoing_sigs \in BOOLEAN
  BY <1>1, Known
<1>3. /\ calls' = Enters(OtherCall("ulog_close"), "exit")
      /\ UNCHANGED <<fLfile, iDebug, handler, fLog_sighup, logFile, afLog_signal, ended,
                     fdoing_sigs, nLogCalls, nArrivals, unreported, early, dropped>>
  BY DEF NoLog, modes, counts, past
<1>4. LogTypeRest'
  BY <1>2, <1>3 DEF LogTypeRest
<1>5. \A h \in LogFiles :
        /\ logFile'[h].open = TRUE => logFile'[h].tried = TRUE
        /\ logFile[h].tried = TRUE => logFile'[h].tried = TRUE
        /\ Failed(h) <=> Failed(h)'
  BY <1>2, <1>3, FilesSame
<1>6. /\ "exit" \in Ending /\ "exit" \in PlacesOf("ulog")
      /\ "exit" \in Waiting /\ "log" \in LogFiles
  BY DEF Ending, PlacesOf, Waiting, LogFiles
<1>7. PICK g \in LogFrame :
        /\ g = OtherCall("ulog_close") /\ FrameOK(g)
        /\ g.of = "ulog_close" /\ g.type = "error" /\ g.at = "start"
  BY NewClose
<1>8. calls' = Enters(g, "exit")
  BY <1>3, <1>7
<1>9. \A h \in LogFiles :
        /\ logFile'[h].open = TRUE => logFile'[h].tried = TRUE
        /\ logFile[h].tried = TRUE => logFile'[h].tried = TRUE
        /\ Failed(h) => Failed(h)'
  BY <1>5
<1>10. Failed("log")' => Failed("log")
  BY <1>5, <1>6
<1>11. /\ g.type # "fatal" /\ "exit" # "noLog" /\ "exit" # "logFile"
       /\ "exit" # "signals" /\ "noLog" # "signals"
  BY <1>7
<1>12. /\ "noLog" \in Ending => "exit" \in Ending
       /\ "exit" \in Ending => \A i \in 2..Len(calls) : calls[i].at \notin Ending
       /\ "exit" = "exit" => fLfile = FALSE \/ logFile'["log"].tried = TRUE
  <2>1. Failed("log")
    BY <1>2 DEF StackInv, FilesInv
  <2>2. ASSUME NEW i \in 2..Len(calls), calls[i].at \in Ending
        PROVE  FALSE
    <3>1. i \in 1..Len(calls) /\ calls[1].at \in Ending  BY <1>2 DEF Ending
    <3> QED  BY <3>1, <2>2, <1>2 DEF StackInv, Once
  <2> QED  BY <2>1, <2>2, <1>3, <1>6 DEF Failed
<1> QED  BY <1>1, <1>3, <1>4, <1>6, <1>7, <1>8, <1>9, <1>10, <1>11, <1>12, EntersStep, ZenonT(60)

LEMMA UlogCloseStartStep ==
  ASSUME LogInv, UlogCloseStart
  PROVE  LogInv'
<1>1. In("ulog_close", "start")
  BY DEF UlogCloseStart
<1>2. /\ LogTypeOK /\ StackInv /\ LogTypeRest
      /\ calls \in Seq(LogFrame) /\ calls # <<>>
      /\ Len(calls) \in Nat /\ 1 \in 1..Len(calls)
      /\ Call = calls[1] /\ Call \in LogFrame /\ FrameOK(Call)
      /\ Call.of = "ulog_close" /\ Call.at = "start"
      /\ fdoing_sigs \in BOOLEAN
  BY <1>1, Known
<1>3. /\ calls' = Enters(UlogCall("error", FALSE, "none"), "files")
      /\ UNCHANGED <<fLfile, iDebug, handler, fLog_sighup, logFile, afLog_signal, ended,
                     fdoing_sigs, nLogCalls, nArrivals, unreported, early, dropped>>
  BY DEF UlogCloseStart, modes, counts, past
<1>4. LogTypeRest'
  BY <1>2, <1>3 DEF LogTypeRest
<1>5. \A h \in LogFiles :
        /\ logFile'[h].open = TRUE => logFile'[h].tried = TRUE
        /\ logFile[h].tried = TRUE => logFile'[h].tried = TRUE
        /\ Failed(h) <=> Failed(h)'
  BY <1>2, <1>3, FilesSame
<1>6. /\ "files" \notin Ending /\ "files" \in PlacesOf("ulog_close")
      /\ "files" \in Waiting /\ "log" \in LogFiles
  BY DEF Ending, PlacesOf, Waiting, LogFiles
<1>7. PICK g \in LogFrame :
        /\ g = UlogCall("error", FALSE, "none") /\ FrameOK(g)
        /\ g.of = "ulog" /\ g.type = "error" /\ g.at = "start"
  BY NewError
<1>8. calls' = Enters(g, "files")
  BY <1>3, <1>7
<1>9. \A h \in LogFiles :
        /\ logFile'[h].open = TRUE => logFile'[h].tried = TRUE
        /\ logFile[h].tried = TRUE => logFile'[h].tried = TRUE
        /\ Failed(h) => Failed(h)'
  BY <1>5
<1>10. Failed("log")' => Failed("log")
  BY <1>5, <1>6
<1>11. /\ g.type # "fatal" /\ "files" # "noLog" /\ "files" # "logFile"
       /\ "files" # "signals" /\ "start" # "signals"
  BY <1>7
<1>12. /\ "start" \in Ending => "files" \in Ending
       /\ "files" \in Ending => \A i \in 2..Len(calls) : calls[i].at \notin Ending
       /\ "files" = "exit" => fLfile = FALSE \/ logFile'["log"].tried = TRUE
  BY <1>6 DEF Ending
<1> QED  BY <1>1, <1>3, <1>4, <1>6, <1>7, <1>8, <1>9, <1>10, <1>11, <1>12, EntersStep, ZenonT(60)

LEMMA FconnCloseReportsStep ==
  ASSUME LogInv, FconnCloseReports
  PROVE  LogInv'
<1>1. In("fconn_close", "closed")
  BY DEF FconnCloseReports
<1>2. /\ LogTypeOK /\ StackInv /\ LogTypeRest
      /\ calls \in Seq(LogFrame) /\ calls # <<>>
      /\ Len(calls) \in Nat /\ 1 \in 1..Len(calls)
      /\ Call = calls[1] /\ Call \in LogFrame /\ FrameOK(Call)
      /\ Call.of = "fconn_close" /\ Call.at = "closed"
      /\ fdoing_sigs \in BOOLEAN
  BY <1>1, Known
<1>3. /\ calls' = Enters(UlogCall("error", FALSE, "none"), "reported")
      /\ UNCHANGED <<fLfile, iDebug, handler, fLog_sighup, logFile, afLog_signal, ended,
                     fdoing_sigs, nLogCalls, nArrivals, unreported, early, dropped>>
  BY DEF FconnCloseReports, modes, counts, past
<1>4. LogTypeRest'
  BY <1>2, <1>3 DEF LogTypeRest
<1>5. \A h \in LogFiles :
        /\ logFile'[h].open = TRUE => logFile'[h].tried = TRUE
        /\ logFile[h].tried = TRUE => logFile'[h].tried = TRUE
        /\ Failed(h) <=> Failed(h)'
  BY <1>2, <1>3, FilesSame
<1>6. /\ "reported" \notin Ending /\ "reported" \in PlacesOf("fconn_close")
      /\ "reported" \in Waiting /\ "log" \in LogFiles
  BY DEF Ending, PlacesOf, Waiting, LogFiles
<1>7. PICK g \in LogFrame :
        /\ g = UlogCall("error", FALSE, "none") /\ FrameOK(g)
        /\ g.of = "ulog" /\ g.type = "error" /\ g.at = "start"
  BY NewError
<1>8. calls' = Enters(g, "reported")
  BY <1>3, <1>7
<1>9. \A h \in LogFiles :
        /\ logFile'[h].open = TRUE => logFile'[h].tried = TRUE
        /\ logFile[h].tried = TRUE => logFile'[h].tried = TRUE
        /\ Failed(h) => Failed(h)'
  BY <1>5
<1>10. Failed("log")' => Failed("log")
  BY <1>5, <1>6
<1>11. /\ g.type # "fatal" /\ "reported" # "noLog" /\ "reported" # "logFile"
       /\ "reported" # "signals" /\ "closed" # "signals"
  BY <1>7
<1>12. /\ "closed" \in Ending => "reported" \in Ending
       /\ "reported" \in Ending => \A i \in 2..Len(calls) : calls[i].at \notin Ending
       /\ "reported" = "exit" => fLfile = FALSE \/ logFile'["log"].tried = TRUE
  BY <1>6 DEF Ending
<1> QED  BY <1>1, <1>3, <1>4, <1>6, <1>7, <1>8, <1>9, <1>10, <1>11, <1>12, EntersStep, ZenonT(60)

LEMMA LogFileReadyStep ==
  ASSUME LogInv, LogFileReady
  PROVE  LogInv'
<1> DEFINE f == IF Call.type = "debug" THEN "debug" ELSE "log"
<1>1. In("ulog", "logFile")
  BY DEF LogFileReady
<1>2. /\ LogTypeOK /\ StackInv /\ LogTypeRest
      /\ calls \in Seq(LogFrame) /\ calls # <<>>
      /\ Len(calls) \in Nat /\ 1 \in 1..Len(calls)
      /\ Call = calls[1] /\ Call \in LogFrame /\ FrameOK(Call)
      /\ Call.of = "ulog" /\ Call.at = "logFile"
      /\ fdoing_sigs \in BOOLEAN
  BY <1>1, Known
<1>3. UNCHANGED <<fLfile, iDebug, handler, fLog_sighup, logFile, afLog_signal, ended,
                fdoing_sigs, nLogCalls, nArrivals, unreported, early>>
  BY DEF LogFileReady, modes, counts, past
<1>4. fdoing_sigs = TRUE <=> DoingBelow
  BY <1>1, DoingElse
<1>5. \A h \in LogFiles :
        /\ logFile'[h].open = TRUE => logFile'[h].tried = TRUE
        /\ logFile[h].tried = TRUE => logFile'[h].tried = TRUE
        /\ Failed(h) <=> Failed(h)'
  BY <1>2, <1>3, FilesSame
<1>6. /\ "output" \notin Ending /\ "logFile" \notin Ending
      /\ "output" \in PlacesOf("ulog") /\ "log" \in LogFiles /\ "debug" \in LogFiles
  BY DEF Ending, PlacesOf, LogFiles
<1>7. /\ logFile["log"].open \in BOOLEAN /\ logFile["log"].tried \in BOOLEAN
      /\ fLfile \in BOOLEAN
  BY <1>2, <1>6 DEF LogTypeRest
<1>8. CASE ~fLfile \/ logFile[f].open
  <2>1. calls' = Goes("output") /\ UNCHANGED dropped
    BY <1>8 DEF LogFileReady
  <2>2. LogTypeRest'
    BY <2>1, <1>2, <1>3 DEF LogTypeRest
  <2>3. Call.type # "debug" => fLfile = FALSE \/ logFile'["log"].open = TRUE
    BY <1>3, <1>7, <1>8
  <2>4. "output" # "signals" /\ "output" # "noLog"
    OBVIOUS
  <2> QED  BY <2>1, <2>2, <2>3, <2>4, <1>1, <1>2, <1>3, <1>4, <1>5, <1>6, GoesStep
<1>9. CASE ~(~fLfile \/ logFile[f].open)
  <2>1. /\ calls' = Tail(calls)
        /\ dropped' = (dropped \/ (Call.message /\ Call.type # "debug"))
    BY <1>9 DEF LogFileReady
  <2>2. dropped' \in BOOLEAN
    BY Zenon, <2>1
  <2>3. LogTypeRest'
    BY <2>2, <1>2, <1>3 DEF LogTypeRest
  <2>4. Call.type # "debug" => Failed("log")
    <3>1. ASSUME Call.type # "debug"  PROVE  ~ToOpen("log")
      BY <3>1, <1>9 DEF LogFileReady
    <3> QED  BY <3>1, <1>7, <1>9 DEF ToOpen, Failed
  <2>5. dropped' = TRUE => dropped = TRUE \/ Failed("log")
    <3>1. dropped' => dropped \/ Call.type # "debug"
      BY Zenon, <2>1
    <3>2. dropped \in BOOLEAN
      BY <1>2 DEF LogTypeRest
    <3> QED  BY <3>1, <3>2, <2>4
  <2>6. \A s \in unreported' : s \in unreported /\ (Call.about = s => Failed("log"))
    <3>1. Call.about # "none" => Call.type = "error"
      BY <1>2 DEF FrameOK
    <3> QED  BY <3>1, <2>4, <1>2, <1>3, SignalNames DEF LogTypeRest
  <2>7. "logFile" # "signals"
    OBVIOUS
  <2> QED  BY <2>1, <2>3, <2>5, <2>6, <2>7, <1>1, <1>3, <1>5, <1>6, ReturnStep
<1> QED  BY <1>8, <1>9

LEMMA OutputStep ==
  ASSUME LogInv, Output
  PROVE  LogInv'
<1>1. In("ulog", "output")
  BY DEF Output
<1>2. /\ LogTypeOK /\ StackInv /\ LogTypeRest
      /\ calls \in Seq(LogFrame) /\ calls # <<>>
      /\ Len(calls) \in Nat /\ 1 \in 1..Len(calls)
      /\ Call = calls[1] /\ Call \in LogFrame /\ FrameOK(Call)
      /\ Call.of = "ulog" /\ Call.at = "output"
      /\ fdoing_sigs \in BOOLEAN
  BY <1>1, Known
<1>3. UNCHANGED <<fLfile, iDebug, handler, fLog_sighup, logFile, afLog_signal, ended,
                fdoing_sigs, nLogCalls, nArrivals, dropped>>
  BY DEF Output, modes, counts, past
<1>4. /\ unreported' \subseteq unreported
      /\ Call.message = TRUE => Call.about \notin unreported'
      /\ early' \subseteq early
  BY DEF Output
<1>5. LogTypeRest'
  BY <1>2, <1>3, <1>4 DEF LogTypeRest
<1>6. \A h \in LogFiles :
        /\ logFile'[h].open = TRUE => logFile'[h].tried = TRUE
        /\ logFile[h].tried = TRUE => logFile'[h].tried = TRUE
        /\ Failed(h) <=> Failed(h)'
  BY <1>2, <1>3, FilesSame
<1>7. /\ "exit" \in Ending /\ "exit" \in PlacesOf("ulog") /\ "exit" \in Waiting
      /\ "log" \in LogFiles /\ "output" \notin Ending
  BY DEF Ending, PlacesOf, Waiting, LogFiles
<1>8. CASE Call.message /\ Call.type = "fatal"
  <2>1. calls' = Enters(OtherCall("ulog_close"), "exit")
    BY <1>8 DEF Output
  <2>2. PICK g \in LogFrame :
          /\ g = OtherCall("ulog_close") /\ FrameOK(g)
          /\ g.of = "ulog_close" /\ g.type = "error" /\ g.at = "start"
    BY NewClose
  <2>3. calls' = Enters(g, "exit")
    BY <2>1, <2>2
  <2>4. ~(1 < Len(calls))
    BY <1>2, <1>8 DEF StackInv, StackOK
  <2>5. \A i \in 2..Len(calls) : calls[i].at \notin Ending
    BY <2>4, <1>2
  <2>6. fLfile = FALSE \/ logFile'["log"].tried = TRUE
    <3>1. fLfile = FALSE \/ logFile["log"].open = TRUE
      BY <1>2, <1>8 DEF StackInv, FilesInv
    <3> QED  BY <3>1, <1>2, <1>3, <1>7 DEF StackInv, FilesInv
  <2>7. \A h \in LogFiles :
          /\ logFile'[h].open = TRUE => logFile'[h].tried = TRUE
          /\ logFile[h].tried = TRUE => logFile'[h].tried = TRUE
          /\ Failed(h) => Failed(h)'
    BY <1>6
  <2>8. Failed("log")' => Failed("log")
    BY <1>6, <1>7
  <2>9. /\ g.type # "fatal" /\ "exit" # "noLog" /\ "exit" # "logFile"
        /\ "exit" # "signals" /\ "output" # "signals"
    BY <2>2
  <2> QED  BY <2>2, <2>3, <2>5, <2>6, <2>7, <2>8, <2>9, <1>1, <1>3, <1>4, <1>5, <1>7,
              EntersStep, ZenonT(60)
<1>9. CASE ~(Call.message /\ Call.type = "fatal")
  <2>1. calls' = Tail(calls)
    BY <1>9 DEF Output
  <2>2. \A s \in unreported' : s \in unreported /\ (Call.about = s => Failed("log"))
    <3>1. Call.about # "none" => Call.message = TRUE
      BY <1>2 DEF FrameOK
    <3> QED  BY <3>1, <1>4, <1>5, SignalNames DEF LogTypeRest
  <2>3. "output" # "signals"
    OBVIOUS
  <2> QED  BY <2>1, <2>2, <2>3, <1>1, <1>3, <1>5, <1>6, <1>7, ReturnStep
<1> QED  BY <1>8, <1>9

LEMMA UsysdepExitStep ==
  ASSUME LogInv, UsysdepExit
  PROVE  LogInv'
<1>1. /\ LogTypeOK /\ StackInv /\ LogTypeRest
  BY TypeKnown DEF LogInv
<1>2. /\ ended' = TRUE
      /\ UNCHANGED <<fLfile, iDebug, handler, fLog_sighup, logFile, afLog_signal, calls,
                     fdoing_sigs, nLogCalls, nArrivals, unreported, early, dropped>>
  BY DEF UsysdepExit, modes, counts, past
<1>3. LogTypeRest'
  BY <1>1, <1>2 DEF LogTypeRest
<1>4. LogTypeOK'
  <2>1. fdoing_sigs' = TRUE <=> Doing'
    BY <1>1, <1>2, TypeKnown DEF Doing
  <2> QED  BY <2>1, <1>1, <1>2, <1>3, TypeMade, TypeKnown
<1>5. StackOK(calls)' /\ Once(calls)'
  BY <1>1, <1>2 DEF StackInv
<1>6. FilesInv'
  BY <1>1, <1>2 DEF StackInv, FilesInv, Failed
<1>7. FailInv'
  BY <1>1, <1>2 DEF StackInv, FailInv, Failed
<1>8. ReportInv'
  BY <1>1, <1>2 DEF StackInv, ReportInv, Failed
<1> QED  BY <1>4, <1>5, <1>6, <1>7, <1>8 DEF LogInv, StackInv

(* A signal comes between any two steps. *)
LEMMA UssignalStep ==
  ASSUME LogInv, NEW s \in LogSignals, Ussignal(s)
  PROVE  LogInv'
<1>1. /\ LogTypeOK /\ StackInv /\ LogTypeRest
  BY TypeKnown DEF LogInv
<1>2. /\ afLog_signal' = afLog_signal \cup {s}
      /\ unreported' = unreported \cup {s}
      /\ nArrivals' = nArrivals + 1
      /\ UNCHANGED <<fLfile, iDebug, handler, fLog_sighup, logFile, calls, ended,
                     fdoing_sigs, nLogCalls, early, dropped>>
  BY DEF Ussignal, modes
<1>3. LogTypeRest'
  BY <1>1, <1>2 DEF LogTypeRest
<1>4. LogTypeOK'
  <2>1. fdoing_sigs' = TRUE <=> Doing'
    BY <1>1, <1>2, TypeKnown DEF Doing
  <2> QED  BY <2>1, <1>1, <1>2, <1>3, TypeMade, TypeKnown
<1>5. StackOK(calls)' /\ Once(calls)'
  BY <1>1, <1>2 DEF StackInv
<1>6. FilesInv'
  BY <1>1, <1>2 DEF StackInv, FilesInv, Failed
<1>7. FailInv'
  BY <1>1, <1>2 DEF StackInv, FailInv, Failed
<1>8. ReportInv'
  BY <1>1, <1>2 DEF StackInv, ReportInv, Failed
<1> QED  BY <1>4, <1>5, <1>6, <1>7, <1>8 DEF LogInv, StackInv

(* A program that logs to files begins before the first call. *)
LEMMA UlogToFileStep ==
  ASSUME LogInv, UlogToFile
  PROVE  LogInv'
<1>1. /\ LogTypeOK /\ StackInv /\ LogTypeRest
  BY TypeKnown DEF LogInv
<1>2. /\ fLfile' = TRUE /\ calls = <<>>
      /\ UNCHANGED <<iDebug, handler, fLog_sighup, logFile, afLog_signal, calls, ended,
                     fdoing_sigs, nLogCalls, nArrivals, unreported, early, dropped>>
  BY DEF UlogToFile, Idle, counts, past
<1>3. LogTypeRest'
  BY <1>1, <1>2 DEF LogTypeRest
<1>4. LogTypeOK'
  <2>1. fdoing_sigs' = TRUE <=> Doing'
    BY <1>1, <1>2, TypeKnown DEF Doing
  <2> QED  BY <2>1, <1>1, <1>2, <1>3, TypeMade, TypeKnown
<1>5. StackOK(calls)' /\ Once(calls)'
  BY <1>1, <1>2 DEF StackInv
<1>6. FilesInv'
  BY <1>1, <1>2 DEF StackInv, FilesInv, Failed
<1>7. FailInv'
  BY <1>1, <1>2 DEF StackInv, FailInv, Failed
<1>8. ReportInv'
  BY <1>1, <1>2 DEF StackInv, ReportInv, Failed
<1> QED  BY <1>4, <1>5, <1>6, <1>7, <1>8 DEF LogInv, StackInv

LEMMA UsysdepSignalStep ==
  ASSUME LogInv, NEW s \in LogSignals, UsysdepSignal(s)
  PROVE  LogInv'
<1>1. /\ LogTypeOK /\ StackInv /\ LogTypeRest
  BY TypeKnown DEF LogInv
<1>2. /\ handler' = [handler EXCEPT ![s] = "caught"]
      /\ UNCHANGED <<fLfile, iDebug, fLog_sighup, logFile, afLog_signal, calls, ended,
                     fdoing_sigs, nLogCalls, nArrivals, unreported, early, dropped>>
  BY DEF UsysdepSignal, counts, past
<1>3. LogTypeRest'
  BY <1>1, <1>2 DEF LogTypeRest
<1>4. LogTypeOK'
  <2>1. fdoing_sigs' = TRUE <=> Doing'
    BY <1>1, <1>2, TypeKnown DEF Doing
  <2> QED  BY <2>1, <1>1, <1>2, <1>3, TypeMade, TypeKnown
<1>5. StackOK(calls)' /\ Once(calls)'
  BY <1>1, <1>2 DEF StackInv
<1>6. FilesInv'
  BY <1>1, <1>2 DEF StackInv, FilesInv, Failed
<1>7. FailInv'
  BY <1>1, <1>2 DEF StackInv, FailInv, Failed
<1>8. ReportInv'
  BY <1>1, <1>2 DEF StackInv, ReportInv, Failed
<1> QED  BY <1>4, <1>5, <1>6, <1>7, <1>8 DEF LogInv, StackInv

LEMMA CallFromOutsideStep ==
  ASSUME LogInv, CallFromOutside
  PROVE  LogInv'
<1>1. /\ LogTypeOK /\ StackInv /\ LogTypeRest
  BY TypeKnown DEF LogInv
<1>2. /\ calls = <<>> /\ ended = FALSE
      /\ nLogCalls' = nLogCalls + 1
      /\ UNCHANGED <<fLfile, iDebug, handler, fLog_sighup, logFile, afLog_signal, ended,
                     fdoing_sigs, nArrivals, unreported, early, dropped>>
  <2>1. ended \in BOOLEAN  BY <1>1 DEF LogTypeRest
  <2> QED  BY <2>1 DEF CallFromOutside, Idle, modes, past
<1>3. LogTypeRest'
  BY <1>1, <1>2 DEF LogTypeRest
<1>4. PICK g \in LogFrame :
        calls' = <<g>> /\ FrameOK(g) /\ g.at = "start"
  <2>1. 1 \in 1..Len(SignalOrder) + 1
    BY LogAssumption DEF LogAssumption
  <2>2. CASE \E type \in LogTypes, message \in BOOLEAN :
               calls' = <<UlogCall(type, message, "none")>>
    <3>1. PICK type \in LogTypes, message \in BOOLEAN :
            calls' = <<UlogCall(type, message, "none")>>
      BY <2>2
    <3> DEFINE g == UlogCall(type, message, "none")
    <3>2. g.of = "ulog" /\ g.about = "none" /\ g.at = "start"
      BY DEF UlogCall
    <3>3. g \in LogFrame
      BY <2>1 DEF UlogCall, LogFrame
    <3>4. FrameOK(g)
      BY <3>2 DEF FrameOK, PlacesOf
    <3>5. calls' = <<g>>
      BY <3>1
    <3> HIDE DEF g
    <3> QED  BY <3>2, <3>3, <3>4, <3>5
  <2>3. CASE \E of \in {"ulog_close", "ustats", "fconn_close"} : calls' = <<OtherCall(of)>>
    <3>1. PICK of \in {"ulog_close", "ustats", "fconn_close"} : calls' = <<OtherCall(of)>>
      BY <2>3
    <3> DEFINE g == OtherCall(of)
    <3>2. g.of = of /\ g.about = "none" /\ g.at = "start"
      BY DEF OtherCall
    <3>3. g \in LogFrame
      BY <2>1 DEF OtherCall, LogFrame, LogTypes
    <3>4. FrameOK(g)
      BY <3>2 DEF FrameOK, PlacesOf
    <3>5. calls' = <<g>>
      BY <3>1
    <3> HIDE DEF g
    <3> QED  BY <3>2, <3>3, <3>4, <3>5
  <2> QED  BY <2>2, <2>3 DEF CallFromOutside
<1>5. /\ calls' \in Seq(LogFrame) /\ Len(calls') = 1 /\ calls'[1] = g
      /\ \A i \in 1..Len(calls') : i = 1
      /\ \A i \in 2..Len(calls') : FALSE
  BY <1>4
<1>6. ~Doing /\ ~Doing'
  BY <1>2, <1>4, <1>5 DEF Doing
<1>7. LogTypeOK'
  <2>1. fdoing_sigs' = TRUE <=> Doing'
    BY <1>1, <1>2, <1>6, TypeKnown
  <2> QED  BY <2>1, <1>1, <1>2, <1>3, <1>5, TypeMade, TypeKnown
<1>8. StackOK(calls)'
  <2>1. StackOK(calls')  BY <1>4, <1>5 DEF StackOK
  <2> QED  BY <2>1 DEF StackOK
<1>9. Once(calls)'
  <2>1. Once(calls')  BY <1>5 DEF Once
  <2> QED  BY <2>1 DEF Once
<1>10. FilesInv'
  <2>1. calls'[1].at = "start"  BY <1>4, <1>5
  <2>2. \A f \in LogFiles : logFile'[f].open = TRUE => logFile'[f].tried = TRUE
    BY <1>1, <1>2 DEF StackInv, FilesInv
  <2>3. \A i \in 1..Len(calls') : calls'[i].at # "noLog"
    BY <1>5, <2>1
  <2> QED  BY <1>5, <2>1, <2>2, <2>3 DEF FilesInv
<1>11. ~Failed("log") /\ ~Failed("log")'
  BY <1>1, <1>2 DEF StackInv, FailInv, Failed
<1>12. FailInv'
  BY <1>1, <1>2, <1>11 DEF StackInv, FailInv
<1>13. ReportInv'
  BY <1>1, <1>2, <1>11 DEF StackInv, ReportInv
<1> QED  BY <1>7, <1>8, <1>9, <1>10, <1>12, <1>13 DEF LogInv, StackInv

-----------------------------------------------------------------------------
(* The theorems *)

LEMMA LogInvInit ==
  LogInit => LogInv
<1> SUFFICES ASSUME LogInit  PROVE  LogInv
  OBVIOUS
<1>1. calls = <<>> /\ Len(calls) = 0 /\ unreported = {} /\ dropped = FALSE
  BY DEF LogInit
<1>2. \A f \in LogFiles : logFile[f] = [open |-> FALSE, tried |-> FALSE]
  BY DEF LogInit, Closed
<1>3. LogTypeOK
  <2>1. logFile \in [LogFiles -> [open : BOOLEAN, tried : BOOLEAN]]
    BY DEF LogInit, Closed
  <2>2. handler \in [LogSignals -> {"default", "ignored", "caught"}]
    BY DEF LogInit
  <2>3. fdoing_sigs = (\E i \in 1..Len(calls) : calls[i].at = "signals")
    <3>1. ~\E i \in 1..Len(calls) : calls[i].at = "signals"  BY <1>1
    <3>2. fdoing_sigs = FALSE  BY DEF LogInit
    <3> QED  BY <3>1, <3>2, Zenon
  <2>4. calls \in Seq(LogFrame)
    BY <1>1
  <2> QED  BY <2>1, <2>2, <2>3, <2>4 DEF LogInit, LogTypeOK
<1>4. StackOK(calls) /\ Once(calls)
  BY <1>1 DEF StackOK, Once
<1>5. FilesInv
  BY <1>1, <1>2 DEF FilesInv
<1>6. FailInv
  <2>1. ~Failed("log")  BY <1>2 DEF Failed, LogFiles
  <2> QED  BY <2>1, <1>1 DEF FailInv
<1>7. ReportInv
  BY <1>1 DEF ReportInv
<1> QED  BY <1>3, <1>4, <1>5, <1>6, <1>7 DEF LogInv, StackInv

LEMMA LogInvNext ==
  LogInv /\ [LogNext]_logVars => LogInv'
<1> SUFFICES ASSUME LogInv, [LogNext]_logVars  PROVE  LogInv'
  OBVIOUS
<1>1. CASE UlogToFile  BY <1>1, UlogToFileStep
<1>2. CASE CallFromOutside  BY <1>2, CallFromOutsideStep
<1>3. CASE \E s \in LogSignals : UsysdepSignal(s) \/ Ussignal(s)
  BY <1>3, UsysdepSignalStep, UssignalStep
<1>4. CASE UlogStart  BY <1>4, UlogStartStep
<1>5. CASE LogSignal  BY <1>5, LogSignalStep
<1>6. CASE SignalsDone  BY <1>6, SignalsDoneStep
<1>7. CASE DebugFile  BY <1>7, DebugFileStep
<1>8. CASE LogFileOpens  BY <1>8, LogFileOpensStep
<1>9. CASE LogFileReady  BY <1>9, LogFileReadyStep
<1>10. CASE NoLog  BY <1>10, NoLogStep
<1>11. CASE Output  BY <1>11, OutputStep
<1>12. CASE UsysdepExit  BY <1>12, UsysdepExitStep
<1>13. CASE UlogCloseStart  BY <1>13, UlogCloseStartStep
<1>14. CASE UlogCloseFiles  BY <1>14, UlogCloseFilesStep
<1>15. CASE Ustats  BY <1>15, UstatsStep
<1>16. CASE UstatsEnd  BY <1>16, UstatsEndStep
<1>17. CASE FconnCloseStart  BY <1>17, FconnCloseStartStep
<1>18. CASE FconnCloseReports  BY <1>18, FconnCloseReportsStep
<1>19. CASE FconnCloseEnd  BY <1>19, FconnCloseEndStep
<1>20. CASE UNCHANGED logVars
  BY <1>20 DEF LogInv, LogTypeOK, StackInv, FilesInv, FailInv, ReportInv, Failed,
                logVars
<1> QED
  BY <1>1, <1>2, <1>3, <1>4, <1>5, <1>6, <1>7, <1>8, <1>9, <1>10, <1>11, <1>12, <1>13,
     <1>14, <1>15, <1>16, <1>17, <1>18, <1>19, <1>20 DEF LogNext

(* The invariant of the log, for any signals, calls and arrivals. *)
THEOREM LogInvariant == LogSpec => []LogInv
  BY LogInvInit, LogInvNext, PTL DEF LogSpec

(* Every variable of the log keeps its type, and fdoing_sigs says whether  *)
(* a call reports signals.                                                 *)
THEOREM LogTypeCorrect == LogSpec => []LogTypeOK
<1>1. LogInv => LogTypeOK  BY DEF LogInv
<1> QED  BY <1>1, LogInvariant, PTL

-----------------------------------------------------------------------------
(* The order of the log *)

(* A call that starts is at the first signal; a call that reports one was  *)
(* made by the call under it, which reports signals.                       *)
ReportsOK(c) ==
  \A i \in 1..Len(c) :
    /\ c[i].at = "start" => c[i].sig = 1
    /\ c[i].about # "none" => i < Len(c) /\ c[i + 1].at = "signals"

(* A call reports the signal s, and one that reports signals will come to  *)
(* it.                                                                     *)
About(c, s) == \E i \in 1..Len(c) : c[i].about = s

Awaited(c, s) ==
  \E i \in 1..Len(c), k \in 1..Len(SignalOrder) :
    c[i].at = "signals" /\ SignalOrder[k] = s /\ c[i].sig <= k

(* A signal that came before the message is still to be reported by the    *)
(* call that reports signals, or is being reported.                        *)
EarlyInv ==
  \A s \in early :
    \/ Failed("log")
    \/ /\ s \in Hangups => fLog_sighup = TRUE
       /\ About(calls, s) \/ (s \in afLog_signal /\ Awaited(calls, s))

OrderInv == ReportsOK(calls) /\ EarlyInv

LEMMA TopOrder ==
  ASSUME NEW c \in Seq(LogFrame), c # <<>>, ReportsOK(c),
         NEW f \in LogFrame, f.about = c[1].about, f.at # "start",
         NEW d, d = <<f>> \o Tail(c)
  PROVE  /\ ReportsOK(d)
         /\ \A s : About(c, s) => About(d, s)
         /\ c[1].at # "signals" => \A s : Awaited(c, s) => Awaited(d, s)
<1>1. /\ Len(d) = Len(c) /\ Len(c) \in Nat /\ Len(c) >= 1
      /\ d[1] = f /\ \A i \in 2..Len(c) : d[i] = c[i]
  BY TopChanged
<1>2. ASSUME NEW i \in 1..Len(d)
      PROVE  /\ d[i].about = c[i].about
             /\ d[i].at = "start" => d[i] = c[i]
             /\ i < Len(d) => d[i + 1] = c[i + 1]
             /\ i # 1 => d[i] = c[i]
  <2>1. i # 1 => d[i] = c[i]  BY <1>1
  <2>2. i < Len(d) => d[i + 1] = c[i + 1]  BY <1>1
  <2>3. i = 1 => d[i].about = c[i].about /\ d[i].at # "start"  BY <1>1
  <2> QED  BY <2>1, <2>2, <2>3
<1>3. ReportsOK(d)
  BY <1>1, <1>2 DEF ReportsOK
<1>4. ASSUME NEW s, About(c, s)
      PROVE  About(d, s)
  BY <1>1, <1>2, <1>4 DEF About
<1>5. ASSUME c[1].at # "signals", NEW s, Awaited(c, s)
      PROVE  Awaited(d, s)
  BY <1>1, <1>2, <1>5 DEF Awaited
<1> QED  BY <1>3, <1>4, <1>5

LEMMA PushOrder ==
  ASSUME NEW e \in Seq(LogFrame), e # <<>>, ReportsOK(e),
         NEW g \in LogFrame, g.at = "start", g.sig = 1,
         g.about # "none" => e[1].at = "signals",
         NEW d, d = <<g>> \o e
  PROVE  /\ ReportsOK(d)
         /\ About(d, g.about)
         /\ \A s : About(e, s) => About(d, s)
         /\ \A s : Awaited(e, s) => Awaited(d, s)
<1>1. /\ d \in Seq(LogFrame) /\ Len(d) = Len(e) + 1 /\ d[1] = g
      /\ Len(e) \in Nat /\ Len(e) >= 1
      /\ \A i \in 1..Len(e) : i + 1 \in 1..Len(d) /\ d[i + 1] = e[i]
  OBVIOUS
<1>2. ASSUME NEW i \in 1..Len(d), i # 1
      PROVE  /\ i - 1 \in 1..Len(e) /\ d[i] = e[i - 1]
             /\ i < Len(d) <=> i - 1 < Len(e)
             /\ i - 1 < Len(e) => d[i + 1] = e[(i - 1) + 1]
  <2>1. i - 1 \in 1..Len(e) /\ (i - 1) + 1 = i  BY <1>1, <1>2
  <2>2. d[i] = e[i - 1]  BY <2>1, <1>1
  <2>3. i < Len(d) <=> i - 1 < Len(e)  BY <1>1
  <2>4. ASSUME i - 1 < Len(e)  PROVE  d[i + 1] = e[(i - 1) + 1]
    <3>1. i \in 1..Len(e)  BY <2>1, <2>4
    <3> QED  BY <3>1, <2>1, <1>1
  <2> QED  BY <2>1, <2>2, <2>3, <2>4
<1>3. ReportsOK(d)
  <2> SUFFICES ASSUME NEW i \in 1..Len(d)
               PROVE  /\ d[i].at = "start" => d[i].sig = 1
                      /\ d[i].about # "none" => i < Len(d) /\ d[i + 1].at = "signals"
    BY DEF ReportsOK
  <2>1. CASE i = 1
    <3>1. 1 \in 1..Len(e) /\ 1 < Len(d) /\ d[1 + 1] = e[1]  BY <1>1
    <3> QED  BY <3>1, <2>1, <1>1
  <2>2. CASE i # 1
    BY <2>2, <1>2 DEF ReportsOK
  <2> QED  BY <2>1, <2>2
<1>4. About(d, g.about)
  <2>1. 1 \in 1..Len(d)  BY <1>1
  <2> QED  BY <2>1, <1>1 DEF About
<1>5. ASSUME NEW s, About(e, s)
      PROVE  About(d, s)
  BY <1>1, <1>5 DEF About
<1>6. ASSUME NEW s, Awaited(e, s)
      PROVE  Awaited(d, s)
  BY <1>1, <1>6 DEF Awaited
<1> QED  BY <1>3, <1>4, <1>5, <1>6

LEMMA LeaveOrder ==
  ASSUME NEW c \in Seq(LogFrame), c # <<>>, ReportsOK(c), NEW d, d = Tail(c)
  PROVE  /\ ReportsOK(d)
         /\ \A s : About(c, s) => c[1].about = s \/ About(d, s)
         /\ c[1].at # "signals" => \A s : Awaited(c, s) => Awaited(d, s)
<1>1. /\ d \in Seq(LogFrame) /\ Len(d) = Len(c) - 1
      /\ Len(c) \in Nat /\ Len(c) >= 1
      /\ \A i \in 1..Len(d) :
           /\ i + 1 \in 1..Len(c) /\ d[i] = c[i + 1]
           /\ i < Len(d) <=> i + 1 < Len(c)
           /\ i < Len(d) => d[i + 1] = c[(i + 1) + 1]
  BY CallLeft
<1>2. ASSUME NEW i \in 1..Len(c), i # 1
      PROVE  i - 1 \in 1..Len(d) /\ d[i - 1] = c[i]
  BY <1>1, <1>2
<1>3. ReportsOK(d)
  BY <1>1 DEF ReportsOK
<1>4. ASSUME NEW s, About(c, s)
      PROVE  c[1].about = s \/ About(d, s)
  BY <1>2, <1>4 DEF About
<1>5. ASSUME c[1].at # "signals", NEW s, Awaited(c, s)
      PROVE  Awaited(d, s)
  BY <1>2, <1>5 DEF Awaited
<1> QED  BY <1>3, <1>4, <1>5

(* The signals that are to be reported stay so. *)
LEMMA EarlyKept ==
  ASSUME EarlyInv,
         Failed("log") => Failed("log")',
         fLog_sighup = TRUE => fLog_sighup' = TRUE,
         \A s \in early' :
           /\ s \in early
           /\ s \in afLog_signal => s \in afLog_signal' \/ About(calls', s)
           /\ About(calls, s) => About(calls', s) \/ Failed("log")'
           /\ Awaited(calls, s) => Awaited(calls', s) \/ About(calls', s)
  PROVE  EarlyInv'
BY DEF EarlyInv

LEMMA OrderGoes ==
  ASSUME LogInv, OrderInv, NEW of, NEW at, In(of, at), at # "signals",
         NEW to \in PlacesOf(of), to # "start", calls' = Goes(to),
         Failed("log") => Failed("log")',
         fLog_sighup = TRUE => fLog_sighup' = TRUE,
         UNCHANGED <<afLog_signal, early>>
  PROVE  OrderInv'
<1> DEFINE f == [Call EXCEPT !.at = to]
<1>1. /\ calls \in Seq(LogFrame) /\ calls # <<>> /\ Call = calls[1]
      /\ Call \in LogFrame /\ FrameOK(Call) /\ Call.of = of /\ Call.at = at
  BY Known
<1>2. f \in LogFrame /\ f.about = Call.about /\ f.at = to
  BY <1>1, FrameGoes, SMTT(20)
<1>3. calls' = <<f>> \o Tail(calls)
  BY DEF Goes
<1> HIDE DEF f
<1>4. /\ ReportsOK(calls')
      /\ \A s : About(calls, s) => About(calls', s)
      /\ \A s : Awaited(calls, s) => Awaited(calls', s)
  BY <1>1, <1>2, <1>3, TopOrder DEF OrderInv
<1>5. EarlyInv'
  BY <1>4, EarlyKept DEF OrderInv
<1>6. ReportsOK(calls)'
  BY <1>4 DEF ReportsOK
<1> QED  BY <1>5, <1>6 DEF OrderInv

LEMMA OrderEnters ==
  ASSUME LogInv, OrderInv, NEW of, NEW at, In(of, at), at # "signals",
         NEW to \in PlacesOf(of), to # "start",
         NEW g \in LogFrame, g.at = "start", g.sig = 1, g.about = "none",
         calls' = Enters(g, to),
         Failed("log") => Failed("log")',
         UNCHANGED <<afLog_signal, fLog_sighup>>,
         early' \subseteq early
  PROVE  OrderInv'
<1> DEFINE f == [Call EXCEPT !.at = to]
<1>1. /\ calls \in Seq(LogFrame) /\ calls # <<>> /\ Call = calls[1]
      /\ Call \in LogFrame /\ FrameOK(Call) /\ Call.of = of /\ Call.at = at
  BY Known
<1>2. f \in LogFrame /\ f.about = Call.about /\ f.at = to
  BY <1>1, FrameGoes, SMTT(20)
<1>3. calls' = <<g>> \o (<<f>> \o Tail(calls))
  BY DEF Enters, Goes
<1> HIDE DEF f
<1>4. <<f>> \o Tail(calls) \in Seq(LogFrame) /\ <<f>> \o Tail(calls) # <<>>
  BY <1>1, <1>2, TopChanged
<1>5. PICK e \in Seq(LogFrame) : e = <<f>> \o Tail(calls) /\ e # <<>>
  BY <1>4
<1>6. /\ ReportsOK(e)
      /\ \A s : About(calls, s) => About(e, s)
      /\ \A s : Awaited(calls, s) => Awaited(e, s)
  BY <1>1, <1>2, <1>5, TopOrder DEF OrderInv
<1>7. calls' = <<g>> \o e
  BY <1>3, <1>5
<1>8. /\ ReportsOK(calls')
      /\ \A s : About(e, s) => About(calls', s)
      /\ \A s : Awaited(e, s) => Awaited(calls', s)
  BY <1>5, <1>6, <1>7, PushOrder
<1>9. EarlyInv'
  BY <1>6, <1>8, EarlyKept DEF OrderInv
<1>10. ReportsOK(calls)'
  BY <1>8 DEF ReportsOK
<1> QED  BY <1>9, <1>10 DEF OrderInv

LEMMA OrderReturn ==
  ASSUME LogInv, OrderInv, NEW of, NEW at, In(of, at), at # "signals",
         calls' = Tail(calls),
         Failed("log") => Failed("log")',
         fLog_sighup = TRUE => fLog_sighup' = TRUE,
         UNCHANGED afLog_signal,
         early' \subseteq early,
         Call.about \in early' => Failed("log")'
  PROVE  OrderInv'
<1>1. /\ calls \in Seq(LogFrame) /\ calls # <<>> /\ Call = calls[1] /\ Call.at = at
  BY Known
<1>2. /\ ReportsOK(calls')
      /\ \A s : About(calls, s) => calls[1].about = s \/ About(calls', s)
      /\ \A s : Awaited(calls, s) => Awaited(calls', s)
  BY <1>1, LeaveOrder DEF OrderInv
<1>3. EarlyInv'
  BY <1>1, <1>2, EarlyKept DEF OrderInv
<1>4. ReportsOK(calls)'
  BY <1>2 DEF ReportsOK
<1> QED  BY <1>3, <1>4 DEF OrderInv

(* A log file that could not be opened stays so. *)
LEMMA FailedStays ==
  ASSUME LogInv, LogNext, Failed("log")
  PROVE  Failed("log")'
<1>1. /\ logFile \in [LogFiles -> [open : BOOLEAN, tried : BOOLEAN]]
      /\ logFile["log"].tried = TRUE /\ logFile["log"].open = FALSE
      /\ "log" \in LogFiles
  BY DEF LogInv, LogTypeOK, Failed, LogFiles
<1>2. \A f \in LogFiles : \A next :
        ToOpen(f) /\ Opens(f, next) => logFile'["log"] = logFile["log"]
  <2> SUFFICES ASSUME NEW f \in LogFiles, NEW next, ToOpen(f), Opens(f, next)
               PROVE  logFile'["log"] = logFile["log"]
    OBVIOUS
  <2>1. f # "log"  BY <1>1 DEF ToOpen
  <2>2. \/ logFile' = [logFile EXCEPT ![f] = [open |-> TRUE, tried |-> TRUE]]
        \/ logFile' = [logFile EXCEPT ![f].tried = TRUE]
    BY DEF Opens
  <2> QED  BY <2>1, <2>2, <1>1
<1>3. {"log", "debug", "stats"} \subseteq LogFiles
  BY DEF LogFiles
<1>4. CASE DebugFile  BY <1>2, <1>3, <1>1, <1>4 DEF DebugFile, Failed
<1>5. CASE LogFileOpens  BY <1>2, <1>3, <1>1, <1>5 DEF LogFileOpens, Failed
<1>6. CASE Ustats  BY <1>2, <1>3, <1>1, <1>6 DEF Ustats, Failed
<1>7. CASE UlogCloseFiles  BY <1>1, <1>7 DEF UlogCloseFiles, Failed
<1>8. CASE UNCHANGED logFile  BY <1>1, <1>8 DEF Failed
<1>9. CASE UlogToFile \/ CallFromOutside \/ UlogStart \/ LogSignal \/ SignalsDone
           \/ LogFileReady \/ NoLog \/ Output \/ UsysdepExit \/ UlogCloseStart
           \/ UstatsEnd \/ FconnCloseStart \/ FconnCloseReports \/ FconnCloseEnd
  <2>1. UNCHANGED logFile
    BY <1>9 DEF UlogToFile, CallFromOutside, UlogStart, LogSignal, SignalsDone,
                LogFileReady, NoLog, Output, UsysdepExit, UlogCloseStart, UstatsEnd,
                FconnCloseStart, FconnCloseReports, FconnCloseEnd
  <2> QED  BY <2>1, <1>8
<1>10. CASE \E s \in LogSignals : UsysdepSignal(s) \/ Ussignal(s)
  <2>1. UNCHANGED logFile  BY <1>10 DEF UsysdepSignal, Ussignal
  <2> QED  BY <2>1, <1>8
<1> QED  BY <1>4, <1>5, <1>6, <1>7, <1>9, <1>10 DEF LogNext

(* Only one call reports signals. *)
LEMMA NoneAwaited ==
  ASSUME LogInv, OrderInv, ~DoingBelow, calls # <<>>
  PROVE  /\ \A s \in LogSignals : ~About(calls, s)
         /\ \A s : Awaited(calls, s) =>
              /\ calls[1].at = "signals"
              /\ \E k \in 1..Len(SignalOrder) : SignalOrder[k] = s /\ calls[1].sig <= k
<1>1. calls \in Seq(LogFrame)
  BY DEF LogInv, LogTypeOK
<1>2. \A i \in 1..Len(calls) : i < Len(calls) => i + 1 \in 2..Len(calls)
  BY <1>1
<1>3. \A i \in 1..Len(calls) : i = 1 \/ i \in 2..Len(calls)
  BY <1>1
<1>4. ASSUME NEW s \in LogSignals, About(calls, s)
      PROVE  FALSE
  <2>1. PICK i \in 1..Len(calls) : calls[i].about = s  BY <1>4 DEF About
  <2>2. s # "none"  BY SignalNames
  <2>3. i + 1 \in 2..Len(calls) /\ calls[i + 1].at = "signals"
    BY <2>1, <2>2, <1>2 DEF OrderInv, ReportsOK
  <2> QED  BY <2>3 DEF DoingBelow
<1>5. ASSUME NEW s, Awaited(calls, s)
      PROVE  /\ calls[1].at = "signals"
             /\ \E k \in 1..Len(SignalOrder) : SignalOrder[k] = s /\ calls[1].sig <= k
  <2>1. PICK i \in 1..Len(calls), k \in 1..Len(SignalOrder) :
          calls[i].at = "signals" /\ SignalOrder[k] = s /\ calls[i].sig <= k
    BY <1>5 DEF Awaited
  <2>2. i = 1  BY <2>1, <1>3 DEF DoingBelow
  <2> QED  BY <2>1, <2>2
<1> QED  BY <1>4, <1>5

(* When no call reports signals, those that came before are reported. *)
LEMMA EarlyReported ==
  ASSUME LogInv, OrderInv, fdoing_sigs # TRUE, NEW s \in early
  PROVE  Failed("log")
<1>1. LogTypeOK /\ calls \in Seq(LogFrame) /\ s \in LogSignals /\ ~Doing
  BY TypeKnown DEF LogInv, LogTypeRest
<1>2. ~Awaited(calls, s)
  BY <1>1 DEF Awaited, Doing
<1>3. ~About(calls, s)
  <2> SUFFICES ASSUME NEW i \in 1..Len(calls), calls[i].about = s
               PROVE  FALSE
    BY DEF About
  <2>1. i < Len(calls) /\ calls[i + 1].at = "signals"
    BY <1>1, SignalNames DEF OrderInv, ReportsOK
  <2>2. i + 1 \in 1..Len(calls)  BY <2>1, <1>1
  <2> QED  BY <2>1, <2>2, <1>1 DEF Doing
<1> QED  BY <1>2, <1>3 DEF OrderInv, EarlyInv

LEMMA UlogStartOrder ==
  ASSUME LogInv, OrderInv, UlogStart, Failed("log") => Failed("log")'
  PROVE  OrderInv'
<1>1. In("ulog", "start")
  BY DEF UlogStart
<1>2. /\ LogTypeOK /\ StackInv /\ LogTypeRest
      /\ calls \in Seq(LogFrame) /\ calls # <<>> /\ 1 \in 1..Len(calls)
      /\ Call = calls[1] /\ Call \in LogFrame /\ FrameOK(Call)
      /\ Call.of = "ulog" /\ Call.at = "start" /\ fdoing_sigs \in BOOLEAN
  BY <1>1, Known
<1>3. /\ UNCHANGED <<afLog_signal, fLog_sighup>>
      /\ early' = IF fdoing_sigs THEN early ELSE {s \in unreported : Due(s)}
  BY DEF UlogStart, modes
<1>4. "debugFile" \in PlacesOf("ulog") /\ "signals" \in PlacesOf("ulog")
  BY DEF PlacesOf
<1>5. CASE fdoing_sigs = TRUE
  <2>1. calls' = Goes("debugFile") /\ UNCHANGED early
    BY <1>3, <1>5 DEF UlogStart
  <2> QED  BY <2>1, <1>1, <1>3, <1>4, OrderGoes
<1>6. CASE fdoing_sigs = FALSE
  <2> DEFINE f == [Call EXCEPT !.at = "signals"]
  <2>1. /\ f \in LogFrame /\ f.about = Call.about /\ f.at = "signals"
        /\ f.sig = Call.sig
    BY <1>2, <1>4, FrameGoes, SMTT(20)
  <2>2. calls' = <<f>> \o Tail(calls)
    BY <1>6 DEF Goes, UlogStart
  <2> HIDE DEF f
  <2>3. ReportsOK(calls') /\ \A s : About(calls, s) => About(calls', s)
    BY <1>2, <2>1, <2>2, TopOrder DEF OrderInv
  <2>4. 1 \in 1..Len(calls') /\ calls'[1] = f
    BY <1>2, <2>1, <2>2, TopChanged
  <2>5. f.sig = 1
    BY <1>2, <2>1 DEF OrderInv, ReportsOK
  <2>6. ~Doing
    BY <1>2, <1>6, TypeKnown
  <2>7. ASSUME NEW s \in early', ~Failed("log")
        PROVE  /\ s \in Hangups => fLog_sighup' = TRUE
               /\ s \in afLog_signal' /\ Awaited(calls', s)
    <3>1. s \in unreported /\ Due(s)
      BY <1>3, <1>6, <2>7
    <3>2. s \in LogSignals
      BY <3>1, <1>2 DEF LogTypeRest
    <3>3. ~\E i \in 1..Len(calls) : calls[i].about = s
      <4> SUFFICES ASSUME NEW i \in 1..Len(calls), calls[i].about = s
                   PROVE  FALSE
        OBVIOUS
      <4>1. i < Len(calls) /\ calls[i + 1].at = "signals"
        BY <3>2, SignalNames DEF OrderInv, ReportsOK
      <4>2. i + 1 \in 1..Len(calls)  BY <4>1, <1>2
      <4> QED  BY <4>1, <4>2, <2>6 DEF Doing
    <3>4. s \in afLog_signal
      BY <3>1, <3>3, <1>2, <2>7 DEF StackInv, ReportInv
    <3>5. PICK k \in 1..Len(SignalOrder) : SignalOrder[k] = s
      BY <3>2 DEF LogSignals
    <3>6. f.sig <= k
      BY <2>5
    <3>7. Awaited(calls', s)
      BY <2>1, <2>4, <3>5, <3>6 DEF Awaited
    <3>8. s \in Hangups => fLog_sighup = TRUE
      BY <3>1, <1>2 DEF Due, LogTypeRest
    <3> QED  BY <3>4, <3>7, <3>8, <1>3
  <2>8. EarlyInv'
    BY <2>7 DEF EarlyInv
  <2>9. ReportsOK(calls)'
    BY <2>3 DEF ReportsOK
  <2> QED  BY <2>8, <2>9 DEF OrderInv
<1> QED  BY <1>2, <1>5, <1>6

LEMMA SignalsDoneOrder ==
  ASSUME LogInv, OrderInv, SignalsDone, Failed("log") => Failed("log")'
  PROVE  OrderInv'
<1>1. In("ulog", "signals")
  BY DEF SignalsDone
<1>2. /\ LogTypeRest /\ calls \in Seq(LogFrame) /\ calls # <<>>
      /\ Call = calls[1] /\ Call \in LogFrame /\ FrameOK(Call)
      /\ Call.of = "ulog" /\ ~DoingBelow
  BY <1>1, Known
<1>3. /\ calls' = Goes("debugFile") /\ Call.sig > Len(SignalOrder)
      /\ UNCHANGED <<afLog_signal, fLog_sighup, early>>
  BY DEF SignalsDone, modes, past
<1> DEFINE f == [Call EXCEPT !.at = "debugFile"]
<1>4. f \in LogFrame /\ f.about = Call.about /\ f.at = "debugFile"
  <2>1. "debugFile" \in PlacesOf("ulog")  BY DEF PlacesOf
  <2> QED  BY <2>1, <1>2, FrameGoes, SMTT(20)
<1>5. calls' = <<f>> \o Tail(calls)
  BY <1>3 DEF Goes
<1> HIDE DEF f
<1>6. ReportsOK(calls')
  BY <1>2, <1>4, <1>5, TopOrder DEF OrderInv
<1>7. ASSUME NEW s \in early
      PROVE  Failed("log")
  <2>1. s \in LogSignals  BY <1>2 DEF LogTypeRest
  <2>2. ~About(calls, s)  BY <2>1, <1>2, NoneAwaited
  <2>3. ~Awaited(calls, s)
    <3> SUFFICES ASSUME Awaited(calls, s)  PROVE FALSE
      OBVIOUS
    <3>1. PICK k \in 1..Len(SignalOrder) : calls[1].sig <= k
      BY <1>2, NoneAwaited
    <3>2. Len(SignalOrder) \in Nat /\ Call.sig \in Int
      BY <1>2, LogAssumption DEF LogAssumption, LogFrame
    <3> QED  BY <3>1, <3>2, <1>2, <1>3
  <2> QED  BY <2>2, <2>3 DEF OrderInv, EarlyInv
<1>8. EarlyInv'
  BY <1>3, <1>7 DEF EarlyInv
<1>9. ReportsOK(calls)'
  BY <1>6 DEF ReportsOK
<1> QED  BY <1>8, <1>9 DEF OrderInv

LEMMA LogSignalOrder ==
  ASSUME LogInv, OrderInv, LogSignal, Failed("log") => Failed("log")'
  PROVE  OrderInv'
<1>1. In("ulog", "signals")
  BY DEF LogSignal
<1>2. /\ LogTypeRest /\ calls \in Seq(LogFrame) /\ calls # <<>>
      /\ Call = calls[1] /\ Call \in LogFrame /\ FrameOK(Call)
      /\ Call.of = "ulog" /\ Call.at = "signals"
  BY <1>1, Known
<1>b. ~DoingBelow
  BY <1>1, Known
<1> DEFINE s == SignalOrder[Call.sig]
           f == [Call EXCEPT !.sig = @ + 1]
<1>3. /\ afLog_signal' = afLog_signal \ {s}
      /\ UNCHANGED <<fLog_sighup, early>>
      /\ calls' = (IF Reports(s) THEN <<UlogCall("error", TRUE, s)>> ELSE <<>>)
                    \o (<<f>> \o Tail(calls))
  BY DEF LogSignal, NextSignal, modes
<1>4. /\ Call.sig \in 1..Len(SignalOrder) /\ Len(SignalOrder) \in Nat
      /\ s \in LogSignals
  <2>1. Len(SignalOrder) \in Nat  BY LogAssumption DEF LogAssumption
  <2>2. Call.sig \in 1..Len(SignalOrder) + 1 /\ Call.sig <= Len(SignalOrder)
    BY <1>2 DEF LogSignal, LogFrame
  <2>3. Call.sig \in 1..Len(SignalOrder)  BY <2>1, <2>2
  <2> QED  BY <2>1, <2>3 DEF LogSignals
<1>5. /\ f \in LogFrame /\ f.about = Call.about /\ f.at = "signals"
      /\ f.sig = Call.sig + 1
  <2>1. Call.sig + 1 \in 1..Len(SignalOrder) + 1  BY <1>4
  <2>2. f \in LogFrame  BY <2>1, <1>2 DEF LogFrame
  <2> QED  BY <2>2, <1>2 DEF LogFrame
<1>a. PICK r : r = s
  OBVIOUS
<1> HIDE DEF f
<1>6. <<f>> \o Tail(calls) \in Seq(LogFrame) /\ <<f>> \o Tail(calls) # <<>>
  BY <1>2, <1>5, TopChanged
<1>7. PICK e \in Seq(LogFrame) : e = <<f>> \o Tail(calls) /\ e # <<>>
  BY <1>6
<1>8. ReportsOK(e) /\ e[1] = f /\ 1 \in 1..Len(e)
  <2>1. ReportsOK(e)  BY <1>2, <1>5, <1>7, TopOrder DEF OrderInv
  <2> QED  BY <2>1, <1>2, <1>5, <1>7, TopChanged
(* The other signals are still to come. *)
<1>9. ASSUME NEW q \in early, ~Failed("log")
      PROVE  /\ q \in Hangups => fLog_sighup = TRUE
             /\ q \in afLog_signal
             /\ q # r => Awaited(e, q)
  <2>1. q \in LogSignals  BY <1>2 DEF LogTypeRest
  <2>2. ~About(calls, q)  BY <2>1, <1>2, <1>b, NoneAwaited
  <2>3. /\ q \in Hangups => fLog_sighup = TRUE
        /\ q \in afLog_signal /\ Awaited(calls, q)
    BY <2>2, <1>9 DEF OrderInv, EarlyInv
  <2>4. PICK k \in 1..Len(SignalOrder) : SignalOrder[k] = q /\ calls[1].sig <= k
    BY <2>3, <1>2, <1>b, NoneAwaited
  <2>5. ASSUME q # r  PROVE Awaited(e, q)
    <3>1. k # Call.sig  BY <2>4, <2>5, <1>a
    <3>2. f.sig <= k  BY <3>1, <2>4, <1>2, <1>4, <1>5
    <3> QED  BY <3>2, <2>4, <1>5, <1>8 DEF Awaited
  <2> QED  BY <2>3, <2>5
<1> HIDE DEF s
<1>10. CASE Reports(s)
  <2>1. PICK g \in LogFrame :
          g = UlogCall("error", TRUE, s) /\ g.about = s /\ g.at = "start"
    BY <1>4, NewReport
  <2>2. g.at = "start" /\ g.sig = 1 /\ g.about = r
    BY <1>a, <2>1 DEF UlogCall
  <2>3. calls' = <<g>> \o e  BY <1>3, <1>7, <1>10, <2>1
  <2>a. e # <<>> /\ ReportsOK(e) /\ e[1].at = "signals"
    BY <1>5, <1>7, <1>8
  <2>4. /\ ReportsOK(calls')
        /\ About(calls', r)
        /\ \A q : Awaited(e, q) => Awaited(calls', q)
    <3>1. /\ ReportsOK(calls')
          /\ About(calls', g.about)
          /\ \A q : Awaited(e, q) => Awaited(calls', q)
      BY ONLY <2>a, <2>2, <2>3, e \in Seq(LogFrame), g \in LogFrame, PushOrder
    <3> QED  BY <3>1, <2>2
  <2>5. EarlyInv'
    <3> SUFFICES ASSUME NEW q \in early', ~Failed("log")'
                 PROVE  /\ q \in Hangups => fLog_sighup' = TRUE
                        /\ About(calls', q) \/ (q \in afLog_signal' /\ Awaited(calls', q))
      BY DEF EarlyInv
    <3>1. q \in early /\ ~Failed("log")  BY <1>3
    <3> QED  BY <3>1, <1>3, <1>9, <1>a, <2>4
  <2>6. ReportsOK(calls)'  BY <2>4 DEF ReportsOK
  <2> QED  BY <2>5, <2>6 DEF OrderInv
<1>11. CASE ~Reports(s)
  <2>1. calls' = e
    <3>1. calls' = <<>> \o e  BY <1>3, <1>7, <1>11
    <3> QED  BY <3>1, ConcatEmptySeq
  <2>2. EarlyInv'
    <3> SUFFICES ASSUME NEW q \in early', ~Failed("log")'
                 PROVE  /\ q \in Hangups => fLog_sighup' = TRUE
                        /\ q \in afLog_signal' /\ Awaited(calls', q)
      BY DEF EarlyInv
    <3>1. q \in early /\ ~Failed("log")  BY <1>3
    <3>2. /\ q \in Hangups => fLog_sighup = TRUE
          /\ q \in afLog_signal
      BY <3>1, <1>9
    <3>3. q # s
      BY <3>2, <1>11 DEF Reports, Due
    <3> QED  BY <3>1, <3>2, <3>3, <1>3, <1>9, <1>a, <2>1
  <2>3. ReportsOK(calls)'  BY <1>8, <2>1 DEF ReportsOK
  <2> QED  BY <2>2, <2>3 DEF OrderInv
<1> QED  BY <1>10, <1>11

LEMMA CallFromOutsideOrder ==
  ASSUME LogInv, OrderInv, CallFromOutside, Failed("log") => Failed("log")'
  PROVE  OrderInv'
<1>1. calls = <<>> /\ UNCHANGED <<afLog_signal, fLog_sighup, early>>
  BY DEF CallFromOutside, Idle, modes, past
<1>2. PICK g : calls' = <<g>> /\ g.at = "start" /\ g.sig = 1 /\ g.about = "none"
  BY DEF CallFromOutside, UlogCall, OtherCall
<1>3. Len(calls') = 1 /\ calls'[1] = g
  BY <1>2
<1>4. ReportsOK(calls')
  BY <1>2, <1>3 DEF ReportsOK
<1>5. \A s : ~About(calls, s) /\ ~Awaited(calls, s)
  BY <1>1 DEF About, Awaited
<1>6. EarlyInv'
  BY <1>1, <1>5 DEF OrderInv, EarlyInv
<1>7. ReportsOK(calls)'
  BY <1>4 DEF ReportsOK
<1> QED  BY <1>6, <1>7 DEF OrderInv

(* The calls that are made and report nothing. *)
LEMMA OtherCalls ==
  /\ \A message \in BOOLEAN :
       LET g == UlogCall("error", message, "none")
       IN g \in LogFrame /\ g.at = "start" /\ g.sig = 1 /\ g.about = "none"
  /\ LET g == OtherCall("ulog_close")
     IN g \in LogFrame /\ g.at = "start" /\ g.sig = 1 /\ g.about = "none"
<1>1. 1 \in 1..Len(SignalOrder) + 1 /\ "error" \in LogTypes
  BY LogAssumption DEF LogAssumption, LogTypes
<1> QED  BY <1>1 DEF UlogCall, OtherCall, LogFrame

LEMMA AboutNone ==
  ASSUME LogInv, NEW of, NEW at, In(of, at), of # "ulog"
  PROVE  Call.about \notin early
<1>1. LogTypeRest /\ FrameOK(Call) /\ Call.of = of
  BY Known
<1>2. Call.about = "none"
  BY <1>1 DEF FrameOK
<1> QED  BY <1>1, <1>2, SignalNames DEF LogTypeRest

LEMMA LogFileReadyOrder ==
  ASSUME LogInv, OrderInv, LogFileReady, Failed("log") => Failed("log")'
  PROVE  OrderInv'
<1>1. In("ulog", "logFile")
  BY DEF LogFileReady
<1>2. UNCHANGED <<afLog_signal, fLog_sighup, early, logFile>>
  BY DEF LogFileReady, modes
<1>3. CASE calls' = Goes("output")
  <2>1. "output" \in PlacesOf("ulog")  BY DEF PlacesOf
  <2> QED  BY <2>1, <1>1, <1>2, <1>3, OrderGoes
<1>4. CASE /\ calls' = Tail(calls)
           /\ fLfile = TRUE
           /\ Call.type # "debug" => ~ToOpen("log") /\ logFile["log"].open # TRUE
  <2>1. LogTypeRest /\ Call \in LogFrame /\ FrameOK(Call)
    BY <1>1, Known
  <2>2. Call.about # "none" => Call.type = "error"
    BY <2>1 DEF FrameOK
  <2>3. logFile["log"].open \in BOOLEAN /\ logFile["log"].tried \in BOOLEAN
    BY <2>1 DEF LogTypeRest, LogFiles
  <2>4. Call.about # "none" => Failed("log")
    BY <2>2, <2>3, <1>4 DEF ToOpen, Failed
  <2>5. Call.about \in early' => Failed("log")'
    BY <2>1, <2>4, <1>2, SignalNames DEF LogTypeRest
  <2> QED  BY <2>5, <1>1, <1>2, <1>4, OrderReturn
<1>5. fLfile \in BOOLEAN
  BY <1>1, Known DEF LogTypeRest
<1> QED  BY <1>3, <1>4, <1>5 DEF LogFileReady

LEMMA OutputOrder ==
  ASSUME LogInv, OrderInv, Output, Failed("log") => Failed("log")'
  PROVE  OrderInv'
<1>1. In("ulog", "output")
  BY DEF Output
<1>2. /\ UNCHANGED <<afLog_signal, fLog_sighup>>
      /\ early' = IF Call.message THEN early \ {Call.about} ELSE early
  BY DEF Output, modes
<1>3. CASE calls' = Enters(OtherCall("ulog_close"), "exit")
  <2>1. "exit" \in PlacesOf("ulog")  BY DEF PlacesOf
  <2>2. early' \subseteq early  BY <1>2
  <2> QED  BY <2>1, <2>2, <1>1, <1>2, <1>3, OtherCalls, OrderEnters
<1>4. CASE calls' = Tail(calls)
  <2>1. LogTypeRest /\ FrameOK(Call)
    BY <1>1, Known
  <2>2. Call.about # "none" => Call.message = TRUE
    BY <2>1 DEF FrameOK
  <2>3. early' \subseteq early /\ Call.about \notin early'
    BY <2>1, <2>2, <1>2, SignalNames DEF LogTypeRest
  <2> QED  BY <2>3, <1>1, <1>2, <1>4, OrderReturn
<1> QED  BY <1>3, <1>4 DEF Output

(* Hangups are left out only while no call reports signals. *)
LEMMA FconnCloseStartOrder ==
  ASSUME LogInv, OrderInv, FconnCloseStart, Failed("log") => Failed("log")'
  PROVE  OrderInv'
<1>1. In("fconn_close", "start")
  BY DEF FconnCloseStart
<1>2. /\ StackInv /\ calls \in Seq(LogFrame) /\ calls # <<>> /\ Call = calls[1]
      /\ Call \in LogFrame /\ FrameOK(Call) /\ Call.of = "fconn_close"
      /\ fdoing_sigs \in BOOLEAN
  BY <1>1, Known
<1>3. calls' = Goes("closed") /\ UNCHANGED <<afLog_signal, early>>
  BY DEF FconnCloseStart, past
<1>4. ~DoingBelow
  <2>1. ~(1 < Len(calls))
    BY <1>2 DEF StackInv, StackOK
  <2> QED  BY <2>1, <1>2 DEF DoingBelow
<1>5. fdoing_sigs # TRUE
  BY <1>1, <1>4, DoingElse
<1>6. \A s \in early : Failed("log")
  BY <1>5, EarlyReported
<1>7. EarlyInv'
  BY <1>3, <1>6 DEF EarlyInv
<1> DEFINE f == [Call EXCEPT !.at = "closed"]
<1>8. f \in LogFrame /\ f.about = Call.about /\ f.at = "closed"
  <2>1. "closed" \in PlacesOf("fconn_close")  BY DEF PlacesOf
  <2> QED  BY <2>1, <1>2, FrameGoes, SMTT(20)
<1>9. calls' = <<f>> \o Tail(calls)
  BY <1>3 DEF Goes
<1> HIDE DEF f
<1>10. ReportsOK(calls')
  BY <1>2, <1>8, <1>9, TopOrder DEF OrderInv
<1>11. ReportsOK(calls)'
  BY <1>10 DEF ReportsOK
<1> QED  BY <1>7, <1>11 DEF OrderInv

LEMMA OrderInvNext ==
  LogInv /\ OrderInv /\ [LogNext]_logVars => OrderInv'
<1> SUFFICES ASSUME LogInv, OrderInv, LogNext  PROVE  OrderInv'
  BY DEF OrderInv, ReportsOK, EarlyInv, Failed, About, Awaited, logVars
<1> DEFINE Stays == Failed("log") => Failed("log")'
<1>0. Stays
  BY FailedStays
<1> HIDE DEF Stays
<1>a. /\ "debugFile" \in PlacesOf("ulog") /\ "logFile" \in PlacesOf("ulog")
      /\ "output" \in PlacesOf("ulog") /\ "noLog" \in PlacesOf("ulog")
      /\ "exit" \in PlacesOf("ulog") /\ "files" \in PlacesOf("ulog_close")
      /\ "written" \in PlacesOf("ustats") /\ "reported" \in PlacesOf("fconn_close")
  BY DEF PlacesOf
<1>1. CASE UlogToFile
  BY <1>1 DEF UlogToFile, past, OrderInv, ReportsOK, EarlyInv, Failed, About, Awaited
<1>2. CASE CallFromOutside  BY <1>0, <1>2, CallFromOutsideOrder DEF Stays
<1>3. CASE \E s \in LogSignals : UsysdepSignal(s) \/ Ussignal(s)
  BY <1>3 DEF UsysdepSignal, Ussignal, modes, past, OrderInv, ReportsOK, EarlyInv,
              Failed, About, Awaited
<1>4. CASE UlogStart  BY <1>0, <1>4, UlogStartOrder DEF Stays
<1>5. CASE LogSignal  BY <1>0, <1>5, LogSignalOrder DEF Stays
<1>6. CASE SignalsDone  BY <1>0, <1>6, SignalsDoneOrder DEF Stays
<1>7. CASE DebugFile
  <2>1. In("ulog", "debugFile") /\ UNCHANGED <<afLog_signal, fLog_sighup, early>>
    BY <1>7 DEF DebugFile, modes, past
  <2>2. \/ calls' = Goes("logFile")
        \/ calls' = Enters(UlogCall("error", TRUE, "none"), "logFile")
    BY <1>7 DEF DebugFile, Opens
  <2>3. CASE calls' = Goes("logFile")
    BY <2>1, <2>3, <1>0, <1>a, OrderGoes DEF Stays
  <2>4. CASE calls' = Enters(UlogCall("error", TRUE, "none"), "logFile")
    BY <2>1, <2>4, <1>0, <1>a, OtherCalls, OrderEnters DEF Stays
  <2> QED  BY <2>2, <2>3, <2>4
<1>8. CASE LogFileOpens
  <2>1. In("ulog", "logFile") /\ UNCHANGED <<afLog_signal, fLog_sighup, early>>
    BY <1>8 DEF LogFileOpens, modes, past
  <2>2. \/ calls' = Goes("output")
        \/ calls' = Enters(UlogCall("error", TRUE, "none"), "noLog")
    BY <1>8 DEF LogFileOpens, Opens
  <2>3. CASE calls' = Goes("output")
    BY <2>1, <2>3, <1>0, <1>a, OrderGoes DEF Stays
  <2>4. CASE calls' = Enters(UlogCall("error", TRUE, "none"), "noLog")
    BY <2>1, <2>4, <1>0, <1>a, OtherCalls, OrderEnters DEF Stays
  <2> QED  BY <2>2, <2>3, <2>4
<1>9. CASE LogFileReady  BY <1>0, <1>9, LogFileReadyOrder DEF Stays
<1>10. CASE NoLog
  <2>1. /\ In("ulog", "noLog") /\ UNCHANGED <<afLog_signal, fLog_sighup, early>>
        /\ calls' = Enters(OtherCall("ulog_close"), "exit")
    BY <1>10 DEF NoLog, modes, past
  <2> QED  BY <2>1, <1>0, <1>a, OtherCalls, OrderEnters DEF Stays
<1>11. CASE Output  BY <1>0, <1>11, OutputOrder DEF Stays
<1>12. CASE UsysdepExit
  BY <1>12 DEF UsysdepExit, modes, past, OrderInv, ReportsOK, EarlyInv, Failed, About,
               Awaited
<1>13. CASE UlogCloseStart
  <2>1. /\ In("ulog_close", "start") /\ UNCHANGED <<afLog_signal, fLog_sighup, early>>
        /\ calls' = Enters(UlogCall("error", FALSE, "none"), "files")
    BY <1>13 DEF UlogCloseStart, modes, past
  <2> QED  BY <2>1, <1>0, <1>a, OtherCalls, OrderEnters DEF Stays
<1>14. CASE UlogCloseFiles
  <2>1. /\ In("ulog_close", "files") /\ UNCHANGED <<afLog_signal, fLog_sighup, early>>
        /\ calls' = Tail(calls)
    BY <1>14 DEF UlogCloseFiles, modes, past
  <2>2. Call.about \notin early'
    BY <2>1, AboutNone
  <2> QED  BY <2>1, <2>2, <1>0, OrderReturn DEF Stays
<1>15. CASE Ustats
  <2>1. In("ustats", "start") /\ UNCHANGED <<afLog_signal, fLog_sighup, early>>
    BY <1>15 DEF Ustats, modes, past
  <2>2. \/ calls' = Goes("written")
        \/ calls' = Enters(UlogCall("error", TRUE, "none"), "written")
    BY <1>15 DEF Ustats, Opens
  <2>3. CASE calls' = Goes("written")
    BY <2>1, <2>3, <1>0, <1>a, OrderGoes DEF Stays
  <2>4. CASE calls' = Enters(UlogCall("error", TRUE, "none"), "written")
    BY <2>1, <2>4, <1>0, <1>a, OtherCalls, OrderEnters DEF Stays
  <2> QED  BY <2>2, <2>3, <2>4
<1>16. CASE UstatsEnd
  <2>1. /\ In("ustats", "written") /\ UNCHANGED <<afLog_signal, fLog_sighup, early>>
        /\ calls' = Tail(calls)
    BY <1>16 DEF UstatsEnd, modes, past
  <2>2. Call.about \notin early'
    BY <2>1, AboutNone
  <2> QED  BY <2>1, <2>2, <1>0, OrderReturn DEF Stays
<1>17. CASE FconnCloseStart  BY <1>0, <1>17, FconnCloseStartOrder DEF Stays
<1>18. CASE FconnCloseReports
  <2>1. /\ In("fconn_close", "closed") /\ UNCHANGED <<afLog_signal, fLog_sighup, early>>
        /\ calls' = Enters(UlogCall("error", FALSE, "none"), "reported")
    BY <1>18 DEF FconnCloseReports, modes, past
  <2> QED  BY <2>1, <1>0, <1>a, OtherCalls, OrderEnters DEF Stays
<1>19. CASE FconnCloseEnd
  <2>1. /\ In("fconn_close", "reported") /\ UNCHANGED <<afLog_signal, early>>
        /\ fLog_sighup' = TRUE /\ calls' = Tail(calls)
    BY <1>19 DEF FconnCloseEnd, past
  <2>2. Call.about \notin early'
    BY <2>1, AboutNone
  <2> QED  BY <2>1, <2>2, <1>0, OrderReturn DEF Stays
<1> QED
  BY <1>1, <1>2, <1>3, <1>4, <1>5, <1>6, <1>7, <1>8, <1>9, <1>10, <1>11, <1>12, <1>13,
     <1>14, <1>15, <1>16, <1>17, <1>18, <1>19 DEF LogNext

LEMMA OrderInvInit ==
  LogInit => OrderInv
<1> SUFFICES ASSUME LogInit  PROVE  OrderInv
  OBVIOUS
<1>1. calls = <<>> /\ Len(calls) = 0 /\ early = {}
  BY DEF LogInit
<1> QED  BY <1>1 DEF OrderInv, ReportsOK, EarlyInv

(* However calls and signals fall, the signals that came before a message  *)
(* wait for the one call that reports signals, or are being reported.      *)
THEOREM OrderInvariant == LogSpec => []OrderInv
  BY OrderInvInit, OrderInvNext, LogInvariant, PTL DEF LogSpec

(* All calls but the first and the last wait in one of four ways, and in   *)
(* each of them only once.                                                 *)
LEMMA StackIsSmall ==
  ASSUME LogTypeOK, StackInv
  PROVE  Len(calls) <= 6
<1> SUFFICES ASSUME Len(calls) > 6  PROVE  FALSE
  <2>1. Len(calls) \in Nat  BY DEF LogTypeOK
  <2> QED  BY <2>1
<1>1. /\ Len(calls) \in Nat
      /\ \A i \in 1..6 : i \in 1..Len(calls) /\ i < Len(calls)
      /\ \A i \in 2..6 : i \in 2..Len(calls) /\ i \in 1..6
      /\ \A i \in 2..5 : i + 1 \in 3..6
  BY DEF LogTypeOK
<1>2. ASSUME NEW i \in 2..6
      PROVE  \/ calls[i].at = "signals"
             \/ calls[i].at = "logFile"
             \/ calls[i].at \in Ending
             \/ calls[i].at = "files" /\ calls[i + 1].at = "exit"
  <2>1. i \in 1..Len(calls) /\ i < Len(calls) /\ i \in 2..Len(calls)
    BY <1>1
  <2>2. /\ calls[i].of \in {"ulog", "ulog_close"}
        /\ calls[i].of = "ulog_close" => calls[i + 1].at = "exit"
        /\ FrameOK(calls[i]) /\ calls[i].at \in Waiting
    BY <2>1 DEF StackInv, StackOK
  <2>3. CASE calls[i].of = "ulog"
    BY <2>2, <2>3 DEF FrameOK, PlacesOf, Waiting, Ending
  <2>4. CASE calls[i].of = "ulog_close"
    BY <2>2, <2>4 DEF FrameOK, PlacesOf, Waiting
  <2> QED  BY <2>2, <2>3, <2>4
<1>3. ASSUME NEW i \in 2..6, NEW j \in 2..6
      PROVE  /\ calls[i].at = "signals" /\ calls[j].at = "signals" => i = j
             /\ calls[i].at = "logFile" /\ calls[j].at = "logFile" => i = j
             /\ calls[i].at \in Ending /\ calls[j].at \in Ending => i = j
             /\ calls[i].at = "files" /\ calls[j].at = "files" => i = j
  <2>1. /\ i \in 1..Len(calls) /\ j \in 1..Len(calls)
        /\ i \in 2..Len(calls) /\ j \in 2..Len(calls)
    BY <1>1
  <2>2. /\ calls[i].at = "signals" /\ calls[j].at = "signals" => i = j
        /\ calls[i].at = "logFile" /\ calls[j].at = "logFile" => i = j
        /\ calls[i].at \in Ending /\ calls[j].at \in Ending => i = j
    BY <2>1 DEF StackInv, Once
  <2>3. ASSUME calls[i].at = "files", calls[j].at = "files"
        PROVE  i = j
    <3>1. calls[i + 1].at = "exit" /\ calls[j + 1].at = "exit"
      BY <1>2, <2>3 DEF Ending
    <3>2. i + 1 \in 1..Len(calls) /\ j + 1 \in 1..Len(calls)
      BY <1>1
    <3>3. i + 1 = j + 1
      BY <3>1, <3>2 DEF StackInv, Once, Ending
    <3> QED  BY <3>3
  <2> QED  BY <2>2, <2>3
<1> DEFINE k(i) == IF calls[i].at = "signals" THEN 1
                   ELSE IF calls[i].at = "logFile" THEN 2
                   ELSE IF calls[i].at \in Ending THEN 3 ELSE 4
<1>4. \A i \in 2..6 : k(i) \in 1..4
  OBVIOUS
<1>5. \A i \in 2..6, j \in 2..6 : k(i) = k(j) => i = j
  <2> TAKE i \in 2..6, j \in 2..6
  <2>1. k(i) = 4 => calls[i].at = "files"  BY <1>2
  <2>2. k(j) = 4 => calls[j].at = "files"  BY <1>2
  <2>3. /\ k(i) = 1 => calls[i].at = "signals"
        /\ k(i) = 2 => calls[i].at = "logFile"
        /\ k(i) = 3 => calls[i].at \in Ending
    OBVIOUS
  <2>4. /\ k(j) = 1 => calls[j].at = "signals"
        /\ k(j) = 2 => calls[j].at = "logFile"
        /\ k(j) = 3 => calls[j].at \in Ending
    OBVIOUS
  <2>5. k(i) \in 1..4
    BY <1>4
  <2> HIDE DEF k
  <2> QED  BY <2>1, <2>2, <2>3, <2>4, <2>5, <1>3, SMTT(20)
<1> HIDE DEF k
<1>6. /\ k(2) \in 1..4 /\ k(3) \in 1..4 /\ k(4) \in 1..4 /\ k(5) \in 1..4 /\ k(6) \in 1..4
      /\ k(2) # k(3) /\ k(2) # k(4) /\ k(2) # k(5) /\ k(2) # k(6)
      /\ k(3) # k(4) /\ k(3) # k(5) /\ k(3) # k(6)
      /\ k(4) # k(5) /\ k(4) # k(6) /\ k(5) # k(6)
  BY <1>4, <1>5
<1> QED  BY <1>6

(* Every signal is reported and every message logged, unless the program   *)
(* ends for want of the log file, and ulog calls itself only so deep: for  *)
(* any signals, and however many calls and arrivals there are.             *)
THEOREM LogIsComplete == LogSpec => []LogComplete
<1>1. LogInv /\ OrderInv => LogComplete
  <2> SUFFICES ASSUME LogInv, OrderInv  PROVE  LogComplete
    OBVIOUS
  <2>1. LogTypeOK /\ StackInv
    BY DEF LogInv
  <2>2. CallsBounded
    BY <2>1, StackIsSmall DEF CallsBounded
  <2>3. DroppedAtEnd
    <3>1. dropped \in BOOLEAN /\ ended \in BOOLEAN
      BY <2>1 DEF LogTypeOK
    <3>2. dropped = TRUE =>
            ended = TRUE \/ \E i \in 1..Len(calls) : calls[i].at \in Ending
      BY <2>1 DEF StackInv, FailInv
    <3> QED  BY <3>1, <3>2 DEF DroppedAtEnd, Ending
  <2>4. SignalReported
    <3> SUFFICES ASSUME Idle, NEW s \in unreported
                 PROVE  s \in afLog_signal
      BY DEF SignalReported
    <3>1. calls = <<>> /\ ended # TRUE
      BY DEF Idle
    <3>2. ~\E i \in 1..Len(calls) : calls[i].about = s
      BY <3>1
    <3>3. ~Failed("log")
      <4>1. ~\E i \in 1..Len(calls) : calls[i].at \in Ending  BY <3>1
      <4> QED  BY <4>1, <3>1, <2>1 DEF StackInv, FailInv
    <3> QED  BY <3>2, <3>3, <2>1 DEF StackInv, ReportInv
  <2>5. ReportedFirst
    <3> SUFFICES ASSUME fdoing_sigs # TRUE, NEW s \in early
                 PROVE  logFile["log"].tried /\ ~logFile["log"].open
      BY DEF ReportedFirst
    <3> QED  BY EarlyReported DEF Failed
  <2> QED  BY <2>2, <2>3, <2>4, <2>5 DEF LogComplete
<1> QED  BY <1>1, LogInvariant, OrderInvariant, PTL
-----------------------------------------------------------------------------
(* Time strings: the invariant *)

(* The time t is one of the span p, and the list s has it with value v.    *)
Has(p, t) == p.from <= t /\ t < p.to
Covers(s, t, v) == \E i \in 1..Len(s) : Has(s[i], t) /\ s[i].val = v

(* The list is sorted, and its spans have some time in them.               *)
InOrder(s) ==
  /\ \A i \in 1..Len(s) : s[i].from < s[i].to
  /\ \A i, j \in 1..Len(s) : i < j => s[i].to <= s[j].from

(* The loop invariant of itadd_span: what is added begins after the spans  *)
(* that have been passed.                                                  *)
AddInv ==
  spanAt > 0 => /\ adding.from < adding.to
                /\ \A i \in 1..spanAt - 1 : spans[i].to <= adding.from

(* Every span that is still to be added has some time in it.               *)
ToAddInv == \A p \in toAdd : p.from < p.to

(* The list, what is added to it or what is still to be added has the time *)
(* t with the value v.                                                     *)
Adds(t, v) == spanAt > 0 /\ Has(adding, t) /\ adding.val = v
Left(t, v) == \E p \in toAdd : Has(p, t) /\ p.val = v
Shows(t, v) == Covers(spans, t, v) \/ Adds(t, v) \/ Left(t, v)

(* The best value of a time is shown, and none that is shown is better.    *)
BestInv ==
  \A t \in Week, v \in Values :
    /\ Shows(t, v) => best[t] # 0 /\ best[t] <= v
    /\ best[t] = v => Shows(t, v)

SpanInv == SpanTypeOK /\ InOrder(spans) /\ AddInv /\ ToAddInv /\ BestInv

-----------------------------------------------------------------------------
(* Lists of spans *)

(* A span keeps its type and the other fields when its end is set.         *)
LEMMA EndSet ==
  ASSUME NEW p \in Span, NEW n \in Nat
  PROVE  /\ [p EXCEPT !.to = n] \in Span
         /\ [p EXCEPT !.to = n].from = p.from
         /\ [p EXCEPT !.to = n].to = n
         /\ [p EXCEPT !.to = n].val = p.val
  BY DEF Span

(* The same for its beginning.                                             *)
LEMMA BeginSet ==
  ASSUME NEW p \in Span, NEW n \in Nat
  PROVE  /\ [p EXCEPT !.from = n] \in Span
         /\ [p EXCEPT !.from = n].from = n
         /\ [p EXCEPT !.from = n].to = p.to
         /\ [p EXCEPT !.from = n].val = p.val
  BY DEF Span

LEMMA SpanFields ==
  ASSUME NEW p \in Span
  PROVE  p.from \in Nat /\ p.to \in Nat /\ p.val \in Nat \ {0} /\ p.val \in Values
  BY SpanAssumption DEF SpanAssumption, Span

(* What InsertAt returns.                                                  *)
LEMMA Inserted ==
  ASSUME NEW S, NEW s \in Seq(S), NEW k \in 1..Len(s) + 1, NEW x \in S
  PROVE  /\ InsertAt(s, k, x) \in Seq(S)
         /\ Len(InsertAt(s, k, x)) = Len(s) + 1
         /\ \A j \in 1..k - 1 : InsertAt(s, k, x)[j] = s[j]
         /\ InsertAt(s, k, x)[k] = x
         /\ \A j \in k + 1..Len(s) + 1 : InsertAt(s, k, x)[j] = s[j - 1]
<1> DEFINE a == SubSeq(s, 1, k - 1)
           b == SubSeq(s, k, Len(s))
           ax == a \o <<x>>
<1>1. a \in Seq(S) /\ Len(a) = k - 1 /\ \A j \in 1..k - 1 : a[j] = s[j]
  OBVIOUS
<1>2. /\ b \in Seq(S) /\ Len(b) = Len(s) - k + 1
      /\ \A j \in 1..Len(s) - k + 1 : b[j] = s[j + k - 1]
  OBVIOUS
<1>3. InsertAt(s, k, x) = ax \o b
  BY DEF InsertAt
<1> HIDE DEF a, b
<1>4. ax \in Seq(S) /\ Len(ax) = k /\ \A j \in 1..k - 1 : ax[j] = s[j]
  <2>1. ax \in Seq(S) /\ Len(ax) = k  BY <1>1
  <2>2. \A j \in 1..k - 1 : ax[j] = a[j]  BY <1>1
  <2> QED  BY <2>1, <2>2, <1>1
<1>5. ax[k] = x
  BY <1>1
<1> HIDE DEF ax
<1>6. ax \o b \in Seq(S) /\ Len(ax \o b) = Len(s) + 1
  <2>1. ax \o b \in Seq(S) /\ Len(ax \o b) = Len(ax) + Len(b)
    BY <1>2, <1>4, ConcatProperties
  <2> QED  BY <1>2, <1>4, <2>1
<1>7. \A j \in 1..k : (ax \o b)[j] = ax[j]
  BY <1>2, <1>4
<1>8. \A j \in k + 1..Len(s) + 1 : (ax \o b)[j] = b[j - k]
  BY <1>2, <1>4
<1>9. ASSUME NEW j \in k + 1..Len(s) + 1
      PROVE  (ax \o b)[j] = s[j - 1]
  <2>1. j - k \in 1..Len(s) - k + 1 /\ (j - k) + k - 1 = j - 1
    OBVIOUS
  <2> QED  BY <1>2, <1>8, <2>1
<1>10. \A j \in 1..k - 1 : (ax \o b)[j] = s[j]
  BY <1>4, <1>7
<1>11. (ax \o b)[k] = x
  <2>1. k \in 1..k
    OBVIOUS
  <2> QED  BY <1>5, <1>7, <2>1
<1> QED  BY <1>3, <1>6, <1>9, <1>10, <1>11

(* A span that is put in its place between two others keeps the order, and *)
(* what the list shows is what it showed and the new span.                 *)
LEMMA InsertKeeps ==
  ASSUME NEW s \in Seq(Span), InOrder(s), NEW k \in 1..Len(s) + 1, NEW x \in Span,
         x.from < x.to,
         \A i \in 1..k - 1 : s[i].to <= x.from,
         \A i \in k..Len(s) : x.to <= s[i].from
  PROVE  /\ InsertAt(s, k, x) \in Seq(Span)
         /\ Len(InsertAt(s, k, x)) = Len(s) + 1
         /\ InOrder(InsertAt(s, k, x))
         /\ \A t \in Week, v \in Values :
              Covers(InsertAt(s, k, x), t, v) <=> Covers(s, t, v) \/ (Has(x, t) /\ x.val = v)
         /\ \A j \in 1..k - 1 : InsertAt(s, k, x)[j] = s[j]
         /\ InsertAt(s, k, x)[k] = x
         /\ \A j \in k + 1..Len(s) + 1 : InsertAt(s, k, x)[j] = s[j - 1]
<1> DEFINE r == InsertAt(s, k, x)
<1> HIDE DEF r
<1>1. /\ r \in Seq(Span) /\ Len(r) = Len(s) + 1
      /\ \A j \in 1..k - 1 : r[j] = s[j]
      /\ r[k] = x
      /\ \A j \in k + 1..Len(s) + 1 : r[j] = s[j - 1]
  <2>1. PICK q : q = InsertAt(s, k, x)
    OBVIOUS
  <2>2. q \in Seq(Span) /\ Len(q) = Len(s) + 1 /\ q[k] = x
    BY <2>1, Inserted
  <2>3. \A j \in 1..k - 1 : q[j] = s[j]
    <3>1. \A j \in 1..k - 1 : InsertAt(s, k, x)[j] = s[j]
      BY Inserted
    <3> QED  BY <2>1, <3>1
  <2>4. \A j \in k + 1..Len(s) + 1 : q[j] = s[j - 1]
    <3>1. \A j \in k + 1..Len(s) + 1 : InsertAt(s, k, x)[j] = s[j - 1]
      BY Inserted
    <3> QED  BY <2>1, <3>1
  <2>5. r = q
    BY <2>1 DEF r
  <2> QED  BY <2>2, <2>3, <2>4, <2>5
<1>2. \A j \in 1..Len(s) : s[j] \in Span
  OBVIOUS
<1>3. \A j \in 1..Len(s) : s[j].from \in Nat /\ s[j].to \in Nat
  BY <1>2, SpanFields
<1>4. x.from \in Nat /\ x.to \in Nat
  BY SpanFields
<1>5. ASSUME NEW j \in 1..Len(r)
      PROVE  r[j].from < r[j].to
  <2>1. CASE j < k
    <3>1. r[j] = s[j] /\ j \in 1..Len(s)
      BY <1>1, <2>1
    <3> QED  BY <3>1 DEF InOrder
  <2>2. CASE j = k
    BY <1>1, <2>2
  <2>3. CASE j > k
    <3>1. j \in k + 1..Len(s) + 1 /\ j - 1 \in 1..Len(s)
      BY <1>1, <2>3
    <3>2. r[j] = s[j - 1]
      BY <1>1, <3>1
    <3> QED  BY <3>1, <3>2 DEF InOrder
  <2> QED  BY <2>1, <2>2, <2>3
<1>6. ASSUME NEW i \in 1..Len(r), NEW j \in 1..Len(r), i < j
      PROVE  r[i].to <= r[j].from
  <2>1. CASE j < k
    <3>1. r[i] = s[i] /\ r[j] = s[j] /\ i \in 1..Len(s) /\ j \in 1..Len(s)
      BY <1>1, <1>6, <2>1
    <3> QED  BY <3>1, <1>6 DEF InOrder
  <2>2. CASE j = k
    <3>1. r[i] = s[i] /\ r[j] = x /\ i \in 1..k - 1
      BY <1>1, <1>6, <2>2
    <3> QED  BY <3>1
  <2>3. CASE j > k /\ i < k
    <3>1. /\ r[i] = s[i] /\ r[j] = s[j - 1]
          /\ i \in 1..Len(s) /\ j - 1 \in 1..Len(s) /\ i < j - 1
      BY <1>1, <1>6, <2>3
    <3> QED  BY <3>1 DEF InOrder
  <2>4. CASE j > k /\ i = k
    <3>1. j \in k + 1..Len(s) + 1 /\ j - 1 \in k..Len(s)
      BY <1>1, <2>4
    <3>2. r[i] = x /\ r[j] = s[j - 1]
      BY <1>1, <2>4, <3>1
    <3> QED  BY <3>1, <3>2
  <2>5. CASE j > k /\ i > k
    <3>1. /\ r[i] = s[i - 1] /\ r[j] = s[j - 1]
          /\ i - 1 \in 1..Len(s) /\ j - 1 \in 1..Len(s) /\ i - 1 < j - 1
      BY <1>1, <1>6, <2>5
    <3> QED  BY <3>1 DEF InOrder
  <2> QED  BY <2>1, <2>2, <2>3, <2>4, <2>5
<1>7. ASSUME NEW t \in Week, NEW v \in Values, Covers(r, t, v)
      PROVE  Covers(s, t, v) \/ (Has(x, t) /\ x.val = v)
  <2>1. PICK i \in 1..Len(r) : Has(r[i], t) /\ r[i].val = v
    BY <1>7 DEF Covers
  <2>2. CASE i < k
    BY <1>1, <2>1, <2>2 DEF Covers
  <2>3. CASE i = k
    BY <1>1, <2>1, <2>3
  <2>4. CASE i > k
    <3>1. i - 1 \in 1..Len(s) /\ r[i] = s[i - 1]
      BY <1>1, <2>4
    <3> QED  BY <2>1, <3>1 DEF Covers
  <2> QED  BY <2>2, <2>3, <2>4
<1>8. ASSUME NEW t \in Week, NEW v \in Values, Covers(s, t, v)
      PROVE  Covers(r, t, v)
  <2>1. PICK i \in 1..Len(s) : Has(s[i], t) /\ s[i].val = v
    BY <1>8 DEF Covers
  <2>2. CASE i < k
    <3>1. i \in 1..Len(r) /\ r[i] = s[i]
      BY <1>1, <2>2
    <3> QED  BY <2>1, <3>1 DEF Covers
  <2>3. CASE i >= k
    <3>1. PICK j \in k + 1..Len(s) + 1 : j = i + 1
      BY <2>3
    <3>2. j \in 1..Len(r) /\ j - 1 = i
      BY <1>1, <3>1
    <3>3. r[j] = s[i]
      BY <1>1, <3>1, <3>2
    <3> QED  BY <2>1, <3>2, <3>3 DEF Covers
  <2> QED  BY <2>2, <2>3
<1>9. ASSUME NEW t \in Week, NEW v \in Values, Has(x, t), x.val = v
      PROVE  Covers(r, t, v)
  <2>1. k \in 1..Len(r)
    BY <1>1
  <2> QED  BY <1>1, <1>9, <2>1 DEF Covers
<1>10. InOrder(r)
  BY <1>5, <1>6 DEF InOrder
<1>11. \A t \in Week, v \in Values :
         Covers(r, t, v) <=> Covers(s, t, v) \/ (Has(x, t) /\ x.val = v)
  BY <1>7, <1>8, <1>9
<1> QED  BY <1>1, <1>10, <1>11 DEF r

(* The same for a span that takes the place of another.                    *)
LEMMA SetKeeps ==
  ASSUME NEW s \in Seq(Span), InOrder(s), NEW k \in 1..Len(s), NEW x \in Span,
         x.from < x.to,
         \A i \in 1..k - 1 : s[i].to <= x.from,
         \A i \in k + 1..Len(s) : x.to <= s[i].from
  PROVE  /\ [s EXCEPT ![k] = x] \in Seq(Span)
         /\ Len([s EXCEPT ![k] = x]) = Len(s)
         /\ InOrder([s EXCEPT ![k] = x])
         /\ \A t \in Week, v \in Values :
              /\ Covers([s EXCEPT ![k] = x], t, v) =>
                   Covers(s, t, v) \/ (Has(x, t) /\ x.val = v)
              /\ Has(x, t) /\ x.val = v => Covers([s EXCEPT ![k] = x], t, v)
              /\ Covers(s, t, v) =>
                   Covers([s EXCEPT ![k] = x], t, v) \/ (Has(s[k], t) /\ s[k].val = v)
         /\ [s EXCEPT ![k] = x][k] = x
         /\ \A j \in 1..Len(s) : j # k => [s EXCEPT ![k] = x][j] = s[j]
<1> DEFINE r == [s EXCEPT ![k] = x]
<1>1. r \in Seq(Span) /\ Len(r) = Len(s)
  OBVIOUS
<1>2. r[k] = x /\ \A j \in 1..Len(s) : j # k => r[j] = s[j]
  OBVIOUS
<1> HIDE DEF r
<1>3. \A j \in 1..Len(s) : s[j].from \in Nat /\ s[j].to \in Nat
  BY SpanFields
<1>4. x.from \in Nat /\ x.to \in Nat
  BY SpanFields
<1>5. \A j \in 1..Len(r) : r[j].from < r[j].to
  BY <1>1, <1>2 DEF InOrder
<1>6. ASSUME NEW i \in 1..Len(r), NEW j \in 1..Len(r), i < j
      PROVE  r[i].to <= r[j].from
  <2>1. CASE j = k
    <3>1. r[i] = s[i] /\ r[j] = x /\ i \in 1..k - 1
      BY <1>1, <1>2, <1>6, <2>1
    <3> QED  BY <3>1
  <2>2. CASE i = k
    <3>1. r[i] = x /\ r[j] = s[j] /\ j \in k + 1..Len(s)
      BY <1>1, <1>2, <1>6, <2>2
    <3> QED  BY <3>1
  <2>3. CASE i # k /\ j # k
    <3>1. r[i] = s[i] /\ r[j] = s[j] /\ i \in 1..Len(s) /\ j \in 1..Len(s)
      BY <1>1, <1>2, <2>3
    <3> QED  BY <1>6, <3>1 DEF InOrder
  <2> QED  BY <2>1, <2>2, <2>3
<1>7. InOrder(r)
  BY <1>5, <1>6 DEF InOrder
<1>8. ASSUME NEW t \in Week, NEW v \in Values, Covers(r, t, v)
      PROVE  Covers(s, t, v) \/ (Has(x, t) /\ x.val = v)
  <2>1. PICK i \in 1..Len(r) : Has(r[i], t) /\ r[i].val = v
    BY <1>8 DEF Covers
  <2> QED  BY <1>1, <1>2, <2>1 DEF Covers
<1>9. ASSUME NEW t \in Week, NEW v \in Values, Has(x, t), x.val = v
      PROVE  Covers(r, t, v)
  BY <1>1, <1>2, <1>9 DEF Covers
<1>10. ASSUME NEW t \in Week, NEW v \in Values, Covers(s, t, v)
       PROVE  Covers(r, t, v) \/ (Has(s[k], t) /\ s[k].val = v)
  <2>1. PICK i \in 1..Len(s) : Has(s[i], t) /\ s[i].val = v
    BY <1>10 DEF Covers
  <2> QED  BY <1>1, <1>2, <2>1 DEF Covers
<1>11. \A t \in Week, v \in Values :
         /\ Covers(r, t, v) => Covers(s, t, v) \/ (Has(x, t) /\ x.val = v)
         /\ Has(x, t) /\ x.val = v => Covers(r, t, v)
         /\ Covers(s, t, v) => Covers(r, t, v) \/ (Has(s[k], t) /\ s[k].val = v)
  BY <1>8, <1>9, <1>10
<1> QED  BY <1>1, <1>2, <1>7, <1>11 DEF r

(* Grow: the span that is added and the list together show what they did.  *)
LEMMA GrowKeeps ==
  ASSUME NEW s \in Seq(Span), InOrder(s), NEW i \in 1..Len(s), adding \in Span,
         s[i].val = adding.val,
         s[i].from <= adding.from, adding.from <= s[i].to, s[i].to <= adding.to,
         adding.from < adding.to,
         Grow(s, i)
  PROVE  /\ spans' \in Seq(Span) /\ InOrder(spans')
         /\ spanAt' \in 0..Len(spans') + 1
         /\ adding' \in Span
         /\ AddInv'
         /\ \A t \in Week, v \in Values :
              /\ Covers(s, t, v) => Covers(spans', t, v)
              /\ Has(adding, t) /\ adding.val = v => Covers(spans', t, v) \/ Adds(t, v)'
              /\ Covers(spans', t, v) \/ Adds(t, v)' =>
                   Covers(s, t, v) \/ (Has(adding, t) /\ adding.val = v)
<1>1. /\ adding.from \in Nat /\ adding.to \in Nat
      /\ \A j \in 1..Len(s) : s[j] \in Span /\ s[j].from \in Nat /\ s[j].to \in Nat
  BY SpanFields
<1>2. CASE FitsBefore(s, i)
  <2> DEFINE x == [s[i] EXCEPT !.to = adding.to]
  <2>1. x \in Span /\ x.from = s[i].from /\ x.to = adding.to /\ x.val = s[i].val
    BY <1>1, EndSet
  <2>2. spans' = [s EXCEPT ![i] = x] /\ spanAt' = 0 /\ adding' = adding
    BY <1>2 DEF Grow, Added
  <2> HIDE DEF x
  <2>3. x.from < x.to
    BY <1>1, <2>1
  <2>4. \A j \in 1..i - 1 : s[j].to <= x.from
    BY <2>1 DEF InOrder
  <2>5. ASSUME NEW j \in i + 1..Len(s)
        PROVE  x.to <= s[j].from
    <3>1. i + 1 \in 1..Len(s) /\ adding.to <= s[i + 1].from
      BY <1>2, <2>5 DEF FitsBefore
    <3>2. CASE j = i + 1
      BY <2>1, <3>1, <3>2
    <3>3. CASE j # i + 1
      <4>1. j \in 1..Len(s) /\ i + 1 < j
        BY <3>3
      <4>2. s[i + 1].from < s[i + 1].to /\ s[i + 1].to <= s[j].from
        BY <3>1, <4>1 DEF InOrder
      <4> QED  BY <1>1, <2>1, <3>1, <4>1, <4>2
    <3> QED  BY <3>2, <3>3
  <2>6. /\ spans' \in Seq(Span) /\ InOrder(spans') /\ Len(spans') = Len(s)
        /\ \A t \in Week, v \in Values :
             /\ Covers(spans', t, v) => Covers(s, t, v) \/ (Has(x, t) /\ x.val = v)
             /\ Has(x, t) /\ x.val = v => Covers(spans', t, v)
             /\ Covers(s, t, v) => Covers(spans', t, v) \/ (Has(s[i], t) /\ s[i].val = v)
    BY <2>1, <2>2, <2>3, <2>4, <2>5, SetKeeps, ZenonT(60)
  <2>7. ASSUME NEW t \in Week
        PROVE  /\ Has(s[i], t) => Has(x, t)
               /\ Has(adding, t) => Has(x, t)
               /\ Has(x, t) => Has(s[i], t) \/ Has(adding, t)
    <3>1. t \in Int
      BY DEF Week
    <3> QED  BY <1>1, <2>1, <3>1 DEF Has
  <2>8. ASSUME NEW t \in Week, NEW v \in Values
        PROVE  ~ Adds(t, v)'
    BY <2>2 DEF Adds
  <2>9. ASSUME NEW t \in Week, NEW v \in Values, Has(s[i], t), s[i].val = v
        PROVE  Covers(s, t, v)
    BY <2>9 DEF Covers
  <2>10. ASSUME NEW t \in Week, NEW v \in Values
         PROVE  /\ Covers(s, t, v) => Covers(spans', t, v)
                /\ Has(adding, t) /\ adding.val = v => Covers(spans', t, v)
                /\ Covers(spans', t, v) =>
                     Covers(s, t, v) \/ (Has(adding, t) /\ adding.val = v)
    BY <2>1, <2>6, <2>7, <2>9
  <2>11. AddInv'
    BY <2>2 DEF AddInv
  <2>12. spanAt' \in 0..Len(spans') + 1
    BY <2>2, <2>6
  <2> QED  BY <2>2, <2>6, <2>8, <2>10, <2>11, <2>12
<1>3. CASE ~ FitsBefore(s, i)
  <2>1. i + 1 \in 1..Len(s) /\ s[i + 1].from < adding.to
    BY <1>1, <1>3 DEF FitsBefore
  <2> DEFINE n == s[i + 1].from
             x == [s[i] EXCEPT !.to = n]
  <2>2. n \in Nat /\ n < adding.to
    BY <1>1, <2>1
  <2>3. s[i].to <= n
    BY <2>1 DEF InOrder
  <2>4. x \in Span /\ x.from = s[i].from /\ x.to = n /\ x.val = s[i].val
    BY <1>1, <2>2, EndSet
  <2>5. spans' = [s EXCEPT ![i] = x] /\ spanAt' = i + 1
    BY <1>3 DEF Grow
  <2>6. adding' = [adding EXCEPT !.from = n]
    BY <1>3 DEF Grow
  <2>7. /\ adding' \in Span /\ adding'.from = n /\ adding'.to = adding.to
        /\ adding'.val = adding.val
    BY <2>2, <2>6, BeginSet
  <2> HIDE DEF x
  <2>8. x.from < x.to
    <3>1. s[i].from < s[i].to
      BY DEF InOrder
    <3> QED  BY <1>1, <2>2, <2>3, <2>4, <3>1
  <2>9. \A j \in 1..i - 1 : s[j].to <= x.from
    BY <2>4 DEF InOrder
  <2>10. ASSUME NEW j \in i + 1..Len(s)
         PROVE  x.to <= s[j].from
    <3>1. CASE j = i + 1
      BY <1>1, <2>1, <2>4, <3>1
    <3>2. CASE j # i + 1
      <4>1. j \in 1..Len(s) /\ i + 1 < j
        BY <3>2
      <4>2. s[i + 1].from < s[i + 1].to /\ s[i + 1].to <= s[j].from
        BY <2>1, <4>1 DEF InOrder
      <4> QED  BY <1>1, <2>1, <2>4, <4>1, <4>2
    <3> QED  BY <3>1, <3>2
  <2> DEFINE r == [s EXCEPT ![i] = x]
  <2>18. /\ r \in Seq(Span) /\ InOrder(r) /\ Len(r) = Len(s)
         /\ \A t \in Week, v \in Values :
              /\ Covers(r, t, v) => Covers(s, t, v) \/ (Has(x, t) /\ x.val = v)
              /\ Has(x, t) /\ x.val = v => Covers(r, t, v)
              /\ Covers(s, t, v) => Covers(r, t, v) \/ (Has(s[i], t) /\ s[i].val = v)
    BY <2>4, <2>8, <2>9, <2>10, SetKeeps
  <2>19. r[i] = x /\ \A j \in 1..Len(s) : j # i => r[j] = s[j]
    OBVIOUS
  <2> HIDE DEF r
  <2>11. /\ spans' \in Seq(Span) /\ InOrder(spans') /\ Len(spans') = Len(s)
         /\ \A t \in Week, v \in Values :
              /\ Covers(spans', t, v) => Covers(s, t, v) \/ (Has(x, t) /\ x.val = v)
              /\ Has(x, t) /\ x.val = v => Covers(spans', t, v)
              /\ Covers(s, t, v) => Covers(spans', t, v) \/ (Has(s[i], t) /\ s[i].val = v)
         /\ spans'[i] = x
         /\ \A j \in 1..Len(s) : j # i => spans'[j] = s[j]
    BY <2>5, <2>18, <2>19 DEF r
  <2> HIDE DEF n
  <2>12. ASSUME NEW t \in Week
         PROVE  /\ Has(s[i], t) => Has(x, t)
                /\ Has(adding, t) => Has(x, t) \/ Has(adding', t)
                /\ Has(x, t) => Has(s[i], t) \/ Has(adding, t)
                /\ Has(adding', t) => Has(adding, t)
    <3>1. t \in Int
      BY DEF Week
    <3> QED  BY <1>1, <2>2, <2>3, <2>4, <2>7, <3>1 DEF Has
  <2>13. ASSUME NEW t \in Week, NEW v \in Values
         PROVE  Adds(t, v)' <=> Has(adding', t) /\ adding.val = v
    BY <2>5, <2>7 DEF Adds
  <2>14. ASSUME NEW t \in Week, NEW v \in Values, Has(s[i], t), s[i].val = v
         PROVE  Covers(s, t, v)
    BY <2>14 DEF Covers
  <2>15. ASSUME NEW t \in Week, NEW v \in Values
         PROVE  /\ Covers(s, t, v) => Covers(spans', t, v)
                /\ Has(adding, t) /\ adding.val = v => Covers(spans', t, v) \/ Adds(t, v)'
                /\ Covers(spans', t, v) \/ Adds(t, v)' =>
                     Covers(s, t, v) \/ (Has(adding, t) /\ adding.val = v)
    BY <2>4, <2>11, <2>12, <2>13, <2>14
  <2>16. AddInv'
    <3>1. adding'.from < adding'.to
      BY <2>2, <2>7
    <3>2. ASSUME NEW j \in 1..i
          PROVE  spans'[j].to <= adding'.from
      <4>1. CASE j = i
        BY <2>2, <2>4, <2>7, <2>11, <4>1
      <4>2. CASE j # i
        <5>1. spans'[j] = s[j] /\ s[j].to <= s[i].from /\ s[i].from < s[i].to
          BY <2>11, <4>2 DEF InOrder
        <5>2. s[j].to \in Int /\ s[i].from \in Int /\ s[i].to \in Int
          BY <1>1, SpanFields
        <5>3. s[i].to <= adding'.from /\ adding'.from \in Int
          BY <2>2, <2>3, <2>7
        <5> QED  BY <5>1, <5>2, <5>3
      <4> QED  BY <4>1, <4>2
    <3>3. (i + 1) - 1 = i
      OBVIOUS
    <3> QED  BY <2>5, <3>1, <3>2, <3>3 DEF AddInv
  <2>17. spanAt' \in 0..Len(spans') + 1
    BY <2>5, <2>11
  <2> QED  BY <2>7, <2>11, <2>15, <2>16, <2>17
<1> QED  BY <1>2, <1>3

-----------------------------------------------------------------------------
(* Steps of itadd_span *)

(* If a step shows nothing new, and for what it no longer shows something  *)
(* as good, the best values stay right.                                    *)
LEMMA BestKept ==
  ASSUME SpanTypeOK, BestInv, best' = best,
         \A t \in Week, v \in Values : Shows(t, v)' => Shows(t, v),
         \A t \in Week, v \in Values :
           Shows(t, v) => \E w \in Values : w <= v /\ Shows(t, w)'
  PROVE  BestInv'
<1> SUFFICES ASSUME NEW t \in Week, NEW v \in Values
             PROVE  /\ Shows(t, v)' => best[t] # 0 /\ best[t] <= v
                    /\ best[t] = v => Shows(t, v)'
  BY DEF BestInv
<1>1. Shows(t, v)' => best[t] # 0 /\ best[t] <= v
  BY DEF BestInv
<1>2. ASSUME best[t] = v
      PROVE  Shows(t, v)'
  <2>1. Shows(t, v)
    BY <1>2 DEF BestInv
  <2>2. PICK w \in Values : w <= v /\ Shows(t, w)'
    BY <2>1
  <2>3. best[t] <= w
    BY <2>2 DEF BestInv
  <2>4. w = v
    BY <1>2, <2>2, <2>3, SpanAssumption DEF SpanAssumption
  <2> QED  BY <2>2, <2>4
<1> QED  BY <1>1, <1>2

(* A step of itadd_span keeps the invariant if the list and what is added  *)
(* to it stay in order and together show as much as before.                *)
LEMMA AddStep ==
  ASSUME SpanInv, UNCHANGED <<toAdd, parsed, best>>,
         spans' \in Seq(Span), InOrder(spans'), spanAt' \in 0..Len(spans') + 1,
         adding' \in Span, AddInv',
         \A t \in Week, v \in Values :
           Covers(spans', t, v) \/ Adds(t, v)' => Covers(spans, t, v) \/ Adds(t, v),
         \A t \in Week, v \in Values :
           Covers(spans, t, v) \/ Adds(t, v) =>
             \E w \in Values : w <= v /\ (Covers(spans', t, w) \/ Adds(t, w)')
  PROVE  SpanInv'
<1>1. SpanTypeOK' /\ ToAddInv'
  BY DEF SpanInv, SpanTypeOK, ToAddInv
<1>2. \A t \in Week, v \in Values : Left(t, v)' <=> Left(t, v)
  BY DEF Left
<1>3. \A t \in Week, v \in Values : Shows(t, v)' => Shows(t, v)
  BY <1>2 DEF Shows
<1>4. ASSUME NEW t \in Week, NEW v \in Values, Shows(t, v)
      PROVE  \E w \in Values : w <= v /\ Shows(t, w)'
  <2>1. CASE Left(t, v)
    <3>1. v <= v
      BY SpanAssumption DEF SpanAssumption
    <3> QED  BY <1>2, <2>1, <3>1 DEF Shows
  <2>2. CASE Covers(spans, t, v) \/ Adds(t, v)
    <3>1. PICK w \in Values : w <= v /\ (Covers(spans', t, w) \/ Adds(t, w)')
      BY <2>2
    <3> QED  BY <3>1 DEF Shows
  <2> QED  BY <1>4, <2>1, <2>2 DEF Shows
<1>5. BestInv'
  BY <1>3, <1>4, BestKept DEF SpanInv
<1> QED  BY <1>1, <1>5 DEF SpanInv

(* What the steps of itadd_span know of the span that is added.            *)
LEMMA AddingTypes ==
  ASSUME SpanInv, spanAt > 0
  PROVE  /\ adding \in Span /\ adding.from \in Nat /\ adding.to \in Nat
         /\ adding.val \in Nat /\ adding.val \in Values /\ adding.from < adding.to
         /\ spans \in Seq(Span) /\ InOrder(spans)
         /\ spanAt \in 1..Len(spans) + 1
         /\ \A i \in 1..spanAt - 1 : spans[i].to <= adding.from
         /\ \A i \in 1..Len(spans) : /\ spans[i] \in Span
                                     /\ spans[i].from \in Nat /\ spans[i].to \in Nat
                                     /\ spans[i].val \in Nat /\ spans[i].val \in Values
                                     /\ spans[i].from < spans[i].to
         /\ \A v \in Values : v \in Nat /\ v <= v
         /\ \A t \in Week, v \in Values : Adds(t, v) <=> Has(adding, t) /\ adding.val = v
         /\ \A t \in Week : t \in Int
<1>1. adding \in Span /\ spans \in Seq(Span) /\ spanAt \in 1..Len(spans) + 1
  BY DEF SpanInv, SpanTypeOK
<1>2. /\ InOrder(spans) /\ adding.from < adding.to
      /\ \A i \in 1..spanAt - 1 : spans[i].to <= adding.from
  BY DEF SpanInv, AddInv
<1>3. adding.from \in Nat /\ adding.to \in Nat /\ adding.val \in Nat /\ adding.val \in Values
  BY <1>1, SpanFields
<1>4. \A i \in 1..Len(spans) : /\ spans[i] \in Span
                               /\ spans[i].from \in Nat /\ spans[i].to \in Nat
                               /\ spans[i].val \in Nat /\ spans[i].val \in Values
  BY <1>1, SpanFields
<1>5. \A i \in 1..Len(spans) : spans[i].from < spans[i].to
  BY <1>2 DEF InOrder
<1>6. \A v \in Values : v \in Nat /\ v <= v
  BY SpanAssumption DEF SpanAssumption
<1>7. \A t \in Week, v \in Values : Adds(t, v) <=> Has(adding, t) /\ adding.val = v
  BY DEF Adds
<1>8. \A t \in Week : t \in Int
  BY DEF Week
<1> QED  BY <1>1, <1>2, <1>3, <1>4, <1>5, <1>6, <1>7, <1>8

(* The spans after one that ends before a later time begin after it.       *)
LEMMA LaterSpans ==
  ASSUME SpanInv, NEW k \in 1..Len(spans), NEW n \in Nat, n <= spans[k].to
  PROVE  \A i \in k + 1..Len(spans) : n <= spans[i].from
<1> SUFFICES ASSUME NEW i \in k + 1..Len(spans)
             PROVE  n <= spans[i].from
  OBVIOUS
<1>1. spans \in Seq(Span)
  BY DEF SpanInv, SpanTypeOK
<1>2. i \in 1..Len(spans) /\ k < i
  OBVIOUS
<1>3. spans[k].to <= spans[i].from
  BY <1>2 DEF SpanInv, InOrder
<1>4. spans[k].to \in Nat /\ spans[i].from \in Nat
  BY <1>1, <1>2, SpanFields
<1> QED  BY <1>3, <1>4

LEMMA PutBeforeStep ==
  ASSUME SpanInv, PutBefore
  PROVE  SpanInv'
<1>1. spanAt > 0 /\ UNCHANGED <<toAdd, parsed, best, adding>> /\ spanAt' = 0
  BY DEF PutBefore, Added
<1> DEFINE k == spanAt
<1>2. k <= Len(spans) => adding.to <= spans[k].from
  BY DEF PutBefore
<1>3. AddInv' /\ \A t \in Week, v \in Values : ~ Adds(t, v)'
  BY <1>1 DEF AddInv, Adds
<1>4. CASE k <= Len(spans) /\ adding.to = spans[k].from /\ Same(spans[k])
  <2> DEFINE x == [spans[k] EXCEPT !.from = adding.from]
  <2>1. k \in 1..Len(spans)
    BY <1>1, <1>4, AddingTypes
  <2>2. x \in Span /\ x.from = adding.from /\ x.to = spans[k].to /\ x.val = adding.val
    BY <1>1, <1>4, <2>1, AddingTypes, BeginSet DEF Same
  <2>3. spans' = [spans EXCEPT ![k] = x]
    BY <1>4 DEF PutBefore
  <2> HIDE DEF x
  <2>4. x.from < x.to
    BY <1>1, <1>4, <2>1, <2>2, AddingTypes
  <2>5. \A i \in k + 1..Len(spans) : x.to <= spans[i].from
    BY <1>1, <2>1, <2>2, AddingTypes, LaterSpans
  <2>6. \A i \in 1..k - 1 : spans[i].to <= x.from
    BY <1>1, <2>2, AddingTypes
  <2>12. x \in Span /\ spans \in Seq(Span) /\ InOrder(spans)
    BY <1>1, <2>2, AddingTypes
  <2>7. /\ spans' \in Seq(Span) /\ InOrder(spans')
        /\ \A t \in Week, v \in Values :
             /\ Covers(spans', t, v) => Covers(spans, t, v) \/ (Has(x, t) /\ x.val = v)
             /\ Has(x, t) /\ x.val = v => Covers(spans', t, v)
             /\ Covers(spans, t, v) =>
                  Covers(spans', t, v) \/ (Has(spans[k], t) /\ spans[k].val = v)
    <3> DEFINE r == [spans EXCEPT ![k] = x]
    <3>1. r \in Seq(Span) /\ InOrder(r)
      BY <2>1, <2>4, <2>5, <2>6, <2>12, SetKeeps
    <3>2. \A t \in Week, v \in Values :
            /\ Covers(r, t, v) => Covers(spans, t, v) \/ (Has(x, t) /\ x.val = v)
            /\ Has(x, t) /\ x.val = v => Covers(r, t, v)
            /\ Covers(spans, t, v) =>
                 Covers(r, t, v) \/ (Has(spans[k], t) /\ spans[k].val = v)
      BY <2>1, <2>4, <2>5, <2>6, <2>12, SetKeeps
    <3>3. spans' = r
      BY <2>3
    <3> HIDE DEF r
    <3> QED  BY <3>1, <3>2, <3>3
  <2>8. ASSUME NEW t \in Week
        PROVE  Has(x, t) <=> Has(spans[k], t) \/ Has(adding, t)
    BY <1>1, <1>4, <2>1, <2>2, AddingTypes DEF Has
  <2>9. ASSUME NEW t \in Week, NEW v \in Values, Has(spans[k], t), spans[k].val = v
        PROVE  Covers(spans, t, v)
    BY <2>1, <2>9 DEF Covers
  <2>10. spans[k].val = adding.val
    BY <1>4 DEF Same
  <2>11. ASSUME NEW t \in Week, NEW v \in Values
         PROVE  Covers(spans', t, v) <=> Covers(spans, t, v) \/ Adds(t, v)
    BY <1>1, <2>2, <2>7, <2>8, <2>9, <2>10, AddingTypes
  <2> QED  BY <1>1, <1>3, <2>7, <2>11, AddingTypes, AddStep
<1>5. CASE ~ (k <= Len(spans) /\ adding.to = spans[k].from /\ Same(spans[k]))
  <2>1. spans' = InsertAt(spans, k, adding)
    BY <1>5 DEF PutBefore
  <2>2. ASSUME NEW i \in k..Len(spans)
        PROVE  adding.to <= spans[i].from
    <3>1. k \in 1..Len(spans) /\ adding.to <= spans[k].from
      BY <1>1, <1>2, AddingTypes
    <3>2. CASE i = k
      BY <3>1, <3>2
    <3>3. CASE i # k
      <4>1. i \in k + 1..Len(spans) /\ i \in 1..Len(spans)
        BY <1>1, <3>3, AddingTypes
      <4>2. spans[k].to <= spans[i].from
        BY <1>1, <3>1, <4>1, AddingTypes DEF InOrder
      <4> QED  BY <1>1, <3>1, <4>1, <4>2, AddingTypes
    <3> QED  BY <3>2, <3>3
  <2>3. /\ spans' \in Seq(Span) /\ InOrder(spans')
        /\ \A t \in Week, v \in Values :
             Covers(spans', t, v) <=> Covers(spans, t, v) \/ (Has(adding, t) /\ adding.val = v)
    BY <1>1, <2>1, <2>2, AddingTypes, InsertKeeps, SMTT(30)
  <2>4. ASSUME NEW t \in Week, NEW v \in Values
        PROVE  Covers(spans', t, v) <=> Covers(spans, t, v) \/ Adds(t, v)
    BY <1>1, <2>3, AddingTypes
  <2> QED  BY <1>1, <1>3, <2>3, <2>4, AddingTypes, AddStep
<1> QED  BY <1>4, <1>5

LEMMA PassOverStep ==
  ASSUME SpanInv, PassOver
  PROVE  SpanInv'
<1>1. spanAt > 0 /\ UNCHANGED <<toAdd, parsed, best>>
  BY DEF PassOver
<1> DEFINE k == spanAt
<1>2. k \in 1..Len(spans) /\ spans[k].to <= adding.from
  BY DEF PassOver
<1>3. CASE spans[k].to = adding.from /\ Same(spans[k]) /\ FitsBefore(spans, k)
  <2>1. Grow(spans, k)
    BY <1>3 DEF PassOver, Grow
  <2>2. spans[k].val = adding.val
    BY <1>3 DEF Same
  <2>3. /\ spans[k].from <= adding.from /\ adding.from <= spans[k].to
        /\ spans[k].to <= adding.to
    BY <1>1, <1>2, <1>3, AddingTypes
  <2>4. /\ spans' \in Seq(Span) /\ InOrder(spans')
        /\ spanAt' \in 0..Len(spans') + 1 /\ adding' \in Span /\ AddInv'
        /\ \A t \in Week, v \in Values :
             /\ Covers(spans, t, v) => Covers(spans', t, v)
             /\ Has(adding, t) /\ adding.val = v => Covers(spans', t, v) \/ Adds(t, v)'
             /\ Covers(spans', t, v) \/ Adds(t, v)' =>
                  Covers(spans, t, v) \/ (Has(adding, t) /\ adding.val = v)
    BY <1>1, <1>2, <2>1, <2>2, <2>3, AddingTypes, GrowKeeps
  <2>5. ASSUME NEW t \in Week, NEW v \in Values
        PROVE  Covers(spans', t, v) \/ Adds(t, v)' <=> Covers(spans, t, v) \/ Adds(t, v)
    BY <1>1, <2>4, AddingTypes
  <2> QED  BY <1>1, <2>4, <2>5, AddingTypes, AddStep
<1>4. CASE ~ (spans[k].to = adding.from /\ Same(spans[k]) /\ FitsBefore(spans, k))
  <2>1. spanAt' = k + 1 /\ spans' = spans /\ adding' = adding
    BY <1>4 DEF PassOver
  <2>2. ASSUME NEW i \in 1..k
        PROVE  spans[i].to <= adding.from
    <3>1. CASE i = k
      BY <1>2, <3>1
    <3>2. CASE i # k
      BY <1>1, <3>2, AddingTypes
    <3> QED  BY <3>1, <3>2
  <2>3. AddInv'
    <3>1. (k + 1) - 1 = k
      BY <1>2
    <3> QED  BY <1>1, <2>1, <2>2, <3>1, AddingTypes DEF AddInv
  <2>4. spanAt' \in 0..Len(spans') + 1
    BY <1>2, <2>1
  <2>5. spans' \in Seq(Span) /\ InOrder(spans') /\ adding' \in Span
    BY <1>1, <2>1, AddingTypes
  <2>6. ASSUME NEW t \in Week, NEW v \in Values
        PROVE  Covers(spans', t, v) \/ Adds(t, v)' <=> Covers(spans, t, v) \/ Adds(t, v)
    BY <1>1, <1>2, <2>1 DEF Adds
  <2> QED  BY <1>1, <2>3, <2>4, <2>5, <2>6, AddingTypes, AddStep
<1> QED  BY <1>3, <1>4

LEMMA ExtendStep ==
  ASSUME SpanInv, Extend
  PROVE  SpanInv'
<1> DEFINE k == spanAt
           n == SmallerOf(spans[k].from, adding.from)
           x == [spans[k] EXCEPT !.from = n]
           s == [spans EXCEPT ![k] = x]
<1>1. /\ spanAt > 0 /\ UNCHANGED <<toAdd, parsed, best>>
      /\ k \in 1..Len(spans)
      /\ spans[k].from < adding.to /\ adding.from < spans[k].to
      /\ adding.val = spans[k].val
  <2>1. /\ UNCHANGED <<toAdd, parsed, best>> /\ k \in 1..Len(spans)
        /\ adding.to > spans[k].from /\ spans[k].to > adding.from
        /\ adding.val = spans[k].val
    BY DEF Extend, Overlaps
  <2>2. spanAt > 0
    BY <2>1
  <2> QED  BY <2>1, <2>2, AddingTypes
<1>2. n \in Nat /\ n <= adding.from /\ n <= spans[k].from
        /\ (n = adding.from \/ n = spans[k].from)
  BY <1>1, AddingTypes DEF SmallerOf
<1> HIDE DEF n
<1>3. x \in Span /\ x.from = n /\ x.to = spans[k].to /\ x.val = adding.val
  BY <1>1, <1>2, AddingTypes, BeginSet
<1>4. IF s[k].to >= adding.to THEN spans' = s /\ Added ELSE Grow(s, k)
  BY DEF Extend, n
<1> HIDE DEF x
<1>5. x.from < x.to
  BY <1>1, <1>2, <1>3, AddingTypes
<1>6. \A i \in k + 1..Len(spans) : x.to <= spans[i].from
  <2>1. x.to \in Nat /\ x.to <= spans[k].to
    BY <1>1, <1>3, AddingTypes
  <2> QED  BY <1>1, <2>1, LaterSpans
<1>7. ASSUME NEW i \in 1..k - 1
      PROVE  spans[i].to <= x.from
  <2>1. i \in 1..Len(spans) /\ spans[i].to <= spans[k].from
    BY <1>1 DEF SpanInv, InOrder
  <2> QED  BY <1>1, <1>2, <1>3, <2>1, AddingTypes
<1>15. x \in Span /\ spans \in Seq(Span) /\ InOrder(spans)
  BY <1>1, <1>3, AddingTypes
<1>8. /\ s \in Seq(Span) /\ InOrder(s) /\ Len(s) = Len(spans)
      /\ \A t \in Week, v \in Values :
           /\ Covers(s, t, v) => Covers(spans, t, v) \/ (Has(x, t) /\ x.val = v)
           /\ Has(x, t) /\ x.val = v => Covers(s, t, v)
           /\ Covers(spans, t, v) =>
                Covers(s, t, v) \/ (Has(spans[k], t) /\ spans[k].val = v)
  BY <1>1, <1>5, <1>6, <1>7, <1>15, SetKeeps
<1>9. s[k] = x
  BY <1>1, AddingTypes
<1> HIDE DEF s
<1>10. ASSUME NEW t \in Week
       PROVE  /\ Has(spans[k], t) => Has(x, t)
              /\ Has(x, t) => Has(spans[k], t) \/ Has(adding, t)
  BY <1>1, <1>2, <1>3, AddingTypes DEF Has
<1>11. ASSUME NEW t \in Week, NEW v \in Values, Has(spans[k], t), spans[k].val = v
       PROVE  Covers(spans, t, v)
  BY <1>1, <1>11 DEF Covers
<1>12. ASSUME NEW t \in Week, NEW v \in Values
       PROVE  /\ Covers(spans, t, v) => Covers(s, t, v)
              /\ Covers(s, t, v) => Covers(spans, t, v) \/ Adds(t, v)
  BY <1>1, <1>3, <1>8, <1>10, <1>11, AddingTypes
<1>13. CASE s[k].to >= adding.to
  <2>1. spans' = s /\ spanAt' = 0 /\ adding' = adding
    BY <1>4, <1>13 DEF Added
  <2>2. AddInv' /\ \A t \in Week, v \in Values : ~ Adds(t, v)'
    BY <2>1 DEF AddInv, Adds
  <2>3. ASSUME NEW t \in Week
        PROVE  Has(adding, t) => Has(x, t)
    BY <1>1, <1>2, <1>3, <1>9, <1>13, AddingTypes DEF Has
  <2>4. ASSUME NEW t \in Week, NEW v \in Values
        PROVE  Covers(spans', t, v) <=> Covers(spans, t, v) \/ Adds(t, v)
    BY <1>1, <1>3, <1>8, <1>12, <2>1, <2>3, AddingTypes
  <2> QED  BY <1>1, <1>8, <2>1, <2>2, <2>4, AddingTypes, AddStep
<1>14. CASE ~ (s[k].to >= adding.to)
  <2>1. Grow(s, k)
    BY <1>4, <1>14
  <2>2. /\ s[k].val = adding.val /\ s[k].from <= adding.from
        /\ adding.from <= s[k].to /\ s[k].to <= adding.to
    BY <1>1, <1>2, <1>3, <1>9, <1>14, AddingTypes
  <2>3. k \in 1..Len(s)
    BY <1>1, <1>8
  <2>4. /\ spans' \in Seq(Span) /\ InOrder(spans')
        /\ spanAt' \in 0..Len(spans') + 1 /\ adding' \in Span /\ AddInv'
        /\ \A t \in Week, v \in Values :
             /\ Covers(s, t, v) => Covers(spans', t, v)
             /\ Has(adding, t) /\ adding.val = v => Covers(spans', t, v) \/ Adds(t, v)'
             /\ Covers(spans', t, v) \/ Adds(t, v)' =>
                  Covers(s, t, v) \/ (Has(adding, t) /\ adding.val = v)
    BY <1>1, <1>8, <2>1, <2>2, <2>3, AddingTypes, GrowKeeps
  <2>5. ASSUME NEW t \in Week, NEW v \in Values
        PROVE  Covers(spans', t, v) \/ Adds(t, v)' <=> Covers(spans, t, v) \/ Adds(t, v)
    BY <1>1, <1>12, <2>4, AddingTypes
  <2> QED  BY <1>1, <2>4, <2>5, AddingTypes, AddStep
<1> QED  BY <1>13, <1>14

(* The list with the new span in the place of the old one and what the old *)
(* one has before and after it.                                            *)
LEMMA ReplacedList ==
  ASSUME SpanInv, Replace
  PROVE  \E s \in Seq(Span) : \E i \in 1..Len(s) :
           /\ InOrder(s)
           /\ Grow(s, i)
           /\ s[i].val = adding.val /\ s[i].from = adding.from
           /\ adding.from <= s[i].to /\ s[i].to <= adding.to
           /\ \A t \in Week, v \in Values :
                /\ Covers(s, t, v) => Covers(spans, t, v) \/ Adds(t, v)
                /\ Covers(spans, t, v) =>
                     Covers(s, t, v) \/ (Has(adding, t) /\ adding.val <= v)
<1> DEFINE k == spanAt
           old == spans[k]
           n == SmallerOf(adding.to, old.to)
           x == [adding EXCEPT !.to = n]
           r == [spans EXCEPT ![k] = x]
           after == [old EXCEPT !.from = adding.to]
           before == [old EXCEPT !.to = adding.from]
           s == IF adding.to < old.to THEN InsertAt(r, k + 1, after) ELSE r
           u == InsertAt(s, k, before)
<1>1. /\ spanAt > 0
      /\ k \in 1..Len(spans)
      /\ old.from < adding.to /\ adding.from < old.to
      /\ adding.val < old.val
  <2>1. /\ k \in 1..Len(spans)
        /\ adding.to > old.from /\ old.to > adding.from
        /\ adding.val < old.val
    BY DEF Replace, Overlaps
  <2>2. spanAt > 0
    BY <2>1
  <2> QED  BY <2>1, <2>2, AddingTypes
<1>2. old \in Span /\ old.from \in Nat /\ old.to \in Nat /\ old.from < old.to
  BY <1>1, AddingTypes
<1>3. n \in Nat /\ n <= adding.to /\ n <= old.to /\ (n = adding.to \/ n = old.to)
  BY <1>1, <1>2, AddingTypes DEF SmallerOf
<1>4. IF old.from < adding.from THEN Grow(u, k + 1) ELSE Grow(s, k)
  BY DEF Replace, Replaced
<1> HIDE DEF n
<1>5. x \in Span /\ x.from = adding.from /\ x.to = n /\ x.val = adding.val
  BY <1>1, <1>3, AddingTypes, EndSet
<1>6. after \in Span /\ after.from = adding.to /\ after.to = old.to /\ after.val = old.val
  BY <1>1, <1>2, AddingTypes, BeginSet
<1>7. before \in Span /\ before.from = old.from /\ before.to = adding.from
        /\ before.val = old.val
  BY <1>1, <1>2, AddingTypes, EndSet
<1> HIDE DEF x, after, before
<1>8. x.from < x.to
  BY <1>1, <1>3, <1>5, AddingTypes
<1>9. \A i \in k + 1..Len(spans) : x.to <= spans[i].from
  BY <1>1, <1>3, <1>5, AddingTypes, LaterSpans
<1>10. \A i \in 1..k - 1 : spans[i].to <= x.from
  BY <1>1, <1>5, AddingTypes
<1>20. x.val = adding.val /\ spans \in Seq(Span) /\ InOrder(spans)
  BY <1>1, <1>5, AddingTypes
<1>11. /\ r \in Seq(Span) /\ InOrder(r) /\ Len(r) = Len(spans)
       /\ \A t \in Week, v \in Values :
            /\ Covers(r, t, v) => Covers(spans, t, v) \/ (Has(x, t) /\ x.val = v)
            /\ Has(x, t) /\ x.val = v => Covers(r, t, v)
            /\ Covers(spans, t, v) => Covers(r, t, v) \/ (Has(old, t) /\ old.val = v)
  BY <1>1, <1>5, <1>8, <1>9, <1>10, <1>20, SetKeeps
<1>12. r[k] = x /\ \A j \in 1..Len(spans) : j # k => r[j] = spans[j]
  BY <1>1, AddingTypes
<1> HIDE DEF r
<1>13. /\ s \in Seq(Span) /\ InOrder(s) /\ k \in 1..Len(s) /\ s[k] = x
       /\ \A i \in 1..k - 1 : s[i] = spans[i]
       /\ \A t \in Week, v \in Values :
            Covers(s, t, v) <=> \/ Covers(r, t, v)
                                \/ adding.to < old.to /\ Has(after, t) /\ after.val = v
  <2>1. CASE adding.to < old.to
    <3>1. after.from < after.to
      BY <1>6, <2>1
    <3>2. PICK m \in 1..Len(r) + 1 : m = k + 1
      BY <1>1, <1>11
    <3>3. m - 1 = k
      BY <1>1, <3>2
    <3>4. ASSUME NEW i \in 1..m - 1
          PROVE  r[i].to <= after.from
      <4>1. CASE i = k
        BY <1>3, <1>5, <1>6, <1>12, <4>1
      <4>2. CASE i # k
        <5>1. i \in 1..k - 1 /\ i \in 1..Len(spans) /\ r[i] = spans[i]
          BY <1>1, <1>12, <3>3, <4>2
        <5> QED  BY <1>1, <1>6, <5>1, AddingTypes
      <4> QED  BY <4>1, <4>2
    <3>5. ASSUME NEW i \in m..Len(r)
          PROVE  after.to <= r[i].from
      <4>1. r[i] = spans[i] /\ i \in 1..Len(spans) /\ k < i
        BY <1>1, <1>11, <1>12, <3>2
      <4>2. old.to <= spans[i].from
        BY <1>1, <4>1 DEF SpanInv, InOrder
      <4> QED  BY <1>6, <4>1, <4>2
    <3>6. s = InsertAt(r, m, after)
      BY <2>1, <3>2
    <3> HIDE DEF s
    <3>7. /\ s \in Seq(Span) /\ Len(s) = Len(r) + 1 /\ InOrder(s)
          /\ \A t \in Week, v \in Values :
               Covers(s, t, v) <=> Covers(r, t, v) \/ (Has(after, t) /\ after.val = v)
          /\ \A j \in 1..m - 1 : s[j] = r[j]
      <4>1. r \in Seq(Span) /\ InOrder(r) /\ after \in Span
        BY <1>6, <1>11
      <4>2. s \in Seq(Span) /\ Len(s) = Len(r) + 1 /\ InOrder(s)
        BY <3>1, <3>4, <3>5, <3>6, <4>1, InsertKeeps
      <4>3. \A t \in Week, v \in Values :
              Covers(s, t, v) <=> Covers(r, t, v) \/ (Has(after, t) /\ after.val = v)
        BY <3>1, <3>4, <3>5, <3>6, <4>1, InsertKeeps
      <4>4. \A j \in 1..m - 1 : s[j] = r[j]
        BY <3>1, <3>4, <3>5, <3>6, <4>1, InsertKeeps
      <4> QED  BY <4>2, <4>3, <4>4
    <3>8. k \in 1..m - 1 /\ k \in 1..Len(s)
      BY <1>1, <1>11, <3>3, <3>7
    <3>9. s[k] = x
      BY <1>12, <3>7, <3>8
    <3>10. ASSUME NEW i \in 1..k - 1
           PROVE  s[i] = spans[i]
      <4>1. i \in 1..m - 1 /\ i \in 1..Len(spans) /\ i # k
        BY <1>1, <3>3
      <4> QED  BY <1>12, <3>7, <4>1
    <3> QED  BY <2>1, <3>7, <3>8, <3>9, <3>10
  <2>2. CASE ~ (adding.to < old.to)
    <3>1. s = r
      BY <2>2
    <3> HIDE DEF s
    <3>2. ASSUME NEW i \in 1..k - 1
          PROVE  s[i] = spans[i]
      <4>1. i \in 1..Len(spans) /\ i # k
        BY <1>1
      <4> QED  BY <1>12, <3>1, <4>1
    <3> QED  BY <1>1, <1>11, <1>12, <2>2, <3>1, <3>2
  <2> QED  BY <2>1, <2>2
<1> HIDE DEF s
<1>14. ASSUME NEW t \in Week
       PROVE  /\ Has(x, t) => Has(adding, t)
              /\ Has(after, t) => Has(old, t)
              /\ old.from < adding.from /\ Has(before, t) => Has(old, t)
              /\ Has(old, t) => \/ Has(adding, t)
                                \/ adding.to < old.to /\ Has(after, t)
                                \/ old.from < adding.from /\ Has(before, t)
  <2>1. t \in Int
    BY DEF Week
  <2>2. CASE Has(old, t)
    BY <1>1, <1>2, <1>3, <1>5, <1>6, <1>7, <2>1, <2>2, AddingTypes DEF Has
  <2>3. CASE ~ Has(old, t)
    BY <1>1, <1>2, <1>3, <1>5, <1>6, <1>7, <2>1, <2>3, AddingTypes DEF Has
  <2> QED  BY <2>2, <2>3
<1>15. ASSUME NEW t \in Week, NEW v \in Values, Has(old, t), old.val = v
       PROVE  Covers(spans, t, v)
  BY <1>1, <1>15 DEF Covers
<1>16. ASSUME NEW t \in Week, NEW v \in Values
       PROVE  /\ Covers(s, t, v) => Covers(spans, t, v) \/ Adds(t, v)
              /\ Covers(spans, t, v) =>
                   \/ Covers(s, t, v)
                   \/ Has(adding, t) /\ adding.val <= v
                   \/ old.from < adding.from /\ Has(before, t) /\ before.val = v
  <2>1. Covers(s, t, v) => Covers(spans, t, v) \/ Adds(t, v)
    BY <1>1, <1>5, <1>6, <1>11, <1>13, <1>14, <1>15, AddingTypes
  <2>2. ASSUME Covers(spans, t, v)
        PROVE  \/ Covers(s, t, v)
               \/ Has(adding, t) /\ adding.val <= v
               \/ old.from < adding.from /\ Has(before, t) /\ before.val = v
    <3>1. CASE Covers(r, t, v)
      BY <1>13, <3>1
    <3>2. CASE Has(old, t) /\ old.val = v
      <4>1. adding.val <= v
        BY <1>1, <3>2, AddingTypes
      <4> QED  BY <1>6, <1>7, <1>13, <1>14, <3>2, <4>1
    <3> QED  BY <1>11, <2>2, <3>1, <3>2
  <2> QED  BY <2>1, <2>2
<1>17. adding.from <= n
  BY <1>1, <1>3, AddingTypes
<1>18. CASE old.from < adding.from
  <2>1. Grow(u, k + 1)
    BY <1>4, <1>18
  <2>2. before.from < before.to
    BY <1>7, <1>18
  <2>3. ASSUME NEW i \in 1..k - 1
        PROVE  s[i].to <= before.from
    <3>1. s[i] = spans[i] /\ i \in 1..Len(spans) /\ i < k
      BY <1>1, <1>13
    <3>2. spans[i].to <= old.from
      BY <1>1, <3>1 DEF SpanInv, InOrder
    <3> QED  BY <1>7, <3>1, <3>2
  <2>4. ASSUME NEW i \in k..Len(s)
        PROVE  before.to <= s[i].from
    <3>1. CASE i = k
      BY <1>1, <1>5, <1>7, <1>13, <3>1, AddingTypes
    <3>2. CASE i # k
      <4>1. i \in 1..Len(s) /\ k < i
        BY <1>13, <3>2
      <4>2. s[k].to <= s[i].from
        BY <1>13, <4>1 DEF InOrder
      <4>3. s[i].from \in Nat
        BY <1>13, <4>1, SpanFields
      <4>4. before.to <= s[k].to /\ before.to \in Int /\ s[k].to \in Int
        BY <1>1, <1>3, <1>5, <1>7, <1>13, <1>17, AddingTypes
      <4> QED  BY <4>2, <4>3, <4>4
    <3> QED  BY <3>1, <3>2
  <2>5. k \in 1..Len(s) + 1
    BY <1>13
  <2>6. /\ u \in Seq(Span) /\ Len(u) = Len(s) + 1 /\ InOrder(u)
        /\ \A t \in Week, v \in Values :
             Covers(u, t, v) <=> Covers(s, t, v) \/ (Has(before, t) /\ before.val = v)
        /\ \A j \in k + 1..Len(s) + 1 : u[j] = s[j - 1]
    <3>1. s \in Seq(Span) /\ InOrder(s) /\ before \in Span
      BY <1>7, <1>13
    <3> QED  BY ONLY <2>2, <2>3, <2>4, <2>5, <3>1, InsertKeeps
  <2> HIDE DEF u
  <2>7. PICK i \in 1..Len(u) : i = k + 1 /\ u[i] = x
    <3>1. k + 1 \in k + 1..Len(s) + 1 /\ (k + 1) - 1 = k /\ k + 1 \in 1..Len(u)
      BY <1>13, <2>6
    <3>2. u[k + 1] = s[(k + 1) - 1]
      BY <2>6, <3>1
    <3>3. u[k + 1] = x
      BY <1>13, <3>1, <3>2
    <3> QED  BY <3>1, <3>3
  <2>8. ASSUME NEW t \in Week, NEW v \in Values
        PROVE  /\ Covers(u, t, v) => Covers(spans, t, v) \/ Adds(t, v)
               /\ Covers(spans, t, v) =>
                    Covers(u, t, v) \/ (Has(adding, t) /\ adding.val <= v)
    BY <1>7, <1>14, <1>15, <1>16, <1>18, <2>6
  <2>9. /\ u[i].val = adding.val /\ u[i].from = adding.from
        /\ adding.from <= u[i].to /\ u[i].to <= adding.to
    BY <1>3, <1>5, <1>17, <2>7
  <2>10. Grow(u, i)
    BY <2>1, <2>7
  <2> QED  BY <2>6, <2>8, <2>9, <2>10
<1>19. CASE ~ (old.from < adding.from)
  <2>1. Grow(s, k)
    BY <1>4, <1>19
  <2>2. ASSUME NEW t \in Week, NEW v \in Values
        PROVE  /\ Covers(s, t, v) => Covers(spans, t, v) \/ Adds(t, v)
               /\ Covers(spans, t, v) =>
                    Covers(s, t, v) \/ (Has(adding, t) /\ adding.val <= v)
    BY <1>16, <1>19
  <2>3. /\ s[k].val = adding.val /\ s[k].from = adding.from
        /\ adding.from <= s[k].to /\ s[k].to <= adding.to
    BY <1>3, <1>5, <1>13, <1>17
  <2> QED  BY <1>13, <2>1, <2>2, <2>3
<1> QED  BY <1>18, <1>19

LEMMA ReplaceStep ==
  ASSUME SpanInv, Replace
  PROVE  SpanInv'
<1>1. spanAt > 0 /\ UNCHANGED <<toAdd, parsed, best>>
  BY DEF Replace, Overlaps
<1>7. PICK s \in Seq(Span) : \E i \in 1..Len(s) :
        /\ InOrder(s)
        /\ Grow(s, i)
        /\ s[i].val = adding.val /\ s[i].from = adding.from
        /\ adding.from <= s[i].to /\ s[i].to <= adding.to
        /\ \A t \in Week, v \in Values :
             /\ Covers(s, t, v) => Covers(spans, t, v) \/ Adds(t, v)
             /\ Covers(spans, t, v) =>
                  Covers(s, t, v) \/ (Has(adding, t) /\ adding.val <= v)
  BY ReplacedList
<1>2. PICK i \in 1..Len(s) :
        /\ InOrder(s)
        /\ Grow(s, i)
        /\ s[i].val = adding.val /\ s[i].from = adding.from
        /\ adding.from <= s[i].to /\ s[i].to <= adding.to
        /\ \A t \in Week, v \in Values :
             /\ Covers(s, t, v) => Covers(spans, t, v) \/ Adds(t, v)
             /\ Covers(spans, t, v) =>
                  Covers(s, t, v) \/ (Has(adding, t) /\ adding.val <= v)
  BY <1>7
<1>3. s[i].from <= adding.from
  BY <1>1, <1>2, AddingTypes
<1>4. /\ spans' \in Seq(Span) /\ InOrder(spans')
      /\ spanAt' \in 0..Len(spans') + 1 /\ adding' \in Span /\ AddInv'
      /\ \A t \in Week, v \in Values :
           /\ Covers(s, t, v) => Covers(spans', t, v)
           /\ Has(adding, t) /\ adding.val = v => Covers(spans', t, v) \/ Adds(t, v)'
           /\ Covers(spans', t, v) \/ Adds(t, v)' =>
                Covers(s, t, v) \/ (Has(adding, t) /\ adding.val = v)
  BY <1>1, <1>2, <1>3, AddingTypes, GrowKeeps
<1>5. ASSUME NEW t \in Week, NEW v \in Values, Covers(spans', t, v) \/ Adds(t, v)'
      PROVE  Covers(spans, t, v) \/ Adds(t, v)
  BY <1>1, <1>2, <1>4, <1>5, AddingTypes
<1>6. ASSUME NEW t \in Week, NEW v \in Values, Covers(spans, t, v) \/ Adds(t, v)
      PROVE  \E w \in Values : w <= v /\ (Covers(spans', t, w) \/ Adds(t, w)')
  <2>1. CASE Covers(s, t, v)
    BY <1>1, <1>4, <2>1, AddingTypes
  <2>2. CASE Has(adding, t) /\ adding.val <= v
    BY <1>1, <1>4, <2>2, AddingTypes
  <2> QED  BY <1>1, <1>2, <1>6, <2>1, <2>2, AddingTypes
<1> QED  BY <1>1, <1>4, <1>5, <1>6, AddStep

LEMMA KeepStep ==
  ASSUME SpanInv, Keep
  PROVE  SpanInv'
<1> DEFINE k == spanAt
           old == spans[k]
           piece == [adding EXCEPT !.to = old.from]
<1>1. /\ spanAt > 0 /\ UNCHANGED <<toAdd, parsed, best>>
      /\ k \in 1..Len(spans)
      /\ old.from < adding.to /\ adding.from < old.to
      /\ old.val < adding.val
  <2>1. /\ UNCHANGED <<toAdd, parsed, best>> /\ k \in 1..Len(spans)
        /\ adding.to > old.from /\ old.to > adding.from
        /\ adding.val > old.val
    BY DEF Keep, Overlaps
  <2>2. spanAt > 0
    BY <2>1
  <2> QED  BY <2>1, <2>2, AddingTypes
<1>2. old \in Span /\ old.from \in Nat /\ old.to \in Nat /\ old.from < old.to
        /\ old.val \in Values
  BY <1>1, AddingTypes
<1>3. spans' = IF adding.from < old.from THEN InsertAt(spans, k, piece) ELSE spans
  BY DEF Keep
<1>4. IF adding.to <= old.to THEN Added
      ELSE /\ adding' = [adding EXCEPT !.from = old.to]
           /\ spanAt' = k + (IF adding.from < old.from THEN 2 ELSE 1)
  BY DEF Keep
<1>5. piece \in Span /\ piece.from = adding.from /\ piece.to = old.from
        /\ piece.val = adding.val
  BY <1>1, <1>2, AddingTypes, EndSet
<1> HIDE DEF piece
(* The old span is the m-th of the new list.                               *)
<1>6. PICK m \in 1..Len(spans') :
        /\ m = k + (IF adding.from < old.from THEN 1 ELSE 0)
        /\ spans' \in Seq(Span) /\ InOrder(spans')
        /\ spans'[m] = old
        /\ \A t \in Week, v \in Values :
             Covers(spans', t, v) <=>
               \/ Covers(spans, t, v)
               \/ adding.from < old.from /\ Has(piece, t) /\ piece.val = v
  <2>1. CASE adding.from < old.from
    <3>1. piece.from < piece.to
      BY <1>5, <2>1
    <3>2. \A i \in 1..k - 1 : spans[i].to <= piece.from
      BY <1>1, <1>5, AddingTypes
    <3>3. ASSUME NEW i \in k..Len(spans)
          PROVE  piece.to <= spans[i].from
      <4>1. CASE i = k
        BY <1>2, <1>5, <4>1
      <4>2. CASE i # k
        <5>1. i \in 1..Len(spans) /\ k < i
          BY <1>1, <4>2
        <5>2. old.to <= spans[i].from /\ spans[i].from \in Nat
          BY <1>1, <5>1, AddingTypes DEF InOrder
        <5> QED  BY <1>2, <1>5, <5>2
      <4> QED  BY <4>1, <4>2
    <3>4. spans' = InsertAt(spans, k, piece)
      BY <1>3, <2>1
    <3>5. k \in 1..Len(spans) + 1 /\ spans \in Seq(Span) /\ InOrder(spans)
      BY <1>1, AddingTypes
    <3>6. spans' \in Seq(Span) /\ Len(spans') = Len(spans) + 1 /\ InOrder(spans')
      BY <1>5, <3>1, <3>2, <3>3, <3>4, <3>5, InsertKeeps
    <3>7. \A t \in Week, v \in Values :
            Covers(spans', t, v) <=> Covers(spans, t, v) \/ (Has(piece, t) /\ piece.val = v)
      BY <1>5, <3>1, <3>2, <3>3, <3>4, <3>5, InsertKeeps
    <3>8. \A j \in k + 1..Len(spans) + 1 : spans'[j] = spans[j - 1]
      BY <1>5, <3>1, <3>2, <3>3, <3>4, <3>5, InsertKeeps
    <3>9. PICK m \in k + 1..Len(spans) + 1 : m = k + 1
      BY <1>1
    <3>10. m - 1 = k /\ m \in 1..Len(spans')
      BY <1>1, <3>6, <3>9
    <3>11. spans'[m] = old
      BY <3>8, <3>10
    <3>12. m = k + (IF adding.from < old.from THEN 1 ELSE 0)
      BY <2>1, <3>9
    <3> QED  BY <2>1, <3>6, <3>7, <3>10, <3>11, <3>12
  <2>2. CASE ~ (adding.from < old.from)
    <3>1. spans' = spans
      BY <1>3, <2>2
    <3>2. k = k + (IF adding.from < old.from THEN 1 ELSE 0)
      BY <1>1, <2>2
    <3> QED  BY <1>1, <2>2, <3>1, <3>2, AddingTypes
  <2> QED  BY <2>1, <2>2
<1>7. ASSUME NEW t \in Week
      PROVE  /\ adding.from < old.from /\ Has(piece, t) => Has(adding, t)
             /\ Has(adding, t) => \/ adding.from < old.from /\ Has(piece, t)
                                  \/ Has(old, t)
                                  \/ old.to <= t /\ t < adding.to
  <2>1. /\ t \in Int /\ adding.from \in Int /\ adding.to \in Int
        /\ old.from \in Int /\ old.to \in Int
    BY <1>1, AddingTypes DEF Week
  <2>2. piece.from = adding.from /\ piece.to = old.from /\ old.from < adding.to
    BY <1>1, <1>2, <1>5
  <2> QED  BY <2>1, <2>2 DEF Has
<1>8. ASSUME NEW t \in Week, Has(old, t)
      PROVE  Covers(spans', t, old.val)
  <2>1. Covers(spans, t, old.val)
    BY <1>1, <1>8 DEF Covers
  <2> QED  BY <1>2, <1>6, <2>1
<1>9. \A t \in Week, v \in Values :
        Covers(spans', t, v) => Covers(spans, t, v) \/ Adds(t, v)
  BY <1>1, <1>5, <1>6, <1>7, AddingTypes
<1>10. CASE adding.to <= old.to
  <2>1. spanAt' = 0 /\ adding' = adding
    BY <1>4, <1>10 DEF Added
  <2>2. AddInv' /\ \A t \in Week, v \in Values : ~ Adds(t, v)'
    BY <2>1 DEF AddInv, Adds
  <2>3. ASSUME NEW t \in Week, NEW v \in Values, Covers(spans, t, v) \/ Adds(t, v)
        PROVE  \E w \in Values : w <= v /\ (Covers(spans', t, w) \/ Adds(t, w)')
    <3>1. CASE Covers(spans, t, v)
      BY <1>1, <1>6, <3>1, AddingTypes
    <3>2. CASE Adds(t, v)
      <4>1. Has(adding, t) /\ adding.val = v
        BY <1>1, <3>2, AddingTypes
      <4>2. CASE Has(old, t)
        <5>1. old.val <= v
          BY <1>1, <1>2, <4>1, AddingTypes
        <5> QED  BY <1>2, <1>8, <4>2, <5>1
      <4>3. CASE ~ Has(old, t)
        <5>1. ~ (old.to <= t /\ t < adding.to)
          BY <1>1, <1>2, <1>10, AddingTypes
        <5>2. Covers(spans', t, v)
          BY <1>5, <1>6, <1>7, <4>1, <4>3, <5>1
        <5> QED  BY <1>1, <5>2, AddingTypes
      <4> QED  BY <4>2, <4>3
    <3> QED  BY <2>3, <3>1, <3>2
  <2>4. \A t \in Week, v \in Values :
          Covers(spans', t, v) \/ Adds(t, v)' => Covers(spans, t, v) \/ Adds(t, v)
    BY <1>9, <2>2
  <2>5. spanAt' \in 0..Len(spans') + 1 /\ adding' \in Span
    BY <1>1, <1>6, <2>1, AddingTypes
  <2> QED  BY <1>1, <1>6, <2>2, <2>3, <2>4, <2>5, AddStep
<1>11. CASE ~ (adding.to <= old.to)
  <2>1. adding' = [adding EXCEPT !.from = old.to] /\ spanAt' = m + 1
    BY <1>1, <1>4, <1>6, <1>11
  <2>2. /\ adding' \in Span /\ adding'.from = old.to /\ adding'.to = adding.to
        /\ adding'.val = adding.val
    BY <1>1, <1>2, <2>1, AddingTypes, BeginSet
  <2>3. AddInv'
    <3>1. adding'.from < adding'.to
      BY <1>1, <1>2, <1>11, <2>2, AddingTypes
    <3>2. ASSUME NEW j \in 1..m
          PROVE  spans'[j].to <= adding'.from
      <4>1. CASE j = m
        BY <1>2, <1>6, <2>2, <4>1
      <4>2. CASE j # m
        <5>1. j \in 1..Len(spans') /\ j < m
          BY <1>6, <4>2
        <5>2. spans'[j].to <= old.from
          BY <1>6, <5>1 DEF InOrder
        <5>3. spans'[j].to \in Nat
          BY <1>6, <5>1, SpanFields
        <5> QED  BY <1>2, <2>2, <5>2, <5>3
      <4> QED  BY <4>1, <4>2
    <3>3. (m + 1) - 1 = m
      OBVIOUS
    <3> QED  BY <2>1, <3>1, <3>2, <3>3 DEF AddInv
  <2>4. ASSUME NEW t \in Week, NEW v \in Values
        PROVE  Adds(t, v)' <=> old.to <= t /\ t < adding.to /\ adding.val = v
    BY <2>1, <2>2 DEF Adds, Has
  <2>5. ASSUME NEW t \in Week, NEW v \in Values, Adds(t, v)'
        PROVE  Adds(t, v)
    <3>1. Has(adding, t)
      BY <1>1, <1>2, <2>4, <2>5, AddingTypes DEF Has
    <3> QED  BY <1>1, <2>4, <2>5, <3>1, AddingTypes
  <2>6. \A t \in Week, v \in Values :
          Covers(spans', t, v) \/ Adds(t, v)' => Covers(spans, t, v) \/ Adds(t, v)
    BY <1>9, <2>5
  <2>7. ASSUME NEW t \in Week, NEW v \in Values, Covers(spans, t, v) \/ Adds(t, v)
        PROVE  \E w \in Values : w <= v /\ (Covers(spans', t, w) \/ Adds(t, w)')
    <3>1. CASE Covers(spans, t, v)
      BY <1>1, <1>6, <3>1, AddingTypes
    <3>2. CASE Adds(t, v)
      <4>1. Has(adding, t) /\ adding.val = v
        BY <1>1, <3>2, AddingTypes
      <4>2. CASE Has(old, t)
        <5>1. old.val <= v
          BY <1>1, <1>2, <4>1, AddingTypes
        <5> QED  BY <1>2, <1>8, <4>2, <5>1
      <4>3. CASE old.to <= t /\ t < adding.to
        BY <1>1, <2>4, <4>1, <4>3, AddingTypes
      <4>4. CASE adding.from < old.from /\ Has(piece, t)
        <5>1. Covers(spans', t, v)
          BY <1>5, <1>6, <4>1, <4>4
        <5> QED  BY <1>1, <5>1, AddingTypes
      <4> QED  BY <1>7, <4>1, <4>2, <4>3, <4>4
    <3> QED  BY <2>7, <3>1, <3>2
  <2>8. spanAt' \in 0..Len(spans') + 1
    BY <1>6, <2>1
  <2> QED  BY <1>1, <1>6, <2>2, <2>3, <2>6, <2>7, <2>8, AddStep
<1> QED  BY <1>10, <1>11

LEMMA NextSpanStep ==
  ASSUME SpanInv, NextSpan
  PROVE  SpanInv'
<1>1. /\ spanAt = 0 /\ spanAt' = 1 /\ spans' = spans /\ parsed' = parsed /\ best' = best
  BY DEF NextSpan
<1>2. PICK p \in toAdd : adding' = p /\ toAdd' = toAdd \ {p}
  BY DEF NextSpan
<1>3. p \in Span /\ p.from < p.to /\ spans \in Seq(Span)
  BY <1>2 DEF SpanInv, SpanTypeOK, ToAddInv
<1>4. SpanTypeOK'
  <2>1. 1 \in 0..Len(spans) + 1
    BY <1>3
  <2> QED  BY <1>1, <1>2, <1>3, <2>1 DEF SpanInv, SpanTypeOK
<1>5. AddInv'
  BY <1>1, <1>2, <1>3 DEF AddInv
<1>6. ToAddInv'
  BY <1>2 DEF SpanInv, ToAddInv
<1>7. ASSUME NEW t \in Week, NEW v \in Values
      PROVE  Shows(t, v)' <=> Shows(t, v)
  <2>1. ~ Adds(t, v)
    BY <1>1 DEF Adds
  <2>2. Adds(t, v)' <=> Has(p, t) /\ p.val = v
    BY <1>1, <1>2 DEF Adds
  <2>3. Left(t, v) <=> Left(t, v)' \/ (Has(p, t) /\ p.val = v)
    BY <1>2 DEF Left
  <2> QED  BY <1>1, <2>1, <2>2, <2>3 DEF Shows
<1>8. \A v \in Values : v <= v
  BY SpanAssumption DEF SpanAssumption
<1>9. BestInv'
  <2>1. \A t \in Week, v \in Values : Shows(t, v)' => Shows(t, v)
    BY <1>7
  <2>2. \A t \in Week, v \in Values :
          Shows(t, v) => \E w \in Values : w <= v /\ Shows(t, w)'
    BY <1>7, <1>8
  <2> QED  BY <1>1, <2>1, <2>2, BestKept DEF SpanInv
<1> QED  BY <1>1, <1>4, <1>5, <1>6, <1>9 DEF SpanInv

-----------------------------------------------------------------------------
(* Strings, and the theorems about them *)

(* The spans of one day of a string are the times that it has of that day. *)
LEMMA SpansOfDay ==
  ASSUME FirstEnd = 1, NEW day \in 0..Days - 1, NEW s,
         s.start \in 0..Day - 1, s.end \in FirstEnd..Day, s.val \in Values,
         s.retry \in Retries
  PROVE  /\ \A p \in SpansOf(day, s) : p \in Span /\ p.from < p.to /\ p.val = s.val
         /\ \A t \in Week :
              (\E p \in SpansOf(day, s) : Has(p, t)) <=>
                /\ t - day * Day \in 0..Day - 1
                /\ IF s.start < s.end
                   THEN s.start <= t - day * Day /\ t - day * Day < s.end
                   ELSE t - day * Day < s.end \/ s.start <= t - day * Day
<1> DEFINE b == day * Day
           span(from, to) == [from |-> b + from, to |-> b + to,
                              val |-> s.val, retry |-> s.retry]
<1>1. Day \in Nat \ {0} /\ day \in Nat /\ Days \in Nat
  BY SpanAssumption DEF SpanAssumption
<1>2. b \in Nat
  BY <1>1
<1>3. /\ s.start \in Nat /\ s.start < Day
      /\ s.end \in Nat /\ 0 < s.end /\ s.end <= Day
  BY <1>1
<1>4. SpansOf(day, s) = IF s.start < s.end THEN {span(s.start, s.end)}
                        ELSE {span(0, s.end), span(s.start, Day)}
  BY DEF SpansOf
<1> HIDE DEF b
<1>5. ASSUME NEW from \in Nat, NEW to \in Nat, from < to
      PROVE  /\ span(from, to) \in Span
             /\ span(from, to).from = b + from /\ span(from, to).to = b + to
             /\ span(from, to).val = s.val /\ span(from, to).from < span(from, to).to
             /\ \A t \in Week :
                  Has(span(from, to), t) <=> from <= t - b /\ t - b < to
  <2>1. b + from \in Nat /\ b + to \in Nat /\ b + from < b + to
    BY <1>2, <1>5
  <2>2. span(from, to) \in Span
    BY <2>1 DEF Span
  <2>3. \A t \in Week : Has(span(from, to), t) <=> from <= t - b /\ t - b < to
    BY <1>2 DEF Has, Week
  <2> QED  BY <2>1, <2>2, <2>3
<1> HIDE DEF span
<1>6. ASSUME NEW t \in Week
      PROVE  t - b \in Int
  BY <1>2 DEF Week
<1>7. CASE s.start < s.end
  <2>1. SpansOf(day, s) = {span(s.start, s.end)}
    BY <1>4, <1>7
  <2>2. ASSUME NEW t \in Week
        PROVE  Has(span(s.start, s.end), t) <=>
                 t - b \in 0..Day - 1 /\ s.start <= t - b /\ t - b < s.end
    <3>1. Has(span(s.start, s.end), t) <=> s.start <= t - b /\ t - b < s.end
      BY <1>3, <1>5, <1>7
    <3> QED  BY <1>1, <1>3, <1>6, <3>1
  <2> QED  BY <1>3, <1>5, <1>7, <2>1, <2>2 DEF b
<1>8. CASE ~ (s.start < s.end)
  <2>1. SpansOf(day, s) = {span(0, s.end), span(s.start, Day)}
    BY <1>4, <1>8
  <2>2. ASSUME NEW t \in Week
        PROVE  Has(span(0, s.end), t) \/ Has(span(s.start, Day), t) <=>
                 t - b \in 0..Day - 1 /\ (t - b < s.end \/ s.start <= t - b)
    <3>1. Has(span(0, s.end), t) <=> 0 <= t - b /\ t - b < s.end
      BY <1>3, <1>5
    <3>2. Has(span(s.start, Day), t) <=> s.start <= t - b /\ t - b < Day
      BY <1>1, <1>3, <1>5
    <3> QED  BY <1>1, <1>3, <1>6, <1>8, <3>1, <3>2
  <2>3. \A p \in SpansOf(day, s) : p \in Span /\ p.from < p.to /\ p.val = s.val
    BY <1>1, <1>3, <1>5, <2>1
  <2> QED  BY <1>8, <2>1, <2>2, <2>3 DEF b
<1> QED  BY <1>7, <1>8

LEMMA ParseTimeStep ==
  ASSUME FirstEnd = 1, SpanInv, ParseTime
  PROVE  SpanInv'
<1>1. spanAt = 0 /\ toAdd = {} /\ UNCHANGED <<spans, adding, spanAt>>
  BY DEF ParseTime
<1>2. PICK days \in SUBSET (0..Days - 1) \ {{}}, start \in 0..Day - 1,
           end \in FirstEnd..Day, val \in Values, retry \in Retries :
        LET s == [days |-> days, start |-> start, end |-> end, val |-> val,
                  retry |-> retry]
        IN /\ toAdd' = UNION {SpansOf(day, s) : day \in days}
           /\ best' = [t \in Week |->
                         IF HasTime(s, t) /\ (best[t] = 0 \/ val < best[t])
                         THEN val ELSE best[t]]
           /\ parsed' = parsed + 1
  BY DEF ParseTime
<1> DEFINE s == [days |-> days, start |-> start, end |-> end, val |-> val,
                 retry |-> retry]
<1>3. /\ toAdd' = UNION {SpansOf(day, s) : day \in days}
      /\ best' = [t \in Week |->
                    IF HasTime(s, t) /\ (best[t] = 0 \/ val < best[t])
                    THEN val ELSE best[t]]
      /\ parsed' = parsed + 1
  BY <1>2
<1>4. /\ s.days = days /\ s.start \in 0..Day - 1 /\ s.end \in FirstEnd..Day
      /\ s.val = val /\ s.val \in Values /\ s.retry \in Retries
  OBVIOUS
<1> HIDE DEF s
<1>5. ASSUME NEW day \in days
      PROVE  /\ \A p \in SpansOf(day, s) : p \in Span /\ p.from < p.to /\ p.val = val
             /\ \A t \in Week :
                  (\E p \in SpansOf(day, s) : Has(p, t)) <=>
                    /\ t - day * Day \in 0..Day - 1
                    /\ IF s.start < s.end
                       THEN s.start <= t - day * Day /\ t - day * Day < s.end
                       ELSE t - day * Day < s.end \/ s.start <= t - day * Day
  <2>1. day \in 0..Days - 1
    OBVIOUS
  <2> QED  BY <1>4, <2>1, SpansOfDay
<1>6. \A p \in toAdd' : p \in Span /\ p.from < p.to /\ p.val = val
  BY <1>3, <1>5
<1>7. ASSUME NEW t \in Week, NEW v \in Values
      PROVE  Left(t, v)' <=> HasTime(s, t) /\ v = val
  <2>1. Left(t, v)' <=> v = val /\ \E p \in toAdd' : Has(p, t)
    BY <1>6 DEF Left
  <2>2. (\E p \in toAdd' : Has(p, t)) <=>
          \E day \in days : \E p \in SpansOf(day, s) : Has(p, t)
    BY <1>3
  <2>3. (\E day \in days : \E p \in SpansOf(day, s) : Has(p, t)) <=> HasTime(s, t)
    BY <1>4, <1>5 DEF HasTime
  <2> QED  BY <2>1, <2>2, <2>3
<1>8. parsed' \in 0..MaxStrings
  BY <1>3, SpanAssumption DEF SpanInv, SpanTypeOK, ParseTime, SpanAssumption
<1>9. best' \in [Week -> Values \cup {0}]
  BY <1>3 DEF SpanInv, SpanTypeOK
<1>10. SpanTypeOK'
  BY <1>1, <1>6, <1>8, <1>9 DEF SpanInv, SpanTypeOK
<1>11. AddInv' /\ ToAddInv' /\ InOrder(spans)'
  BY <1>1, <1>6 DEF SpanInv, AddInv, ToAddInv
<1>12. BestInv'
  <2> SUFFICES ASSUME NEW t \in Week, NEW v \in Values
               PROVE  /\ Shows(t, v)' => best'[t] # 0 /\ best'[t] <= v
                      /\ best'[t] = v => Shows(t, v)'
    BY DEF BestInv
  <2>1. best[t] \in Nat
    <3>1. best[t] \in Values \cup {0}
      BY DEF SpanInv, SpanTypeOK
    <3>2. \A w \in Values : w \in Nat
      BY SpanAssumption DEF SpanAssumption
    <3>3. 0 \in Nat
      OBVIOUS
    <3> QED  BY <3>1, <3>2, <3>3
  <2>2. val \in Nat \ {0} /\ v \in Nat \ {0}
    BY SpanAssumption DEF SpanAssumption
  <2>3. Shows(t, v) <=> Covers(spans, t, v)
    BY <1>1 DEF Shows, Adds, Left
  <2>4. Shows(t, v)' <=> Covers(spans, t, v) \/ (HasTime(s, t) /\ v = val)
    BY <1>1, <1>7 DEF Shows, Adds
  <2>5. Covers(spans, t, v) => best[t] # 0 /\ best[t] <= v
    BY <2>3 DEF SpanInv, BestInv
  <2>6. best[t] = v => Covers(spans, t, v)
    BY <2>3 DEF SpanInv, BestInv
  <2>7. best'[t] = IF HasTime(s, t) /\ (best[t] = 0 \/ val < best[t])
                   THEN val ELSE best[t]
    BY <1>3
  <2>8. CASE HasTime(s, t) /\ (best[t] = 0 \/ val < best[t])
    <3>1. best'[t] = val
      BY <2>7, <2>8
    <3>2. Covers(spans, t, v) => val <= v
      BY <2>1, <2>2, <2>5, <2>8
    <3> QED  BY <2>2, <2>4, <2>8, <3>1, <3>2
  <2>9. CASE ~ (HasTime(s, t) /\ (best[t] = 0 \/ val < best[t]))
    <3>1. best'[t] = best[t]
      BY <2>7, <2>9
    <3>2. HasTime(s, t) => best[t] # 0 /\ best[t] <= val
      BY <2>1, <2>2, <2>9
    <3> QED  BY <2>4, <2>5, <2>6, <3>1, <3>2
  <2> QED  BY <2>8, <2>9
<1> QED  BY <1>10, <1>11, <1>12 DEF SpanInv

(* The list of spans and what is still to be added to it, for any days,    *)
(* values and strings whose hours do not end at midnight by the number 0.  *)
THEOREM SpanInvariant ==
  ASSUME FirstEnd = 1
  PROVE  SpanSpec => []SpanInv
<1>1. SpanInit => SpanInv
  <2> SUFFICES ASSUME SpanInit  PROVE  SpanInv
    OBVIOUS
  <2>1. SpanTypeOK
    BY SpanAssumption DEF SpanInit, SpanTypeOK, SpanAssumption
  <2>2. InOrder(spans) /\ AddInv /\ ToAddInv
    BY DEF SpanInit, InOrder, AddInv, ToAddInv
  <2>3. BestInv
    <3>1. \A t \in Week, v \in Values : ~ Shows(t, v)
      BY DEF SpanInit, Shows, Covers, Adds, Left
    <3>2. \A t \in Week : best[t] = 0
      BY DEF SpanInit
    <3>3. \A v \in Values : v # 0
      BY SpanAssumption DEF SpanAssumption
    <3> QED  BY <3>1, <3>2, <3>3 DEF BestInv
  <2> QED  BY <2>1, <2>2, <2>3 DEF SpanInv
<1>2. SpanInv /\ [SpanNext]_spanVars => SpanInv'
  <2> SUFFICES ASSUME SpanInv, [SpanNext]_spanVars  PROVE  SpanInv'
    OBVIOUS
  <2>1. CASE ParseTime
    BY <2>1, ParseTimeStep
  <2>2. CASE NextSpan
    BY <2>2, NextSpanStep
  <2>3. CASE PutBefore
    BY <2>3, PutBeforeStep
  <2>4. CASE PassOver
    BY <2>4, PassOverStep
  <2>5. CASE Extend
    BY <2>5, ExtendStep
  <2>6. CASE Replace
    BY <2>6, ReplaceStep
  <2>7. CASE Keep
    BY <2>7, KeepStep
  <2>8. CASE UNCHANGED spanVars
    BY <2>8 DEF spanVars, SpanInv, SpanTypeOK, InOrder, AddInv, ToAddInv, BestInv,
                Shows, Covers, Adds, Left
  <2> QED  BY <2>1, <2>2, <2>3, <2>4, <2>5, <2>6, <2>7, <2>8 DEF SpanNext
<1> QED  BY <1>1, <1>2, PTL DEF SpanSpec

(* The list is sorted at every point of itadd_span, and when all strings   *)
(* are added it has the best value of each time of the week.  Hours that   *)
(* end at 0 are left out: TimeSpanMidnight.cfg has the counterexample.     *)
THEOREM SpansMeanTimes ==
  ASSUME FirstEnd = 1
  PROVE  SpanSpec => []SpansMean
<1>1. SpanInv => SpansMean
  <2> SUFFICES ASSUME SpanInv  PROVE  SpansMean
    OBVIOUS
  <2>1. spans \in Seq(Span)
    BY DEF SpanInv, SpanTypeOK
  <2>2. SpansOrdered
    BY <2>1 DEF SpanInv, InOrder, SpansOrdered
  <2>3. ASSUME spanAt = 0, toAdd = {}, NEW t \in Week
        PROVE  {spans[i].val : i \in {j \in 1..Len(spans) :
                                        spans[j].from <= t /\ t < spans[j].to}}
                 = {best[t]} \ {0}
    <3>1. \A v \in Values : Shows(t, v) <=> Covers(spans, t, v)
      BY <2>3 DEF Shows, Adds, Left
    <3>2. \A i \in 1..Len(spans) :
            /\ spans[i].from \in Nat /\ spans[i].to \in Nat
            /\ spans[i].val \in Nat \ {0} /\ spans[i].val \in Values
      BY <2>1, SpanFields
    <3>3. best[t] # 0 => best[t] \in Values
      BY DEF SpanInv, SpanTypeOK
    <3>4. ASSUME NEW i \in 1..Len(spans), spans[i].from <= t, t < spans[i].to
          PROVE  spans[i].val = best[t]
      <4>1. Covers(spans, t, spans[i].val)
        BY <3>4 DEF Covers, Has
      <4>2. best[t] # 0
        BY <3>1, <3>2, <4>1 DEF SpanInv, BestInv
      <4>3. Covers(spans, t, best[t])
        BY <3>1, <3>3, <4>2 DEF SpanInv, BestInv
      <4>4. PICK j \in 1..Len(spans) :
              spans[j].from <= t /\ t < spans[j].to /\ spans[j].val = best[t]
        BY <4>3 DEF Covers, Has
      <4>5. ~ (i < j) /\ ~ (j < i)
        <5>1. i < j => spans[i].to <= spans[j].from
          BY DEF SpanInv, InOrder
        <5>2. j < i => spans[j].to <= spans[i].from
          BY DEF SpanInv, InOrder
        <5>3. t \in Int
          BY DEF Week
        <5> QED  BY <3>2, <3>4, <4>4, <5>1, <5>2, <5>3
      <4>6. i = j
        BY <4>5
      <4> QED  BY <4>4, <4>6
    <3>5. ASSUME best[t] # 0
          PROVE  \E i \in 1..Len(spans) :
                   spans[i].from <= t /\ t < spans[i].to /\ spans[i].val = best[t]
      <4>1. Covers(spans, t, best[t])
        BY <3>1, <3>3, <3>5 DEF SpanInv, BestInv
      <4> QED  BY <4>1 DEF Covers, Has
    <3> QED  BY <3>2, <3>4, <3>5
  <2>4. BestValue
    BY <2>3 DEF BestValue
  <2> QED  BY <2>2, <2>4 DEF SpansMean
<1> QED  BY <1>1, SpanInvariant, PTL

-----------------------------------------------------------------------------
(* The greatest and the least of a set of numbers *)

LEMMA GreatestIs ==
  ASSUME NEW S, S \subseteq Int, NEW x \in S, \A y \in S : x >= y
  PROVE  Max(S) = x
<1>1. Max(S) \in S /\ \A y \in S : Max(S) >= y
  BY Zenon DEF Max
<1>2. Max(S) >= x /\ x >= Max(S) /\ Max(S) \in Int
  BY <1>1
<1> QED  BY <1>2

LEMMA LeastIs ==
  ASSUME NEW S, S \subseteq Nat, S # {}
  PROVE  Min(S) \in S /\ \A y \in S : Min(S) <= y
<1>1. PICK x \in S : \A y \in S : ~ (<<y, x>> \in OpToRel(<, Nat))
  BY WFMin, NatLessThanWellFounded, Zenon
<1>2. \A y \in S : ~(y < x)
  BY <1>1, Zenon DEF OpToRel
<1>3. \E z \in S : \A y \in S : z <= y
  BY <1>2
<1> QED  BY <1>3, Zenon DEF Min

LEMMA GreatestHas ==
  ASSUME NEW n \in Nat, NEW S, S \subseteq 0..n, S # {}
  PROVE  Max(S) \in S /\ \A y \in S : Max(S) >= y
<1>1. PICK T : T = {n - y : y \in S}
  OBVIOUS
<1>2. T \subseteq Nat /\ T # {}
  <2>1. \A y \in S : n - y \in Nat
    OBVIOUS
  <2>2. \E y \in S : n - y \in T
    BY <1>1
  <2> QED  BY <1>1, <2>1, <2>2
<1>3. PICK t \in T : \A u \in T : t <= u
  BY <1>2, LeastIs
<1>4. PICK x \in S : t = n - x
  BY <1>1
<1>5. ASSUME NEW y \in S
      PROVE  x >= y
  <2>1. n - x <= n - y
    BY <1>1, <1>3, <1>4
  <2> QED  BY <2>1
<1> QED  BY <1>5, Zenon DEF Max

(* The value that some lines give: the number of the last.                 *)
LEMMA LastOf ==
  ASSUME NEW n \in Nat, NEW T, T \subseteq 1..n
  PROVE  /\ Max({Unset} \cup T) \in {Unset} \cup T
         /\ Max({Unset} \cup T) = Unset <=> T = {}
         /\ Max({Unset} \cup T) \in 0..n
<1>1. {Unset} \cup T \subseteq 0..n
  BY DEF Unset
<1>2. Max({Unset} \cup T) \in {Unset} \cup T /\ \A y \in {Unset} \cup T : Max({Unset} \cup T) >= y
  BY <1>1, GreatestHas
<1>3. PICK m : m = Max({Unset} \cup T)
  OBVIOUS
<1>4. m \in {Unset} \cup T /\ \A y \in T : m >= y
  BY <1>2, <1>3
<1>5. m \in 0..n
  BY <1>1, <1>4
<1>6. m = Unset <=> T = {}
  BY <1>4 DEF Unset
<1> QED  BY <1>3, <1>4, <1>5, <1>6

LEMMA LastOfMore ==
  ASSUME NEW n \in Nat \ {0}, NEW T, T \subseteq 1..n - 1
  PROVE  Max({Unset} \cup (T \cup {n})) = n
<1>1. {Unset} \cup (T \cup {n}) \subseteq Int /\ n \in {Unset} \cup (T \cup {n})
  BY DEF Unset
<1>2. \A y \in {Unset} \cup (T \cup {n}) : n >= y
  BY DEF Unset
<1> QED  BY <1>1, <1>2, GreatestIs

-----------------------------------------------------------------------------
(* What is read of a block *)

(* A line says something of a field, and the lines of L in alternate a of  *)
(* the block after line b that do.                                         *)
Says(j, f) ==
  LET cmd == sysLines[j].cmd
  IN  \/ f \in FieldsOf(cmd) \cup ListOf(cmd)
      \/ f = "zalternate" /\ cmd = "alternate" /\ sysLines[j].arg # ""
      \/ f = "qport" /\ cmd \in {"port type", "port device"}
Told(b, L, a, f) == {j \in L : AlternateOf(b, j) = a /\ Says(j, f)}
Nearest(b, L, a, f) == IF Told(b, L, a, f) # {} THEN Told(b, L, a, f) ELSE Told(b, L, 1, f)

LEMMA FieldNames ==
  /\ PlainFields \subseteq Fields /\ ListFields \subseteq Fields /\ HowToCall \subseteq Fields
  /\ {"zport", "qport", "fcall", "fcalled"} \subseteq Fields
  /\ PlainFields \cap ListFields = {} /\ Protocols \subseteq ListFields
  /\ {"zport", "qport", "fcall", "fcalled"} \cap (PlainFields \cup ListFields) = {}
  /\ Fields = PlainFields \cup ListFields \cup {"zport", "qport", "fcall", "fcalled"}
  /\ "zalternate" \in PlainFields /\ "timegrade" \in ListFields
  /\ "baud" \in PlainFields /\ "phone" \in PlainFields /\ "called_login" \in PlainFields
  /\ "send_request" \in PlainFields /\ "rec_request" \in PlainFields
  /\ HowToCall = {"zport", "qport", "baud", "phone"}
  BY DEF PlainFields, ListFields, Protocols, Fields, HowToCall

LEMMA CommandFields ==
  ASSUME NEW cmd
  PROVE  /\ FieldsOf(cmd) \subseteq PlainFields \cup {"zport"}
         /\ ListOf(cmd) \subseteq ListFields
         /\ "zalternate" \notin FieldsOf(cmd) \cup ListOf(cmd)
<1>1. FieldsOf(cmd) \subseteq PlainFields \cup {"zport"}
  BY DEF FieldsOf, PlainFields
<1>2. ListOf(cmd) \subseteq ListFields
  BY DEF ListOf, ListFields, Protocols
<1>3. "zalternate" \notin FieldsOf(cmd)
  BY DEF FieldsOf
<1>4. "zalternate" \notin ListOf(cmd)
  BY DEF ListOf
<1> QED  BY <1>1, <1>2, <1>3, <1>4

LEMMA OtherCommands ==
  ASSUME NEW cmd \in {"alternate", "port type", "port device", "default-alternates",
                      "unknown", "system"}
  PROVE  FieldsOf(cmd) = {} /\ ListOf(cmd) = {}
  BY DEF FieldsOf, ListOf

(* The lines of alternates, up to a line.                                  *)
LEMMA AlternateFirst ==
  ASSUME NEW b \in Nat
  PROVE  AlternateOf(b, b) = 1
<1>1. {k \in b + 1..b : sysLines[k].cmd = "alternate"} = {}
  OBVIOUS
<1> QED  BY <1>1, FS_EmptySet DEF AlternateOf

LEMMA AlternateGrows ==
  ASSUME NEW b \in Nat, NEW n \in Nat, NEW j \in Nat, j <= n
  PROVE  /\ AlternateOf(b, j) \in Nat \ {0}
         /\ AlternateOf(b, j) <= AlternateOf(b, n)
<1>1. PICK S, T : /\ S = {k \in b + 1..j : sysLines[k].cmd = "alternate"}
                  /\ T = {k \in b + 1..n : sysLines[k].cmd = "alternate"}
  OBVIOUS
<1>2. IsFiniteSet(b + 1..n)
  BY FS_Interval
<1>3. T \subseteq b + 1..n /\ S \subseteq T
  BY <1>1
<1>4. IsFiniteSet(T) /\ Cardinality(T) \in Nat
  BY <1>2, <1>3, FS_Subset, FS_CardinalityType
<1>5. IsFiniteSet(S) /\ Cardinality(S) <= Cardinality(T) /\ Cardinality(S) \in Nat
  BY <1>3, <1>4, FS_Subset, FS_CardinalityType
<1>6. AlternateOf(b, j) = 1 + Cardinality(S) /\ AlternateOf(b, n) = 1 + Cardinality(T)
  BY <1>1 DEF AlternateOf
<1> QED  BY <1>4, <1>5, <1>6

LEMMA AlternateNext ==
  ASSUME NEW b \in Nat, NEW n \in Nat, b < n
  PROVE  AlternateOf(b, n) = IF sysLines[n].cmd = "alternate"
                             THEN AlternateOf(b, n - 1) + 1 ELSE AlternateOf(b, n - 1)
<1>1. PICK S, T : /\ S = {k \in b + 1..n - 1 : sysLines[k].cmd = "alternate"}
                  /\ T = {k \in b + 1..n : sysLines[k].cmd = "alternate"}
  OBVIOUS
<1>2. AlternateOf(b, n - 1) = 1 + Cardinality(S) /\ AlternateOf(b, n) = 1 + Cardinality(T)
  BY <1>1 DEF AlternateOf
<1>3. IsFiniteSet(S) /\ Cardinality(S) \in Nat
  <2>1. IsFiniteSet(b + 1..n - 1)
    BY FS_Interval
  <2> QED  BY <1>1, <2>1, FS_Subset, FS_CardinalityType
<1>4. CASE sysLines[n].cmd = "alternate"
  <2>1. T = S \cup {n} /\ n \notin S
    BY <1>1, <1>4
  <2>2. Cardinality(T) = Cardinality(S) + 1
    BY <1>3, <2>1, FS_AddElement
  <2> QED  BY <1>2, <1>3, <1>4, <2>2
<1>5. CASE sysLines[n].cmd # "alternate"
  <2>1. T = S
    BY <1>1, <1>5
  <2> QED  BY <1>2, <1>5, <2>1
<1> QED  BY <1>4, <1>5

(* What a line adds to what was said.                                      *)
LEMMA ToldNext ==
  ASSUME NEW b \in Nat, NEW n \in Nat, b < n, NEW a, NEW f
  PROVE  Told(b, b + 1..n, a, f) =
           Told(b, b + 1..n - 1, a, f) \cup
             (IF AlternateOf(b, n) = a /\ Says(n, f) THEN {n} ELSE {})
<1>1. b + 1..n = (b + 1..n - 1) \cup {n}
  OBVIOUS
<1> QED  BY <1>1 DEF Told

(* A line of another alternate adds nothing to what is said in this one.   *)
LEMMA ToldBefore ==
  ASSUME NEW b \in Nat, NEW n \in Nat, b < n, NEW a, AlternateOf(b, n) # a
  PROVE  \A f : Told(b, b + 1..n, a, f) = Told(b, b + 1..n - 1, a, f)
<1>1. b + 1..n = (b + 1..n - 1) \cup {n}
  OBVIOUS
<1> QED  BY <1>1 DEF Told

LEMMA ToldIn == \A b, L, a, f : Told(b, L, a, f) \subseteq L
  BY DEF Told

(* Nothing is said in an alternate that is not yet begun.                  *)
LEMMA NothingTold ==
  ASSUME NEW b \in Nat, NEW n \in Nat, NEW a \in Nat, AlternateOf(b, n) < a
  PROVE  \A f : Told(b, b + 1..n, a, f) = {}
<1>1. ASSUME NEW j \in b + 1..n
      PROVE  AlternateOf(b, j) \in Nat /\ AlternateOf(b, j) <= AlternateOf(b, n)
  <2>1. j \in Nat /\ j <= n
    OBVIOUS
  <2> QED  BY <2>1, AlternateGrows
<1>2. AlternateOf(b, n) \in Nat
  BY AlternateGrows
<1> QED  BY <1>1, <1>2 DEF Told

-----------------------------------------------------------------------------
(* What a section has, while it is read and when it has ended *)

(* A section that is being read has what its lines said.                   *)
RawIs(s, b, L, a) ==
  /\ DOMAIN s = Fields
  /\ \A f \in PlainFields \cup {"zport"} : s[f] = Max({Unset} \cup Told(b, L, a, f))
  /\ \A f \in ListFields : s[f] = Told(b, L, a, f)
  /\ s["qport"] = Unset <=> Told(b, L, a, "qport") = {}
  /\ s["fcall"] = -1 /\ s["fcalled"] = -1

(* An alternate has what its section or the first one said.                *)
ValuesAre(s, b, L, a) ==
  /\ \A f \in PlainFields : s[f] = Max({Unset} \cup Nearest(b, L, a, f))
  /\ \A f \in ListFields : s[f] = Nearest(b, L, a, f)
  /\ s["qport"] = Unset <=> Nearest(b, L, a, "qport") = {}
  /\ s["zport"] # Unset => Nearest(b, L, a, "zport") # {}
  /\ Nearest(b, L, a, "zport") # {} => s["zport"] # Unset \/ s["qport"] # Unset

(* And it says of itself whether its section said how or when to call.     *)
OwnIs(s, b, L, a) ==
  /\ Told(b, L, a, "qport") # {} /\ Told(b, L, a, "zport") = {} => s["zport"] = Unset
  /\ s["fcall"] = IF \E f \in HowToCall \cup {"timegrade"} : Told(b, L, a, f) # {} THEN 1 ELSE 0
  /\ s["fcalled"] \in {0, 1}

ClosedIs(s, b, L, a) == DOMAIN s = Fields /\ ValuesAre(s, b, L, a) /\ OwnIs(s, b, L, a)

(* What other lines do not change.                                         *)
LEMMA ClosedKept ==
  ASSUME NEW s, NEW b, NEW L, NEW M, NEW a, ClosedIs(s, b, L, a),
         \A f : Told(b, M, a, f) = Told(b, L, a, f) /\ Told(b, M, 1, f) = Told(b, L, 1, f)
  PROVE  ClosedIs(s, b, M, a)
<1>1. \A f : Nearest(b, M, a, f) = Nearest(b, L, a, f)
  BY DEF Nearest
<1>2. ValuesAre(s, b, M, a)
  BY <1>1 DEF ClosedIs, ValuesAre
<1>3. OwnIs(s, b, M, a)
  BY DEF ClosedIs, OwnIs
<1> QED  BY <1>2, <1>3 DEF ClosedIs

(* A section that says nothing yet.                                        *)
LEMMA ClearedIs ==
  ASSUME NEW b, NEW L, NEW a, \A f : Told(b, L, a, f) = {}
  PROVE  RawIs(Cleared, b, L, a)
<1>1. DOMAIN Cleared = Fields
  BY DEF Cleared
<1>2. \A f \in PlainFields \cup {"zport", "qport"} : Cleared[f] = Unset
  BY FieldNames DEF Cleared
<1>3. \A f \in ListFields : Cleared[f] = {}
  BY FieldNames DEF Cleared
<1>4. Cleared["fcall"] = -1 /\ Cleared["fcalled"] = -1
  BY FieldNames DEF Cleared
<1>5. Max({Unset}) = Unset
  BY GreatestIs DEF Unset
<1>6. {Unset} \cup {} = {Unset}
  OBVIOUS
<1> QED  BY <1>1, <1>2, <1>3, <1>4, <1>5, <1>6 DEF RawIs

(* A line that puts its number where it says something.                    *)
LEMMA RawNext ==
  ASSUME NEW b \in Nat, NEW n \in Nat, b < n, NEW a, AlternateOf(b, n) = a,
         NEW s, RawIs(s, b, b + 1..n - 1, a),
         NEW t, DOMAIN t = Fields,
         \A f \in PlainFields \cup {"zport"} : t[f] = IF Says(n, f) THEN n ELSE s[f],
         \A f \in ListFields : t[f] = IF Says(n, f) THEN s[f] \cup {n} ELSE s[f],
         t["qport"] = IF Says(n, "qport") /\ s["qport"] = Unset THEN n ELSE s["qport"],
         t["fcall"] = s["fcall"], t["fcalled"] = s["fcalled"]
  PROVE  RawIs(t, b, b + 1..n, a)
<1>1. \A f : Told(b, b + 1..n, a, f) =
               Told(b, b + 1..n - 1, a, f) \cup (IF Says(n, f) THEN {n} ELSE {})
  BY ToldNext
<1>2. \A f : Told(b, b + 1..n - 1, a, f) \subseteq 1..n - 1
  BY ToldIn
<1>3. ASSUME NEW f \in PlainFields \cup {"zport"}
      PROVE  t[f] = Max({Unset} \cup Told(b, b + 1..n, a, f))
  <2>1. s[f] = Max({Unset} \cup Told(b, b + 1..n - 1, a, f))
    BY DEF RawIs
  <2>2. CASE Says(n, f)
    <3>1. PICK T : T = Told(b, b + 1..n - 1, a, f)
      OBVIOUS
    <3>2. T \subseteq 1..n - 1 /\ n \in Nat \ {0}
      BY <1>2, <3>1
    <3>3. Max({Unset} \cup (T \cup {n})) = n
      BY <3>2, LastOfMore
    <3>4. Told(b, b + 1..n, a, f) = T \cup {n}
      BY <1>1, <2>2, <3>1
    <3> QED  BY <2>2, <3>3, <3>4
  <2>3. CASE ~Says(n, f)
    <3>1. Told(b, b + 1..n, a, f) = Told(b, b + 1..n - 1, a, f)
      BY <1>1, <2>3
    <3> QED  BY <2>1, <2>3, <3>1
  <2> QED  BY <2>2, <2>3
<1>4. ASSUME NEW f \in ListFields
      PROVE  t[f] = Told(b, b + 1..n, a, f)
  <2>1. s[f] = Told(b, b + 1..n - 1, a, f)
    BY DEF RawIs
  <2> QED  BY <1>1, <2>1
<1>5. t["qport"] = Unset <=> Told(b, b + 1..n, a, "qport") = {}
  <2>1. s["qport"] = Unset <=> Told(b, b + 1..n - 1, a, "qport") = {}
    BY DEF RawIs
  <2>2. n # Unset
    BY DEF Unset
  <2>3. CASE Says(n, "qport")
    <3>1. Told(b, b + 1..n, a, "qport") # {}
      BY <1>1, <2>3
    <3>2. t["qport"] # Unset
      BY <2>2, <2>3
    <3> QED  BY <3>1, <3>2
  <2>4. CASE ~Says(n, "qport")
    <3>1. Told(b, b + 1..n, a, "qport") = Told(b, b + 1..n - 1, a, "qport")
      BY <1>1, <2>4
    <3>2. t["qport"] = s["qport"]
      BY <2>4
    <3> QED  BY <2>1, <3>1, <3>2
  <2> QED  BY <2>3, <2>4
<1>6. t["fcall"] = -1 /\ t["fcalled"] = -1
  BY DEF RawIs
<1> QED  BY <1>3, <1>4, <1>5, <1>6 DEF RawIs

(* uiset_call keeps what a section has, and adds how it is used.           *)
LEMMA SetCallIs ==
  ASSUME NEW n \in Nat, NEW b \in Nat, NEW a, NEW L, L \subseteq 1..n,
         NEW s, RawIs(s, b, L, a)
  PROVE  /\ DOMAIN SetCall(s) = Fields
         /\ \A f \in Fields \ {"fcall", "fcalled"} : SetCall(s)[f] = s[f]
         /\ OwnIs(SetCall(s), b, L, a)
<1>1. PICK t : t = SetCall(s)
  OBVIOUS
<1>2. /\ DOMAIN t = Fields
      /\ \A f \in Fields \ {"fcall", "fcalled"} : t[f] = s[f]
      /\ t["fcall"] = (IF s["timegrade"] # {} \/ SaysHow(s) THEN 1 ELSE 0)
      /\ t["fcalled"] \in {0, 1}
  BY <1>1, FieldNames DEF SetCall, RawIs
<1>3. \A f \in {"zport", "baud", "phone", "qport"} : s[f] # Unset <=> Told(b, L, a, f) # {}
  <2>1. \A f \in {"zport", "baud", "phone"} : s[f] = Max({Unset} \cup Told(b, L, a, f))
    BY FieldNames DEF RawIs
  <2>2. \A f : Told(b, L, a, f) \subseteq 1..n
    BY ToldIn
  <2>3. \A f \in {"zport", "baud", "phone"} : s[f] # Unset <=> Told(b, L, a, f) # {}
    BY <2>1, <2>2, LastOf
  <2>4. s["qport"] = Unset <=> Told(b, L, a, "qport") = {}
    BY DEF RawIs
  <2> QED  BY <2>3, <2>4
<1>4. s["timegrade"] = Told(b, L, a, "timegrade")
  BY FieldNames DEF RawIs
<1>5. (s["timegrade"] # {} \/ SaysHow(s))
         <=> \E f \in HowToCall \cup {"timegrade"} : Told(b, L, a, f) # {}
  BY <1>3, <1>4, FieldNames DEF SaysHow
<1>6. Told(b, L, a, "zport") = {} => t["zport"] = Unset
  BY <1>2, <1>3, FieldNames
<1>7. OwnIs(t, b, L, a)
  BY <1>2, <1>5, <1>6 DEF OwnIs
<1> QED  BY <1>1, <1>2, <1>7

LEMMA FirstCloses ==
  ASSUME NEW n \in Nat, NEW b \in Nat, NEW L, L \subseteq 1..n, NEW s, RawIs(s, b, L, 1)
  PROVE  ClosedIs(SetCall(s), b, L, 1)
<1>1. PICK t : t = SetCall(s)
  OBVIOUS
<1>2. /\ DOMAIN t = Fields
      /\ \A f \in Fields \ {"fcall", "fcalled"} : t[f] = s[f]
      /\ OwnIs(t, b, L, 1)
  <2>1. /\ DOMAIN SetCall(s) = Fields
        /\ \A f \in Fields \ {"fcall", "fcalled"} : SetCall(s)[f] = s[f]
        /\ OwnIs(SetCall(s), b, L, 1)
    BY SetCallIs, Zenon
  <2> QED  BY <1>1, <2>1
<1>3. \A f : Nearest(b, L, 1, f) = Told(b, L, 1, f)
  BY DEF Nearest
<1>4. \A f \in PlainFields : t[f] = Max({Unset} \cup Nearest(b, L, 1, f))
  BY <1>2, <1>3, FieldNames DEF RawIs
<1>5. \A f \in ListFields : t[f] = Nearest(b, L, 1, f)
  BY <1>2, <1>3, FieldNames DEF RawIs
<1>6. t["qport"] = Unset <=> Nearest(b, L, 1, "qport") = {}
  BY <1>2, <1>3, FieldNames DEF RawIs
<1>7. t["zport"] = Unset <=> Nearest(b, L, 1, "zport") = {}
  <2>1. t["zport"] = Max({Unset} \cup Told(b, L, 1, "zport"))
    BY <1>2, FieldNames DEF RawIs
  <2>2. Told(b, L, 1, "zport") \subseteq 1..n
    BY ToldIn
  <2> QED  BY <1>3, <2>1, <2>2, LastOf
<1>8. ValuesAre(t, b, L, 1)
  BY <1>4, <1>5, <1>6, <1>7 DEF ValuesAre
<1> QED  BY <1>1, <1>2, <1>8 DEF ClosedIs

(* What a field has after the defaults of another section were put in.     *)
LEMMA DefaultedIs ==
  ASSUME NEW s, NEW d
  PROVE  /\ DOMAIN Defaulted(s, d) = Fields
         /\ \A f \in PlainFields \cup {"qport"} :
              Defaulted(s, d)[f] = IF s[f] = Unset THEN d[f] ELSE s[f]
         /\ \A f \in ListFields : Defaulted(s, d)[f] = IF s[f] = {} THEN d[f] ELSE s[f]
         /\ Defaulted(s, d)["zport"] = IF s["zport"] = Unset /\ s["qport"] = Unset
                                       THEN d["zport"] ELSE s["zport"]
         /\ \A f \in {"fcall", "fcalled"} : Defaulted(s, d)[f] = IF s[f] < 0 THEN d[f] ELSE s[f]
<1>1. DOMAIN Defaulted(s, d) = Fields
  BY DEF Defaulted
<1>2. ASSUME NEW f \in PlainFields \cup {"qport"}
      PROVE  Defaulted(s, d)[f] = IF s[f] = Unset THEN d[f] ELSE s[f]
  <2>1. f \in Fields /\ f \notin ListFields \cup {"zport", "fcall", "fcalled"}
    BY FieldNames
  <2> QED  BY <2>1 DEF Defaulted
<1>3. ASSUME NEW f \in ListFields
      PROVE  Defaulted(s, d)[f] = IF s[f] = {} THEN d[f] ELSE s[f]
  <2>1. f \in Fields /\ f \notin {"zport", "fcall", "fcalled"}
    BY FieldNames
  <2> QED  BY <2>1 DEF Defaulted
<1>4. Defaulted(s, d)["zport"] = IF s["zport"] = Unset /\ s["qport"] = Unset
                                 THEN d["zport"] ELSE s["zport"]
  <2>1. "zport" \in Fields /\ "zport" \notin ListFields
    BY FieldNames
  <2> QED  BY <2>1 DEF Defaulted
<1>5. ASSUME NEW f \in {"fcall", "fcalled"}
      PROVE  Defaulted(s, d)[f] = IF s[f] < 0 THEN d[f] ELSE s[f]
  <2>1. f \in Fields /\ f \notin ListFields
    BY FieldNames
  <2> QED  BY <2>1 DEF Defaulted
<1> QED  BY <1>1, <1>2, <1>3, <1>4, <1>5

(* A later section takes from the first what it does not say.              *)
LEMMA LaterCloses ==
  ASSUME NEW n \in Nat, NEW b \in Nat, NEW L, L \subseteq 1..n, NEW a,
         NEW s, RawIs(s, b, L, a), NEW e, ClosedIs(e, b, L, 1)
  PROVE  ClosedIs(Defaulted(SetCall(s), e), b, L, a)
<1>1. PICK t, z : t = SetCall(s) /\ z = Defaulted(t, e)
  OBVIOUS
<1>2. /\ \A f \in Fields \ {"fcall", "fcalled"} : t[f] = s[f]
      /\ OwnIs(t, b, L, a)
  <2>1. /\ DOMAIN SetCall(s) = Fields
        /\ \A f \in Fields \ {"fcall", "fcalled"} : SetCall(s)[f] = s[f]
        /\ OwnIs(SetCall(s), b, L, a)
    BY SetCallIs, Zenon
  <2> QED  BY <1>1, <2>1
<1>3. /\ DOMAIN z = Fields
      /\ \A f \in PlainFields \cup {"qport"} : z[f] = IF t[f] = Unset THEN e[f] ELSE t[f]
      /\ \A f \in ListFields : z[f] = IF t[f] = {} THEN e[f] ELSE t[f]
      /\ z["zport"] = IF t["zport"] = Unset /\ t["qport"] = Unset THEN e["zport"] ELSE t["zport"]
      /\ \A f \in {"fcall", "fcalled"} : z[f] = IF t[f] < 0 THEN e[f] ELSE t[f]
  BY <1>1, DefaultedIs
<1>4. \A f : Nearest(b, L, 1, f) = Told(b, L, 1, f)
  BY DEF Nearest
<1>5. \A f : Told(b, L, a, f) \subseteq 1..n
  BY ToldIn
<1>6. \A f \in PlainFields \cup {"zport"} :
        t[f] = Max({Unset} \cup Told(b, L, a, f)) /\ (t[f] = Unset <=> Told(b, L, a, f) = {})
  <2>1. \A f \in PlainFields \cup {"zport"} : t[f] = Max({Unset} \cup Told(b, L, a, f))
    BY <1>2, FieldNames DEF RawIs
  <2> QED  BY <1>5, <2>1, LastOf
<1>7. ASSUME NEW f \in PlainFields
      PROVE  z[f] = Max({Unset} \cup Nearest(b, L, a, f))
  <2>1. z[f] = IF t[f] = Unset THEN e[f] ELSE t[f]
    BY <1>3
  <2>2. e[f] = Max({Unset} \cup Told(b, L, 1, f))
    BY <1>4 DEF ClosedIs, ValuesAre
  <2> QED  BY <1>6, <2>1, <2>2 DEF Nearest
<1>8. ASSUME NEW f \in ListFields
      PROVE  z[f] = Nearest(b, L, a, f)
  <2>1. z[f] = IF t[f] = {} THEN e[f] ELSE t[f]
    BY <1>3
  <2>2. e[f] = Told(b, L, 1, f)
    BY <1>4 DEF ClosedIs, ValuesAre
  <2>3. t[f] = Told(b, L, a, f)
    BY <1>2, FieldNames DEF RawIs
  <2> QED  BY <2>1, <2>2, <2>3 DEF Nearest
<1>9. t["qport"] = Unset <=> Told(b, L, a, "qport") = {}
  BY <1>2, FieldNames DEF RawIs
<1>10. e["qport"] = Unset <=> Told(b, L, 1, "qport") = {}
  BY <1>4 DEF ClosedIs, ValuesAre
<1>11. z["qport"] = Unset <=> Nearest(b, L, a, "qport") = {}
  <2>1. z["qport"] = IF t["qport"] = Unset THEN e["qport"] ELSE t["qport"]
    BY <1>3
  <2> QED  BY <1>9, <1>10, <2>1 DEF Nearest
<1>12. /\ e["zport"] # Unset => Told(b, L, 1, "zport") # {}
       /\ Told(b, L, 1, "zport") # {} => e["zport"] # Unset \/ e["qport"] # Unset
  BY <1>4 DEF ClosedIs, ValuesAre
<1>13. t["zport"] = Unset <=> Told(b, L, a, "zport") = {}
  BY <1>6
<1>14. /\ z["zport"] # Unset => Nearest(b, L, a, "zport") # {}
       /\ Nearest(b, L, a, "zport") # {} => z["zport"] # Unset \/ z["qport"] # Unset
  <2>1. z["qport"] = IF t["qport"] = Unset THEN e["qport"] ELSE t["qport"]
    BY <1>3
  <2> QED  BY <1>3, <1>12, <1>13, <2>1 DEF Nearest
<1>15. ValuesAre(z, b, L, a)
  BY <1>7, <1>8, <1>11, <1>14 DEF ValuesAre
<1>16. OwnIs(z, b, L, a)
  <2>1. t["fcall"] \in {0, 1} /\ t["fcalled"] \in {0, 1}
    BY <1>2 DEF OwnIs
  <2>2. z["fcall"] = t["fcall"] /\ z["fcalled"] = t["fcalled"]
    BY <1>3, <2>1
  <2>3. Told(b, L, a, "qport") # {} /\ Told(b, L, a, "zport") = {} => z["zport"] = Unset
    BY <1>3, <1>9, <1>13
  <2> QED  BY <1>2, <2>2, <2>3 DEF OwnIs
<1> QED  BY <1>1, <1>3, <1>15, <1>16 DEF ClosedIs

-----------------------------------------------------------------------------
(* The types *)

Value == -1..Len(sysLines)
Section ==
  {s \in [Fields -> Value \cup SUBSET Value] :
     /\ \A f \in ListFields : s[f] \subseteq Value
     /\ \A f \in Fields \ ListFields : s[f] \in Value}
Place == [name : STRING, falias : BOOLEAN, iloc : Nat]

SysTypes ==
  /\ sysLines \in Seq([cmd : STRING, arg : STRING])
  /\ sysLocs \in Seq(Place)
  /\ syslocsRead \in BOOLEAN
  /\ sysPc \in {"idle", "locations", "find", "defaults", "system"}
  /\ sysLine \in 1..Len(sysLines) + 1
  /\ nAsked \in 0..MaxAsked
  /\ iloc \in 0..Len(sysLines)
  /\ section \in Section /\ earlier \in Seq(Section)
  /\ defaultAlternates \in BOOLEAN
  /\ sdefaults \in Seq(Section) /\ sysInfo \in Seq(Section)

LEMMA SectionHas ==
  ASSUME NEW s \in Section
  PROVE  /\ DOMAIN s = Fields
         /\ \A f \in ListFields : s[f] \subseteq Value
         /\ \A f \in Fields \ ListFields : s[f] \in Value
  BY DEF Section

LEMMA SectionMade ==
  ASSUME NEW s, s = [f \in Fields |-> s[f]],
         \A f \in ListFields : s[f] \subseteq Value,
         \A f \in Fields \ ListFields : s[f] \in Value
  PROVE  s \in Section
<1>1. \A f \in Fields : s[f] \in Value \cup SUBSET Value
  <2>1. ASSUME NEW f \in Fields
        PROVE  s[f] \in Value \cup SUBSET Value
    <3>1. CASE f \in ListFields
      <4>1. s[f] \in SUBSET Value
        BY <3>1
      <4> QED  BY <4>1
    <3>2. CASE f \notin ListFields
      BY <3>2
    <3> QED  BY <3>1, <3>2
  <2> QED  BY <2>1
<1>2. s \in [Fields -> Value \cup SUBSET Value]
  BY <1>1
<1> QED  BY <1>2 DEF Section

LEMMA SmallValues ==
  ASSUME sysLines \in Seq([cmd : STRING, arg : STRING])
  PROVE  /\ Len(sysLines) \in Nat
         /\ Unset \in Value /\ Builtin \in Value /\ 0 \in Value
         /\ 1..Len(sysLines) \subseteq Value
<1>1. Len(sysLines) \in Nat
  OBVIOUS
<1> QED  BY <1>1 DEF Value, Unset, Builtin

LEMMA ClearedTyped ==
  ASSUME sysLines \in Seq([cmd : STRING, arg : STRING])
  PROVE  Cleared \in Section
<1>1. \A f \in ListFields : Cleared[f] = {}
  BY FieldNames DEF Cleared
<1>2. \A f \in Fields \ ListFields : Cleared[f] \in {-1, Unset}
  BY FieldNames DEF Cleared
<1>3. \A f \in ListFields : Cleared[f] \subseteq Value
  BY <1>1
<1>4. \A f \in Fields \ ListFields : Cleared[f] \in Value
  BY <1>2, SmallValues DEF Builtin
<1>5. Cleared = [f \in Fields |-> Cleared[f]]
  BY DEF Cleared
<1> QED  BY <1>3, <1>4, <1>5, SectionMade

LEMMA SetCallTyped ==
  ASSUME sysLines \in Seq([cmd : STRING, arg : STRING]), Len(sysLines) > 0,
         NEW s \in Section
  PROVE  SetCall(s) \in Section
<1>1. PICK t : t = SetCall(s)
  OBVIOUS
<1>2. 0 \in Value /\ 1 \in Value
  BY SmallValues
<1>3. DOMAIN s = Fields
  BY SectionHas
<1>4. /\ t = [f \in Fields |-> t[f]]
      /\ \A f \in Fields \ {"fcall", "fcalled"} : t[f] = s[f]
      /\ t["fcall"] \in {0, 1} /\ t["fcalled"] \in {0, 1}
  BY <1>1, <1>3, FieldNames DEF SetCall
<1>5. \A f \in ListFields : t[f] \subseteq Value
  BY <1>4, SectionHas, FieldNames
<1>6. \A f \in Fields \ ListFields : t[f] \in Value
  <2>1. \A f \in Fields \ ListFields : s[f] \in Value
    BY SectionHas
  <2> QED  BY <1>2, <1>4, <2>1
<1> QED  BY <1>1, <1>4, <1>5, <1>6, SectionMade

LEMMA DefaultedTyped ==
  ASSUME NEW s \in Section, NEW d \in Section
  PROVE  Defaulted(s, d) \in Section
<1>1. PICK t : t = Defaulted(s, d)
  OBVIOUS
<1>2. \A f \in ListFields : s[f] \subseteq Value /\ d[f] \subseteq Value
  BY SectionHas
<1>3. \A f \in Fields \ ListFields : s[f] \in Value /\ d[f] \in Value
  BY SectionHas
<1>4. t = [f \in Fields |-> t[f]]
  BY <1>1 DEF Defaulted
<1>5. \A f \in Fields : t[f] = s[f] \/ t[f] = d[f]
  BY <1>1 DEF Defaulted
<1>6. \A f \in ListFields : t[f] \subseteq Value
  BY <1>2, <1>5, FieldNames
<1>7. \A f \in Fields \ ListFields : t[f] \in Value
  BY <1>3, <1>5
<1> QED  BY <1>1, <1>4, <1>6, <1>7, SectionMade

LEMMA BasicTyped ==
  ASSUME sysLines \in Seq([cmd : STRING, arg : STRING]), NEW s \in Section
  PROVE  BasicDefault(s) \in Section
<1>1. PICK t : t = BasicDefault(s)
  OBVIOUS
<1>2. t = [f \in Fields |-> t[f]]
  BY <1>1 DEF BasicDefault
<1>3. \A f \in Fields : t[f] = s[f] \/ (f \notin ListFields /\ t[f] = Builtin)
  BY <1>1, FieldNames DEF BasicDefault
<1>4. \A f \in ListFields : t[f] \subseteq Value
  BY <1>3, SectionHas, FieldNames
<1>5. \A f \in Fields \ ListFields : t[f] \in Value
  BY <1>3, SectionHas, SmallValues
<1> QED  BY <1>1, <1>2, <1>4, <1>5, SectionMade

LEMMA FirstCalledTyped ==
  ASSUME sysLines \in Seq([cmd : STRING, arg : STRING]), Len(sysLines) > 0,
         NEW s \in Section
  PROVE  FirstCalled(s) \in Section
<1>1. PICK t : t = FirstCalled(s)
  OBVIOUS
<1>2. 1 \in Value
  BY SmallValues
<1>3. DOMAIN s = Fields
  BY SectionHas
<1>4. /\ t = [f \in Fields |-> t[f]]
      /\ \A f \in Fields \ {"fcall", "fcalled"} : t[f] = s[f]
      /\ t["fcall"] \in {s["fcall"], 1} /\ t["fcalled"] = 1
  BY <1>1, <1>3, FieldNames DEF FirstCalled
<1>5. \A f \in ListFields : t[f] \subseteq Value
  BY <1>4, SectionHas, FieldNames
<1>6. \A f \in Fields \ ListFields : t[f] \in Value
  <2>1. \A f \in Fields \ ListFields : s[f] \in Value
    BY SectionHas
  <2>2. t["fcall"] \in Value /\ t["fcalled"] \in Value
    BY <1>2, <1>4, <2>1, FieldNames
  <2> QED  BY <1>4, <2>1, <2>2
<1> QED  BY <1>1, <1>4, <1>5, <1>6, SectionMade

-----------------------------------------------------------------------------
(* The sections of a block, as they are read *)

Begin == IF sysPc = "defaults" THEN 0 ELSE iloc
LinesRead == Begin + 1..sysLine - 1

(* The last "default-alternates" of some lines.                            *)
Chosen(L) ==
  LET said == {j \in L : sysLines[j].cmd = "default-alternates"}
  IN  said = {} \/ sysLines[Max(said)].arg = "true"
ChosenLines == IF sysPc = "defaults" THEN LinesRead ELSE BlockOf(0) \cup LinesRead

(* A block that was read: its alternates have what their lines say.        *)
WholeIs(q, b) ==
  /\ Len(q) = AlternatesOf(b) /\ Len(q) \in Nat \ {0}
  /\ \A a \in 1..Len(q) : ClosedIs(q[a], b, BlockOf(b), a)

(* What is in memory of a block that is being read.                        *)
SectionsInv(b, n, s, e) ==
  /\ Len(e) + 1 = AlternateOf(b, n)
  /\ RawIs(s, b, b + 1..n, AlternateOf(b, n))
  /\ \A a \in 1..Len(e) : ClosedIs(e[a], b, b + 1..n, a)

BlockInv ==
  sysPc \in {"defaults", "system"} =>
    /\ Begin < sysLine
    /\ \A j \in LinesRead : sysLines[j].cmd # "system"
    /\ SectionsInv(Begin, sysLine - 1, section, earlier)
    /\ sysPc = "system" => WholeIs(sdefaults, 0)
    /\ defaultAlternates <=> Chosen(ChosenLines)

(* The next line is in the same section.                                   *)
LEMMA SameSection ==
  ASSUME NEW b \in Nat, NEW n \in Nat, b < n, NEW s, NEW e, NEW X, e \in Seq(X),
         SectionsInv(b, n - 1, s, e), sysLines[n].cmd # "alternate",
         NEW t, DOMAIN t = Fields,
         \A f \in PlainFields \cup {"zport"} : t[f] = IF Says(n, f) THEN n ELSE s[f],
         \A f \in ListFields : t[f] = IF Says(n, f) THEN s[f] \cup {n} ELSE s[f],
         t["qport"] = IF Says(n, "qport") /\ s["qport"] = Unset THEN n ELSE s["qport"],
         t["fcall"] = s["fcall"], t["fcalled"] = s["fcalled"]
  PROVE  SectionsInv(b, n, t, e)
<1>1. PICK k \in Nat \ {0} : k = AlternateOf(b, n) /\ k = AlternateOf(b, n - 1)
  <2>1. n <= n
    OBVIOUS
  <2> QED  BY <2>1, AlternateGrows, AlternateNext
<1>2. Len(e) + 1 = k
  BY <1>1 DEF SectionsInv
<1>3. RawIs(s, b, b + 1..n - 1, k)
  BY <1>1 DEF SectionsInv
<1>4. RawIs(t, b, b + 1..n, k)
  BY <1>1, <1>3, RawNext
<1>5. ASSUME NEW a \in 1..Len(e)
      PROVE  ClosedIs(e[a], b, b + 1..n, a)
  <2>1. a # k /\ 1 # k
    BY <1>2
  <2>2. \A f : /\ Told(b, b + 1..n, a, f) = Told(b, b + 1..n - 1, a, f)
               /\ Told(b, b + 1..n, 1, f) = Told(b, b + 1..n - 1, 1, f)
    <3>1. AlternateOf(b, n) # a /\ AlternateOf(b, n) # 1
      BY <1>1, <2>1
    <3>2. \A f : Told(b, b + 1..n, a, f) = Told(b, b + 1..n - 1, a, f)
      BY <3>1, ToldBefore
    <3>3. \A f : Told(b, b + 1..n, 1, f) = Told(b, b + 1..n - 1, 1, f)
      BY <3>1, ToldBefore
    <3> QED  BY <3>2, <3>3
  <2>3. ClosedIs(e[a], b, b + 1..n - 1, a)
    BY DEF SectionsInv
  <2> QED  BY <2>2, <2>3, ClosedKept
<1> QED  BY <1>1, <1>2, <1>4, <1>5 DEF SectionsInv

(* WithSection closes the section.                                         *)
LEMMA SectionCloses ==
  ASSUME sysLines \in Seq([cmd : STRING, arg : STRING]), Len(sysLines) > 0,
         section \in Section, earlier \in Seq(Section),
         NEW b \in Nat, NEW n \in Nat, SectionsInv(b, n, section, earlier)
  PROVE  /\ WithSection \in Seq(Section)
         /\ Len(WithSection) = AlternateOf(b, n)
         /\ \A a \in 1..Len(WithSection) : ClosedIs(WithSection[a], b, b + 1..n, a)
<1>0. b + 1..n \subseteq 1..n
  OBVIOUS
<1>1. PICK k \in Nat \ {0} : k = AlternateOf(b, n)
  <2>1. n <= n
    OBVIOUS
  <2> QED  BY <2>1, AlternateGrows
<1>2. Len(earlier) + 1 = k /\ RawIs(section, b, b + 1..n, k)
  BY <1>1 DEF SectionsInv
<1>3. CASE earlier = <<>>
  <2>1. k = 1 /\ WithSection = <<SetCall(section)>>
    BY <1>2, <1>3 DEF WithSection
  <2>2. ClosedIs(SetCall(section), b, b + 1..n, 1)
    BY <1>0, <1>2, <2>1, FirstCloses
  <2>3. PICK t : t = SetCall(section)
    OBVIOUS
  <2>4. t \in Section
    BY <2>3, SetCallTyped
  <2>5. <<t>> \in Seq(Section) /\ Len(<<t>>) = 1 /\ <<t>>[1] = t /\ 1..1 = {1}
    BY <2>4
  <2> QED  BY <1>1, <2>1, <2>2, <2>3, <2>5
<1>4. CASE earlier # <<>>
  <2>1. Len(earlier) \in Nat \ {0}
    BY <1>4
  <2>2. PICK z : z = Defaulted(SetCall(section), earlier[1])
    OBVIOUS
  <2>3. SystemDefault(<<SetCall(section)>>, earlier, FALSE) = <<z>>
    <3>1. PICK t : t = SetCall(section)
      OBVIOUS
    <3>2. Alternates(<<t>>, earlier, FALSE) = 1..1
      BY DEF Alternates
    <3>3. OrFirst(<<t>>, 1) = t
      BY DEF OrFirst
    <3>4. OrLast(earlier, 1) = earlier[1]
      <4>1. {1, Len(earlier)} \subseteq Nat /\ {1, Len(earlier)} # {}
        BY <2>1
      <4>2. /\ Min({1, Len(earlier)}) \in {1, Len(earlier)}
            /\ \A y \in {1, Len(earlier)} : Min({1, Len(earlier)}) <= y
        BY ONLY <4>1, LeastIs
      <4>3. Min({1, Len(earlier)}) = 1
        BY ONLY <2>1, <4>2
      <4> QED  BY <4>3 DEF OrLast
    <3>5. SystemDefault(<<t>>, earlier, FALSE) = [i \in 1..1 |-> z]
      <4>1. \A i \in 1..1 : Defaulted(OrFirst(<<t>>, i), OrLast(earlier, i)) = z
        BY <2>2, <3>1, <3>3, <3>4
      <4> QED  BY <3>2, <4>1 DEF SystemDefault
    <3>6. [i \in 1..1 |-> z] = <<z>>
      OBVIOUS
    <3> QED  BY <3>1, <3>5, <3>6
  <2>4. WithSection = earlier \o <<z>>
    BY <1>4, <2>3 DEF WithSection
  <2>5. WithSection = Append(earlier, z)
    <3>1. earlier \o <<z>> = Append(earlier, z)
      OBVIOUS
    <3> QED  BY <2>4, <3>1
  <2>7. z \in Section
    <3>1. earlier[1] \in Section
      BY <2>1
    <3>2. SetCall(section) \in Section
      BY SetCallTyped
    <3> QED  BY <2>2, <3>1, <3>2, DefaultedTyped
  <2>8. PICK q : q = WithSection
    OBVIOUS
  <2>9. /\ q \in Seq(Section) /\ Len(q) = Len(earlier) + 1 /\ q[Len(earlier) + 1] = z
        /\ \A a \in 1..Len(earlier) : q[a] = earlier[a]
    BY <2>5, <2>7, <2>8, AppendProperties
  <2>10. ClosedIs(z, b, b + 1..n, k)
    <3>1. ClosedIs(earlier[1], b, b + 1..n, 1)
      BY <2>1 DEF SectionsInv
    <3> QED  BY <1>0, <1>2, <2>2, <3>1, LaterCloses
  <2>11. ASSUME NEW a \in 1..Len(q)
         PROVE  ClosedIs(q[a], b, b + 1..n, a)
    <3>1. CASE a = k
      BY <1>2, <2>9, <2>10, <3>1
    <3>2. CASE a # k
      <4>1. a \in 1..Len(earlier)
        BY <1>2, <2>1, <2>9, <3>2
      <4> QED  BY <2>9, <4>1 DEF SectionsInv
    <3> QED  BY <3>1, <3>2
  <2> QED  BY <1>1, <1>2, <2>8, <2>9, <2>11
<1> QED  BY <1>3, <1>4

(* "alternate" begins a section that says at most its name.                *)
LEMMA NextSection ==
  ASSUME NEW b \in Nat, NEW n \in Nat, b < n, NEW e, NEW Y, e \in Seq(Y),
         Len(e) = AlternateOf(b, n - 1),
         \A a \in 1..Len(e) : ClosedIs(e[a], b, b + 1..n - 1, a),
         sysLines[n].cmd = "alternate",
         NEW t, DOMAIN t = Fields, \A f \in Fields \ {"zalternate"} : t[f] = Cleared[f],
         t["zalternate"] = IF sysLines[n].arg = "" THEN Unset ELSE n
  PROVE  SectionsInv(b, n, t, e)
<1>0. PICK m, k : m = AlternateOf(b, n - 1) /\ k = AlternateOf(b, n)
  OBVIOUS
<1>1. m \in Nat \ {0} /\ k \in Nat \ {0} /\ k = m + 1
  <2>1. n - 1 \in Nat /\ n - 1 <= n /\ n <= n
    <3>1. n \in Nat /\ b \in Nat /\ b < n
      OBVIOUS
    <3> QED  BY ONLY <3>1
  <2>2. AlternateOf(b, n - 1) \in Nat \ {0} /\ AlternateOf(b, n) \in Nat \ {0}
    BY <2>1, AlternateGrows
  <2>3. AlternateOf(b, n) = AlternateOf(b, n - 1) + 1
    BY AlternateNext
  <2> QED  BY <1>0, <2>2, <2>3
<1>2. Len(e) + 1 = k /\ Len(e) = m
  BY <1>0, <1>1
<1>3. RawIs(Cleared, b, b + 1..n - 1, k)
  <2>1. n - 1 \in Nat
    <3>1. n \in Nat /\ b \in Nat /\ b < n
      OBVIOUS
    <3> QED  BY ONLY <3>1
  <2>2. \A f : Told(b, b + 1..n - 1, k, f) = {}
    <3>1. k \in Nat /\ m < k
      BY ONLY <1>1
    <3>2. AlternateOf(b, n - 1) < k
      BY ONLY <1>0, <3>1
    <3> QED  BY <2>1, <3>1, <3>2, NothingTold
  <2> QED  BY <2>2, ClearedIs
<1>4. FieldsOf("alternate") = {} /\ ListOf("alternate") = {}
  BY OtherCommands
<1>5. \A f : Says(n, f) <=> f = "zalternate" /\ sysLines[n].arg # ""
  BY <1>4 DEF Says
<1>6. Cleared["zalternate"] = Unset
  BY FieldNames DEF Cleared
<1>8. \A f \in PlainFields \cup {"zport"} : t[f] = IF Says(n, f) THEN n ELSE Cleared[f]
  BY <1>5, <1>6, FieldNames
<1>9. \A f \in ListFields : t[f] = IF Says(n, f) THEN Cleared[f] \cup {n} ELSE Cleared[f]
  <2>1. \A f \in ListFields : f \in Fields /\ f # "zalternate"
    BY FieldNames
  <2> QED  BY <1>5, <2>1
<1>10. t["qport"] = IF Says(n, "qport") /\ Cleared["qport"] = Unset THEN n ELSE Cleared["qport"]
  BY <1>5, FieldNames
<1>11. t["fcall"] = Cleared["fcall"] /\ t["fcalled"] = Cleared["fcalled"]
  BY FieldNames
<1>12. RawIs(t, b, b + 1..n, k)
  BY <1>0, <1>1, <1>3, <1>8, <1>9, <1>10, <1>11, RawNext
<1>13. ASSUME NEW a \in 1..Len(e)
       PROVE  ClosedIs(e[a], b, b + 1..n, a)
  <2>1. a # k /\ 1 # k
    <3>1. a \in 1..m
      BY <1>2
    <3> QED  BY ONLY <1>1, <3>1
  <2>2. \A f : /\ Told(b, b + 1..n, a, f) = Told(b, b + 1..n - 1, a, f)
               /\ Told(b, b + 1..n, 1, f) = Told(b, b + 1..n - 1, 1, f)
    <3>1. AlternateOf(b, n) # a /\ AlternateOf(b, n) # 1
      BY <1>0, <2>1
    <3>2. \A f : Told(b, b + 1..n, a, f) = Told(b, b + 1..n - 1, a, f)
      BY <3>1, ToldBefore, ZenonT(60)
    <3>3. \A f : Told(b, b + 1..n, 1, f) = Told(b, b + 1..n - 1, 1, f)
      BY <3>1, ToldBefore, ZenonT(60)
    <3> QED  BY <3>2, <3>3
  <2> QED  BY <2>2, ClosedKept
<1> QED  BY <1>0, <1>2, <1>12, <1>13 DEF SectionsInv

(* Before the first line.                                                  *)
LEMMA FirstSection ==
  ASSUME NEW b \in Nat
  PROVE  SectionsInv(b, b, Cleared, <<>>)
<1>1. AlternateOf(b, b) = 1
  BY AlternateFirst
<1>2. b + 1..b = {} /\ \A f : Told(b, {}, 1, f) = {}
  BY DEF Told
<1>3. RawIs(Cleared, b, b + 1..b, 1)
  BY <1>2, ClearedIs
<1>4. Len(<<>>) = 0 /\ 1..Len(<<>>) = {}
  OBVIOUS
<1> QED  BY <1>1, <1>3, <1>4 DEF SectionsInv

(* A block that ends: the number of its alternates.                        *)
LEMMA BlockEnds ==
  ASSUME NEW b \in Nat, NEW n \in Nat, b <= n, n <= Len(sysLines), Len(sysLines) \in Nat,
         \A j \in b + 1..n : sysLines[j].cmd # "system",
         n < Len(sysLines) => sysLines[n + 1].cmd = "system"
  PROVE  BlockOf(b) = b + 1..n /\ AlternatesOf(b) = AlternateOf(b, n)
<1>1. BlockOf(b) = b + 1..n
  BY DEF BlockOf
<1>2. AlternateOf(b, n) \in Nat \ {0}
  <2>1. n <= n
    OBVIOUS
  <2> QED  BY <2>1, AlternateGrows
<1>3. \A j \in b + 1..n : AlternateOf(b, j) \in Nat \ {0} /\ AlternateOf(b, j) <= AlternateOf(b, n)
  <2>1. \A j \in b + 1..n : j \in Nat /\ j <= n
    OBVIOUS
  <2> QED  BY <2>1, AlternateGrows
<1>4. PICK S : S = {1} \cup {AlternateOf(b, j) : j \in b + 1..n}
  OBVIOUS
<1>5. S \subseteq Int /\ \A y \in S : AlternateOf(b, n) >= y
  BY <1>2, <1>3, <1>4
<1>6. AlternateOf(b, n) \in S
  <2>1. CASE b = n
    BY <1>4, <2>1, AlternateFirst
  <2>2. CASE b # n
    <3>1. n \in b + 1..n
      BY <2>2
    <3> QED  BY <1>4, <3>1
  <2> QED  BY <2>1, <2>2
<1>7. Max(S) = AlternateOf(b, n)
  BY <1>5, <1>6, GreatestIs
<1> QED  BY <1>1, <1>4, <1>7 DEF AlternatesOf

-----------------------------------------------------------------------------
(* The places of the systems *)

NamesSystem(k) == sysLines[k].cmd \in {"system", "alias"}

(* The list has the lines that name a system, up to line n, the last first. *)
LocatedUpTo(n) ==
  /\ \A i \in 1..Len(sysLocs) :
       /\ sysLocs[i].iloc \in 1..n /\ NamesSystem(sysLocs[i].iloc)
       /\ sysLocs[i] = Location(sysLocs[i].iloc)
  /\ \A i, j \in 1..Len(sysLocs) : i < j => sysLocs[i].iloc > sysLocs[j].iloc
  /\ \A k \in 1..n : NamesSystem(k) => \E i \in 1..Len(sysLocs) : sysLocs[i].iloc = k

LocInv ==
  /\ sysPc = "locations" => ~syslocsRead /\ LocatedUpTo(sysLine - 1)
  /\ sysPc \in {"find", "defaults", "system"} => syslocsRead
  /\ ~syslocsRead /\ sysPc # "locations" => sysLocs = <<>>
  /\ syslocsRead => sysLocs = <<>> \/ LocatedUpTo(Len(sysLines))

LEMMA NoneLocated ==
  ASSUME sysLocs = <<>>
  PROVE  LocatedUpTo(0)
<1>1. 1..Len(sysLocs) = {} /\ 1..0 = {}
  OBVIOUS
<1> QED  BY <1>1 DEF LocatedUpTo

NamedTo(n) == {k \in 1..n : NamesSystem(k)}
PlacesIn(Q) == {i \in 1..Len(sysLocs) : sysLocs[i].iloc \in Q}

(* The first in the list of those that come at or behind the place m and   *)
(* that Q has is the last line up to the one at m that Q has.              *)
LEMMA FirstIsLast ==
  ASSUME NEW n \in Nat, sysLocs \in Seq(Place), LocatedUpTo(n),
         NEW Q, Q \subseteq NamedTo(n)
  PROVE  /\ PlacesIn(Q) = {} <=> Q = {}
         /\ PlacesIn(Q) # {} => /\ sysLocs[Min(PlacesIn(Q))].iloc = Max(Q)
                               /\ Min(PlacesIn(Q)) \in PlacesIn(Q)
<1>0. Len(sysLocs) \in Nat /\ Q \subseteq 1..n /\ Q \subseteq Int
  BY DEF NamedTo
<1>1. PICK I : I = PlacesIn(Q)
  OBVIOUS
<1>2. I = {i \in 1..Len(sysLocs) : sysLocs[i].iloc \in Q}
  BY <1>1 DEF PlacesIn
<1>3. I = {} <=> Q = {}
  BY <1>2 DEF LocatedUpTo, NamedTo
<1>4. ASSUME I # {}
      PROVE  sysLocs[Min(I)].iloc = Max(Q) /\ Min(I) \in I
  <2>1. I \subseteq Nat
    BY <1>0, <1>2
  <2>2. Min(I) \in I /\ \A i \in I : Min(I) <= i
    BY <1>4, <2>1, LeastIs
  <2>3. PICK m : m = Min(I)
    OBVIOUS
  <2>4. m \in I /\ \A i \in I : m <= i
    BY <2>2, <2>3
  <2>5. sysLocs[m].iloc \in Q /\ m \in 1..Len(sysLocs)
    BY <1>2, <2>4
  <2>6. \A k \in Q : sysLocs[m].iloc >= k
    <3>1. ASSUME NEW k \in Q
          PROVE  sysLocs[m].iloc >= k
      <4>1. PICK i \in 1..Len(sysLocs) : sysLocs[i].iloc = k
        BY DEF LocatedUpTo, NamedTo
      <4>2. m <= i /\ i \in Int /\ m \in Int
        BY <1>2, <2>4, <2>5, <4>1
      <4>3. CASE i = m
        <5>1. k \in Int
          BY <1>0
        <5> QED  BY <4>1, <4>3, <5>1
      <4>4. CASE i # m
        <5>1. m < i
          BY ONLY <4>2, <4>4
        <5>2. sysLocs[m].iloc > sysLocs[i].iloc
          BY <2>5, <4>1, <5>1 DEF LocatedUpTo
        <5>3. k \in Int /\ sysLocs[m].iloc \in Int
          BY <1>0, <2>5
        <5> QED  BY ONLY <4>1, <5>2, <5>3
      <4> QED  BY <4>3, <4>4
    <3> QED  BY <3>1
  <2>8. Max(Q) = sysLocs[m].iloc
    BY <1>0, <2>5, <2>6, GreatestIs
  <2> QED  BY <2>2, <2>3, <2>8
<1> QED  BY <1>1, <1>3, <1>4

LEMMA PlaceIs ==
  ASSUME NEW n, LocatedUpTo(n), NEW i \in 1..Len(sysLocs)
  PROVE  /\ sysLocs[i].name = sysLines[sysLocs[i].iloc].arg
         /\ sysLocs[i].falias <=> sysLines[sysLocs[i].iloc].cmd = "alias"
<1>1. PICK r, x : r = sysLocs[i] /\ x = sysLocs[i].iloc
  OBVIOUS
<1>2. r = Location(x)
  BY <1>1 DEF LocatedUpTo
<1>3. r.name = sysLines[x].arg /\ (r.falias <=> sysLines[x].cmd = "alias")
  BY <1>2 DEF Location
<1> QED  BY <1>1, <1>3

(* The system that is found begins where the file says.                    *)
LEMMA FoundIs ==
  ASSUME sysLines \in Seq([cmd : STRING, arg : STRING]), sysLocs \in Seq(Place),
         LocatedUpTo(Len(sysLines)), NEW name
  PROVE  /\ \A i \in Found(name) :
              /\ {sysLocs[i].iloc} = StartOf(name)
              /\ sysLocs[i].iloc \in 1..Len(sysLines) /\ sysLines[sysLocs[i].iloc].cmd = "system"
         /\ Found(name) = {} => StartOf(name) = {}
<1>1. PICK n : n = Len(sysLines)
  OBVIOUS
<1>2. n \in Nat /\ LocatedUpTo(n) /\ Len(sysLocs) \in Nat
  BY <1>1
<1>3. PICK Q, I : /\ Q = {k \in 1..n : NamesSystem(k) /\ sysLines[k].arg = name}
                  /\ I = PlacesIn(Q)
  OBVIOUS
<1>4. I = {i \in 1..Len(sysLocs) : sysLocs[i].name = name}
  <2>1. ASSUME NEW i \in 1..Len(sysLocs)
        PROVE  sysLocs[i].iloc \in Q <=> sysLocs[i].name = name
    <3>1. sysLocs[i].iloc \in 1..n /\ NamesSystem(sysLocs[i].iloc)
      BY <1>2 DEF LocatedUpTo
    <3>2. sysLocs[i].name = sysLines[sysLocs[i].iloc].arg
      BY <1>2, PlaceIs
    <3> QED  BY <1>3, <3>1, <3>2
  <2> QED  BY <1>3, <2>1 DEF PlacesIn
<1>5. Q = {i \in 1..Len(sysLines) : /\ sysLines[i].cmd \in {"system", "alias"}
                                     /\ sysLines[i].arg = name}
  BY <1>1, <1>3 DEF NamesSystem
<1>6. Q \subseteq NamedTo(n)
  BY <1>3 DEF NamedTo
<1>7. /\ I = {} <=> Q = {}
      /\ I # {} => sysLocs[Min(I)].iloc = Max(Q) /\ Min(I) \in I
  BY <1>2, <1>3, <1>6, FirstIsLast
<1>8. CASE I = {}
  <2>1. Found(name) = {}
    BY <1>4, <1>8 DEF Found
  <2>2. StartOf(name) = {}
    BY <1>5, <1>7, <1>8 DEF StartOf
  <2> QED  BY <2>1, <2>2
<1>9. CASE I # {}
  <2>1. PICK m, p : m = Min(I) /\ p = Max(Q)
    OBVIOUS
  <2>2. m \in 1..Len(sysLocs) /\ sysLocs[m].iloc = p /\ p \in 1..n
    <3>1. m \in I /\ sysLocs[m].iloc = p
      BY <1>7, <1>9, <2>1
    <3>2. m \in 1..Len(sysLocs) /\ p \in Q
      BY <1>3, <3>1 DEF PlacesIn
    <3> QED  BY <1>3, <3>1, <3>2
  <2>3. PICK R, J : /\ R = {k \in 1..p : sysLines[k].cmd = "system"}
                    /\ J = {i \in 1..Len(sysLocs) : i >= m /\ ~sysLocs[i].falias}
    OBVIOUS
  <2>4. J = PlacesIn(R)
    <3>1. ASSUME NEW i \in 1..Len(sysLocs)
          PROVE  (i >= m /\ ~sysLocs[i].falias) <=> sysLocs[i].iloc \in R
      <4>1. sysLocs[i].iloc \in 1..n /\ NamesSystem(sysLocs[i].iloc)
        BY <1>2 DEF LocatedUpTo
      <4>2. sysLocs[i].falias <=> sysLines[sysLocs[i].iloc].cmd = "alias"
        BY <1>2, PlaceIs
      <4>3. ~sysLocs[i].falias <=> sysLines[sysLocs[i].iloc].cmd = "system"
        BY <4>1, <4>2 DEF NamesSystem
      <4>4. i >= m <=> sysLocs[i].iloc <= p
        <5>1. i < m => sysLocs[i].iloc > p
          BY <1>2, <2>2 DEF LocatedUpTo
        <5>2. m < i => p > sysLocs[i].iloc
          BY <1>2, <2>2 DEF LocatedUpTo
        <5>3. m = i => p = sysLocs[i].iloc
          BY <2>2
        <5>4. i \in Int /\ m \in Int /\ p \in Int /\ sysLocs[i].iloc \in Int
          BY <2>2, <4>1
        <5> QED  BY ONLY <5>1, <5>2, <5>3, <5>4
      <4>5. sysLocs[i].iloc \in 1..p <=> sysLocs[i].iloc <= p
        BY <2>2, <4>1
      <4> QED  BY <2>3, <4>3, <4>4, <4>5
    <3> QED  BY <2>3, <3>1 DEF PlacesIn
  <2>5. R \subseteq NamedTo(n)
    BY <1>2, <2>2, <2>3 DEF NamedTo, NamesSystem
  <2>6. /\ J = {} <=> R = {}
        /\ J # {} => sysLocs[Min(J)].iloc = Max(R) /\ Min(J) \in J
    BY <1>2, <2>4, <2>5, FirstIsLast
  <2>7. Found(name) = IF J = {} THEN {} ELSE {Min(J)}
    BY <1>4, <1>9, <2>1, <2>3 DEF Found
  <2>8. StartOf(name) = {Max({0} \cup R)} \ {0}
    BY <1>5, <1>7, <1>9, <2>1, <2>3 DEF StartOf
  <2>9. CASE J = {}
    <3>1. Max({0} \cup R) = 0
      <4>1. {0} \cup R = {0}
        BY <2>6, <2>9
      <4>2. {0} \subseteq Int /\ 0 \in {0} /\ \A y \in {0} : 0 >= y
        OBVIOUS
      <4>3. Max({0}) = 0
        BY ONLY <4>2, GreatestIs
      <4> QED  BY <4>1, <4>3
    <3> QED  BY <2>7, <2>8, <2>9, <3>1
  <2>10. CASE J # {}
    <3>1. PICK q : q = Max(R)
      OBVIOUS
    <3>2. q \in R /\ \A k \in R : q >= k
      <4>1. R \subseteq 0..n /\ R # {}
        BY <1>2, <2>2, <2>3, <2>6, <2>10
      <4> QED  BY <1>2, <3>1, <4>1, GreatestHas
    <3>3. Max({0} \cup R) = q
      <4>1. {0} \cup R \subseteq Int /\ q \in {0} \cup R /\ \A k \in {0} \cup R : q >= k
        BY <2>2, <2>3, <3>2
      <4> QED  BY <4>1, GreatestIs
    <3>4. sysLocs[Min(J)].iloc = q
      BY <2>6, <2>10, <3>1
    <3>5. q \in 1..n /\ sysLines[q].cmd = "system" /\ q # 0
      BY <1>2, <2>2, <2>3, <3>2
    <3> QED  BY <1>1, <2>7, <2>8, <2>10, <3>3, <3>4, <3>5
  <2> QED  BY <2>9, <2>10
<1> QED  BY <1>8, <1>9

-----------------------------------------------------------------------------
(* The text of the file stays as it is *)

LEMMA SaysStays ==
  ASSUME sysLines' = sysLines
  PROVE  /\ \A b, j : AlternateOf(b, j)' = AlternateOf(b, j)
         /\ \A j, f : Says(j, f)' = Says(j, f)
         /\ \A b, L, a, f : Told(b, L, a, f)' = Told(b, L, a, f)
         /\ \A b : BlockOf(b)' = BlockOf(b)
<1>1. ASSUME NEW b, NEW j
      PROVE  AlternateOf(b, j)' = AlternateOf(b, j)
  BY DEF AlternateOf
<1>2. ASSUME NEW f, NEW j
      PROVE  Says(j, f)' = Says(j, f)
  BY DEF Says
<1>3. ASSUME NEW b, NEW L, NEW a, NEW f
      PROVE  Told(b, L, a, f)' = Told(b, L, a, f)
  BY <1>1, <1>2 DEF Told
<1>4. ASSUME NEW b
      PROVE  BlockOf(b)' = BlockOf(b)
  BY DEF BlockOf
<1> QED  BY <1>1, <1>2, <1>3, <1>4

LEMMA SectionsStay ==
  ASSUME sysLines' = sysLines
  PROVE  /\ \A s, b, L, a : RawIs(s, b, L, a)' = RawIs(s, b, L, a)
         /\ \A s, b, L, a : ClosedIs(s, b, L, a)' = ClosedIs(s, b, L, a)
         /\ \A b, n, s, e : SectionsInv(b, n, s, e)' = SectionsInv(b, n, s, e)
         /\ \A b : AlternatesOf(b)' = AlternatesOf(b)
         /\ \A q, b : WholeIs(q, b)' = WholeIs(q, b)
         /\ \A L : Chosen(L)' = Chosen(L)
<1>1. ASSUME NEW b, NEW L, NEW a, NEW f
      PROVE  Nearest(b, L, a, f)' = Nearest(b, L, a, f)
  BY SaysStays DEF Nearest
<1>2. ASSUME NEW s, NEW b, NEW L, NEW a
      PROVE  RawIs(s, b, L, a)' = RawIs(s, b, L, a)
  BY SaysStays DEF RawIs
<1>3. ASSUME NEW s, NEW b, NEW L, NEW a
      PROVE  ClosedIs(s, b, L, a)' = ClosedIs(s, b, L, a)
  <2>1. ValuesAre(s, b, L, a)' = ValuesAre(s, b, L, a)
    BY <1>1 DEF ValuesAre
  <2>2. OwnIs(s, b, L, a)' = OwnIs(s, b, L, a)
    BY SaysStays DEF OwnIs
  <2> QED  BY <2>1, <2>2 DEF ClosedIs
<1>4. ASSUME NEW b, NEW n, NEW s, NEW e
      PROVE  SectionsInv(b, n, s, e)' = SectionsInv(b, n, s, e)
  BY <1>2, <1>3, SaysStays DEF SectionsInv
<1>5. ASSUME NEW b
      PROVE  AlternatesOf(b)' = AlternatesOf(b)
  BY SaysStays DEF AlternatesOf
<1>6. ASSUME NEW q, NEW b
      PROVE  WholeIs(q, b)' = WholeIs(q, b)
  BY <1>3, <1>5, SaysStays DEF WholeIs
<1>7. ASSUME NEW L
      PROVE  Chosen(L)' = Chosen(L)
  BY DEF Chosen
<1> QED  BY <1>2, <1>3, <1>4, <1>5, <1>6, <1>7

LEMMA PlacesStay ==
  ASSUME sysLines' = sysLines
  PROVE  /\ \A name : StartOf(name)' = StartOf(name)
         /\ sysLocs' = sysLocs => \A n : LocatedUpTo(n)' = LocatedUpTo(n)
         /\ Section' = Section
<1>1. ASSUME NEW name
      PROVE  StartOf(name)' = StartOf(name)
  BY DEF StartOf
<1>2. ASSUME sysLocs' = sysLocs, NEW n
      PROVE  LocatedUpTo(n)' = LocatedUpTo(n)
  BY <1>2 DEF LocatedUpTo, NamesSystem, Location
<1>3. Section' = Section
  BY DEF Section, Value
<1> QED  BY <1>1, <1>2, <1>3

-----------------------------------------------------------------------------
(* The invariant *)

StartInv ==
  sysPc \in {"defaults", "system"} =>
    /\ iloc \in 1..Len(sysLines) /\ sysLines[iloc].cmd = "system"
    /\ {iloc} = StartOf(zsystem)

(* What is said of block b, of the alternates of w.                        *)
SaysNearest(w, b) ==
  \A a \in DOMAIN w :
    /\ \A f \in PlainFields :
         w[a][f] \in {Max({Unset} \cup SaidFor(b, a, f))}
                      \cup IF SaidFor(b, a, f) = {} THEN {Builtin} ELSE {}
    /\ \A f \in ListFields : w[a][f] = SaidFor(b, a, f)
KeepsPort(w, b) ==
  \A a \in DOMAIN w :
    /\ SaidIn(b, a, "qport") # {} /\ SaidIn(b, a, "zport") = {} => w[a]["zport"] = Unset
    /\ SaidFor(b, a, "qport") = {} <=> w[a]["qport"] = Unset
UsesAlternates(w, b, add) ==
  /\ Len(w) = IF add THEN Max({AlternatesOf(b), AlternatesOf(0)}) ELSE AlternatesOf(b)
  /\ w[1]["fcalled"] = 1
  /\ w[1]["fcall"] = 1 <=>
       \/ SaidIn(b, 1, "timegrade") # {}
       \/ \E f \in HowToCall : SaidFor(b, 1, f) # {}
  /\ \A a \in 2..AlternatesOf(b) :
       w[a]["fcall"] = 1 <=>
         \E f \in HowToCall \cup {"timegrade"} : SaidIn(b, a, f) # {}

GivenInv ==
  /\ FoundRight
  /\ Given => /\ SaysNearest(sysInfo, iloc) /\ KeepsPort(sysInfo, iloc)
              /\ UsesAlternates(sysInfo, iloc, Chosen(BlockOf(0) \cup BlockOf(iloc)))

SysInv ==
  /\ SysTypes /\ LocInv /\ StartInv /\ BlockInv /\ GivenInv
  /\ sysResult = "success" => sysInfo # <<>>

LEMMA SysInvInit == SysInit => SysInv
<1> SUFFICES ASSUME SysInit
             PROVE  SysInv
  OBVIOUS
<1>1. SysTypes
  <2>1. sysLines \in Seq([cmd : STRING, arg : STRING])
    BY SysInfoAssumption DEF SysInit
  <2>2. Cleared \in Section
    BY <2>1, ClearedTyped
  <2>3. <<>> \in Seq(Place) /\ <<>> \in Seq(Section) /\ Len(sysLines) \in Nat
    BY <2>1
  <2>4. 0 \in 0..MaxAsked /\ 1 \in 1..Len(sysLines) + 1 /\ 0 \in 0..Len(sysLines)
    BY <2>3, SysInfoAssumption
  <2> QED  BY <2>1, <2>2, <2>3, <2>4 DEF SysInit, SysTypes
<1>2. LocInv
  BY DEF SysInit, LocInv
<1>3. StartInv /\ BlockInv
  BY DEF SysInit, StartInv, BlockInv
<1>4. GivenInv
  BY DEF SysInit, GivenInv, FoundRight, Given
<1> QED  BY <1>1, <1>2, <1>3, <1>4 DEF SysInv, SysInit

-----------------------------------------------------------------------------
(* The steps *)

(* An answer that is not the system.                                       *)
LEMMA NoAnswer ==
  ASSUME SysInv, UNCHANGED <<sysLines, nAsked, zsystem, iloc, section, earlier,
                             defaultAlternates, sdefaults, sysInfo, sysLine>>,
         sysPc' = "idle", sysResult' # "success",
         sysLocs' \in Seq(Place), syslocsRead' \in BOOLEAN, LocInv',
         sysResult' = "not found" => StartOf(zsystem) = {} \/ sysLocs' = <<>>
  PROVE  SysInv'
<1>1. SysTypes'
  <2>1. Section' = Section
    BY PlacesStay
  <2> QED  BY <2>1 DEF SysInv, SysTypes
<1>2. StartInv' /\ BlockInv'
  BY DEF StartInv, BlockInv
<1>3. GivenInv'
  <2>1. StartOf(zsystem)' = StartOf(zsystem)
    BY PlacesStay
  <2>2. ~Given'
    BY DEF Given
  <2>3. FoundRight'
    BY <2>1, <2>2 DEF FoundRight
  <2> QED  BY <2>2, <2>3 DEF GivenInv
<1> QED  BY <1>1, <1>2, <1>3 DEF SysInv

LEMMA SystemInfoStep ==
  ASSUME SysInv, SystemInfo
  PROVE  SysInv'
<1>1. SysTypes'
  <2>1. Section' = Section
    BY PlacesStay DEF SystemInfo
  <2>2. <<>> \in Seq(Section)
    OBVIOUS
  <2>3. sysPc' \in {"idle", "locations", "find", "defaults", "system"}
    BY DEF SystemInfo
  <2>4. nAsked' \in 0..MaxAsked
    BY SysInfoAssumption DEF SysInv, SysTypes, SystemInfo
  <2>5. sysLine' \in 1..Len(sysLines) + 1
    <3>1. Len(sysLines) \in Nat
      BY DEF SysInv, SysTypes
    <3> QED  BY <3>1 DEF SystemInfo
  <2> QED  BY <2>1, <2>2, <2>3, <2>4, <2>5 DEF SysInv, SysTypes, SystemInfo, readState
<1>2. LocInv'
  <2>1. /\ sysLocs' = sysLocs /\ syslocsRead' = syslocsRead /\ sysLines' = sysLines
        /\ sysLine' - 1 = 0
        /\ sysPc' = IF syslocsRead THEN "find" ELSE "locations"
    BY DEF SystemInfo
  <2>2. \A n : LocatedUpTo(n)' = LocatedUpTo(n)
    BY <2>1, PlacesStay
  <2>3. syslocsRead \in BOOLEAN
    BY DEF SysInv, SysTypes
  <2>4. ~syslocsRead => sysLocs = <<>>
    BY DEF SysInv, LocInv, SystemInfo
  <2>5. ~syslocsRead => LocatedUpTo(0)
    BY <2>4, NoneLocated
  <2>6. syslocsRead => sysLocs = <<>> \/ LocatedUpTo(Len(sysLines))
    BY DEF SysInv, LocInv
  <2> QED  BY <2>1, <2>2, <2>3, <2>5, <2>6 DEF LocInv
<1>3. sysPc' \in {"find", "locations"} /\ sysResult' = "none"
  BY DEF SystemInfo
<1>4. StartInv' /\ BlockInv'
  BY <1>3 DEF StartInv, BlockInv
<1>5. GivenInv'
  BY <1>3 DEF GivenInv, FoundRight, Given
<1> QED  BY <1>1, <1>2, <1>3, <1>4, <1>5 DEF SysInv

LEMMA LocateLineStep ==
  ASSUME SysInv, LocateLine
  PROVE  SysInv'
<1>0. /\ sysPc = "locations" /\ sysLine <= Len(sysLines) /\ sysLine' = sysLine + 1
      /\ UNCHANGED <<sysLines, syslocsRead, sysPc, nAsked, zsystem, iloc, section, earlier,
                     defaultAlternates, sdefaults, sysInfo, sysResult>>
  BY DEF LocateLine, readState
<1>1. sysLine \in Nat /\ Len(sysLines) \in Nat /\ sysLine \in 1..Len(sysLines)
  <2>1. Len(sysLines) \in Nat /\ sysLine \in 1..Len(sysLines) + 1
    BY DEF SysInv, SysTypes
  <2> QED  BY <1>0, <2>1
<1>2. sysLines[sysLine] \in [cmd : STRING, arg : STRING]
  <2>1. sysLines \in Seq([cmd : STRING, arg : STRING])
    BY DEF SysInv, SysTypes
  <2> QED  BY ONLY <1>1, <2>1, ElementOfSeq
<1>3. PICK r : r = Location(sysLine)
  OBVIOUS
<1>4. r \in Place /\ r.iloc = sysLine
  BY <1>1, <1>2, <1>3 DEF Place, Location
<1>5. ~syslocsRead /\ LocatedUpTo(sysLine - 1) /\ sysLocs \in Seq(Place)
  BY <1>0 DEF SysInv, LocInv, SysTypes
<1>9. PICK m : m = sysLine
  OBVIOUS
<1>6. sysLocs' \in Seq(Place) /\ LocatedUpTo(m)'
  <2>1. CASE ~NamesSystem(sysLine)
    <3>1. sysLocs' = sysLocs
      BY <2>1 DEF LocateLine, NamesSystem
    <3>2. LocatedUpTo(m)
      <4>1. 1..sysLine = (1..sysLine - 1) \cup {sysLine}
        BY <1>1
      <4> QED  BY <1>5, <1>9, <2>1, <4>1 DEF LocatedUpTo
    <3> QED  BY <1>0, <1>5, <3>1, <3>2, PlacesStay
  <2>2. CASE NamesSystem(sysLine)
    <3>1. sysLocs' = <<r>> \o sysLocs
      BY <1>3, <2>2 DEF LocateLine, NamesSystem
    <3>2. PICK q, L : q = sysLocs' /\ L = Len(sysLocs)
      OBVIOUS
    <3>3. /\ L \in Nat /\ q \in Seq(Place) /\ Len(q) = L + 1 /\ q[1] = r
          /\ \A i \in 1..L : q[i + 1] = sysLocs[i]
      <4>1. <<r>> \in Seq(Place) /\ Len(<<r>>) = 1 /\ <<r>>[1] = r /\ L \in Nat
        BY <1>4, <1>5, <3>2
      <4>2. q = <<r>> \o sysLocs
        BY <3>1, <3>2
      <4> QED  BY ONLY <1>5, <3>2, <4>1, <4>2, ConcatProperties
    <3>4. \A i \in 1..L + 1 : i = 1 \/ (i # 1 /\ i - 1 \in 1..L /\ q[i] = sysLocs[i - 1])
      <4>1. \A i \in 1..L + 1 : i # 1 => i - 1 \in 1..L /\ i = (i - 1) + 1
        BY <3>3
      <4> QED  BY <3>3, <4>1
    <3>5. ASSUME NEW i \in 1..L + 1
          PROVE  /\ q[i].iloc \in 1..sysLine /\ NamesSystem(q[i].iloc)
                 /\ q[i] = Location(q[i].iloc)
      <4>1. CASE i = 1
        <5>1. q[i] = r /\ r.iloc = sysLine
          BY <1>4, <3>3, <4>1
        <5> QED  BY <1>1, <1>3, <2>2, <5>1
      <4>2. CASE i # 1
        <5>1. PICK j \in 1..L : q[i] = sysLocs[j]
          BY <3>4, <4>2
        <5>2. /\ sysLocs[j].iloc \in 1..sysLine - 1 /\ NamesSystem(sysLocs[j].iloc)
              /\ sysLocs[j] = Location(sysLocs[j].iloc)
          BY <1>5, <3>2, <5>1 DEF LocatedUpTo
        <5>3. sysLocs[j].iloc \in 1..sysLine
          BY <1>1, <5>2
        <5> QED  BY <5>1, <5>2, <5>3
      <4> QED  BY <4>1, <4>2
    <3>6. ASSUME NEW i \in 1..L + 1, NEW j \in 1..L + 1, i < j
          PROVE  q[i].iloc > q[j].iloc
      <4>1. j - 1 \in 1..L /\ q[j] = sysLocs[j - 1]
        BY <3>3, <3>4, <3>6
      <4>2. sysLocs[j - 1].iloc \in 1..sysLine - 1
        BY <1>5, <3>2, <4>1 DEF LocatedUpTo
      <4>3. CASE i = 1
        <5>1. q[i].iloc = sysLine
          BY <1>4, <3>3, <4>3
        <5> QED  BY <1>1, <4>1, <4>2, <5>1
      <4>4. CASE i # 1
        <5>1. i - 1 \in 1..L /\ q[i] = sysLocs[i - 1] /\ i - 1 < j - 1
          BY <3>3, <3>4, <3>6, <4>4
        <5>2. sysLocs[i - 1].iloc > sysLocs[j - 1].iloc
          BY <1>5, <3>2, <4>1, <5>1 DEF LocatedUpTo
        <5> QED  BY <4>1, <5>1, <5>2
      <4> QED  BY <4>3, <4>4
    <3>7. ASSUME NEW k \in 1..sysLine, NamesSystem(k)
          PROVE  \E i \in 1..L + 1 : q[i].iloc = k
      <4>1. CASE k = sysLine
        <5>1. 1 \in 1..L + 1
          BY <3>3
        <5> QED  BY <1>4, <3>3, <4>1, <5>1
      <4>2. CASE k # sysLine
        <5>1. k \in 1..sysLine - 1
          BY <1>1, <4>2
        <5>2. PICK i \in 1..L : sysLocs[i].iloc = k
          BY <1>5, <3>2, <3>7, <5>1 DEF LocatedUpTo
        <5>3. i + 1 \in 1..L + 1 /\ q[i + 1] = sysLocs[i]
          BY <3>3
        <5> QED  BY <5>2, <5>3
      <4> QED  BY <4>1, <4>2
    <3>8. \A k : NamesSystem(k)' = NamesSystem(k) /\ Location(k)' = Location(k)
      BY <1>0 DEF NamesSystem, Location
    <3>9. LocatedUpTo(m)'
      <4>1. \A n : LocatedUpTo(n)' <=>
              /\ \A i \in 1..Len(q) :
                   /\ q[i].iloc \in 1..n /\ NamesSystem(q[i].iloc)
                   /\ q[i] = Location(q[i].iloc)
              /\ \A i, j \in 1..Len(q) : i < j => q[i].iloc > q[j].iloc
              /\ \A k \in 1..n : NamesSystem(k) => \E i \in 1..Len(q) : q[i].iloc = k
        BY <3>2, <3>8 DEF LocatedUpTo
      <4> QED  BY <1>9, <3>3, <3>5, <3>6, <3>7, <4>1
    <3> QED  BY <3>2, <3>3, <3>9
  <2> QED  BY <2>1, <2>2
<1>7. SysTypes'
  <2>1. Section' = Section
    BY <1>0, PlacesStay
  <2>2. sysLine' \in 1..Len(sysLines) + 1
    BY <1>0, <1>1
  <2> QED  BY <1>0, <1>6, <2>1, <2>2 DEF SysInv, SysTypes
<1>8. LocInv'
  <2>1. sysLine' - 1 = m
    BY <1>0, <1>1, <1>9
  <2> QED  BY <1>0, <1>5, <1>6, <2>1 DEF LocInv
<1>10. StartInv' /\ BlockInv'
  BY <1>0 DEF StartInv, BlockInv
<1>11. GivenInv'
  BY <1>0 DEF GivenInv, FoundRight, Given
<1> QED  BY <1>0, <1>7, <1>8, <1>10, <1>11 DEF SysInv

LEMMA LocationsReadStep ==
  ASSUME SysInv, LocationsRead
  PROVE  SysInv'
<1>0. /\ sysPc = "locations" /\ sysLine > Len(sysLines) /\ syslocsRead' = TRUE
      /\ sysPc' = "find"
      /\ UNCHANGED <<sysLines, sysLocs, sysLine, nAsked, zsystem, iloc, section, earlier,
                     defaultAlternates, sdefaults, sysInfo, sysResult>>
  BY DEF LocationsRead, readState
<1>1. SysTypes'
  <2>1. Section' = Section
    BY <1>0, PlacesStay
  <2> QED  BY <1>0, <2>1 DEF SysInv, SysTypes
<1>2. LocInv'
  <2>1. LocatedUpTo(sysLine - 1)
    BY <1>0 DEF SysInv, LocInv
  <2>2. sysLine - 1 = Len(sysLines)
    <3>1. sysLine \in 1..Len(sysLines) + 1 /\ Len(sysLines) \in Nat
      BY DEF SysInv, SysTypes
    <3> QED  BY <1>0, <3>1
  <2>3. PICK n : n = Len(sysLines)
    OBVIOUS
  <2>4. LocatedUpTo(n)'
    BY <1>0, <2>1, <2>2, <2>3, PlacesStay
  <2> QED  BY <1>0, <2>3, <2>4 DEF LocInv
<1>3. StartInv' /\ BlockInv'
  BY <1>0 DEF StartInv, BlockInv
<1>4. GivenInv'
  BY <1>0 DEF GivenInv, FoundRight, Given
<1> QED  BY <1>0, <1>1, <1>2, <1>3, <1>4 DEF SysInv

LEMMA LocationsFailStep ==
  ASSUME SysInv, NEW memory \in BOOLEAN, LocationsFail(memory)
  PROVE  SysInv'
<1>1. <<>> \in Seq(Place)
  OBVIOUS
<1>2. /\ UNCHANGED <<sysLines, nAsked, zsystem, iloc, section, earlier,
                     defaultAlternates, sdefaults, sysInfo, sysLine>>
      /\ sysPc' = "idle" /\ sysResult' = "failed"
      /\ sysLocs' = <<>> /\ syslocsRead' \in BOOLEAN
  BY DEF LocationsFail, SysReturn, readState
<1>3. LocInv'
  BY <1>2 DEF LocInv
<1> QED  BY <1>1, <1>2, <1>3, NoAnswer

(* The places stay as they are.                                            *)
LEMMA LocKept ==
  ASSUME SysInv, UNCHANGED <<sysLines, sysLocs, syslocsRead>>,
         sysPc # "locations", sysPc' # "locations",
         sysPc' \in {"find", "defaults", "system"} => sysPc \in {"find", "defaults", "system"}
  PROVE  LocInv'
<1>1. PICK n : n = Len(sysLines)
  OBVIOUS
<1>2. LocatedUpTo(n)' = LocatedUpTo(n)
  BY PlacesStay
<1> QED  BY <1>1, <1>2 DEF SysInv, LocInv

LEMMA NoSystemStep ==
  ASSUME SysInv, NoSystem
  PROVE  SysInv'
<1>1. /\ UNCHANGED <<sysLines, sysLocs, syslocsRead, nAsked, zsystem, iloc, section, earlier,
                     defaultAlternates, sdefaults, sysInfo, sysLine>>
      /\ sysPc = "find" /\ sysPc' = "idle" /\ sysResult' = "not found"
  BY DEF NoSystem, SysReturn, readState, readVars
<1>2. StartOf(zsystem) = {} \/ sysLocs = <<>>
  <2>1. sysLocs = <<>> \/ LocatedUpTo(Len(sysLines))
    BY <1>1 DEF SysInv, LocInv
  <2>2. sysLines \in Seq([cmd : STRING, arg : STRING]) /\ sysLocs \in Seq(Place)
    BY DEF SysInv, SysTypes
  <2>3. Found(zsystem) = {}
    BY DEF NoSystem
  <2> QED  BY <2>1, <2>2, <2>3, FoundIs
<1>3. LocInv'
  BY <1>1, LocKept
<1>4. sysLocs' \in Seq(Place) /\ syslocsRead' \in BOOLEAN
  BY <1>1 DEF SysInv, SysTypes
<1> QED  BY <1>1, <1>2, <1>3, <1>4, NoAnswer

(* A line that is wrong, or no memory.                                     *)
LEMMA ReadingEndsStep ==
  ASSUME SysInv, DescribeUntyped \/ UnknownLine \/ ReadFails
  PROVE  SysInv'
<1>1. /\ UNCHANGED <<sysLines, sysLocs, syslocsRead, nAsked, zsystem, iloc, section, earlier,
                     defaultAlternates, sdefaults, sysInfo, sysLine>>
      /\ sysPc \in {"defaults", "system"} /\ sysPc' = "idle"
      /\ sysResult' \in {"syntax", "failed"}
  BY DEF DescribeUntyped, UnknownLine, ReadFails, SysReturn, readState, readVars, Reading,
         LineThere
<1>2. LocInv'
  BY <1>1, LocKept
<1>3. sysLocs' \in Seq(Place) /\ syslocsRead' \in BOOLEAN
  BY <1>1 DEF SysInv, SysTypes
<1> QED  BY <1>1, <1>2, <1>3, NoAnswer

LEMMA NoneChosen == Chosen({})
<1>1. {j \in {} : sysLines[j].cmd = "default-alternates"} = {}
  OBVIOUS
<1> QED  BY <1>1 DEF Chosen

LEMMA FindSystemStep ==
  ASSUME SysInv, FindSystem
  PROVE  SysInv'
<1>0. /\ sysPc = "find" /\ sysPc' = "defaults" /\ sysLine' = 1
      /\ section' = Cleared /\ earlier' = <<>> /\ defaultAlternates' = TRUE
      /\ UNCHANGED <<sysLines, sysLocs, syslocsRead, nAsked, zsystem, sdefaults, sysInfo,
                     sysResult>>
  BY DEF FindSystem, readVars
<1>1. PICK i \in Found(zsystem) : iloc' = sysLocs[i].iloc
  BY DEF FindSystem
<1>2. sysLines \in Seq([cmd : STRING, arg : STRING]) /\ sysLocs \in Seq(Place)
      /\ Len(sysLines) \in Nat
  BY DEF SysInv, SysTypes
<1>3. LocatedUpTo(Len(sysLines))
  <2>1. sysLocs # <<>>
    <3>1. sysLocs = <<>> => 1..Len(sysLocs) = {}
      OBVIOUS
    <3>2. 1..Len(sysLocs) = {} => Found(zsystem) = {}
      BY Zenon DEF Found
    <3> QED  BY <1>1, <3>1, <3>2
  <2> QED  BY <1>0, <2>1 DEF SysInv, LocInv
<1>4. /\ {iloc'} = StartOf(zsystem)
      /\ iloc' \in 1..Len(sysLines) /\ sysLines[iloc'].cmd = "system"
  BY <1>1, <1>2, <1>3, FoundIs
<1>5. SysTypes'
  <2>1. Section' = Section
    BY <1>0, PlacesStay
  <2>2. Cleared \in Section /\ <<>> \in Seq(Section)
    BY <1>2, ClearedTyped
  <2>3. sysLine' \in 1..Len(sysLines) + 1 /\ iloc' \in 0..Len(sysLines)
    BY <1>0, <1>2, <1>4
  <2> QED  BY <1>0, <2>1, <2>2, <2>3 DEF SysInv, SysTypes
<1>6. LocInv'
  BY <1>0, LocKept
<1>7. StartInv'
  <2>1. StartOf(zsystem)' = StartOf(zsystem)
    BY <1>0, PlacesStay
  <2> QED  BY <1>0, <1>4, <2>1 DEF StartInv
<1>8. BlockInv'
  <2>1. Begin' = 0 /\ LinesRead' = {} /\ ChosenLines' = {} /\ sysLine' - 1 = 0
    BY <1>0 DEF Begin, LinesRead, ChosenLines
  <2>2. SectionsInv(0, 0, Cleared, <<>>)
    BY FirstSection
  <2>3. SectionsInv(Begin, sysLine - 1, section, earlier)'
    BY <1>0, <2>1, <2>2, SectionsStay
  <2>4. Chosen(ChosenLines)'
    BY <1>0, <2>1, NoneChosen, SectionsStay
  <2> QED  BY <1>0, <2>1, <2>3, <2>4 DEF BlockInv
<1>9. GivenInv'
  BY <1>0 DEF GivenInv, FoundRight, Given
<1> QED  BY <1>0, <1>5, <1>6, <1>7, <1>8, <1>9 DEF SysInv

-----------------------------------------------------------------------------
(* The lines of a block *)

(* The lines that matter to "default-alternates" come before the next one. *)
LEMMA LinesBefore ==
  ASSUME SysInv, sysPc \in {"defaults", "system"}
  PROVE  /\ Begin \in Nat /\ sysLine \in Nat \ {0} /\ Len(sysLines) \in Nat
         /\ Begin < sysLine /\ Len(sysLines) > 0
         /\ ChosenLines \subseteq 1..sysLine - 1
         /\ sysPc = "system" => Begin = iloc
<1>1. /\ iloc \in 1..Len(sysLines) /\ sysLines[iloc].cmd = "system"
      /\ Len(sysLines) \in Nat /\ sysLine \in 1..Len(sysLines) + 1
  BY DEF SysInv, SysTypes, StartInv
<1>2. Begin \in Nat /\ Begin < sysLine /\ (sysPc = "system" => Begin = iloc)
      /\ (sysPc = "defaults" => Begin = 0)
  BY <1>1 DEF SysInv, BlockInv, Begin
<1>3. LinesRead \subseteq 1..sysLine - 1
  BY <1>1, <1>2 DEF LinesRead
<1>4. sysPc = "system" => BlockOf(0) \subseteq 1..sysLine - 1
  <2> SUFFICES ASSUME sysPc = "system", NEW j \in BlockOf(0)
               PROVE  j \in 1..sysLine - 1
    OBVIOUS
  <2>1. j \in 1..Len(sysLines) /\ \A k \in 1..j : sysLines[k].cmd # "system"
    BY DEF BlockOf
  <2>2. ~(iloc <= j)
    BY <1>1, <2>1
  <2> QED  BY <1>1, <1>2, <2>1, <2>2
<1>5. ChosenLines \subseteq 1..sysLine - 1
  BY <1>3, <1>4 DEF ChosenLines
<1>6. sysLine \in Nat \ {0} /\ Len(sysLines) > 0
  BY ONLY <1>1
<1> QED  BY <1>1, <1>2, <1>5, <1>6

LEMMA ChosenNext ==
  ASSUME NEW n \in Nat \ {0}, NEW L, L \subseteq 1..n - 1
  PROVE  Chosen(L \cup {n}) = IF sysLines[n].cmd = "default-alternates"
                              THEN sysLines[n].arg = "true" ELSE Chosen(L)
<1>1. PICK S, T : /\ S = {j \in L : sysLines[j].cmd = "default-alternates"}
                  /\ T = {j \in L \cup {n} : sysLines[j].cmd = "default-alternates"}
  OBVIOUS
<1>2. CASE sysLines[n].cmd = "default-alternates"
  <2>1. T = S \cup {n} /\ T # {}
    BY <1>1, <1>2
  <2>2. T \subseteq Int /\ n \in T /\ \A y \in T : n >= y
    <3>1. \A y \in S : y \in 1..n - 1
      BY <1>1
    <3> QED  BY ONLY n \in Nat \ {0}, <2>1, <3>1
  <2>3. Max(T) = n
    BY <2>2, GreatestIs
  <2> QED  BY <1>1, <1>2, <2>1, <2>3 DEF Chosen
<1>3. CASE sysLines[n].cmd # "default-alternates"
  <2>1. T = S
    BY <1>1, <1>3
  <2> QED  BY <1>1, <1>3, <2>1 DEF Chosen
<1> QED  BY <1>2, <1>3

(* A line was read.                                                        *)
LEMMA LineReadStep ==
  ASSUME SysInv, LineThere, sysLines[sysLine].cmd # "system",
         sysLine' = sysLine + 1, Keeps,
         section' \in Section, earlier' \in Seq(Section), defaultAlternates' \in BOOLEAN,
         SectionsInv(Begin, sysLine, section', earlier'),
         defaultAlternates' <=> IF sysLines[sysLine].cmd = "default-alternates"
                                THEN sysLines[sysLine].arg = "true" ELSE defaultAlternates
  PROVE  SysInv'
<1>0. /\ sysPc \in {"defaults", "system"} /\ sysLine <= Len(sysLines)
      /\ UNCHANGED <<sysLines, sysLocs, syslocsRead, nAsked, zsystem, sysPc, iloc, sdefaults,
                     sysInfo, sysResult>>
  BY DEF LineThere, Keeps, readVars
<1>1. /\ Begin \in Nat /\ sysLine \in Nat \ {0} /\ Len(sysLines) \in Nat
      /\ Begin < sysLine /\ ChosenLines \subseteq 1..sysLine - 1
  BY <1>0, LinesBefore
<1>2. SysTypes'
  <2>1. Section' = Section
    BY <1>0, PlacesStay
  <2>2. sysLine' \in 1..Len(sysLines) + 1
    BY <1>0, <1>1
  <2> QED  BY <1>0, <2>1, <2>2 DEF SysInv, SysTypes
<1>3. LocInv'
  BY <1>0, LocKept
<1>4. StartInv'
  <2>1. StartOf(zsystem)' = StartOf(zsystem)
    BY <1>0, PlacesStay
  <2> QED  BY <1>0, <2>1 DEF SysInv, StartInv
<1>5. BlockInv'
  <2>1. Begin' = Begin /\ sysLine' - 1 = sysLine
    BY <1>0, <1>1 DEF Begin
  <2>2. LinesRead' = LinesRead \cup {sysLine}
    <3>1. Begin + 1..sysLine = (Begin + 1..sysLine - 1) \cup {sysLine}
      BY <1>1
    <3> QED  BY <2>1, <3>1 DEF LinesRead
  <2>3. ChosenLines' = ChosenLines \cup {sysLine}
    <3>1. BlockOf(0)' = BlockOf(0)
      BY <1>0, SaysStays
    <3> QED  BY <1>0, <2>2, <3>1 DEF ChosenLines
  <2>4. \A j \in LinesRead' : sysLines[j].cmd # "system"
    BY <1>0, <2>2 DEF SysInv, BlockInv
  <2>5. SectionsInv(Begin, sysLine - 1, section, earlier)'
    BY <1>0, <2>1, SectionsStay
  <2>6. sysPc' = "system" => WholeIs(sdefaults, 0)'
    BY <1>0, SectionsStay DEF SysInv, BlockInv
  <2>7. defaultAlternates <=> Chosen(ChosenLines)
    BY <1>0 DEF SysInv, BlockInv
  <2>8. defaultAlternates' <=> Chosen(ChosenLines \cup {sysLine})
    BY <1>1, <2>7, ChosenNext
  <2>9. defaultAlternates' <=> Chosen(ChosenLines)'
    BY <1>0, <2>3, <2>8, SectionsStay
  <2>10. Begin' < sysLine'
    BY <1>1, <2>1
  <2> QED  BY <1>0, <2>4, <2>5, <2>6, <2>9, <2>10 DEF BlockInv
<1>6. GivenInv'
  BY <1>0 DEF GivenInv, FoundRight, Given
<1> QED  BY <1>0, <1>2, <1>3, <1>4, <1>5, <1>6 DEF SysInv

LEMMA SetFieldStep ==
  ASSUME SysInv, SetField
  PROVE  SysInv'
<1>0. PICK n, s, t, cmd : n = sysLine /\ s = section /\ t = section' /\ cmd = sysLines[n].cmd
  OBVIOUS
<1>1. /\ LineThere /\ sysLine' = sysLine + 1 /\ Keeps
      /\ earlier' = earlier /\ defaultAlternates' = defaultAlternates
      /\ sysPc \in {"defaults", "system"} /\ n <= Len(sysLines)
      /\ cmd \notin {"alternate", "port type", "port device", "system", "default-alternates"}
  BY <1>0 DEF SetField, Reading, LineThere
<1>2. /\ t = [f \in Fields |-> t[f]]
      /\ \A f \in Fields : t[f] = IF f \in FieldsOf(cmd) THEN n
                                  ELSE IF f \in ListOf(cmd) THEN s[f] \cup {n} ELSE s[f]
  <2>1. section' = [f \in Fields |->
                      CASE f \in FieldsOf(sysLines[sysLine].cmd) -> sysLine
                        [] f \in ListOf(sysLines[sysLine].cmd) -> section[f] \cup {sysLine}
                        [] OTHER -> section[f]]
    BY Zenon DEF SetField
  <2>2. \A f \in Fields : ~(f \in FieldsOf(cmd) /\ f \in ListOf(cmd))
    BY CommandFields, FieldNames
  <2> QED  BY <1>0, <2>1, <2>2
<1>3. /\ s \in Section /\ earlier \in Seq(Section) /\ defaultAlternates \in BOOLEAN
      /\ sysLines \in Seq([cmd : STRING, arg : STRING])
  BY <1>0 DEF SysInv, SysTypes
<1>4. Begin \in Nat /\ n \in Nat \ {0} /\ Begin < n /\ n \in 1..Len(sysLines)
  <2>1. /\ Begin \in Nat /\ n \in Nat \ {0} /\ Begin < n /\ Len(sysLines) \in Nat
    BY <1>0, <1>1, LinesBefore
  <2>2. n <= Len(sysLines)
    BY <1>1
  <2> QED  BY ONLY <2>1, <2>2
<1>5. \A f : Says(n, f) <=> f \in FieldsOf(cmd) \cup ListOf(cmd)
  BY <1>0, <1>1 DEF Says
<1>6. \A f \in PlainFields \cup {"zport"} : t[f] = IF Says(n, f) THEN n ELSE s[f]
  <2>1. \A f \in PlainFields \cup {"zport"} : f \in Fields /\ f \notin ListOf(cmd)
    BY CommandFields, FieldNames
  <2> QED  BY <1>2, <1>5, <2>1
<1>7. \A f \in ListFields : t[f] = IF Says(n, f) THEN s[f] \cup {n} ELSE s[f]
  <2>1. \A f \in ListFields : f \in Fields /\ f \notin FieldsOf(cmd)
    BY CommandFields, FieldNames
  <2> QED  BY <1>2, <1>5, <2>1
<1>8. \A f \in {"qport", "fcall", "fcalled"} : t[f] = s[f] /\ ~Says(n, f)
  <2>1. \A f \in {"qport", "fcall", "fcalled"} :
          f \in Fields /\ f \notin FieldsOf(cmd) \cup ListOf(cmd)
    BY CommandFields, FieldNames
  <2> QED  BY <1>2, <1>5, <2>1
<1>9. t \in Section
  <2>1. t = [f \in Fields |-> t[f]]
    BY <1>2
  <2>2. n \in Value
    BY <1>3, <1>4, SmallValues
  <2>3. \A f \in ListFields : t[f] \subseteq Value
    BY <1>3, <1>7, <2>2, SectionHas
  <2>4. \A f \in Fields \ ListFields : t[f] \in Value
    BY <1>3, <1>6, <1>8, <2>2, SectionHas, FieldNames
  <2> QED  BY <2>1, <2>3, <2>4, SectionMade
<1>10. SectionsInv(Begin, n, t, earlier)
  <2>1. SectionsInv(Begin, n - 1, s, earlier)
    BY <1>0, <1>1 DEF SysInv, BlockInv
  <2>2. DOMAIN t = Fields
    BY ONLY <1>2
  <2>3. t["qport"] = IF Says(n, "qport") /\ s["qport"] = Unset THEN n ELSE s["qport"]
    BY <1>8
  <2>4. t["fcall"] = s["fcall"] /\ t["fcalled"] = s["fcalled"] /\ sysLines[n].cmd # "alternate"
    BY <1>0, <1>1, <1>8
  <2> QED  BY <1>3, <1>4, <1>6, <1>7, <2>1, <2>2, <2>3, <2>4, SameSection
<1> QED  BY <1>0, <1>1, <1>3, <1>9, <1>10, LineReadStep

LEMMA DescribePortStep ==
  ASSUME SysInv, DescribePort
  PROVE  SysInv'
<1>0. PICK n, s, t, cmd : n = sysLine /\ s = section /\ t = section' /\ cmd = sysLines[n].cmd
  OBVIOUS
<1>1. /\ LineThere /\ sysLine' = sysLine + 1 /\ Keeps
      /\ earlier' = earlier /\ defaultAlternates' = defaultAlternates
      /\ sysPc \in {"defaults", "system"} /\ n <= Len(sysLines)
      /\ cmd \in {"port type", "port device"}
  BY <1>0 DEF DescribePort, Reading, LineThere
<1>2. /\ s \in Section /\ earlier \in Seq(Section) /\ defaultAlternates \in BOOLEAN
      /\ sysLines \in Seq([cmd : STRING, arg : STRING])
  BY <1>0 DEF SysInv, SysTypes
<1>3. /\ DOMAIN t = Fields /\ t = [f \in Fields |-> t[f]]
      /\ \A f \in Fields \ {"qport"} : t[f] = s[f]
      /\ t["qport"] = IF s["qport"] = Unset THEN n ELSE s["qport"]
  <2>1. t = [s EXCEPT !["qport"] = IF s["qport"] = Unset THEN n ELSE s["qport"]]
    BY <1>0 DEF DescribePort
  <2>2. DOMAIN s = Fields
    BY <1>2, SectionHas
  <2> QED  BY <2>1, <2>2, FieldNames
<1>4. Begin \in Nat /\ n \in Nat \ {0} /\ Begin < n /\ n \in 1..Len(sysLines)
  <2>1. /\ Begin \in Nat /\ n \in Nat \ {0} /\ Begin < n /\ Len(sysLines) \in Nat
    BY <1>0, <1>1, LinesBefore
  <2>2. n <= Len(sysLines)
    BY <1>1
  <2> QED  BY ONLY <2>1, <2>2
<1>5. \A f : Says(n, f) <=> f = "qport"
  <2>1. FieldsOf(cmd) = {} /\ ListOf(cmd) = {} /\ cmd # "alternate"
    BY <1>1, OtherCommands
  <2> QED  BY <1>0, <1>1, <2>1 DEF Says
<1>6. t \in Section
  <2>1. n \in Value
    BY <1>2, <1>4, SmallValues
  <2>2. \A f \in ListFields : t[f] \subseteq Value
    BY <1>2, <1>3, SectionHas, FieldNames
  <2>3. \A f \in Fields \ ListFields : t[f] \in Value
    BY <1>2, <1>3, <2>1, SectionHas
  <2> QED  BY <1>3, <2>2, <2>3, SectionMade
<1>7. SectionsInv(Begin, n, t, earlier)
  <2>1. SectionsInv(Begin, n - 1, s, earlier)
    BY <1>0, <1>1 DEF SysInv, BlockInv
  <2>2. \A f \in PlainFields \cup {"zport"} : t[f] = IF Says(n, f) THEN n ELSE s[f]
    BY <1>3, <1>5, FieldNames
  <2>3. \A f \in ListFields : t[f] = IF Says(n, f) THEN s[f] \cup {n} ELSE s[f]
    BY <1>3, <1>5, FieldNames
  <2>4. t["qport"] = IF Says(n, "qport") /\ s["qport"] = Unset THEN n ELSE s["qport"]
    BY <1>3, <1>5
  <2>5. t["fcall"] = s["fcall"] /\ t["fcalled"] = s["fcalled"] /\ sysLines[n].cmd # "alternate"
    BY <1>0, <1>1, <1>3, FieldNames
  <2> QED  BY <1>2, <1>3, <1>4, <2>1, <2>2, <2>3, <2>4, <2>5, SameSection
<1>8. cmd # "system" /\ cmd # "default-alternates"
  BY <1>1
<1> QED  BY <1>0, <1>1, <1>2, <1>6, <1>7, <1>8, LineReadStep

LEMMA DefaultAlternatesLineStep ==
  ASSUME SysInv, DefaultAlternatesLine
  PROVE  SysInv'
<1>0. PICK n, s, cmd : n = sysLine /\ s = section /\ cmd = sysLines[n].cmd
  OBVIOUS
<1>1. /\ LineThere /\ sysLine' = sysLine + 1 /\ Keeps
      /\ earlier' = earlier /\ section' = section
      /\ defaultAlternates' = (sysLines[sysLine].arg = "true")
      /\ sysPc \in {"defaults", "system"} /\ n <= Len(sysLines)
      /\ cmd = "default-alternates"
  BY <1>0 DEF DefaultAlternatesLine, Reading, LineThere
<1>2. s \in Section /\ earlier \in Seq(Section)
  BY <1>0 DEF SysInv, SysTypes
<1>4. Begin \in Nat /\ n \in Nat \ {0} /\ Begin < n
  BY <1>0, <1>1, LinesBefore
<1>5. \A f : ~Says(n, f)
  <2>1. FieldsOf(cmd) = {} /\ ListOf(cmd) = {}
    BY <1>1, OtherCommands
  <2> QED  BY <1>0, <1>1, <2>1 DEF Says
<1>7. SectionsInv(Begin, n, s, earlier)
  <2>1. SectionsInv(Begin, n - 1, s, earlier)
    BY <1>0, <1>1 DEF SysInv, BlockInv
  <2>2. \A f \in PlainFields \cup {"zport"} : s[f] = IF Says(n, f) THEN n ELSE s[f]
    BY <1>5
  <2>3. \A f \in ListFields : s[f] = IF Says(n, f) THEN s[f] \cup {n} ELSE s[f]
    BY <1>5
  <2>4. s["qport"] = IF Says(n, "qport") /\ s["qport"] = Unset THEN n ELSE s["qport"]
    BY <1>5
  <2>5. DOMAIN s = Fields /\ sysLines[n].cmd # "alternate"
    BY <1>0, <1>1, <1>2, SectionHas
  <2> QED  BY <1>2, <1>4, <2>1, <2>2, <2>3, <2>4, <2>5, SameSection
<1>8. cmd # "system" /\ defaultAlternates' \in BOOLEAN
  BY <1>1
<1> QED  BY <1>0, <1>1, <1>2, <1>7, <1>8, LineReadStep

(* With the byte zero the protocols of the defaults are as the manual says. *)
LEMMA AlternateLineStep ==
  ASSUME UnsetIsZero, SysInv, AlternateLine
  PROVE  SysInv'
<1>0. PICK n, t, e, cmd : n = sysLine /\ t = section' /\ e = earlier' /\ cmd = sysLines[n].cmd
  OBVIOUS
<1>1. /\ LineThere /\ sysLine' = sysLine + 1 /\ Keeps
      /\ defaultAlternates' = defaultAlternates
      /\ sysPc \in {"defaults", "system"} /\ n <= Len(sysLines)
      /\ cmd = "alternate" /\ e = WithSection
  BY <1>0 DEF AlternateLine, Reading, LineThere, Sections, SectionMayStray
<1>2. /\ section \in Section /\ earlier \in Seq(Section) /\ defaultAlternates \in BOOLEAN
      /\ sysLines \in Seq([cmd : STRING, arg : STRING])
  BY DEF SysInv, SysTypes
<1>3. Begin \in Nat /\ n \in Nat \ {0} /\ Begin < n /\ n \in 1..Len(sysLines) /\ Len(sysLines) > 0
  BY <1>0, <1>1, LinesBefore
<1>4. /\ e \in Seq(Section) /\ Len(e) = AlternateOf(Begin, n - 1)
      /\ \A a \in 1..Len(e) : ClosedIs(e[a], Begin, Begin + 1..n - 1, a)
  <2>1. SectionsInv(Begin, n - 1, section, earlier)
    BY <1>0, <1>1 DEF SysInv, BlockInv
  <2>2. n - 1 \in Nat
    BY <1>3
  <2> QED  BY <1>1, <1>2, <1>3, <2>1, <2>2, SectionCloses
<1>5. /\ DOMAIN t = Fields /\ t = [f \in Fields |-> t[f]]
      /\ \A f \in Fields \ {"zalternate"} : t[f] = Cleared[f]
      /\ t["zalternate"] = IF sysLines[n].arg = "" THEN Unset ELSE n
  <2>1. t = [Cleared EXCEPT !["zalternate"] = IF sysLines[n].arg = "" THEN Unset ELSE n]
    BY <1>0 DEF AlternateLine
  <2>2. DOMAIN Cleared = Fields
    BY DEF Cleared
  <2> QED  BY <2>1, <2>2, FieldNames
<1>6. t \in Section
  <2>1. n \in Value /\ Unset \in Value
    BY <1>2, <1>3, SmallValues
  <2>2. Cleared \in Section
    BY <1>2, ClearedTyped
  <2>3. \A f \in ListFields : t[f] \subseteq Value
    BY <1>5, <2>2, SectionHas, FieldNames
  <2>4. \A f \in Fields \ ListFields : t[f] \in Value
    BY <1>5, <2>1, <2>2, SectionHas
  <2> QED  BY <1>5, <2>3, <2>4, SectionMade
<1>7. SectionsInv(Begin, n, t, e)
  <2>1. sysLines[n].cmd = "alternate"
    BY <1>0, <1>1
  <2> QED  BY <1>3, <1>4, <1>5, <2>1, NextSection
<1>8. cmd # "system" /\ cmd # "default-alternates"
  BY <1>1
<1> QED  BY <1>0, <1>1, <1>2, <1>4, <1>6, <1>7, <1>8, LineReadStep

(* A block that ends was read as a whole.                                  *)
LEMMA BlockRead ==
  ASSUME SysInv, sysPc \in {"defaults", "system"}, SectionEnds
  PROVE  /\ WithSection \in Seq(Section) /\ WholeIs(WithSection, Begin)
         /\ LinesRead = BlockOf(Begin)
         /\ \A a \in Nat : a > Len(WithSection) =>
              \A f : Told(Begin, BlockOf(Begin), a, f) = {}
<1>1. /\ section \in Section /\ earlier \in Seq(Section)
      /\ sysLines \in Seq([cmd : STRING, arg : STRING])
      /\ sysLine \in 1..Len(sysLines) + 1
  BY DEF SysInv, SysTypes
<1>2. PICK b, n : b = Begin /\ n = sysLine - 1
  OBVIOUS
<1>3. b \in Nat /\ n \in Nat /\ b <= n /\ n <= Len(sysLines) /\ Len(sysLines) \in Nat
      /\ Len(sysLines) > 0 /\ n + 1 = sysLine
  BY <1>1, <1>2, LinesBefore
<1>4. \A j \in b + 1..n : sysLines[j].cmd # "system"
  BY <1>2 DEF SysInv, BlockInv, LinesRead
<1>5. n < Len(sysLines) => sysLines[n + 1].cmd = "system"
  <2>1. n < Len(sysLines) => sysLine \in DOMAIN sysLines
    BY <1>1, <1>3
  <2> QED  BY <1>3, <2>1 DEF SectionEnds
<1>6. BlockOf(b) = b + 1..n /\ AlternatesOf(b) = AlternateOf(b, n)
  BY <1>3, <1>4, <1>5, BlockEnds
<1>7. SectionsInv(b, n, section, earlier)
  BY <1>2 DEF SysInv, BlockInv
<1>8. /\ WithSection \in Seq(Section)
      /\ Len(WithSection) = AlternateOf(b, n)
      /\ \A a \in 1..Len(WithSection) : ClosedIs(WithSection[a], b, b + 1..n, a)
  BY <1>1, <1>3, <1>7, SectionCloses
<1>9. WholeIs(WithSection, b)
  <2>1. AlternateOf(b, n) \in Nat \ {0}
    BY <1>3, AlternateGrows
  <2> QED  BY <1>6, <1>8, <2>1 DEF WholeIs
<1>10. ASSUME NEW a \in Nat, a > Len(WithSection)
       PROVE  \A f : Told(b, BlockOf(b), a, f) = {}
  <2>1. AlternateOf(b, n) < a
    BY <1>8, <1>9, <1>10 DEF WholeIs
  <2> QED  BY <1>3, <1>6, <2>1, NothingTold
<1> QED  BY <1>2, <1>6, <1>8, <1>9, <1>10 DEF LinesRead

LEMMA DefaultsReadStep ==
  ASSUME UnsetIsZero, SysInv, DefaultsRead
  PROVE  SysInv'
<1>0. /\ sysPc = "defaults" /\ SectionEnds /\ sysPc' = "system"
      /\ sysLine' = iloc + 1 /\ section' = Cleared /\ earlier' = <<>>
      /\ sdefaults' = WithSection
      /\ UNCHANGED <<sysLines, sysLocs, syslocsRead, nAsked, zsystem, iloc, defaultAlternates,
                     sysInfo, sysResult>>
  BY DEF DefaultsRead, readVars, Sections, SectionMayStray
<1>1. /\ iloc \in 1..Len(sysLines) /\ Len(sysLines) \in Nat
      /\ sysLines \in Seq([cmd : STRING, arg : STRING])
  BY <1>0 DEF SysInv, SysTypes, StartInv
<1>2. WithSection \in Seq(Section) /\ WholeIs(WithSection, 0) /\ LinesRead = BlockOf(0)
  <2>1. Begin = 0
    BY <1>0 DEF Begin
  <2> QED  BY <1>0, <2>1, BlockRead
<1>3. SysTypes'
  <2>1. Section' = Section
    BY <1>0, PlacesStay
  <2>2. Cleared \in Section /\ <<>> \in Seq(Section)
    BY <1>1, ClearedTyped
  <2>3. sysLine' \in 1..Len(sysLines) + 1
    BY <1>0, <1>1
  <2> QED  BY <1>0, <1>2, <2>1, <2>2, <2>3 DEF SysInv, SysTypes
<1>4. LocInv'
  BY <1>0, LocKept
<1>5. StartInv'
  <2>1. StartOf(zsystem)' = StartOf(zsystem)
    BY <1>0, PlacesStay
  <2> QED  BY <1>0, <2>1 DEF SysInv, StartInv
<1>6. BlockInv'
  <2>1. Begin' = iloc /\ sysLine' - 1 = iloc /\ iloc < sysLine'
    BY <1>0, <1>1 DEF Begin
  <2>2. LinesRead' = {}
    BY <1>1, <2>1 DEF LinesRead
  <2>3. ChosenLines' = ChosenLines
    <3>1. BlockOf(0)' = BlockOf(0)
      BY <1>0, SaysStays
    <3> QED  BY <1>0, <1>2, <2>2, <3>1 DEF ChosenLines
  <2>4. SectionsInv(iloc, iloc, Cleared, <<>>)
    BY <1>1, FirstSection
  <2>5. SectionsInv(Begin, sysLine - 1, section, earlier)'
    BY <1>0, <2>1, <2>4, SectionsStay
  <2>6. WholeIs(sdefaults, 0)'
    BY <1>0, <1>2, SectionsStay
  <2>7. defaultAlternates <=> Chosen(ChosenLines)
    BY <1>0 DEF SysInv, BlockInv
  <2>8. defaultAlternates' <=> Chosen(ChosenLines)'
    BY <1>0, <2>3, <2>7, SectionsStay
  <2> QED  BY <1>0, <2>1, <2>2, <2>5, <2>6, <2>8 DEF BlockInv
<1>7. GivenInv'
  BY <1>0 DEF GivenInv, FoundRight, Given
<1> QED  BY <1>0, <1>3, <1>4, <1>5, <1>6, <1>7 DEF SysInv

-----------------------------------------------------------------------------
(* What is given *)

LEMMA SaidAre ==
  ASSUME NEW b, NEW a, NEW f
  PROVE  /\ SaidIn(b, a, f) = Told(b, BlockOf(b), a, f)
         /\ SaidBy(b, a, f) = Nearest(b, BlockOf(b), a, f)
<1>1. \A g : SaidIn(b, g, f) = Told(b, BlockOf(b), g, f)
  BY DEF SaidIn, Told, Says
<1> QED  BY <1>1 DEF SaidBy, Nearest

LEMMA BlockLines ==
  ASSUME NEW b \in Nat, Len(sysLines) \in Nat
  PROVE  BlockOf(b) \subseteq 1..Len(sysLines)
  BY DEF BlockOf

(* An alternate with its defaults, of n that the block has.                *)
MergedIs(m, b, a, n) ==
  /\ \A f \in PlainFields : /\ m[f] = Max({Unset} \cup SaidFor(b, a, f))
                            /\ m[f] = Unset <=> SaidFor(b, a, f) = {}
  /\ \A f \in ListFields : m[f] = SaidFor(b, a, f)
  /\ m["qport"] = Unset <=> SaidFor(b, a, "qport") = {}
  /\ SaysHow(m) <=> \E f \in HowToCall : SaidFor(b, a, f) # {}
  /\ SaidIn(b, a, "qport") # {} /\ SaidIn(b, a, "zport") = {} => m["zport"] = Unset
  /\ a <= n => m["fcall"] = IF \E f \in HowToCall \cup {"timegrade"} : SaidIn(b, a, f) # {}
                            THEN 1 ELSE 0

LEMMA AlternateMerged ==
  ASSUME Len(sysLines) \in Nat, NEW b \in Nat, NEW q \in Seq(Section), NEW d \in Seq(Section),
         WholeIs(q, b), WholeIs(d, 0),
         \A a \in Nat : a > Len(q) => \A f : Told(b, BlockOf(b), a, f) = {},
         NEW a \in Nat \ {0}, NEW m, m = Defaulted(OrFirst(q, a), OrLast(d, a))
  PROVE  m \in Section /\ MergedIs(m, b, a, Len(q))
<1>1. PICK u, v, c, B, D : /\ u = OrFirst(q, a) /\ v = OrLast(d, a)
                           /\ c = Min({a, AlternatesOf(0)})
                           /\ B = BlockOf(b) /\ D = BlockOf(0)
  OBVIOUS
<1>2. B \subseteq 1..Len(sysLines) /\ D \subseteq 1..Len(sysLines)
  BY <1>1, BlockLines
<1>3. Len(q) \in Nat \ {0} /\ Len(d) \in Nat \ {0} /\ Len(d) = AlternatesOf(0)
  BY DEF WholeIs
<1>4. ValuesAre(u, b, B, a)
  <2>1. CASE a <= Len(q)
    <3>1. u = q[a] /\ a \in 1..Len(q)
      BY <1>1, <1>3, <2>1 DEF OrFirst
    <3>2. ClosedIs(u, b, B, a)
      BY <1>1, <3>1 DEF WholeIs
    <3> QED  BY <3>2 DEF ClosedIs
  <2>2. CASE ~(a <= Len(q))
    <3>1. u = q[1] /\ 1 \in 1..Len(q) /\ a > Len(q)
      BY <1>1, <1>3, <2>2 DEF OrFirst
    <3>2. ClosedIs(u, b, B, 1)
      BY <1>1, <3>1 DEF WholeIs
    <3>3. \A f : Told(b, B, a, f) = {}
      BY <1>1, <3>1
    <3>4. \A f : Nearest(b, B, a, f) = Nearest(b, B, 1, f)
      BY <3>3 DEF Nearest
    <3> QED  BY <3>2, <3>4 DEF ClosedIs, ValuesAre
  <2> QED  BY <2>1, <2>2
<1>5. ValuesAre(v, 0, D, c)
  <2>1. PICK k : k = Len(d)
    OBVIOUS
  <2>2. {a, k} \subseteq Nat /\ {a, k} # {} /\ k \in Nat \ {0} /\ a \in Nat \ {0}
    BY <1>3, <2>1
  <2>3. Min({a, k}) \in {a, k} /\ \A y \in {a, k} : Min({a, k}) <= y
    BY ONLY <2>2, LeastIs
  <2>4. c = Min({a, k})
    BY <1>1, <1>3, <2>1
  <2>5. c \in 1..k
    BY ONLY <2>2, <2>3, <2>4
  <2>6. v = d[c]
    BY <1>1, <2>1, <2>4 DEF OrLast
  <2>7. ClosedIs(v, 0, D, c)
    BY <1>1, <2>1, <2>5, <2>6 DEF WholeIs
  <2> QED  BY <2>7 DEF ClosedIs
<1>6. \A f : SaidFor(b, a, f) = IF Nearest(b, B, a, f) # {} THEN Nearest(b, B, a, f)
                                ELSE Nearest(0, D, c, f)
  BY <1>1, SaidAre DEF SaidFor
<1>7. /\ \A f : Nearest(b, B, a, f) \subseteq 1..Len(sysLines)
      /\ \A f : Nearest(0, D, c, f) \subseteq 1..Len(sysLines)
  BY <1>2, ToldIn DEF Nearest
<1>8. /\ \A f \in PlainFields \cup {"qport"} : m[f] = IF u[f] = Unset THEN v[f] ELSE u[f]
      /\ \A f \in ListFields : m[f] = IF u[f] = {} THEN v[f] ELSE u[f]
      /\ m["zport"] = IF u["zport"] = Unset /\ u["qport"] = Unset THEN v["zport"] ELSE u["zport"]
      /\ m["fcall"] = IF u["fcall"] < 0 THEN v["fcall"] ELSE u["fcall"]
  BY <1>1, DefaultedIs
<1>9. ASSUME NEW f \in PlainFields
      PROVE  /\ m[f] = Max({Unset} \cup SaidFor(b, a, f))
             /\ m[f] = Unset <=> SaidFor(b, a, f) = {}
  <2>1. u[f] = Max({Unset} \cup Nearest(b, B, a, f)) /\ v[f] = Max({Unset} \cup Nearest(0, D, c, f))
    BY <1>4, <1>5 DEF ValuesAre
  <2>2. /\ u[f] = Unset <=> Nearest(b, B, a, f) = {}
        /\ v[f] = Unset <=> Nearest(0, D, c, f) = {}
    BY <1>7, <2>1, LastOf
  <2>3. m[f] = IF u[f] = Unset THEN v[f] ELSE u[f]
    BY <1>8
  <2> QED  BY <1>6, <2>1, <2>2, <2>3
<1>10. ASSUME NEW f \in ListFields
       PROVE  m[f] = SaidFor(b, a, f)
  <2>1. u[f] = Nearest(b, B, a, f) /\ v[f] = Nearest(0, D, c, f)
    BY <1>4, <1>5 DEF ValuesAre
  <2>2. m[f] = IF u[f] = {} THEN v[f] ELSE u[f]
    BY <1>8
  <2> QED  BY <1>6, <2>1, <2>2
<1>11. m["qport"] = Unset <=> SaidFor(b, a, "qport") = {}
  <2>1. /\ u["qport"] = Unset <=> Nearest(b, B, a, "qport") = {}
        /\ v["qport"] = Unset <=> Nearest(0, D, c, "qport") = {}
    BY <1>4, <1>5 DEF ValuesAre
  <2>2. m["qport"] = IF u["qport"] = Unset THEN v["qport"] ELSE u["qport"]
    BY <1>8
  <2> QED  BY <1>6, <2>1, <2>2
<1>12. /\ m["zport"] # Unset => SaidFor(b, a, "zport") # {}
       /\ SaidFor(b, a, "zport") # {} => m["zport"] # Unset \/ m["qport"] # Unset
  <2>1. /\ u["zport"] # Unset => Nearest(b, B, a, "zport") # {}
        /\ Nearest(b, B, a, "zport") # {} => u["zport"] # Unset \/ u["qport"] # Unset
        /\ v["zport"] # Unset => Nearest(0, D, c, "zport") # {}
        /\ Nearest(0, D, c, "zport") # {} => v["zport"] # Unset \/ v["qport"] # Unset
    BY <1>4, <1>5 DEF ValuesAre
  <2>2. m["qport"] = IF u["qport"] = Unset THEN v["qport"] ELSE u["qport"]
    BY <1>8
  <2>3. SaidFor(b, a, "zport") # {} <=>
          Nearest(b, B, a, "zport") # {} \/ Nearest(0, D, c, "zport") # {}
    BY <1>6
  <2> QED  BY <1>8, <2>1, <2>2, <2>3
<1>13. SaysHow(m) <=> \E f \in HowToCall : SaidFor(b, a, f) # {}
  <2>1. \A f \in {"baud", "phone"} : m[f] # Unset <=> SaidFor(b, a, f) # {}
    BY <1>9, FieldNames
  <2> QED  BY <1>11, <1>12, <2>1, FieldNames DEF SaysHow
<1>14. ASSUME a <= Len(q)
       PROVE  OwnIs(u, b, B, a)
  <2>1. u = q[a] /\ a \in 1..Len(q)
    BY <1>1, <1>3, <1>14 DEF OrFirst
  <2>2. ClosedIs(u, b, B, a)
    BY <1>1, <2>1 DEF WholeIs
  <2> QED  BY <2>2 DEF ClosedIs
<1>15. \A f : SaidIn(b, a, f) = Told(b, B, a, f)
  BY <1>1, SaidAre
<1>16. ASSUME SaidIn(b, a, "qport") # {}, SaidIn(b, a, "zport") = {}
       PROVE  m["zport"] = Unset
  <2>1. Told(b, B, a, "qport") # {} /\ Told(b, B, a, "zport") = {}
    BY <1>15, <1>16
  <2>2. a <= Len(q)
    <3>1. ~(a > Len(q))
      BY <1>1, <2>1
    <3> QED  BY <1>3, <3>1
  <2>3. u["zport"] = Unset
    BY <1>14, <2>1, <2>2 DEF OwnIs
  <2>4. u["qport"] # Unset
    <3>1. Nearest(b, B, a, "qport") # {}
      BY <2>1 DEF Nearest
    <3> QED  BY <1>4, <3>1 DEF ValuesAre
  <2> QED  BY <1>8, <2>3, <2>4
<1>17. ASSUME a <= Len(q)
       PROVE  m["fcall"] = IF \E f \in HowToCall \cup {"timegrade"} : SaidIn(b, a, f) # {}
                           THEN 1 ELSE 0
  <2>1. u["fcall"] = IF \E f \in HowToCall \cup {"timegrade"} : Told(b, B, a, f) # {} THEN 1 ELSE 0
    BY <1>14, <1>17 DEF OwnIs
  <2>2. ~(u["fcall"] < 0)
    BY <2>1
  <2>3. m["fcall"] = u["fcall"]
    BY <1>8, <2>2
  <2> QED  BY <1>15, <2>1, <2>3
<1>18. m \in Section
  <2>1. u \in Section
    <3>1. \A i \in 1..Len(q) : q[i] \in Section
      BY ElementOfSeq
    <3>2. CASE a <= Len(q)
      BY <1>1, <1>3, <3>1, <3>2 DEF OrFirst
    <3>3. CASE ~(a <= Len(q))
      BY <1>1, <1>3, <3>1, <3>3 DEF OrFirst
    <3> QED  BY <3>2, <3>3
  <2>2. v \in Section
    <3>1. \A i \in 1..Len(d) : d[i] \in Section
      BY ElementOfSeq
    <3>2. PICK k : k = Len(d)
      OBVIOUS
    <3>3. {a, k} \subseteq Nat /\ {a, k} # {} /\ k \in Nat \ {0} /\ a \in Nat \ {0}
      BY <1>3, <3>2
    <3>4. Min({a, k}) \in {a, k} /\ \A y \in {a, k} : Min({a, k}) <= y
      BY ONLY <3>3, LeastIs
    <3>5. Min({a, k}) \in 1..k
      BY ONLY <3>3, <3>4
    <3> QED  BY <1>1, <3>1, <3>2, <3>5 DEF OrLast
  <2> QED  BY <1>1, <2>1, <2>2, DefaultedTyped
<1> QED  BY <1>9, <1>10, <1>11, <1>13, <1>16, <1>17, <1>18 DEF MergedIs

(* What the end of uuconf_system_info changes.                             *)
GivenIs(z, m, a) ==
  /\ \A f \in PlainFields : z[f] = m[f] \/ (m[f] = Unset /\ z[f] = Builtin)
  /\ \A f \in ListFields \cup {"zport", "qport"} : z[f] = m[f]
  /\ z["fcall"] = IF a = 1 /\ SaysHow(m) THEN 1 ELSE m["fcall"]
  /\ a = 1 => z["fcalled"] = 1

LEMMA GivenFields ==
  ASSUME NEW m \in Section, NEW a,
         NEW z, z = BasicDefault(IF a = 1 THEN FirstCalled(m) ELSE m)
  PROVE  GivenIs(z, m, a)
<1>1. PICK t : t = IF a = 1 THEN FirstCalled(m) ELSE m
  OBVIOUS
<1>2. /\ \A f \in Fields \ {"fcall", "fcalled"} : t[f] = m[f]
      /\ t["fcall"] = IF a = 1 /\ SaysHow(m) THEN 1 ELSE m["fcall"]
      /\ a = 1 => t["fcalled"] = 1
  <2>1. DOMAIN m = Fields
    BY SectionHas
  <2>2. CASE a = 1
    <3>1. t = [m EXCEPT !["fcalled"] = 1, !["fcall"] = IF SaysHow(m) THEN 1 ELSE m["fcall"]]
      BY <1>1, <2>2 DEF FirstCalled
    <3> QED  BY <2>1, <2>2, <3>1, FieldNames
  <2>3. CASE a # 1
    BY <1>1, <2>3
  <2> QED  BY <2>2, <2>3
<1>3. /\ \A f \in Fields : z[f] = t[f] \/ (f \in PlainFields /\ t[f] = Unset /\ z[f] = Builtin)
      /\ \A f \in Fields \ PlainFields : z[f] = t[f]
  BY <1>1, FieldNames DEF BasicDefault
<1>4. \A f \in PlainFields : z[f] = m[f] \/ (m[f] = Unset /\ z[f] = Builtin)
  BY <1>2, <1>3, FieldNames
<1>5. \A f \in ListFields \cup {"zport", "qport"} : z[f] = m[f]
  <2>1. \A f \in ListFields \cup {"zport", "qport"} :
          f \in Fields \ PlainFields /\ f \in Fields \ {"fcall", "fcalled"}
    BY FieldNames
  <2> QED  BY <1>2, <1>3, <2>1
<1>6. z["fcall"] = t["fcall"] /\ z["fcalled"] = t["fcalled"]
  BY <1>3, FieldNames
<1> QED  BY <1>2, <1>4, <1>5, <1>6 DEF GivenIs

(* The answer w, from the sections q and the defaults d.                   *)
AnswerIs(w, q, d, add) ==
  w = [a \in Alternates(q, d, add) |->
         BasicDefault(IF a = 1 THEN FirstCalled(Defaulted(OrFirst(q, a), OrLast(d, a)))
                      ELSE Defaulted(OrFirst(q, a), OrLast(d, a)))]
AnswerSays(w, b, add) ==
  /\ w \in Seq(Section) /\ w # <<>>
  /\ SaysNearest(w, b) /\ KeepsPort(w, b) /\ UsesAlternates(w, b, add)
(* Block b says nothing of more alternates than q has.                     *)
NoMoreThan(q, b) == \A a \in Nat : a > Len(q) => \A f : Told(b, BlockOf(b), a, f) = {}

LEMMA SystemMerged ==
  ASSUME sysLines \in Seq([cmd : STRING, arg : STRING]), Len(sysLines) > 0,
         NEW b \in Nat, NEW q \in Seq(Section), NEW d \in Seq(Section),
         WholeIs(q, b), WholeIs(d, 0), NoMoreThan(q, b),
         NEW add \in BOOLEAN, NEW w, AnswerIs(w, q, d, add)
  PROVE  AnswerSays(w, b, add)
<1>1. /\ Len(q) \in Nat \ {0} /\ Len(d) \in Nat \ {0} /\ Len(sysLines) \in Nat
      /\ Len(q) = AlternatesOf(b) /\ Len(d) = AlternatesOf(0)
  BY DEF WholeIs
<1>2. PICK k : k = IF add THEN Max({Len(q), Len(d)}) ELSE Len(q)
  OBVIOUS
<1>3. k \in Nat \ {0} /\ Len(q) <= k /\ Alternates(q, d, add) = 1..k
  <2>1. PICK x, y : x = Len(q) /\ y = Len(d)
    OBVIOUS
  <2>2. x \in Nat \ {0} /\ y \in Nat \ {0}
    BY <1>1, <2>1
  <2>3. x + y \in Nat /\ {x, y} \subseteq 0..x + y /\ {x, y} # {}
    BY ONLY <2>2
  <2>4. Max({x, y}) \in {x, y} /\ \A i \in {x, y} : Max({x, y}) >= i
    BY ONLY <2>3, GreatestHas
  <2>5. k = IF add THEN Max({x, y}) ELSE x
    BY <1>2, <2>1
  <2>6. k \in Nat \ {0} /\ x <= k
    BY ONLY <2>2, <2>4, <2>5
  <2>7. Alternates(q, d, add) = 1..k
    BY <1>2, Zenon DEF Alternates
  <2> QED  BY <2>1, <2>6, <2>7
<1>4. PICK M : M = [a \in 1..k |-> Defaulted(OrFirst(q, a), OrLast(d, a))]
  OBVIOUS
<1>5. /\ DOMAIN w = 1..k
      /\ \A a \in 1..k : w[a] = BasicDefault(IF a = 1 THEN FirstCalled(M[a]) ELSE M[a])
      /\ w = [a \in 1..k |-> w[a]]
  BY <1>3, <1>4 DEF AnswerIs
<1>6. ASSUME NEW a \in 1..k
      PROVE  M[a] \in Section /\ MergedIs(M[a], b, a, Len(q))
  <2>1. a \in Nat \ {0}
    BY <1>3
  <2>2. M[a] = Defaulted(OrFirst(q, a), OrLast(d, a))
    BY <1>4
  <2> QED  BY <1>1, <2>1, <2>2, AlternateMerged DEF NoMoreThan
<1>7. ASSUME NEW a \in 1..k
      PROVE  w[a] \in Section
  <2>1. FirstCalled(M[a]) \in Section
    BY <1>6, FirstCalledTyped
  <2> QED  BY <1>5, <1>6, <2>1, BasicTyped
<1>8. w \in Seq(Section) /\ Len(w) = k /\ w # <<>>
  <2>1. k \in Nat /\ w \in [1..k -> Section]
    BY <1>3, <1>5, <1>7
  <2>2. w \in Seq(Section)
    BY ONLY <2>1, SeqDef
  <2>3. Len(w) = k
    BY ONLY <2>1, <2>2, LenProperties
  <2> QED  BY <1>3, <2>2, <2>3
<1>9. ASSUME NEW a \in 1..k
      PROVE  GivenIs(w[a], M[a], a)
  BY <1>5, <1>6, GivenFields
<1>10. SaysNearest(w, b)
  <2>1. ASSUME NEW a \in 1..k, NEW f \in PlainFields
        PROVE  w[a][f] \in {Max({Unset} \cup SaidFor(b, a, f))}
                            \cup IF SaidFor(b, a, f) = {} THEN {Builtin} ELSE {}
    <3>1. /\ M[a][f] = Max({Unset} \cup SaidFor(b, a, f))
          /\ M[a][f] = Unset <=> SaidFor(b, a, f) = {}
      BY <1>6 DEF MergedIs
    <3>2. w[a][f] = M[a][f] \/ (M[a][f] = Unset /\ w[a][f] = Builtin)
      BY <1>9 DEF GivenIs
    <3> QED  BY <3>1, <3>2
  <2>2. ASSUME NEW a \in 1..k, NEW f \in ListFields
        PROVE  w[a][f] = SaidFor(b, a, f)
    <3>1. M[a][f] = SaidFor(b, a, f)
      BY <1>6 DEF MergedIs
    <3>2. w[a][f] = M[a][f]
      BY <1>9 DEF GivenIs
    <3> QED  BY <3>1, <3>2
  <2> QED  BY <1>5, <2>1, <2>2 DEF SaysNearest
<1>11. KeepsPort(w, b)
  BY <1>5, <1>6, <1>9 DEF KeepsPort, MergedIs, GivenIs
<1>12. UsesAlternates(w, b, add)
  <2>1. Len(w) = IF add THEN Max({AlternatesOf(b), AlternatesOf(0)}) ELSE AlternatesOf(b)
    BY <1>1, <1>2, <1>8
  <2>2. 1 \in 1..k /\ 1 <= Len(q)
    BY <1>1, <1>3
  <2>3. w[1]["fcalled"] = 1
    BY <1>9, <2>2 DEF GivenIs
  <2>4. /\ M[1]["fcall"] = IF \E f \in HowToCall \cup {"timegrade"} : SaidIn(b, 1, f) # {}
                           THEN 1 ELSE 0
        /\ SaysHow(M[1]) <=> \E f \in HowToCall : SaidFor(b, 1, f) # {}
    BY <1>6, <2>2 DEF MergedIs
  <2>5. w[1]["fcall"] = IF SaysHow(M[1]) THEN 1 ELSE M[1]["fcall"]
    BY <1>9, <2>2 DEF GivenIs
  <2>6. \A f : SaidIn(b, 1, f) # {} => SaidFor(b, 1, f) # {}
    BY DEF SaidFor, SaidBy
  <2>7. w[1]["fcall"] = 1 <=>
          \/ SaidIn(b, 1, "timegrade") # {}
          \/ \E f \in HowToCall : SaidFor(b, 1, f) # {}
    BY <2>4, <2>5, <2>6
  <2>8. ASSUME NEW a \in 2..AlternatesOf(b)
        PROVE  w[a]["fcall"] = 1 <=>
                 \E f \in HowToCall \cup {"timegrade"} : SaidIn(b, a, f) # {}
    <3>1. a \in 1..k /\ a <= Len(q) /\ a # 1
      BY <1>1, <1>3
    <3>2. w[a]["fcall"] = M[a]["fcall"]
      BY <1>9, <3>1 DEF GivenIs
    <3>3. M[a]["fcall"] = IF \E f \in HowToCall \cup {"timegrade"} : SaidIn(b, a, f) # {}
                          THEN 1 ELSE 0
      BY <1>6, <3>1 DEF MergedIs
    <3> QED  BY <3>2, <3>3
  <2> QED  BY <2>1, <2>3, <2>7, <2>8 DEF UsesAlternates
<1> QED  BY <1>8, <1>10, <1>11, <1>12 DEF AnswerSays

LEMMA SaidStays ==
  ASSUME sysLines' = sysLines
  PROVE  /\ \A b, a, f : SaidIn(b, a, f)' = SaidIn(b, a, f)
         /\ \A b, a, f : SaidFor(b, a, f)' = SaidFor(b, a, f)
<1>1. ASSUME NEW b, NEW a, NEW f
      PROVE  SaidIn(b, a, f)' = SaidIn(b, a, f)
  <2>1. SaidIn(b, a, f) = Told(b, BlockOf(b), a, f)
    BY SaidAre
  <2>2. SaidIn(b, a, f)' = Told(b, BlockOf(b), a, f)'
    BY DEF SaidIn, Told, Says
  <2> QED  BY <2>1, <2>2, SaysStays
<1>2. ASSUME NEW b, NEW a, NEW f
      PROVE  SaidBy(b, a, f)' = SaidBy(b, a, f)
  BY <1>1 DEF SaidBy
<1>3. ASSUME NEW b, NEW a, NEW f
      PROVE  SaidFor(b, a, f)' = SaidFor(b, a, f)
  BY <1>2, SectionsStay DEF SaidFor
<1> QED  BY <1>1, <1>3

LEMMA GivenStays ==
  ASSUME sysLines' = sysLines
  PROVE  /\ \A w, b : SaysNearest(w, b)' = SaysNearest(w, b)
         /\ \A w, b : KeepsPort(w, b)' = KeepsPort(w, b)
         /\ \A w, b : \A add \in BOOLEAN :
              UsesAlternates(w, b, add)' <=> UsesAlternates(w, b, add)
<1>1. ASSUME NEW w, NEW b
      PROVE  SaysNearest(w, b)' = SaysNearest(w, b)
  BY SaidStays DEF SaysNearest
<1>2. ASSUME NEW w, NEW b
      PROVE  KeepsPort(w, b)' = KeepsPort(w, b)
  BY SaidStays DEF KeepsPort
<1>3. ASSUME NEW w, NEW b, NEW add \in BOOLEAN
      PROVE  UsesAlternates(w, b, add)' <=> UsesAlternates(w, b, add)
  <2>1. AlternatesOf(b)' = AlternatesOf(b) /\ AlternatesOf(0)' = AlternatesOf(0)
    BY SectionsStay
  <2>2. \A a, f : SaidIn(b, a, f)' = SaidIn(b, a, f) /\ SaidFor(b, a, f)' = SaidFor(b, a, f)
    BY SaidStays
  <2>3. {AlternatesOf(b), AlternatesOf(0)}' = {AlternatesOf(b), AlternatesOf(0)}
    BY <2>1
  <2>4. PICK A, k : A = AlternatesOf(b)
                    /\ k = IF add THEN Max({AlternatesOf(b), AlternatesOf(0)}) ELSE AlternatesOf(b)
    OBVIOUS
  <2>5. PICK H : H = HowToCall
    OBVIOUS
  <2>6. UsesAlternates(w, b, add) <=>
          /\ Len(w) = k
          /\ w[1]["fcalled"] = 1
          /\ w[1]["fcall"] = 1 <=>
               \/ SaidIn(b, 1, "timegrade") # {}
               \/ \E f \in H : SaidFor(b, 1, f) # {}
          /\ \A a \in 2..A :
               w[a]["fcall"] = 1 <=> \E f \in H \cup {"timegrade"} : SaidIn(b, a, f) # {}
    BY <2>4, <2>5 DEF UsesAlternates
  <2>7. Max({AlternatesOf(b), AlternatesOf(0)})' = Max({AlternatesOf(b), AlternatesOf(0)})
    BY <2>3
  <2>8. UsesAlternates(w, b, add)' <=>
          /\ Len(w) = k
          /\ w[1]["fcalled"] = 1
          /\ w[1]["fcall"] = 1 <=>
               \/ SaidIn(b, 1, "timegrade") # {}
               \/ \E f \in H : SaidFor(b, 1, f) # {}
          /\ \A a \in 2..A :
               w[a]["fcall"] = 1 <=> \E f \in H \cup {"timegrade"} : SaidIn(b, a, f) # {}
    BY <2>1, <2>2, <2>4, <2>5, <2>7 DEF UsesAlternates
  <2> QED  BY <2>6, <2>8
<1> QED  BY <1>1, <1>2, <1>3

LEMMA SystemReadStep ==
  ASSUME UnsetIsZero, SysInv, SystemRead
  PROVE  SysInv'
<1>0. /\ sysPc = "system" /\ SectionEnds /\ sysPc' = "idle" /\ sysResult' = "success"
      /\ UNCHANGED <<sysLines, sysLocs, syslocsRead, nAsked, zsystem, iloc, section, earlier,
                     defaultAlternates, sdefaults, sysLine>>
  BY DEF SystemRead, SysReturn, readState, readVars
<1>1. PICK b, q, d, add, w : /\ b = iloc /\ q = WithSection /\ d = sdefaults
                             /\ add = defaultAlternates /\ w = sysInfo'
  OBVIOUS
<1>2. /\ sysLines \in Seq([cmd : STRING, arg : STRING]) /\ Len(sysLines) > 0
      /\ b \in Nat /\ d \in Seq(Section) /\ add \in BOOLEAN
      /\ b \in 1..Len(sysLines) /\ {b} = StartOf(zsystem)
      /\ Begin = b
  BY <1>0, <1>1, LinesBefore DEF SysInv, SysTypes, StartInv
<1>3. /\ q \in Seq(Section) /\ WholeIs(q, b) /\ LinesRead = BlockOf(b)
      /\ \A a \in Nat : a > Len(q) => \A f : Told(b, BlockOf(b), a, f) = {}
  BY <1>0, <1>1, <1>2, BlockRead
<1>4. WholeIs(d, 0) /\ (add <=> Chosen(BlockOf(0) \cup BlockOf(b)))
  BY <1>0, <1>1, <1>3 DEF SysInv, BlockInv, ChosenLines
<1>5. AnswerIs(w, q, d, add)
  <2>1. Sections = {q}
    BY <1>1 DEF Sections, SectionMayStray
  <2>2. MayStray(q) = {}
    BY DEF MayStray
  <2>3. Merged(q) = [a \in Alternates(q, d, add) |-> Defaulted(OrFirst(q, a), OrLast(d, a))]
    BY <1>1 DEF Merged, SystemDefault
  <2>4. PICK M : M = Merged(q)
    OBVIOUS
  <2>5. w = [i \in DOMAIN M |-> BasicDefault(IF i = 1 THEN FirstCalled(M[i]) ELSE M[i])]
    <3>1. \E odd \in SUBSET {} :
            w = [i \in DOMAIN M |->
                   LET s == IF i \in odd THEN WithStray(M[i]) ELSE M[i]
                   IN  BasicDefault(IF i = 1 THEN FirstCalled(s) ELSE s)]
      BY <1>1, <2>1, <2>2, <2>4 DEF SystemRead
    <3> QED  BY <3>1
  <2>6. /\ DOMAIN M = Alternates(q, d, add)
        /\ \A a \in Alternates(q, d, add) : M[a] = Defaulted(OrFirst(q, a), OrLast(d, a))
    BY <2>3, <2>4
  <2> QED  BY <2>5, <2>6 DEF AnswerIs
<1>6. /\ w \in Seq(Section) /\ w # <<>>
      /\ SaysNearest(w, b) /\ KeepsPort(w, b) /\ UsesAlternates(w, b, add)
  <2>1. /\ sysLines \in Seq([cmd : STRING, arg : STRING]) /\ Len(sysLines) > 0
        /\ b \in Nat /\ d \in Seq(Section) /\ add \in BOOLEAN
    BY <1>2
  <2>2. q \in Seq(Section) /\ WholeIs(q, b) /\ WholeIs(d, 0) /\ NoMoreThan(q, b)
    BY <1>3, <1>4 DEF NoMoreThan
  <2>3. AnswerSays(w, b, add)
    BY ONLY <2>1, <2>2, <1>5, SystemMerged
  <2> QED  BY ONLY <2>3 DEF AnswerSays
<1>7. SysTypes'
  <2>1. Section' = Section
    BY <1>0, PlacesStay
  <2> QED  BY <1>0, <1>1, <1>6, <2>1 DEF SysInv, SysTypes
<1>8. LocInv'
  BY <1>0, LocKept
<1>9. StartInv' /\ BlockInv'
  BY <1>0 DEF StartInv, BlockInv
<1>10. GivenInv'
  <2>1. StartOf(zsystem)' = StartOf(zsystem)
    BY <1>0, PlacesStay
  <2>2. FoundRight'
    BY <1>0, <1>1, <1>2, <2>1 DEF FoundRight
  <2>3. iloc' = b /\ sysInfo' = w
    BY <1>0, <1>1
  <2>4. SaysNearest(sysInfo, iloc)' /\ KeepsPort(sysInfo, iloc)'
    BY <1>0, <1>6, <2>3, GivenStays
  <2>5. PICK L : L = BlockOf(0) \cup BlockOf(b)
    OBVIOUS
  <2>6. (BlockOf(0) \cup BlockOf(iloc))' = L
    BY <1>0, <2>3, <2>5, SaysStays
  <2>7. add = Chosen(L)
    <3>1. Chosen(L) \in BOOLEAN
      BY DEF Chosen
    <3> QED  BY <1>2, <1>4, <2>5, <3>1
  <2>8. Chosen(BlockOf(0) \cup BlockOf(iloc))' = add
    BY <1>0, <2>6, <2>7, SectionsStay
  <2>9. UsesAlternates(sysInfo, iloc, Chosen(BlockOf(0) \cup BlockOf(iloc)))'
    BY <1>0, <1>2, <1>6, <2>3, <2>8, GivenStays
  <2> QED  BY <2>2, <2>4, <2>9 DEF GivenInv
<1> QED  BY <1>0, <1>1, <1>6, <1>7, <1>8, <1>9, <1>10 DEF SysInv

LEMMA SysIdles ==
  ASSUME SysInv, UNCHANGED sysVars
  PROVE  SysInv'
<1>0. UNCHANGED <<sysLines, sysLocs, syslocsRead, sysPc, sysLine, nAsked, zsystem, iloc, section,
                  earlier, defaultAlternates, sdefaults, sysInfo, sysResult>>
  BY DEF sysVars
<1>1. SysTypes'
  <2>1. Section' = Section
    BY <1>0, PlacesStay
  <2> QED  BY <1>0, <2>1 DEF SysInv, SysTypes
<1>2. LocInv'
  <2>1. PICK n, k : n = Len(sysLines) /\ k = sysLine - 1
    OBVIOUS
  <2>2. LocatedUpTo(n)' = LocatedUpTo(n) /\ LocatedUpTo(k)' = LocatedUpTo(k)
    BY <1>0, PlacesStay
  <2> QED  BY <1>0, <2>1, <2>2 DEF SysInv, LocInv
<1>3. StartOf(zsystem)' = StartOf(zsystem)
  BY <1>0, PlacesStay
<1>4. StartInv'
  BY <1>0, <1>3 DEF SysInv, StartInv
<1>5. BlockInv'
  <2>1. Begin' = Begin /\ LinesRead' = LinesRead /\ ChosenLines' = ChosenLines
    <3>1. Begin' = Begin
      BY <1>0 DEF Begin
    <3>2. LinesRead' = LinesRead
      BY <1>0, <3>1 DEF LinesRead
    <3>3. BlockOf(0)' = BlockOf(0)
      BY <1>0, SaysStays
    <3> QED  BY <1>0, <3>1, <3>2, <3>3 DEF ChosenLines
  <2>2. SectionsInv(Begin, sysLine - 1, section, earlier)' =
          SectionsInv(Begin, sysLine - 1, section, earlier)
    BY <1>0, <2>1, SectionsStay
  <2>3. WholeIs(sdefaults, 0)' = WholeIs(sdefaults, 0)
    BY <1>0, SectionsStay
  <2>4. Chosen(ChosenLines)' = Chosen(ChosenLines)
    BY <1>0, <2>1, SectionsStay
  <2> QED  BY <1>0, <2>1, <2>2, <2>3, <2>4 DEF SysInv, BlockInv
<1>6. GivenInv'
  <2>1. FoundRight' = FoundRight
    BY <1>0, <1>3 DEF FoundRight, Given
  <2>2. Given' = Given
    BY <1>0 DEF Given
  <2>3. SaysNearest(sysInfo, iloc)' = SaysNearest(sysInfo, iloc)
    BY <1>0, GivenStays
  <2>4. KeepsPort(sysInfo, iloc)' = KeepsPort(sysInfo, iloc)
    BY <1>0, GivenStays
  <2>5. (BlockOf(0) \cup BlockOf(iloc))' = BlockOf(0) \cup BlockOf(iloc)
    BY <1>0, SaysStays
  <2>6. Chosen(BlockOf(0) \cup BlockOf(iloc))' = Chosen(BlockOf(0) \cup BlockOf(iloc))
    BY <1>0, <2>5, SectionsStay
  <2>7. UsesAlternates(sysInfo, iloc, Chosen(BlockOf(0) \cup BlockOf(iloc)))'
          <=> UsesAlternates(sysInfo, iloc, Chosen(BlockOf(0) \cup BlockOf(iloc)))
    <3>1. Chosen(BlockOf(0) \cup BlockOf(iloc)) \in BOOLEAN
      BY DEF Chosen
    <3> QED  BY <1>0, <2>6, <3>1, GivenStays
  <2> QED  BY <2>1, <2>2, <2>3, <2>4, <2>7 DEF SysInv, GivenInv
<1> QED  BY <1>0, <1>1, <1>2, <1>4, <1>5, <1>6 DEF SysInv

LEMMA SysInvNext ==
  ASSUME UnsetIsZero, SysInv, [SysNext]_sysVars
  PROVE  SysInv'
<1>1. CASE UNCHANGED sysVars
  BY <1>1, SysIdles
<1>2. CASE SysNext
  BY <1>2, SystemInfoStep, LocateLineStep, LocationsReadStep, LocationsFailStep, FindSystemStep,
     NoSystemStep, SetFieldStep, DescribePortStep, AlternateLineStep, DefaultAlternatesLineStep,
     ReadingEndsStep, DefaultsReadStep, SystemReadStep DEF SysNext
<1> QED  BY <1>1, <1>2

(* What memory has of the sys file is what its lines say, up to the line   *)
(* that is read next.                                                      *)
THEOREM SysInvariant ==
  ASSUME UnsetIsZero
  PROVE  SysSpec => []SysInv
<1>1. SysInv /\ [SysNext]_sysVars => SysInv'
  BY SysInvNext
<1> QED  BY <1>1, SysInvInit, PTL DEF SysSpec

(* The variables have values of their types.                               *)
THEOREM SysTypeCorrect ==
  ASSUME UnsetIsZero
  PROVE  SysSpec => []SysTypeOK
<1>1. SysInv => SysTypeOK
  <2> SUFFICES ASSUME SysInv
               PROVE  SysTypeOK
    OBVIOUS
  <2>1. \A i \in DOMAIN sysLocs : sysLines[sysLocs[i].iloc].cmd \in {"system", "alias"}
    <3>1. sysLocs = <<>> \/ \E n : LocatedUpTo(n)
      BY DEF SysInv, LocInv, SysTypes
    <3>2. sysLocs \in Seq(Place) /\ DOMAIN sysLocs = 1..Len(sysLocs)
      BY DEF SysInv, SysTypes
    <3> QED  BY <3>1, <3>2 DEF LocatedUpTo, NamesSystem
  <2>2. ASSUME NEW q \in Seq(Section), NEW s \in Range(q)
        PROVE  s \in Section
    BY DEF Range
  <2>3. \A s \in {section} \cup Range(earlier) \cup Range(sdefaults) \cup Range(sysInfo) :
          s \in Section
    BY <2>2 DEF SysInv, SysTypes
  <2>4. \A s \in {section} \cup Range(earlier) \cup Range(sdefaults) \cup Range(sysInfo) :
          /\ DOMAIN s = Fields
          /\ \A f \in ListFields : s[f] \subseteq -1..Len(sysLines)
          /\ \A f \in Fields \ ListFields : s[f] \in -1..Len(sysLines)
    BY <2>3, SectionHas DEF Value
  <2>5. sysPc = "system" => sdefaults # <<>>
    <3>1. sysPc = "system" => Len(sdefaults) \in Nat \ {0}
      BY DEF SysInv, BlockInv, WholeIs
    <3> QED  BY <3>1
  <2> QED  BY <2>1, <2>4, <2>5 DEF SysInv, SysTypes, SysTypeOK
<1> QED  BY <1>1, SysInvariant, PTL

(* What is given for a system is what the sys file says of it.             *)
THEOREM SystemIsAsSaid ==
  ASSUME UnsetIsZero
  PROVE  SysSpec => []SystemAsSaid
<1>1. SysInv => SystemAsSaid
  <2> SUFFICES ASSUME SysInv
               PROVE  SystemAsSaid
    OBVIOUS
  <2>1. FoundRight
    BY DEF SysInv, GivenInv
  <2>2. NearestSays
    BY DEF SysInv, GivenInv, NearestSays, SaysNearest
  <2>3. DescribedPortKept
    BY DEF SysInv, GivenInv, DescribedPortKept, KeepsPort
  <2>4. AlternatesUsed
    BY Zenon DEF SysInv, GivenInv, AlternatesUsed, UsesAlternates, Chosen
  <2> QED  BY <2>1, <2>2, <2>3, <2>4 DEF SystemAsSaid
<1> QED  BY <1>1, SysInvariant, PTL

-----------------------------------------------------------------------------
(* The components of MCFiles together *)

filesVars == <<part, sysVars, spanVars, logVars, workVars, xqtVars>>

(* A step of the components is one of one of them, and leaves the others.  *)
LEMMA FilesStepIsOne ==
  [FilesNext]_filesVars =>
    /\ [SysNext]_sysVars /\ [SpanNext]_spanVars /\ [LogNext]_logVars
    /\ [WorkNext]_workVars /\ [XqtNext]_xqtVars
<1> SUFFICES ASSUME [FilesNext]_filesVars
             PROVE  /\ [SysNext]_sysVars /\ [SpanNext]_spanVars /\ [LogNext]_logVars
                    /\ [WorkNext]_workVars /\ [XqtNext]_xqtVars
  OBVIOUS
<1>1. CASE ShowSystem
  BY <1>1 DEF ShowSystem
<1>2. CASE ShowTimes
  BY <1>2 DEF ShowTimes
<1>3. CASE ShowLog
  BY <1>3 DEF ShowLog
<1>4. CASE ShowWork
  BY <1>4 DEF ShowWork
<1>5. CASE ShowUuxqt
  BY <1>5 DEF ShowUuxqt
<1>6. CASE UNCHANGED filesVars
  BY <1>6 DEF filesVars
<1> QED  BY <1>1, <1>2, <1>3, <1>4, <1>5, <1>6 DEF FilesNext

(* What is proved of a component so holds of its behaviours in the run.    *)
LEMMA FilesShowEach ==
  FilesSpec => SysSpec /\ SpanSpec /\ LogSpec /\ WorkSpec /\ XqtSpec
<1>1. FilesInit => SysInit /\ SpanInit /\ LogInit /\ WorkInit /\ XqtInit
  BY DEF FilesInit
<1>2. FilesSpec => FilesInit /\ [][FilesNext]_filesVars
  BY DEF FilesSpec, filesVars
<1> QED
  BY <1>1, <1>2, FilesStepIsOne, PTL DEF SysSpec, SpanSpec, LogSpec, WorkSpec, XqtSpec

(* Systems, times, the log, and the spool's command and execute files keep *)
(* the types of their variables, whichever of them goes on.                *)
THEOREM FilesTypesCorrect ==
  ASSUME FirstEnd = 1, UnsetIsZero, MidScan = FALSE
  PROVE  FilesSpec => []FilesTypeOK
<1>1. SysSpec => []SysTypeOK
  BY SysTypeCorrect
<1>2. SpanSpec => []SpanTypeOK
  <2>1. SpanInv => SpanTypeOK
    BY DEF SpanInv
  <2>2. SpanSpec => []SpanInv
    BY SpanInvariant
  <2> QED  BY <2>1, <2>2, PTL
<1>3. WorkSpec => []WorkTypeOK
  BY WorkTypeCorrect
<1>4. SysTypeOK /\ SpanTypeOK /\ LogTypeOK /\ WorkTypeOK /\ XqtTypeOK => FilesTypeOK
  BY DEF FilesTypeOK
<1> QED  BY <1>1, <1>2, <1>3, <1>4, FilesShowEach, LogTypeCorrect, XqtTypeCorrect, PTL
=============================================================================
