---------------------------- MODULE CuCopyProof ----------------------------
(***************************************************************************)
(* Proofs about the start and stop protocol of CuCopy, for buffers, ports  *)
(* and resend bounds of any size.                                          *)
(*                                                                         *)
(* What has to be shown is that an answer read by the parent is never one  *)
(* the child gave before it took a signal of the opposite kind, and that   *)
(* no such signal is still on its way.  Neither can be seen in one state   *)
(* of the parent alone; the inductive invariant says, of the call that is  *)
(* under way, what the answers in the pipe already imply (Round), and of   *)
(* the time between two calls, that nothing of the other kind is left in   *)
(* the pipe or anywhere in the child (Idle).                               *)
(***************************************************************************)
EXTENDS CuCopy, SequenceTheorems, TLAPS

Opposite == [s \in CopySignals |->
               IF s = "SIGUSR1" THEN "SIGUSR2" ELSE "SIGUSR1"]

InPipe(a) == \E i \in DOMAIN pipe : pipe[i] = a
AllInPipe(a) == \A i \in DOMAIN pipe : pipe[i] = a
OnlyFollowedBy(a) ==
  \A i, j \in DOMAIN pipe : i < j /\ pipe[i] = a => pipe[j] = a

(* The child is in the state s asks for, and stays in it. *)
Settled(s) ==
  cpc # "dead" => (fstopped <=> s = "SIGUSR2") /\ ~ Has(Opposite[s])

Idle(s) == Settled(s) /\ AllInPipe(Answer[s])

(* A call that sends s is waiting for its answer. *)
Round(s) ==
  /\ iSsend_sig = s
  /\ InPipe(Answer[s]) => Settled(s) /\ OnlyFollowedBy(Answer[s])
  /\ cpc # "dead" /\ Delivered(s) => Opposite[s] \notin pend
  /\ cpc \in {"clear", "act"} /\ isig = s => iSchild_sig # Opposite[s]

Handshake ==
  /\ mpc \in {"loop", "tty", "escape"} =>
       Idle("SIGUSR1") \/ (TakeMayTimeOut /\ Idle("SIGUSR2"))
  /\ mpc = "command" => Idle("SIGUSR2")
  /\ mpc = "stopwait" => Round("SIGUSR2")
  /\ mpc = "startwait" => Round("SIGUSR1")
  /\ fstopped => cpc \notin {"setup", "ready"}
  /\ mpc = "over" => cpc = "dead"

Buffer ==
  /\ cwrite <= Len(abbuf)
  /\ Len(abbuf) <= BufSize
  /\ cpc \in {"call", "sys"} => off + cwrite <= Len(abbuf)

(* The alarm handler has a signal to send whenever the alarm is set. *)
AlarmSet ==
  mpc \in {"stopwait", "startwait", "finwait"} => iSsend_sig \in Signals

IInv == TypeOK /\ AlarmSet /\ Buffer /\ Handshake

-----------------------------------------------------------------------------
(* What SubSeq takes out of the buffer. *)
LEMMA SubSeqOfBuffer ==
  ASSUME NEW S, NEW s \in Seq(S), NEW m \in Nat, NEW n \in Nat,
         m + n <= Len(s)
  PROVE  /\ SubSeq(s, m + 1, m + n) \in Seq(S)
         /\ Len(SubSeq(s, m + 1, m + n)) = n
OBVIOUS

(* What a call sends is a signal. *)
LEMMA SignalSet ==
  {"SIGUSR1", "SIGUSR2", "SIGTERM", "SIGKILL"} \subseteq Signals
BY DEF Signals, ChildSignals, CopySignals

(* Sending one of them keeps the set of pending signals well typed. *)
LEMMA KillType ==
  ASSUME pend \in SUBSET Signals, NEW s \in Signals, Kill(s)
  PROVE  pend' \in SUBSET Signals
BY DEF Kill

LEMMA WriteAnswerType ==
  ASSUME pipe \in Seq({CHILD_STARTED, CHILD_STOPPED}),
         NEW b \in {CHILD_STARTED, CHILD_STOPPED}, WriteAnswer(b)
  PROVE  pipe' \in Seq({CHILD_STARTED, CHILD_STOPPED})
BY AppendProperties DEF WriteAnswer

(* The type invariant, and the bounds of the child's buffer, are inductive *)
(* together: the one needs the other where the buffer is written out.      *)
LEMMA TypeAndBuffer ==
  TypeOK /\ AlarmSet /\ Buffer /\ [Next]_vars =>
    TypeOK' /\ AlarmSet' /\ Buffer'
<1> SUFFICES ASSUME TypeOK, AlarmSet, Buffer, [Next]_vars
             PROVE  TypeOK' /\ AlarmSet' /\ Buffer'
  OBVIOUS
<1> USE ConstantsAssumption
        DEF TypeOK, AlarmSet, Buffer, ParentStates, ChildStates, Looping,
            parentVars, sigVars, dataVars, childSide
<1>0. Len(abbuf) \in Nat
  BY LenProperties
<1>1. CASE Deliver
  <2>1. iSchild_sig' \in ChildSignals \cup {"none"}
    BY <1>1 DEF Deliver, Signals
  <2>2. cpc' \in ChildStates
    BY <1>1 DEF Deliver
  <2>3. cpc' \in {"call", "sys"} => cpc \in {"call", "sys"}
    BY <1>1 DEF Deliver
  <2>4. pend' = {}
    BY <1>1 DEF Deliver
  <2> QED BY <1>1, <2>1, <2>2, <2>3, <2>4 DEF Deliver
<1>2. CASE Child
  <2>1. CASE InstallHandlers
    BY <2>1 DEF InstallHandlers
  <2>2. CASE EnterLoop
    <3>1. /\ cwrite' \in 0..BufSize
          /\ iSchild_sig' \in ChildSignals \cup {"none"}
          /\ cpc' = "load"
      BY <2>2 DEF EnterLoop
    <3>2. /\ fstopped' \in BOOLEAN
          /\ UNCHANGED <<mpc, iSsend_sig, sighup, pend, pipe, isig, fgot,
                         abbuf, off, taken, shown>>
      BY <2>2, Zenon DEF EnterLoop
    <3>3. cwrite' = 0
      BY <2>2 DEF EnterLoop
    <3>4. TypeOK'
      BY <3>1, <3>2
    <3> QED BY <1>0, <3>1, <3>2, <3>3, <3>4
  <2>3. CASE LoadSignal
    BY <2>3 DEF LoadSignal
  <2>4. CASE ClearSignal
    BY <2>4 DEF ClearSignal
  <2>5. CASE NoSignal
    BY <2>5 DEF NoSignal
  <2>6. CASE Terminate
    BY <2>6 DEF Terminate
  <2>7. CASE EnterSystemCall
    BY <2>7 DEF EnterSystemCall
  <2>8. CASE AnswerStart
    <3>1. /\ cpc' \in {"dead", "call"}
          /\ cwrite' = cwrite
          /\ off' = 0
          /\ isig' = "none"
      BY <2>8 DEF AnswerStart, WriteAnswer
    <3>4. fstopped' \in BOOLEAN
      BY <2>8, Zenon DEF AnswerStart
    <3>2. pipe' \in Seq({CHILD_STARTED, CHILD_STOPPED})
      BY <2>8, WriteAnswerType DEF AnswerStart
    <3>3. UNCHANGED <<mpc, iSsend_sig, sighup, pend, iSchild_sig, fgot,
                      abbuf, taken, shown>>
      BY <2>8 DEF AnswerStart, WriteAnswer
    <3> QED BY <1>0, <3>1, <3>2, <3>3, <3>4
  <2>9. CASE AnswerStop
    <3>1. /\ cpc' \in {"dead", "call"}
          /\ cwrite' = 0
          /\ off' = 0
          /\ isig' = "none"
      BY <2>9 DEF AnswerStop, WriteAnswer
    <3>4. fstopped' \in BOOLEAN
      BY <2>9, Zenon DEF AnswerStop
    <3>2. pipe' \in Seq({CHILD_STARTED, CHILD_STOPPED})
      BY <2>9, WriteAnswerType DEF AnswerStop
    <3>3. UNCHANGED <<mpc, iSsend_sig, sighup, pend, iSchild_sig, fgot,
                      abbuf, taken, shown>>
      BY <2>9 DEF AnswerStop, WriteAnswer
    <3> QED BY <1>0, <3>1, <3>2, <3>3, <3>4
  <2> QED BY <1>2, <2>1, <2>2, <2>3, <2>4, <2>5, <2>6, <2>7, <2>8, <2>9
          DEF Child
<1>3. CASE Copying
  <2>1. ASSUME NEW n \in 1..BufSize, ReadPort(n)
        PROVE  TypeOK' /\ AlarmSet' /\ Buffer'
    <3>1. /\ abbuf' \in Seq(Nat)
          /\ Len(abbuf') = n
      BY <2>1 DEF ReadPort
    <3> QED BY <2>1, <3>1 DEF ReadPort, Reading
  <2>2. ASSUME NEW n \in 1..BufSize, WriteTerminal(n)
        PROVE  TypeOK' /\ AlarmSet' /\ Buffer'
    <3>1. off + n <= Len(abbuf)
      BY <2>2 DEF WriteTerminal, Writing
    <3>2. SubSeq(abbuf, off + 1, off + n) \in Seq(Nat)
      BY <3>1, SubSeqOfBuffer
    <3>3. shown' \in Seq(Nat)
      BY <2>2, <3>2 DEF WriteTerminal
    <3> QED BY <2>2, <3>1, <3>3 DEF WriteTerminal, Writing
  <2>3. CASE ReadNothing \/ CopyFails
    BY <2>3 DEF ReadNothing, CopyFails, ExitWithHangup
  <2> QED BY <1>3, <2>1, <2>2, <2>3 DEF Copying
<1>4. CASE Parent
  <2> USE SignalSet, KillType DEF MoveTo, BeginCopy, StartFinish, Finish
  <2>1. CASE AwaitKey
    BY <2>1 DEF AwaitKey
  <2>2. CASE TypeKey
    BY <2>2 DEF TypeKey
  <2>3. CASE LoseTerminal
    BY <2>3 DEF LoseTerminal
  <2>4. CASE TypeCommand
    <3>1. CASE MoveTo("loop")
      BY <3>1
    <3>2. CASE BeginCopy("SIGUSR2", "stopwait")
      BY <3>2
    <3>3. CASE Finish
      BY <3>3
    <3> QED BY <2>4, <3>1, <3>2, <3>3 DEF TypeCommand
  <2>5. CASE CommandEnds
    BY <2>5 DEF CommandEnds
  <2>6. CASE CommandAborts
    BY <2>6 DEF CommandAborts
  <2>7. CASE CommandTimesOut
    BY <2>7 DEF CommandTimesOut
  <2>8. CASE Resend
    BY <2>8 DEF Resend
  <2>9. CASE ReadAnswer
    BY <2>9 DEF ReadAnswer
  <2>10. CASE ReadEnd
    BY <2>10 DEF ReadEnd
  <2>11. CASE Hangup
    <3>1. CASE mpc = "tty"
      BY <2>11, <3>1 DEF Hangup
    <3>2. CASE mpc # "tty"
      BY <2>11, <3>2 DEF Hangup
    <3> QED BY <3>1, <3>2
  <2>12. CASE Reap
    BY <2>12 DEF Reap
  <2> QED BY <1>4, <2>1, <2>2, <2>3, <2>4, <2>5, <2>6, <2>7, <2>8, <2>9, <2>10, <2>11, <2>12
          DEF Parent
<1>5. CASE UNCHANGED vars
  BY <1>5 DEF vars
<1> QED BY <1>1, <1>2, <1>3, <1>4, <1>5 DEF Next

-----------------------------------------------------------------------------
(* The steps that are not the parent's. *)
ChildStep == Deliver \/ Child \/ Copying

(* fstopped is only ever set inside the loop. *)
StoppedInLoop == fstopped => cpc \notin {"setup", "ready"}

LEMMA Opposites ==
  /\ Opposite["SIGUSR1"] = "SIGUSR2" /\ Opposite["SIGUSR2"] = "SIGUSR1"
  /\ Answer["SIGUSR1"] = "G" /\ Answer["SIGUSR2"] = "S"
BY DEF Opposite, Answer, CopySignals, CHILD_STARTED, CHILD_STOPPED

(* A child that has settled stays settled, whatever it does and whatever   *)
(* is delivered to it.                                                     *)
LEMMA SettledStep ==
  ASSUME TypeOK, StoppedInLoop, NEW s \in CopySignals, Settled(s), ChildStep
  PROVE  Settled(s)' /\ StoppedInLoop'
<1> USE Opposites DEF StoppedInLoop, Settled, Has, Delivered, CopySignals
<1>1. CASE Deliver
  BY <1>1 DEF Deliver, TypeOK
<1>2. CASE Child
  <2>1. CASE InstallHandlers
    BY <2>1 DEF InstallHandlers, sigVars
  <2>2. CASE EnterLoop
    BY <2>2 DEF EnterLoop
  <2>3. CASE LoadSignal
    BY <2>3 DEF LoadSignal
  <2>4. CASE ClearSignal
    BY <2>4 DEF ClearSignal
  <2>5. CASE NoSignal
    BY <2>5 DEF NoSignal, sigVars
  <2>6. CASE Terminate
    BY <2>6 DEF Terminate
  <2>7. CASE EnterSystemCall
    BY <2>7 DEF EnterSystemCall, sigVars
  <2>8. CASE AnswerStart
    BY <2>8 DEF AnswerStart, WriteAnswer
  <2>9. CASE AnswerStop
    BY <2>9 DEF AnswerStop, WriteAnswer
  <2> QED BY <1>2, <2>1, <2>2, <2>3, <2>4, <2>5, <2>6, <2>7, <2>8, <2>9
          DEF Child
<1>3. CASE Copying
  <2>1. /\ UNCHANGED <<pend, iSchild_sig, isig, fstopped>>
        /\ cpc = "sys" /\ cpc' \in {"load", "call", "dead"}
    BY <1>3 DEF Copying, ReadPort, WriteTerminal, ReadNothing, CopyFails,
                ExitWithHangup, Reading, Writing, sigVars
  <2> QED BY <2>1
<1> QED BY <1>1, <1>2, <1>3 DEF ChildStep

(* The only thing the child writes on the pipe is the answer to the signal *)
(* it is acting on.                                                        *)
LEMMA PipeStep ==
  ASSUME ChildStep
  PROVE  /\ mpc' = mpc /\ iSsend_sig' = iSsend_sig
         /\ \/ pipe' = pipe
            \/ /\ cpc = "act" /\ isig \in CopySignals
               /\ pipe' = Append(pipe, Answer[isig])
<1> USE Opposites DEF parentVars
<1>1. CASE Deliver
  BY <1>1 DEF Deliver
<1>2. CASE Child
  <2>1. CASE AnswerStart
    BY <2>1 DEF AnswerStart, WriteAnswer, CHILD_STARTED, CopySignals
  <2>2. CASE AnswerStop
    BY <2>2 DEF AnswerStop, WriteAnswer, CHILD_STOPPED, CopySignals
  <2>3. CASE ~ (AnswerStart \/ AnswerStop)
    BY <1>2, <2>3 DEF Child, InstallHandlers, EnterLoop, LoadSignal,
                      ClearSignal, NoSignal, Terminate, EnterSystemCall
  <2> QED BY <2>1, <2>2, <2>3
<1>3. CASE Copying
  BY <1>3 DEF Copying, ReadPort, WriteTerminal, ReadNothing, CopyFails
<1> QED BY <1>1, <1>2, <1>3 DEF ChildStep

(* Between two calls: the pipe and the child hold nothing of the other kind. *)
LEMMA IdleStep ==
  ASSUME TypeOK, StoppedInLoop, NEW s \in CopySignals, Idle(s), ChildStep
  PROVE  Idle(s)'
<1>1. Settled(s)'
  BY SettledStep DEF Idle
<1>2. CASE pipe' = pipe
  BY <1>1, <1>2 DEF Idle, AllInPipe
<1>3. CASE /\ cpc = "act" /\ isig \in CopySignals
           /\ pipe' = Append(pipe, Answer[isig])
  <2>1. isig = s
    BY <1>3, Opposites DEF Idle, Settled, Has, Delivered, CopySignals
  <2>2. \A i \in DOMAIN pipe' : pipe'[i] = Answer[s]
    BY <1>3, <2>1 DEF Idle, AllInPipe, TypeOK
  <2> QED BY <1>1, <2>2 DEF Idle, AllInPipe
<1> QED BY <1>2, <1>3, PipeStep

(* The part of Round that speaks of the signals only. *)
NotOvertaken(s) ==
  /\ cpc # "dead" /\ Delivered(s) => Opposite[s] \notin pend
  /\ cpc \in {"clear", "act"} /\ isig = s => iSchild_sig # Opposite[s]

LEMMA NotOvertakenStep ==
  ASSUME TypeOK, NEW s \in CopySignals, NotOvertaken(s), ChildStep
  PROVE  NotOvertaken(s)'
<1> USE Opposites DEF NotOvertaken, Delivered, CopySignals
<1>1. CASE Deliver
  BY <1>1 DEF Deliver, TypeOK
<1>2. CASE Child
  <2>1. CASE InstallHandlers
    BY <2>1 DEF InstallHandlers, sigVars
  <2>2. CASE EnterLoop
    BY <2>2 DEF EnterLoop
  <2>3. CASE LoadSignal
    BY <2>3 DEF LoadSignal
  <2>4. CASE ClearSignal
    BY <2>4 DEF ClearSignal
  <2>5. CASE NoSignal
    BY <2>5 DEF NoSignal, sigVars
  <2>6. CASE Terminate
    BY <2>6 DEF Terminate, sigVars
  <2>7. CASE EnterSystemCall
    BY <2>7 DEF EnterSystemCall, sigVars
  <2>8. CASE AnswerStart
    BY <2>8 DEF AnswerStart, WriteAnswer
  <2>9. CASE AnswerStop
    BY <2>9 DEF AnswerStop, WriteAnswer
  <2> QED BY <1>2, <2>1, <2>2, <2>3, <2>4, <2>5, <2>6, <2>7, <2>8, <2>9
          DEF Child
<1>3. CASE Copying
  <2>1. /\ UNCHANGED <<pend, iSchild_sig, isig, fstopped>>
        /\ cpc = "sys" /\ cpc' \in {"load", "call", "dead"}
    BY <1>3 DEF Copying, ReadPort, WriteTerminal, ReadNothing, CopyFails,
                ExitWithHangup, Reading, Writing, sigVars
  <2> QED BY <2>1
<1> QED BY <1>1, <1>2, <1>3 DEF ChildStep

(* The first answer to a call: the child is now where the call wants it. *)
LEMMA AnswerSettles ==
  ASSUME NEW s \in CopySignals, NotOvertaken(s), ChildStep, cpc = "act", isig = s,
         pipe' = Append(pipe, Answer[s]), pipe' # pipe
  PROVE  Settled(s)'
<1> USE Opposites DEF NotOvertaken, Settled, Has, Delivered, CopySignals
<1>1. AnswerStart \/ AnswerStop
  BY DEF ChildStep, Deliver, Child, Copying, InstallHandlers, EnterLoop,
         LoadSignal, ClearSignal, NoSignal, Terminate, EnterSystemCall,
         ReadPort, WriteTerminal, ReadNothing, CopyFails, Reading, Writing
<1>2. CASE AnswerStart
  BY <1>2 DEF AnswerStart, WriteAnswer
<1>3. CASE AnswerStop
  BY <1>3 DEF AnswerStop, WriteAnswer
<1> QED BY <1>1, <1>2, <1>3

(* While a call waits, the steps of the child keep what it may conclude.   *)
LEMMA RoundStep ==
  ASSUME TypeOK, StoppedInLoop, NEW s \in CopySignals, Round(s), ChildStep
  PROVE  Round(s)'
<1>1. iSsend_sig' = s /\ NotOvertaken(s) /\ NotOvertaken(s)'
  BY PipeStep, NotOvertakenStep DEF Round, NotOvertaken
<1>2. InPipe(Answer[s])' => (Settled(s) /\ OnlyFollowedBy(Answer[s]))'
  <2>1. CASE pipe' = pipe
    <3>1. InPipe(Answer[s]) => Settled(s)'
      BY SettledStep DEF Round
    <3> QED BY <2>1, <3>1 DEF Round, InPipe, OnlyFollowedBy
  <2>2. CASE /\ cpc = "act" /\ isig \in CopySignals /\ pipe' # pipe
             /\ pipe' = Append(pipe, Answer[isig])
    <3>1. CASE InPipe(Answer[s])
      <4>1. Settled(s) /\ OnlyFollowedBy(Answer[s]) /\ Settled(s)'
        BY <3>1, SettledStep DEF Round
      <4>2. isig = s
        BY <2>2, <4>1, Opposites DEF Settled, Has, Delivered, CopySignals
      <4>3. OnlyFollowedBy(Answer[s])'
        BY <2>2, <4>1, <4>2 DEF OnlyFollowedBy, TypeOK
      <4> QED BY <4>1, <4>3
    <3>2. CASE ~ InPipe(Answer[s]) /\ isig = s
      <4>1. Settled(s)'
        BY <1>1, <2>2, <3>2, AnswerSettles
      <4>2. OnlyFollowedBy(Answer[s])'
        BY <2>2, <3>2 DEF OnlyFollowedBy, InPipe, TypeOK
      <4> QED BY <4>1, <4>2
    <3>3. CASE ~ InPipe(Answer[s]) /\ isig # s
      <4>1. Answer[isig] # Answer[s]
        BY <2>2, <3>3, Opposites DEF CopySignals
      <4>2. ~ InPipe(Answer[s])'
        BY <2>2, <3>3, <4>1 DEF InPipe, TypeOK
      <4> QED BY <4>2
    <3> QED BY <3>1, <3>2, <3>3
  <2> QED BY <2>1, <2>2, PipeStep
<1> QED BY <1>1, <1>2 DEF Round, NotOvertaken

-----------------------------------------------------------------------------
(* The parent's steps.  A resent signal is the one of the call. *)
LEMMA ResendRound ==
  ASSUME NEW s \in CopySignals, Round(s), Kill(s), StoppedInLoop,
         UNCHANGED <<parentVars, pipe, childSide>>
  PROVE  Round(s)' /\ StoppedInLoop'
<1> USE Opposites DEF parentVars, childSide, CopySignals
<1>1. Settled(s) => Settled(s)'
  BY DEF Settled, Has, Delivered, Kill
<1>2. /\ InPipe(Answer[s])' = InPipe(Answer[s])
      /\ OnlyFollowedBy(Answer[s])' = OnlyFollowedBy(Answer[s])
  BY DEF InPipe, OnlyFollowedBy
<1> QED BY <1>1, <1>2 DEF Round, Delivered, Kill, StoppedInLoop

(* A call made while everything of the last one has settled.               *)
LEMMA BeginRound ==
  ASSUME NEW s \in CopySignals, NEW t \in CopySignals, NEW st,
         Idle(t), BeginCopy(s, st), StoppedInLoop
  PROVE  Round(s)' /\ StoppedInLoop'
<1> USE Opposites DEF BeginCopy, childSide, sigVars, CopySignals
<1>1. CASE s = t
  <2>1. Settled(s)'
    BY <1>1 DEF Idle, Settled, Has, Delivered, Kill
  <2>2. OnlyFollowedBy(Answer[s])'
    BY <1>1 DEF Idle, AllInPipe, OnlyFollowedBy
  <2>3. NotOvertaken(s)'
    BY <1>1 DEF NotOvertaken, Idle, Settled, Has, Delivered, Kill
  <2> QED BY <2>1, <2>2, <2>3 DEF Round, NotOvertaken, StoppedInLoop
<1>2. CASE s # t
  <2>1. ~ InPipe(Answer[s])'
    BY <1>2 DEF Idle, AllInPipe, InPipe
  <2>2. cpc # "dead" => ~ Delivered(s)
    BY <1>2 DEF Idle, Settled, Has
  <2>3. cpc' \in {"clear", "act"} => isig' # s
    BY <2>2 DEF Delivered
  <2>4. cpc' # "dead" => ~ Delivered(s)'
    BY <2>2 DEF Delivered
  <2> QED BY <2>1, <2>3, <2>4 DEF Round, StoppedInLoop
<1> QED BY <1>1, <1>2

(* The answer of the call's own kind: everything has settled. *)
LEMMA RoundEnds ==
  ASSUME pipe \in Seq({CHILD_STARTED, CHILD_STOPPED}), pipe # <<>>,
         NEW s \in CopySignals, Round(s), pipe' = Tail(pipe),
         StoppedInLoop, UNCHANGED <<iSsend_sig, pend, childSide>>
  PROVE  /\ Head(pipe) = Answer[s] => Idle(s)'
         /\ Head(pipe) # Answer[s] => Round(s)'
         /\ StoppedInLoop'
<1> USE DEF childSide
<1>0. /\ Len(pipe) \in Nat /\ Len(pipe) >= 1
      /\ DOMAIN pipe = 1..Len(pipe) /\ Head(pipe) = pipe[1]
      /\ DOMAIN pipe' = 1..Len(pipe) - 1
      /\ \A i \in DOMAIN pipe' : i + 1 \in DOMAIN pipe /\ pipe'[i] = pipe[i + 1]
  OBVIOUS
<1>1. Settled(s) => Settled(s)'
  BY DEF Settled, Has, Delivered
<1>2. ASSUME Head(pipe) = Answer[s] PROVE Idle(s)'
  <2>1. InPipe(Answer[s])
    BY <1>0, <1>2 DEF InPipe
  <2>2. AllInPipe(Answer[s])'
    BY <1>0, <1>2, <2>1 DEF Round, OnlyFollowedBy, AllInPipe
  <2> QED BY <1>1, <2>1, <2>2 DEF Round, Idle
<1>3. Round(s)'
  <2>1. InPipe(Answer[s])' => InPipe(Answer[s])
    BY <1>0 DEF InPipe
  <2>2. OnlyFollowedBy(Answer[s]) => OnlyFollowedBy(Answer[s])'
    BY <1>0 DEF OnlyFollowedBy
  <2> QED BY <1>1, <2>1, <2>2 DEF Round, Delivered
<1> QED BY <1>2, <1>3 DEF StoppedInLoop

(* Handshake is kept when nothing it speaks of changes. *)
LEMMA HandshakeUnchanged ==
  ASSUME Handshake,
         UNCHANGED <<mpc, iSsend_sig, pend, pipe, cpc, iSchild_sig, isig, fstopped>>
  PROVE  Handshake'
BY DEF Handshake, Idle, Round, Settled, Has, Delivered, InPipe, AllInPipe,
       OnlyFollowedBy

LEMMA HandshakeChild ==
  ASSUME TypeOK, Handshake, ChildStep
  PROVE  Handshake'
<1> USE DEF Handshake
<1>1. StoppedInLoop
  BY DEF StoppedInLoop
<1>2. {"SIGUSR1", "SIGUSR2"} = CopySignals
  BY DEF CopySignals
<1>3. mpc' = mpc
  BY PipeStep
<1>4. StoppedInLoop'
  <2>2. CASE Deliver
    BY <1>1, <2>2 DEF Deliver, StoppedInLoop
  <2>3. CASE Child
    BY <1>1, <2>3 DEF Child, InstallHandlers, EnterLoop, LoadSignal, ClearSignal,
       NoSignal, Terminate, AnswerStart, AnswerStop, WriteAnswer,
       EnterSystemCall, StoppedInLoop
  <2>4. CASE Copying
    BY <1>1, <2>4 DEF Copying, ReadPort, WriteTerminal, ReadNothing, CopyFails,
       ExitWithHangup, StoppedInLoop
  <2> QED BY <2>2, <2>3, <2>4 DEF ChildStep
<1>5. cpc = "dead" => cpc' = "dead"
  BY DEF ChildStep, Deliver, Child, Copying, InstallHandlers, EnterLoop,
         LoadSignal, ClearSignal, NoSignal, Terminate, AnswerStart, AnswerStop,
         EnterSystemCall, ReadPort, WriteTerminal, ReadNothing, CopyFails,
         Reading, Writing
<1>6. \A s \in CopySignals : Idle(s) => Idle(s)'
  BY <1>1, IdleStep
<1>7. \A s \in CopySignals : Round(s) => Round(s)'
  BY <1>1, RoundStep
<1> QED BY <1>2, <1>3, <1>4, <1>5, <1>6, <1>7 DEF StoppedInLoop

LEMMA HandshakeParent ==
  ASSUME TypeOK, Handshake, Parent
  PROVE  Handshake'
<1>a. StoppedInLoop
  BY DEF StoppedInLoop, Handshake
<1>b. "SIGUSR1" \in CopySignals /\ "SIGUSR2" \in CopySignals
  BY DEF CopySignals
<1>c. ASSUME NEW st, MoveTo(st) PROVE Idle("SIGUSR1")' = Idle("SIGUSR1")
                                     /\ Idle("SIGUSR2")' = Idle("SIGUSR2")
                                     /\ mpc' = st /\ StoppedInLoop'
  BY <1>a, <1>c DEF MoveTo, childSide, sigVars, Idle, Settled, Has, Delivered,
                    AllInPipe, StoppedInLoop
<1>d. ASSUME StartFinish PROVE Handshake'
  BY <1>a, <1>d DEF StartFinish, childSide, StoppedInLoop, Handshake
<1>1. CASE AwaitKey
  BY <1>1, <1>c DEF AwaitKey, Handshake, StoppedInLoop
<1>2. CASE TypeKey
  <2>1. mpc = "tty" /\ (MoveTo("loop") \/ MoveTo("escape"))
    BY <1>2 DEF TypeKey
  <2> QED BY <2>1, <1>c DEF Handshake, StoppedInLoop
<1>3. CASE LoseTerminal
  BY <1>3, <1>d DEF LoseTerminal, Finish
<1>4. CASE TypeCommand
  <2>1. CASE MoveTo("loop")
    BY <1>4, <2>1, <1>c DEF TypeCommand, Handshake, StoppedInLoop
  <2>2. CASE BeginCopy("SIGUSR2", "stopwait")
    <3>1. mpc = "escape" /\ mpc' = "stopwait"
      BY <1>4, <2>2 DEF TypeCommand, BeginCopy
    <3>2. Round("SIGUSR2")' /\ StoppedInLoop'
      BY <1>a, <1>b, <2>2, <3>1, BeginRound DEF Handshake
    <3> QED BY <3>1, <3>2 DEF Handshake, StoppedInLoop
  <2>3. CASE Finish
    BY <2>3, <1>d DEF Finish
  <2> QED BY <1>4, <2>1, <2>2, <2>3 DEF TypeCommand
<1>5. CASE CommandEnds
  <2>1. mpc = "command" /\ mpc' = "startwait" /\ BeginCopy("SIGUSR1", "startwait")
    BY <1>5 DEF CommandEnds, BeginCopy
  <2>2. Round("SIGUSR1")' /\ StoppedInLoop'
    BY <1>a, <1>b, <2>1, BeginRound DEF Handshake
  <2> QED BY <2>1, <2>2 DEF Handshake, StoppedInLoop
<1>6. CASE CommandAborts
  BY <1>6, <1>d DEF CommandAborts, Finish
<1>7. CASE CommandTimesOut
  BY <1>7, <1>c DEF CommandTimesOut, Handshake, StoppedInLoop
<1>8. CASE Resend
  <2>1. CASE mpc = "finwait"
    BY <1>a, <1>8, <2>1 DEF Resend, parentVars, childSide, Handshake, StoppedInLoop
  <2>2. CASE mpc = "stopwait"
    <3>1. Round("SIGUSR2") /\ Kill("SIGUSR2") /\ mpc' = "stopwait"
      BY <1>8, <2>2 DEF Resend, Handshake, Round, parentVars
    <3>2. Round("SIGUSR2")' /\ StoppedInLoop'
      BY <1>a, <1>b, <1>8, <3>1, ResendRound DEF Resend
    <3> QED BY <3>1, <3>2 DEF Handshake, StoppedInLoop
  <2>3. CASE mpc = "startwait"
    <3>1. Round("SIGUSR1") /\ Kill("SIGUSR1") /\ mpc' = "startwait"
      BY <1>8, <2>3 DEF Resend, Handshake, Round, parentVars
    <3>2. Round("SIGUSR1")' /\ StoppedInLoop'
      BY <1>a, <1>b, <1>8, <3>1, ResendRound DEF Resend
    <3> QED BY <3>1, <3>2 DEF Handshake, StoppedInLoop
  <2> QED BY <1>8, <2>1, <2>2, <2>3 DEF Resend
<1>9. CASE ReadAnswer
  <2>1. ASSUME NEW s \in CopySignals, Round(s)
        PROVE  /\ Head(pipe) = Answer[iSsend_sig] => Idle(s)'
               /\ Head(pipe) # Answer[iSsend_sig] => Round(s)'
               /\ StoppedInLoop'
    <3>1. iSsend_sig = s
      BY <2>1 DEF Round
    <3> QED BY <1>a, <1>9, <2>1, <3>1, RoundEnds DEF ReadAnswer, TypeOK
  <2>2. CASE mpc = "stopwait"
    <3>1. Round("SIGUSR2")
      BY <2>2 DEF Handshake
    <3>2. mpc' = IF Head(pipe) # Answer[iSsend_sig] THEN "stopwait" ELSE "command"
      BY <1>9, <2>2 DEF ReadAnswer
    <3> QED BY <1>b, <2>1, <3>1, <3>2 DEF Handshake, StoppedInLoop
  <2>3. CASE mpc = "startwait"
    <3>1. Round("SIGUSR1")
      BY <2>3 DEF Handshake
    <3>2. mpc' = IF Head(pipe) # Answer[iSsend_sig] THEN "startwait" ELSE "loop"
      BY <1>9, <2>3 DEF ReadAnswer
    <3> QED BY <1>b, <2>1, <3>1, <3>2 DEF Handshake, StoppedInLoop
  <2> QED BY <1>9, <2>2, <2>3 DEF ReadAnswer
<1>10. CASE ReadEnd
  BY <1>10, <1>d DEF ReadEnd, Finish
<1>11. CASE Hangup
  <2>1. CASE mpc = "tty"
    BY <1>11, <2>1, <1>d DEF Hangup
  <2>2. CASE mpc # "tty"
    BY <1>11, <2>2, HandshakeUnchanged DEF Hangup, parentVars, childSide, sigVars
  <2> QED BY <2>1, <2>2
<1>12. CASE Reap
  BY <1>a, <1>12 DEF Reap, childSide, Handshake, StoppedInLoop
<1> QED BY <1>1, <1>2, <1>3, <1>4, <1>5, <1>6, <1>7, <1>8, <1>9, <1>10, <1>11, <1>12
        DEF Parent

LEMMA Initially == Init => IInv
<1> SUFFICES ASSUME Init PROVE IInv
  OBVIOUS
<1> USE ConstantsAssumption DEF Init
<1>1. TypeOK
  <2>1. fgot \in BOOLEAN /\ fstopped \in BOOLEAN
    BY Zenon
  <2> QED BY <2>1 DEF TypeOK, ParentStates, ChildStates, Looping, Signals, ChildSignals
<1>2. Buffer /\ AlarmSet
  BY DEF Buffer, AlarmSet
<1>3. Handshake
  BY Opposites DEF Handshake, Idle, Settled, Has, Delivered, AllInPipe
<1> QED BY <1>1, <1>2, <1>3 DEF IInv

LEMMA Inductive == IInv /\ [Next]_vars => IInv'
<1> SUFFICES ASSUME IInv, [Next]_vars PROVE IInv'
  OBVIOUS
<1>1. TypeOK' /\ AlarmSet' /\ Buffer'
  BY TypeAndBuffer DEF IInv
<1>2. ASSUME ChildStep PROVE Handshake'
  BY <1>2, HandshakeChild DEF IInv
<1>3. ASSUME Parent PROVE Handshake'
  BY <1>3, HandshakeParent DEF IInv
<1>4. ASSUME UNCHANGED vars PROVE Handshake'
  BY <1>4, HandshakeUnchanged DEF IInv, vars
<1>5. Handshake'
  BY <1>2, <1>3, <1>4 DEF Next, ChildStep
<1> QED BY <1>1, <1>5 DEF IInv

(* The inductive invariant holds, whether or not ~%take may time out. *)
THEOREM Invariance == Spec => []IInv
BY Initially, Inductive, PTL DEF Spec

-----------------------------------------------------------------------------
(* Every variable keeps its type; in particular cwrite and off never leave *)
(* the buffer uscu_child has for them.                                     *)
THEOREM TypeCorrect == Spec => []TypeOK
<1>1. IInv => TypeOK
  BY DEF IInv
<1> QED BY <1>1, Invariance, PTL

(* uscu_child writes only bytes its last read put into abbuf, for every    *)
(* size of the buffer and however the writes are cut short.                *)
THEOREM WritesOnlyWhatWasRead == Spec => []WritesWhatWasRead
<1>1. IInv => WritesWhatWasRead
  BY DEF IInv, Buffer, WritesWhatWasRead, Writing
<1> QED BY <1>1, Invariance, PTL

(* A command that has stopped the child has the port for itself until it   *)
(* starts the child again: this holds even if an earlier ~%take left the   *)
(* child stopped.                                                          *)
THEOREM CommandHasPort == Spec => []CommandOwnsPort
<1>1. IInv => CommandOwnsPort
  BY Opposites DEF IInv, Handshake, Idle, Settled, CommandOwnsPort
<1> QED BY <1>1, Invariance, PTL

(* Once fsysdep_cu_copy (TRUE) has returned, the child copies and no stop  *)
(* signal can reach it late; the early return of ~%take is excluded.       *)
THEOREM ConnectedCopies ==
  ASSUME TakeMayTimeOut = FALSE
  PROVE  Spec => []ConnectedMeansCopying
<1>1. IInv => ConnectedMeansCopying
  BY Opposites DEF IInv, Handshake, Idle, Settled, ConnectedMeansCopying
<1> QED BY <1>1, Invariance, PTL

-----------------------------------------------------------------------------
(* The refinement: mode of CopyControl as CuCopy's ImplementsCopyControl   *)
(* computes it.                                                            *)
modeBar == CASE mpc \in {"loop", "tty", "escape"} -> "copying"
             [] mpc = "stopwait"  -> "stopping"
             [] mpc = "command"   -> "stopped"
             [] mpc = "startwait" -> "starting"
             [] mpc = "finwait"   -> "finishing"
             [] mpc = "over"      -> "over"

(* A step that moves neither a byte nor the parent between two modes. *)
LEMMA StutterOrMode ==
  ASSUME UNCHANGED <<taken, shown>>, mpc \in ParentStates, mpc' \in ParentStates,
         \/ mpc' = mpc
         \/ mpc \in {"loop", "tty", "escape"} /\ mpc' \in {"loop", "tty", "escape"}
         \/ modeBar' \in Control!Successors[modeBar]
  PROVE  [Control!Next]_(Control!vars)
BY DEF Control!Next, Control!vars, Control!ChangeMode, modeBar, ParentStates

(* Every step of the two processes is a step of CopyControl or changes     *)
(* nothing there.                                                          *)
LEMMA StepImplements ==
  ASSUME TakeMayTimeOut = FALSE, IInv, IInv', [Next]_vars
  PROVE  [Control!Next]_(Control!vars)
<1> USE DEF IInv
<1>0. /\ mpc \in ParentStates /\ mpc' \in ParentStates
      /\ Control!Successors["copying"] = {"stopping", "finishing"}
      /\ Control!Successors["stopping"] = {"stopped", "finishing"}
      /\ Control!Successors["stopped"] = {"starting", "finishing"}
      /\ Control!Successors["starting"] = {"copying", "finishing"}
      /\ Control!Successors["finishing"] = {"over"}
  BY DEF TypeOK, Control!Successors, Control!Modes
<1>1. CASE Deliver \/ Child \/ UNCHANGED vars
  <2>1. UNCHANGED <<mpc, taken, shown>>
    BY <1>1 DEF Deliver, Child, InstallHandlers, EnterLoop, LoadSignal,
       ClearSignal, NoSignal, Terminate, AnswerStart, AnswerStop, WriteAnswer,
       EnterSystemCall, vars, parentVars, dataVars
  <2> QED BY <1>0, <2>1, StutterOrMode
<1>2. CASE Copying
  <2>1. mpc' = mpc
    BY <1>2, PipeStep DEF ChildStep
  <2>2. CASE UNCHANGED <<taken, shown>>
    BY <1>0, <2>1, <2>2, StutterOrMode
  <2>3. ASSUME NEW n \in 1..BufSize, ReadPort(n) \/ WriteTerminal(n)
        PROVE  Control!Copy
    <3>1. cpc # "dead" /\ ~ fstopped
      BY <2>3 DEF ReadPort, WriteTerminal, Reading, Writing
    <3>2. mpc \notin {"command", "over"}
      BY <3>1, Opposites DEF Handshake, Idle, Settled
    <3>3. modeBar \notin {"stopped", "over"} /\ modeBar' = modeBar
      BY <1>0, <2>1, <3>2 DEF modeBar, ParentStates
    <3>4. CASE ReadPort(n)
      <4>1. taken' > taken /\ UNCHANGED shown
        BY <2>3, <3>4, ConstantsAssumption DEF ReadPort, TypeOK
      <4> QED BY <3>3, <4>1 DEF Control!Copy, modeBar
    <3>5. CASE WriteTerminal(n)
      <4>1. off + n <= Len(abbuf) /\ off \in Nat /\ n \in Nat \ {0}
        BY <2>3, <3>5, LenProperties, ConstantsAssumption
           DEF WriteTerminal, Writing, Buffer, TypeOK
      <4>2. /\ SubSeq(abbuf, off + 1, off + n) \in Seq(Nat)
            /\ Len(SubSeq(abbuf, off + 1, off + n)) = n
        <5>1. abbuf \in Seq(Nat)
          BY DEF TypeOK
        <5> HIDE DEF IInv
        <5> QED BY <4>1, <5>1, SubSeqOfBuffer
      <4>3. Len(shown') > Len(shown) /\ UNCHANGED taken
        BY <3>5, <4>1, <4>2 DEF WriteTerminal, TypeOK
      <4> QED BY <3>3, <4>3 DEF Control!Copy, modeBar
    <3> QED BY <2>3, <3>4, <3>5
  <2> QED BY <1>2, <2>2, <2>3
          DEF Copying, ReadNothing, CopyFails, dataVars, Control!Next
<1>3. CASE Parent
  <2> USE <1>0, StutterOrMode
      DEF modeBar, MoveTo, BeginCopy, Finish, StartFinish, childSide, dataVars
  <2>1. CASE AwaitKey
    BY <2>1 DEF AwaitKey
  <2>2. CASE TypeKey
    BY <2>2 DEF TypeKey
  <2>3. CASE LoseTerminal
    BY <2>3 DEF LoseTerminal
  <2>4. CASE TypeCommand
    BY <2>4 DEF TypeCommand
  <2>5. CASE CommandEnds
    BY <2>5 DEF CommandEnds
  <2>6. CASE CommandAborts
    BY <2>6 DEF CommandAborts
  <2>7. CASE CommandTimesOut
    BY <2>7 DEF CommandTimesOut
  <2>8. CASE Resend
    BY <2>8 DEF Resend, parentVars
  <2>9. CASE ReadAnswer
    BY <2>9 DEF ReadAnswer
  <2>10. CASE ReadEnd
    BY <2>10 DEF ReadEnd
  <2>11. CASE Hangup
    BY <2>11 DEF Hangup, parentVars
  <2>12. CASE Reap
    BY <2>12 DEF Reap
  <2> QED BY <1>3, <2>1, <2>2, <2>3, <2>4, <2>5, <2>6, <2>7, <2>8, <2>9, <2>10,
             <2>11, <2>12 DEF Parent
<1> QED BY <1>1, <1>2, <1>3 DEF Next

(* The handshake implements the control of copying that system.h promises, *)
(* for buffers, ports and numbers of unread answers of any size.           *)
THEOREM Refinement ==
  ASSUME TakeMayTimeOut = FALSE
  PROVE  Spec => ImplementsCopyControl
<1>1. Init => Control!Init
  BY DEF Init, Control!Init
<1>2. IInv /\ IInv' /\ [Next]_vars => [Control!Next]_(Control!vars)
  BY StepImplements
<1> QED BY <1>1, <1>2, Invariance, PTL DEF Spec, ImplementsCopyControl, Control!Spec
=============================================================================
