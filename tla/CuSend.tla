------------------------------- MODULE CuSend -------------------------------
(***************************************************************************)
(* Sending a file with ~%put or ~>: icuput and fcusend_buf of src/cu.c,    *)
(* with what they use of src/prot.c.  A line goes out in chunks; after     *)
(* each, the echo of its characters may be looked for, and if one does not *)
(* come in time the line is killed and sent again.                         *)
(*                                                                         *)
(* The remote side is a terminal that collects a line, hands it over at a  *)
(* carriage return, drops it at a kill character and echoes what it gets;  *)
(* characters may be lost on the way there and echoes on the way back.     *)
(* For ~%put the first line of the file is the command "cat > TO".         *)
(***************************************************************************)
EXTENDS Naturals, Sequences, SequencesExt

CONSTANTS
  Printable,      \* characters for which isprint holds
  Files,          \* files that are sent: sequences of lines
  Settings,       \* values of the ~s variables
  cCuvar_resend,  \* how often a line is tried
  ChunkSize,      \* characters sent before echoes are looked for
  NewlineEcho,    \* what the remote terminal echoes for a line end
  KillEcho,       \* what it echoes for the kill character
  MaxLost,        \* bound on the characters lost on the way there
  MaxUnheard,     \* bound on the echoes lost on the way back
  TimelyEcho,     \* echoes come before the timeout or never
  Signals         \* the user may interrupt the transfer

(* "tab" is sent as it is but not printable; "ctl" stands for the other    *)
(* characters that are not printable.                                      *)
Characters == Printable \cup {"tab", "ctl", "nl"}
OnTheWire  == Characters \cup {"cr", "kill", "prefix", "eof"}

AllSettings == [fCuvar_binary : BOOLEAN, fCuvar_echocheck : BOOLEAN,
                zCuvar_echonl : OnTheWire \cup {"none"},
                zCuvar_kill : BOOLEAN, zCuvar_eofwrite : BOOLEAN]

ASSUME ConstantsAssumption ==
  /\ Printable \cap {"tab", "ctl", "nl", "cr", "kill", "prefix", "eof"} = {}
  /\ Files \subseteq Seq(Seq(Characters))
  /\ Settings \subseteq AllSettings
  /\ cCuvar_resend \in Nat
  /\ ChunkSize \in Nat \ {0}
  /\ {NewlineEcho, KillEcho} \subseteq Seq(OnTheWire)
  /\ {MaxLost, MaxUnheard} \subseteq Nat
  /\ {TimelyEcho, Signals} \subseteq BOOLEAN

VARIABLES
  cuvar,     \* the values of the ~s variables
  file,      \* the file, as the lines it consists of
  at,        \* where the program is
  next,      \* the buffer to be read next
  zbuf,      \* what is left of the buffer, of which cbuf is the length
  zsendbuf,  \* what is left to look for of the chunk that was sent
  ctries,    \* failed tries of this line
  abPrecbuf, \* echoes read and not yet looked at
  signal,    \* a signal was caught and not yet seen by FGOT_SIGNAL
  wire,      \* characters on their way to the remote side
  echo,      \* characters on their way back
  remote,    \* the remote terminal and the file written there
  lost,      \* characters lost, echoes lost, lines killed, line silent for good
  outcome    \* how the transfer ended

given == <<cuvar, file>>
line  == <<wire, echo, remote, lost>>
vars  == <<cuvar, file, at, next, zbuf, zsendbuf, ctries, abPrecbuf, signal,
           wire, echo, remote, lost, outcome>>

-----------------------------------------------------------------------------
(* For a sequence: what each of its elements stands for, all of that in    *)
(* one, and those of its elements for which P holds (SelectSeq, but in     *)
(* terms of FlattenSeq, so that what is proved of that holds for it too).  *)
Each(f(_), s)  == [i \in DOMAIN s |-> f(s[i])]
Flat(f(_), s)  == FlattenSeq(Each(f, s))
Where(s, P(_)) == FlattenSeq([i \in DOMAIN s |-> IF P(s[i]) THEN <<s[i]>> ELSE <<>>])

-----------------------------------------------------------------------------
(* "buffer" about to read the file; "chunk" at the top of the loop of      *)
(* fcusend_buf; "look" before FGOT_SIGNAL and "receive" in breceive_char,  *)
(* looking for Head(zsendbuf); "over" when icuput has returned.            *)
Places == {"buffer", "chunk", "look", "receive", "over"}

(* The buffers fcusend_buf is called with: lines, or blocks of the file.  *)
Buffers == IF cuvar.fCuvar_binary THEN <<FlattenSeq(file)>> ELSE file

TypeOK ==
  /\ cuvar \in Settings
  /\ file \in Files
  /\ at \in Places
  /\ next \in 1..Len(Buffers) + 1
  /\ zbuf \in Seq(Characters)
  /\ zsendbuf \in Seq(OnTheWire)
  /\ ctries \in Nat
  /\ ctries = 0 \/ ctries < cCuvar_resend
  /\ abPrecbuf \in Seq(OnTheWire)
  /\ signal \in BOOLEAN
  /\ wire \in Seq(OnTheWire)
  /\ echo \in Seq(OnTheWire)
  /\ remote \in [pending : Seq(OnTheWire), literal : BOOLEAN, open : BOOLEAN,
                 lines : Seq(Seq(OnTheWire))]
  /\ lost \in [sent : 0..MaxLost, echoes : 0..MaxUnheard, kills : Nat,
             dead : BOOLEAN]
  /\ outcome \in {"none", "complete", "aborted", "timed out", "disconnected"}

Init ==
  /\ cuvar \in Settings
  /\ file \in Files
  /\ at = "buffer"
  /\ next = 1
  /\ zbuf = <<>>
  /\ zsendbuf = <<>>
  /\ ctries = 0
  /\ abPrecbuf = <<>>
  /\ signal = FALSE
  /\ wire = <<>>
  /\ echo = <<>>
  /\ remote = [pending |-> <<>>, literal |-> FALSE, open |-> TRUE,
               lines |-> <<>>]
  /\ lost = [sent |-> 0, echoes |-> 0, kills |-> 0, dead |-> FALSE]
  /\ outcome = "none"

-----------------------------------------------------------------------------
(* What the program does *)

Ended(how) ==
  /\ at' = "over"
  /\ outcome' = how
  /\ UNCHANGED <<given, next, zbuf, zsendbuf, ctries, abPrecbuf>>

(* A line, or a block of a binary file, is read and fcusend_buf called. *)
ReadFile ==
  /\ at = "buffer"
  /\ next <= Len(Buffers)
  /\ next' = next + 1
  /\ zbuf' = Buffers[next]
  /\ ctries' = 0
  /\ at' = IF zbuf' = <<>> THEN "buffer" ELSE "chunk"
  /\ UNCHANGED <<given, zsendbuf, abPrecbuf, signal, line, outcome>>

(* The end of the file, or a read error, which the transfer takes for it. *)
Complete ==
  /\ at = "buffer"
  /\ next > Len(Buffers) \/ cuvar.fCuvar_binary
  /\ wire' = IF cuvar.zCuvar_eofwrite THEN Append(wire, "eof") ELSE wire
  /\ Ended("complete")
  /\ UNCHANGED <<signal, echo, remote, lost>>

(* What is sent of the buffer at once: a newline alone, or what is before  *)
(* the next newline, but never more than ChunkSize.                        *)
ChunkLength(b) ==
  IF b[1] = "nl" THEN 1
  ELSE Max({k \in 1..Min({Len(b), ChunkSize}) :
              \A i \in 1..k : b[i] # "nl"})

(* Variant: binary mode sends every character as it is. *)
TranslateBare(c) ==
  CASE c \in Printable \cup {"tab"} -> <<c>>
    [] c = "nl"  -> IF cuvar.fCuvar_binary THEN <<"nl">> ELSE <<"cr">>
    [] c = "ctl" -> IF cuvar.fCuvar_binary THEN <<"ctl", "ctl">> ELSE <<>>

(* How a character of the buffer goes over the line. *)
Translate(c) ==
  CASE c \in Printable \cup {"tab"} -> <<c>>
    [] c = "nl"  -> IF cuvar.fCuvar_binary THEN <<"nl">> ELSE <<"cr">>
    [] c = "ctl" -> IF cuvar.fCuvar_binary THEN <<"prefix", "ctl">> ELSE <<>>

Newline == IF cuvar.fCuvar_binary THEN "nl" ELSE "cr"

(* Variant: the echo of a newline is never looked for. *)
LooksForText(c) == c # Newline /\ cuvar.fCuvar_echocheck /\ c \in Printable

(* The characters of a chunk whose echo is looked for. *)
LooksFor(c) ==
  IF c = Newline THEN cuvar.zCuvar_echonl # "none"
  ELSE cuvar.fCuvar_echocheck /\ c \in Printable

Checks(chunk) ==
  \/ cuvar.fCuvar_echocheck /\ ~cuvar.fCuvar_binary
  \/ Contains(chunk, Newline) /\ cuvar.zCuvar_echonl # "none"

(* Where the program goes on when the echo of a chunk was found. *)
AfterChunk(b) == IF b = <<>> THEN "buffer" ELSE "chunk"

(* fsend_data reads what the port has before it writes. *)
SendData(sent) ==
  /\ wire' = wire \o sent
  /\ \E n \in 0..Len(echo) : /\ abPrecbuf' = SubSeq(echo, 1, n)
                            /\ echo' = SubSeq(echo, n + 1, Len(echo))

(* What was read is discarded, which leaves what the port has not yet      *)
(* delivered, and the chunk is sent unless nothing of it is to be sent.    *)
SendChunk ==
  /\ at = "chunk"
  /\ ~signal
  /\ LET k     == ChunkLength(zbuf)
         chunk == Flat(Translate, SubSeq(zbuf, 1, k))
         look  == IF Checks(chunk) THEN Where(chunk, LooksFor) ELSE <<>>
     IN /\ zbuf' = SubSeq(zbuf, k + 1, Len(zbuf))
        /\ zsendbuf' = look
        /\ at' = IF look = <<>> THEN AfterChunk(zbuf') ELSE "look"
        /\ IF chunk = <<>> THEN abPrecbuf' = <<>> /\ UNCHANGED <<wire, echo>>
           ELSE SendData(chunk)
  /\ UNCHANGED <<given, next, ctries, signal, remote, lost, outcome>>

(* FGOT_SIGNAL before a chunk is sent or a character is received.  The     *)
(* flag of SIGINT is reset "so that it does not confuse us in the future". *)
SeeSignal ==
  /\ at \in {"chunk", "look"}
  /\ signal
  /\ signal' = FALSE
  /\ Ended("aborted")
  /\ UNCHANGED line

SeeNoSignal ==
  /\ at = "look"
  /\ ~signal
  /\ at' = "receive"
  /\ UNCHANGED <<given, next, zbuf, zsendbuf, ctries, abPrecbuf, signal, line,
                 outcome>>

(* breceive_char finds its buffer empty and reads what is there. *)
ReadPort ==
  /\ at = "receive"
  /\ abPrecbuf = <<>>
  /\ \E n \in 1..Len(echo) :
       /\ abPrecbuf' = SubSeq(echo, 1, n)
       /\ echo' = SubSeq(echo, n + 1, Len(echo))
  /\ UNCHANGED <<given, at, next, zbuf, zsendbuf, ctries, signal, wire, remote,
                 lost, outcome>>

(* Variant: another character than the one looked for ends the transfer. *)
TakeCharacterStrict ==
  /\ at = "receive"
  /\ abPrecbuf # <<>>
  /\ IF Head(abPrecbuf) = Head(zsendbuf)
     THEN /\ abPrecbuf' = Tail(abPrecbuf)
          /\ zsendbuf' = Tail(zsendbuf)
          /\ at' = IF zsendbuf' = <<>> THEN AfterChunk(zbuf) ELSE "look"
          /\ UNCHANGED <<given, next, zbuf, ctries, outcome>>
     ELSE Ended("timed out")
  /\ UNCHANGED <<signal, line>>

(* A character is received.  It is compared with the one that was sent,    *)
(* and skipped if it is another.                                           *)
TakeCharacter ==
  /\ at = "receive"
  /\ abPrecbuf # <<>>
  /\ abPrecbuf' = Tail(abPrecbuf)
  /\ zsendbuf' = IF Head(abPrecbuf) = Head(zsendbuf) THEN Tail(zsendbuf)
                 ELSE zsendbuf
  /\ at' = IF zsendbuf' = <<>> THEN AfterChunk(zbuf) ELSE "look"
  /\ UNCHANGED <<given, next, zbuf, ctries, signal, line, outcome>>

TimesOut ==
  /\ at = "receive"
  /\ abPrecbuf = <<>>
  /\ TimelyEcho => wire = <<>> /\ echo = <<>>

CanKill == ~cuvar.fCuvar_binary /\ cuvar.zCuvar_kill

KillLineSilently ==
  /\ TimesOut
  /\ CanKill
  /\ ctries' = ctries + 1
  /\ ctries' < cCuvar_resend
  /\ lost' = [lost EXCEPT !.kills = @ + 1]
  /\ zbuf' = Buffers[next - 1]
  /\ zsendbuf' = <<>>
  /\ at' = "chunk"
  /\ UNCHANGED <<given, next, abPrecbuf, signal, wire, echo, remote, outcome>>

KillLineUncounted ==
  /\ TimesOut
  /\ CanKill
  /\ ctries < cCuvar_resend
  /\ SendData(<<"kill">>)
  /\ zbuf' = Buffers[next - 1]
  /\ zsendbuf' = <<>>
  /\ at' = "chunk"
  /\ UNCHANGED <<given, next, ctries, signal, remote, lost, outcome>>

(* The echo does not come: the line is killed and sent from its beginning. *)
KillLine ==
  /\ TimesOut
  /\ CanKill
  /\ ctries' = ctries + 1
  /\ ctries' < cCuvar_resend
  /\ SendData(<<"kill">>)
  /\ lost' = [lost EXCEPT !.kills = @ + 1]
  /\ zbuf' = Buffers[next - 1]
  /\ zsendbuf' = <<>>
  /\ at' = "chunk"
  /\ UNCHANGED <<given, next, signal, remote, outcome>>

GiveUp ==
  /\ TimesOut
  /\ CanKill => ctries + 1 >= cCuvar_resend
  /\ Ended("timed out")
  /\ UNCHANGED <<signal, line>>

(* A write or a read of the port fails, and ucuabort ends the program. *)
PortFails ==
  /\ at \in {"buffer", "chunk", "receive"}
  /\ Ended("disconnected")
  /\ UNCHANGED <<signal, line>>

-----------------------------------------------------------------------------
(* What the others do *)

Interrupt ==
  /\ Signals
  /\ ~signal
  /\ at # "over"
  /\ signal' = TRUE
  /\ UNCHANGED <<given, at, next, zbuf, zsendbuf, ctries, abPrecbuf, line,
                 outcome>>

(* What the remote terminal echoes for a character. *)
Echo(r, c) ==
  IF r.literal THEN <<c>>
  ELSE CASE c \in {"cr", "nl"} -> NewlineEcho
         [] c = "kill" -> KillEcho
         [] c \in {"prefix", "eof"} -> <<>>
         [] OTHER -> <<c>>

HandOver(r) == [r EXCEPT !.lines = Append(@, r.pending), !.pending = <<>>]

(* What it does with it. *)
Accept(r, c) ==
  IF r.literal THEN [r EXCEPT !.pending = Append(@, c), !.literal = FALSE]
  ELSE CASE c \in {"cr", "nl"} -> HandOver(r)
         [] c = "kill" -> [r EXCEPT !.pending = <<>>]
         [] c = "prefix" -> [r EXCEPT !.literal = TRUE]
         [] c = "eof" /\ r.pending = <<>> -> [r EXCEPT !.open = FALSE]
         [] c = "eof" /\ r.pending # <<>> -> HandOver(r)
         [] OTHER -> [r EXCEPT !.pending = Append(@, c)]

theProgram == <<given, at, next, zbuf, zsendbuf, ctries, abPrecbuf, signal,
                outcome>>

Unlost == lost.sent = 0 /\ lost.echoes = 0 /\ ~lost.dead

(* From here on nothing reaches the other side.  To bound the model, this  *)
(* comes on a line that has lost nothing before.                           *)
LineDies ==
  /\ Unlost
  /\ lost' = [lost EXCEPT !.dead = TRUE]
  /\ UNCHANGED <<theProgram, wire, echo, remote>>

Arrive ==
  /\ wire # <<>>
  /\ ~lost.dead
  /\ wire' = Tail(wire)
  /\ remote' = Accept(remote, Head(wire))
  /\ echo' = echo \o Echo(remote, Head(wire))
  /\ UNCHANGED <<theProgram, lost>>

(* Kill and end of file are not lost while the line lives.                 *)
LoseSent ==
  /\ wire # <<>>
  /\ Head(wire) # "eof"     \* on a dead line it is on its way for ever
  /\ wire' = Tail(wire)
  /\ \/ lost.dead /\ UNCHANGED lost
     \/ /\ ~lost.dead /\ lost.sent < MaxLost
        /\ Head(wire) # "kill"
        /\ lost' = [lost EXCEPT !.sent = @ + 1]
  /\ UNCHANGED <<theProgram, echo, remote>>

LoseEcho ==
  /\ echo # <<>>
  /\ ~lost.dead
  /\ lost.echoes < MaxUnheard
  /\ echo' = Tail(echo)
  /\ lost' = [lost EXCEPT !.echoes = @ + 1]
  /\ UNCHANGED <<theProgram, wire, remote>>

-----------------------------------------------------------------------------
Program == \/ ReadFile \/ Complete \/ SendChunk \/ SeeSignal \/ SeeNoSignal
           \/ ReadPort \/ TakeCharacter \/ KillLine \/ GiveUp

Line == Arrive \/ LoseSent \/ LoseEcho

Next == Program \/ PortFails \/ Interrupt \/ Line \/ LineDies

Spec == Init /\ [][Next]_vars

(* The program runs, and nothing need fail to end it.  If a timeout means  *)
(* that nothing is under way, what is under way arrives or is lost; else   *)
(* nothing is said of the remote side.                                     *)
FairSpec ==
  Spec /\ WF_vars(Program) /\ (TimelyEcho => WF_vars(Line))

-----------------------------------------------------------------------------
(* Properties *)

(* What of a line is sent and shown as a line, and what of it is checked. *)
IsContent(c) == c # "nl" /\ (c = "ctl" => cuvar.fCuvar_binary)
IsShown(c)   == c \in Printable

Content(l) == Where(l, IsContent)
Shown(l)   == Where(l, IsShown)

AllArrived == outcome = "complete" /\ next > Len(Buffers) /\ wire = <<>>

(* On a line that loses nothing, whatever the ~s variables are, a completed *)
(* transfer has brought every line as it is (but for what text mode drops), *)
(* and has closed the remote file if its last line was a whole one          *)
(* (fcusend_buf, icuput).                                                   *)
ArrivesUnchanged ==
  AllArrived /\ Unlost =>
    /\ remote.lines \o (IF remote.pending = <<>> THEN <<>>
                        ELSE <<remote.pending>>) = Each(Content, file)
    /\ cuvar.zCuvar_eofwrite /\ Last(Last(file)) = "nl" => ~remote.open

(* On such a line, with echoes in time, no transfer gives up for want of   *)
(* an echo: the ones skipped, and the ones discarded with what was read,   *)
(* were not the ones looked for.                                           *)
EchoesFound == TimelyEcho /\ Unlost => outcome # "timed out"

(* A checked transfer. *)
Checked == /\ ~cuvar.fCuvar_binary
           /\ cuvar.fCuvar_echocheck
           /\ cuvar.zCuvar_echonl # "none"

(* With echo checking, characters lost on the way there are made up for:   *)
(* no line is missing, repeated, out of order or incomplete.               *)
Transfer == INSTANCE LineTransfer WITH
  text <- Each(Shown, file),
  delivered <- Each(Shown, remote.lines),
  outcome <- CASE outcome = "none" -> "sending"
               [] outcome = "complete" ->
                    IF wire = <<>> THEN "complete" ELSE "sending"
               [] OTHER -> "stopped"

IsLineTransfer == Transfer!Spec

(* With echoes lost as well, a line whose newline was not heard is sent    *)
(* again, but still none is missing: what has arrived is, with repetitions, *)
(* a beginning of the file, and all of it when the transfer is complete    *)
(* (but for an unfinished last line that no end of file hands over).       *)
EveryLineArrives ==
  Checked /\ TimelyEcho =>
    \E m \in [DOMAIN remote.lines -> DOMAIN file] :
      /\ \A i \in DOMAIN m : /\ Shown(remote.lines[i]) = Shown(file[m[i]])
                            /\ IF i = 1 THEN m[i] = 1
                               ELSE m[i] - m[i - 1] \in {0, 1}
      /\ AllArrived /\ cuvar.zCuvar_eofwrite => Range(m) = DOMAIN file

(* The manual of "resend": "The number of times to resend a line if the    *)
(* echo check continues to fail" (cu.1).  One that gave up resent as often. *)
ResendsAsOften ==
  outcome = "timed out" /\ CanKill => lost.kills >= cCuvar_resend

(* Every transfer ends, whatever the remote side answers or does not. *)
SendReturns == <>(at = "over")
=============================================================================
