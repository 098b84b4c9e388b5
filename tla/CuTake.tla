------------------------------- MODULE CuTake -------------------------------
(***************************************************************************)
(* Receiving a file with ~%take or ~<: icutake of src/cu.c.  The remote    *)
(* side is told to write the file and then a string that ends it.  What    *)
(* comes is kept back in zlook as long as it may be that string.           *)
(*                                                                         *)
(* For ~%take the string is a line of its own, for which the remote shell  *)
(* is asked to echo an empty line and the marker after the file; here the  *)
(* marker is one character, "mark".  For ~< it is the value of eofread.    *)
(***************************************************************************)
EXTENDS Naturals, Sequences

CONSTANTS
  Files,          \* files on the remote side
  Stale,          \* what may be left in the receive buffer
  Eofreads,       \* values of eofread
  LittleEndian,   \* the byte order of the machine cu runs on
  WriteErrors,    \* whether writing the file may fail
  Signals         \* whether the user may interrupt the transfer

Characters == {"a", "$", "nl", "cr", "mark", "nul"}

ASSUME TakeAssumption ==
  /\ Files \cup Stale \cup Eofreads \subseteq Seq(Characters)
  /\ {LittleEndian, WriteErrors, Signals} \subseteq BOOLEAN

VARIABLES
  remoteFile,     \* the file that is asked for
  onlcr,          \* whether the remote terminal writes "nl" as "cr", "nl"
  fromShell,      \* ~%take rather than ~<: pvar is NULL
  fCuvar_binary,  \* the variable "binary"
  zeof,           \* the string that ends the file
  taking,         \* where the program is
  buffered,       \* the receive buffer
  incoming,       \* what the remote side has still to write to its terminal
  returned,       \* its terminal has shown the "cr" before the next "nl"
  heard,          \* history: what was received of the file
  zlook,          \* what is kept back; ceofhave is its length
  written,        \* the local file
  takeSignal,     \* a signal was caught and not yet seen by FGOT_SIGNAL
  takeEnd         \* how the transfer ended

takeGiven == <<remoteFile, onlcr, fromShell, fCuvar_binary, zeof>>
takeBuffers == <<heard, zlook, written>>
unread == <<buffered, incoming, returned>>
takeVars == <<remoteFile, onlcr, fromShell, fCuvar_binary, zeof, taking, buffered,
              incoming, returned, heard, zlook, written, takeSignal, takeEnd>>

TakeTypeOK ==
  /\ remoteFile \in Files \/ remoteFile = <<>>
  /\ onlcr \in BOOLEAN /\ fromShell \in BOOLEAN /\ fCuvar_binary \in BOOLEAN
  /\ takeSignal \in BOOLEAN /\ returned \in BOOLEAN
  /\ taking \in {"no", "command", "echo", "look", "receive", "over"}
  /\ buffered \in Seq(Characters) /\ incoming \in Seq(Characters)
  /\ zeof \in Seq(Characters) /\ heard \in Seq(Characters)
  /\ zlook \in Seq(Characters) /\ written \in Seq(Characters)
  /\ Len(zlook) < Len(zeof) \/ zlook = <<>> \/ taking = "over"
  /\ takeEnd \in {"none", "complete", "no echo", "timed out", "aborted",
                  "write error", "disconnected"}

-----------------------------------------------------------------------------
(* The remote side *)

UnixEof == <<"nl", "mark", "nl">>

(* The command, which the terminal echoes; it is as good as any other      *)
(* characters without a newline.                                           *)
Command == <<"a">>

(* cat FROM; echo; echo MARKER, and the prompt after it.  What answers the *)
(* command of ~< is taken to be the file and a prompt.                     *)
Answer == Command \o <<"nl">> \o remoteFile
            \o (IF fromShell THEN UnixEof ELSE <<>>) \o <<"$">>

TakeInit ==
  /\ remoteFile = <<>>
  /\ onlcr = FALSE
  /\ fromShell = FALSE
  /\ fCuvar_binary = FALSE
  /\ zeof = <<>>
  /\ taking = "no"
  /\ buffered = <<>>
  /\ incoming = <<>>
  /\ returned = FALSE
  /\ heard = <<>>
  /\ zlook = <<>>
  /\ written = <<>>
  /\ takeSignal = FALSE
  /\ takeEnd = "none"

(* The names are asked for and the local file is opened. *)
OpenTaken ==
  /\ taking = "no"
  /\ remoteFile' \in Files
  /\ onlcr' \in BOOLEAN
  /\ fromShell' \in BOOLEAN
  /\ fCuvar_binary' \in BOOLEAN
  /\ zeof' \in IF fromShell' THEN {UnixEof} ELSE Eofreads
  /\ buffered' \in Stale
  /\ taking' = "command"
  /\ UNCHANGED <<incoming, returned, takeBuffers, takeSignal, takeEnd>>

-----------------------------------------------------------------------------
Ended(how) == taking' = "over" /\ takeEnd' = how

(* The command is written; what was read before is discarded. *)
SendCommand ==
  /\ taking = "command"
  /\ incoming' = Answer
  /\ buffered' = <<>> /\ returned' = FALSE
  /\ taking' = IF fromShell THEN "echo" ELSE "look"
  /\ UNCHANGED <<takeGiven, takeBuffers, takeSignal, takeEnd>>

(* breceive_char: a character of the buffer, or else of the port, where a  *)
(* terminal with onlcr shows "nl" as "cr", "nl".                           *)
Received(c) ==
  IF buffered # <<>>
  THEN c = Head(buffered) /\ buffered' = Tail(buffered) /\ UNCHANGED <<incoming, returned>>
  ELSE /\ incoming # <<>>
       /\ returned' = (onlcr /\ Head(incoming) = "nl" /\ ~returned)
       /\ IF returned' THEN c = "cr" /\ UNCHANGED incoming
          ELSE c = Head(incoming) /\ incoming' = Tail(incoming)
       /\ UNCHANGED buffered

(* The echo of the command is dropped, up to its newline. *)
SkipEcho ==
  /\ taking = "echo"
  /\ \E c \in Characters :
       /\ Received(c)
       /\ taking' = IF c = "nl" THEN "look" ELSE "echo"
  /\ UNCHANGED <<takeGiven, takeBuffers, takeSignal, takeEnd>>

EchoTimesOut ==
  /\ taking = "echo"
  /\ buffered = <<>>
  /\ Ended("no echo")
  /\ UNCHANGED <<takeGiven, takeBuffers, unread, takeSignal>>

(* FGOT_SIGNAL before every character.  What is kept back is lost. *)
TakeSeesSignal ==
  /\ taking = "look"
  /\ takeSignal
  /\ takeSignal' = FALSE
  /\ Ended("aborted")
  /\ UNCHANGED <<takeGiven, takeBuffers, unread>>

TakeSeesNone ==
  /\ taking = "look"
  /\ ~takeSignal
  /\ taking' = "receive"
  /\ UNCHANGED <<takeGiven, takeBuffers, unread, takeSignal, takeEnd>>

(* In text mode a carriage return is dropped. *)
Drops(c) == c = "cr" /\ ~fCuvar_binary

DropReturn ==
  /\ taking = "receive"
  /\ \E c \in Characters :
       /\ Received(c)
       /\ Drops(c)
       /\ heard' = Append(heard, c)
  /\ taking' = "look"
  /\ UNCHANGED <<takeGiven, zlook, written, takeSignal, takeEnd>>

(* Without a string to look for, the character is written: the first byte  *)
(* of an int.                                                              *)
WriteCharacter ==
  /\ taking = "receive"
  /\ zeof = <<>>
  /\ \E c \in Characters :
       /\ Received(c)
       /\ ~Drops(c)
       /\ heard' = Append(heard, c)
       /\ written' = Append(written, IF LittleEndian THEN c ELSE "nul")
  /\ taking' = "look"
  /\ UNCHANGED <<takeGiven, zlook, takeSignal, takeEnd>>

(* Variant: when what is kept back is not the string, all of it goes out. *)
LookFlushes ==
  /\ taking = "receive"
  /\ zeof # <<>>
  /\ \E c \in Characters :
       LET kept == Append(zlook, c)
       IN /\ Received(c)
          /\ ~Drops(c)
          /\ heard' = Append(heard, c)
          /\ IF kept = zeof
             THEN zlook' = kept /\ Ended("complete") /\ UNCHANGED written
             ELSE /\ IF Len(kept) = Len(zeof)
                     THEN written' = written \o kept /\ zlook' = <<>>
                     ELSE zlook' = kept /\ UNCHANGED written
                  /\ taking' = "look"
                  /\ UNCHANGED takeEnd
  /\ UNCHANGED <<takeGiven, takeSignal>>

(* Otherwise it is added to what is kept back.  If that is as long as the  *)
(* string but not equal to it, the first character of it goes to the file. *)
Look ==
  /\ taking = "receive"
  /\ zeof # <<>>
  /\ \E c \in Characters :
       LET kept == Append(zlook, c)
       IN /\ Received(c)
          /\ ~Drops(c)
          /\ heard' = Append(heard, c)
          /\ IF kept = zeof
             THEN zlook' = kept /\ Ended("complete") /\ UNCHANGED written
             ELSE /\ IF Len(kept) = Len(zeof)
                     THEN /\ written' = Append(written, Head(kept))
                          /\ zlook' = Tail(kept)
                     ELSE zlook' = kept /\ UNCHANGED written
                  /\ taking' = "look"
                  /\ UNCHANGED takeEnd
  /\ UNCHANGED <<takeGiven, takeSignal>>

(* The character that was received, or the one it pushed out, is lost. *)
WriteFails ==
  /\ WriteErrors
  /\ taking = "receive"
  /\ \E c \in Characters :
       /\ Received(c)
       /\ ~Drops(c)
       /\ Append(zlook, c) # zeof /\ Len(zlook) + 1 >= Len(zeof)
       /\ heard' = Append(heard, c)
       /\ zlook' = IF zeof = <<>> THEN zlook ELSE Append(zlook, c)
  /\ Ended("write error")
  /\ UNCHANGED <<takeGiven, written, takeSignal>>

(* Nothing comes in time: what is kept back was part of the file.          *)
TakeTimesOut ==
  /\ taking = "receive"
  /\ buffered = <<>>
  /\ written' = written \o zlook
  /\ zlook' = <<>>
  /\ Ended("timed out")
  /\ UNCHANGED <<takeGiven, unread, heard, takeSignal>>

(* A write or a read of the port fails, and ucuabort ends the program.     *)
TakePortFails ==
  /\ taking \in {"no", "command", "echo", "receive"}
  /\ Ended("disconnected")
  /\ UNCHANGED <<takeGiven, takeBuffers, unread, takeSignal>>

InterruptTake ==
  /\ Signals
  /\ ~takeSignal
  /\ taking \notin {"no", "over"}
  /\ takeSignal' = TRUE
  /\ UNCHANGED <<takeGiven, takeBuffers, taking, unread, takeEnd>>

TakeNext ==
  \/ OpenTaken \/ SendCommand \/ SkipEcho \/ EchoTimesOut \/ TakeSeesSignal
  \/ TakeSeesNone \/ DropReturn \/ WriteCharacter \/ Look \/ WriteFails
  \/ TakeTimesOut \/ TakePortFails \/ InterruptTake

TakeSpec == TakeInit /\ [][TakeNext]_takeVars

-----------------------------------------------------------------------------
(* Properties *)

WithoutReturns(s) ==
  LET kept[i \in 0..Len(s)] ==
        IF i = 0 THEN <<>>
        ELSE IF s[i] = "cr" THEN kept[i - 1] ELSE Append(kept[i - 1], s[i])
  IN kept[Len(s)]

(* What of characters that are received belongs to the file.               *)
Wanted(s) == IF fCuvar_binary THEN s ELSE WithoutReturns(s)

(* Whatever the string is, what was received is in the file or kept back,  *)
(* in order, until the transfer ends; a timeout, too, loses nothing, and a *)
(* string that is found is all that is left out (icutake).                 *)
NothingLost ==
  takeEnd \in {"none", "complete", "timed out"} => written \o zlook = Wanted(heard)

Occurs(s, t) ==
  \E i \in 0..Len(t) - Len(s) : SubSeq(t, i + 1, i + Len(s)) = s

(* "It continues accepting data until the contents of the eofread variable *)
(* are seen" (uucp.texi): it does not go on after them, even if they began *)
(* within what had looked like their beginning.                            *)
EndNotMissed ==
  taking \in {"look", "receive"} /\ zeof # <<>> => ~Occurs(zeof, heard)

(* A completed ~%take has written the remote file, in text mode without    *)
(* its carriage returns, whatever the remote terminal does to newlines,    *)
(* and whether or not the file ends with one; nothing of the echo of the   *)
(* command is in it.                                                       *)
CompleteHasFile ==
  fromShell /\ takeEnd = "complete" =>
    written = Wanted(remoteFile)

(* What icutake promises, for whatever the remote side sends: nothing of   *)
(* the file is lost, the end is not missed, and the file is complete if it *)
(* says so.                                                                *)
TakenFile == NothingLost /\ EndNotMissed /\ CompleteHasFile
=============================================================================
