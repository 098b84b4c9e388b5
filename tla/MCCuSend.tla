------------------------------ MODULE MCCuSend ------------------------------
(***************************************************************************)
(* Small instances of CuSend: files of two or three short lines that have  *)
(* repeated, unprintable and no characters and an unfinished last line.    *)
(***************************************************************************)
EXTENDS CuSend

TwoLines   == <<<<"a", "b", "a", "nl">>, <<"b", "nl">>>>
Repeated   == <<<<"a", "a", "nl">>, <<"a", "nl">>>>
Unprinted  == <<<<"ctl", "a", "tab", "nl">>, <<"b">>>>
EmptyLines == <<<<"a", "nl">>, <<"nl">>, <<"ctl", "nl">>>>

Everything  == {TwoLines, Repeated, Unprinted, EmptyLines}
TextFiles   == {TwoLines, Repeated, Unprinted}
OneFile     == {Repeated}

AllModes == {s \in AllSettings : s.zCuvar_echonl \in {"none", "cr"}}

CheckedModes == {s \in AllModes : /\ ~s.fCuvar_binary
                                  /\ s.fCuvar_echocheck
                                  /\ s.zCuvar_echonl = "cr"
                                  /\ s.zCuvar_eofwrite}

KillingModes == {s \in CheckedModes : s.zCuvar_kill}

(* ~s echonl > , for a remote side that answers every line with a ">". *)
PromptModes == {s \in AllSettings : /\ ~s.fCuvar_binary
                                    /\ s.zCuvar_echonl = ">"}

ReturnNewline == <<"cr", "nl">>
OnlyNewline   == <<"nl">>
AnswerPrompt  == <<">">>
=============================================================================
