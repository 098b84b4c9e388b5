------------------------------ MODULE MCPorts -------------------------------
(***************************************************************************)
(* The components between cu and its port, each by itself: the receive     *)
(* buffer, ~take, the calls that read and write, the port that is chosen   *)
(* and opened, and the programs that are run.  They keep no state in       *)
(* common, so that a behaviour is one of one of them; part says of which.  *)
(***************************************************************************)
EXTENDS CuTake, RecBuf, ConnIO, PortSelect, Spawn

VARIABLE part

-----------------------------------------------------------------------------
(* Files for ~take without, with one and with several newlines at their    *)
(* end, and one that has most of the marker and a carriage return in it;   *)
(* ends of file whose beginnings overlap.                                  *)
SomeFiles == {<<>>, <<"a", "a">>, <<"a", "nl">>, <<"nl", "nl", "a", "nl", "nl">>,
              <<"nl", "mark", "a", "cr", "nl">>}

Leftovers == {<<>>, <<"a", "nl", "$">>}

Prompts == {<<>>, <<"$">>, <<"nl", "$">>, <<"a", "a", "nl">>,
            <<"nl", "nl", "a", "nl", "nl", "$">>}

AfterReturn == {<<"cr", "nl", "$">>}
NoEof       == {<<>>}

-----------------------------------------------------------------------------
(* Port files: one or several, with ports on the same line, with the speed *)
(* given, not given or any, with hardware flow control or without, and a   *)
(* port that is a pipe; commands by name, by line, by speed and by system. *)

Direct(name, line, speed, hard) ==
  [name |-> name, type |-> "direct", line |-> line, speed |-> speed, hard |-> hard,
   carrier |-> ~hard]
PipePort == [NoPort EXCEPT !.name = "pipe", !.type = "pipe"]

SomePortFiles ==
  {<<Direct("p1", "tty1", 12, TRUE), Direct("p2", "tty2", 24, FALSE),
     Direct("p1", "tty2", 12, FALSE)>>,
   <<PipePort, Direct("p2", "tty1", NoSpeed, TRUE)>>,
   <<Direct("p2", "tty2", 0, TRUE)>>}

Ask(port, line, speed) ==
  [NoCommand EXCEPT !.port = port, !.line = line, !.speed = speed]
Alternate(port, speed, high, own, call) ==
  [port |-> port, speed |-> speed, high |-> high, own |-> own, call |-> call]

SomeCommands ==
  {[Ask(port, line, 0) EXCEPT !.parity = "even", !.strip = "sevenBits", !.stop = "off"] :
     port \in {"p1", "p2"}, line \in {NoLine, "tty2"}}
  \cup {Ask("any", line, speed) : line \in {"tty1", "tty2"}, speed \in {0, 12}}
  \cup {[Ask("any", NoLine, 12) EXCEPT !.parity = "odd"], Ask("pipe", NoLine, 24),
        Ask("any", NoLine, 99)}
  \cup {[NoCommand EXCEPT !.alternates = a] :
          a \in {<<Alternate("p1", 0, 0, NoPort, TRUE),
                   Alternate("any", 24, 0, NoPort, FALSE),
                   Alternate("any", 12, 24, NoPort, TRUE)>>,
                 <<Alternate("any", 0, 0, Direct("own", "tty1", 0, TRUE), TRUE),
                   Alternate("p2", 12, 24, NoPort, TRUE)>>}}

NaturalSettings ==
  [l \in {"tty1", "tty2"} |->
     [PlainSettings EXCEPT !.speed = 12, !.xon = "both", !.hard = l = "tty1"]]

-----------------------------------------------------------------------------
PortsInit ==
  /\ part \in {"ring", "take", "conn", "port", "spawn"}
  /\ RingInit /\ TakeInit /\ ConnInit /\ SelectInit /\ SpawnInit
  /\ part # "conn" => flags = [d \in Descriptors |-> "block"]

ShowRing ==
  /\ part = "ring" /\ RingNext
  /\ UNCHANGED <<part, takeVars, connVars, selectVars, spawnVars>>
ShowTake ==
  /\ part = "take" /\ TakeNext
  /\ UNCHANGED <<part, ringVars, connVars, selectVars, spawnVars>>
ShowConn ==
  /\ part = "conn" /\ ConnNext
  /\ UNCHANGED <<part, ringVars, takeVars, selectVars, spawnVars>>
ShowPort ==
  /\ part = "port" /\ SelectNext
  /\ UNCHANGED <<part, ringVars, takeVars, connVars, spawnVars>>
ShowSpawn ==
  /\ part = "spawn" /\ SpawnNext
  /\ UNCHANGED <<part, ringVars, takeVars, connVars, selectVars>>

PortsNext == ShowRing \/ ShowTake \/ ShowConn \/ ShowPort \/ ShowSpawn

PortsSpec ==
  /\ PortsInit
  /\ [][PortsNext]_<<part, ringVars, takeVars, connVars, selectVars, spawnVars>>
  /\ (part = "conn" => ConnFairness)
  /\ (part = "spawn" => SpawnFairness)

(* There may be too little memory for the name of the port that is found.  *)
ShowNoMemory ==
  /\ part = "port" /\ FoundButNoMemory
  /\ UNCHANGED <<part, ringVars, takeVars, connVars, spawnVars>>

NoMemorySpec ==
  /\ PortsInit
  /\ [][PortsNext \/ ShowNoMemory]_<<part, ringVars, takeVars, connVars, selectVars,
                                     spawnVars>>

(* The variables of every component have values of their types. *)
PortsTypeOK == RingTypeOK /\ TakeTypeOK /\ ConnTypeOK /\ PortTypeOK /\ SpawnTypeOK
=============================================================================
