----------------------------- MODULE ConnTable ------------------------------
(***************************************************************************)
(* The command tables of the connections: struct sconncmds of src/conn.h,  *)
(* the tables of src/unix/serial.c and src/unix/pipe.c that initialize it, *)
(* and the routines of src/conn.c that call through it.                    *)
(*                                                                         *)
(* A table is initialized by position, so the model keeps the order of the *)
(* members and of the initializers; initializers in excess are dropped, as *)
(* a C compiler does with a warning.  What each routine then does is in    *)
(* the other modules.                                                      *)
(***************************************************************************)
EXTENDS Integers, Sequences

CONSTANT MaxCalls     \* bound on the calls of a session

VARIABLES
  ttype,      \* the type of the port
  stage,      \* how far the connection has come
  operation,  \* the operation of src/conn.c called last
  routine,    \* the routine that it ran; Null: it called a null pointer
  nCalls

tableVars == <<ttype, stage, operation, routine, nCalls>>

Null == "NULL"

(* The members of struct sconncmds, in order. *)
Members == <<"free", "lock", "unlock", "open", "close", "read", "write", "io",
             "break", "set", "carrier", "baud">>

Sstdincmds ==
  <<"usserial_free", Null, Null, "fsstdin_open", "fsstdin_close", Null,
    "fsdouble_read", "fsdouble_write", "fsysdep_conn_io", "fsstdin_break",
    "fsstdin_set", Null, "isserial_baud">>

Sdirectcmds ==
  <<"usserial_free", "fsserial_lock", "fsserial_unlock", "fsdirect_open",
    "fsdirect_close", Null, "fsysdep_conn_read", "fsysdep_conn_write",
    "fsysdep_conn_io", "fsserial_break", "fsserial_set", Null, "isserial_baud">>

Spipecmds ==
  <<"uspipe_free", Null, Null, "fspipe_open", "fspipe_close", "fsdouble_read",
    "fsdouble_write", "fsysdep_conn_io", Null, Null, Null, Null>>

Initializers(type) ==
  CASE type = "stdin"  -> Sstdincmds
    [] type = "direct" -> Sdirectcmds
    [] type = "pipe"   -> Spipecmds

Member(type, op) ==
  Initializers(type)[CHOOSE i \in 1..Len(Members) : Members[i] = op]

(* The operations that test for a null pointer, and then do nothing. *)
Tested == {"lock", "unlock", "break", "set", "carrier", "baud"}

TableInit ==
  /\ ttype = "none"
  /\ stage = "none"
  /\ operation = "none"
  /\ routine = "none"
  /\ nCalls = 0

(* fconn_init. *)
TableFconnInit(type) ==
  /\ stage = "none"
  /\ ttype' = type
  /\ stage' = "made"
  /\ UNCHANGED <<operation, routine, nCalls>>

Calls(op) ==
  /\ operation' = op
  /\ routine' = IF Member(ttype, op) = Null /\ op \in Tested THEN "skipped"
                ELSE Member(ttype, op)
  /\ nCalls' = nCalls + 1
  /\ UNCHANGED ttype

FconnLock  == stage = "made"   /\ stage' = "locked" /\ Calls("lock")
FconnOpen  == stage = "locked" /\ stage' = "open"   /\ Calls("open")
FconnClose == stage = "open"   /\ stage' = "locked" /\ Calls("close")
FconnUnlock == stage = "locked" /\ stage' = "unlocked" /\ Calls("unlock")
FconnFree  == stage = "unlocked" /\ stage' = "freed" /\ Calls("free")

(* fconn_read, fconn_write, fconn_io, fconn_break, fconn_set,              *)
(* fconn_carrier and iconn_baud.                                           *)
FconnUse ==
  /\ stage = "open" /\ nCalls < MaxCalls
  /\ \E op \in {"read", "write", "io", "break", "set", "carrier", "baud"} : Calls(op)
  /\ UNCHANGED stage

TableNext ==
  \/ \E type \in {"stdin", "direct", "pipe"} : TableFconnInit(type)
  \/ routine # Null
     /\ (FconnLock \/ FconnOpen \/ FconnClose \/ FconnUnlock \/ FconnFree \/ FconnUse)

TableSpec == TableInit /\ [][TableNext]_tableVars

-----------------------------------------------------------------------------
(* The routines that the comments of the two files say do each operation.  *)
Does ==
  [free |-> {"usserial_free", "uspipe_free"}, lock |-> {"fsserial_lock", "skipped"},
   unlock |-> {"fsserial_unlock", "skipped"},
   open |-> {"fsstdin_open", "fsdirect_open", "fspipe_open"},
   close |-> {"fsstdin_close", "fsdirect_close", "fspipe_close"},
   read |-> {"fsysdep_conn_read", "fsdouble_read"},
   write |-> {"fsysdep_conn_write", "fsdouble_write"}, io |-> {"fsysdep_conn_io"},
   break |-> {"fsserial_break", "fsstdin_break", "skipped"},
   set |-> {"fsserial_set", "fsstdin_set", "skipped"}, carrier |-> {"skipped"},
   baud |-> {"isserial_baud", "skipped"}]

(* Whatever is asked of a connection, a routine that does it runs          *)
(* ("Read data from a connection, with a timeout in seconds", and so on,   *)
(* struct sconncmds).                                                      *)
RunsWhatIsAsked == operation # "none" => routine \in Does[operation]

(* A connection is locked, opened, closed, unlocked and freed by the       *)
(* routines for it, of whatever type it is.                                *)
ControlRuns ==
  operation \in {"free", "lock", "unlock", "open", "close"} =>
    routine \in Does[operation]

(* A pipe is read, written and closed by the routines for pipes.           *)
PipeRuns == ttype = "pipe" /\ operation # "none" => routine \in Does[operation]
=============================================================================
