# A model of cu

`cu` of Taylor UUCP dials or opens a serial line and gives the user a session on
it: keys go to the port, what the port says goes to the terminal, and lines that
begin with an escape character are commands.  This directory models the program
of this repository in TLA+, checks it with TLC on small instances and proves its
central properties with TLAPS for every value of the constants.

## The system

The repository is a cut of Taylor UUCP in which only `cu` is built
(`src/Makefile.am`): `cu.c prot.c log.c conn.c copy.c` with the libraries `unix`,
`uuconf` and `lib`.  Much of `unix` (spool directory, work files, status files)
is compiled into the library and called by nothing in `cu`.

| part | state it keeps | operations | talks to |
|---|---|---|---|
| copy handshake (`unix/cusub.c`) | child process, `iSsend_sig`, `iSchild_sig`, the pipe `oSpipe`, the child's `fstopped`, `abbuf`, `cwrite` | `fsysdep_cu_init`, `fsysdep_cu`, `fsysdep_cu_copy`, `fsysdep_cu_finish`, `uscu_child` | parent and child by signals and a pipe; both use port and terminal |
| session (`cu.c`) | `fCustarted`, `fCurestore_terminal`, `fCuclose_conn`, `qCuconn`, the variables of `~s` | `main`, `fcudo_cmd`, `ucuabort`, `uculog_start`, `uculog_end` | calls all the others; called back by `ulog` |
| terminal (`unix/cusub.c`) | `sSterm_orig`, `sSterm_new`, `fSterm`, `fSlocalecho` | `fsysdep_terminal_raw`, `_restore`, `_signals`, `zsysdep_terminal_line`, `fsysdep_suspend` | the terminal, which the child shares |
| file transfer (`cu.c`) | the line being sent, echo and resend counters; the look-ahead `zlook` | `icuput`, `icutake`, `fcusend_buf` | connection, receive buffer, signals |
| receive buffer (`prot.c`) | `abPrecbuf`, `iPrecstart`, `iPrecend` | `fsend_data`, `freceive_data`, `breceive_char` | connection |
| connection (`conn.c`) | `struct sconnection`, the command tables | `fconn_*` | ports |
| ports (`unix/serial.c`, `unix/pipe.c`) | descriptor, blocking mode, terminal settings, lock | open, close, read, write, io, set, break | the line, signals, lock files |
| lock files (`unix/lock.c`) | a file with a process id | `fsdo_lock`, `fsdo_unlock` | other programs that use the same line |
| signals and log (`unix/signal.c`, `log.c`) | `afSignal`, `afLog_signal`, `pfLstart`, `pfLend`, `pfLfatal` | `ussignal`, `usset_signal`, `ulog`, `ustats` | everything; calls back into `cu.c` |
| other programs (`unix/spawn.c`, `epopen.c`, `mail.c`, `run.c`, `iswait.c`) | descriptors of both processes | `ixsspawn`, `espopen`, `ixswait` | commands of the session, the spool |
| configuration (`uuconf/`) | where the systems are, a system's alternates, time spans | `uuconf_find_port`, `uuconf_system_info`, `uuconf_time_parse` | `main` |
| spool (`unix/work.c`, `splcmd.c`, `xqtsub.c`, `xqtfil.c`, ...) | the work scan, execute files and their locks, status and sequence files | `fsysdep_get_work`, `fsysdep_did_work`, `ixsysdep_lock_uuxqt`, ... | called by programs that are not in this repository |

What makes each part correct:

* handshake: a command that was told the child has stopped has the port and the
  terminal alone; `[connected]` means that the child copies; what is shown is what
  was read; every stop, start and shutdown ends.
* session and terminal: the terminal is given back as the user left it; shells
  find it so; keys go to the remote side and can interrupt a transfer; the child is
  told to end before the line is given up.
* file transfer: every line arrives once, in order and whole, or the transfer is
  not called complete; nothing that was received is lost or taken for the end of
  the file; every transfer ends.
* receive buffer: a queue that never overwrites what it still holds.
* lock files: one holder at a time, also when a stale lock is broken; failed calls
  leave nothing; every call returns; stale locks do not stay.
* connection and ports: every operation reaches the function of its kind; a read
  ends with its data, at its timeout or at a signal, and leaves no alarm behind; a
  port that is shared with the child is in the mode the child needs.
* signals and log: a signal is logged once; a message in a callback does not call
  the callbacks for ever; a fatal message ends the program once.
* other programs: a program gets the descriptors it is to have and no others, is
  waited for, and does not wait for its caller.
* configuration: the port that is used is the first that fits and is free, and is
  given back once; a system has what its lines say, else what the defaults say; a
  list of time spans is ordered and gives each minute its best span.
* spool: no command is lost or returned twice; two `uuxqt` share nothing.

What is hard in it: two processes that share a terminal and a port and talk by
signals that may be lost, merged or late; a cleanup (`ucuabort`) that can start
from anywhere; callbacks from the log into the terminal code; lock files that
other programs take and leave behind; reads with timeouts, interrupted by
signals; retries of lines whose echo was wrong; a log that calls itself; two
configuration texts, defaults and system, merged alternate by alternate.

## The modules

| module | models | is |
|---|---|---|
| `CopyControl` | what `system.h` promises of the copying child | abstract |
| `CuCopy` | the two processes of `unix/cusub.c` | implements `CopyControl` |
| `CuSession` | `main`, `fcudo_cmd`, `ucuabort` and the log callbacks of `cu.c` over the terminal functions of `cusub.c` | composed with `CopyControl`, which it drives as its contract allows |
| `PortLock` | `fsdo_lock`, `fsdo_unlock` of `unix/lock.c` | |
| `LineTransfer` | what a checked `~%put` promises | abstract |
| `CuSend` | `icuput` and `fcusend_buf` of `cu.c` against a remote terminal | implements `LineTransfer` |
| `CuTake` | `icutake` of `cu.c` against a remote shell | |
| `ByteQueue` | what the receive buffer is to its callers | abstract |
| `RecBuf` | the ring of `prot.c` | implements `ByteQueue` |
| `ConnTable` | `struct sconncmds` of `conn.h`, its three tables and the calls of `conn.c` | |
| `ConnIO` | `fsblock`, `fsysdep_conn_read`, `_write`, `_io` and `usalarm` of `unix/serial.c` | |
| `SerialPort` | lock, open, settings, hardware flow control, close and unlock of `unix/serial.c`, pipe ports, `conn.c` | extended by `PortSelect` |
| `PortSelect` | `uuconf_taylor_find_port` with `icuport_lock`, and `main` and `ucuabort` of `cu.c` around them | over `SerialPort` |
| `Spawn` | `ixsspawn`, `espopen`, `ixswait`, `fsysdep_mail`, `_run`, `_execute` of `unix/` | |
| `LogFile` | `ulog`, `ulog_close`, `ustats` of `log.c`, the end of `fconn_close` | |
| `SysInfo` | `rdlocs.c`, `tsinfo.c`, `syssub.c` of `uuconf/` | |
| `TimeSpan` | `uuconf/time.c` | |
| `Work` | the command files: `unix/work.c`, `unix/splcmd.c` | |
| `Uuxqt` | the execute files: `unix/xqtsub.c`, `unix/xqtfil.c` | |

`CuCopyProof`, `CuSessionProof`, `CuSendProof`, `PortLockProof`, `ReceiveProof` (of
`RecBuf`, `CuTake` and `ConnIO`), `PortsProof` (of `PortSelect`, `Spawn` and `MCPorts`),
`SpoolProof` (of `Work` and `Uuxqt`) and `FilesProof` (of `MCFiles`, `LogFile`, `TimeSpan` and
`SysInfo`) hold inductive
invariants and proofs.  `MCCuSend` has the files and settings of its runs.
`MCPorts` and `MCFiles` put several components into one run each: the components
keep no state in common, so that a behaviour is one of one of them, and the
variable `part` says of which.  Definitions called variants in their comments are
plausible mistakes in the code; the properties are tested against them (`mutants`
in `PROJECT.json`).

### CuCopy

A step is what a process does between two points at which a signal or the other
process can matter; so `isig = iSchild_sig; iSchild_sig = 0` is two steps
(`LoadSignal`, `ClearSignal`), and entering a blocking call (`EnterSystemCall`) is
apart from what ends it.  Signals sent and not delivered are a set, as in the
kernel; `Deliver` runs the handlers of all of them, in any order, so the last one
stays.  The parent's states are the places it can block in.  The commands of
`cu.c` appear as what they do to the handshake: stop, be busy, start again or
abort.

Assumptions:

* `sigaction` is used and system calls are not restarted, as on every system of
  today (`HAVE_SIGACTION`, no `HAVE_RESTARTABLE_SYSCALLS`).
* All signals pending for the child are delivered before its own code goes on.
  The kernel does so when the child returns to user mode; the protocol depends
  on it, since a signal kept back across an answer would undo the answer.
* The pipe never fills: it holds thousands of answers and one comes per second.
* A process id is not used again while the session runs.
* The parent's own writes to the port and the terminal, and the keys it reads,
  are not recorded: they touch no state of the handshake.

### CuSession

`term` is the terminal's own mode with `sSterm_orig`, `sSterm_new` and `fSterm`.  A
mode is which of the user's settings it has, whether `fsysdep_terminal_raw` has
changed them and whether the keyboard sends signals; the user's own modes send
them.  `Raw`, `Restore` and `Accept` are the three functions that change it, and
every action that logs something does what `uculog_start` and `uculog_end` do
(`Logged`).  `at` names the points at which something can intervene: the reads of
keys and prompts, the two calls of `fsysdep_cu_copy`, shells, transfers, and the
steps of `ucuabort`.  Between them the program cannot be told apart from an atomic
step.  The child is `copy`, the mode of `CopyControl`: `CuCopy` has the details of
what happens during a stop or start.

Every failure a command can meet is `CommandFails`, `TerminalFails` (the terminal
does not take its mode back) or, in the cleanup, `FinishFails`.  Signals from
elsewhere (`SIGHUP`, `SIGTERM`) end the session as `LeaveKeys` or `CommandFails`
do.  Local echo and the mapping of carriage returns are left out: they are part of
a mode that no other part looks at.

### PortLock

An action is one system call, or one with the calls before it that no other
process can see.  Files are inodes, because that is where the protocol is subtle:
the temporary file and the lock are the same inode after `link`, and a descriptor
keeps an inode whose name has gone to another.  A process may die before any
action, and leaves its files.  The calls that may fail and end the attempt are
`CallFails`.

The constants are what the comments of `lock.c` worry about.  `TimelyWrite`: a
process that has read a stale pid acts within the five seconds the other sleeps
(lock.c:392-412); in the model the sleeper waits for those who have read
(`Undecided`).  `Signals`: the sleep can be ended early.  `ReadOnly`: processes that
cannot write a stale lock and remove it by name.  `RetriedLinks`: links over NFS
that are made and reported as failed.  `PidsReused`, `IOErrors` and `Crashes` are
named for what they allow.

Left out: the QNX and V2 formats, lock files with contents that are no number
(the code treats them by what `strtol` makes of them), and a lock whose pid has
been given to an unrelated program, which is alive for `kill`.

### CuSend

The variables of `~s` that matter to a transfer are the record `cuvar`, and each run
says which of their values it tries.  A chunk (`SendChunk`), a look at the signal
flag, a read of the port and the comparison of one character are the steps of the
program; the receive buffer is its sequence, as `RecBuf` shows it to be.  The
other side is external: a terminal in its usual line mode that echoes what it
gets, collects a line, hands it over at a line end and drops it at the kill
character.  `wire` and `echo` are the two directions.  A character may be lost on
either, up to `MaxLost` and `MaxUnheard`; kill and end of file characters are taken
to arrive.  Or the line dies, and nothing arrives from then on (`LineDies`).  `TimelyEcho` says that a timeout only happens when nothing is under way,
which is what a timeout of thirty seconds is for; without it the program may time
out at any point.  `NewlineEcho` and `KillEcho` are what the terminal shows for a
line end and for the kill.  `Flat` puts together what each character of a chunk becomes,
and `Where` picks those that are looked for.

For `~%put` the command `cat > TO` goes through the same function as the file, so it
is the first line of the file in the model.  Of the signals only `SIGINT` is there:
the others make the port functions fail (`PortFails`).  The file is open when the
model begins.

What the echo check cannot do, found with the model and not stated as a property:
a character inserted into the echo is skipped; and if the terminal echoes the kill
character with a carriage return, that one can be taken for the echo of an empty
line whose newline was lost.

### CuTake

The remote side writes one sequence, from the echo of the command to the prompt
after it, and `incoming` is what is still to come of it; its terminal puts a carriage
return before a newline when it shows it, and `returned` says that it has.  A timeout
may come before any character.  `zlook` is what is kept
back because it may be the end of the file, `heard` is a history of what was
received.  The marker `////cuend////` is one character, for it cannot overlap with
itself but in the newlines around it.  A file that has the marker on a line of its
own, or as an unfinished last line, is cut off there by design and is not among
the files.

### RecBuf

`abPrecbuf` with its two indices; `Room` is the computation that `fsend_data` and
`freceive_data` share, and `Read(n)` what `fconn_io` or `fconn_read` does to the
ring.

### ConnTable

A table of port commands is initialized by position, so the model has the order of
the members and of the initializers; `Calls(op)` is what a routine of `conn.c` finds
at the place of its member.  The other modules model the routines that the tables
are meant to name; this one says which they name.

### ConnIO

A call is a path through the states of `ioCall`; a system call that blocks is a
state of its own (`reading`, `writing`, `settingMin`, `select`, `byte`), which a
signal ends, and in any other state a signal is only noted.  Characters are
counted.  `handler` is what `SIGALRM` does and `timer` whether an alarm is scheduled:
the handler schedules the next one.  `flags` are the modes of the descriptors, `iflags`
and `iwr_flags` what `fsblock` holds them to be; standard input and output may be one
open file (`sameFile`) or two, and were inherited in any mode.  `ConnOpen` does what
`fsserial_open` and `fsstdin_open` do to the modes: the first descriptor is made to
block, while the flags of the second are only read, so that a separate output keeps the
mode it came in until `fsblock` changes both.  `asOpened` is a history: no mode was
changed since then.  `vmin` and `cSmin` are MIN and what it is held to be.  `expired` is
a history: time has run out in this read, or it was given none (`ReadNoTime`).  A call of
`fcntl` never fails, and the terminal is a POSIX one.

### SerialPort and PortSelect

`SerialPort` is a line from its lock to its unlocking: the lock file, the
descriptor, the terminal settings of the kernel (`kernel`) and those that are kept
(`sorig`, `snew`), for the formats of locking that open the line first and those that
do not (`OpensAtLock`).  `PortSelect` adds what is asked for, by options or by the
alternates of a system, the port files in order, the search with its callback
that locks (`Consider`), and each way out of `main`.  When the line is closed its output
drains, or the alarm ends the wait for that, or another signal does (`Drains`).  That a line is locked by another
program is found when its lock is asked for, and `busy` remembers it.  The session
itself is `CuSession`'s.  `FoundButNoMemory` is a step of its own, since it is a fault.

### Spawn

Two tables of descriptors, `fds` and `childFds`, each with what a descriptor refers to
and whether it is closed on exec; a new descriptor has the lowest free number.
Descriptors 0, 1 and 2 are open, as `usysdep_initialize` sees to.  The second fork of
`fsysdep_run`, which leaves a grandchild to run the program, is left out.  A pipe is how much is
in it.  `Asks` has for every caller the descriptors that it passes: one may be asked
for twice, and the port may be asked for as an input and as an output.

### LogFile

`ulog` calls itself, so that the state of the calls under way is a stack (`calls`).  Its
steps are between the callbacks, the report of the signals, the opening of each
of the two files, and the write.  A signal may come at any point.  `unreported` is a
history of those that are due and came after the last message about them (a hangup is
not due if its flag is seen while `fconn_close` keeps hangups out of the log), and `early`
of those of them that had come when a call of `ulog` began: by the time it writes its
message they are in the log (`ReportedFirst`).

### SysInfo

A sys file is a sequence of lines; the value that a line gives is its own number, so
that every value of the result names the line it came from.  The operators follow
the code: `rdlocs.c` scans for the place of every system and alias, `tsinfo.c` reads the
defaults and the system as lists of alternates, `syssub.c` merges them.  The property
says what a system has in other terms, by looking for the line that should have
set a field (`NearestSays`).  Words of a line, and the fields that behave as one of
those in the model, are left out.

### TimeSpan

A day is a few units rather than 1440 minutes.  A step is one span of the list that
`itadd_span` puts its own before, passes over, or cuts: `adding` is what is left of the
span that is added, `spanAt` where in the list it is, and `toAdd` has the days of the
string that are still to be added.  `best` is the reference, a function of time that
knows no list.

### Work and Uuxqt

`cu` calls none of this: the callers are those that `system.h` describes.  In `Work` a
command file is a list of lines, some of which send a temporary file and some
of which are no commands; the scan returns commands in the order of the grades,
and the caller reports any of those it has.  `Bsearch` finds what an array in order has,
and may miss anything in one that is not.  A report may find that the file cannot be
removed, and says so to the caller.  In `Uuxqt` several processes take a slot, a
command and execute files, each under its lock, and may die.

## The runs

| run | bounds | shows |
|---|---|---|
| `cu_copy` | buffer of 2, 3 bytes, up to 3 unread answers | a command owns the port, `[connected]` means copying, nothing is written that was not read, refinement of `CopyControl`; the inductive invariant of the proofs |
| `cu_copy_live` | buffer of 2, 2 bytes, up to 2 unread answers, `~%take` may time out, with fairness | every stop, start and shutdown returns |
| `cu_session` | all states | keys reach the remote side, transfers can be interrupted, old interrupts are forgotten, the child is told to end, its contract is kept; the inductive invariant of the proofs |
| `cu_session_terminal` | all states; no prompt is interrupted | the terminal is given back, shells find the user's mode |
| `cu_session_prompt` | prompts may be interrupted or closed | violated: the terminal stays raw |
| `port_lock` | 3 processes, one call each, deaths, doubtful links | mutual exclusion, the holder's pid is in the lock, failed calls leave no lock; the inductive invariant of the proofs |
| `port_lock_returns` | 2 processes, 2 calls each, everything allowed | every call returns |
| `cu_send` | all 32 settings, 4 files, 2 characters and an echo lost or a line that dies, interrupts, with fairness | files arrive unchanged and echoes are found on a line that loses nothing; with echo checking no line is missing on one that does; every transfer ends |
| `cu_send_checked` | echo checking, 3 files, 3 characters lost, interrupts | refinement of `LineTransfer` |
| `ports` | ring of 5 and two characters; for `~take` 5 files, 5 ends of file, errors, timeouts, interrupts; reads and writes of 3, MIN up to 2; 3 configurations of ports, 14 commands; pipes of 1 | the buffer is a queue; `~take` loses nothing, misses no end and has the file; flags, MIN and alarms are as remembered, and reads return; the port is the first that fits and is free, has the settings asked for, and is given back once; programs get their descriptors and callers return |
| `files` | sys files of up to 6 lines with alternates, defaults and aliases; 3 time strings in a week of 3 units; 2 calls of the log and 2 signals; 2 command files and one session; 2 `uuxqt`, 2 execute files, one death | a system has what its lines say; lists of spans are ordered and give the best value; signals are reported and messages logged; no command is lost or returned twice; two `uuxqt` have nothing in common |
| `conn_table` | the three port types | violated: the tables of `serial.c` are one entry too long |

`ports` and `files` check components that are small enough to need no run of their own.
The invariants of `CuCopyProof`, `CuSessionProof` and `PortLockProof` are properties of
these runs, which check the modules of the proofs, so that TLC evaluates their
assumptions.  The other inductive invariants were checked with TLC on the constants of
`ports` and `files` before they were proved, and are properties of no run, since the
theorems say more.

Further configurations show what happens when an assumption of these runs is
dropped, and have the counterexamples of the findings below:

| configuration | of | what differs | result |
|---|---|---|---|
| `CuCopyTimeout.cfg` | `CuCopy` | `~%take` may time out | `ConnectedMeansCopying` is violated: the child stays stopped after `[connected]` |
| `CuCopyOrder.cfg` | `CuCopy` | the property: bytes are shown once and in the order they came | `ShownInOrder` is violated: after a short write that is followed by an interrupted one bytes are repeated and dropped |
| `CuSessionStops.cfg` | `CuSession` | `~%take` may time out, and there are debugging messages | both violated: `SIGTSTP` stays ignored after the one, a transfer cannot be interrupted after the other |
| `PortLockStale.cfg` | `PortLock` | 3 processes, nobody dies in a call, one cannot write the lock | `StaleLockBroken` holds: a stale lock is taken over |
| `PortLockSignal.cfg` | `PortLock` | signals end the sleep | violated: two holders |
| `PortLockReuse.cfg` | `PortLock` | pids are used again | violated: a lock is seen without a pid |
| `CuSendEchonl.cfg` | `MCCuSend` | `echonl` is a prompt | violated: the prompt is never looked for |
| `CuSendResend.cfg` | `MCCuSend` | 2 tries | violated: one resend less than `resend` |
| `CuTakeByte.cfg` | `MCPorts` | a big-endian machine | violated: characters are lost |
| `PortSelectMemory.cfg` | `MCPorts` | no memory for the name of the port | violated: the connection is given back twice |
| `PortsDocs.cfg` | `MCPorts` | what the manual says of the natural speed, that ports in use are remembered, `eofread` has a carriage return, what comments say of blocking writes, and that settings are always restored | all violated: each alone, with the others taken out; with the carriage return the end is missed, a separate output that came non-blocking stays so, and a signal while the output drains leaves the line raw |
| `SysInfoUnset.cfg` | `MCFiles` | the byte that is read unset is not zero | violated: an alternate has no defaults |
| `FilesDocs.cfg` | `MCFiles` | what the manual says of `port` and of `default-alternates`, and files with a line that is no command | all violated: each alone, with the others taken out; a work file whose commands are done stays |
| `TimeSpanMidnight.cfg` | `TimeSpan` | a span may end at midnight | violated: the span is that of no time |
| `WorkMidScan.cfg` | `MCFiles` | a scan is begun before the last has ended | violated: a command is returned twice |
| `UuxqtOrphans.cfg` | `Uuxqt` | the program of a dead `uuxqt` goes on | violated: its directory is used by another |

Bounds.  In `CuCopy`, `MaxBytes` bounds what the port ever delivers: three bytes
with a buffer of two let a read be full, partial and empty, and a write be short.
`MaxUnread` bounds the alarms that fire before the parent reads an answer: with
three unread answers the first is the one waited for, the second is stale for
the next call, and a third can be stale together with a signal under way.
`CuSession` needs no bounds; two user modes tell a changed one from another.  In
`PortLock` three processes are the one that left a stale lock and two that break
it, or one that holds it and two that race for it; the inodes are as many as the
processes have temporary files, and one for the lock (`PortLockStale.cfg` has
one less, which only delays a creation); `MaxCalls` bounds the calls.  In `CuSend` the
files have lines shorter than, equal to and longer than a chunk, repeated
characters, characters that are not sent, empty lines and an unfinished last line;
three losses allow a line to fail as often as it is tried.  `RecBuf` with five
slots wraps with any number of characters in it.  In `ConnIO` a read of three with MIN
at most two needs MIN set twice, and two writes of nothing (`ZeroLimit`) end a write.
Two lines and three ports let a port that fits be in use, be the second on its line,
or be in another file.  Two alternates of the defaults and two of the system
let each list be the longer; three strings in three units overlap in every way
that an insertion tells apart.  Two signals and two calls let a report be
interrupted by the next signal.  Two `uuxqt` with two slots and one death let a slot be
taken from a dead one while another runs.  The proofs are for any values of the
bounds.  Deadlock is not checked where sessions, calls or transfers end.

Fairness.  `CuCopy`: each process runs when it can, pending signals are delivered,
the alarm fires and the parent reads what is in the pipe.  The two strong
conditions say that the alarm does not for ever come in the two instructions in
which the child loses a signal; without them TLC shows a behaviour in which it
does.  Nothing is assumed of the user, of the remote side or of the terminal: a
write to the terminal may block for ever, and the signal interrupts it.
`PortLock`: a process inside `fsdo_lock` goes on (no call in it waits for another
process but the sleep, which ends); nothing is assumed about new calls, deaths and
unlocks.  `CallsReturn` is checked without `RetriedLinks`: a link that is for ever
made, reported as failed and removed by another goes round for ever.  `CuSend`: the
program goes on, since every wait in it has a timeout, and what is on the line
arrives or is lost before the timeout (`TimelyEcho`); nothing is assumed of a user who
might interrupt, of a port that might fail, or of a line that may be dead.  `ConnIO`: a scheduled alarm rings, the program goes on
outside of system calls, and what the terminal holds is sent in the end, so that
its MIN can be set, though signals interrupt that again and again (the strong
condition); nothing is said of what comes, so that a read may wait until its alarm.
`Spawn`: caller and child go on unless they wait for a pipe or for the other, and the
child's program ends once it has read or written its pipe.  That `fdopen` fails
is not part of what must happen.

## What is proved

| module | theorems | for every |
|---|---|---|
| `CuCopyProof` | `TypeCorrect`, `Invariance`, `WritesOnlyWhatWasRead`, `CommandHasPort`; `ConnectedCopies` and `Refinement` without the early return of `~%take` | buffer size, number of bytes and of unread answers |
| `CuSessionProof` | `TypeCorrect`, `Invariance`, `GivesTerminalBack`, `ShellHasTerminal`, `KeysGoToRemote`, `TransferInterruptible`, `NoSignalLeftOver`, `ChildEnds`, `Refinement` | set of user modes |
| `PortLockProof` | `TypeCorrect`; `Invariance`, `Exclusion`, `HolderHasFile`, `FailureLeavesNoLock` for careful processes | number of processes, calls and inodes |
| `CuSendProof` | `TypeCorrect`; `EchoesAreFound` if line ends are echoed (`NewlineEchoed`); `FileArrivesUnchanged` if besides echoes are in time and files are lines (`FilesAreLines`); `LinesArriveChecked` whatever is lost, if the files are of lines (`CheckedFiles`) and the terminal shows nothing of its own for a line end or a kill (`EchoesApart`); `LinesTransferred` if besides no echo is lost and all is checked (`AllChecked`) | set of files and settings, size of a chunk, echo, number of tries and losses |
| `ReceiveProof`, `RecBuf` | `TypeCorrect`, `HasRoom`, `Refinement` | size of the ring, set of characters |
| `ReceiveProof`, `ConnIO` | `IOInvariance`, `IOConsistent` | size of a buffer, largest MIN, number of writes of nothing |
| `ReceiveProof`, `CuTake` | `TakeInvariant`, `TakeTypeCorrect`, `FileIsTaken` if the end can be told from the file (`TakeProper`) | set of files, of what was left in the buffer, and of ends |
| `PortsProof`, `PortSelect` | `SelectInvariant`, `PortTypeCorrect`, `LockCovers`, `SettingsAreKept`, `PortIsAsAsked` | ports, files of ports, lines, speeds, commands, alternates |
| `PortsProof`, `Spawn` | `SpawnInvariant`, `SpawnTypeCorrect`, `SpawnIsSafe` | room in a pipe, output |
| `PortsProof`, `MCPorts` | `PortsTypesCorrect` if `TakeProper`, which `MCPorts.cfg` satisfies | all of these |
| `SpoolProof`, `Work` | `WorkInvariant`, `WorkTypeCorrect`, `ScanReturnsOnce`, `NoCommandIsLost` if a scan is not begun within a scan | command files, lines, grades, sessions |
| `SpoolProof`, `Uuxqt` | `XqtInvariant`, `XqtTypeCorrect`, `FilesExecutedByOne`, `LocksReturned`; `UuxqtsAreApart` if a dead `uuxqt`'s program ends with it | number of processes, slots, files and deaths |
| `FilesProof`, `LogFile` | `LogInvariant`, `LogTypeCorrect`, `OrderInvariant`, `LogIsComplete` | messages, calls, signals |
| `FilesProof`, `TimeSpan` | `SpanInvariant`, `SpansMeanTimes` if no span ends at midnight | length of day and week, values, retry times, strings |
| `FilesProof`, `SysInfo` | `SysInvariant`, `SysTypeCorrect`, `SystemIsAsSaid` if the byte at `_uuconf_unset` is zero | sys files and their lines, names, calls |
| `FilesProof`, `MCFiles` | `FilesTypesCorrect` under the conditions of the components, which `MCFiles.cfg` satisfies | all of these, and of the spool |

Each module assumes what its `ASSUME`s say of the constants; what a theorem needs
besides is its own `ASSUME`.

`CuCopy`.  That the parent may trust an answer cannot be seen in one state: an
answer in the pipe is good only if no signal of the opposite kind is pending,
recorded or being acted on.  `IInv` therefore says two things.  Between calls
everything is of one kind: the child is in the state last asked for, nothing
opposite is on its way, and all answers left in the pipe are of that kind
(`Idle`).  During a call, once the pipe holds an answer of its kind, the child
has settled and only such answers follow (`Round`); and a signal of the call's
kind that has reached the child is not overtaken by an opposite one
(`NotOvertaken`), because a delivery empties the whole set.  The steps of the
child keep `Idle` and `Round` (`IdleStep`, `RoundStep`), a call begun in `Idle`
establishes `Round` (`BeginRound`), and the answer waited for ends in `Idle`
(`RoundEnds`).

`CuSession`.  The user's mode is at each point in one of two places: in the
terminal, when a prompt or a command gave it back, or in `sSterm_orig`, when
`fCurestore_terminal` says so (`UserModeKept`).  Which of them follows from where the
program is, from `FlagsInv` and from `RawInv`.  `TstpInv` and `SignalInv` say the
same of `SIGTSTP` and of recorded interrupts.  Each part is kept by every step, one
lemma per part.  The conditions of the theorems are those under which the three
findings below cannot happen, and nothing more.

`PortLock`.  A file is a process's own (`Mine`) if it holds its pid and everybody
who is about to act on what it read there has read that pid.  Nobody writes such a
file while its process lives, since its pid is found alive.  The temporary file is
its process's from the time the pid is in it, so the lock is when it is made by
`link`; a broken lock is when the five seconds have passed and the pid is still in
it.  Two holders would both own the one lock file.  `Careful` is what the comments of
`lock.c` ask for: writes in time, an undisturbed sleep, pids not used again, a lock
file that can be written, and no error in reading it again.

`RecBuf`.  The contents are the characters between the indices, around the end of
the ring; `RoomBound` says that what may be read in fits before the start with a
slot to spare, and `ReadAppends`, `TakeRemoves` and `WaitGives` that the three kinds of
steps append to and take from the contents.

`ConnIO`.  That a call finds alarm, mode and MIN as it needs them is a matter of how
every earlier call ended, so `IOInv` says what holds in each state of a call.
`AlarmInv`: an alarm is scheduled only within a read, the write of a byte, or on the
way out of a read, where `SIGALRM` is ignored already; and in a read `fSalarm` means
that the time of this read is over.  `ModesRemembered`: what is remembered of the flags is so for each descriptor there is.
`ModeInv`: while the port is as it was opened the first descriptor blocks, afterwards both
are in one mode (`FsblockSets`), and the call at hand has the mode it asked for.  `MinInv`: MIN is what
it is held to be, and is what is needed from the comparison to the read.
`CountInv`: a call has something left to do.  Each step is shown to keep all of it.

`CuSend`.  While nothing is lost, what the program will read is what it has read, what
is on its way back and what is on its way there (`Coming`).  `EchoInv`: what it still
looks for is within that, in its order (`Within`); each step that moves a character, or
puts its echo in its place, keeps this, since the echo of a character that is looked for
has that character in it (`EchoHas`).  So no echo is missed, and no line is killed
(`NoTimeout`).  `SentInv`: there is a sequence `sent` that with what is left of the buffer
is the buffers read so far, and a `stuff` that follows the text at the other side; the text and `stuff`
are what is sent of `sent` (`Keep`), and what is on the wire is `stuff` as it goes over the
line (`OnWay`).  A step takes from the buffer and adds to both, or takes from `stuff` and adds to
the text.  In the end all is text, and a text of lines has only one way to be
lines (`LinesUnique`).  The assumptions: `NewlineEchoed`, that where `echonl` is set the echo of a
line end has the character that is looked for; `TimelyEcho`; and `FilesAreLines`, that
every line but the last ends in a newline, and that of a last one that does not something
is sent.  The constants of `cu_send` satisfy them.

When characters are lost, with all checked, `LineInv` says how far the line is.  Of the
line at hand `t` was sent and `z` is left to look for; what the other side has of it and
what is on the way there are, in this order, within `t`, and with the echoes on their way
back they are no fewer than what is not looked for any more (`Follows`).  So when the last
echo was heard all of the line is there, whatever was lost before the line was killed and
sent again; a kill that has not arrived, or a line that is dead, makes what the other side
has worth nothing (`Sent`).  The carriage return is sent only then.  It is on its way,
lost, or has arrived (`EndOnWay`, `EndLost`, `EndArrived`), its newline was heard
(`Between`), or all was sent (`AllNow`); in each of these `Has` or `Behind` says which
lines the other side has.  There are two ways to hear an echo that was not meant: one of a
carriage return that the echo of a kill has brought (`Stale`), which would let a line that
has nothing but its newline be skipped, and a character that the terminal shows of its
own for a line end or a kill.  `EchoesApart` excludes both; the echoes of the runs are so,
in `CuSendChecked.cfg` with a stale carriage return and lines that show something.
`CheckedFiles` says that a newline ends each line, but the last, which then shows something:
nothing would be looked for of a last line that does not.  While no
echo is lost (`Once`) a line that has arrived is not sent again, so each step of the
program is one of `LineTransfer` or leaves it as it is (`LinesGo`, `LinesBegun`).
`AllChecked` are the settings for which `LineTransfer` is promised: those of
`CuSendChecked.cfg`.

`CuTake`.  What was heard of the file is, but for carriage returns, a beginning of what
the shell writes (`HeardInv`), and what was heard is what is in the file and what is
kept back (`NothingLost`).  `KeptInv`: once something has been written, one character
less is kept back than the end has.  So when an end is complete in what was heard it
is what is kept back and the character just read, and it cannot have been missed
(`EndNotMissed`); and since the marker is in what the shell writes only once, it is
found where the file ends.  `TakeProper` says when the end can be told: no `eofread`
has a carriage return, no file, with or without its returns, has the marker in it,
and the machine is little-endian or no `eofread` is empty.  The constants of `ports` satisfy it, and
`CuTakeByte.cfg` and `PortsDocs.cfg` show what happens when it does not hold.
`WithoutReturns` is a recursive function; what it does to a sequence with one more
character is its definition, and what it does to any is shown by a least
counterexample, taken from a set of numbers (`SetInduction`), since an induction theorem
cannot be used.

`PortSelect`.  What holds is a matter of `portAt`, and has five parts.  `SelectTypes`;
`SearchInv`: a port that fits and was passed was in use, and the message given in the
end says why none was found; `HeldInv`: from its lock to its
unlocking the port's line has the one lock file and, once open, the one descriptor, and
at no other place is there any; `SettingsInv`: a line that is not open has its natural settings, and `sorig`
has those of the one that is; `AskedInv`: what was set is what was asked for.  The
first two give the third its premises.  That the natural settings come back holds for
every way out but that of an open that failed, which says so (`notOpened`), and that of a
close whose wait for the output was ended by a signal other than the alarm
(`drain = "interrupted"`).

`Spawn`.  `OpenedInOrder` says which descriptors the caller has made when it asks for
its input, its output and its errors: each new one has the lowest number, so that they
are at most 5, 6 and 7, and none is one of the caller's own.  `CallerInv` has what each
place of the caller still has to close, `ChildInv` how the child's table comes from the
caller's: up to `fork` a copy, then each of the three moved to its place and not
overwritten, because the ones that are moved later are above it (`DupInv`), then what is
not closed on exec.

`Uuxqt`.  A process has a lock if and only if its place asks for it (`XqtLocksHeld`),
both ways: that it has it gives exclusion, that it has no other gives `LocksReturned`.
`XqtFilesSafe` says that a file that was executed is gone from the spool, that one whose
lock is held and that was read again is there, and that a directory is empty when it is
taken and has the files of one command while that runs.  The theorem on
directories needs `Orphans = FALSE`; without it `UuxqtOrphans.cfg` has the counterexample.

`LogFile`.  The calls under way are a stack in which only the last one runs, and all
others wait in one of four ways (`StackOK`).  One report of signals at a time is under
way (`Once`), a file is open or has failed as the places of the calls say (`FilesInv`), a
log that cannot be opened ends the program, and nothing else drops a message (`FailInv`),
and a signal that was not reported has its flag set, or is in the hands of a call about
to log it (`ReportInv`).  The order in the log rests on a second invariant over that one
(`OrderInvariant`): a signal that came before a message still waits for the one call that
reports signals, whose loop has not come to it, or is in the hands of the call just above
that one (`ReportsOK`, `EarlyInv`), so that when no call reports signals none is left.

`TimeSpan`.  `itadd_span` has a loop, and `AddInv` is its invariant: every span before
the place ends before the span that is added begins.  `BestInv` says that the list,
what is left of `adding`, and the days still in `toAdd` together give the best value of
each time; a step replaces spans by others that show the same.  With a span that ends at
0 the order is lost (`TimeSpanMidnight.cfg`), so the theorems have `FirstEnd = 1`.

`SysInfo`.  The lines read so far determine what is in memory of them.  `LocInv`: the
list of places has every line that names a system once, the last first, so that the
search finds the line that `StartOf` names.  `BlockInv`: while a block is read the
current section has what its own lines said (`RawIs`) and those that have ended have
what they or the first one said (`ClosedIs`); a line changes one section and the set of
lines of one field (`SameSection`), and an `alternate` closes one and begins another.
When both blocks have ended, defaults and system are merged alternate by alternate
(`MergedIs`), and `FirstCalled` and the built-in values leave `GivenInv`.
The hypothesis is `UnsetIsZero`, that the byte `syssub.c:220` reads is zero;
`SysInfoUnset.cfg` shows that it is needed.

`Work`.  What is in memory of a command file is what is in the spool (`MemoryInv`), and
every line that was read is no command, waits to be reported, or was done, unless all
were read and reported and only a removal failed (`ReadInv`).  A search adds only new names
because what it looks them up in is in order (`NewFilesAreNew`).
`ReturnedInv` and `DidInv` say that what was returned or done is behind the place of the
scan in its file, so that it is not read again; `StaysInv`, that a file whose lines are
all read and reported is gone, has one that is no command, or could not be removed.  The
theorems have `MidScan = FALSE`, as `WorkMidScan.cfg` shows they must.

`MCPorts` and `MCFiles`.  Their components have no variable in common, and a step is one of
one component that leaves the others (`PortsStepIsOne`, `FilesStepIsOne`).  So a behaviour
of such a run is one of each component (`PortsShowEach`, `FilesShowEach`), and what is
proved of the components holds of it: `PortsTypeOK` and `FilesTypeOK` join their types.

Only model-checked: liveness, which the prover does not do (`CopyCallsReturn`,
`FinishReturns`, `CallsReturn`, `SendReturns`, `ReadReturns`, `SpawnReturns`, and
`StaleLockBroken` in `PortLockStale.cfg`).

## Findings

Two are runs: the third below is `cu_session_prompt`, and the tables of commands are
`conn_table`.  The counterexamples of the others come from the further
configurations, or the code was read so while modelling it, where no configuration is
named.

* `icutake` returns to the session with the child stopped when the echo of its
  command does not come in time (`cu.c:1747-1753`), and with `SIGTSTP` ignored and
  the keyboard's signals on.
* `uscu_child` starts the buffer again after a short write that is followed by an
  interrupted one (`cusub.c:672`, `684`).
* A message logged at a prompt enters raw mode, which is then taken for the user's
  (`cusub.c:905`, `928`): after an interrupted prompt `cu` leaves the terminal raw.
* The tables of port commands in `serial.c:259-296` still have the entry for dialing
  that `struct sconncmds` (`conn.h`) has lost, so that every function after it is one
  place too far, and the one that reads is missing (`RunsWhatIsAsked`).
* A debugging message during a transfer turns the keyboard's signals off
  (`cu.c:872`).
* `fsdo_lock` ignores that its sleep was cut short by a signal (`lock.c:454`), and
  two processes can take the same stale lock.
* `fsdo_lock` empties a file left under its temporary name, which may be the lock
  file (`lock.c:151`).
* `fcusend_buf` looks for the carriage return it sent instead of `echonl`
  (`cu.c:2041`) and resends a line one time less than `resend` (`cu.c:2021`).
* `icutake` drops carriage returns before it looks for `eofread` (`cu.c:1788`), and
  writes the first byte of an int (`cu.c:1793`).
* When the search for a port fails after one was locked, the connection is freed
  while `qCuconn` still points to it (`cu.c:562`; `PortSelectMemory.cfg`).
* A port without a speed has the speed -1 (`tportc.c:179`), which no line supports
  (`serial.c:1264`), where the manual promises the line's own (`uucp.texi:5127`); and what
  was in use for one alternate is forgotten at the next (`cu.c:627`;
  `PortsDocs.cfg`).
* A system's `port` does not override a port that the defaults describe, and an
  alternate that only the defaults have is not called (`FilesDocs.cfg`).
* `syssub.c:220` tests a byte that nothing has set (`SysInfoUnset.cfg`).
* Standard output that is a file of its own and was inherited non-blocking stays so until
  `fsysdep_conn_io` first changes the mode: `serial.c:1056` makes only the first descriptor
  block, `serial.c:1244` reads the flags of the second, and `serial.c:1302` then returns
  early.  A write that finds it full ten times gives the line up (`PortsDocs.cfg`,
  `OutputBlocks`).
* A signal that is not the alarm ends the wait for the output to drain
  (`serial.c:1363`), and since `fSalarm` is not set nothing restores the settings of the
  line (`PortsDocs.cfg`, `SettingsAlwaysRestored`).
* A time span that ends at midnight is stored with the end 0 (`TimeSpanMidnight.cfg`).
* A command file that has a line which is no command stays when all its commands are
  done (`FilesDocs.cfg`), and a work scan begun before the last has ended returns
  commands again (`WorkMidScan.cfg`); `system.h` does not say that it may be.
* The program that a dead `uuxqt` leaves running has its directory taken by the
  next (`UuxqtOrphans.cfg`).
* A sys file that could not be read is taken as read, with no systems in it, at the
  next call (`rdlocs.c:168`); a port whose first command is not `type` gets a type that
  nothing has set (`tportc.c:144`).

## What is left

Done: the handshake, the session, lock files, both kinds of transfer, the receive
buffer, the connection layer, ports and their calls, the choice of a port, other
programs, the log, the configuration of systems and times, and the spool's commands
and execute files.

Still to be modelled: the status and sequence files of the spool, whose calls are a
read or a write of one small file each; the free lists of `lib/buffer.c`; the sums of
`ustats`.

### Not modelled

* Reading the options of `main` and the values of the `~s` variables: text, without
  state that anything else waits for.
* Splitting configuration lines into words, the fields that behave as one that is
  in `SysInfo`, and called logins.
* Sending a break and the wait of an open for a carrier: single calls to the terminal.
  The terminal drivers of BSD and System V are the same control over other calls.
* The process behind a pipe port: nothing in this code starts it.
* Copying files, names of files and access checks: system calls and strings without
  state between them.  The copying of `copy.c` is a loop.
* `getopt`, string functions and the other pure functions of `lib/`.
* Locks in the formats of V2 and QNX, and lock files with contents that are no number.
