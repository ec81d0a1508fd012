---------------------------- MODULE LogFile ----------------------------
(***************************************************************************)
(* The data log (logfile.c) as the main loop drives it: opened once at     *)
(* start, closed and reopened under another name when SIGHUP, a jump of    *)
(* the clock or the dashboard asks for it, and appended to once per pass.  *)
(* The signal handlers run between any two steps of the loop; the process  *)
(* may die at any of them and is started again.                            *)
(*                                                                         *)
(* disk holds what has reached the file, buf what stdio still holds.  A    *)
(* write may fail or get only partly through (the disk is full): stdio     *)
(* drops the rest, and main() reports it and goes on.                      *)
(* hup_pending, opened, headless and cause are history variables.          *)
(***************************************************************************)
EXTENDS Naturals, Sequences, SequencesExt

CONSTANTS
    Options,       \* option sets given: records [output, date] of booleans
    OpenMayFail,   \* fopen() may return NULL
    WriteMayFail,  \* a write to the file may fail
    WildReturn,    \* log_insert_str() may hand back a wild pointer
    MaxNow,        \* bound: seconds on the clock
    MaxRestarts,   \* bound: requests to reopen, per process
    MaxRows,       \* bound: entries per file before rows stop
    MaxBoots       \* bound: processes

ASSUME OptionsAssumption == Options \subseteq [output : BOOLEAN, date : BOOLEAN]
ASSUME FailureAssumption ==
    OpenMayFail \in BOOLEAN /\ WriteMayFail \in BOOLEAN /\ WildReturn \in BOOLEAN
ASSUME BoundAssumption ==
    /\ MaxNow \in Nat /\ MaxRestarts \in Nat
    /\ MaxRows \in Nat /\ MaxBoots \in Nat

Entry  == {"H", "R", "cut"}                 \* the CSV header, a row, a part of either
Name   == {"base", "restart", "date"} \X Nat
LoopPc == {"boot", "head", "detect", "check", "clear", "restart", "open",
           "command", "row"}
Down   == {"exited", "crashed", "fault"}
Pc     == LoopPc \cup Down

VARIABLES
    pc,             \* next step of main()
    ret,            \* where log_restart() returns to
    args,           \* args_info: --output-file, --output-file-date
    restart_log,    \* sig_atomic_t set by hupHandler
    time_to_quit,   \* sig_atomic_t set by signalHandler
    fd_log,         \* the FILE pointer: "uninit", "open", "closed", "null"
    log_file,       \* name of the current log
    log_restarts,   \* static counter of log_restart()
    disk,           \* file name -> its entries, for the files that exist
    buf,            \* entries still in the stdio buffer
    now,            \* the second that localtime() would print
    boots,          \* processes started so far
    hup_pending,    \* a SIGHUP has arrived since the log was last reopened
    opened,         \* names this process has opened
    headless,       \* names of files that a write failed to while they were empty
    cause           \* why the process faulted

handle  == <<fd_log, log_file, disk, buf, opened, headless>>
process == <<args, log_restarts, boots>>
flags   == <<restart_log, time_to_quit, hup_pending>>
vars    == <<pc, ret, handle, process, flags, now, cause>>

Base == <<"base", 0>>
File(name) == IF name \in DOMAIN disk THEN disk[name] ELSE <<>>
WithFile(name, entries) ==
    [n \in DOMAIN disk \cup {name} |-> IF n = name THEN entries ELSE disk[n]]

Init ==
    /\ pc = "boot" /\ ret = "head"
    /\ args \in Options
    /\ restart_log = FALSE /\ time_to_quit = FALSE
    /\ fd_log = "uninit" /\ log_file = Base /\ log_restarts = 0
    /\ disk = [n \in {} |-> <<>>] /\ buf = <<>>
    /\ now = 0 /\ boots = 1
    /\ hup_pending = FALSE /\ opened = {} /\ headless = {} /\ cause = "none"
----------------------------------------------------------------------------
(* logfile.c                                                               *)

Fault(why) ==
    /\ pc' = "fault" /\ cause' = why
    /\ UNCHANGED <<ret, handle, process, flags, now>>

\* Mutant: the log is opened for writing, not for appending.
OpenTruncates(name) == WithFile(name, <<>>)
\* Mutant: a file named like the original gets no header, taken to have one.
HeaderUnlessBase(name) == IF name = Base THEN <<>> ELSE <<"H">>

OpenAppends(name) == WithFile(name, File(name))
Header(name) == <<"H">>

\* fopen(name, "a") and the header, which stays in the buffer.
OpenFile(name) ==
    /\ fd_log' = "open" /\ log_file' = name
    /\ disk' = OpenAppends(name)
    /\ buf' = Header(name)
    /\ opened' = opened \cup {name}
    /\ UNCHANGED headless

log_open(name, next) ==
    /\ OpenFile(name) /\ pc' = next
    /\ UNCHANGED <<ret, time_to_quit, now, cause, args, boots>>

\* The failure test compares the pointer with < 0, so a NULL goes to fprintf().
OpenFails ==
    /\ OpenMayFail
    /\ pc = "open" \/ (pc = "boot" /\ args.output)
    /\ Fault("fopen")

\* log_insert_time() and log_insert_str(): the original name with the second
\* or with the counter before its extension.
RestartName == IF args.date THEN <<"date", now>> ELSE <<"restart", log_restarts>>

\* Mutant: the log is closed and nothing opened in its place.
CloseOnly ==
    /\ pc = "restart"
    /\ fd_log' = "closed" /\ pc' = ret
    /\ UNCHANGED <<ret, log_file, disk, buf, opened, headless, process, flags, now, cause>>

\* What a failing write may leave of entries: the first of them, and perhaps a
\* part of the next.
Parts(entries) ==
    LET whole == {SubSeq(entries, 1, k) : k \in 0..(Len(entries) - 1)}
    IN  whole \cup {Append(w, "cut") : w \in whole}
Written(entries) == {entries} \cup (IF WriteMayFail THEN Parts(entries) ELSE {})

\* stdio hands entries to the kernel, and keeps nothing of what did not get through.
FlushTo(entries) ==
    /\ \E part \in Written(entries) :
          /\ disk' = WithFile(log_file, File(log_file) \o part)
          /\ headless' = IF part # entries /\ File(log_file) = <<>>
                         THEN headless \cup {log_file}
                         ELSE headless
    /\ buf' = <<>>

\* fclose() flushes, and its failure is not looked at.  Without --output-file the
\* pointer was never set, nor is there a name to derive the new one from.
CloseLog ==
    /\ pc = "restart"
    /\ IF fd_log = "open"
       THEN /\ FlushTo(buf) /\ fd_log' = "closed"
            /\ pc' = "open"
            /\ UNCHANGED <<ret, log_file, opened, process, flags, now, cause>>
       ELSE Fault("no log")

\* Mutant: the flag is cleared (again) once the log is open.
FlagClearedAfterOpen == restart_log' = FALSE

FlagAfterOpen == UNCHANGED restart_log
CountRestart == log_restarts' = log_restarts + 1

ReopenLog ==
    /\ pc = "open"
    /\ log_open(RestartName, ret)
    /\ CountRestart /\ FlagAfterOpen
    /\ hup_pending' = restart_log

\* log_insert_str() has no return statement: whether its caller sees the name
\* or a wild pointer is up to the build.
NameLost ==
    /\ pc = "open" /\ WildReturn /\ ~args.date
    /\ Fault("wild name")
----------------------------------------------------------------------------
(* main.cpp                                                                *)

BootName == IF args.date THEN <<"date", now>> ELSE Base

BootWithLog ==
    /\ pc = "boot" /\ args.output
    /\ log_open(BootName, "head")
    /\ UNCHANGED <<log_restarts, restart_log, hup_pending>>

BootWithoutLog ==
    /\ pc = "boot" /\ ~args.output
    /\ pc' = "head"
    /\ UNCHANGED <<ret, handle, process, flags, now, cause>>

\* while (!time_to_quit); a return from main() flushes what stdio holds.
BeginPass ==
    /\ pc = "head" /\ ~time_to_quit
    /\ pc' = "detect"
    /\ UNCHANGED <<ret, handle, process, flags, now, cause>>

Exit ==
    /\ pc = "head" /\ time_to_quit
    /\ pc' = "exited"
    /\ IF fd_log = "open" THEN FlushTo(buf) ELSE UNCHANGED <<disk, buf, headless>>
    /\ UNCHANGED <<ret, fd_log, log_file, opened, process, flags, now, cause>>

\* Bound: requests to reopen stop before the counter leaves its range.
MayRequest == log_restarts < MaxRestarts

\* Mutant: the flag takes the verdict instead of being raised by it.
TakeVerdict(jumped) == restart_log' = jumped

RaiseIfJumped(jumped) == restart_log' = (restart_log \/ jumped)

\* detect_time_change() == 1 raises the same flag as SIGHUP.
Detect ==
    /\ pc = "detect"
    /\ pc' = "check"
    /\ \E jumped \in {FALSE, MayRequest} : RaiseIfJumped(jumped)
    /\ UNCHANGED <<ret, handle, process, time_to_quit, hup_pending, now, cause>>

Check ==
    /\ pc = "check"
    /\ pc' = IF restart_log THEN "clear" ELSE "command"
    /\ UNCHANGED <<ret, handle, process, flags, now, cause>>

\* The flag is cleared before the log is reopened, not after; a HUP to a process
\* without a log asks for nothing.
Clear ==
    /\ pc = "clear"
    /\ restart_log' = FALSE
    /\ ret' = "command"
    /\ pc' = IF args.output THEN "restart" ELSE "command"
    /\ hup_pending' = (hup_pending /\ args.output)
    /\ UNCHANGED <<handle, process, time_to_quit, now, cause>>

\* The dashboard's LOGRST does not ask whether there is a log.
CommandLogRst ==
    /\ pc = "command" /\ MayRequest
    /\ pc' = "restart" /\ ret' = "row"
    /\ UNCHANGED <<handle, process, flags, now, cause>>

CommandOther ==
    /\ pc = "command"
    /\ pc' = "row"
    /\ UNCHANGED <<ret, handle, process, flags, now, cause>>

\* Mutants: the row is not flushed; it still goes to the file the process began with.
RowStaysBuffered ==
    /\ buf' = Append(buf, "R")
    /\ UNCHANGED <<disk, headless>>

RowToFirst ==
    /\ disk' = WithFile(Base, File(Base) \o buf \o <<"R">>)
    /\ buf' = <<>>
    /\ UNCHANGED headless

FlushRow == FlushTo(buf \o <<"R">>)

\* A row and fflush(); ferror() is tested, but only to print a message.
WriteRow ==
    /\ pc = "row" /\ args.output
    /\ Len(File(log_file)) < MaxRows
    /\ IF fd_log = "open"
       THEN /\ FlushRow
            /\ pc' = "head"
            /\ UNCHANGED <<ret, fd_log, log_file, opened, process, flags, now, cause>>
       ELSE Fault("no log")

\* No log, or LOG_INTERVAL has not passed.
SkipRow ==
    /\ pc = "row"
    /\ pc' = "head"
    /\ UNCHANGED <<ret, handle, process, flags, now, cause>>
----------------------------------------------------------------------------
(* The environment.                                                        *)

HupHandler ==
    /\ pc \in LoopPc /\ MayRequest
    /\ restart_log' = TRUE /\ hup_pending' = TRUE
    /\ UNCHANGED <<pc, ret, handle, process, time_to_quit, now, cause>>

SignalHandler ==
    /\ pc \in LoopPc /\ ~time_to_quit
    /\ time_to_quit' = TRUE
    /\ UNCHANGED <<pc, ret, handle, process, restart_log, hup_pending, now, cause>>

\* Only dated names tell seconds apart.
Tick ==
    /\ args.date /\ now < MaxNow
    /\ now' = now + 1
    /\ UNCHANGED <<pc, ret, handle, process, flags, cause>>

\* The process dies: what stdio held is gone, what was flushed stays.
Crash ==
    /\ pc \in LoopPc
    /\ pc' = "crashed"
    /\ UNCHANGED <<ret, handle, process, flags, now, cause>>

\* systemd starts another one with the same options.
Restart ==
    /\ pc \in Down /\ boots < MaxBoots
    /\ pc' = "boot" /\ ret' = "head" /\ boots' = boots + 1
    /\ restart_log' = FALSE /\ time_to_quit' = FALSE /\ hup_pending' = FALSE
    /\ fd_log' = "uninit" /\ log_file' = Base /\ log_restarts' = 0
    /\ buf' = <<>> /\ opened' = {} /\ cause' = "none"
    /\ UNCHANGED <<args, disk, headless, now>>

LoopStep ==
    \/ BootWithLog \/ BootWithoutLog \/ BeginPass \/ Exit \/ Detect \/ Check \/ Clear
    \/ CommandLogRst \/ CommandOther
    \/ CloseLog \/ ReopenLog \/ NameLost \/ OpenFails
    \/ WriteRow \/ SkipRow

Next == LoopStep \/ HupHandler \/ SignalHandler \/ Tick \/ Crash \/ Restart

Spec == Init /\ [][Next]_vars

\* The kernel schedules the only thread.
FairSpec == Spec /\ WF_vars(LoopStep)
----------------------------------------------------------------------------
(* Properties.                                                             *)

\* Types; at most a header waits in the buffer: a row is written or dropped by the
\* flush that follows it, never kept for a later one.
TypeOK ==
    /\ pc \in Pc /\ ret \in {"head", "command", "row"}
    /\ args \in Options
    /\ restart_log \in BOOLEAN /\ time_to_quit \in BOOLEAN /\ hup_pending \in BOOLEAN
    /\ fd_log \in {"uninit", "open", "closed"}
    /\ log_file \in Name
    /\ log_restarts \in Nat /\ now \in 0..MaxNow /\ boots \in Nat
    /\ DOMAIN disk \subseteq Name
    /\ \A n \in DOMAIN disk : disk[n] \in Seq(Entry)
    /\ buf \in {<<>>, <<"H">>}
    /\ opened \subseteq Name /\ headless \subseteq Name
    /\ cause \in {"none", "fopen", "wild name", "no log"}

\* A SIGHUP not yet honoured is either still in the flag or being honoured:
\* none is swallowed by a restart that began before it arrived.
HupNotLost ==
    hup_pending /\ pc \in LoopPc => restart_log \/ pc \in {"restart", "open"}

\* No step, crash or new process takes anything back that has reached a file,
\* although names repeat between processes and within a second.
FilesGrow ==
    \A n \in DOMAIN disk : n \in DOMAIN disk' /\ IsPrefix(disk[n], disk'[n])
AppendOnly == [][FilesGrow]_vars

\* Whoever reads a log finds the header that names its columns before any row,
\* even after a crash lost a header that was still buffered.  Only a write that
\* failed while the file was still empty can take the header away.
HeaderFirst == \A n \in DOMAIN disk \ headless : disk[n] # <<>> => disk[n][1] = "H"

\* With counters in the names, a reopened log is never one this process has
\* written before.
CounterNamesFresh ==
    [][pc = "open" /\ pc' = ret /\ ~args.date => log_file' \notin opened]_vars

\* The log is only ever missing at a row, or at a restart, for a reason that
\* lies outside this protocol: there is none, or it could not be opened.
FaultsExplained ==
    pc = "fault" => cause \in {"fopen", "wild name"} \/ ~args.output

\* The log is the abstract Journal.  A SIGHUP waits only where there is a log;
\* from the commands of the pass on, the flag is not looked at before its row.
Waits == hup_pending /\ args.output
PastCheck == pc \in {"command", "row"} \/ (pc \in {"restart", "open"} /\ ret = "row")
Spare == IF Waits /\ PastCheck THEN 1 ELSE 0
Kept == INSTANCE Journal WITH
    First <- Base,
    journal <- disk, current <- log_file, asked <- Waits, spare <- Spare

\* Whatever signals, jumps, commands, failing writes and crashes come between: rows
\* go to the log opened last, behind its header unless a write failed while it was
\* empty; nothing is taken back, and at most the row of the pass under way precedes
\* the restart that a SIGHUP asked for.
LogPromise == Kept!Spec

\* The program does not crash over its log.
NoFault == pc # "fault"

\* Every SIGHUP to a running process with a log ends in a reopened log, unless
\* the process goes down first.
HupServed ==
    hup_pending /\ args.output ~> ~hup_pending \/ pc \in Down
=============================================================================
