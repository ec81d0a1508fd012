-------------------------- MODULE LogFileProofs --------------------------
(***************************************************************************)
(* The data log's safety properties for every number of processes,         *)
(* restarts, rows and seconds.                                             *)
(***************************************************************************)
EXTENDS LogFile, SequenceTheorems, TLAPS

----------------------------------------------------------------------------
(* Sequences of entries and files.                                         *)

LEMMA EntrySeqs ==
    {<<>>, <<"H">>, <<"R">>, <<"cut">>} \subseteq Seq(Entry)
<1>1. "H" \in Entry /\ "R" \in Entry /\ "cut" \in Entry
  BY DEF Entry
<1> QED
  BY <1>1

LEMMA PrefixRefl == \A s \in Seq(Entry) : IsPrefix(s, s)
BY DEF IsPrefix

LEMMA PrefixOfConcat ==
    ASSUME NEW s \in Seq(Entry), NEW t \in Seq(Entry)
    PROVE  IsPrefix(s, s \o t)
<1>1. Len(s) \in Nat /\ Len(s) <= Len(s \o t)
  BY ConcatProperties
<1>2. CASE s = <<>>
  BY <1>2, <1>1 DEF IsPrefix
<1>3. CASE s # <<>>
  <2>1. 1 \in 1..Len(s) /\ Len(s) \in 1..Len(s)
    BY <1>1, <1>3, EmptySeq
  <2>2. SubSeq(s \o t, 1, Len(s)) = SubSeq(s, 1, Len(s))
    BY <2>1, SubSeqOfConcat1
  <2> QED
    BY <1>1, <2>2 DEF IsPrefix
<1> QED
  BY <1>2, <1>3

LEMMA FileType ==
    ASSUME TypeOK, NEW name \in Name
    PROVE  File(name) \in Seq(Entry)
BY EntrySeqs DEF TypeOK, File

\* Writing one file leaves the types of all.
LEMMA WithFileType ==
    ASSUME TypeOK, NEW name \in Name, NEW entries \in Seq(Entry)
    PROVE  /\ DOMAIN WithFile(name, entries) \subseteq Name
           /\ \A n \in DOMAIN WithFile(name, entries) :
                 WithFile(name, entries)[n] \in Seq(Entry)
BY DEF TypeOK, WithFile

\* Appending to one file takes nothing from any.
LEMMA AppendGrows ==
    ASSUME TypeOK, NEW name \in Name, NEW entries \in Seq(Entry),
           disk' = WithFile(name, File(name) \o entries)
    PROVE  FilesGrow
<1> SUFFICES ASSUME NEW n \in DOMAIN disk
             PROVE  n \in DOMAIN disk' /\ IsPrefix(disk[n], disk'[n])
  BY DEF FilesGrow
<1>1. disk[n] \in Seq(Entry)
  BY DEF TypeOK
<1>2. n \in DOMAIN disk' /\ disk'[n] = IF n = name THEN File(name) \o entries ELSE disk[n]
  BY DEF WithFile
<1>3. CASE n = name
  <2>1. disk'[n] = disk[n] \o entries
    BY <1>2, <1>3 DEF File
  <2> QED
    BY <1>1, <1>2, <2>1, PrefixOfConcat
<1>4. CASE n # name
  BY <1>1, <1>2, <1>4, PrefixRefl
<1> QED
  BY <1>3, <1>4

\* Opening for appending creates the file or leaves it as it is.
LEMMA OpenGrows ==
    ASSUME TypeOK, NEW name \in Name, disk' = OpenAppends(name)
    PROVE  FilesGrow
<1> SUFFICES ASSUME NEW n \in DOMAIN disk
             PROVE  n \in DOMAIN disk' /\ disk'[n] = disk[n] /\ disk[n] \in Seq(Entry)
  BY PrefixRefl DEF FilesGrow
<1> QED
  BY DEF OpenAppends, WithFile, File, TypeOK
----------------------------------------------------------------------------
\* The counters and the clock of TypeOK, apart from its sequences.
LEMMA CounterTypes ==
    TypeOK => now \in 0..MaxNow /\ log_restarts \in Nat /\ boots \in Nat
BY Zenon DEF TypeOK

\* What a step that opens a file leaves behind.
LEMMA OpenFileType ==
    ASSUME TypeOK, NEW name \in Name, OpenFile(name)
    PROVE  /\ fd_log' = "open" /\ log_file' \in Name
           /\ buf' = <<"H">>
           /\ opened' \subseteq Name /\ headless' \subseteq Name
           /\ DOMAIN disk' \subseteq Name
           /\ \A n \in DOMAIN disk' : disk'[n] \in Seq(Entry)
<1>1. disk' = WithFile(name, File(name))
  BY DEF OpenFile, OpenAppends
<1>2. /\ DOMAIN disk' \subseteq Name
      /\ \A n \in DOMAIN disk' : disk'[n] \in Seq(Entry)
  BY <1>1, FileType, WithFileType
<1> QED
  BY <1>2 DEF OpenFile, Header, TypeOK

LEMMA NamesAreNames == TypeOK => RestartName \in Name /\ BootName \in Name
<1> SUFFICES ASSUME TypeOK PROVE RestartName \in Name /\ BootName \in Name
  OBVIOUS
<1>1. now \in Nat /\ log_restarts \in Nat
  BY BoundAssumption, CounterTypes
<1>2. <<"date", now>> \in Name /\ <<"restart", log_restarts>> \in Name /\ Base \in Name
  BY <1>1 DEF Name, Base
<1> QED
  BY <1>2 DEF RestartName, BootName

\* What stdio holds, and what a row adds to it.
LEMMA FlushType == TypeOK => buf \in Seq(Entry) /\ buf \o <<"R">> \in Seq(Entry)
<1> SUFFICES ASSUME TypeOK PROVE buf \in Seq(Entry) /\ buf \o <<"R">> \in Seq(Entry)
  OBVIOUS
<1>1. buf \in Seq(Entry) /\ <<"R">> \in Seq(Entry)
  BY EntrySeqs DEF TypeOK
<1> QED
  BY <1>1, ConcatProperties

\* Whatever is left of entries by a write is a sequence of entries.
LEMMA WrittenType ==
    ASSUME NEW entries \in Seq(Entry)
    PROVE  Written(entries) \subseteq Seq(Entry)
<1>1. ASSUME NEW k \in 0..(Len(entries) - 1)
      PROVE  SubSeq(entries, 1, k) \in Seq(Entry) /\ Append(SubSeq(entries, 1, k), "cut") \in Seq(Entry)
  <2>1. SubSeq(entries, 1, k) \in Seq(Entry)
    BY SubSeqProperties
  <2>2. "cut" \in Entry
    BY DEF Entry
  <2> QED
    BY <2>1, <2>2, AppendProperties
<1>2. Parts(entries) \subseteq Seq(Entry)
  BY <1>1 DEF Parts
<1> QED
  BY <1>2 DEF Written

\* A flush, successful or not, puts something behind the current file; only that
\* file can have become headless.
LEMMA FlushEffect ==
    ASSUME TypeOK, NEW entries \in Seq(Entry), FlushTo(entries)
    PROVE  \E part \in Seq(Entry) :
              /\ disk' = WithFile(log_file, File(log_file) \o part)
              /\ File(log_file) \o part \in Seq(Entry)
              /\ headless \subseteq headless' /\ headless' \subseteq headless \cup {log_file}
              /\ log_file \notin headless' /\ File(log_file) = <<>> => part = entries
<1>1. PICK part \in Written(entries) :
         /\ disk' = WithFile(log_file, File(log_file) \o part)
         /\ headless' = IF part # entries /\ File(log_file) = <<>>
                        THEN headless \cup {log_file}
                        ELSE headless
  BY DEF FlushTo
<1>2. part \in Seq(Entry)
  BY WrittenType
<1>3. File(log_file) \in Seq(Entry)
  <2>1. log_file \in Name
    BY Zenon DEF TypeOK
  <2> QED
    BY <2>1, FileType
<1>4. File(log_file) \o part \in Seq(Entry)
  BY <1>2, <1>3, ConcatProperties
<1> QED
  BY <1>1, <1>2, <1>4

LEMMA FlushKeepsTypes ==
    ASSUME TypeOK, NEW entries \in Seq(Entry), FlushTo(entries)
    PROVE  /\ DOMAIN disk' \subseteq Name
           /\ \A n \in DOMAIN disk' : disk'[n] \in Seq(Entry)
           /\ headless' \subseteq Name
           /\ buf' = <<>>
<1>1. log_file \in Name /\ headless \subseteq Name
  BY Zenon DEF TypeOK
<1>2. PICK part \in Seq(Entry) :
         /\ disk' = WithFile(log_file, File(log_file) \o part)
         /\ File(log_file) \o part \in Seq(Entry)
         /\ headless' \subseteq headless \cup {log_file}
  BY FlushEffect, Zenon
<1>3. /\ DOMAIN disk' \subseteq Name
      /\ \A n \in DOMAIN disk' : disk'[n] \in Seq(Entry)
  BY <1>1, <1>2, WithFileType
<1> QED
  BY <1>1, <1>2, <1>3 DEF FlushTo

\* Steps that touch neither the files nor the descriptor.
Plain ==
    \/ Fault("fopen") \/ Fault("no log") \/ Fault("wild name")
    \/ BootWithoutLog \/ BeginPass \/ Detect \/ Check \/ Clear
    \/ CommandLogRst \/ CommandOther \/ SkipRow
    \/ HupHandler \/ SignalHandler \/ Tick \/ Crash

\* Every step, sorted by what it does to the log.
LEMMA StepKinds ==
    [Next]_vars =>
        \/ Plain \/ UNCHANGED vars
        \/ BootWithLog \/ ReopenLog
        \/ pc = "restart" /\ fd_log = "open" /\ CloseLog
        \/ pc = "row" /\ fd_log = "open" /\ WriteRow
        \/ Exit \/ Restart
BY DEF Next, LoopStep, Plain, OpenFails, NameLost, CloseLog, WriteRow

LEMMA PlainType ==
    ASSUME TypeOK, Plain
    PROVE  TypeOK' /\ UNCHANGED handle
<1> USE DEF TypeOK, Pc, LoopPc, Down, handle, process, flags
<1>1. UNCHANGED handle
  BY DEF Plain, Fault, BootWithoutLog, BeginPass, Detect, Check, Clear, CommandLogRst,
         CommandOther, SkipRow, HupHandler, SignalHandler, Tick, Crash
<1>2. CASE Fault("fopen") \/ Fault("no log") \/ Fault("wild name")
  BY <1>2 DEF Fault
<1>3. CASE BootWithoutLog \/ BeginPass \/ Check \/ CommandLogRst \/ CommandOther \/ SkipRow
  <2>1. CASE BootWithoutLog
    BY <2>1 DEF BootWithoutLog
  <2>2. CASE BeginPass
    BY <2>2 DEF BeginPass
  <2>3. CASE Check
    BY <2>3 DEF Check
  <2>4. CASE CommandLogRst
    BY <2>4 DEF CommandLogRst
  <2>5. CASE CommandOther
    BY <2>5 DEF CommandOther
  <2>6. CASE SkipRow
    BY <2>6 DEF SkipRow
  <2> QED BY <1>3, <2>1, <2>2, <2>3, <2>4, <2>5, <2>6
<1>4. CASE Detect
  <2>1. restart_log' \in BOOLEAN
    BY <1>4, Zenon DEF Detect, RaiseIfJumped
  <2> QED
    BY <1>4, <2>1 DEF Detect
<1>5. CASE Clear
  <2>1. hup_pending' \in BOOLEAN
    BY <1>5, Zenon DEF Clear
  <2> QED
    BY <1>5, <2>1 DEF Clear
<1>6. CASE HupHandler \/ SignalHandler
  BY <1>6 DEF HupHandler, SignalHandler
<1>7. CASE Tick
  <2>1. now' \in 0..MaxNow
    <3> HIDE DEF TypeOK
    <3> QED
      BY <1>7, BoundAssumption, CounterTypes DEF Tick
  <2>2. UNCHANGED <<pc, ret, fd_log, log_file, disk, buf, opened, headless, args,
                    log_restarts, boots, restart_log, time_to_quit, hup_pending, cause>>
    BY <1>7 DEF Tick
  <2> QED
    BY <2>1, <2>2, ZenonT(90)
<1>8. CASE Crash
  BY <1>8 DEF Crash
<1> QED
  BY <1>1, <1>2, <1>3, <1>4, <1>5, <1>6, <1>7, <1>8 DEF Plain

LEMMA TypeStep == TypeOK /\ [Next]_vars => TypeOK'
<1> SUFFICES ASSUME TypeOK, [Next]_vars PROVE TypeOK'
  OBVIOUS
<1> USE DEF Pc, LoopPc, Down, process, flags
<1>1. CASE Plain
  BY <1>1, PlainType
<1>2. CASE UNCHANGED vars
  <2>1. UNCHANGED <<pc, ret, fd_log, log_file, disk, buf, opened, headless>>
        /\ UNCHANGED <<args, log_restarts, boots, restart_log, time_to_quit,
                       hup_pending, now, cause>>
    BY <1>2 DEF vars, handle
  <2> QED
    BY <2>1, ZenonT(90) DEF TypeOK
<1>3. CASE BootWithLog
  <2>1. OpenFile(BootName)
    BY <1>3 DEF BootWithLog, log_open
  <2> QED
    BY <1>3, <2>1, OpenFileType, NamesAreNames DEF BootWithLog, log_open, TypeOK
<1>4. CASE ReopenLog
  <2>1. OpenFile(RestartName)
    BY <1>4 DEF ReopenLog, log_open
  <2>2. /\ fd_log' = "open" /\ log_file' \in Name
        /\ buf' = <<"H">> /\ opened' \subseteq Name /\ headless' \subseteq Name
        /\ DOMAIN disk' \subseteq Name
        /\ \A n \in DOMAIN disk' : disk'[n] \in Seq(Entry)
    BY <2>1, OpenFileType, NamesAreNames
  <2>3. /\ pc' \in Pc /\ log_restarts' \in Nat
        /\ UNCHANGED <<ret, args, boots, restart_log, time_to_quit, now, cause>>
        /\ hup_pending' = restart_log
    <3>1. ret \in Pc
      BY Zenon DEF TypeOK
    <3> QED
      BY <1>4, <3>1, CounterTypes DEF ReopenLog, log_open, CountRestart, FlagAfterOpen
  <2> QED
    BY <2>2, <2>3 DEF TypeOK
<1>5. CASE fd_log = "open" /\ CloseLog
  <2>1. FlushTo(buf)
    BY <1>5 DEF CloseLog
  <2>2. /\ DOMAIN disk' \subseteq Name
        /\ \A n \in DOMAIN disk' : disk'[n] \in Seq(Entry)
        /\ headless' \subseteq Name /\ buf' = <<>>
    BY <2>1, FlushType, FlushKeepsTypes
  <2> QED
    BY <1>5, <2>2 DEF CloseLog, TypeOK
<1>6. CASE fd_log = "open" /\ WriteRow
  <2>1. FlushTo(buf \o <<"R">>)
    BY <1>6 DEF WriteRow, FlushRow
  <2>2. /\ DOMAIN disk' \subseteq Name
        /\ \A n \in DOMAIN disk' : disk'[n] \in Seq(Entry)
        /\ headless' \subseteq Name /\ buf' = <<>>
    BY <2>1, FlushType, FlushKeepsTypes
  <2> QED
    BY <1>6, <2>2 DEF WriteRow, TypeOK
<1>7. CASE Exit
  <2>1. CASE fd_log = "open"
    <3>1. FlushTo(buf)
      BY <1>7, <2>1 DEF Exit
    <3>2. /\ DOMAIN disk' \subseteq Name
          /\ \A n \in DOMAIN disk' : disk'[n] \in Seq(Entry)
          /\ headless' \subseteq Name /\ buf' = <<>>
      BY <3>1, FlushType, FlushKeepsTypes
    <3> QED
      BY <1>7, <3>2 DEF Exit, TypeOK
  <2>2. CASE fd_log # "open"
    BY <1>7, <2>2 DEF Exit, TypeOK
  <2> QED
    BY <2>1, <2>2
<1>8. CASE Restart
  <2>1. Base \in Name
    BY DEF Base, Name
  <2>2. boots' \in Nat
    BY <1>8, CounterTypes DEF Restart
  <2> QED
    BY <1>8, <2>1, <2>2 DEF Restart, TypeOK
<1> QED
  BY <1>1, <1>2, <1>3, <1>4, <1>5, <1>6, <1>7, <1>8, StepKinds

\* The log's state keeps its types; a row never waits in the buffer for a later
\* flush: the one behind it writes it or drops it.
THEOREM LogTypeCorrect == Spec => []TypeOK
<1>1. Init => TypeOK
  <2> SUFFICES ASSUME Init PROVE TypeOK
    OBVIOUS
  <2>1. Base \in Name
    BY DEF Base, Name
  <2>2. pc \in Pc /\ ret \in {"head", "command", "row"}
        /\ now \in 0..MaxNow /\ boots \in Nat /\ log_restarts \in Nat
    BY BoundAssumption DEF Init, Pc, LoopPc
  <2>3. DOMAIN disk \subseteq Name /\ \A n \in DOMAIN disk : disk[n] \in Seq(Entry)
    BY DEF Init
  <2> QED
    BY <2>1, <2>2, <2>3 DEF Init, TypeOK
<1> QED
  BY <1>1, TypeStep, PTL DEF Spec
----------------------------------------------------------------------------
(* What has reached a file stays there.                                    *)

LEMMA GrowStep == TypeOK /\ [Next]_vars => FilesGrow
<1> SUFFICES ASSUME TypeOK, [Next]_vars PROVE FilesGrow
  OBVIOUS
<1>1. log_file \in Name /\ \A n \in DOMAIN disk : disk[n] \in Seq(Entry)
  BY Zenon DEF TypeOK
<1>2. CASE UNCHANGED disk
  BY <1>1, <1>2, PrefixRefl DEF FilesGrow
<1>3. CASE BootWithLog
  BY <1>3, NamesAreNames, OpenGrows DEF BootWithLog, log_open, OpenFile
<1>4. CASE ReopenLog
  BY <1>4, NamesAreNames, OpenGrows DEF ReopenLog, log_open, OpenFile
<1>5. ASSUME NEW entries \in Seq(Entry), FlushTo(entries) PROVE FilesGrow
  BY <1>1, <1>5, FlushEffect, AppendGrows
<1>7. CASE Plain \/ UNCHANGED vars
  BY <1>2, <1>7, PlainType DEF vars, handle
<1>8. CASE Restart \/ Exit
  BY <1>2, <1>5, <1>8, FlushType DEF Restart, Exit
<1>9. CASE fd_log = "open" /\ CloseLog
  BY <1>5, <1>9, FlushType DEF CloseLog
<1>10. CASE fd_log = "open" /\ WriteRow
  BY <1>5, <1>10, FlushType DEF WriteRow, FlushRow
<1> QED
  BY <1>3, <1>4, <1>7, <1>8, <1>9, <1>10, StepKinds

\* No restart of the log, failing write, crash or new process truncates a file or
\* overwrites a row: fopen() in append mode, for any number of processes and names.
THEOREM LogAppendOnly == Spec => AppendOnly
<1>1. TypeOK /\ [Next]_vars => [FilesGrow]_vars
  BY GrowStep
<1> QED
  BY <1>1, LogTypeCorrect, PTL DEF Spec, AppendOnly
----------------------------------------------------------------------------
(* Every file begins with its header, unless a write failed while it was   *)
(* empty.  The header of a file just opened is still in the buffer, so the *)
(* file may be empty, but then the buffer is not, and whatever is flushed  *)
(* first is the header.                                                    *)

HeaderInv ==
    /\ HeaderFirst
    /\ fd_log = "open" =>
          (File(log_file) = <<>> /\ log_file \notin headless => buf = <<"H">>)

\* Writing a file that begins with a header keeps the others'.
LEMMA WriteKeepsHeaders ==
    ASSUME HeaderFirst, NEW name, NEW entries,
           name \notin headless' /\ entries # <<>> => entries[1] = "H",
           disk' = WithFile(name, entries), headless \subseteq headless'
    PROVE  HeaderFirst' /\ disk'[name] = entries /\ name \in DOMAIN disk'
<1>1. DOMAIN disk' = DOMAIN disk \cup {name}
  BY DEF WithFile
<1>2. \A n \in DOMAIN disk' : disk'[n] = IF n = name THEN entries ELSE disk[n]
  BY DEF WithFile
<1> QED
  BY <1>1, <1>2 DEF HeaderFirst

\* A first element stays first.
LEMMA FirstStays ==
    ASSUME NEW s \in Seq(Entry), NEW t \in Seq(Entry), s # <<>>
    PROVE  s \o t # <<>> /\ (s \o t)[1] = s[1]
<1>1. Len(s) \in Nat /\ Len(s) >= 1 /\ Len(t) \in Nat
  BY EmptySeq
<1>2. (s \o t)[1] = s[1] /\ Len(s \o t) = Len(s) + Len(t)
  BY <1>1, ConcatProperties
<1> QED
  BY <1>1, <1>2

LEMMA FlushKeepsHeaders ==
    ASSUME TypeOK, HeaderInv, fd_log = "open",
           NEW entries \in {buf, buf \o <<"R">>}, FlushTo(entries)
    PROVE  /\ HeaderFirst'
           /\ log_file \in DOMAIN disk'
           /\ disk'[log_file] = <<>> => log_file \in headless'
<1>1. entries \in Seq(Entry) /\ buf \in Seq(Entry)
  BY FlushType
<1>2. PICK part \in Seq(Entry) :
         /\ disk' = WithFile(log_file, File(log_file) \o part)
         /\ File(log_file) \o part \in Seq(Entry)
         /\ headless \subseteq headless' /\ headless' \subseteq headless \cup {log_file}
         /\ log_file \notin headless' /\ File(log_file) = <<>> => part = entries
  BY <1>1, FlushEffect, Zenon
<1>3. File(log_file) \in Seq(Entry)
  <2>1. log_file \in Name
    BY Zenon DEF TypeOK
  <2> QED
    BY <2>1, FileType
<1>4. ASSUME log_file \notin headless'
      PROVE  File(log_file) \o part # <<>> /\ (File(log_file) \o part)[1] = "H"
  <2>1. log_file \notin headless
    BY <1>2, <1>4
  <2>2. CASE File(log_file) = <<>>
    <3>1. buf = <<"H">>
      BY <2>1, <2>2 DEF HeaderInv
    <3>2. entries # <<>> /\ entries[1] = "H"
      <4>1. <<"H">> # <<>> /\ <<"H">>[1] = "H" /\ <<"H">> \in Seq(Entry) /\ <<"R">> \in Seq(Entry)
        BY EntrySeqs
      <4> QED
        BY <3>1, <4>1, FirstStays
    <3>3. part = entries /\ File(log_file) \o part = part
      BY <1>2, <1>4, <2>2, ConcatEmptySeq
    <3> QED
      BY <3>2, <3>3
  <2>3. CASE File(log_file) # <<>>
    <3>1. File(log_file)[1] = "H"
      BY <2>1, <2>3 DEF HeaderInv, HeaderFirst, File
    <3> QED
      BY <1>2, <1>3, <2>3, <3>1, FirstStays
  <2> QED
    BY <2>2, <2>3
<1>5. /\ HeaderFirst' /\ log_file \in DOMAIN disk'
      /\ disk'[log_file] = File(log_file) \o part
  BY <1>2, <1>4, WriteKeepsHeaders DEF HeaderInv
<1> QED
  BY <1>4, <1>5

LEMMA HeaderStep == TypeOK /\ HeaderInv /\ [Next]_vars => HeaderInv'
<1> SUFFICES ASSUME TypeOK, HeaderInv, [Next]_vars PROVE HeaderInv'
  OBVIOUS
<1> USE DEF handle
<1>1. CASE Plain \/ UNCHANGED vars
  <2>1. UNCHANGED handle
    BY <1>1, PlainType DEF vars
  <2> QED
    BY <2>1 DEF HeaderInv, HeaderFirst, File
<1>2. ASSUME NEW name \in Name, OpenFile(name) PROVE HeaderInv'
  <2>1. disk' = WithFile(name, File(name)) /\ buf' = <<"H">> /\ headless' = headless
    BY <1>2 DEF OpenFile, OpenAppends, Header
  <2>2. name \notin headless' /\ File(name) # <<>> => File(name)[1] = "H"
    BY <2>1 DEF File, HeaderInv, HeaderFirst
  <2> QED
    BY <2>1, <2>2, WriteKeepsHeaders DEF HeaderInv
<1>3. CASE BootWithLog
  BY <1>2, <1>3, NamesAreNames DEF BootWithLog, log_open
<1>4. CASE ReopenLog
  BY <1>2, <1>4, NamesAreNames DEF ReopenLog, log_open
<1>5. CASE fd_log = "open" /\ CloseLog
  <2>1. HeaderFirst'
    BY <1>5, FlushKeepsHeaders DEF CloseLog
  <2> QED
    BY <1>5, <2>1 DEF CloseLog, HeaderInv
<1>6. CASE fd_log = "open" /\ WriteRow
  <2>1. log_file' = log_file /\ FlushTo(buf \o <<"R">>)
    BY <1>6 DEF WriteRow, FlushRow
  <2>2. HeaderFirst' /\ (disk'[log_file] = <<>> => log_file \in headless')
        /\ log_file \in DOMAIN disk'
    BY <1>6, <2>1, FlushKeepsHeaders
  <2> QED
    BY <2>1, <2>2 DEF HeaderInv, File
<1>7. CASE Exit /\ fd_log = "open"
  <2>1. log_file' = log_file /\ FlushTo(buf)
    BY <1>7 DEF Exit
  <2>2. HeaderFirst' /\ (disk'[log_file] = <<>> => log_file \in headless')
        /\ log_file \in DOMAIN disk'
    BY <1>7, <2>1, FlushKeepsHeaders
  <2> QED
    BY <2>1, <2>2 DEF HeaderInv, File
<1>8. CASE Exit /\ fd_log # "open"
  BY <1>8 DEF Exit, HeaderInv, HeaderFirst
<1>9. CASE Restart
  BY <1>9 DEF Restart, HeaderInv, HeaderFirst
<1> QED
  BY <1>1, <1>3, <1>4, <1>5, <1>6, <1>7, <1>8, <1>9, StepKinds

\* A reader of any log finds the names of its columns in the first line, even
\* if a crash lost a header that was still buffered; only a write that failed
\* while the file was empty can have taken it away.
THEOREM LogHeaderFirst == Spec => []HeaderFirst
<1>1. Init => HeaderInv
  BY DEF Init, HeaderInv, HeaderFirst
<1>2. HeaderInv => HeaderFirst
  BY DEF HeaderInv
<1> QED
  BY <1>1, <1>2, HeaderStep, LogTypeCorrect, PTL DEF Spec
----------------------------------------------------------------------------
(* Signals and faults.                                                     *)

\* While a restart requested by a signal is under way a later signal is in the
\* flag, because the flag is cleared before the log is closed.
LEMMA HupStep == TypeOK /\ HupNotLost /\ [Next]_vars => HupNotLost'
<1> SUFFICES ASSUME TypeOK, HupNotLost, [Next]_vars PROVE HupNotLost'
  OBVIOUS
<1> USE DEF HupNotLost, LoopPc, flags
<1>1. ret \in {"head", "command", "row"} /\ args \in Options
  BY Zenon DEF TypeOK
<1>2. CASE OpenFails \/ NameLost \/ Crash
  BY <1>2 DEF OpenFails, NameLost, Fault, Crash
<1>3. CASE BootWithLog \/ ReopenLog
  <2>1. CASE BootWithLog
    BY <2>1 DEF BootWithLog, log_open
  <2>2. CASE ReopenLog
    <3>1. hup_pending' = restart_log /\ restart_log' = restart_log
      BY <2>2 DEF ReopenLog, FlagAfterOpen
    <3> QED
      BY <3>1, Zenon
  <2> QED
    BY <1>3, <2>1, <2>2
<1>4. CASE BootWithoutLog \/ BeginPass \/ Exit
  BY <1>4 DEF BootWithoutLog, BeginPass, Exit
<1>5. CASE Detect \/ Check
  BY <1>5 DEF Detect, RaiseIfJumped, Check
<1>6. CASE Clear
  BY <1>6 DEF Clear
<1>7. CASE CommandLogRst \/ CommandOther \/ SkipRow
  BY <1>7 DEF CommandLogRst, CommandOther, SkipRow
<1>8. CASE CloseLog
  BY <1>8 DEF CloseLog, Fault
<1>9. CASE WriteRow
  BY <1>9 DEF WriteRow, Fault
<1>10. CASE HupHandler \/ SignalHandler
  BY <1>10 DEF HupHandler, SignalHandler
<1>11. CASE Tick \/ Restart
  BY <1>11 DEF Tick, Restart
<1>12. CASE UNCHANGED vars
  BY <1>12 DEF vars
<1> QED
  BY <1>2, <1>3, <1>4, <1>5, <1>6, <1>7, <1>8, <1>9, <1>10, <1>11, <1>12
     DEF Next, LoopStep

\* hupHandler() may run between any two steps of main(): whatever it asks for
\* is still in restart_log, or a restart that began later than it is under way.
THEOREM LogHupNotLost == Spec => []HupNotLost
<1>1. Init => HupNotLost
  BY DEF Init, HupNotLost
<1> QED
  BY <1>1, HupStep, LogTypeCorrect, PTL DEF Spec

\* A process that was given a log has one open at every step but its first and
\* those between fclose() and fopen().
LogOpen == args.output /\ pc \in LoopPc \ {"boot", "open"} => fd_log = "open"
FaultInv == LogOpen /\ FaultsExplained

LEMMA FaultStep == TypeOK /\ FaultInv /\ [Next]_vars => FaultInv'
<1> SUFFICES ASSUME TypeOK, FaultInv, [Next]_vars PROVE FaultInv'
  OBVIOUS
<1> USE DEF FaultInv, LogOpen, FaultsExplained, LoopPc, Down, process, handle
<1>1. args \in Options
  BY Zenon DEF TypeOK
<1>2. CASE OpenFails \/ NameLost \/ Crash
  BY <1>2 DEF OpenFails, NameLost, Fault, Crash
<1>3. CASE BootWithLog \/ ReopenLog
  <2>1. fd_log' = "open"
    BY <1>3 DEF BootWithLog, ReopenLog, log_open, OpenFile
  <2>2. pc' # "fault"
    <3>1. ret # "fault"
      BY Zenon DEF TypeOK
    <3> QED
      BY <1>3, <3>1 DEF BootWithLog, ReopenLog, log_open
  <2> QED
    BY <2>1, <2>2
<1>4. CASE BootWithoutLog \/ BeginPass \/ Exit
  BY <1>4 DEF BootWithoutLog, BeginPass, Exit
<1>5. CASE Detect \/ Check
  BY <1>5 DEF Detect, Check
<1>6. CASE Clear
  BY <1>6 DEF Clear
<1>7. CASE CommandLogRst \/ CommandOther \/ SkipRow
  BY <1>7 DEF CommandLogRst, CommandOther, SkipRow
<1>8. CASE CloseLog
  BY <1>8 DEF CloseLog, Fault
<1>9. CASE WriteRow
  BY <1>9 DEF WriteRow, Fault
<1>10. CASE HupHandler \/ SignalHandler
  BY <1>10 DEF HupHandler, SignalHandler
<1>11. CASE Tick \/ Restart
  BY <1>11 DEF Tick, Restart
<1>12. CASE UNCHANGED vars
  BY <1>12 DEF vars
<1> QED
  BY <1>2, <1>3, <1>4, <1>5, <1>6, <1>7, <1>8, <1>9, <1>10, <1>11, <1>12
     DEF Next, LoopStep

\* Whatever the signals, jumps and commands, the log's protocol itself never
\* brings a process with a log down: only a failed fopen() or a lost name does.
THEOREM LogFaultsExplained == Spec => []FaultsExplained
<1>1. Init => FaultInv
  BY DEF Init, FaultInv, LogOpen, FaultsExplained
<1>2. FaultInv => FaultsExplained
  BY DEF FaultInv
<1> QED
  BY <1>1, <1>2, FaultStep, LogTypeCorrect, PTL DEF Spec
----------------------------------------------------------------------------
\* The names a process without --output-file-date has used: the original and
\* those of the counter's earlier values.
OpenedInv ==
    ~args.date => opened \subseteq {Base} \cup {<<"restart", k>> : k \in 0..(log_restarts - 1)}

LEMMA OpenedStep == TypeOK /\ OpenedInv /\ [Next]_vars => OpenedInv'
<1> SUFFICES ASSUME TypeOK, OpenedInv, [Next]_vars PROVE OpenedInv'
  OBVIOUS
<1>1. log_restarts \in Nat
  BY CounterTypes
<1> USE DEF OpenedInv, process
<1>2. CASE UNCHANGED <<args, log_restarts, opened>>
  BY <1>2
<1>3. CASE BootWithLog
  BY <1>3 DEF BootWithLog, log_open, OpenFile, BootName
<1>4. CASE ReopenLog
  <2>1. /\ log_restarts' = log_restarts + 1 /\ args' = args
        /\ opened' = opened \cup {RestartName}
    BY <1>4 DEF ReopenLog, log_open, OpenFile, CountRestart
  <2>2. ~args.date => RestartName = <<"restart", log_restarts>>
    BY DEF RestartName
  <2>3. 0..(log_restarts - 1) \subseteq 0..log_restarts /\ log_restarts \in 0..log_restarts
    BY <1>1
  <2>4. 0..(log_restarts' - 1) = 0..log_restarts
    BY <1>1, <2>1
  <2> QED
    BY <2>1, <2>2, <2>3, <2>4
<1>5. CASE Restart
  BY <1>5 DEF Restart
<1>6. CASE Plain
  BY <1>2, <1>6, PlainType
     DEF Plain, handle, Fault, BootWithoutLog, BeginPass, Detect, Check, Clear, CommandLogRst,
         CommandOther, SkipRow, HupHandler, SignalHandler, Tick, Crash
<1>7. CASE Exit \/ CloseLog \/ WriteRow
  BY <1>2, <1>7 DEF Exit, CloseLog, WriteRow, Fault, handle
<1>8. CASE UNCHANGED vars
  BY <1>2, <1>8 DEF vars, handle
<1> QED
  BY <1>3, <1>4, <1>5, <1>6, <1>7, <1>8, StepKinds

\* Within one process a log reopened under a counter's name is a new file: the
\* counter of log_restart() is advanced by every restart.
THEOREM LogCounterNamesFresh == Spec => CounterNamesFresh
<1>1. Init => OpenedInv
  BY DEF Init, OpenedInv
<1>2. Spec => []OpenedInv
  BY <1>1, OpenedStep, LogTypeCorrect, PTL DEF Spec
<1>3. ASSUME TypeOK, OpenedInv, [Next]_vars
      PROVE  [pc = "open" /\ pc' = ret /\ ~args.date => log_file' \notin opened]_vars
  <2> SUFFICES ASSUME ~UNCHANGED vars, pc = "open", pc' = ret, ~args.date
               PROVE  log_file' \notin opened
    OBVIOUS
  <2>1. ret \in {"head", "command", "row"} /\ log_restarts \in Nat
    BY <1>3, Zenon DEF TypeOK
  <2>2. ReopenLog
    BY <1>3, <2>1 DEF Next, LoopStep, BootWithLog, BootWithoutLog, BeginPass, Exit, Detect,
       Check, Clear, CommandLogRst, CommandOther, CloseLog, NameLost, OpenFails, Fault,
       WriteRow, SkipRow, HupHandler, SignalHandler, Tick, Crash, Restart, Down
  <2>3. log_file' = <<"restart", log_restarts>>
    BY <2>2 DEF ReopenLog, log_open, OpenFile, RestartName
  <2>4. \A k \in 0..(log_restarts - 1) : <<"restart", k>> # <<"restart", log_restarts>>
    BY <2>1
  <2> QED
    BY <1>3, <2>3, <2>4 DEF OpenedInv, Base
<1> QED
  BY <1>2, <1>3, LogTypeCorrect, PTL DEF Spec, CounterNamesFresh
----------------------------------------------------------------------------
(* The log is the abstract Journal.                                        *)

\* Between the commands of a pass and the next test of the flag, only a SIGHUP
\* can have raised it; a file that is open exists.
RaisedByHup == restart_log /\ pc \in LoopPc \ {"check", "clear"} => hup_pending
OpenExists == fd_log = "open" => log_file \in DOMAIN disk
JournalInv == RaisedByHup /\ OpenExists

LEMMA RaisedStep == TypeOK /\ RaisedByHup /\ [Next]_vars => RaisedByHup'
<1> SUFFICES ASSUME TypeOK, RaisedByHup, [Next]_vars PROVE RaisedByHup'
  OBVIOUS
<1> USE DEF RaisedByHup, LoopPc, flags
<1>2. CASE OpenFails \/ NameLost \/ Crash
  BY <1>2 DEF OpenFails, NameLost, Fault, Crash
<1>3. CASE BootWithLog
  BY <1>3 DEF BootWithLog, log_open
<1>4. CASE ReopenLog
  <2>1. hup_pending' = restart_log /\ restart_log' = restart_log
    BY <1>4 DEF ReopenLog, FlagAfterOpen
  <2> QED
    BY <2>1, Zenon
<1>5. CASE BootWithoutLog \/ BeginPass \/ Exit
  BY <1>5 DEF BootWithoutLog, BeginPass, Exit
<1>6. CASE Detect \/ Check
  BY <1>6 DEF Detect, Check
<1>7. CASE Clear
  BY <1>7 DEF Clear
<1>8. CASE CommandLogRst \/ CommandOther \/ SkipRow
  BY <1>8 DEF CommandLogRst, CommandOther, SkipRow
<1>9. CASE CloseLog
  BY <1>9 DEF CloseLog, Fault
<1>10. CASE WriteRow
  BY <1>10 DEF WriteRow, Fault
<1>11. CASE HupHandler \/ SignalHandler
  BY <1>11 DEF HupHandler, SignalHandler
<1>12. CASE Tick \/ Restart
  BY <1>12 DEF Tick, Restart
<1>13. CASE UNCHANGED vars
  BY <1>13 DEF vars
<1> QED
  BY <1>2, <1>3, <1>4, <1>5, <1>6, <1>7, <1>8, <1>9, <1>10, <1>11, <1>12, <1>13
     DEF Next, LoopStep

LEMMA WithFileHas == \A name, entries : name \in DOMAIN WithFile(name, entries)
BY DEF WithFile

LEMMA ExistsStep == TypeOK /\ OpenExists /\ [Next]_vars => OpenExists'
<1> SUFFICES ASSUME TypeOK, OpenExists, [Next]_vars PROVE OpenExists'
  OBVIOUS
<1> USE DEF OpenExists, handle
<1>1. CASE Plain \/ UNCHANGED vars
  <2>1. UNCHANGED handle
    BY <1>1, PlainType DEF vars
  <2> QED
    BY <2>1
<1>2. CASE BootWithLog \/ ReopenLog
  <2>1. disk' = WithFile(log_file', File(log_file'))
    BY <1>2 DEF BootWithLog, ReopenLog, log_open, OpenFile, OpenAppends
  <2> QED
    BY <2>1, WithFileHas
<1>3. CASE fd_log = "open" /\ CloseLog
  BY <1>3 DEF CloseLog
<1>4. CASE fd_log = "open" /\ WriteRow
  BY <1>4, WithFileHas DEF WriteRow, FlushRow, FlushTo
<1>5. CASE Exit
  BY <1>5, WithFileHas DEF Exit, FlushTo
<1>6. CASE Restart
  BY <1>6 DEF Restart
<1> QED
  BY <1>1, <1>2, <1>3, <1>4, <1>5, <1>6, StepKinds

\* The abstract files are these files.
LEMMA SameFiles ==
    /\ \A name : Kept!Entries(name) = File(name)
    /\ \A name, entries : Kept!With(name, entries) = WithFile(name, entries)
BY DEF Kept!Entries, Kept!With, File, WithFile

\* A flush is an abstract write, whole or in part.
LEMMA FlushIsWrite ==
    ASSUME NEW entries, FlushTo(entries)
    PROVE  Kept!Write(entries)
<1>1. Written(entries) \subseteq {entries} \cup Kept!Parts(entries)
  <2>1. Parts(entries) = Kept!Parts(entries)
    BY DEF Parts, Kept!Parts
  <2> QED
    BY <2>1 DEF Written
<1>2. PICK part \in Written(entries) :
         /\ disk' = WithFile(log_file, File(log_file) \o part)
         /\ headless' = IF part # entries /\ File(log_file) = <<>>
                        THEN headless \cup {log_file}
                        ELSE headless
  BY DEF FlushTo
<1> QED
  BY <1>1, <1>2, SameFiles DEF Kept!Write

\* A step of the loop that leaves the files alone asks for nothing, and allows no
\* row that was not allowed before.
LEMMA PlainKept ==
    ASSUME TypeOK, HupNotLost, Plain, ~HupHandler
    PROVE  Waits' = Waits /\ Spare' \in {0, Spare}
<1> USE DEF Waits, Spare, PastCheck, process, flags
<1>0. ASSUME UNCHANGED <<args, hup_pending>>, pc' \notin {"command", "row", "restart", "open"}
      PROVE  Waits' = Waits /\ Spare' = 0
  <2>1. Waits' = Waits
    BY <1>0
  <2>2. ~PastCheck'
    BY <1>0
  <2> HIDE DEF Waits, PastCheck
  <2> QED
    BY <2>1, <2>2
<1>1. CASE Fault("fopen") \/ Fault("no log") \/ Fault("wild name")
  <2>1. UNCHANGED <<args, hup_pending>> /\ pc' = "fault"
    BY <1>1 DEF Fault
  <2> QED
    BY <1>0, <2>1
<1>2. CASE BootWithoutLog \/ BeginPass \/ Detect
  <2>1. UNCHANGED <<args, hup_pending>> /\ pc' \in {"head", "detect", "check"}
    BY <1>2 DEF BootWithoutLog, BeginPass, Detect
  <2> QED
    BY <1>0, <2>1
<1>3. CASE Check
  BY <1>3 DEF Check, HupNotLost, LoopPc
<1>4. CASE Clear
  <2>1. args' = args /\ pc' = (IF args.output THEN "restart" ELSE "command") /\ ret' = "command"
        /\ hup_pending' = (hup_pending /\ args.output)
    BY <1>4 DEF Clear
  <2>2. Waits' = Waits
    BY <2>1, Zenon
  <2>3. ~(Waits' /\ PastCheck')
    BY <2>1
  <2> QED
    BY <2>2, <2>3
<1>5. CASE CommandLogRst
  BY <1>5 DEF CommandLogRst
<1>6. CASE CommandOther \/ SkipRow
  BY <1>6 DEF CommandOther, SkipRow
<1>7. CASE SignalHandler \/ Tick \/ Crash
  BY <1>7 DEF SignalHandler, Tick, Crash
<1> QED
  BY <1>1, <1>2, <1>3, <1>4, <1>5, <1>6, <1>7 DEF Plain

LEMMA HupKept ==
    ASSUME TypeOK, HupHandler
    PROVE  \/ Waits' = Waits /\ Spare' = Spare
           \/ Waits' = TRUE /\ Waits = FALSE /\ Spare' \in {0, 1}
<1>1. UNCHANGED <<pc, ret, args>> /\ hup_pending' = TRUE
  BY DEF HupHandler, process
<1>2. PastCheck' = PastCheck
  BY <1>1 DEF PastCheck
<1>3. CASE Waits \/ ~args.output
  <2>1. Waits' = Waits
    BY <1>1, <1>3, Zenon DEF Waits
  <2> QED
    BY <1>2, <2>1 DEF Spare
<1>4. CASE ~Waits /\ args.output
  BY <1>1, <1>4 DEF Spare, Waits
<1> QED
  BY <1>3, <1>4

LEMMA JournalStep ==
    ASSUME TypeOK, HeaderInv, HupNotLost, JournalInv, [Next]_vars
    PROVE  [Kept!Next]_(Kept!vars)
<1> USE DEF Kept!Next, Kept!vars, JournalInv
<1>1. CASE UNCHANGED vars
  BY <1>1 DEF vars, handle, process, flags, Waits, Spare, PastCheck
<1>2. CASE Plain /\ ~HupHandler
  <2>1. UNCHANGED <<disk, log_file, headless>>
    BY <1>2, PlainType DEF handle
  <2>2. Waits' = Waits /\ Spare' \in {0, Spare}
    BY <1>2, PlainKept
  <2> QED
    BY <2>1, <2>2 DEF Kept!Skip
<1>3. CASE HupHandler
  <2>1. UNCHANGED <<disk, log_file, headless>>
    BY <1>3 DEF HupHandler, handle
  <2> QED
    BY <1>3, <2>1, HupKept DEF Kept!Ask
<1>4. CASE BootWithLog
  <2>1. disk' = WithFile(log_file', File(log_file')) /\ headless' = headless
    BY <1>4 DEF BootWithLog, log_open, OpenFile, OpenAppends
  <2>2. Waits' = Waits
    BY <1>4 DEF BootWithLog, log_open, Waits
  <2>3. Spare' = 0
    BY <1>4 DEF BootWithLog, log_open, Spare, PastCheck
  <2>4. Kept!Open
    BY <2>1, <2>2, <2>3, SameFiles DEF Kept!Open
  <2> QED
    BY <2>4
<1>5. CASE ReopenLog
  <2>1. disk' = WithFile(log_file', File(log_file')) /\ headless' = headless
    BY <1>5 DEF ReopenLog, log_open, OpenFile, OpenAppends
  <2>2. Waits' \in {FALSE, Waits}
    <3>1. hup_pending' = restart_log /\ args' = args /\ pc = "open"
      BY <1>5 DEF ReopenLog, log_open
    <3>2. restart_log => hup_pending
      BY <3>1 DEF RaisedByHup, LoopPc
    <3>3. ~Waits' \/ (Waits' /\ Waits)
      BY <3>1, <3>2, Zenon DEF Waits
    <3>4. Waits' \in BOOLEAN /\ Waits \in BOOLEAN
      BY Zenon DEF Waits
    <3> QED
      BY <3>3, <3>4
  <2>3. Spare' \in {0, IF Waits' THEN 1 ELSE 0}
    BY DEF Spare
  <2>4. Kept!Open
    BY <2>1, <2>2, <2>3, SameFiles DEF Kept!Open
  <2> QED
    BY <2>4
<1>6. CASE fd_log = "open" /\ CloseLog
  <2>1. Kept!Write(buf) /\ log_file' = log_file
    BY <1>6, FlushIsWrite DEF CloseLog
  <2>2. Waits' = Waits /\ Spare' = Spare
    BY <1>6 DEF CloseLog, Waits, Spare, PastCheck, process, flags
  <2>3. buf \in {<<>>, <<"H">>} /\ log_file \in DOMAIN disk
    BY <1>6, Zenon DEF TypeOK, OpenExists
  <2>4. Kept!Flush
    BY <2>1, <2>2, <2>3 DEF Kept!Flush
  <2> QED
    BY <2>4
<1>7. CASE pc = "row" /\ fd_log = "open" /\ WriteRow
  <2>1. Kept!Write(buf \o <<"R">>) /\ log_file' = log_file
    BY <1>7, FlushIsWrite DEF WriteRow, FlushRow
  <2>2. Waits' = Waits /\ Spare' = 0
    BY <1>7 DEF WriteRow, Waits, Spare, PastCheck, process, flags
  <2>3. Waits => Spare = 1
    BY <1>7 DEF Spare, PastCheck
  <2>4. buf \in {<<>>, <<"H">>} /\ log_file \in DOMAIN disk
    BY <1>7, Zenon DEF TypeOK, OpenExists
  <2>5. File(log_file) = <<>> /\ log_file \notin headless => buf = <<"H">>
    BY <1>7 DEF HeaderInv
  <2>6. Kept!Row
    BY <2>1, <2>2, <2>3, <2>4, <2>5, SameFiles DEF Kept!Row
  <2> QED
    BY <2>6
<1>8. CASE Exit
  <2>1. log_file' = log_file /\ Waits' = Waits /\ Spare' = Spare
    BY <1>8 DEF Exit, Waits, Spare, PastCheck, process, flags
  <2>2. CASE fd_log = "open"
    <3>1. Kept!Write(buf)
      BY <1>8, <2>2, FlushIsWrite DEF Exit
    <3>2. buf \in {<<>>, <<"H">>} /\ log_file \in DOMAIN disk
      BY <2>2, Zenon DEF TypeOK, OpenExists
    <3>3. Kept!Flush
      BY <2>1, <3>1, <3>2 DEF Kept!Flush
    <3> QED
      BY <3>3
  <2>3. CASE fd_log # "open"
    BY <1>8, <2>1, <2>3 DEF Exit
  <2> QED
    BY <2>2, <2>3
<1>9. CASE Restart
  <2>1. log_file' = Base /\ UNCHANGED <<disk, headless>> /\ Waits' = FALSE /\ Spare' = 0
    BY <1>9 DEF Restart, Waits, Spare
  <2> QED
    BY <2>1 DEF Kept!NewProcess
<1> QED
  BY <1>1, <1>2, <1>3, <1>4, <1>5, <1>6, <1>7, <1>8, <1>9, StepKinds DEF Plain

\* Every behaviour of the log, for any options, signals, commands, failing writes and
\* number of processes, is one of the abstract Journal.
THEOREM LogKeepsPromise == Spec => LogPromise
<1>1. Init => HeaderInv /\ HupNotLost /\ JournalInv
  BY DEF Init, HeaderInv, HeaderFirst, HupNotLost, JournalInv, RaisedByHup, OpenExists
<1>2. Init => Kept!Init
  BY DEF Init, Kept!Init, Waits, Spare
<1>3. TypeOK /\ HeaderInv /\ HupNotLost /\ JournalInv /\ [Next]_vars
        => HeaderInv' /\ HupNotLost' /\ JournalInv'
  BY HeaderStep, HupStep, RaisedStep, ExistsStep DEF JournalInv
<1>4. TypeOK /\ HeaderInv /\ HupNotLost /\ JournalInv /\ [Next]_vars => [Kept!Next]_(Kept!vars)
  BY JournalStep
<1> QED
  BY <1>1, <1>2, <1>3, <1>4, LogTypeCorrect, PTL DEF Spec, LogPromise, Kept!Spec
=============================================================================
