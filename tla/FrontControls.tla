--------------------------- MODULE FrontControls ---------------------------
(***************************************************************************)
(* What readFC() makes of the bytes of the front controls' serial line.    *)
(* The device sends commands of CmdSize bytes, the last one a newline; the *)
(* voltage among them is binary, so it may hold a newline too.  The line   *)
(* delivers them in any portions.  Each call sees one portion, looks back  *)
(* from its end for a newline and takes the CmdSize bytes that end there.  *)
(*                                                                         *)
(* Bytes are numbered from 1 in the order they are sent.                   *)
(***************************************************************************)
EXTENDS Integers, FiniteSetsExt

CONSTANTS
    CmdSize,      \* FC_CMD_SIZE
    BufSize,      \* bytes one read() takes at most
    VoltageAt,    \* where in a command the voltage's bytes are
    MaxCmds       \* bound: commands the device sends

ASSUME FcAssumption ==
    /\ CmdSize \in Nat /\ BufSize \in Nat /\ MaxCmds \in Nat
    /\ 1 < CmdSize /\ CmdSize <= BufSize
    /\ VoltageAt \subseteq 1 .. CmdSize - 1

VARIABLES
    newlines,     \* command -> where its voltage holds a newline
    out,          \* bytes sent
    got,          \* bytes taken from the line
    held,         \* the inputs in log_data: the byte they were taken from first
    stray         \* the byte behind the portion was taken for a newline

fcVars == <<newlines, out, got, held, stray>>

Cmd(b)       == (b - 1) \div CmdSize + 1
Pos(b)       == ((b - 1) % CmdSize) + 1
IsNewline(b) == Pos(b) = CmdSize \/ Pos(b) \in newlines[Cmd(b)]

FcInit ==
    /\ newlines \in [1..MaxCmds -> SUBSET VoltageAt]
    /\ out = 0 /\ got = 0 /\ held = 0 /\ stray = FALSE

SendBytes ==
    /\ out < CmdSize * MaxCmds
    /\ out' = out + 1
    /\ UNCHANGED <<newlines, got, held, stray>>

\* Mutant: the first newline is taken.
FirstNewline(n, junk) ==
    Min({i \in 0 .. n - 1 : IsNewline(got + 1 + i)} \cup {n})

\* Index i of the portion holds byte got + 1 + i.  The search starts at index n,
\* one behind the portion: there lies whatever the stack held.
LastNewline(n, junk) ==
    Max({i \in 1 .. n - 1 : IsNewline(got + 1 + i)} \cup (IF junk THEN {n} ELSE {0}))

\* Mutant: the newline may lie anywhere.
EndsAnywhere(n, i, junk) == (i = n => junk) /\ (i < n => IsNewline(got + 1 + i))

EndsCommand(n, i, junk) ==
    i >= CmdSize - 1 /\ (i = n => junk) /\ (i < n => IsNewline(got + 1 + i))

\* readFC() with n bytes: fewer than a command are dropped.
ReadPortion(n, junk) ==
    /\ got' = got + n
    /\ LET i == LastNewline(n, junk)
       IN  IF n >= CmdSize /\ EndsCommand(n, i, junk)
           THEN held' = got + 1 + i - (CmdSize - 1) /\ stray' = (i = n)
           ELSE UNCHANGED <<held, stray>>
    /\ UNCHANGED <<newlines, out>>

FcRead ==
    \E n \in 1 .. BufSize, junk \in BOOLEAN : n <= out - got /\ ReadPortion(n, junk)

FcNext == SendBytes \/ FcRead

FcSpec == FcInit /\ [][FcNext]_fcVars
----------------------------------------------------------------------------
(* Properties.                                                             *)

Whole(b)      == Pos(b) = 1
CutOff(b)     == Pos(b) # CmdSize                 \* a portion ending at b cuts a command
HoldsNewline(b) == \E p \in newlines[Cmd(b)] : p <= Pos(b)

\* The inputs are taken from the portion just read, and are those of one command,
\* never the end of one and the start of the next, unless the portion ended inside
\* a command with a newline in its voltage, or the byte behind it was taken for one.
InputsOfOneCommand ==
    [][held' # held =>
         /\ held' \in got + 1 .. got'
         /\ \/ Whole(held')
            \/ stray'
            \/ CutOff(got') /\ HoldsNewline(got')]_fcVars

\* A portion that holds a command and ends with one leaves the newest command in
\* force, whatever was dropped before.
NewestCommandHeld ==
    [][got' >= got + CmdSize /\ ~CutOff(got') /\ ~stray' =>
         held' = got' - (CmdSize - 1)]_fcVars
=============================================================================
