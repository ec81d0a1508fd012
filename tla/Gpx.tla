-------------------------------- MODULE Gpx --------------------------------
(***************************************************************************)
(* The GPX writer: each method writes pieces of XML, or nothing, according *)
(* to where in the document it is.  The stream buffers; the file is opened *)
(* for appending, so what a crash leaves is continued by the next run.     *)
(* main() opens the document once, and closes it when it leaves the loop;  *)
(* between, the methods are taken in any order.  An error of an option or  *)
(* of a device that is met once the document is open makes main() return   *)
(* without closing it.  Writes to the track file are taken to succeed.     *)
(***************************************************************************)
EXTENDS Sequences, SequencesExt

CONSTANTS
    MaxPieces,    \* bound: pieces in the file and the buffer
    MaxRuns       \* bound: runs of the program

ASSUME GpxAssumption == MaxPieces \in Nat /\ MaxRuns \in Nat

VARIABLES
    file,             \* pieces in the file
    buffer,           \* pieces written and not flushed
    is_open,          \* _stream.is_open()
    inTrkPt, inExtensions,
    phase,            \* "down", "starting", "looping"
    runs, crashes,    \* how often the program was started, and killed
    abandoned         \* a run returned before the loop

state   == <<is_open, inTrkPt, inExtensions>>
gpxVars == <<file, buffer, state, phase, runs, crashes, abandoned>>

GpxInit ==
    /\ file = <<>> /\ buffer = <<>>
    /\ is_open = FALSE /\ inTrkPt = FALSE /\ inExtensions = FALSE
    /\ phase = "down" /\ runs = 0 /\ crashes = 0 /\ abandoned = FALSE

Room == Len(file) + Len(buffer) < MaxPieces

\* initialize(): header, track and segment.  A file that cannot be opened leaves
\* the stream closed, and every method without effect.
Initialize ==
    /\ phase = "down" /\ runs < MaxRuns
    /\ phase' = "starting" /\ runs' = runs + 1
    /\ inTrkPt' = FALSE /\ inExtensions' = FALSE
    /\ \E opens \in BOOLEAN :
          is_open' = opens /\ buffer' = IF opens THEN <<"gpx">> ELSE <<>>
    /\ UNCHANGED <<file, crashes, abandoned>>

EnterLoop ==
    /\ phase = "starting" /\ phase' = "looping"
    /\ UNCHANGED <<file, buffer, state, runs, crashes, abandoned>>

\* A column of the row that is not known, no GPIO, no I2C bus or no such address:
\* the stream's destructor flushes what was written, and nobody ends the document.
Abandon ==
    /\ phase = "starting"
    /\ phase' = "down" /\ abandoned' = TRUE
    /\ file' = file \o buffer /\ buffer' = <<>>
    /\ is_open' = FALSE /\ inTrkPt' = FALSE /\ inExtensions' = FALSE
    /\ UNCHANGED <<runs, crashes>>

StartTrkPt ==
    /\ phase = "looping" /\ Room
    /\ is_open /\ ~inTrkPt
    /\ buffer' = Append(buffer, "trkpt") /\ inTrkPt' = TRUE
    /\ UNCHANGED <<file, is_open, inExtensions, phase, runs, crashes, abandoned>>

AddExtension ==
    /\ phase = "looping" /\ Room
    /\ is_open /\ inTrkPt
    /\ buffer' = buffer \o (IF inExtensions THEN <<"rpm">> ELSE <<"extensions", "rpm">>)
    /\ inExtensions' = TRUE
    /\ UNCHANGED <<file, is_open, inTrkPt, phase, runs, crashes, abandoned>>

\* Mutant: the extensions stay open in the next point.
TrkPtEndForgets == <<"/trkpt">>

TrkPtEnd == IF inExtensions THEN <<"/extensions", "/trkpt">> ELSE <<"/trkpt">>

EndTrkPt ==
    /\ phase = "looping"
    /\ is_open /\ inTrkPt
    /\ buffer' = buffer \o TrkPtEnd
    /\ inTrkPt' = FALSE /\ inExtensions' = FALSE
    /\ UNCHANGED <<file, is_open, phase, runs, crashes, abandoned>>

\* addTrkPt(): a point without extensions; inside a point it does nothing.
AddTrkPt ==
    /\ phase = "looping" /\ Room
    /\ is_open /\ ~inTrkPt
    /\ buffer' = buffer \o <<"trkpt", "/trkpt">>
    /\ UNCHANGED <<file, state, phase, runs, crashes, abandoned>>

\* Mutant: the point is ended, the document is not.
EndingForgotten == IF inTrkPt THEN TrkPtEnd ELSE <<>>

Ending == (IF inTrkPt THEN TrkPtEnd ELSE <<>>) \o <<"/gpx">>

\* close(): ends a point that is open, then the document; the stream is flushed.
Close ==
    /\ phase = "looping"
    /\ phase' = "down" /\ is_open' = FALSE
    /\ inTrkPt' = FALSE /\ inExtensions' = FALSE
    /\ file' = file \o buffer \o (IF is_open THEN Ending ELSE <<>>)
    /\ buffer' = <<>>
    /\ UNCHANGED <<runs, crashes, abandoned>>

Flush ==
    /\ phase # "down" /\ buffer # <<>>
    /\ \E n \in 1 .. Len(buffer) :
          /\ file' = file \o SubSeq(buffer, 1, n)
          /\ buffer' = SubSeq(buffer, n + 1, Len(buffer))
    /\ UNCHANGED <<state, phase, runs, crashes, abandoned>>

\* The power is cut: what is not flushed is lost.
Crash ==
    /\ phase # "down"
    /\ phase' = "down" /\ crashes' = crashes + 1
    /\ buffer' = <<>> /\ is_open' = FALSE /\ inTrkPt' = FALSE /\ inExtensions' = FALSE
    /\ UNCHANGED <<file, runs, abandoned>>

GpxNext ==
    \/ Initialize \/ EnterLoop \/ Abandon \/ StartTrkPt \/ AddExtension \/ EndTrkPt \/ AddTrkPt
    \/ Close \/ Flush \/ Crash

GpxSpec == GpxInit /\ [][GpxNext]_gpxVars
----------------------------------------------------------------------------
(* Properties.                                                             *)

MayFollow(piece) ==
    CASE piece = "gpx"         -> {"trkpt", "/gpx"}
      [] piece = "trkpt"       -> {"extensions", "/trkpt"}
      [] piece = "extensions"  -> {"rpm"}
      [] piece = "rpm"         -> {"rpm", "/extensions"}
      [] piece = "/extensions" -> {"/trkpt"}
      [] piece = "/trkpt"      -> {"trkpt", "/gpx"}
      [] piece = "/gpx"        -> {}

\* Whatever order the methods are called in, wherever a crash cuts the file and
\* a later run goes on: the pieces of a run form the beginning of a document.
EachRunNests ==
    LET all == file \o buffer
    IN  /\ all # <<>> => all[1] = "gpx"
        /\ \A k \in 1 .. Len(all) - 1 :
              all[k + 1] \in MayFollow(all[k]) \cup {"gpx"}

\* What the last piece of a run may be: the end of the document or, if a run
\* returned before the loop, the bare header.
RunsEndWith == {"/gpx"} \cup (IF abandoned THEN {"gpx"} ELSE {})

\* Without a crash every run that reaches the loop leaves a whole document, and one
\* that does not a header without an end, or nothing: that is all that stands
\* before a new document, and in the file when the program is down.
CleanRunsAreWhole ==
    crashes = 0 =>
        /\ \A k \in 2 .. Len(file) : file[k] = "gpx" => file[k - 1] \in RunsEndWith
        /\ phase = "down" /\ file # <<>> => file[Len(file)] \in RunsEndWith
=============================================================================
