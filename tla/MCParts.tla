------------------------------ MODULE MCParts ------------------------------
(***************************************************************************)
(* Five parts that share no state, each checked on its own: the part is    *)
(* chosen at the start and the others stay as they are.                    *)
(***************************************************************************)
EXTENDS Codec, FrontControls, Gpx, Clocks, PathInsert

VARIABLE part

partsVars == <<part, codecVars, fcVars, gpxVars, clockVars, pathVars>>

\* Of the parts with several initial states, those not chosen take one.
PartsInit ==
    /\ part \in {"codec", "front_controls", "gpx", "clocks", "names"}
    /\ CodecInit /\ GpxInit
    /\ FcInit
    /\ part # "front_controls" => \A c \in 1..MaxCmds : newlines[c] = {}
    /\ ClocksInit
    /\ part # "clocks" => /\ wall = CHOOSE t \in Start : TRUE
                          /\ word = CHOOSE w \in Words : TRUE
    /\ IF part = "names" THEN PathInit ELSE path = <<>> /\ name = <<>>

CodecMoves ==
    part = "codec" /\ CodecNext
    /\ UNCHANGED <<part, fcVars, gpxVars, clockVars, pathVars>>
FcMoves ==
    part = "front_controls" /\ FcNext
    /\ UNCHANGED <<part, codecVars, gpxVars, clockVars, pathVars>>
GpxMoves ==
    part = "gpx" /\ GpxNext
    /\ UNCHANGED <<part, codecVars, fcVars, clockVars, pathVars>>
ClocksMove ==
    part = "clocks" /\ ClocksNext
    /\ UNCHANGED <<part, codecVars, fcVars, gpxVars, pathVars>>
NamesMove ==
    part = "names" /\ Insert
    /\ UNCHANGED <<part, codecVars, fcVars, gpxVars, clockVars>>

PartsSpec ==
    PartsInit /\ [][CodecMoves \/ FcMoves \/ GpxMoves \/ ClocksMove \/ NamesMove]_partsVars

\* Every PID the code has an arm for, and some it has not.
MCPids ==
    (0..28) \cup (31..112) \cup {128, 142, 160, 166, 192, 255}
=============================================================================
