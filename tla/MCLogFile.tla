--------------------------- MODULE MCLogFile ---------------------------
(* Option sets for model checking LogFile.                                 *)
EXTENDS LogFile

Counter == [output |-> TRUE, date |-> FALSE]
Dated   == [output |-> TRUE, date |-> TRUE]
NoFile  == [output |-> FALSE, date |-> FALSE]

MCOptions == {Counter, Dated, NoFile}
MCNoLog   == {NoFile}
MCWithLog == {Counter}
=============================================================================
