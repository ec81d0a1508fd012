---------------------------- MODULE O2Power ----------------------------
(***************************************************************************)
(* What the program promises about the supply of the LC-2 oxygen sensor,   *)
(* without clocks, command queues or the order of the main loop.           *)
(*                                                                         *)
(* The supply is a GPIO pin.  It is raised for a running engine or on the  *)
(* rider's command, it drops when the engine stops unless the rider asked  *)
(* for it, and the only other way to find it high is that an earlier       *)
(* process died while it was high and nobody has written it since.         *)
(***************************************************************************)

VARIABLES
    running,     \* the program considers the engine running
    manual,      \* the rider switched the sensor on by hand
    pin,         \* level of the GPIO pin that powers the sensor
    inherited    \* the pin is high because a dead process left it high

vars == <<running, manual, pin, inherited>>

Init ==
    /\ running = FALSE
    /\ manual = FALSE
    /\ pin = "LOW"
    /\ inherited = FALSE

RaisePin == pin' = "HIGH" /\ inherited' = FALSE
DropPin  == pin' = "LOW"  /\ inherited' = FALSE
KeepPin  == UNCHANGED <<pin, inherited>>

\* The engine is (still) running: the sensor may be powered.
Run ==
    /\ running' = TRUE
    /\ UNCHANGED manual
    /\ RaisePin \/ KeepPin

\* The engine is (still) stopped: the sensor loses power unless held by hand.
Stop ==
    /\ running' = FALSE
    /\ UNCHANGED manual
    /\ IF manual THEN KeepPin ELSE DropPin

ManualOn ==
    /\ manual' = TRUE
    /\ UNCHANGED running
    /\ RaisePin

ManualOff ==
    /\ manual' = FALSE
    /\ UNCHANGED running
    /\ DropPin

\* A process that ends in order drops the pin ...
Shutdown ==
    /\ UNCHANGED <<running, manual>>
    /\ DropPin

\* ... and one that does not leaves it as it is to its successor.
Lose ==
    /\ running' = FALSE
    /\ manual' = FALSE
    /\ UNCHANGED pin
    /\ inherited' = (pin = "HIGH")

Next == Run \/ Stop \/ ManualOn \/ ManualOff \/ Shutdown \/ Lose

Spec == Init /\ [][Next]_vars
=============================================================================
