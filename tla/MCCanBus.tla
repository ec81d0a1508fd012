------------------------------ MODULE MCCanBus ------------------------------
EXTENDS CanBus

Sensor(id, raw) == [id |-> id, raw |-> raw]

MCSensors ==
    {Sensor("body_position", 0), Sensor("ignitech_wb_2", 100),
     Sensor("front_controls", 0)}

\* A read-out, the LC-2's or the ignition box's lambda, a trip, words nobody set, a
\* PID and a mode that are not answered, and a request that is cut short, which is
\* taken for any of the two modes and 256 PIDs.
MCOther ==
    {Request(1, p, 8) : p \in {5, 12, 36, 128}}
    \cup {Request(53, 4, 8), Request(9, 2, 8), Request(1, 0, 3)}
=============================================================================
