\* Two phones, a port plugged in twice, and a CAN interface that comes and goes.
\* Two numbers: enough for the port and one connection, so that a leaked connection
\* and a held one leave none for the port.
SPECIFICATION FairSpec
CONSTANTS
    Fds = {3, 4}
    MaxConns = 2
    MaxPlugs = 2
    MaxInbox = 1
INVARIANTS
    HeldRight
    NoLeak
PROPERTIES
    FcReconnects
    HangUpNoticed
    CommandRead
    CanConnects
