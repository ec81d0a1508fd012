\* A phone that connects while the front controls are unplugged.
SPECIFICATION Spec
CONSTANTS
    Fds = {3, 4, 5}
    MaxConns = 1
    MaxPlugs = 1
    MaxInbox = 1
INVARIANT DashboardReadWasReported
