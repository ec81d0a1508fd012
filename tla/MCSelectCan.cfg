\* A CAN interface that is removed and comes back.
SPECIFICATION FairSpec
CONSTANTS
    Fds = {3, 4, 5}
    MaxConns = 1
    MaxPlugs = 1
    MaxInbox = 1
PROPERTY CanReconnects
