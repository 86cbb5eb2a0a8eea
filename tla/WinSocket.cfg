CONSTANTS
    Conns = {c1, c2}
    Backlog = 2
    Actions = {"ACCEPT", "REJECT", "AUTO"}
SPECIFICATION FairSpec
INVARIANTS ConnectedOnlyWhenEstablished
PROPERTIES PendingDisposed GracefulCloseNoticed
CHECK_DEADLOCK FALSE
