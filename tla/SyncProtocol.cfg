\* Two connections, four sync() calls, streams holding two sync packets.
CONSTANTS
    Conns = {c1, c2}
    MaxQuant = 4
    Cap = 2
\* Each end's receive loop is weakly fair; sync() and the connections are not.
SPECIFICATION FairSpec
INVARIANTS TypeOK SyncedReceived
PROPERTIES LowerQuantMonotone SyncSettles
\* The application calls sync() and connects at will; once it stops and
\* every packet has arrived the system is idle.
CHECK_DEADLOCK FALSE
