\* Connections c1..c3 as model values, the accept queue of MAX_CONNECTIONS = 2.
\* The application answers on_new_client with anything but NONE (run
\* socket_none_livelock shows that NONE keeps update() from returning).
CONSTANTS
    Conns = {c1, c2, c3}
    Backlog = 2
    Actions = {"ACCEPT", "REJECT", "AUTO"}
SPECIFICATION FairSpec
INVARIANTS ClosedServerHasNoClients PolledClientsOpen
PROPERTIES PendingDisposed ResetClientsClosed
\* The application may close the server and stop; peers stop connecting.
CHECK_DEADLOCK FALSE
