\* Two connections, an accept queue of MAX_CONNECTIONS = 2, and every
\* answer to on_new_client, NONE included.
CONSTANTS
    Conns = {c1, c2}
    Backlog = 2
    Actions = {"NONE", "ACCEPT", "REJECT", "AUTO"}
SPECIFICATION FairSpec
PROPERTIES WinSocketContract
\* The application may close the server and stop; peers stop connecting.
CHECK_DEADLOCK FALSE
