\* Connections c1..c3 as model values, the accept queue of MAX_CONNECTIONS = 2;
\* the application answers NONE to every on_new_client.
CONSTANTS
    Conns = {c1, c2, c3}
    Backlog = 2
    Actions = {"NONE"}
SPECIFICATION FairSpec
PROPERTIES UpdateErrorsContained
\* The application may close the server and stop; peers stop connecting.
CHECK_DEADLOCK FALSE
