----------------------------- MODULE WinSocket ------------------------------
(***************************************************************************)
(* The Windows TCP backend (src/include/lib/impl_windows/socket/tcp): a   *)
(* tcp::server with its server::client sockets, and for each connection c *)
(* the tcp::client at the other end, over Winsock's event-select model.  *)
(*                                                                         *)
(* Winsock records network events per socket (WSAEventSelect); an event   *)
(* object is signalled while a record is pending, and WSAEnumNetworkEvents *)
(* hands over and clears every pending record at once.  FD_CONNECT and    *)
(* FD_CLOSE are posted once per connection; FD_ACCEPT is posted when a    *)
(* connection is queued and then not again until accept() re-enables it.  *)
(* A record is "none" (nothing posted), "ok" or "err" (posted with a zero *)
(* or an error code, not yet enumerated) or "taken" (enumerated).         *)
(*                                                                         *)
(* A socket that is closed sends a FIN ("ok") or, when unread data is     *)
(* left in it, a reset ("err"); the data is not modelled, so closesocket  *)
(* chooses; shutdown(SD_SEND) sends a FIN.  The server's update() runs in *)
(* steps (UpdateBegin, ServerPoll, UpdateClients per signalled client) so *)
(* that the peers may act between them; the application does not call    *)
(* the server from inside its callbacks.  Each tcp::client makes one      *)
(* connection attempt.                                                     *)
(***************************************************************************)
EXTENDS Naturals, Sequences, SequencesExt, FiniteSets

CONSTANTS
    Conns,     \* connections: a tcp::client and, if accepted, a server::client
    Backlog,   \* the accept queue length (MAX_CONNECTIONS)
    Actions    \* the NewClientAction answers the application may give

ServerStates == {"INITIAL", "BINDING", "BOUND", "LISTENING", "CLOSING", "CLOSED", "FAILED"}
SrvClientStates == {"none", "CONNECTED", "CLOSING", "CLOSED", "FAILED"}
ClientStates == {"INITIAL", "CONNECTING", "CONNECTED", "DISCONNECTING", "DISCONNECTED", "FAILED"}
LinkStates == {"idle", "syn", "queued", "accepted", "rejected", "refused", "dropped"}
Records == {"none", "ok", "err", "taken"}
Kinds == {"ok", "err"}

ASSUME Actions \subseteq {"NONE", "ACCEPT", "REJECT", "AUTO"} /\ Backlog \in Nat \ {0}

VARIABLES
    srv,         \* lib::socket::server::state
    srvOpen,     \* is_open() of the listening socket
    listening,   \* the kernel queues connections for it
    acceptRec,   \* an FD_ACCEPT record is pending on the listening socket
    acceptArmed, \* FD_ACCEPT will be posted when a connection is queued
    backlog,     \* the accept queue
    clients,     \* the clients vector (client_events is kept index for index)
    upd,         \* where a running server::update() is
    scst,        \* each server::client's state ("none": not accepted)
    scopen,      \* is_open() of each server::client
    sRec,        \* each server::client's FD_CLOSE record
    cst,         \* each tcp::client's state
    copen,       \* is_open() of each tcp::client
    cerr,        \* each tcp::client's sticky base::error_
    cConn,       \* each tcp::client's FD_CONNECT record
    cClose,      \* each tcp::client's FD_CLOSE record
    link,        \* each TCP connection as the kernel sees it
    finToSrv,    \* how the client end closed ("none": open)
    finToCli     \* how the server end closed ("none": open)

srvVars == <<srv, srvOpen, listening, acceptRec, acceptArmed, backlog, clients, upd>>
scVars == <<scst, scopen, sRec>>
cliVars == <<cst, copen, cerr, cConn, cClose>>
netVars == <<link, finToSrv, finToCli>>
vars == <<srvVars, scVars, cliVars, netVars>>

Init ==
    /\ srv = "INITIAL" /\ srvOpen = FALSE /\ listening = FALSE
    /\ acceptRec = FALSE /\ acceptArmed = FALSE
    /\ backlog = <<>> /\ clients = <<>> /\ upd = "idle"
    /\ scst = [c \in Conns |-> "none"] /\ scopen = [c \in Conns |-> FALSE]
    /\ sRec = [c \in Conns |-> "none"]
    /\ cst = [c \in Conns |-> "INITIAL"] /\ copen = [c \in Conns |-> FALSE]
    /\ cerr = [c \in Conns |-> FALSE]
    /\ cConn = [c \in Conns |-> "none"] /\ cClose = [c \in Conns |-> "none"]
    /\ link = [c \in Conns |-> "idle"]
    /\ finToSrv = [c \in Conns |-> "none"] /\ finToCli = [c \in Conns |-> "none"]

\* A pending record signals the socket's event object.
Pending(r) == r \in Kinds

\* Enumerating a record hands it over and clears it.
Taken(r) == IF Pending(r) THEN "taken" ELSE r

-----------------------------------------------------------------------------
(* The two ends of a connection closing *)

\* The server ends of the connections in gone close, each as k[c] says: the
\* tcp::client at the other end gets FD_CLOSE if its socket is open.
FinFromServer(gone, k) ==
    /\ finToCli' = [c \in Conns |-> IF c \in gone /\ finToCli[c] = "none" THEN k[c] ELSE finToCli[c]]
    /\ cClose' = [c \in Conns |->
                    IF c \in gone /\ copen[c] /\ cClose[c] = "none" THEN k[c] ELSE cClose[c]]

\* The client end of c closes as kind k: a connection still in its
\* handshake is abandoned; otherwise the server end gets FD_CLOSE, at once
\* if it has been accepted, or when accept() selects its events.
FinFromClient(c, k) ==
    /\ link' = [link EXCEPT ![c] = IF @ = "syn" THEN "dropped" ELSE @]
    /\ finToSrv' = [finToSrv EXCEPT ![c] =
                      IF @ = "none" /\ link[c] \in {"queued", "accepted"} THEN k ELSE @]
    /\ sRec' = [sRec EXCEPT ![c] = IF scopen[c] /\ @ = "none" THEN k ELSE @]

-----------------------------------------------------------------------------
(* tcp::client *)

\* client::connect() from a fresh client: CONNECTING, base::open() (whose
\* ::socket may fail: check_error records the error and moves to FAILED),
\* then a non-blocking ::connect, which returns WSAEWOULDBLOCK (the
\* handshake goes on, FD_CONNECT and FD_CLOSE are selected) or fails
\* (error_ and FAILED, the socket left open).
ClientConnect(c) ==
    /\ cst[c] = "INITIAL"
    /\ \/ /\ cst' = [cst EXCEPT ![c] = "FAILED"] /\ cerr' = [cerr EXCEPT ![c] = TRUE]
          /\ UNCHANGED <<copen, link>>
       \/ /\ copen' = [copen EXCEPT ![c] = TRUE]
          /\ \/ /\ cst' = [cst EXCEPT ![c] = "CONNECTING"]
                /\ link' = [link EXCEPT ![c] = "syn"]
                /\ UNCHANGED cerr
             \/ /\ cst' = [cst EXCEPT ![c] = "FAILED"] /\ cerr' = [cerr EXCEPT ![c] = TRUE]
                /\ UNCHANGED link
    /\ UNCHANGED <<srvVars, scVars, cConn, cClose, finToSrv, finToCli>>

\* client::update() accepting an FD_CONNECT record whatever its error code.
ClientUpdateIgnoresError(c) ==
    /\ cst[c] \in {"CONNECTING", "CONNECTED"} /\ ~cerr[c]
    /\ Pending(cConn[c]) \/ Pending(cClose[c])
    /\ cConn' = [cConn EXCEPT ![c] = Taken(@)]
    /\ cClose' = [cClose EXCEPT ![c] = Taken(@)]
    /\ IF Pending(cConn[c])
       THEN cst' = [cst EXCEPT ![c] = "CONNECTED"] /\ UNCHANGED cerr
       ELSE IF cClose[c] = "err"
       THEN cerr' = [cerr EXCEPT ![c] = TRUE] /\ UNCHANGED cst
       ELSE cst' = [cst EXCEPT ![c] = "DISCONNECTING"] /\ UNCHANGED cerr
    /\ UNCHANGED <<srvVars, scVars, copen, netVars>>

\* client::update(): nothing when FAILED or when base::update() reports the
\* sticky error, nor outside CONNECTING and CONNECTED, nor while the event
\* is not signalled.  Otherwise WSAEnumNetworkEvents takes every pending
\* record; FD_CONNECT is looked at first and FD_CLOSE only without it.  A
\* record with an error code goes through check_wsa_error, which keeps it
\* in error_ and update() returns false with the state unchanged.
ClientUpdate(c) ==
    /\ cst[c] \in {"CONNECTING", "CONNECTED"} /\ ~cerr[c]
    /\ Pending(cConn[c]) \/ Pending(cClose[c])
    /\ cConn' = [cConn EXCEPT ![c] = Taken(@)]
    /\ cClose' = [cClose EXCEPT ![c] = Taken(@)]
    /\ LET r == IF Pending(cConn[c]) THEN cConn[c] ELSE cClose[c]
       IN  IF r = "err"
           THEN cerr' = [cerr EXCEPT ![c] = TRUE] /\ UNCHANGED cst
           ELSE /\ cst' = [cst EXCEPT ![c] = IF Pending(cConn[c]) THEN "CONNECTED"
                                                                  ELSE "DISCONNECTING"]
                /\ UNCHANGED cerr
    /\ UNCHANGED <<srvVars, scVars, copen, netVars>>

\* client::close(): closesocket, then DISCONNECTED.  client::shutdown() of
\* a CONNECTED client first sends a FIN (DISCONNECTING) and then closes.
ClientClose(c, k) ==
    /\ copen[c]
    /\ copen' = [copen EXCEPT ![c] = FALSE]
    /\ cst' = [cst EXCEPT ![c] = "DISCONNECTED"]
    /\ FinFromClient(c, k)
    /\ UNCHANGED <<srvVars, scst, scopen, cerr, cConn, cClose, finToCli>>

ClientShutdown(c, k) == ClientClose(c, IF cst[c] = "CONNECTED" THEN "ok" ELSE k)

\* An I/O call of the application on a connection the server end reset:
\* client::check_error takes WSAECONNRESET as DISCONNECTING.
ClientIoReset(c) ==
    /\ copen[c] /\ finToCli[c] = "err" /\ cst[c] = "CONNECTED"
    /\ cst' = [cst EXCEPT ![c] = "DISCONNECTING"]
    /\ UNCHANGED <<srvVars, scVars, copen, cerr, cConn, cClose, netVars>>

-----------------------------------------------------------------------------
(* The kernel *)

\* The handshake of a connecting tcp::client: queued while the server's
\* socket listens and the queue has room (FD_CONNECT with no error, and
\* FD_ACCEPT if it is armed), refused otherwise (FD_CONNECT with an error).
Handshake(c) ==
    /\ link[c] = "syn"
    /\ IF listening /\ Len(backlog) < Backlog
       THEN /\ link' = [link EXCEPT ![c] = "queued"]
            /\ backlog' = Append(backlog, c)
            /\ cConn' = [cConn EXCEPT ![c] = "ok"]
            /\ acceptRec' = (acceptRec \/ acceptArmed) /\ acceptArmed' = FALSE
       ELSE /\ link' = [link EXCEPT ![c] = "refused"]
            /\ cConn' = [cConn EXCEPT ![c] = "err"]
            /\ UNCHANGED <<backlog, acceptRec, acceptArmed>>
    /\ UNCHANGED <<srv, srvOpen, listening, clients, upd, scVars>>
    /\ UNCHANGED <<cst, copen, cerr, cClose, finToSrv, finToCli>>

-----------------------------------------------------------------------------
(* server::client *)

\* server::client::isActive().
SrvClientActive(s) == s \in {"CONNECTED", "CLOSING"}

\* server::client::close() of the open clients among cs, each sending
\* k[c]; server::client::shutdown() is a FIN (CLOSING) and then close().
\* Both end CLOSED.
CloseSrvClients(cs, k) ==
    LET gone == {c \in cs : scopen[c]}
    IN  /\ scst' = [c \in Conns |-> IF c \in gone THEN "CLOSED" ELSE scst[c]]
        /\ scopen' = [c \in Conns |-> scopen[c] /\ c \notin gone]
        /\ FinFromServer(gone, k)

\* The application's close() or shutdown() of a client it holds.
AppCloseClient(c, kind) ==
    /\ upd = "idle" /\ scopen[c]
    /\ CloseSrvClients({c}, [x \in Conns |-> kind])
    /\ UNCHANGED <<srvVars, sRec, cst, copen, cerr, cConn, link, finToSrv>>

\* An I/O call of the application failing: server::client::check_error
\* moves the client to FAILED on any error but WSAESHUTDOWN.
AppClientFails(c) ==
    /\ upd = "idle" /\ scopen[c] /\ scst[c] # "FAILED"
    /\ scst' = [scst EXCEPT ![c] = "FAILED"]
    /\ UNCHANGED <<srvVars, scopen, sRec, cliVars, netVars>>

-----------------------------------------------------------------------------
(* server *)

\* The constructor's bind(): open() may fail (FAILED, nothing open); a
\* failing ::bind() makes check_error move to FAILED, and the
\* constructor's close() then leaves the server CLOSED.
Bind ==
    /\ srv = "INITIAL"
    /\ \/ srv' = "BOUND" /\ srvOpen' = TRUE
       \/ srv' \in {"FAILED", "CLOSED"} /\ srvOpen' = FALSE
    /\ UNCHANGED <<listening, acceptRec, acceptArmed, backlog, clients, upd, scVars, cliVars, netVars>>

\* server::listen(): only from BOUND; ::listen() or WSAEventSelect() may
\* fail (FAILED); otherwise LISTENING with FD_ACCEPT selected.
Listen ==
    /\ srv = "BOUND" /\ upd = "idle"
    /\ \/ /\ srv' = "LISTENING" /\ listening' = TRUE /\ acceptArmed' = TRUE
       \/ /\ srv' = "FAILED" /\ UNCHANGED <<listening, acceptArmed>>
    /\ UNCHANGED <<srvOpen, acceptRec, backlog, clients, upd, scVars, cliVars, netVars>>

\* ::accept() re-enables FD_ACCEPT: posted again at once if more
\* connections wait, armed otherwise.  It clears no pending record: pend
\* is whether one is pending when it is called.
Rearm(pend, rest) ==
    /\ acceptRec' = (pend \/ rest # <<>>)
    /\ acceptArmed' = (rest = <<>>)

\* ::accept() with nothing queued fails with WSAEWOULDBLOCK, which
\* server::check_error turns into FAILED like any error but WSAENOTCONN.
WouldBlock(pend) ==
    /\ srv' = "FAILED" /\ acceptRec' = pend
    /\ UNCHANGED <<acceptArmed, backlog, clients, scVars, cliVars, netVars>>

\* server::accept(): the head of the queue becomes a CONNECTED
\* server::client with FD_CLOSE selected (posted at once if its peer has
\* already closed), appended to clients and client_events.
Accepted(pend) ==
    LET c == Head(backlog)
    IN  /\ backlog' = Tail(backlog) /\ Rearm(pend, Tail(backlog))
        /\ clients' = Append(clients, c)
        /\ link' = [link EXCEPT ![c] = "accepted"]
        /\ scst' = [scst EXCEPT ![c] = "CONNECTED"]
        /\ scopen' = [scopen EXCEPT ![c] = TRUE]
        /\ sRec' = [sRec EXCEPT ![c] = finToSrv[c]]
        /\ UNCHANGED <<srv, cliVars, finToSrv, finToCli>>

\* server::reject(): ::accept() of the head of the queue and closesocket.
Rejected(pend, kind) ==
    LET c == Head(backlog)
    IN  /\ backlog' = Tail(backlog) /\ Rearm(pend, Tail(backlog))
        /\ link' = [link EXCEPT ![c] = "rejected"]
        /\ FinFromServer({c}, [x \in Conns |-> kind])
        /\ UNCHANGED <<srv, clients, scVars, cst, copen, cerr, cConn, finToSrv>>

AcceptOrFail(pend) == IF backlog = <<>> THEN WouldBlock(pend) ELSE Accepted(pend)
RejectOrFail(pend) ==
    IF backlog = <<>> THEN WouldBlock(pend) ELSE \E k \in Kinds : Rejected(pend, k)

AppAccept ==
    /\ srv = "LISTENING" /\ upd = "idle"
    /\ AcceptOrFail(acceptRec)
    /\ UNCHANGED <<srvOpen, listening, upd>>

AppReject ==
    /\ srv = "LISTENING" /\ upd = "idle"
    /\ RejectOrFail(acceptRec)
    /\ UNCHANGED <<srvOpen, listening, upd>>

\* server::close(): close every client, clear the lists, then close the
\* listening socket, which resets the queued connections; CLOSED, or
\* FAILED when closesocket fails.  server::shutdown() of a LISTENING
\* server shuts every client down (a FIN each) and then calls close().
CloseServer(k) ==
    LET gone == {c \in ToSet(clients) : scopen[c]}
        dropped == ToSet(backlog)
    IN  /\ srvOpen
        /\ scst' = [c \in Conns |-> IF c \in gone THEN "CLOSED" ELSE scst[c]]
        /\ scopen' = [c \in Conns |-> scopen[c] /\ c \notin gone]
        /\ FinFromServer(gone \cup dropped, [c \in Conns |-> IF c \in dropped THEN "err" ELSE k[c]])
        /\ link' = [c \in Conns |-> IF c \in dropped THEN "dropped" ELSE link[c]]
        /\ clients' = <<>> /\ backlog' = <<>>
        /\ srvOpen' = FALSE /\ srv' \in {"CLOSED", "FAILED"}
        /\ listening' = FALSE /\ acceptRec' = FALSE /\ acceptArmed' = FALSE
        /\ UNCHANGED <<sRec, cst, copen, cerr, cConn, finToSrv>>

AppClose ==
    /\ upd = "idle"
    /\ \E k \in [Conns -> Kinds] : CloseServer(k)
    /\ UNCHANGED upd

AppShutdown ==
    /\ upd = "idle" /\ srv = "LISTENING"
    /\ CloseServer([c \in Conns |-> "ok"])
    /\ UNCHANGED upd

-----------------------------------------------------------------------------
(* server::update() *)

\* The loop of updateFlushClients(): every client that is not active is
\* closed (a no-op for one already closed) and erased with its event.
FlushClients(cl) == SelectSeq(cl, LAMBDA c : SrvClientActive(scst[c]))

\* server::update(): FAILED returns false, any state but LISTENING returns
\* true at once; otherwise base::update() (no sticky error here, since
\* check_error fails the server with every error it keeps) and
\* updateFlushClients().
UpdateBegin ==
    LET kept == FlushClients(clients)
        gone == {c \in ToSet(clients) \ ToSet(kept) : scopen[c]}
    IN  /\ srv = "LISTENING" /\ upd = "idle"
        /\ clients' = kept
        /\ \E kind \in Kinds :
              /\ scst' = [c \in Conns |-> IF c \in gone THEN "CLOSED" ELSE scst[c]]
              /\ scopen' = [c \in Conns |-> scopen[c] /\ c \notin gone]
              /\ FinFromServer(gone, [c \in Conns |-> kind])
        /\ upd' = "server"
        /\ UNCHANGED <<srv, srvOpen, listening, acceptRec, acceptArmed, backlog, sRec>>
        /\ UNCHANGED <<cst, copen, cerr, cConn, link, finToSrv>>

\* updateServer()'s switch taking AUTO as NONE.
AnswerAutoIgnored(a) ==
    CASE a \in {"NONE", "AUTO"} -> /\ acceptRec' = FALSE
                                   /\ UNCHANGED <<srv, acceptArmed, backlog, clients, scVars, cliVars, netVars>>
      [] a = "ACCEPT" -> AcceptOrFail(FALSE)
      [] OTHER        -> RejectOrFail(FALSE)

\* The answer to on_new_client carried out: NONE leaves the connection
\* queued, ACCEPT accepts it, REJECT and AUTO reject it.  pend is FALSE:
\* the record has just been enumerated.
Answer(a) ==
    CASE a = "NONE"   -> /\ acceptRec' = FALSE
                         /\ UNCHANGED <<srv, acceptArmed, backlog, clients, scVars, cliVars, netVars>>
      [] a = "ACCEPT" -> AcceptOrFail(FALSE)
      [] OTHER        -> RejectOrFail(FALSE)

\* One pass of updateServer(): without a pending FD_ACCEPT the event is not
\* signalled and the loop ends; otherwise WSAEnumNetworkEvents takes the
\* record, on_new_client answers, the answer is carried out, and the loop
\* ends (false if the server failed).
ServerPoll ==
    /\ upd = "server"
    /\ IF ~acceptRec
       THEN /\ upd' = "clients"
            /\ UNCHANGED <<srv, acceptRec, acceptArmed, backlog, clients, scVars, cliVars, netVars>>
       ELSE /\ \E a \in Actions : Answer(a)
            /\ upd' = IF srv' = "FAILED" THEN "idle" ELSE "clients"
    /\ UNCHANGED <<srvOpen, listening>>

\* updateClients() testing the error code the wrong way round.
OnClientCloseInverted(c) ==
    IF sRec[c] = "err"
    THEN /\ scst' = [scst EXCEPT ![c] = "CLOSED"]
         /\ scopen' = [scopen EXCEPT ![c] = FALSE]
         /\ FinFromServer({c}, [x \in Conns |-> "ok"])
    ELSE UNCHANGED <<scst, scopen, cClose, finToCli>>

\* The FD_CLOSE record of client c handled: a zero error code shuts the
\* client down (a FIN, CLOSING, then close(): CLOSED); any other is skipped.
OnClientClose(c) ==
    IF sRec[c] = "ok"
    THEN /\ scst' = [scst EXCEPT ![c] = "CLOSED"]
         /\ scopen' = [scopen EXCEPT ![c] = FALSE]
         /\ FinFromServer({c}, [x \in Conns |-> "ok"])
    ELSE UNCHANGED <<scst, scopen, cClose, finToCli>>

\* One pass of updateClients(): WSAWaitForMultipleEvents reports the first
\* client whose FD_CLOSE is pending (none: the loop ends and update()
\* returns true); WSAEnumNetworkEvents takes the record, which is handled.
UpdateClients ==
    LET sig == SelectSeq(clients, LAMBDA c : Pending(sRec[c]))
    IN  /\ upd = "clients"
        /\ IF sig = <<>>
           THEN /\ upd' = "idle"
                /\ UNCHANGED <<scVars, cClose, finToCli>>
           ELSE LET c == Head(sig)
                IN  /\ sRec' = [sRec EXCEPT ![c] = "taken"]
                    /\ OnClientClose(c)
                    /\ UNCHANGED upd
        /\ UNCHANGED <<srv, srvOpen, listening, acceptRec, acceptArmed, backlog, clients>>
        /\ UNCHANGED <<cst, copen, cerr, cConn, link, finToSrv>>

Next ==
    \/ Bind \/ Listen \/ AppAccept \/ AppReject \/ AppClose \/ AppShutdown
    \/ UpdateBegin \/ ServerPoll \/ UpdateClients
    \/ \E c \in Conns :
          \/ AppClientFails(c) \/ ClientConnect(c) \/ ClientUpdate(c)
          \/ ClientIoReset(c) \/ Handshake(c)
          \/ \E k \in Kinds : AppCloseClient(c, k) \/ ClientClose(c, k) \/ ClientShutdown(c, k)

Spec == Init /\ [][Next]_vars

\* The application calls update() on the server and on every client
\* regularly, and a server update(), once called, runs on; the kernel
\* completes handshakes.  Everything else the application does is free.
Fairness ==
    /\ WF_vars(UpdateBegin) /\ WF_vars(ServerPoll) /\ WF_vars(UpdateClients)
    /\ \A c \in Conns : WF_vars(ClientUpdate(c)) /\ WF_vars(Handshake(c))

FairSpec == Spec /\ Fairness

-----------------------------------------------------------------------------
(* Properties *)


\* A tcp::client announces CONNECTED only for a connection the server's
\* kernel has queued: update() moves to CONNECTED on an FD_CONNECT record
\* with no error code, and a refused connect is kept in error_ instead.
ConnectedOnlyWhenEstablished ==
    \A c \in Conns : cst[c] = "CONNECTED" => link[c] \notin {"idle", "syn", "refused"}

\* A queued connection is eventually accepted or rejected by update(),
\* unless the server fails or closes: each FD_ACCEPT is answered, and the
\* accept() or reject() that answers it re-enables the next one.
PendingDisposed ==
    \A c \in Conns : link[c] = "queued" ~> (link[c] # "queued" \/ srv = "FAILED")

\* A server::client whose peer closed gracefully is eventually closed by
\* updateClients(), unless the server has failed.
GracefulCloseNoticed ==
    \A c \in Conns :
        (scopen[c] /\ finToSrv[c] = "ok") ~> (~scopen[c] \/ srv = "FAILED")

\* Each end notices that the other has closed (spec: update() detects a
\* hang-up and shuts the client down): a CONNECTED tcp::client leaves
\* CONNECTED, is closed or reports its error, and a server::client is
\* closed unless the server has failed, however the peer closed.
PeerCloseNoticed ==
    \A c \in Conns :
        /\ (copen[c] /\ cst[c] = "CONNECTED" /\ finToCli[c] # "none")
              ~> (cst[c] # "CONNECTED" \/ ~copen[c] \/ cerr[c])
        /\ (scopen[c] /\ finToSrv[c] # "none") ~> (~scopen[c] \/ srv = "FAILED")

\* Error classification (spec): a genuine failure moves the client to
\* FAILED.  A tcp::client holding a sticky error_ (FD_CONNECT or FD_CLOSE
\* with an error code, through check_wsa_error) is FAILED or closed, not
\* left CONNECTING or CONNECTED with every later update() returning false:
\* no step ends in such a state.
ErrorMeansFailed ==
    [][\A c \in Conns :
         (copen'[c] /\ cerr'[c]) => cst'[c] \notin {"CONNECTING", "CONNECTED"}]_vars

\* The Windows client and server as the spec describes them: each end
\* notices the other's close, an error fails the client, and a queued
\* connection is disposed of whatever on_new_client answers, NONE
\* included (the three properties, each violated on its own).
WinSocketContract == PeerCloseNoticed /\ ErrorMeansFailed /\ PendingDisposed

====
