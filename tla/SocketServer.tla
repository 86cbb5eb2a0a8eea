---------------------------- MODULE SocketServer ----------------------------
(***************************************************************************)
(* lib::socket::impl::tcp::server (POSIX) and its server::client sockets   *)
(* (src/include/lib/impl_posix/socket/tcp/server.cpp, server_client.cpp,  *)
(* src/include/lib/socket/server.cpp, server_client.cpp), with the kernel *)
(* side of the listening socket: peers connect into an accept queue of at *)
(* most Backlog connections and may reset a connection at any time.       *)
(*                                                                         *)
(* update() runs in steps, so that the kernel may act between them:       *)
(* UpdateBegin (the checks and updateFlushClients), one ServerPoll per    *)
(* iteration of updateServer's loop, and UpdateClients.  client_pollfds   *)
(* is kept index for index with clients by every operation, so the one   *)
(* sequence clients stands for both.  The callbacks the server fires      *)
(* (on_state_changed, on_new_client, on_client_state_changed) are the     *)
(* application's; it answers on_new_client from the set Actions and is    *)
(* assumed not to close the server from a callback, as the spec requires. *)
(***************************************************************************)
EXTENDS Naturals, Sequences, SequencesExt, FiniteSets

CONSTANTS
    Conns,     \* peer connections, each accepted into at most one server::client
    Backlog,   \* the kernel's accept queue length (MAX_CONNECTIONS)
    Actions    \* the NewClientAction answers the application may give

ServerStates == {"INITIAL", "BINDING", "BOUND", "LISTENING", "CLOSING", "CLOSED", "FAILED"}
ClientStates == {"none", "CONNECTED", "CLOSING", "CLOSED", "FAILED"}
PeerStates   == {"idle", "pending", "accepted", "rejected", "refused", "reset"}

ASSUME Actions \subseteq {"NONE", "ACCEPT", "REJECT", "AUTO"} /\ Backlog \in Nat \ {0}

VARIABLES
    srv,       \* lib::socket::server::state
    srvOpen,   \* is_open() of the listening socket
    clients,   \* the clients vector (and client_pollfds, index for index)
    upd,       \* where a running update() is: "idle", "server" or "clients"
    cst,       \* each connection's server::client state ("none": not accepted)
    copen,     \* is_open() of each server::client
    backlog,   \* the kernel's accept queue
    peer,      \* each connection as the peer sees it
    hup,       \* the peer reset the connection (POLLHUP on its descriptor)
    listening  \* the kernel queues connections for the listening socket

vars == <<srv, srvOpen, clients, upd, cst, copen, backlog, peer, hup, listening>>

Init ==
    /\ srv = "INITIAL" /\ srvOpen = FALSE
    /\ clients = <<>> /\ upd = "idle"
    /\ cst = [c \in Conns |-> "none"] /\ copen = [c \in Conns |-> FALSE]
    /\ backlog = <<>>
    /\ peer = [c \in Conns |-> "idle"] /\ hup = [c \in Conns |-> FALSE]
    /\ listening = FALSE

-----------------------------------------------------------------------------
(* server::client *)

\* server::client::isActive().
Active(s) == s \in {"CONNECTED", "CLOSING"}

\* server::client::close() of each client in cs: an open one is closed and
\* ends CLOSED, a closed one is left alone.
CloseClients(cs) ==
    /\ cst' = [c \in Conns |-> IF c \in cs /\ copen[c] THEN "CLOSED" ELSE cst[c]]
    /\ copen' = [c \in Conns |-> copen[c] /\ c \notin cs]

\* server::client::shutdown(): from CONNECTED a half-close, which moves it
\* to CLOSING (or, on an error other than EPIPE, to FAILED), and then
\* socket::shutdown(), which is close(): every path ends CLOSED.
ShutdownClients(cs) == CloseClients(cs)

\* The application's own calls on a client it holds (the test keeps the
\* SPtr it gets from on_client_state_changed): close(), shutdown(), or an
\* I/O call whose error check_error turns into FAILED.
AppCloseClient(c) ==
    /\ upd = "idle" /\ copen[c]
    /\ CloseClients({c})
    /\ UNCHANGED <<srv, srvOpen, clients, upd, backlog, peer, hup, listening>>

AppClientFails(c) ==
    /\ upd = "idle" /\ copen[c] /\ cst[c] # "FAILED"
    /\ cst' = [cst EXCEPT ![c] = "FAILED"]
    /\ UNCHANGED <<srv, srvOpen, clients, upd, copen, backlog, peer, hup, listening>>

-----------------------------------------------------------------------------
(* The kernel and the peers *)

\* A peer's connect(): queued while the socket listens (whatever state the
\* server object is in) and the queue has room, refused otherwise.
PeerConnect(c) ==
    /\ peer[c] = "idle"
    /\ IF listening /\ Len(backlog) < Backlog
       THEN /\ backlog' = Append(backlog, c)
            /\ peer' = [peer EXCEPT ![c] = "pending"]
       ELSE /\ peer' = [peer EXCEPT ![c] = "refused"]
            /\ UNCHANGED backlog
    /\ UNCHANGED <<srv, srvOpen, clients, upd, cst, copen, hup, listening>>

\* The peer resets its connection, queued or accepted: the kernel keeps a
\* queued one for accept(), and the descriptor reports POLLHUP.
PeerReset(c) ==
    /\ peer[c] \in {"pending", "accepted"} /\ ~hup[c]
    /\ hup' = [hup EXCEPT ![c] = TRUE]
    /\ UNCHANGED <<srv, srvOpen, clients, upd, cst, copen, backlog, peer, listening>>

-----------------------------------------------------------------------------
(* server *)

\* server::bind(), as the constructor calls it, and the constructor's
\* close() when it fails: open() may fail (FAILED, nothing open), ::bind()
\* may fail (FAILED, then close() leaves the server CLOSED).
Bind ==
    /\ srv = "INITIAL"
    /\ \/ srv' = "BOUND" /\ srvOpen' = TRUE
       \/ srv' = "FAILED" /\ srvOpen' = FALSE
       \/ srv' = "CLOSED" /\ srvOpen' = FALSE
    /\ UNCHANGED <<clients, upd, cst, copen, backlog, peer, hup, listening>>

\* server::bind() called again by the application on a CLOSED server (not
\* active, not failed): BINDING, open() a new socket (which may fail:
\* FAILED, nothing open), then ::bind(), whose failure leaves the server
\* FAILED with the socket open.
Rebind ==
    /\ srv = "CLOSED"
    /\ \/ srv' = "BOUND" /\ srvOpen' = TRUE
       \/ srv' = "FAILED" /\ srvOpen' \in BOOLEAN
    /\ UNCHANGED <<clients, upd, cst, copen, backlog, peer, hup, listening>>

\* server::listen(): only from BOUND; ::listen() may fail.
Listen ==
    /\ srv = "BOUND" /\ upd = "idle"
    /\ \/ srv' = "LISTENING" /\ listening' = TRUE
       \/ srv' = "FAILED" /\ UNCHANGED listening
    /\ UNCHANGED <<srvOpen, clients, upd, cst, copen, backlog, peer, hup>>

\* ::accept() of the head of the queue into a new server::client, CONNECTED,
\* appended to clients (on_client_state_changed fires).
Accepted ==
    /\ backlog' = Tail(backlog)
    /\ clients' = Append(clients, Head(backlog))
    /\ cst' = [cst EXCEPT ![Head(backlog)] = "CONNECTED"]
    /\ copen' = [copen EXCEPT ![Head(backlog)] = TRUE]
    /\ peer' = [peer EXCEPT ![Head(backlog)] = "accepted"]

\* reject(): ::accept() of the head of the queue and ::close() of it.
Rejected ==
    /\ backlog' = Tail(backlog)
    /\ peer' = [peer EXCEPT ![Head(backlog)] = "rejected"]
    /\ UNCHANGED <<clients, cst, copen>>

\* ::accept() with nothing queued fails with EAGAIN, and server::check_error
\* moves the server to FAILED whatever the error.
WouldBlock ==
    /\ srv' = "FAILED"
    /\ UNCHANGED <<clients, cst, copen, backlog, peer>>

\* server::accept() and server::reject(), which are public: while LISTENING
\* they take the head of the queue, or fail on an empty one.
AcceptOrFail == IF backlog = <<>> THEN WouldBlock ELSE Accepted /\ UNCHANGED srv
RejectOrFail == IF backlog = <<>> THEN WouldBlock ELSE Rejected /\ UNCHANGED srv

AppAccept ==
    /\ srv = "LISTENING" /\ upd = "idle"
    /\ AcceptOrFail
    /\ UNCHANGED <<srvOpen, upd, hup, listening>>

AppReject ==
    /\ srv = "LISTENING" /\ upd = "idle"
    /\ RejectOrFail
    /\ UNCHANGED <<srvOpen, upd, hup, listening>>

\* close() that clears the lists without closing the clients in them.
CloseServerKeepsClients ==
    /\ srvOpen
    /\ UNCHANGED <<cst, copen>>
    /\ clients' = <<>>
    /\ srvOpen' = FALSE /\ srv' \in {"CLOSED", "FAILED"}
    /\ backlog' = <<>> /\ listening' = FALSE
    /\ peer' = [c \in Conns |-> IF c \in ToSet(backlog) THEN "reset" ELSE peer[c]]

\* server::close() of an open server: close every client, clear the lists,
\* then close the listening socket (the kernel drops its queue); CLOSED,
\* or FAILED when ::close() fails.  server::shutdown() does the same: it
\* moves a LISTENING server to CLOSING and shuts every client down, which
\* closes it, then calls close().
CloseServer ==
    /\ srvOpen
    /\ CloseClients(ToSet(clients))
    /\ clients' = <<>>
    /\ srvOpen' = FALSE /\ srv' \in {"CLOSED", "FAILED"}
    /\ backlog' = <<>> /\ listening' = FALSE
    /\ peer' = [c \in Conns |-> IF c \in ToSet(backlog) THEN "reset" ELSE peer[c]]

AppClose ==
    /\ upd = "idle"
    /\ CloseServer
    /\ UNCHANGED <<upd, hup>>

-----------------------------------------------------------------------------
(* update() *)

\* The loop of updateFlushClients() advancing idx after an erase too.
RECURSIVE FlushClientsSkipNext(_, _)
FlushClientsSkipNext(cl, idx) ==
    IF idx > Len(cl) THEN cl
    ELSE IF Active(cst[cl[idx]]) THEN FlushClientsSkipNext(cl, idx + 1)
    ELSE FlushClientsSkipNext(RemoveAt(cl, idx), idx + 1)

\* The loop of updateFlushClients() from index idx: an active client is
\* stepped over, an inactive one erased at idx (and the loop looks at idx
\* again).
RECURSIVE FlushClients(_, _)
FlushClients(cl, idx) ==
    IF idx > Len(cl) THEN cl
    ELSE IF Active(cst[cl[idx]]) THEN FlushClients(cl, idx + 1)
    ELSE FlushClients(RemoveAt(cl, idx), idx)

\* server::update() up to updateServer(): FAILED returns false and any
\* other state but LISTENING returns true at once, neither changing
\* anything; otherwise updateFlushClients() closes and removes every
\* inactive client.
UpdateFlush(kept) ==
    /\ CloseClients(ToSet(clients) \ ToSet(kept))
    /\ clients' = kept

UpdateBegin ==
    /\ srv = "LISTENING" /\ upd = "idle"
    /\ UpdateFlush(FlushClients(clients, 1))
    /\ upd' = "server"
    /\ UNCHANGED <<srv, srvOpen, backlog, peer, hup, listening>>

\* updateServer() testing the wrong revents bit: a queued connection goes
\* unseen and the loop ends.
ServerPollMissesQueued ==
    /\ upd = "server"
    /\ upd' = "clients"
    /\ UNCHANGED <<srv, srvOpen, clients, cst, copen, backlog, peer, hup, listening>>

\* One iteration of updateServer()'s loop: poll() of the listening socket;
\* nothing queued ends the loop, a queued connection is put to
\* on_new_client, whose answer (AUTO unless changed) is carried out.  NONE
\* leaves the connection queued, and the loop polls again.  A failed
\* server ends update() with false.
ServerPoll ==
    /\ upd = "server"
    /\ IF backlog = <<>>
       THEN upd' = "clients" /\ UNCHANGED <<srv, clients, cst, copen, backlog, peer>>
       ELSE \E a \in Actions :
              /\ CASE a = "NONE"   -> UNCHANGED <<srv, clients, cst, copen, backlog, peer>>
                    [] a = "ACCEPT" -> AcceptOrFail
                    [] OTHER        -> RejectOrFail
              /\ upd' = IF srv' = "FAILED" THEN "idle" ELSE "server"
    /\ UNCHANGED <<srvOpen, hup, listening>>

\* What poll() reports for a client's descriptor: POLLNVAL once it is
\* closed; after a reset POLLHUP together with POLLIN and POLLERR.
Revents(c) ==
    IF ~copen[c] THEN {"NVAL"} ELSE IF hup[c] THEN {"HUP", "IN", "ERR"} ELSE {}

\* updateClients() checking POLLIN before POLLHUP.
ShutdownOnInFirst(r) == "IN" \notin r /\ "HUP" \in r

\* What updateClients() does with a descriptor's events: POLLHUP shuts the
\* client down; POLLIN is ignored; POLLNVAL and anything else only assert.
ShutdownOn(r) == "HUP" \in r

\* updateClients(): poll() of every client and shutdown() of those whose
\* events say so.  The loop visits the descriptors in order and stops after
\* the last one with an event, so it reaches every such descriptor.
UpdateClients ==
    /\ upd = "clients"
    /\ ShutdownClients({c \in ToSet(clients) : ShutdownOn(Revents(c))})
    /\ upd' = "idle"
    /\ UNCHANGED <<srv, srvOpen, clients, backlog, peer, hup, listening>>

Next ==
    \/ Bind \/ Rebind \/ Listen \/ AppAccept \/ AppReject \/ AppClose
    \/ UpdateBegin \/ ServerPoll \/ UpdateClients
    \/ \E c \in Conns :
          AppCloseClient(c) \/ AppClientFails(c) \/ PeerConnect(c) \/ PeerReset(c)

Spec == Init /\ [][Next]_vars

\* The application calls update() regularly, and a call, once made, runs
\* on; the rest (binding, listening, its own calls, the peers) is free.
Fairness == WF_vars(UpdateBegin) /\ WF_vars(ServerPoll) /\ WF_vars(UpdateClients)

FairSpec == Spec /\ Fairness

-----------------------------------------------------------------------------
(* Properties *)

\* close() closes every client before the listening socket: a server whose
\* socket is closed holds no clients, no client it accepted is still
\* open, and nothing waits in its accept queue.
ClosedServerHasNoClients ==
    ~srvOpen => clients = <<>> /\ backlog = <<>> /\ \A c \in Conns : ~copen[c]

\* When updateClients() polls, every client in the list is open: a client
\* the application closed since the last update() has been pruned by
\* updateFlushClients(), so no descriptor reports POLLNVAL (the assertion
\* "client.close() while update()").
PolledClientsOpen ==
    upd = "clients" => \A i \in 1..Len(clients) : copen[clients[i]]

\* A queued connection is eventually accepted or rejected by update()
\* (or dropped with the server), unless the server has failed.
PendingDisposed ==
    \A c \in Conns :
        peer[c] = "pending" ~> (peer[c] \in {"accepted", "rejected", "reset"} \/ srv = "FAILED")

\* A client whose peer reset the connection is eventually shut down by
\* update(), unless the server has failed or its socket is closed.
ResetClientsClosed ==
    \A c \in Conns :
        (hup[c] /\ copen[c]) ~> (~copen[c] \/ srv = "FAILED")

\* update() returns: the loop of updateServer() ends whatever the
\* application answers to on_new_client.
UpdateReturns == upd # "idle" ~> upd = "idle"

\* "Would block" is not fatal (spec, error classification): no step taken
\* while the server listens with nothing queued moves it to FAILED, short
\* of closing its socket.
WouldBlockNonFatal ==
    [][srv = "LISTENING" /\ backlog = <<>> => srv' # "FAILED" \/ ~srvOpen']_vars

\* The assertion in updateClients()'s loop: every descriptor it visits has
\* an event, that is, no descriptor without events comes before one with.
PollVisitsOnlyEvents ==
    [][upd = "clients" /\ upd' = "idle" =>
        \A i, j \in 1..Len(clients) :
            i < j /\ Revents(clients[j]) # {} => Revents(clients[i]) # {}]_vars

\* update() keeps a listening server serving: each call returns, an accept()
\* that would block does not fail the server, and updateClients()'s
\* assertion holds (the three properties above, each violated on its own).
UpdateErrorsContained == UpdateReturns /\ WouldBlockNonFatal /\ PollVisitsOnlyEvents

====
