---------------------------- MODULE SocketClient ----------------------------
(***************************************************************************)
(* lib::socket::client driven by the POSIX client                          *)
(* (src/include/lib/impl_posix/socket/unix/client.cpp over unix/base.cpp;  *)
(* tcp/client.cpp is the same code line for line over a tcp base).         *)
(*                                                                         *)
(* The application calls connect(), update(), read(), write(), shutdown() *)
(* and close(); the kernel completes or refuses a pending connect and the *)
(* peer hangs up.  The socket's descriptor is abstracted to open (sock >= *)
(* 0) and the kernel connection behind it to conn.  Every setState() call *)
(* of a step is listed in order, and notified records the state-change    *)
(* notifications they fire.                                                *)
(*                                                                         *)
(* Kernel results are those of Linux: a zero-length read() returns 0      *)
(* whatever the connection (sock_read_iter), poll() with no requested     *)
(* events reports only POLLHUP/POLLERR.  A result class is "ok" (a count, *)
(* or would-block, which check_error maps to 0 bytes), "graceful" (EPIPE, *)
(* ECONNRESET) or "fatal" (anything else).                                 *)
(***************************************************************************)
EXTENDS Naturals, Sequences, SequencesExt

States == {"INITIAL", "CONNECTING", "CONNECTED", "DISCONNECTING", "DISCONNECTED", "FAILED"}

\* none: no descriptor; pending: connect in progress; established;
\* refused: the connect failed; closed: the peer hung up.
Conns == {"none", "pending", "established", "refused", "closed"}

VARIABLES
    state,     \* socket::client::state
    open,      \* base::is_open(): sock >= 0
    error,     \* base::error_ is set
    conn,      \* the kernel connection behind sock
    notified,  \* on_state_changed notifications fired by the last step
    closeOn    \* the states on which the application's listener calls close()

vars == <<state, open, error, conn, notified, closeOn>>

\* The states an application listener may react to with close().
ListenerStates == {"CONNECTED", "DISCONNECTING", "FAILED"}

\* socket::client::isActive()
IsActive(s) == s \in {"CONNECTING", "CONNECTED", "DISCONNECTING"}

\* setState() in an update() that polls the descriptor it read before the
\* notification: the steps after the listener's close() still run.
RECURSIVE NotifyStale(_, _, _)
NotifyStale(cur, calls, o) ==
    IF calls = <<>> THEN <<>>
    ELSE IF Head(calls) = cur THEN NotifyStale(cur, Tail(calls), o)
    ELSE IF o /\ Head(calls) \in closeOn
         THEN <<Head(calls), "DISCONNECTED">> \o NotifyStale("DISCONNECTED", Tail(calls), o)
    ELSE <<Head(calls)>> \o NotifyStale(Head(calls), Tail(calls), o)

\* socket::client::setState(): a call with the current state is a no-op,
\* any other assigns the state and fires on_state_changed.  Notify gives
\* the notifications of the calls of a step made from state cur, the
\* socket being open (o) when they are made.  The application's listener
\* calls close() on a state of closeOn: with the socket open, base::close()
\* clears sock and close() sets DISCONNECTED (a nested notification whose
\* own close() finds the socket closed).  Whatever the step does after
\* that works on sock = -1: update()'s poll reports nothing, shutdown()'s
\* close() returns at once, so no further setState() follows.
RECURSIVE Notify(_, _, _)
Notify(cur, calls, o) ==
    IF calls = <<>> THEN <<>>
    ELSE IF Head(calls) = cur THEN Notify(cur, Tail(calls), o)
    ELSE IF o /\ Head(calls) \in closeOn THEN <<Head(calls), "DISCONNECTED">>
    ELSE <<Head(calls)>> \o Notify(Head(calls), Tail(calls), o)

\* A step that makes the setState() calls in calls with the socket open
\* (o) or not, and would leave the socket open (op) on connection cn: the
\* listener's close() closes it.
StepWith(notes, op, cn) ==
    /\ notified' = notes
    /\ state' = IF notes = <<>> THEN state ELSE Last(notes)
    /\ open' = (op /\ "DISCONNECTED" \notin Range(notes))
    /\ conn' = IF open' THEN cn ELSE "none"

Step(calls, o, op, cn) == StepWith(Notify(state, calls, o), op, cn)

\* client::check_error() for a negative result of class cls: the graceful
\* codes move to DISCONNECTING, would-block is 0 bytes, anything else goes
\* through base::check_error (error_ is set unless already set) to FAILED.
CheckErrorCalls(cls) ==
    CASE cls = "ok" -> <<>>
      [] cls = "graceful" -> <<"DISCONNECTING">>
      [] cls = "fatal" -> <<"FAILED">>

Init ==
    /\ state = "INITIAL"
    /\ open = FALSE
    /\ error = FALSE
    /\ conn = "none"
    /\ notified = <<>>
    /\ closeOn \in SUBSET ListenerStates

\* client::connect() (the assertion not isFailed() is the caller's
\* precondition): CONNECTING, base::open() (::socket can fail), then a
\* non-blocking ::connect that succeeds at once, is in progress, or fails
\* (is_inprogress() passes it to check_error: FAILED).  base::open()
\* asserts not error_, which a release build does not check.
Connect ==
    /\ state # "FAILED"
    /\ ~IsActive(state)
    /\ \E r \in {"nofd", "immediate", "inprogress", "refused"} :
        /\ Step(<<"CONNECTING">> \o
                   (CASE r = "immediate" -> <<"CONNECTED">>
                      [] r = "inprogress" -> <<>>
                      [] OTHER -> <<"FAILED">>),
                r # "nofd", r # "nofd",
                CASE r = "immediate" -> "established"
                  [] r = "inprogress" -> "pending"
                  [] OTHER -> "refused")
        /\ error' = (error \/ r \in {"nofd", "refused"})
    /\ UNCHANGED closeOn

\* Results of a read() or write() of some bytes on the descriptor.
IoResults(op) ==
    IF ~open THEN {"fatal"}                                  \* EBADF
    ELSE CASE conn = "pending" -> {"ok"}                      \* EAGAIN
           [] conn = "established" -> {"ok"}
           [] conn = "refused" ->
                IF op = "read" THEN {"fatal", "ok"}            \* ECONNREFUSED, EOF
                ELSE {"fatal", "graceful"}                     \* ECONNREFUSED, EPIPE
           [] conn = "closed" -> {"ok", "graceful"}           \* EOF, ECONNRESET/EPIPE

\* base::read() and base::write() through client::check_error().
Io(op) ==
    /\ \E cls \in IoResults(op) :
        /\ Step(CheckErrorCalls(cls), open, open, conn)
        /\ error' = (error \/ cls = "fatal")
    /\ UNCHANGED closeOn

\* poll() on sock with no requested events: the hang-up of a refused or
\* closed connection is POLLHUP (with POLLERR on a TCP reset or refusal).
Revents ==
    CASE ~open -> {}
      [] conn = "refused" -> {"HUP", "ERR"}
      [] conn = "closed" -> {"HUP"}
      [] OTHER -> {}

\* update()'s test of the poll result written as an equality with POLLHUP.
HupOnly(r) == r = {"HUP"}

\* revents.check<POLLHUP>()
Hup(r) == "HUP" \in r

\* client::update(): nothing when FAILED or when base::update() reports
\* error_ (or the descriptor is closed: poll ignores sock = -1);
\* otherwise base::update()'s zero-length read, which returns 0, makes a
\* CONNECTING client CONNECTED, and a POLLHUP moves it to DISCONNECTING.
Update ==
    /\ state # "FAILED"
    /\ Step(IF error \/ ~open THEN <<>>
            ELSE (IF state = "CONNECTING" THEN <<"CONNECTED">> ELSE <<>>)
                 \o (IF Hup(Revents) THEN <<"DISCONNECTING">> ELSE <<>>),
            open, open, conn)
    /\ UNCHANGED <<error, closeOn>>

\* client::close() without the setState(DISCONNECTED) after base::close().
CloseKeepsState ==
    /\ Step(<<>>, FALSE, FALSE, "none")
    /\ UNCHANGED <<error, closeOn>>

\* client::close(): nothing when the descriptor is closed; otherwise
\* base::close() clears sock, then ::close (which does not fail on a
\* socket) and setState(DISCONNECTED).  close_lock is taken around it.
Close ==
    /\ Step(IF open THEN <<"DISCONNECTED">> ELSE <<>>, FALSE, FALSE, "none")
    /\ UNCHANGED <<error, closeOn>>

\* The result of ::shutdown(SHUT_WR): ENOTCONN on a refused connection or
\* on one the peer reset.
ShutdownResults ==
    CASE conn = "refused" -> {"fatal"}
      [] conn = "closed" -> {"ok", "fatal"}
      [] OTHER -> {"ok"}

\* client::shutdown(): when CONNECTED, ::shutdown(SHUT_WR) and
\* DISCONNECTING, or check_error's FAILED; then socket::shutdown(), i.e.
\* close().
Shutdown ==
    /\ \E cls \in IF state = "CONNECTED" THEN ShutdownResults ELSE {"ok"} :
        /\ Step((IF state # "CONNECTED" THEN <<>>
                 ELSE IF cls = "ok" THEN <<"DISCONNECTING">> ELSE <<"FAILED">>)
                \o (IF open THEN <<"DISCONNECTED">> ELSE <<>>),
                open, FALSE, "none")
        /\ error' = (error \/ cls = "fatal")
    /\ UNCHANGED closeOn

\* The kernel finishes a pending connect or refuses it.
Handshake ==
    /\ conn = "pending"
    /\ \E c \in {"established", "refused"} : conn' = c
    /\ notified' = <<>>
    /\ UNCHANGED <<state, open, error, closeOn>>

\* The peer closes or resets an established connection.
PeerClose ==
    /\ conn = "established"
    /\ conn' = "closed"
    /\ notified' = <<>>
    /\ UNCHANGED <<state, open, error, closeOn>>

Next ==
    \/ Connect \/ Update \/ Close \/ Shutdown
    \/ Io("read") \/ Io("write")
    \/ Handshake \/ PeerClose

Spec == Init /\ [][Next]_vars

\* The application keeps calling update() (the drivers loop on it).
FairSpec == Spec /\ WF_vars(Update)

-----------------------------------------------------------------------------
(* Properties *)

TypeOK ==
    /\ state \in States
    /\ open \in BOOLEAN /\ error \in BOOLEAN
    /\ conn \in Conns
    /\ notified \in Seq(States \ {"INITIAL"}) /\ Len(notified) <= 3
    /\ closeOn \subseteq ListenerStates

\* The descriptor and the state agree: an active client (CONNECTING,
\* CONNECTED, DISCONNECTING) has an open socket, an INITIAL or
\* DISCONNECTED one has none, and a kernel connection exists exactly while
\* the socket is open.  It rests on connect(), shutdown() and the error
\* paths of check_error all ending with close()'s setState(DISCONNECTED).
StateMatchesSocket ==
    /\ IsActive(state) => open
    /\ state \in {"INITIAL", "DISCONNECTED"} => ~open
    /\ open <=> conn # "none"

\* A connection the kernel reports hung up (refused, closed or reset by
\* the peer) is noticed by update(): while the client has no error it
\* ends up DISCONNECTING, FAILED or closed.
HangupNoticed ==
    (open /\ conn \in {"refused", "closed"} /\ ~error /\ state # "FAILED")
        ~> (~open \/ state \in {"DISCONNECTING", "FAILED"})

\* The spec: a connect "in progress stays in CONNECTING" until update()
\* detects its completion.  No step announces CONNECTED while the kernel
\* connection it starts from is still being set up; the connection is
\* read before the step, since a listener may close() the socket from
\* inside the CONNECTED notification.
ConnectedWhenEstablished ==
    [][("CONNECTED" \in Range(notified')) => conn # "pending"]_vars

\* base::open()'s assertion CPP_ASSERT(not error_): a descriptor is only
\* opened by a client without a recorded error.
OpenWithoutError ==
    [][(~open /\ open') => ~error]_vars

\* The client's connection lifecycle as the spec states it: CONNECTED only
\* once established, and no descriptor opened with an error still recorded
\* (the two properties above, each violated on its own).
ClientLifecycleContract == ConnectedWhenEstablished /\ OpenWithoutError

====
