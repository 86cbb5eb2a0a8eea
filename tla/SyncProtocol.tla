---------------------------- MODULE SyncProtocol ----------------------------
(***************************************************************************)
(* lib::packets::impl::sync (src/include/lib/impl/packets/sync): a server  *)
(* that counts quanta and tells each connected client the current one, and *)
(* clients that echo every quant they receive, so that the server can     *)
(* report (on_sync) the lowest quant all its clients have acknowledged.   *)
(*                                                                         *)
(* Per connection c the server side holds a Server::Client (its           *)
(* acknowledged quant ack[c]) and the far end a sync::Client (the quant   *)
(* remote[c] it last received).  Each connection carries packets over a   *)
(* packet handler; PacketSession shows (run session) that framing        *)
(* and buffering give a FIFO packet channel, so here the two directions   *)
(* are the sequences down[c] (server to client) and up[c] (client to      *)
(* server) of the quants in flight.  A handler's send fails with          *)
(* SEND_QUEUE_FULL when its stream has no room; Cap is the number of sync *)
(* packets a direction holds.  Timestamps travel with the quants and are  *)
(* reduced by the same min; they are left out.                            *)
(***************************************************************************)
EXTENDS Naturals, Sequences, FiniteSetsExt

CONSTANTS
    Conns,      \* connections, each a Server::Client and its sync::Client
    MaxQuant,   \* bound on the quanta the server counts (sync() calls)
    Cap         \* sync packets a direction's stream holds

ASSUME MaxQuant \in Nat /\ Cap \in Nat \ {0}

VARIABLES
    quant,       \* Server::quant_
    lowerQuant,  \* Server::lower_quant_, the value on_sync reported last
    members,     \* Server::clients, as a set (only min is taken over it)
    phase,       \* "new", "in" (Server::Client alive) or "gone"
    ack,         \* Server::Client::quant_
    remote,      \* sync::Client::quant_ at the far end
    failed,      \* the far end's handler failed (RECEIVE_RECEIVER_FAILED)
    srvError,    \* the server side's handler holds a sticky send error
    down,        \* quants in flight from the server to the client
    up,          \* quants in flight from the client to the server
    joinQuant    \* the server's quant when the connection joined (ghost)

vars == <<quant, lowerQuant, members, phase, ack, remote, failed, srvError, down, up, joinQuant>>

\* Handler::send() that writes without checking the room first.
OfferUnchecked(q, v) == Append(q, v)

\* Handler::send() of a sync packet into a stream holding q: appended when
\* there is room, otherwise refused (SEND_QUEUE_FULL) and lost.
Offer(q, v) == IF Len(q) < Cap THEN Append(q, v) ELSE q

\* The refusal is recorded as the handler's sticky error.
Refused(q) == Len(q) >= Cap

Init ==
    /\ quant = 0
    /\ lowerQuant = 0
    /\ members = {}
    /\ phase = [c \in Conns |-> "new"]
    /\ ack = [c \in Conns |-> 0]
    /\ remote = [c \in Conns |-> 0]
    /\ failed = [c \in Conns |-> FALSE]
    /\ srvError = [c \in Conns |-> FALSE]
    /\ down = [c \in Conns |-> <<>>]
    /\ up = [c \in Conns |-> <<>>]
    /\ joinQuant = [c \in Conns |-> 0]

\* A Server::Client whose quant_ starts at 0 instead of the server's.
JoinAckZero(c) ==
    /\ phase[c] = "new"
    /\ phase' = [phase EXCEPT ![c] = "in"]
    /\ ack' = [ack EXCEPT ![c] = 0]
    /\ members' = members \cup {c}
    /\ down' = [down EXCEPT ![c] = Offer(@, quant)]
    /\ srvError' = [srvError EXCEPT ![c] = Refused(down[c])]
    /\ joinQuant' = [joinQuant EXCEPT ![c] = quant]
    /\ UNCHANGED <<quant, lowerQuant, remote, failed, up>>

\* Server::Client's constructor: start from the server's quant and
\* timestamp, listen, addClient(), then sync() sends the current quant.
Join(c) ==
    /\ phase[c] = "new"
    /\ phase' = [phase EXCEPT ![c] = "in"]
    /\ ack' = [ack EXCEPT ![c] = quant]
    /\ members' = members \cup {c}
    /\ down' = [down EXCEPT ![c] = Offer(@, quant)]
    /\ srvError' = [srvError EXCEPT ![c] = Refused(down[c])]
    /\ joinQuant' = [joinQuant EXCEPT ![c] = quant]
    /\ UNCHANGED <<quant, lowerQuant, remote, failed, up>>

\* Server::Client's destructor: removeClient() forgets the client and, when
\* none is left, resets lower_quant_ to 0; the connection goes with it.
Leave(c) ==
    /\ phase[c] = "in"
    /\ phase' = [phase EXCEPT ![c] = "gone"]
    /\ members' = members \ {c}
    /\ lowerQuant' = IF members' = {} THEN 0 ELSE lowerQuant
    /\ down' = [down EXCEPT ![c] = <<>>]
    /\ up' = [up EXCEPT ![c] = <<>>]
    /\ UNCHANGED <<quant, ack, remote, failed, srvError, joinQuant>>

\* The loop of sync() with std::max in place of std::min.
LowerOfMax(q) == Max({q} \cup {ack[c] : c \in members})

\* The loop of Server::sync(): the lowest of the new quant and of the
\* quants the clients acknowledged so far.
LowerOf(q) == Min({q} \cup {ack[c] : c \in members})

\* Server::sync(): count a quantum, send the new quant to every client
\* (the send's result is ignored, but a refusal stays in that handler's
\* error), and report the lowest quant through on_sync when it changed.
Sync ==
    /\ quant < MaxQuant
    /\ quant' = quant + 1
    /\ down' = [c \in Conns |-> IF c \in members THEN Offer(down[c], quant + 1) ELSE down[c]]
    /\ srvError' = [c \in Conns |-> srvError[c] \/ (c \in members /\ Refused(down[c]))]
    /\ lowerQuant' = LowerOf(quant + 1)
    /\ UNCHANGED <<members, phase, ack, remote, failed, up, joinQuant>>

\* A sync::Client::onSync() that takes the quant and returns true
\* without echoing it.
ClientSyncNoEcho(c) ==
    /\ phase[c] = "in"
    /\ ~failed[c]
    /\ down[c] # <<>>
    /\ remote' = [remote EXCEPT ![c] = Head(down[c])]
    /\ down' = [down EXCEPT ![c] = Tail(@)]
    /\ UNCHANGED <<quant, lowerQuant, members, phase, ack, failed, srvError, up, joinQuant>>

\* sync::Client::onSync(), run by the far end's receive() on the next
\* packet: take the quant, then echo the packet; a refused echo makes the
\* receiver fail, and the far end's handler stops.
ClientSync(c) ==
    /\ phase[c] = "in"
    /\ ~failed[c]
    /\ down[c] # <<>>
    /\ remote' = [remote EXCEPT ![c] = Head(down[c])]
    /\ down' = [down EXCEPT ![c] = Tail(@)]
    /\ up' = [up EXCEPT ![c] = Offer(@, Head(down[c]))]
    /\ failed' = [failed EXCEPT ![c] = Refused(up[c])]
    /\ UNCHANGED <<quant, lowerQuant, members, phase, ack, srvError, joinQuant>>

\* Server::Client::onSync(), run by the server's receive() on the next
\* echo, while that connection's handler holds no error.
ServerSync(c) ==
    /\ phase[c] = "in"
    /\ ~srvError[c]
    /\ up[c] # <<>>
    /\ ack' = [ack EXCEPT ![c] = Head(up[c])]
    /\ up' = [up EXCEPT ![c] = Tail(@)]
    /\ UNCHANGED <<quant, lowerQuant, members, phase, remote, failed, srvError, down, joinQuant>>

Next ==
    \/ Sync
    \/ \E c \in Conns : Join(c) \/ Leave(c) \/ ClientSync(c) \/ ServerSync(c)

Spec == Init /\ [][Next]_vars

\* Each end's driver calls receive() again and again while its handler
\* reports no error; the application is free not to call sync() and not
\* to connect or disconnect.
Fairness == \A c \in Conns : WF_vars(ClientSync(c)) /\ WF_vars(ServerSync(c))

FairSpec == Spec /\ Fairness

-----------------------------------------------------------------------------
(* Properties *)

TypeOK ==
    /\ quant \in 0..MaxQuant /\ lowerQuant \in 0..MaxQuant
    /\ members \subseteq Conns
    /\ phase \in [Conns -> {"new", "in", "gone"}]
    /\ \A c \in Conns :
        /\ ack[c] \in 0..MaxQuant /\ remote[c] \in 0..MaxQuant
        /\ failed[c] \in BOOLEAN /\ srvError[c] \in BOOLEAN
        /\ Len(down[c]) <= Cap /\ Len(up[c]) <= Cap

\* What on_sync reports is true of every connected client: each has
\* received the reported quant, or joined when the server was already at
\* it.  It rests on the echoes arriving in order, on Server::Client
\* starting from the server's quant, and on sync() taking the minimum.
SyncedReceived ==
    \A c \in members : lowerQuant <= remote[c] \/ lowerQuant <= joinQuant[c]

\* The quant on_sync reports never goes back while the server has
\* clients: a joining client starts at the server's quant and the
\* acknowledgements only grow.
LowerQuantMonotone ==
    [][members' # {} => lowerQuant' >= lowerQuant]_vars

\* No quant is lost silently: once the server stops calling sync(), every
\* connected client ends up acknowledging the server's quant, unless one
\* of its two handlers reports an error.  Server::Client::sync() ignores
\* the result of send(), so this rests on the sticky error.
SyncSettles ==
    <>[](\A c \in members : ack[c] = quant \/ failed[c] \/ srvError[c])

=============================================================================
