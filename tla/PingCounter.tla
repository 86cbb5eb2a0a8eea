---------------------------- MODULE PingCounter -----------------------------
(***************************************************************************)
(* lib::packets::impl::PingCounter                                         *)
(* (src/include/lib/impl/packets/ping_counter.cpp): a symmetric ping-pong  *)
(* protocol over a ReadHandler.  Each side sends ping(n) and sends         *)
(* ping(n+1) only when pong(n) comes back; it answers the peer's ping(k)   *)
(* with pong(k) when k is the next ping it expects.                        *)
(*                                                                         *)
(* Its state is [local_count, remote_count] (local_count_, remote_count_); *)
(* the latency clock (counter) only takes timestamps and is left out.  A   *)
(* callback runs inside Handler::receive() and sends through the same     *)
(* handler, so each operator takes and returns the handler and stream     *)
(* records too.  counter_type is usize, whose arithmetic wraps; the model  *)
(* gives it CounterMod values.  The code only tests counters for equality *)
(* with values at most one apart, so every comparison comes out as with   *)
(* the full width.                                                         *)
(***************************************************************************)
EXTENDS PacketHandler

CONSTANTS
    PingId,      \* ping_id
    PongId,      \* pong_id
    CounterMod   \* the number of values of counter_type in the model

ASSUME CounterMod \in Nat /\ CounterMod >= 3 /\ PingId # PongId

Inc(c) == (c + 1) % CounterMod

\* The ping packet's body: serialize( stream, counter ) is one field.
PingBody(c) == <<c>>

\* A callback that refused the packet: nothing sent, nothing counted.
Rejected(h, b, pc) == [h |-> h, buf |-> b, pc |-> pc, ok |-> FALSE]

\* A counter operation after its send returned s: the counts become
\* `counted` only if the send succeeded, and the operation returns the
\* send's success.
Answered(s, pc, counted) ==
    [h |-> s.h, buf |-> s.buf, ok |-> s.ok, pc |-> IF s.ok THEN counted ELSE pc]

\* PingCounter::attach( handler ) on a handler with no counter attached
\* (detach() is then a no-op): listen on both ids with the shared prototype
\* (static in the composing module), send ping(1), and only if that send
\* succeeded reset the counts to local 1, remote 0.
Attach(h, b, pc) ==
    Answered(Send(h, b, PingId, PingBody(1)), pc, [local_count |-> 1, remote_count |-> 0])

\* PingCounter::onPing(): accept only the next expected ping, answer it
\* with a pong carrying the same counter, and count it only if the answer
\* was sent.
OnPing(h, b, pc, counter) ==
    IF Inc(pc.remote_count) # counter THEN Rejected(h, b, pc)
    ELSE Answered(Send(h, b, PongId, PingBody(counter)), pc,
                  [pc EXCEPT !.remote_count = Inc(@)])

\* PingCounter::onPong(): accept only the pong of the outstanding ping,
\* send the next ping, and count the round trip only if that send
\* succeeded.  on_ping() is the application's notification.
OnPong(h, b, pc, counter) ==
    IF pc.local_count # counter THEN Rejected(h, b, pc)
    ELSE Answered(Send(h, b, PingId, PingBody(Inc(pc.local_count))), pc,
                  [pc EXCEPT !.local_count = Inc(@)])

=============================================================================
