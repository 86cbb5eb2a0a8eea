----------------------------- MODULE PingAttach -----------------------------
(***************************************************************************)
(* One side's PingCounter attached to, and detached from, its ReadHandler *)
(* by the application (ping_counter.cpp, attach and detach), while the    *)
(* application sends its own packets into the same stream, write_flush() *)
(* drains it, and receive() dispatches the peer's pings and pongs.        *)
(*                                                                         *)
(* handlerSet is handler_ != nullptr; listening says that the handler's   *)
(* receivers (and prototypes) for ping_id and pong_id are the counter's.  *)
(* onPing and onPong call handler_->send(); the ghost nullCall records a  *)
(* call made while handler_ is nullptr, which is undefined behaviour.     *)
(***************************************************************************)
EXTENDS PingCounter

CONSTANTS
    AppId,      \* the id of the application's own packets
    MaxCount    \* bound on the counters the peer's packets carry

VARIABLES
    h,           \* the handler record [recv_header, error]
    buf,         \* the handler's buffered stream
    pc,          \* [local_count, remote_count]
    handlerSet,  \* PingCounter::handler_ != nullptr
    listening,   \* "yes": the receivers of ping_id and pong_id are the
                 \* counter's; "no": unlistened; "never": not in the table
    nullCall     \* a callback ran with handler_ == nullptr (ghost)

vars == <<h, buf, pc, handlerSet, listening, nullCall>>

\* The constructor leaves both counts 0 and handler_ null; the handler has
\* just been reset onto its stream.
Init ==
    /\ h = ResetHandler
    /\ buf = EmptyBuffer
    /\ pc = [local_count |-> 0, remote_count |-> 0]
    /\ handlerSet = FALSE
    /\ listening = "never"
    /\ nullCall = FALSE

\* PingCounter::attach(): detach() (unlisten if handler_ was set, clear
\* handler_), listen on ping_id and pong_id, send ping(1); only when the
\* send succeeded set handler_ and reset the counts.  A failed send leaves
\* the receivers registered, handler_ null and SEND_QUEUE_FULL sticky.
AppAttach ==
    LET r == Attach(h, buf, pc)
    IN  /\ listening' = "yes"
        /\ handlerSet' = r.ok
        /\ h' = r.h /\ buf' = r.buf /\ pc' = r.pc
        /\ UNCHANGED nullCall

\* PingCounter::detach(): nothing when handler_ is null; otherwise clear
\* handler_ and unlisten both ids.
AppDetach ==
    /\ handlerSet
    /\ handlerSet' = FALSE /\ listening' = "no"
    /\ UNCHANGED <<h, buf, pc, nullCall>>

\* The application's handler.send( AppId, packet ) of a one-word packet.
AppSend ==
    LET r == Send(h, buf, AppId, <<0>>)
    IN  /\ h' = r.h /\ buf' = r.buf
        /\ UNCHANGED <<pc, handlerSet, listening, nullCall>>

\* stream.write_flush(): the socket takes some prefix of the write buffer.
WriteFlushStep ==
    /\ buf.write_buff # <<>>
    /\ \E n \in 1..Len(buf.write_buff) : buf' = WriteFlush(buf, n)
    /\ UNCHANGED <<h, pc, handlerSet, listening, nullCall>>

\* receive() with a complete ping (kind "ping") or pong frame of counter k
\* read: an id beyond the receivers is RECEIVE_HEADER_BAD_ID, one without
\* its prototype (after unlisten) RECEIVE_PACKET_UNKNOWN; otherwise
\* the receiver, whose false is RECEIVE_RECEIVER_FAILED.  A receiver that
\* gets past its counter check calls handler_->send().
Dispatch(kind, k) ==
    LET accepts == IF kind = "ping" THEN Inc(pc.remote_count) = k
                   ELSE pc.local_count = k
        r == IF kind = "ping" THEN OnPing(h, buf, pc, k) ELSE OnPong(h, buf, pc, k)
    IN  /\ IF listening # "yes"
           THEN /\ h' = SetError(h, IF listening = "never" THEN "RECEIVE_HEADER_BAD_ID"
                                   ELSE "RECEIVE_PACKET_UNKNOWN")
                /\ UNCHANGED <<buf, pc, nullCall>>
           ELSE IF accepts /\ ~handlerSet
           THEN /\ nullCall' = TRUE
                /\ UNCHANGED <<h, buf, pc>>
           ELSE /\ h' = IF r.ok THEN r.h ELSE SetError(r.h, "RECEIVE_RECEIVER_FAILED")
                /\ buf' = r.buf /\ pc' = r.pc
                /\ UNCHANGED nullCall
        /\ UNCHANGED <<handlerSet, listening>>

Next ==
    \/ AppAttach \/ AppDetach \/ AppSend \/ WriteFlushStep
    \/ \E kind \in {"ping", "pong"}, k \in 1..MaxCount : Dispatch(kind, k)

Spec == Init /\ [][Next]_vars

-----------------------------------------------------------------------------
(* Properties *)

\* onPing and onPong dereference handler_ to send their answer: they never
\* run while it is nullptr.
NoNullHandlerCall == ~nullCall

\* Every packet in the cfg (application, ping, pong) has a one-word body.
PA_ProtoLen(id) == 1

====
