--------------------------- MODULE PacketSession ----------------------------
(***************************************************************************)
(* Two peers, each the PacketsHandler of the packets test                  *)
(* (src/include/test/lib/packets/handler.cpp): a ReadHandler over a        *)
(* BufferedStream over a TCP socket, listening for Message and, through a  *)
(* PingCounter, for ping and pong.  The peers run concurrently (the test   *)
(* runs the client in a std::async thread); each drives its own objects   *)
(* with the library calls read_flush(), receive(), write_flush() and      *)
(* send( Message ).                                                        *)
(*                                                                         *)
(* The socket of each direction is a kernel queue: net[s] holds the words *)
(* side s wrote that have not reached the peer yet, inq[s] the words that *)
(* have arrived at the peer and wait to be read.  A non-blocking write()  *)
(* takes what fits in SockCap; words arrive one at a time, so a frame may *)
(* be split across any number of reads.                                   *)
(***************************************************************************)
EXTENDS PingCounter, SequencesExt

CONSTANTS
    Client, Server,   \* the two peers
    MessageId,        \* Message::ID
    MsgLen,           \* words of a Message body
    Senders,          \* the sides whose application sends Messages
    MaxMsgs,          \* Messages each of them sends
    SockCap,          \* words a socket direction holds (send + receive queues)
    DeliveryMod       \* the modulus of the delivery count (ghost)

Sides == {Client, Server}

ASSUME Senders \subseteq Sides
Peer(s) == IF s = Client THEN Server ELSE Client

VARIABLES
    stream,      \* the BufferedStream record of each side
    handler,     \* the Handler record of each side
    ping,        \* the PingCounter record of each side
    messages,    \* PacketsHandler::messages: payloads of Messages received
    sent,        \* Messages the application of each side has sent
    net,         \* words written by a side, in transit
    inq,         \* words written by a side, arrived at the peer
    dispatched   \* packets from a side handed to the peer's receivers (ghost)

vars == <<stream, handler, ping, messages, sent, net, inq, dispatched>>

\* Message{ m }: MsgLen fields, all carrying the payload m.
MessageBody(m) == [i \in 1..MsgLen |-> m]

\* The state a receive callback sees and changes.
Local(s) == [h |-> handler[s], buf |-> stream[s], pc |-> ping[s],
             msgs |-> messages[s], n |-> dispatched[Peer(s)]]

\* The state after a ping counter callback returned r.
Called(st, r) == [st EXCEPT !.h = r.h, !.buf = r.buf, !.pc = r.pc] @@ [ok |-> r.ok]

\* The receiver registered for the packet's id: PacketsHandler::onMessage
\* (record the message; the title is always a valid one here) or the ping
\* counter's onPing / onPong.
Deliver(st, pkt) ==
    CASE pkt.id = MessageId -> [st EXCEPT !.msgs = Append(@, pkt.body[1])] @@ [ok |-> TRUE]
      [] pkt.id = PingId    -> Called(st, OnPing(st.h, st.buf, st.pc, pkt.body[1]))
      [] pkt.id = PongId    -> Called(st, OnPong(st.h, st.buf, st.pc, pkt.body[1]))

RECURSIVE ReceiveLoop(_)

\* The end of a pass of Handler::receive() after the receiver returned
\* (d: the state it left, with its answer): clear the header and go on, or
\* stop with RECEIVE_RECEIVER_FAILED.
AfterReceiver(d) ==
    LET st == [h |-> Dispatched(d.h, d.ok), buf |-> d.buf, pc |-> d.pc,
               msgs |-> d.msgs, n |-> d.n]
    IN  IF d.ok THEN ReceiveLoop(st) ELSE st

\* A pass of Handler::receive() given its outcome r up to the dispatch: a
\* wait or a failure ends the call, a packet goes to its receiver.
ReceivePass(st, r) ==
    IF r.out # "dispatch"
    THEN [st EXCEPT !.h = r.h, !.buf = r.buf]
    ELSE AfterReceiver(Deliver([st EXCEPT !.h = r.h, !.buf = r.buf,
                                          !.n = (@ + 1) % DeliveryMod], r.pkt))

\* Handler::receive(): passes until one waits or fails.
ReceiveLoop(st) == ReceivePass(st, ReceiveHead(st.h, st.buf))

\* The PacketsHandler constructor: empty stream and handler, then
\* ping_counter.attach(), which sends ping(1).
Attached == Attach(ResetHandler, EmptyBuffer, [local_count |-> 0, remote_count |-> 0])

Init ==
    /\ stream = [s \in Sides |-> Attached.buf]
    /\ handler = [s \in Sides |-> Attached.h]
    /\ ping = [s \in Sides |-> Attached.pc]
    /\ messages = [s \in Sides |-> <<>>]
    /\ sent = [s \in Sides |-> 0]
    /\ net = [s \in Sides |-> <<>>]
    /\ inq = [s \in Sides |-> <<>>]
    /\ dispatched = [s \in Sides |-> 0]

\* The application stops driving a side once its handler reports an error
\* (the test's CPPLIB__TEST__TRUE( handler.update() ) leaves the loop).
Running(s) == handler[s].error = "SUCCESS"

\* stream.read_flush(): top up the read buffer from the socket, whose
\* read_size() is what has arrived.
ReadFlushStep(s) ==
    LET r == ReadFlush(stream[s], inq[Peer(s)])
    IN  /\ Running(s)
        /\ stream' = [stream EXCEPT ![s] = r.buf]
        /\ inq' = [inq EXCEPT ![Peer(s)] = SubSeq(@, r.taken + 1, Len(@))]
        /\ UNCHANGED <<handler, ping, messages, sent, net, dispatched>>

\* Side s takes the state st that its receive() call left.
Received(s, st) ==
    /\ stream' = [stream EXCEPT ![s] = st.buf]
    /\ handler' = [handler EXCEPT ![s] = st.h]
    /\ ping' = [ping EXCEPT ![s] = st.pc]
    /\ messages' = [messages EXCEPT ![s] = st.msgs]
    /\ dispatched' = [dispatched EXCEPT ![Peer(s)] = st.n]
    /\ UNCHANGED <<sent, net, inq>>

\* handler.receive().
Receive(s) == Running(s) /\ Received(s, ReceiveLoop(Local(s)))

\* stream.write_flush(): the socket's non-blocking write() takes as much of
\* the write buffer as fits; the buffer drops exactly that prefix.
WriteFlushStep(s) ==
    LET room     == SockCap - Len(net[s]) - Len(inq[s])
        accepted == IF Len(stream[s].write_buff) < room
                    THEN Len(stream[s].write_buff) ELSE room
    IN  /\ Running(s)
        /\ stream' = [stream EXCEPT ![s] = WriteFlush(@, accepted)]
        /\ net' = [net EXCEPT ![s] = @ \o SubSeq(stream[s].write_buff, 1, accepted)]
        /\ UNCHANGED <<handler, ping, messages, sent, inq, dispatched>>

\* handler.send( Message{ ... } ) by the application, which returned r.
MessageSent(s, r) ==
    /\ sent' = [sent EXCEPT ![s] = @ + 1]
    /\ handler' = [handler EXCEPT ![s] = r.h]
    /\ stream' = [stream EXCEPT ![s] = r.buf]
    /\ UNCHANGED <<ping, messages, net, inq, dispatched>>

SendMessage(s) ==
    /\ Running(s)
    /\ s \in Senders
    /\ sent[s] < MaxMsgs
    /\ MessageSent(s, Send(handler[s], stream[s], MessageId, MessageBody(sent[s] + 1)))

\* TCP moves the next word of a direction to the receiving side.
Transmit(s) ==
    /\ net[s] # <<>>
    /\ inq' = [inq EXCEPT ![s] = Append(@, Head(net[s]))]
    /\ net' = [net EXCEPT ![s] = Tail(@)]
    /\ UNCHANGED <<stream, handler, ping, messages, sent, dispatched>>

Next ==
    \E s \in Sides :
        \/ ReadFlushStep(s)
        \/ Receive(s)
        \/ WriteFlushStep(s)
        \/ SendMessage(s)
        \/ Transmit(s)

Spec == Init /\ [][Next]_vars

\* ENABLED <<Receive(s)>>_vars stated directly: a running side whose
\* receive() would change something.  TLC evaluates ENABLED of the
\* recursive receive loop far more slowly than the loop itself.
ReceiveEnabled(s) == Running(s) /\ ReceiveLoop(Local(s)) # Local(s)

\* The test's loops call client.update() / handler.update() until they see
\* progress, so every library call of a running side keeps being made, and
\* TCP keeps delivering.  The conjunct for Receive is WF_vars(Receive(s))
\* written out.
Fairness ==
    \A s \in Sides :
        /\ WF_vars(ReadFlushStep(s))
        /\ (<>[]ReceiveEnabled(s) => []<><<Receive(s)>>_vars)
        /\ WF_vars(WriteFlushStep(s))
        /\ WF_vars(Transmit(s))

FairSpec == Spec /\ Fairness

-----------------------------------------------------------------------------
(* Properties *)

Words == 0..(NumReceivers + CounterMod + MaxMsgs + MsgLen)

\* The words of direction s not yet consumed by the peer, oldest first: the
\* header the peer holds pending, the unread part of its read buffer, the
\* socket's queues, and s's unflushed write buffer.
InFlight(s) ==
    LET t == Peer(s)
        pending == IF handler[t].recv_header.id = 0 THEN <<>>
                   ELSE HeaderWords(handler[t].recv_header.id, handler[t].recv_header.size)
    IN  pending \o SubSeq(stream[t].read_buff, stream[t].read_pos + 1, Len(stream[t].read_buff))
                \o inq[s] \o net[s] \o stream[s].write_buff

\* Framing, buffering and the socket together implement a FIFO packet
\* channel per direction: the packets parsed from each direction's words in
\* flight only ever lose packets at the head, as many as the peer's
\* receivers were handed, and gain packets at the tail.  Breaking it takes
\* a buffer that loses, repeats or reorders words, or a frame written or
\* read in part.
Channel == INSTANCE PacketChannel
    WITH Peers <- Sides,
         queue <- [s \in Sides |-> Frames(InFlight(s))],
         delivered <- dispatched
ChannelSpec == Channel!Spec

\* Neither handler ever records an error: the ping counters' replies, sent
\* from inside receive() while Messages and earlier replies may still sit
\* unflushed in the write buffer, always find room (no SEND_QUEUE_FULL turned
\* into RECEIVE_RECEIVER_FAILED), and every ping and pong arrives as the one
\* its receiver expects.
NoHandlerError == \A s \in Sides : handler[s].error = "SUCCESS"

\* Every Message an application sends is eventually received by the peer's
\* onMessage, however TCP splits it across reads.
MessagesDelivered ==
    \A s \in Sides : \A m \in 1..MaxMsgs :
        sent[s] >= m ~> Len(messages[Peer(s)]) >= m

\* The ping-pong never stalls: each side's round-trip count keeps changing
\* (the test waits for ping_count to grow).
PingProgress ==
    \A s \in Sides : []<><<ping'[s].local_count # ping[s].local_count>>_vars

=============================================================================
