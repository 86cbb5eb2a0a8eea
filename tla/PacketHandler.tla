--------------------------- MODULE PacketHandler ----------------------------
(***************************************************************************)
(* lib::packets::Handler and lib::packets::ReadHandler                     *)
(* (src/include/lib/packets/handler.cpp) over a BufferedStream.            *)
(*                                                                         *)
(* Wire format: a header of two fields, u32 id then u32 size, followed by  *)
(* `size` fields of body.  A word of a stream is one field, so the header  *)
(* is HeaderSize = 2 words; parsing a header reads the first word as the   *)
(* id and the second as the size, whatever was written there.             *)
(*                                                                         *)
(* The handler's own state is the record [recv_header, error]; its stream *)
(* is a BufferedStream record passed alongside.  The receive loop calls   *)
(* the receivers, which belong to the composing module, so this module    *)
(* provides one pass of the loop up to the dispatch (ReceiveHead) and the *)
(* handling of the receiver's answer (Dispatched).                        *)
(***************************************************************************)
EXTENDS BufferedStream

CONSTANTS
    NumReceivers,   \* receivers.size(): one more than the highest listened id
    Prototypes,     \* ids whose packets[id] is set (ReadHandler::listen)
    ProtoLen(_)     \* words the prototype packet of an id deserializes

ASSUME NumReceivers \in Nat /\ Prototypes \subseteq 1..(NumReceivers - 1)

\* sizeof(Header), in words: the id field and the size field.
HeaderSize == 2

Errors == {"SUCCESS", "SEND_QUEUE_FULL", "SEND_HEADER_STREAM_FAILED",
           "SEND_HEADER_PARTIAL", "SEND_DATA_STREAM_FAILED", "SEND_DATA_PARTIAL",
           "RECEIVE_HEADER_STREAM_FAILED", "RECEIVE_HEADER_PARTIAL",
           "RECEIVE_HEADER_BAD_ID", "RECEIVE_PACKET_UNKNOWN",
           "RECEIVE_DATA_STREAM_FAILED", "RECEIVE_DATA_DESERIALIZE_FAILED",
           "RECEIVE_DATA_PARTIAL", "RECEIVE_NO_RECEIVER", "RECEIVE_RECEIVER_FAILED"}

\* Handler::reset( stream ): no header pending, no error.
ResetHandler == [recv_header |-> [id |-> 0, size |-> 0], error |-> "SUCCESS"]

\* Handler::set_error(): the first error is kept.
SetError(h, e) == IF h.error = "SUCCESS" THEN [h EXCEPT !.error = e] ELSE h

\* The words `serialize( *stream, header )` writes.
HeaderWords(id, size) == <<id, size>>

\* send_header() refusing a frame: SEND_QUEUE_FULL, the stream untouched.
QueueFull(h, b) == [h |-> SetError(h, "SEND_QUEUE_FULL"), buf |-> b, ok |-> FALSE]

\* send_header() after writing the header (hw: the result of Write): a short
\* write is SEND_HEADER_PARTIAL.  Result: handler, stream, success.
HeaderWritten(h, hw) ==
    IF hw.count = HeaderSize
    THEN [h |-> h, buf |-> hw.buf, ok |-> TRUE]
    ELSE [h |-> SetError(h, "SEND_HEADER_PARTIAL"), buf |-> hw.buf, ok |-> FALSE]

(* Mutant: send_header() with the room check off by one (>= for >), so a  *)
(* frame that exactly fills the write buffer is refused.                   *)
SendHeaderRoomOffByOne(h, b, id, size) ==
    IF HeaderSize + size >= WriteSize(b) THEN QueueFull(h, b)
    ELSE HeaderWritten(h, Write(b, HeaderWords(id, size)))

\* Handler::send_header(): refuse unless the stream has room for header and
\* body, then write the header.
SendHeader(h, b, id, size) ==
    IF HeaderSize + size > WriteSize(b) THEN QueueFull(h, b)
    ELSE HeaderWritten(h, Write(b, HeaderWords(id, size)))

\* The rest of Handler::send() once send_header() returned hs: nothing more
\* for a failed header or an empty body, else write the body and flag a
\* short write as SEND_DATA_PARTIAL.
SendBody(hs, body) ==
    LET dw == Write(hs.buf, body)
    IN  CASE ~hs.ok \/ body = <<>> -> hs
          [] dw.count = Len(body)    -> [hs EXCEPT !.buf = dw.buf]
          [] OTHER ->
                [h |-> SetError(hs.h, "SEND_DATA_PARTIAL"), buf |-> dw.buf, ok |-> FALSE]

\* Handler::send( id, packet ) with no aggregator attached.
Send(h, b, id, body) == SendBody(SendHeader(h, b, id, Len(body)), body)

\* Outcomes of one pass of the receive loop.
Wait(h, b)    == [out |-> "wait", h |-> h, buf |-> b]
Fail(h, b, e) == [out |-> "fail", h |-> SetError(h, e), buf |-> b]

\* A pass of Handler::receive() once the body is read (dr: the result of
\* the prototype's deserialize): a full read dispatches the packet, a read
\* of nothing waits, anything else is RECEIVE_DATA_PARTIAL.
BodyRead(h, dr) ==
    CASE Len(dr.data) = h.recv_header.size ->
            [out |-> "dispatch", h |-> h, buf |-> dr.buf,
             pkt |-> [id |-> h.recv_header.id, body |-> dr.data]]
      [] Len(dr.data) = 0 -> Wait(h, dr.buf)
      [] OTHER            -> Fail(h, dr.buf, "RECEIVE_DATA_PARTIAL")

\* A pass of Handler::receive() with a header pending: wait unless the whole
\* body is buffered, reject an id past the receivers table or one with no
\* prototype (ReadHandler::deserialize), else deserialize the prototype.
\* The buffered stream reports no read errors, so the *_STREAM_FAILED
\* branches do not arise.
ReceiveBody(h, b) ==
    CASE ReadSize(b) < h.recv_header.size         -> Wait(h, b)
      [] h.recv_header.id >= NumReceivers         -> Fail(h, b, "RECEIVE_HEADER_BAD_ID")
      [] h.recv_header.id \notin Prototypes       -> Fail(h, b, "RECEIVE_PACKET_UNKNOWN")
      [] OTHER -> BodyRead(h, Read(b, ProtoLen(h.recv_header.id)))

\* A pass of Handler::receive() after deserializing a header (hr: the result
\* of the read): nothing read waits, a short read is RECEIVE_HEADER_PARTIAL,
\* else the header becomes pending and the pass goes on to the body.
HeaderRead(h, hr) ==
    CASE Len(hr.data) = 0          -> Wait(h, hr.buf)
      [] Len(hr.data) # HeaderSize -> Fail(h, hr.buf, "RECEIVE_HEADER_PARTIAL")
      [] OTHER ->
            ReceiveBody([h EXCEPT !.recv_header = [id |-> hr.data[1], size |-> hr.data[2]]],
                        hr.buf)

\* One pass of Handler::receive() up to the call of the receiver: with no
\* header pending, wait unless a whole header is buffered (can_deserialize),
\* then read it.  Result "dispatch" carries the packet.
ReceiveHead(h, b) ==
    CASE h.recv_header.id # 0    -> ReceiveBody(h, b)
      [] ReadSize(b) < HeaderSize -> Wait(h, b)
      [] OTHER                    -> HeaderRead(h, Read(b, HeaderSize))

(* Mutant: the end of a pass that forgets recv_header_.id = 0 after a     *)
(* successful receiver, so the same header is taken for the next packet.   *)
DispatchedKeepsHeader(h, ok) ==
    IF ok THEN h ELSE SetError(h, "RECEIVE_RECEIVER_FAILED")

\* The end of a pass: a receiver that returned false is
\* RECEIVE_RECEIVER_FAILED (the header stays pending); otherwise the header
\* is cleared and the loop goes on.
Dispatched(h, ok) ==
    IF ok THEN [h EXCEPT !.recv_header = [id |-> 0, size |-> 0]]
    ELSE SetError(h, "RECEIVE_RECEIVER_FAILED")

\* The packets a well-formed word stream carries: each frame is a header
\* followed by `size` words of body.  A frame cut short is kept as it is;
\* a torn header becomes a frame of id 0, which no sender writes.
RECURSIVE Frames(_)
Frames(w) ==
    IF Len(w) = 0 THEN <<>>
    ELSE IF Len(w) < HeaderSize THEN <<[id |-> 0, body |-> w]>>
    ELSE LET n == HeaderSize + w[2]
         IN  IF n > Len(w)
             THEN <<[id |-> w[1], body |-> SubSeq(w, HeaderSize + 1, Len(w))]>>
             ELSE <<[id |-> w[1], body |-> SubSeq(w, HeaderSize + 1, n)]>>
                  \o Frames(SubSeq(w, n + 1, Len(w)))

=============================================================================
