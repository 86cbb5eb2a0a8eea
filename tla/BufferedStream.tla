--------------------------- MODULE BufferedStream ---------------------------
(***************************************************************************)
(* lib::stream::impl::buffer (src/include/lib/impl/stream/buffer.cpp): a   *)
(* stream with a read-ahead buffer and a write-behind buffer, both of the  *)
(* capacity reserved by the constructor, over a backing stream.            *)
(*                                                                         *)
(* The component's state is the record                                    *)
(*     [read_buff : Seq(Word), read_pos : Nat, write_buff : Seq(Word)]     *)
(* and every method is an operator from that record (and what the backing *)
(* stream offers or accepts) to the new record and the method's result.   *)
(* A "word" is one field of the wire format (see PacketHandler): sizes are *)
(* counted in fields, not in bytes.  Composing modules hold one such      *)
(* record per stream object.                                              *)
(***************************************************************************)
EXTENDS Naturals, Sequences

CONSTANT Capacity   \* read_buff.capacity() = write_buff.capacity()

ASSUME Capacity \in Nat \ {0}

LOCAL MinOf(a, b) == IF a < b THEN a ELSE b

\* buffer::buffer( size ) followed by buffer::reset( stream ): both buffers
\* empty, the read cursor at 0.
EmptyBuffer == [read_buff |-> <<>>, read_pos |-> 0, write_buff |-> <<>>]

\* buffer::read_size(): the bytes pulled from the backing stream and not yet
\* consumed.
ReadSize(b) == Len(b.read_buff) - b.read_pos

\* buffer::write_size(): the room left in the write buffer.
WriteSize(b) == Capacity - Len(b.write_buff)

\* buffer::peek( buffer ) of n words: copies min( n, read_size() ) words from
\* the read cursor on, without moving it.
Peek(b, n) == SubSeq(b.read_buff, b.read_pos + 1, b.read_pos + MinOf(n, ReadSize(b)))

\* buffer::read( buffer ) of n words: peek, then advance the cursor by the
\* count peeked.  Result: the new record and the words read.
Read(b, n) ==
    LET data == Peek(b, n)
    IN  [buf |-> [b EXCEPT !.read_pos = @ + Len(data)], data |-> data]

(* Mutant: read_flush() that tops up only once the read buffer has been  *)
(* consumed entirely, returning early while any word is unread.            *)
ReadFlushOnlyWhenDrained(b, src) ==
    IF ReadSize(b) > 0 THEN [buf |-> b, taken |-> 0]
    ELSE LET count == MinOf(Len(src), Capacity)
         IN  [buf   |-> [b EXCEPT !.read_buff = SubSeq(src, 1, count),
                                  !.read_pos  = 0],
              taken |-> count]

(* Mutant: read_flush() that forgets to erase the consumed prefix before   *)
(* topping up, so consumed words are read again.                           *)
ReadFlushKeepsConsumed(b, src) ==
    LET kept  == b.read_buff
        count == MinOf(Len(src), Capacity - Len(kept))
    IN  [buf   |-> [b EXCEPT !.read_buff = kept \o SubSeq(src, 1, count),
                             !.read_pos  = 0],
         taken |-> count]

\* buffer::read_flush() over a backing stream whose read_size() is Len(src):
\* erase the consumed prefix, reset the cursor, then read
\* min( read_size, capacity - size ) words from the backing stream.  The
\* backing read returns exactly the count asked for, since it never asks
\* for more than the backing stream reports available.  Result: the new
\* record and how many words were taken from the head of src.
ReadFlush(b, src) ==
    LET kept  == SubSeq(b.read_buff, b.read_pos + 1, Len(b.read_buff))
        count == MinOf(Len(src), Capacity - Len(kept))
    IN  [buf   |-> [b EXCEPT !.read_buff = kept \o SubSeq(src, 1, count),
                             !.read_pos  = 0],
         taken |-> count]

\* buffer::write( buffer ): append min( Len(data), write_size() ) words.
\* Result: the new record and the count written.
Write(b, data) ==
    LET count == MinOf(Len(data), WriteSize(b))
    IN  [buf   |-> [b EXCEPT !.write_buff = @ \o SubSeq(data, 1, count)],
         count |-> count]

(* Mutant: write_flush() that clears the whole write buffer whatever the   *)
(* backing stream accepted.                                                *)
WriteFlushDropsAll(b, accepted) ==
    [b EXCEPT !.write_buff = <<>>]

\* buffer::write_flush() when the backing stream's write() accepted the
\* first `accepted` words of write_buff: erase exactly that prefix.  An
\* empty write buffer is left alone (the early return).
WriteFlush(b, accepted) ==
    IF b.write_buff = <<>> THEN b
    ELSE [b EXCEPT !.write_buff = SubSeq(@, accepted + 1, Len(@))]

=============================================================================
