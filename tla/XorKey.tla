------------------------------- MODULE XorKey -------------------------------
(***************************************************************************)
(* lib::codec::impl::xorkey (src/include/lib/impl/codec/xorkey.{hpp,cpp}), *)
(* the repeating-key XOR codec.  encode() and decode() are both write():   *)
(* it appends the bytes to buffer_ and XORs the appended part with the key *)
(* by Process(), starting at key position key_idx.  reset(key_buff) sets   *)
(* the key and clears the buffer; reset(Mode), the codec_t reset, is      *)
(* reset() with the default, empty key.  read(), read_size() and           *)
(* read_cbuffer() only copy buffer_ out and change nothing.                *)
(*                                                                         *)
(* Bytes are small integers and XOR is Bitwise's ^^.  The history          *)
(* variables fed (the bytes written since the last reset) and given (the  *)
(* key last handed to the codec) exist for the properties.                 *)
(***************************************************************************)
EXTENDS Naturals, Sequences, SequencesExt, Bitwise

CONSTANTS
    Bytes,      \* the plain bytes written
    KeyBytes,   \* the bytes keys are made of
    MaxKey,     \* the longest key
    MaxChunk,   \* the longest buffer of one write()
    MaxBuffer   \* bound on buffer_ (and so on the writes)

VARIABLES
    key,        \* key_
    keyIdx,     \* key_idx
    buffer,     \* buffer_
    error,      \* whether the last write() since a reset returned an error
    fed,        \* history: the bytes written since the last reset
    given       \* history: the key of the constructor or of reset(key_buff)

vars == <<key, keyIdx, buffer, error, fed, given>>

Keys == BoundedSeq(KeyBytes, MaxKey)

Chunks == BoundedSeq(Bytes, MaxChunk)

\* Process(buffer, key, key_idx): with an empty key an error, else every
\* byte XORed in place with the key from position key_idx on, the position
\* advancing and wrapping at the key's end.  The i-th byte meets key byte
\* (key_idx + i - 1) % key.size().  Only Process()'s own copy of key_idx moves.
Process(buf, k, idx) ==
    [i \in 1..Len(buf) |-> buf[i] ^^ k[((idx + i - 1) % Len(k)) + 1]]

\* xorkey() and xorkey(key_buff): key_idx = 0, the key copied, no data.
Init ==
    /\ key \in Keys
    /\ keyIdx = 0
    /\ buffer = <<>>
    /\ error = FALSE
    /\ fed = <<>>
    /\ given = key

\* reset(key_buff): key_idx back to 0, the new key, buffer_ cleared.
ResetKey(k) ==
    /\ keyIdx' = 0
    /\ key' = k
    /\ buffer' = <<>>
    /\ fed' = <<>>
    /\ given' = k
    /\ error' = FALSE

\* reset(Mode): calls reset() and so installs the default, empty key.
ResetMode ==
    /\ keyIdx' = 0
    /\ key' = <<>>
    /\ buffer' = <<>>
    /\ fed' = <<>>
    /\ error' = FALSE
    /\ UNCHANGED given

\* write(buffer), behind both encode() and decode(): an empty key is an
\* error and changes nothing; else the bytes are appended to buffer_ and
\* Process() XORs the appended part from the member key_idx, passed by
\* value, which write() leaves as it is.
Write(p) ==
    /\ Len(buffer) + Len(p) <= MaxBuffer
    /\ IF key = <<>>
       THEN /\ error' = TRUE
            /\ UNCHANGED <<buffer, fed>>
       ELSE /\ buffer' = buffer \o Process(p, key, keyIdx)
            /\ error' = FALSE
            /\ fed' = fed \o p
    /\ UNCHANGED <<key, keyIdx, given>>

Next ==
    \/ \E k \in Keys : ResetKey(k)
    \/ ResetMode
    \/ \E p \in Chunks : Write(p)

Spec == Init /\ [][Next]_vars

-----------------------------------------------------------------------------
(* Properties *)

\* The codec is a stream: the key_idx member, kept by the class and set
\* to 0 by reset(), carries the key position from one write() to the
\* next, so buffer_ is the XOR of everything written since the reset with
\* the key repeated from its start, however the input was split into
\* encode() or decode() calls.
XorStreamContinuous == buffer = Process(fed, key, 0)

\* A key handed to the codec stays in force: reset(Mode), which generic
\* codec_t users call before a new stream, does not make the next write()
\* fail when the constructor or reset(key_buff) gave a key.
KeyedWritesSucceed == given # <<>> => ~error

\* The two promises of a keyed stream codec above (each violated on its
\* own: write() never advances key_idx, and reset(Mode) drops the key).
XorCodecContract == XorStreamContinuous /\ KeyedWritesSucceed

=============================================================================
