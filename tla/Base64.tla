------------------------------- MODULE Base64 -------------------------------
(***************************************************************************)
(* lib::codec::impl::base64 (impl/codec/base64.cpp): a codec object that   *)
(* encodes bytes to the RFC 4648 alphabet or decodes it back, keeping a    *)
(* three-byte Word, the index of the next byte in it, a mode, a sticky     *)
(* error and the output buffer.  Characters are their ASCII codes and the  *)
(* Word's shifts are modelled bit by bit (Bitwise), so the model computes  *)
(* the same bytes as the code.  The RFC's definition of the encoding is    *)
(* written separately (RfcEncode, RfcDecode) and the codec is checked     *)
(* against it on the inputs the code's own IsValid accepts.               *)
(***************************************************************************)
EXTENDS Naturals, Sequences, SequencesExt, Bitwise

CONSTANTS
    Bytes,        \* the plain bytes the application encodes
    CodedChars,   \* the characters (ASCII codes) of the words it decodes
    MaxChunk,     \* the longest buffer passed to one encode()
    MaxPlain,     \* bound: bytes encoded since the last reset
    MaxDecoded,   \* bound: bytes decoded since the last reset
    PairChars     \* the characters of the two-word inputs to decode()

ASSUME Bytes \subseteq 0..255 /\ CodedChars \cup PairChars \subseteq 0..127

VARIABLES
    mode,      \* mode_
    error,     \* error_ (set: make_error_bad_data)
    wordIdx,   \* word_idx
    word,      \* word.data, three bytes
    buffer,    \* buffer_
    segs,      \* history: the plain bytes encoded since the last reset, cut
               \* where read_flush() padded a partial word
    fed,       \* history: the bytes the RFC decodes from the input since reset
    known      \* history: base64::IsValid() held of every decode() input since reset

vars == <<mode, error, wordIdx, word, buffer, segs, fed, known>>

Modes == {"UNDEFINED", "ENCODE", "DECODE"}

-----------------------------------------------------------------------------
(* base64::Word and the alphabet *)

U8(x) == x % 256
Shl(x, n) == U8(x * 2^n)

\* Word( first, second, third, fourth ): three bytes from four sextets.
MkWord(f, s, t, u) ==
    << Shl(f, 2) | shiftR(s, 4), Shl(s, 4) | shiftR(t, 2), Shl(t, 6) | u >>

WFirst(d)  == 63 & shiftR(d[1], 2)
WSecond(d) == 63 & (Shl(d[1], 4) | shiftR(d[2], 4))
WThird(d)  == 63 & (Shl(d[2], 2) | shiftR(d[3], 6))
WFourth(d) == 63 & d[3]

\* third( value ) shifting the value by SECOND_OFFSET_R.
SetThirdShift(d, v) ==
    LET x == 63 & v
    IN  << d[1], Shl(WSecond(d), 4) | shiftR(x, 4), Shl(x, 6) | WFourth(d) >>

\* The setters third( value ) and fourth( value ).
SetThird(d, v) ==
    LET x == 63 & v
    IN  << d[1], Shl(WSecond(d), 4) | shiftR(x, 2), Shl(x, 6) | WFourth(d) >>
SetFourth(d, v) == << d[1], d[2], Shl(WThird(d), 6) | (63 & v) >>

\* ALPHABET[i]: A-Z, a-z, 0-9, '+', '/'.
Alphabet(i) ==
    CASE i < 26 -> 65 + i
      [] i < 52 -> 71 + i
      [] i < 62 -> i - 4
      [] i = 62 -> 43
      [] OTHER  -> 47
PAD == 61
BAD_IDX == 255

\* AlphaToIdx(): the index of c in ALPHABET (the table's inverse), BAD_IDX
\* when it is not there.
AlphaToIdx(c) ==
    CASE c \in 65..90  -> c - 65
      [] c \in 97..122 -> c - 71
      [] c \in 48..57  -> c + 4
      [] c = 43        -> 62
      [] c = 47        -> 63
      [] OTHER         -> BAD_IDX

Sextets(d) == << Alphabet(WFirst(d)), Alphabet(WSecond(d)),
                 Alphabet(WThird(d)), Alphabet(WFourth(d)) >>

-----------------------------------------------------------------------------
(* base64::IsValid() *)

\* The loop from word i on: two alphabet characters, then either two more,
\* or a final word ending in "==" or in one '='.
RECURSIVE ValidFrom(_, _)
ValidFrom(c, i) ==
    IF i + 3 > Len(c) THEN TRUE
    ELSE LET third == AlphaToIdx(c[i + 2])
             fourth == AlphaToIdx(c[i + 3])
         IN  CASE AlphaToIdx(c[i]) = BAD_IDX \/ AlphaToIdx(c[i + 1]) = BAD_IDX -> FALSE
               [] third = BAD_IDX ->
                     c[i + 2] = PAD /\ c[i + 3] = PAD /\ i + 3 = Len(c)
               [] fourth = BAD_IDX -> c[i + 3] = PAD /\ i + 3 = Len(c)
               [] OTHER -> ValidFrom(c, i + 4)

IsValid(c) == Len(c) % 4 = 0 /\ ValidFrom(c, 1)

-----------------------------------------------------------------------------
(* The codec's operations *)

Init ==
    /\ mode = "UNDEFINED" /\ error = FALSE
    /\ wordIdx = 0 /\ word = <<0, 0, 0>> /\ buffer = <<>>
    /\ segs = << <<>> >> /\ fed = <<>> /\ known = TRUE

\* reset( mode ): every field back to its initial value.
Reset(m) ==
    /\ mode' = m /\ error' = FALSE
    /\ wordIdx' = 0 /\ word' = <<0, 0, 0>> /\ buffer' = <<>>
    /\ segs' = << <<>> >> /\ fed' = <<>> /\ known' = TRUE


\* One byte of encode()'s loop: stored at word_idx; a full word is written
\* out as four characters and the Word cleared.
EncodeStepNoWrap(acc, p) ==
    LET d == [acc.word EXCEPT ![acc.idx + 1] = p]
    IN  IF acc.idx + 1 = 4
        THEN [idx |-> 0, word |-> <<0, 0, 0>>, out |-> acc.out \o Sextets(d)]
        ELSE [idx |-> acc.idx + 1, word |-> d, out |-> acc.out]

EncodeStep(acc, p) ==
    LET d == [acc.word EXCEPT ![acc.idx + 1] = p]
    IN  IF acc.idx + 1 = 3
        THEN [idx |-> 0, word |-> <<0, 0, 0>>, out |-> acc.out \o Sextets(d)]
        ELSE [idx |-> acc.idx + 1, word |-> d, out |-> acc.out]

\* The fields as encode() or decode() start with them: reset( m ) first
\* when the codec is in another mode.
Start(m) ==
    IF mode = m THEN [idx |-> wordIdx, word |-> word, out |-> buffer, err |-> error]
               ELSE [idx |-> 0, word |-> <<0, 0, 0>>, out |-> <<>>, err |-> FALSE]

\* encode( plain ): the whole call.  An empty plain returns after the reset.
Encode(plain) ==
    LET fresh == mode # "ENCODE"
        s0 == IF fresh THEN << <<>> >> ELSE segs
        r == FoldLeft(EncodeStep, [idx |-> Start("ENCODE").idx, word |-> Start("ENCODE").word,
                                   out |-> Start("ENCODE").out], plain)
    IN  /\ Len(FlattenSeq(s0)) + Len(plain) <= MaxPlain
        /\ mode' = "ENCODE" /\ error' = Start("ENCODE").err
        /\ wordIdx' = r.idx /\ word' = r.word /\ buffer' = r.out
        /\ segs' = [s0 EXCEPT ![Len(s0)] = @ \o plain]
        /\ fed' = IF fresh THEN <<>> ELSE fed
        /\ known' = (fresh \/ known)

\* decode()'s loop from the word at i: a bad character ends the call with
\* the error, the bytes of the earlier words kept; otherwise the first byte
\* is written, the second unless the third character is '=', the third
\* unless the fourth is.
RECURSIVE DecodeFrom(_, _, _)
DecodeFrom(c, i, acc) ==
    IF i + 3 > Len(c) THEN acc
    ELSE LET first == AlphaToIdx(c[i])
             second == AlphaToIdx(c[i + 1])
             third == AlphaToIdx(c[i + 2])
             fourth == AlphaToIdx(c[i + 3])
             w0 == MkWord(first, second, 0, 0)
             w1 == SetThird(w0, third)
             w2 == SetFourth(w1, fourth)
             w == CASE c[i + 2] = PAD -> w0 [] c[i + 3] = PAD -> w1 [] OTHER -> w2
             n == CASE c[i + 2] = PAD -> 1 [] c[i + 3] = PAD -> 2 [] OTHER -> 3
         IN  IF \/ first = BAD_IDX \/ second = BAD_IDX
                \/ c[i + 2] # PAD /\ third = BAD_IDX
                \/ c[i + 3] # PAD /\ fourth = BAD_IDX
             THEN [acc EXCEPT !.err = TRUE]
             ELSE DecodeFrom(c, i + 4, [acc EXCEPT !.word = w,
                                                   !.out = @ \o SubSeq(w, 1, n)])


\* The RFC's decoding of a valid input: each group of four characters is
\* 24 bits, of which the bytes not made up of padding are kept.
RECURSIVE RfcDecode(_)
RfcDecode(c) ==
    IF c = <<>> THEN <<>>
    ELSE LET v(j) == IF c[j] = PAD THEN 0 ELSE AlphaToIdx(c[j])
             n == v(1) * 2^18 + v(2) * 2^12 + v(3) * 2^6 + v(4)
             pads == Len(SelectSeq(SubSeq(c, 1, 4), LAMBDA x : x = PAD))
         IN  SubSeq(<< (n \div 2^16) % 256, (n \div 2^8) % 256, n % 256 >>, 1, 3 - pads)
                \o RfcDecode(SubSeq(c, 5, Len(c)))

\* decode( coded ): the whole call.  coded.size() is a multiple of four
\* (CPP_ASSERT, a precondition of the caller's).
Decode(c) ==
    LET fresh == mode # "DECODE"
        r == DecodeFrom(c, 1, [word |-> Start("DECODE").word, out |-> Start("DECODE").out,
                               err |-> Start("DECODE").err])
    IN  /\ Len(Start("DECODE").out) + 3 * (Len(c) \div 4) <= MaxDecoded
        /\ mode' = "DECODE" /\ error' = r.err
        /\ wordIdx' = Start("DECODE").idx /\ word' = r.word /\ buffer' = r.out
        /\ segs' = IF fresh THEN << <<>> >> ELSE segs
        /\ fed' = (IF fresh THEN <<>> ELSE fed) \o (IF IsValid(c) THEN RfcDecode(c) ELSE <<>>)
        /\ known' = (fresh \/ known) /\ IsValid(c)

\* read_flush() in ENCODE mode with a partial word (read_cbuffer( true )
\* calls it): the word's characters are written with '=' for each missing
\* byte and word_idx returns to 0.  In any other case it returns without
\* changing anything.
ReadFlush ==
    /\ mode = "ENCODE" /\ wordIdx # 0
    /\ buffer' = buffer \o << Alphabet(WFirst(word)), Alphabet(WSecond(word)),
                              IF wordIdx = 2 THEN Alphabet(WThird(word)) ELSE PAD, PAD >>
    /\ wordIdx' = 0
    /\ segs' = Append(segs, <<>>)
    /\ UNCHANGED <<mode, error, word, fed, known>>

-----------------------------------------------------------------------------

\* The application's calls: byte buffers of up to MaxChunk bytes to
\* encode, single words and pairs of words to decode.
Chunks == BoundedSeq(Bytes, MaxChunk)
Coded == {<<>>} \cup [1..4 -> CodedChars] \cup [1..8 -> PairChars]

Next ==
    \/ \E m \in Modes : Reset(m)
    \/ \E p \in Chunks : Encode(p)
    \/ \E c \in Coded : Decode(c)
    \/ ReadFlush

Spec == Init /\ [][Next]_vars

-----------------------------------------------------------------------------
(* The RFC 4648 encoding *)

\* Groups of three bytes as four characters; a final group of one or two
\* bytes as two or three characters and '=' padding.
RECURSIVE RfcEncode(_)
RfcEncode(p) ==
    IF p = <<>> THEN <<>>
    ELSE LET k == IF Len(p) < 3 THEN Len(p) ELSE 3
             b(j) == IF j <= k THEN p[j] ELSE 0
             n == b(1) * 2^16 + b(2) * 2^8 + b(3)
             ch(j) == IF j <= k + 1 THEN Alphabet((n \div 2^(24 - 6 * j)) % 64) ELSE PAD
         IN  [j \in 1..4 |-> ch(j)] \o RfcEncode(SubSeq(p, k + 1, Len(p)))

-----------------------------------------------------------------------------

TypeOK ==
    /\ mode \in Modes /\ error \in BOOLEAN
    /\ wordIdx \in 0..2 /\ word \in [1..3 -> 0..255]
    /\ buffer \in Seq(0..255)

\* What base64::IsValid() accepts, decode() decodes as RFC 4648 does and
\* without an error: after any sequence of decode() calls since the mode
\* changed, the buffer holds the RFC's bytes of every input.
DecodeMatchesReference ==
    mode = "DECODE" /\ known => buffer = fed /\ ~error

\* encode() and read_flush() produce the RFC's encoding of what was encoded
\* since the mode changed, each read_flush() that pads closing a group: the
\* buffer is the encoding of every closed group followed by the complete
\* words of the open one.
EncodeMatchesReference ==
    mode = "ENCODE" =>
        LET open == segs[Len(segs)]
        IN  buffer = FlattenSeq([i \in 1..Len(segs) - 1 |-> RfcEncode(segs[i])])
                       \o RfcEncode(SubSeq(open, 1, Len(open) - (Len(open) % 3)))

====
