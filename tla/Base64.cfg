\* Bytes 15, 90 and 240 set different bits in each nibble, so a misplaced
\* shift changes a character; characters 'Q' (16), 'Z' (25), '/' (63),
\* '=' and the non-alphabet '*'.
CONSTANTS
    Bytes = {15, 90, 240}
    CodedChars = {81, 47, 61, 42}
    PairChars = {81, 61}
    MaxChunk = 2
    MaxPlain = 4
    MaxDecoded = 6
SPECIFICATION Spec
INVARIANTS TypeOK DecodeMatchesReference
