\* Plain bytes 1 and 2, keys of up to two bytes over {4, 8} (and the empty
\* key), writes of up to two bytes and a buffer of up to four.
CONSTANTS
    Bytes = {1, 2}
    KeyBytes = {4, 8}
    MaxKey = 2
    MaxChunk = 2
    MaxBuffer = 4
SPECIFICATION Spec
INVARIANT XorCodecContract
