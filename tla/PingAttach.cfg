\* A stream of six words: two ping(1) frames of three words fill it.
\* The application listens on id 1 only; ping is 2, pong 3; counters up to 2.
CONSTANTS
    Capacity = 6
    NumReceivers = 4
    Prototypes = {1, 2, 3}
    ProtoLen <- PA_ProtoLen
    PingId = 2
    PongId = 3
    CounterMod = 3
    AppId = 1
    MaxCount = 2
SPECIFICATION Spec
INVARIANT NoNullHandlerCall
