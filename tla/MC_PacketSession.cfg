CONSTANTS
    Client = Client
    Server = Server
    MessageId <- MC_MessageId
    PingId <- MC_PingId
    PongId <- MC_PongId
    NumReceivers <- MC_NumReceivers
    Prototypes <- MC_Prototypes
    ProtoLen <- MC_ProtoLen
    Capacity = 9
    MsgLen = 1
    Senders = {Client}
    MaxMsgs = 1
    SockCap = 1
    CounterMod = 3
    DeliveryMod = 2

SPECIFICATION FairSpec

INVARIANTS
    NoHandlerError

PROPERTIES
    MessagesDelivered
    PingProgress
    ChannelSpec

\* A side whose handler reports an error is no longer driven, so the
\* system may stop; PingProgress would report such a stop (the ping
\* round trips never end otherwise).
CHECK_DEADLOCK FALSE
