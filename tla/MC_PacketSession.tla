------------------------- MODULE MC_PacketSession --------------------------
(* The packets test's two PacketsHandlers, the client sending one Message *)
(* (Senders = {Client}), words of one field per Message body.             *)
EXTENDS PacketSession

MC_MessageId == 1
MC_PingId == 2
MC_PongId == 3
\* receivers.size(): Message::ID 1, then ping 2 and pong 3 of the counter
MC_NumReceivers == 4
MC_Prototypes == {1, 2, 3}
MC_ProtoLen(id) == IF id = MC_MessageId THEN MsgLen ELSE 1


=============================================================================
