--------------------------- MODULE PacketChannel ----------------------------
(***************************************************************************)
(* What the packet transport promises each direction of a session: a      *)
(* FIFO of packets.  A step of a direction hands the first k packets of   *)
(* its queue to the receiver (counted, modulo DeliveryMod, in delivered)  *)
(* and may append packets at the tail; nothing else ever happens to a     *)
(* queued packet: none is lost, duplicated, altered or reordered.  Both   *)
(* directions may step at once, since a receive callback sends.           *)
(***************************************************************************)
EXTENDS Naturals, Sequences, SequencesExt

CONSTANTS Peers, DeliveryMod

VARIABLES queue, delivered

Init == delivered = [p \in Peers |-> 0]

\* Direction p, whose queue goes from q to q2, hands k packets over and
\* keeps the rest, in order, as the start of its new queue.
Transfer(p, q, q2) ==
    \E k \in 0..Len(q) :
        /\ delivered'[p] = (delivered[p] + k) % DeliveryMod
        /\ IsPrefix(SubSeq(q, k + 1, Len(q)), q2)

\* Both directions step together (a receive callback sends).
Step(q, q2) == \A p \in Peers : Transfer(p, q[p], q2[p])

Next == Step(queue, queue')

Spec == Init /\ [][Next]_<<queue, delivered>>

=============================================================================
