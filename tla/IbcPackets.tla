------------------------------ MODULE IbcPackets ------------------------------
(***************************************************************************)
(* Packets between the IBC modules of two Apps: _send_packet,               *)
(* receive_packet, acknowledge_packet, timeout_packet and close_channel of  *)
(* src/ibc/simple_ibc.rs, over channels that are established, and the calls *)
(* of src/ibc/relayer/packet.rs that carry packets from one App to the      *)
(* other.                                                                   *)
(*                                                                          *)
(* relay_packet makes two or three calls of sudo, and any of them may fail  *)
(* and leave the earlier ones done; a test may also make them itself, and   *)
(* relay a packet again.  So a relayer here makes any call, at any time, to *)
(* which the event it needs was emitted.  Each call is one transaction: one *)
(* that returns an error changes nothing and is no step.                    *)
(*                                                                          *)
(* The applications (contracts, the bank) are free: they accept or refuse a *)
(* call, and acknowledge what they like.  told records their calls.         *)
(***************************************************************************)
EXTENDS Naturals, Sequences, FiniteSets

CONSTANTS Chains,      \* the two Apps
          Channels,    \* the channels, with the same id on both chains
          Ordered,     \* the channels of order IbcOrder::Ordered
          Timeouts,    \* the timeouts packets are sent with
          Responses,   \* how applications answer: an acknowledgement or None
          None,        \* no timeout height, timestamp, acknowledgement, packet
          MaxPackets,  \* bound: packets sent from one end of a channel
          MaxBlock     \* bound: height and time that each chain reaches

ASSUME ChainsAssumption == \E c, d \in Chains : c # d /\ Chains = {c, d}
ASSUME TimeoutsAssumption ==
    /\ Timeouts \subseteq [height : Nat \cup {None}, time : Nat \cup {None}]
    /\ None \notin Nat \cup Timeouts
ASSUME PacketBoundsAssumption ==
    Ordered \subseteq Channels /\ MaxPackets \in Nat /\ MaxBlock \in [Chains -> Nat]

VARIABLES next_packet_id,   \* of CHANNEL_INFO, for each end of a channel
          open,             \* of CHANNEL_INFO
          SEND_PACKET,      \* the timeout a packet was sent with
          RECEIVE_PACKET,   \* "no", or whether the packet had timed out
          RECEIVE_ACK,      \* at the destination: the acknowledgement written
          SEND_ACK,         \* at the source: the acknowledgement delivered
          TIMEOUT_PACKET,   \* at the source: packets that timed out
          block,            \* height and time of each chain
          told              \* history: calls of the applications about a packet
ibcVars == <<next_packet_id, open, SEND_PACKET, RECEIVE_PACKET, RECEIVE_ACK,
             SEND_ACK, TIMEOUT_PACKET>>
vars == <<next_packet_id, open, SEND_PACKET, RECEIVE_PACKET, RECEIVE_ACK,
          SEND_ACK, TIMEOUT_PACKET, block, told>>

Ends == Chains \X Channels
Acks == Responses \ {None}

\* A packet is known by its source end and its sequence: (port, channel, sequence)
\* is the key of every map.
Packets == [src : Chains, channel : Channels, sequence : 1 .. MaxPackets]

Other(c) == CHOOSE d \in Chains : d # c
Dest(p) == Other(p.src)
SourceEnd(p) == <<p.src, p.channel>>
DestEnd(p) == <<Dest(p), p.channel>>

\* Mutant of HasTimedOut: a packet may arrive in the block of its timeout.
HasTimedOutAfter(timeout, b) ==
    \/ timeout.height # None /\ b.height > timeout.height
    \/ timeout.time # None /\ b.time > timeout.time

HasTimedOut(timeout, b) ==
    \/ timeout.height # None /\ b.height >= timeout.height
    \/ timeout.time # None /\ b.time >= timeout.time

\* The destination has not reached a limit: said apart from HasTimedOut, for the
\* abstract specification.
Before(now, limit) == limit = None \/ now < limit
Late == {p \in Packets :
           /\ SEND_PACKET[p] # None
           /\ ~(/\ Before(block[Dest(p)].height, SEND_PACKET[p].height)
                /\ Before(block[Dest(p)].time, SEND_PACKET[p].time))}

Life == INSTANCE PacketLife WITH NoAck <- None, late <- Late

Tell(p, what) == told' = [told EXCEPT ![p] = Append(@, what)]

-----------------------------------------------------------------------------
Init ==
    /\ next_packet_id = [e \in Ends |-> 1]
    /\ open = [e \in Ends |-> TRUE]
    /\ SEND_PACKET = [p \in Packets |-> None]
    /\ RECEIVE_PACKET = [p \in Packets |-> "no"]
    /\ RECEIVE_ACK = [p \in Packets |-> None]
    /\ SEND_ACK = [p \in Packets |-> None]
    /\ TIMEOUT_PACKET = {}
    /\ block = [c \in Chains |-> [height |-> 0, time |-> 0]]
    /\ told = [p \in Packets |-> <<>>]

\* Mutant of SendPacket: the sequence is not counted up.
SendPacketKeepsSequence(p, timeout) ==
    /\ p.sequence = next_packet_id[SourceEnd(p)]
    /\ SEND_PACKET' = [SEND_PACKET EXCEPT ![p] = timeout]
    /\ Tell(p, Life!Sent)
    /\ UNCHANGED <<next_packet_id, open, RECEIVE_PACKET, RECEIVE_ACK, SEND_ACK,
                   TIMEOUT_PACKET, block>>

\* _send_packet, from IbcMsg::SendPacket, IbcPacketRelayingMsg::Send or a
\* transfer.  It does not ask whether the channel is open.
SendPacket(p, timeout) ==
    /\ p.sequence = next_packet_id[SourceEnd(p)]
    /\ SEND_PACKET' = [SEND_PACKET EXCEPT ![p] = timeout]
    /\ next_packet_id' = [next_packet_id EXCEPT ![SourceEnd(p)] = @ + 1]
    /\ Tell(p, Life!Sent)
    /\ UNCHANGED <<open, RECEIVE_PACKET, RECEIVE_ACK, SEND_ACK, TIMEOUT_PACKET, block>>

\* "You can't receive the same packet twice on the chain"
NotReceived(p) == RECEIVE_PACKET[p] = "no"

\* receive_packet before the timeout: the application is called.
ReceivePacket(p, ack) ==
    /\ SEND_PACKET[p] # None
    /\ NotReceived(p)
    /\ ~HasTimedOut(SEND_PACKET[p], block[Dest(p)])
    /\ RECEIVE_PACKET' = [RECEIVE_PACKET EXCEPT ![p] = "in time"]
    /\ RECEIVE_ACK' = [RECEIVE_ACK EXCEPT ![p] = ack]
    /\ Tell(p, Life!Received(ack))
    /\ UNCHANGED <<next_packet_id, open, SEND_PACKET, SEND_ACK, TIMEOUT_PACKET, block>>

\* Mutant of ClosedBy: the receiving end stays open.
ClosedByNothing(p) == {}

\* The ends that a packet received after its timeout closes.
ClosedBy(p) == IF p.channel \in Ordered THEN {DestEnd(p)} ELSE {}

\* receive_packet after the timeout: the application is not called, and an
\* ordered channel is closed.
ReceiveLatePacket(p) ==
    /\ SEND_PACKET[p] # None
    /\ NotReceived(p)
    /\ HasTimedOut(SEND_PACKET[p], block[Dest(p)])
    /\ RECEIVE_PACKET' = [RECEIVE_PACKET EXCEPT ![p] = "timed out"]
    /\ open' = [e \in Ends |-> open[e] /\ e \notin ClosedBy(p)]
    /\ UNCHANGED <<next_packet_id, SEND_PACKET, RECEIVE_ACK, SEND_ACK, TIMEOUT_PACKET,
                   block, told>>

\* Mutant of Acknowledgeable: no acknowledgement over a closed channel.
AcknowledgeableIfOpen(p) ==
    /\ open[SourceEnd(p)]
    /\ SEND_PACKET[p] # None
    /\ SEND_ACK[p] = None
    /\ p \notin TIMEOUT_PACKET

\* "You can't ack the same packet twice on the chain", "Packet has timed_out,
\* can't acknowledge"
Acknowledgeable(p) ==
    /\ SEND_PACKET[p] # None
    /\ SEND_ACK[p] = None
    /\ p \notin TIMEOUT_PACKET

\* relay_packet read the acknowledgement from the event of the receiver.
AcknowledgePacket(p) ==
    /\ RECEIVE_ACK[p] # None
    /\ Acknowledgeable(p)
    /\ SEND_ACK' = [SEND_ACK EXCEPT ![p] = RECEIVE_ACK[p]]
    /\ Tell(p, Life!Acknowledged(RECEIVE_ACK[p]))
    /\ UNCHANGED <<next_packet_id, open, SEND_PACKET, RECEIVE_PACKET, RECEIVE_ACK,
                   TIMEOUT_PACKET, block>>

\* Mutant of CanTimeout: a packet may time out twice.
CanTimeoutAgain(p) ==
    /\ SEND_ACK[p] = None
    /\ SEND_PACKET[p] # None

\* "You can't timeout an acked packet", "You can't timeout an packet twice"
CanTimeout(p) ==
    /\ SEND_ACK[p] = None
    /\ p \notin TIMEOUT_PACKET
    /\ SEND_PACKET[p] # None

\* Mutant of ReportedLate: any packet that was delivered.
ReportedAtAll(p) == RECEIVE_PACKET[p] # "no"

\* relay_packet saw TIMEOUT_RECEIVE_PACKET_EVENT.
ReportedLate(p) == RECEIVE_PACKET[p] = "timed out"

\* timeout_packet trusts the relayer that the destination received the packet
\* after its timeout.
TimeoutPacket(p) ==
    /\ ReportedLate(p)
    /\ CanTimeout(p)
    /\ TIMEOUT_PACKET' = TIMEOUT_PACKET \cup {p}
    /\ Tell(p, Life!TimedOut)
    /\ UNCHANGED <<next_packet_id, open, SEND_PACKET, RECEIVE_PACKET, RECEIVE_ACK,
                   SEND_ACK, block>>

\* close_channel: by a contract, IbcMsg::CloseChannel, or a test.
CloseChannel(e) ==
    /\ open' = [open EXCEPT ![e] = FALSE]
    /\ UNCHANGED <<next_packet_id, SEND_PACKET, RECEIVE_PACKET, RECEIVE_ACK, SEND_ACK,
                   TIMEOUT_PACKET, block, told>>

\* The end of relay_packet: after the timeout, it closes the source end if the
\* destination emitted CHANNEL_CLOSE_INIT_EVENT.
CloseConfirm(p) ==
    /\ ReportedLate(p)
    /\ DestEnd(p) \in ClosedBy(p)
    /\ p \in TIMEOUT_PACKET
    /\ CloseChannel(SourceEnd(p))

\* set_block and update_block.
NextBlock(c) ==
    /\ \E height, time \in 0 .. MaxBlock[c] :
         /\ height >= block[c].height /\ time >= block[c].time
         /\ block' = [block EXCEPT ![c] = [height |-> height, time |-> time]]
    /\ UNCHANGED <<ibcVars, told>>

Next ==
    \/ \E p \in Packets :
         \/ \E timeout \in Timeouts : SendPacket(p, timeout)
         \/ \E ack \in Responses : ReceivePacket(p, ack)
         \/ ReceiveLatePacket(p)
         \/ AcknowledgePacket(p)
         \/ TimeoutPacket(p)
         \/ CloseConfirm(p)
    \/ \E e \in Ends : CloseChannel(e)
    \/ \E c \in Chains : NextBlock(c)

Spec == Init /\ [][Next]_vars

\* relay_packets_in_tx carries every packet of a transaction, and applications
\* accept what they are called with.
Relay(p) ==
    \/ \E ack \in Responses : ReceivePacket(p, ack)
    \/ ReceiveLatePacket(p)
    \/ AcknowledgePacket(p)
    \/ TimeoutPacket(p)

FairSpec == Spec /\ \A p \in Packets : WF_vars(Relay(p)) /\ WF_vars(CloseConfirm(p))

-----------------------------------------------------------------------------
\* The state has the types of the storage maps, and sequences are used in order:
\* CHANNEL_INFO counts the packets in SEND_PACKET_MAP.
TypeOK ==
    /\ next_packet_id \in [Ends -> 1 .. MaxPackets + 1]
    /\ open \in [Ends -> BOOLEAN]
    /\ SEND_PACKET \in [Packets -> Timeouts \cup {None}]
    /\ RECEIVE_PACKET \in [Packets -> {"no", "in time", "timed out"}]
    /\ RECEIVE_ACK \in [Packets -> Acks \cup {None}]
    /\ SEND_ACK \in [Packets -> Acks \cup {None}]
    /\ TIMEOUT_PACKET \in SUBSET Packets
    /\ block \in [Chains -> [height : Nat, time : Nat]]
    /\ told \in [Packets -> Seq([call : {"send", "receive", "acknowledge", "timeout"},
                                 ack : Acks \cup {None}])]
    /\ \A p \in Packets :
         SEND_PACKET[p] # None <=> p.sequence < next_packet_id[SourceEnd(p)]

\* Packets that are sent, relayed twice, late or in any order keep the promises
\* of PacketLife: receive_packet, acknowledge_packet and timeout_packet together.
ImplementsPacketLife == Life!Spec

\* With a relayer that carries every packet, every packet of _send_packet is
\* acknowledged or times out, closed channel or not, unless its receiver wrote no
\* acknowledgement.
EveryPacketSettles ==
    \A p \in Packets :
      SEND_PACKET[p] # None
        ~> \/ SEND_ACK[p] # None
           \/ p \in TIMEOUT_PACKET
           \/ RECEIVE_PACKET[p] = "in time" /\ RECEIVE_ACK[p] = None

\* A packet that times out on an ordered channel ends with both ends closed:
\* receive_packet closes the one, relay_packet the other.
OrderedTimeoutCloses ==
    \A p \in Packets :
      p \in TIMEOUT_PACKET /\ p.channel \in Ordered
        ~> ~open[SourceEnd(p)] /\ ~open[DestEnd(p)]
=============================================================================
