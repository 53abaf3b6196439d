------------------------------ MODULE PacketLife ------------------------------
(***************************************************************************)
(* What applications may rely on when they send packets to each other: the *)
(* receiver is called at most once, and only before the packet times out;   *)
(* the sender is called at most once, either with the acknowledgement that  *)
(* the receiver wrote, or because the packet timed out and will never be    *)
(* received.                                                                *)
(***************************************************************************)
EXTENDS Sequences

CONSTANTS Packets,  \* the packets that may be sent
          Acks,     \* what a receiver may acknowledge
          NoAck     \* a receiver that writes no acknowledgement

VARIABLES told,     \* for each packet, the calls of the applications about it
          late      \* packets the destination is too late to receive
vars == <<told, late>>

Sent == [call |-> "send", ack |-> NoAck]
Received(ack) == [call |-> "receive", ack |-> ack]
Acknowledged(ack) == [call |-> "acknowledge", ack |-> ack]
TimedOut == [call |-> "timeout", ack |-> NoAck]

Init == told = [p \in Packets |-> <<>>] /\ late = {}

\* A packet is born late when the destination is past its timeout already.
Send(p) ==
    /\ told[p] = <<>>
    /\ told' = [told EXCEPT ![p] = <<Sent>>]
    /\ late' \in {late, late \cup {p}}

Receive(p, ack) ==
    /\ told[p] = <<Sent>>
    /\ p \notin late
    /\ told' = [told EXCEPT ![p] = <<Sent, Received(ack)>>]
    /\ UNCHANGED late

Acknowledge(p, ack) ==
    /\ told[p] = <<Sent, Received(ack)>>
    /\ told' = [told EXCEPT ![p] = <<Sent, Received(ack), Acknowledged(ack)>>]
    /\ UNCHANGED late

Timeout(p) ==
    /\ told[p] = <<Sent>>
    /\ p \in late
    /\ told' = [told EXCEPT ![p] = <<Sent, TimedOut>>]
    /\ UNCHANGED late

\* Time passes.
Expire ==
    /\ late' \in SUBSET Packets
    /\ late \subseteq late'
    /\ \A p \in late' : told[p] # <<>>
    /\ UNCHANGED told

Next ==
    \/ \E p \in Packets :
         \/ Send(p) \/ Timeout(p)
         \/ \E ack \in Acks \cup {NoAck} : Receive(p, ack)
         \/ \E ack \in Acks : Acknowledge(p, ack)
    \/ Expire

Spec == Init /\ [][Next]_vars
=============================================================================
