----------------------------- MODULE MCIbcPackets -----------------------------
(* IbcPackets on small instances. *)
EXTENDS IbcPackets

CONSTANTS a, b

\* A timeout by height and by time.
MCTimeouts == {[height |-> 1, time |-> 1]}

\* Packets from a to b may time out, those from b to a not.
OnlyB == [c \in Chains |-> IF c = b THEN 1 ELSE 0]
=============================================================================
