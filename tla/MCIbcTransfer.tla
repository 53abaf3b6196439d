----------------------------- MODULE MCIbcTransfer -----------------------------
(* IbcTransfer on small instances. *)
EXTENDS IbcTransfer, TLC

CONSTANTS home, away, ch1, ch2, atom

TwoChannels == {ch1, ch2}
Symmetry == Permutations(TwoChannels)

\* At height 1 of the destination, or never.
OneTimeout == {[height |-> 1, time |-> None]}
HomeOnly == [c \in Chains |-> [n \in Natives |-> IF c = home THEN 3 ELSE 0]]
\* Each chain has tokens of its own, of the same name: LockNeverTooLow fails then.
BothHave == [c \in Chains |-> [n \in Natives |-> 2]]
BothMove == [c \in Chains |-> 1]
=============================================================================
