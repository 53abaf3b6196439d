------------------------------ MODULE MCStaking ------------------------------
\* Staking with two delegators, for TLC.
EXTENDS Staking, TLC
CONSTANTS alice, bob, v1, v2
TwoDelegators == {alice, bob}
OneValidator == {v1}
TwoValidators == {v1, v2}
TwoEach == [d \in Delegators |-> 2]
TwoAndOne == [d \in Delegators |-> IF d = alice THEN 2 ELSE 1]
Symmetry == Permutations(TwoDelegators)
=============================================================================
