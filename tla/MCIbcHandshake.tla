---------------------------- MODULE MCIbcHandshake ----------------------------
(* IbcHandshake on small instances. *)
EXTENDS IbcHandshake, TLC

CONSTANTS a, b, r1, r2, v1, v2

MCChains == {a, b}
MCRelayers == {r1, r2}
MCVersions == {v1, v2}
MCSymmetry == Permutations(MCRelayers) \cup Permutations(MCVersions) \cup Permutations(MCChains)
=============================================================================
