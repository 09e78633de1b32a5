--------------------------- MODULE MCResearchQuota ---------------------------
(* A small quota for TLC: two days, a cooldown and more in each.               *)
EXTENDS ResearchQuota, TLC

CONSTANTS k1, k2, k3

MCKeys == {k1, k2, k3}
AnyKey == Permutations(MCKeys)
==============================================================================
