---------------------------- MODULE MCTokenQuota ----------------------------
(***************************************************************************)
(* Small instances of TokenQuota for TLC.                                  *)
(***************************************************************************)
EXTENDS TokenQuota, TLC

CONSTANTS u1, r1, p1, p2, t1, t2

Symmetry == Permutations(Places) \cup Permutations(ToolCalls)
=============================================================================
