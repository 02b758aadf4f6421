----------------------------- MODULE MCZcbNodes -----------------------------
(* ZcbNodes for TLC.                                                       *)
EXTENDS ZcbNodes, TLC

Symmetry == Permutations(Devices) \cup Permutations(Addrs)
=============================================================================
