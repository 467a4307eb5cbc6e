----------------------------- MODULE MCSettlement -----------------------------
(* Instances of Settlement for TLC.                                        *)
EXTENDS SettlementInv, TLC

\* Hashes, workers and admins are interchangeable: no definition names one.
Symmetry == Permutations(Hashes) \cup Permutations(Workers) \cup Permutations(Admins)
=============================================================================
