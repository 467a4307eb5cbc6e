------------------------------- MODULE MCCashOut -------------------------------
(* Instances of CashOut for TLC.                                           *)
EXTENDS CashOut, TLC

\* Hashes, workers and admins are interchangeable: no definition names one.
Symmetry == Permutations(Hashes) \cup Permutations(Workers) \cup Permutations(Admins)
=============================================================================
