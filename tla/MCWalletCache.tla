----------------------------- MODULE MCWalletCache -----------------------------
(* Instances of WalletCache for TLC.                                       *)
EXTENDS WalletCache, TLC

CONSTANTS p1, p2, r1, r2

\* Two transfers, and two cash-outs that together, not singly, exceed the first.
MCAmount == p1 :> 3 @@ p2 :> 1 @@ r1 :> 2 @@ r2 :> 2
Symmetry == Permutations(Sessions)
=============================================================================
