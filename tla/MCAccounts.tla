------------------------------- MODULE MCAccounts -------------------------------
(* Instances of Accounts for TLC.                                          *)
EXTENDS Accounts, TLC

Symmetry ==
    Permutations(Submissions) \cup Permutations(Posts) \cup Permutations(Admins)
        \cup Permutations(Names) \cup Permutations(Edits) \cup Permutations(Sends)
=============================================================================
