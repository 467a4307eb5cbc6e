---------------------------- MODULE MCProvisioning ----------------------------
(* Instances of Provisioning for TLC.                                      *)
EXTENDS Provisioning, TLC

\* No definition names a row, hash, worker or account.
Symmetry == Permutations(Hashes) \cup Permutations(Workers) \cup Permutations(Rows)
                \cup Permutations(Accounts)
=============================================================================
