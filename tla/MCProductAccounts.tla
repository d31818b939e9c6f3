------------------------- MODULE MCProductAccounts -------------------------
(* Instances of ProductAccounts for TLC. *)
EXTENDS ProductAccounts, TLC

\* Accounts are ordered and take no part in the symmetry.
ClientSymmetry == Permutations(Sessions) \cup Permutations(Tokens)
                  \cup Permutations(Installations)
=============================================================================
