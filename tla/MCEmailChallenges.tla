------------------------- MODULE MCEmailChallenges -------------------------
(* Instances of EmailChallenges for TLC. *)
EXTENDS EmailChallenges, TLC

ChallengeSymmetry == Permutations(Challenges) \cup Permutations(Installations)
                     \cup Permutations(Emails) \cup Permutations(Senders)
=============================================================================
