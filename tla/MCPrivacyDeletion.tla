------------------------- MODULE MCPrivacyDeletion -------------------------
(* Instances of PrivacyDeletion for TLC. *)
EXTENDS PrivacyDeletion, TLC

WorkerSymmetry == Permutations(OutboxWorkers) \cup Permutations(PrivacyWorkers)
                  \cup Permutations(Aliases) \cup Permutations(Requests)
=============================================================================
