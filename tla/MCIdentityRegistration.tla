----------------------- MODULE MCIdentityRegistration -----------------------
(* Instances of IdentityRegistration for TLC. *)
EXTENDS IdentityRegistration, TLC

\* Keyrings by their known versions and the current one, and what an operator
\* makes of them: the second key is added alone or together with its becoming
\* current, is made current, and is removed again when no row refers to it.
Keys(known, current) == [known |-> known, current |-> current]
Rotation ==
    {<<Keys({1}, 1), Keys({1, 2}, 1)>>, <<Keys({1}, 1), Keys({1, 2}, 2)>>,
     <<Keys({1, 2}, 1), Keys({1, 2}, 2)>>, <<Keys({1, 2}, 1), Keys({1}, 1)>>}

RegistrationSymmetry == Permutations(Verifications) \cup Permutations(Persons)
                        \cup Permutations(Instances) \cup Permutations(Installations)
=============================================================================
