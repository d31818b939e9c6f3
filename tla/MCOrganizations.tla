-------------------------- MODULE MCOrganizations --------------------------
(* An instance of Organizations for TLC. *)
EXTENDS Organizations, TLC

OrganizationSymmetry == Permutations(Orgs) \cup Permutations(Products) \cup Permutations(Calls)
=============================================================================
