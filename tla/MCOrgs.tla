------------------------------- MODULE MCOrgs -------------------------------
(* Instances of Orgs for TLC. *)
EXTENDS Orgs, TLC

MCSymmetry == Permutations(Requests)
=============================================================================
