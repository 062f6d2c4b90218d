--------------------------- MODULE MCOAuthGrants ----------------------------
(* Instances of OAuthGrants for TLC. *)
EXTENDS OAuthGrants, TLC

MCSymmetry == Permutations(Requests)
=============================================================================
