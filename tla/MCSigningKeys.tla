--------------------------- MODULE MCSigningKeys ----------------------------
(* Instances of SigningKeys for TLC. *)
EXTENDS SigningKeys
=============================================================================
