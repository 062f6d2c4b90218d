---------------------------- MODULE MCTwoFactor -----------------------------
(* Small instances of TwoFactor for TLC. *)
EXTENDS TwoFactor, TLC

MCSymmetry == Permutations(Requests)
=============================================================================
