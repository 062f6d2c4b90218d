----------------------------- MODULE MCThrottle -----------------------------
(* Small instances of Throttle for TLC. *)
EXTENDS Throttle
=============================================================================
