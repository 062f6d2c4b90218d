----------------------------- MODULE MCEmailOTP -----------------------------
\* EmailOTP for TLC: the requests are interchangeable.
EXTENDS EmailOTP, TLC

MCSymmetry == Permutations(Requests)
=============================================================================
