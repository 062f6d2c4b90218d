----------------------------- MODULE MCAccounts -----------------------------
\* Accounts for TLC: requests and addresses are interchangeable.
EXTENDS Accounts, TLC

MCSymmetry == Permutations(Requests) \cup Permutations(Emails)
=============================================================================
