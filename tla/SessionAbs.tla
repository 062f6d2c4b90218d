----------------------------- MODULE SessionAbs -----------------------------
(***************************************************************************)
(* What the session layer promises to the application behind the gate: a    *)
(* session is issued once, is then either accepted or refused, and one that *)
(* has been refused is never accepted again, whatever ended it (log-out,    *)
(* revocation, ban, deletion, expiry, a lost store).                        *)
(***************************************************************************)
CONSTANT Sids

VARIABLE status

Status == {"unissued", "accepted", "refused"}

Init == status = [s \in Sids |-> "unissued"]

\* A login ends; a slow one may hand out a session that has already expired.
Issue(s) ==
    /\ status[s] = "unissued"
    /\ \E st \in {"accepted", "refused"} : status' = [status EXCEPT ![s] = st]

\* Any set of sessions ends at once.
Refuse(S) ==
    /\ \A s \in S : status[s] = "accepted"
    /\ status' = [s \in Sids |-> IF s \in S THEN "refused" ELSE status[s]]

Next ==
    \/ \E S \in SUBSET Sids : Refuse(S)
    \/ \E s \in Sids : Issue(s)

Spec == Init /\ [][Next]_status
=============================================================================
