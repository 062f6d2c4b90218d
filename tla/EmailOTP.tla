------------------------------ MODULE EmailOTP ------------------------------
(***************************************************************************)
(* Short sign-in codes by e-mail, for one address: EmailOTPSend mails a     *)
(* code from a goroutine of its own, EmailOTPVerify checks a guess.  The    *)
(* store keeps one code per address and counts the guesses against it.      *)
(***************************************************************************)
EXTENDS Integers

CONSTANTS
    Requests,        \* slots for requests in flight
    maxOTPAttempts,
    ttlEmailOTP,
    MaxCodes,        \* bound on the codes ever mailed
    MaxTime,         \* bound on the clock
    None

ASSUME EmailOTPAssumption ==
    /\ maxOTPAttempts \in Nat \ {0}
    /\ ttlEmailOTP \in Nat
    /\ MaxCodes \in Nat
    /\ MaxTime \in Nat

VARIABLES
    now,        \* the clock
    user,       \* the row of the address: may it sign in, is it blocked, is it gone
    otp,        \* the stored code, or None
    sent,       \* how many codes were created; a code is named by its number
    req,        \* requests in flight
    tries,      \* history: by code, the wrong guesses that were compared with it
    accepted    \* history: by code, how often it was accepted

vars == <<now, user, otp, sent, req, tries, accepted>>

Codes == 1 .. MaxCodes
OTP == [code : Codes, attempts : Nat, exp : Nat]
PCs == {"idle", "create", "login"}

ASSUME NoneAssumption == None \notin OTP

-----------------------------------------------------------------------------
(* The store *)

\* Mutant: the code replaces the old one but keeps its count.
CreateEmailOTPKeep(code) ==
    otp' = [code |-> code, attempts |-> IF otp = None THEN 0 ELSE otp.attempts,
            exp |-> now + ttlEmailOTP]

\* One live code per address; a new one starts with all its attempts.
CreateEmailOTP(code) ==
    otp' = [code |-> code, attempts |-> 0, exp |-> now + ttlEmailOTP]

\* Mutant: one guess too many.
LastAttemptLate == otp.attempts >= maxOTPAttempts

\* This wrong guess exhausts the budget.
LastAttempt == otp.attempts + 1 >= maxOTPAttempts

\* Mutant: an accepted code stays until it expires.
ConsumeKept == UNCHANGED otp

\* A match uses the code up.
Consume == otp' = None

-----------------------------------------------------------------------------
(* Handlers *)

\* EmailOTPSend's goroutine looks the user up ...
EmailOTPSend(r) ==
    /\ req[r] = "idle"
    /\ user = "active"
    /\ req' = [req EXCEPT ![r] = "create"]
    /\ UNCHANGED <<now, user, otp, sent, tries, accepted>>

\* ... and stores the code that it mails.
EmailOTPCreate(r) ==
    /\ req[r] = "create"
    /\ sent < MaxCodes
    /\ sent' = sent + 1
    /\ CreateEmailOTP(sent')
    /\ req' = [req EXCEPT ![r] = "idle"]
    /\ UNCHANGED <<now, user, tries, accepted>>

\* VerifyEmailOTP, one transaction: an expired code goes, a match goes and is
\* accepted, a wrong guess is counted or is the last.  The guess is a code mailed
\* at some time, or (0) none.
EmailOTPVerify(r, guess) ==
    /\ req[r] = "idle"
    /\ otp # None
    /\ \/ /\ now > otp.exp
          /\ otp' = None
          /\ UNCHANGED <<req, tries, accepted>>
       \/ /\ now <= otp.exp
          /\ guess = otp.code
          /\ Consume
          /\ accepted' = [accepted EXCEPT ![guess] = @ + 1]
          /\ req' = [req EXCEPT ![r] = "login"]
          /\ UNCHANGED tries
       \/ /\ now <= otp.exp
          /\ guess # otp.code
          /\ tries' = [tries EXCEPT ![otp.code] = @ + 1]
          /\ otp' = IF LastAttempt THEN None ELSE [otp EXCEPT !.attempts = @ + 1]
          /\ UNCHANGED <<req, accepted>>
    /\ UNCHANGED <<now, user, sent>>

\* UserByEmail and loginBlocked, then completeLogin or a refusal.
EmailOTPLogin(r) ==
    /\ req[r] = "login"
    /\ req' = [req EXCEPT ![r] = "idle"]
    /\ UNCHANGED <<now, user, otp, sent, tries, accepted>>

\* An admin blocks or unblocks the user.
SetBlocked ==
    /\ user # "gone"
    /\ user' = IF user = "active" THEN "blocked" ELSE "active"
    /\ UNCHANGED <<now, otp, sent, req, tries, accepted>>

\* DeleteUser drops the codes of the address with the row.
DeleteUser ==
    /\ user # "gone"
    /\ user' = "gone"
    /\ otp' = None
    /\ UNCHANGED <<now, sent, req, tries, accepted>>

\* The address is registered again.
CreateLocalUser ==
    /\ user = "gone"
    /\ user' = "active"
    /\ UNCHANGED <<now, otp, sent, req, tries, accepted>>

Tick ==
    /\ now < MaxTime
    /\ now' = now + 1
    /\ UNCHANGED <<user, otp, sent, req, tries, accepted>>

Init ==
    /\ now = 0
    /\ user = "active"
    /\ otp = None
    /\ sent = 0
    /\ req = [r \in Requests |-> "idle"]
    /\ tries = [c \in Codes |-> 0]
    /\ accepted = [c \in Codes |-> 0]

Next ==
    \/ \E r \in Requests :
          \/ EmailOTPSend(r) \/ EmailOTPCreate(r) \/ EmailOTPLogin(r)
          \/ \E guess \in 0 .. sent : EmailOTPVerify(r, guess)
    \/ SetBlocked \/ DeleteUser \/ CreateLocalUser
    \/ Tick

Spec == Init /\ [][Next]_vars

-----------------------------------------------------------------------------
(* Properties *)

\* Type correctness of the stored code, the requests and the counts.
TypeOK ==
    /\ now \in 0 .. MaxTime
    /\ user \in {"active", "blocked", "gone"}
    /\ otp \in OTP \cup {None}
    /\ sent \in 0 .. MaxCodes
    /\ req \in [Requests -> PCs]
    /\ tries \in [Codes -> Nat]
    /\ accepted \in [Codes -> Nat]

\* A code is guessed at wrongly at most maxOTPAttempts times in all, however many
\* requests guess and however codes replace one another (VerifyEmailOTP).
GuessesCapped == \A c \in Codes : tries[c] <= maxOTPAttempts

\* A code signs in once, and not after it was guessed to death.
CodeWorksOnce ==
    \A c \in Codes : accepted[c] <= 1 /\ (tries[c] = maxOTPAttempts => accepted[c] = 0)

\* A mailed code is good until it is used, expires, is replaced, is guessed wrongly
\* maxOTPAttempts times, or the account goes: guesses at an earlier code do not
\* count against it (CreateEmailOTP resets the count).
NotBurnedEarly ==
    [][otp # None /\ otp' = None
          => \/ now > otp.exp
             \/ accepted' # accepted
             \/ tries'[otp.code] = maxOTPAttempts
             \/ user' = "gone"]_vars
=============================================================================
