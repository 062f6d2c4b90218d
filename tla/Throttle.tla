------------------------------ MODULE Throttle ------------------------------
(***************************************************************************)
(* The attempt limits of the password handlers: the in-memory sliding      *)
(* window of rateLimiter, per kind of request and client address, and the  *)
(* lockout of PasswordLogin, which counts an account's recent failures in  *)
(* the audit log.  Time is kept as the age of every entry in ticks, so     *)
(* the clock needs no bound.  Names that EmailOTP has as well carry the     *)
(* module's, so that AttemptsProofs can extend both.                        *)
(***************************************************************************)
EXTENDS Integers, FiniteSets

CONSTANTS
    Attempts,       \* slots for requests in flight
    IPs,            \* client addresses
    Emails,         \* accounts
    OwnerEmail,     \* the account that is exempt from the lockout, or NoEmail
    Others,         \* kinds of request that record a failure and ignore the lock
    window, limit,              \* rateLimiter
    lockWindow, maxFailures,    \* the lockout of PasswordLogin
    MaxLag,         \* most ticks between reading the clock and taking the lock
    NoEmail

ASSUME ThrottleAssumption ==
    /\ window \in Nat /\ lockWindow \in Nat /\ limit \in Nat \ {0}
    /\ maxFailures \in Nat \ {0}
    /\ MaxLag \in Nat /\ MaxLag < window
    /\ "login" \notin Others /\ Others \subseteq STRING
    /\ IsFiniteSet(Attempts)

VARIABLES
    hits,       \* by key and age, the attempts the limiter keeps
    audits,     \* by account and age, the failures in the audit log
    attempt,    \* requests in flight
    granted,    \* history: by key and age, the attempts this process allowed
    guesses     \* history: by account and age, the wrong passwords compared

throttleVars == <<hits, audits, attempt, granted, guesses>>

Kinds == {"login"} \cup Others
Keys == Kinds \X IPs
Lags == 0 .. MaxLag

\* An entry older than these is never counted again.
HitAges == 0 .. window + MaxLag - 1
AuditAges == 0 .. lockWindow + MaxLag
NoHits == [a \in HitAges |-> 0]
NoAudits == [a \in AuditAges |-> 0]
Attempt == [pc : {"idle", "lockout", "compare", "other"}, email : Emails \cup {NoEmail}]
Idle == [pc |-> "idle", email |-> NoEmail]

\* How many entries are of these ages; those of one age are told apart by a number.
Entries(entries, ages) ==
    UNION {{a} \X (1 .. entries[a]) : a \in ages \cap DOMAIN entries}
Total(entries, ages) == Cardinality(Entries(entries, ages))
Added(entries, age) == [entries EXCEPT ![age] = @ + 1]
Older(entries) == [a \in DOMAIN entries |-> IF a = 0 THEN 0 ELSE entries[a - 1]]

-----------------------------------------------------------------------------
(* rateLimiter.  The clock is read lag ticks before the lock is taken.      *)

\* Mutant: the window is one tick too short.
KeptShort(entries, lag) ==
    [a \in HitAges |-> IF a < window + lag - 1 THEN entries[a] ELSE 0]

\* t.After(cutoff): the entries less than a window older than the reading.
Kept(entries, lag) ==
    [a \in HitAges |-> IF a < window + lag THEN entries[a] ELSE 0]

Full(entries) == Total(entries, HitAges) >= limit

\* Mutant: a refused attempt is recorded too (at most limit in a tick, to stay finite).
AllowCountsRefused(key, lag, granting) ==
    LET kept == Kept(hits[key], lag) IN
    /\ granting = ~Full(kept)
    /\ hits' = [hits EXCEPT ![key] =
                   IF kept[lag] < limit THEN Added(kept, lag) ELSE kept]
    /\ granted' = IF granting THEN [granted EXCEPT ![key] = Added(@, lag)] ELSE granted

\* The window is pruned; an attempt within the budget is recorded and granted,
\* any other is refused and leaves no trace.
Allow(key, lag, granting) ==
    LET kept == Kept(hits[key], lag) IN
    /\ granting = ~Full(kept)
    /\ hits' = [hits EXCEPT ![key] = IF granting THEN Added(kept, lag) ELSE kept]
    /\ granted' = IF granting THEN [granted EXCEPT ![key] = Added(@, lag)] ELSE granted

\* The ticker of enableLimiters prunes every key.
gc(lag) ==
    /\ hits' = [key \in Keys |-> Kept(hits[key], lag)]
    /\ UNCHANGED <<audits, attempt, granted, guesses>>

-----------------------------------------------------------------------------
(* The audit log *)

RecordAudit(email) == audits' = [audits EXCEPT ![email] = Added(@, 0)]

\* The failures not before since, a lockWindow before a reading lag ticks old.
RecentFailures(email, lag) == Total(audits[email], 0 .. lockWindow + lag)

-----------------------------------------------------------------------------
(* Handlers *)

\* A request of some kind takes its place in the budget of the client address.
PasswordLogin(r, ip, email, lag) ==
    /\ attempt[r].pc = "idle"
    /\ \E granting \in BOOLEAN :
          /\ Allow(<<"login", ip>>, lag, granting)
          /\ attempt' = IF granting
                        THEN [attempt EXCEPT ![r] = [pc |-> "lockout", email |-> email]]
                        ELSE attempt
    /\ UNCHANGED <<audits, guesses>>

\* Mutant: one failure more before the lock.
LockoutLate(r, lag) ==
    LET email == attempt[r].email
        locked == email # OwnerEmail /\ RecentFailures(email, lag) > maxFailures
    IN
    /\ attempt[r].pc = "lockout"
    /\ attempt' = [attempt EXCEPT ![r] = IF locked THEN Idle ELSE [@ EXCEPT !.pc = "compare"]]
    /\ UNCHANGED <<hits, audits, granted, guesses>>

\* Mutant: a locked-out attempt counts as one more failure.
LockoutProlongs(r, lag) ==
    LET email == attempt[r].email
        locked == email # OwnerEmail /\ RecentFailures(email, lag) >= maxFailures
    IN
    /\ attempt[r].pc = "lockout"
    /\ attempt' = [attempt EXCEPT ![r] = IF locked THEN Idle ELSE [@ EXCEPT !.pc = "compare"]]
    /\ IF locked /\ audits[email][0] < maxFailures THEN RecordAudit(email) ELSE UNCHANGED audits
    /\ UNCHANGED <<hits, granted, guesses>>

\* Too many recent failures refuse the attempt, except the owner's.
Lockout(r, lag) ==
    LET email == attempt[r].email
        locked == email # OwnerEmail /\ RecentFailures(email, lag) >= maxFailures
    IN
    /\ attempt[r].pc = "lockout"
    /\ attempt' = [attempt EXCEPT ![r] = IF locked THEN Idle ELSE [@ EXCEPT !.pc = "compare"]]
    /\ UNCHANGED <<hits, audits, granted, guesses>>

\* No user, no password or a wrong one: the failure is recorded.
WrongPassword(r) ==
    /\ attempt[r].pc = "compare"
    /\ RecordAudit(attempt[r].email)
    /\ guesses' = [guesses EXCEPT ![attempt[r].email] = Added(@, 0)]
    /\ attempt' = [attempt EXCEPT ![r] = Idle]
    /\ UNCHANGED <<hits, granted>>

\* The right password: the login goes on and records no failure.
RightPassword(r) ==
    /\ attempt[r].pc = "compare"
    /\ attempt' = [attempt EXCEPT ![r] = Idle]
    /\ UNCHANGED <<hits, audits, granted, guesses>>

\* PasswordSignup, TwoFactorVerify and ReAuth have budgets of their own ...
OtherAttempt(r, kind, ip, email, lag) ==
    /\ attempt[r].pc = "idle"
    /\ \E granting \in BOOLEAN :
          /\ Allow(<<kind, ip>>, lag, granting)
          /\ attempt' = IF granting
                        THEN [attempt EXCEPT ![r] = [pc |-> "other", email |-> email]]
                        ELSE attempt
    /\ UNCHANGED <<audits, guesses>>

\* ... and record their failures against the account, locked or not: an address
\* already registered, a wrong code, a failed step-up.
OtherFailure(r) ==
    /\ attempt[r].pc = "other"
    /\ RecordAudit(attempt[r].email)
    /\ attempt' = [attempt EXCEPT ![r] = Idle]
    /\ UNCHANGED <<hits, granted, guesses>>

OtherSuccess(r) ==
    /\ attempt[r].pc = "other"
    /\ attempt' = [attempt EXCEPT ![r] = Idle]
    /\ UNCHANGED <<hits, audits, granted, guesses>>

Elapse ==
    /\ hits' = [key \in Keys |-> Older(hits[key])]
    /\ audits' = [email \in Emails |-> Older(audits[email])]
    /\ granted' = [key \in Keys |-> Older(granted[key])]
    /\ guesses' = [email \in Emails |-> Older(guesses[email])]
    /\ UNCHANGED attempt

\* The process dies and comes back a tick later: the budgets are its own, the audit
\* log is the store's.
Restart ==
    /\ hits' = [key \in Keys |-> NoHits]
    /\ granted' = hits'
    /\ attempt' = [r \in Attempts |-> Idle]
    /\ audits' = [email \in Emails |-> Older(audits[email])]
    /\ guesses' = [email \in Emails |-> Older(guesses[email])]

ThrottleInit ==
    /\ hits = [key \in Keys |-> NoHits]
    /\ audits = [email \in Emails |-> NoAudits]
    /\ attempt = [r \in Attempts |-> Idle]
    /\ granted = [key \in Keys |-> NoHits]
    /\ guesses = [email \in Emails |-> NoAudits]

Handler(r) ==
    \/ \E lag \in Lags : Lockout(r, lag)
    \/ WrongPassword(r) \/ RightPassword(r)
    \/ OtherFailure(r) \/ OtherSuccess(r)

ThrottleNext ==
    \/ \E r \in Attempts, ip \in IPs, email \in Emails, lag \in Lags :
          \/ PasswordLogin(r, ip, email, lag)
          \/ \E kind \in Others : OtherAttempt(r, kind, ip, email, lag)
    \/ \E r \in Attempts : Handler(r)
    \/ \E lag \in Lags : gc(lag)
    \/ Elapse
    \/ Restart

ThrottleSpec == ThrottleInit /\ [][ThrottleNext]_throttleVars

\* Time passes; nothing else is assumed.
FairSpec == ThrottleSpec /\ WF_throttleVars(Elapse)

-----------------------------------------------------------------------------
(* Properties *)

\* Type correctness of the limiter, the audit log, the requests and the histories.
ThrottleTypeOK ==
    /\ hits \in [Keys -> [HitAges -> Nat]] /\ granted \in [Keys -> [HitAges -> Nat]]
    /\ audits \in [Emails -> [AuditAges -> Nat]] /\ guesses \in [Emails -> [AuditAges -> Nat]]
    /\ attempt \in [Attempts -> Attempt]
    /\ \A r \in Attempts : attempt[r].pc # "idle" => attempt[r].email \in Emails

\* At every moment at most limit attempts of a key were granted (rateLimiter.Allow) in
\* the window that ends then, whatever pruning by a request with a later clock, or by gc,
\* comes between reading the clock and taking the lock.  As no clock is more than MaxLag
\* behind, any window - MaxLag ticks ever hold at most limit of them.
BudgetKept ==
    \A key \in Keys : Total(granted[key], 0 .. window - 1) <= limit

\* At most maxFailures - 1 wrong passwords of an account are compared within
\* lockWindow, and one more for each request that passed the check before they were
\* recorded (PasswordLogin checks RecentFailures and records later), restarts included.
LockoutBound ==
    \A email \in Emails \ {OwnerEmail} :
        Total(guesses[email], 0 .. lockWindow) <= maxFailures - 1 + Cardinality(Attempts)

\* However a client keeps hammering, its budget frees up again and again.
BudgetReopens ==
    \A key \in Keys : []<>(~Full(Kept(hits[key], 0)))

\* A locked account unlocks again and again however often sign-in is tried, unless
\* failures of other kinds keep coming (they are recorded without a look at the lock).
LockLifts ==
    \A email \in Emails \ {OwnerEmail} :
        \/ []<>(RecentFailures(email, 0) < maxFailures)
        \/ []<><<\E r \in Attempts : OtherFailure(r)>>_throttleVars
=============================================================================
