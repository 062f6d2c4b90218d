----------------------------- MODULE TwoFactor ------------------------------
(***************************************************************************)
(* TOTP enrolment, verification and recovery codes of one user: the         *)
(* handlers of twofactor_handlers.go and ReAuth over a TwoFactorStore.      *)
(* Store calls are atomic; a handler is one step per store call, so         *)
(* requests of the same user interleave between them.                       *)
(***************************************************************************)
EXTENDS Integers, FiniteSets

CONSTANTS
    Requests,      \* slots for requests in flight
    MaxSecret,     \* bound on the secrets ever generated
    MaxBatch,      \* bound on the batches of recovery codes
    BatchSize,     \* recoveryCodeCount
    MaxStep,       \* bound on the clock
    Serial,        \* enrolment requests (begin, confirm) come one at a time
    StoreFaults,   \* may a write of TOTPConfirm fail
    None

ASSUME TwoFactorAssumption ==
    /\ MaxSecret \in Nat
    /\ MaxBatch \in Nat
    /\ BatchSize \in Nat
    /\ MaxStep \in Nat
    /\ Serial \in BOOLEAN
    /\ StoreFaults \in BOOLEAN

VARIABLES
    now,        \* the current 30-second time-step
    totp,       \* TOTPInfo, or None
    recovery,   \* the stored recovery codes
    secrets,    \* how many secrets were generated
    batches,    \* how many batches of recovery codes were generated
    req,        \* requests in flight
    confirmed,  \* history: secrets that a confirm has validated a code against
    once,       \* history: codes accepted as a second factor so far
    twice,      \* history: codes accepted more than once
    recent,     \* history: codes accepted since enrolment last wrote LastStep
    again       \* history: codes accepted twice in such a period

store == <<totp, recovery>>
fresh == <<secrets, batches>>
history == <<confirmed, once, twice, recent, again>>
vars == <<now, store, fresh, req, history>>

-----------------------------------------------------------------------------
(* Data *)

FirstStep == 2                  \* any step with a predecessor above 0

Secret == 1 .. MaxSecret
TOTPInfo == [secret : Secret, enabled : BOOLEAN, lastStep : 0 .. MaxStep]

\* No row is not a row.
ASSUME NoneAssumption == None \notin TOTPInfo

\* A code names what it was computed from; two codes never collide.
TOTPCode == [kind : {"totp"}, secret : Secret, step : 0 .. (MaxStep + 1)]
RecoveryCode == [kind : {"recovery"}, batch : 1 .. MaxBatch, n : 1 .. BatchSize]
Codes == TOTPCode \cup RecoveryCode

BatchCodes(b) == {[kind |-> "recovery", batch |-> b, n |-> n] : n \in 1 .. BatchSize}

\* "verify" is TwoFactorVerify or ReAuth.
Ops == {"begin", "confirm", "verify", "disable"}

Request ==
    [pc : {"idle", "setSecret", "validate", "enable", "replace", "lastStep",
           "check", "disable"},
     op : Ops, secret : 0 .. MaxSecret, batch : 0 .. MaxBatch,
     code : Codes \cup {None}]

Idle == [pc |-> "idle", op |-> "begin", secret |-> 0, batch |-> 0, code |-> None]

Enabled == totp # None /\ totp.enabled

\* What a client may type: a code of a secret it was shown, by a clock that may
\* be one step off, or a recovery code it was given.
Typed ==
    {[kind |-> "totp", secret |-> k, step |-> s] : k \in 1 .. secrets,
                                                   s \in (now - 1) .. (now + 1)}
        \cup UNION {BatchCodes(b) : b \in 1 .. batches}

\* Mutant: the skew window also covers the next step.
totpValidateAhead(secret, code) ==
    code.kind = "totp" /\ code.secret = secret /\ code.step \in {now, now - 1, now + 1}

\* The past-leaning window: the current step and the one before.
totpValidate(secret, code) ==
    code.kind = "totp" /\ code.secret = secret /\ code.step \in {now, now - 1}

-----------------------------------------------------------------------------
(* The store *)

\* Mutant: a new secret is in force at once.
SetTOTPSecretEnabled(secret) ==
    totp' = [secret |-> secret, enabled |-> TRUE, lastStep |-> 0]

SetTOTPSecret(secret) ==
    totp' = [secret |-> secret, enabled |-> FALSE, lastStep |-> 0]

EnableTOTP == totp' = IF totp = None THEN None ELSE [totp EXCEPT !.enabled = TRUE]

SetTOTPLastStep(step) ==
    totp' = IF totp = None THEN None ELSE [totp EXCEPT !.lastStep = step]

\* Mutant: the step that matched may be claimed again.
CanClaimEqual(step) == totp # None /\ step >= totp.lastStep

\* ClaimTOTPStep compares and writes in one atomic call.
CanClaim(step) == totp # None /\ step > totp.lastStep

\* Mutant: a recovery code stays in the store.
ConsumeRecoveryCodeKept(code) == code \in recovery /\ UNCHANGED recovery

ConsumeRecoveryCode(code) == code \in recovery /\ recovery' = recovery \ {code}

-----------------------------------------------------------------------------
(* Requests *)

Begin(r, rq) ==
    /\ req[r].pc = "idle"
    /\ req' = [req EXCEPT ![r] = rq]

Finish(r) == req' = [req EXCEPT ![r] = Idle]

Goto(r, pc) == req' = [req EXCEPT ![r].pc = pc]

\* No other enrolment request is in flight, if they come one at a time.
MayEnrol ==
    Serial => \A q \in Requests : req[q].pc # "idle" => req[q].op \notin {"begin", "confirm"}

\* History: a new period of LastStep starts, with these codes used up.
NewPeriod(codes) == recent' = codes /\ again' = {}

\* History: the code is accepted.
Accept(code) ==
    /\ once' = once \cup {code}
    /\ twice' = IF code \in once THEN twice \cup {code} ELSE twice
    /\ recent' = recent \cup {code}
    /\ again' = IF code \in recent THEN again \cup {code} ELSE again

\* Mutant: enrolment starts over although TOTP is on.
TOTPBeginAnyway(r) ==
    /\ MayEnrol
    /\ Begin(r, [Idle EXCEPT !.pc = "setSecret"])
    /\ UNCHANGED <<now, store, fresh, history>>

\* TOTPBegin reads the state and refuses when TOTP is already on.
TOTPBegin(r) ==
    /\ MayEnrol
    /\ ~Enabled
    /\ Begin(r, [Idle EXCEPT !.pc = "setSecret"])
    /\ UNCHANGED <<now, store, fresh, history>>

\* TOTPBegin stores a fresh secret and shows it.
TOTPBeginSet(r) ==
    /\ req[r].pc = "setSecret"
    /\ secrets < MaxSecret
    /\ secrets' = secrets + 1
    /\ SetTOTPSecret(secrets')
    /\ NewPeriod({})
    /\ Finish(r)
    /\ UNCHANGED <<now, recovery, batches, confirmed, once, twice>>

\* TOTPConfirm reads the secret (enabled or not) and is given a code.
TOTPConfirm(r) ==
    /\ MayEnrol
    /\ totp # None
    /\ \E code \in Typed :
          Begin(r, [Idle EXCEPT !.pc = "validate", !.op = "confirm",
                                !.secret = totp.secret, !.code = code])
    /\ UNCHANGED <<now, store, fresh, history>>

\* The code must match the secret that was read; new recovery codes are drawn.
TOTPConfirmValidate(r) ==
    /\ req[r].pc = "validate"
    /\ \/ /\ ~totpValidate(req[r].secret, req[r].code)
          /\ Finish(r)
          /\ UNCHANGED <<batches, history>>
       \/ /\ totpValidate(req[r].secret, req[r].code)
          /\ batches < MaxBatch
          /\ batches' = batches + 1
          /\ req' = [req EXCEPT ![r].pc = "enable", ![r].batch = batches']
          /\ confirmed' = confirmed \cup {req[r].secret}
          /\ UNCHANGED <<once, twice, recent, again>>
    /\ UNCHANGED <<now, store, secrets>>

TOTPConfirmEnable(r) ==
    /\ req[r].pc = "enable"
    /\ \/ EnableTOTP /\ Goto(r, "replace")
       \/ StoreFaults /\ Finish(r) /\ UNCHANGED totp
    /\ UNCHANGED <<now, recovery, fresh, history>>

TOTPConfirmReplace(r) ==
    /\ req[r].pc = "replace"
    /\ \/ recovery' = BatchCodes(req[r].batch) /\ Goto(r, "lastStep")
       \/ StoreFaults /\ Finish(r) /\ UNCHANGED recovery
    /\ UNCHANGED <<now, totp, fresh, history>>

\* The error of SetTOTPLastStep is dropped; the answer is ok either way.
TOTPConfirmLastStep(r) ==
    /\ req[r].pc = "lastStep"
    /\ \/ /\ SetTOTPLastStep(req[r].code.step)
          /\ NewPeriod({req[r].code})
       \/ StoreFaults /\ UNCHANGED <<totp, recent, again>>
    /\ Finish(r)
    /\ UNCHANGED <<now, recovery, fresh, confirmed, once, twice>>

\* TwoFactorVerify, ReAuth and TOTPDisable read the state; it must be enabled.
SecondFactor(r, op) ==
    /\ Enabled
    /\ \E code \in Typed :
          Begin(r, [Idle EXCEPT !.pc = "check", !.op = op, !.secret = totp.secret,
                                !.code = code])
    /\ UNCHANGED <<now, store, fresh, history>>

\* verifySecondFactor with the secret that was read: a matching code claims its
\* step, any other is tried as a recovery code.
verifySecondFactor(r) ==
    /\ req[r].pc = "check"
    /\ LET code == req[r].code
           matches == totpValidate(req[r].secret, code)
       IN  \/ /\ \/ /\ matches
                    /\ CanClaim(code.step)
                    /\ totp' = [totp EXCEPT !.lastStep = code.step]
                    /\ UNCHANGED recovery
                 \/ /\ ~matches
                    /\ ConsumeRecoveryCode(code)
                    /\ UNCHANGED totp
              /\ Accept(code)
              /\ IF req[r].op = "disable" THEN Goto(r, "disable") ELSE Finish(r)
           \/ /\ IF matches THEN ~CanClaim(code.step) ELSE code \notin recovery
              /\ Finish(r)
              /\ UNCHANGED <<store, once, twice, recent, again>>
    /\ UNCHANGED <<now, fresh, confirmed>>

\* DisableTOTP removes the secret and the recovery codes.
TOTPDisable(r) ==
    /\ req[r].pc = "disable"
    /\ totp' = None
    /\ recovery' = {}
    /\ NewPeriod({})
    /\ Finish(r)
    /\ UNCHANGED <<now, fresh, confirmed, once, twice>>

Tick ==
    /\ now < MaxStep
    /\ now' = now + 1
    /\ UNCHANGED <<store, fresh, req, history>>

Init ==
    /\ now = FirstStep
    /\ totp = None
    /\ recovery = {}
    /\ secrets = 0
    /\ batches = 0
    /\ req = [r \in Requests |-> Idle]
    /\ confirmed = {} /\ once = {} /\ twice = {} /\ recent = {} /\ again = {}

Next ==
    \/ \E r \in Requests :
          \/ TOTPBegin(r) \/ TOTPBeginSet(r)
          \/ TOTPConfirm(r) \/ TOTPConfirmValidate(r) \/ TOTPConfirmEnable(r)
          \/ TOTPConfirmReplace(r) \/ TOTPConfirmLastStep(r)
          \/ \E op \in {"verify", "disable"} : SecondFactor(r, op)
          \/ verifySecondFactor(r) \/ TOTPDisable(r)
    \/ Tick

Spec == Init /\ [][Next]_vars

-----------------------------------------------------------------------------
(* Properties *)

\* Type correctness of the TOTP row, the recovery codes and the requests.
TypeOK ==
    /\ now \in FirstStep .. MaxStep
    /\ totp \in TOTPInfo \cup {None}
    /\ recovery \subseteq RecoveryCode
    /\ secrets \in 0 .. MaxSecret
    /\ batches \in 0 .. MaxBatch
    /\ req \in [Requests -> Request]
    /\ confirmed \subseteq Secret
    /\ once \subseteq Codes /\ twice \subseteq Codes
    /\ recent \subseteq Codes /\ again \subseteq Codes

\* The replay guard: until enrolment next writes LastStep, no code is accepted
\* twice, however requests with the same code interleave (ClaimTOTPStep).
NoReplayInPeriod == \A c \in again : c.kind # "totp"

\* The same without the exception for enrolment: a used code is rejected.
NoReplay == \A c \in twice : c.kind # "totp"

\* A recovery code works once, even under two concurrent requests and across
\* re-enrolment (ConsumeRecoveryCode).
RecoveryCodeOnce == \A c \in twice : c.kind # "recovery"

\* The guard never runs ahead of the clock, so the code the authenticator shows
\* in the next step is not refused as used (the past-leaning window of
\* totpValidate).
GuardNotAhead == totp # None => totp.lastStep <= now

\* TOTP is in force only with a secret a code was validated against: the user
\* has an authenticator that produces acceptable codes.
EnabledWasConfirmed == Enabled => totp.secret \in confirmed

\* TOTP goes off only by TOTPDisable, after an accepted code.
OffOnlyByDisable ==
    [][Enabled /\ ~Enabled' => \E r \in Requests : TOTPDisable(r)]_vars
=============================================================================
