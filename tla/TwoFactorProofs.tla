--------------------------- MODULE TwoFactorProofs --------------------------
(***************************************************************************)
(* Proofs about TwoFactor: the replay guard and the recovery codes, for any *)
(* number of concurrent requests, secrets, batches and time-steps, with     *)
(* enrolment requests serial or not and with or without store faults; what  *)
(* enrolment itself guarantees needs them serial.                           *)
(***************************************************************************)
EXTENDS TwoFactor, TLAPS

-----------------------------------------------------------------------------
(* Type correctness *)

\* An idle request slot is well typed.
LEMMA IdleType == Idle \in Request
BY TwoFactorAssumption DEF Idle, Request, Ops

\* Recovery codes of an existing batch are recovery codes.
LEMMA BatchType ==
    ASSUME NEW b \in 1 .. MaxBatch
    PROVE  BatchCodes(b) \subseteq RecoveryCode
BY DEF BatchCodes, RecoveryCode

\* What a client may type is a code.
LEMMA TypedType ==
    ASSUME TypeOK
    PROVE  Typed \subseteq Codes
<1>. SUFFICES ASSUME NEW c \in Typed PROVE c \in Codes
  OBVIOUS
<1>1. CASE \E k \in 1 .. secrets, s \in (now - 1) .. (now + 1) :
             c = [kind |-> "totp", secret |-> k, step |-> s]
  <2>1. PICK k \in 1 .. secrets, s \in (now - 1) .. (now + 1) :
             c = [kind |-> "totp", secret |-> k, step |-> s]
    BY <1>1
  <2>2. k \in Secret /\ s \in 0 .. (MaxStep + 1)
    BY TwoFactorAssumption DEF TypeOK, Secret, FirstStep
  <2>. QED
    BY <2>1, <2>2 DEF Codes, TOTPCode
<1>2. CASE \E b \in 1 .. batches : c \in BatchCodes(b)
  <2>1. PICK b \in 1 .. batches : c \in BatchCodes(b)
    BY <1>2
  <2>2. b \in 1 .. MaxBatch
    BY TwoFactorAssumption DEF TypeOK
  <2>. QED
    BY <2>1, <2>2, BatchType DEF Codes
<1>. QED
  BY <1>1, <1>2 DEF Typed

\* A code that totpValidate accepts is a TOTP code of the window.
LEMMA ValidateType ==
    ASSUME NEW secret, NEW code \in Codes, totpValidate(secret, code)
    PROVE  code \in TOTPCode /\ code.step \in {now, now - 1}
BY DEF totpValidate, Codes, TOTPCode, RecoveryCode

\* A request that is given a batch keeps its code and its secret.
LEMMA DrawBatch ==
    ASSUME NEW q \in Request, NEW b \in 1 .. MaxBatch
    PROVE  LET x == [q EXCEPT !.pc = "enable", !.batch = b]
           IN  /\ x \in Request
               /\ x.code = q.code /\ x.secret = q.secret
               /\ x.pc = "enable" /\ x.batch = b
<1>1. b \in 0 .. MaxBatch
  BY TwoFactorAssumption
<1>. QED
  BY <1>1 DEF Request

\* The two kinds of codes are disjoint.
LEMMA CodeKinds ==
    /\ \A c \in RecoveryCode : c.kind = "recovery" /\ c \notin TOTPCode
    /\ \A c \in TOTPCode : c.kind = "totp"
<1>1. \A c \in RecoveryCode : c.kind = "recovery"
  BY DEF RecoveryCode
<1>2. \A c \in TOTPCode : c.kind = "totp"
  BY DEF TOTPCode
<1>3. "totp" # "recovery"
  OBVIOUS
<1>. QED
  BY <1>1, <1>2, <1>3

\* Requests past their first step hold a code and the secret that was read; the
\* ones that hold a validated code hold a TOTP code not of the future, and the
\* guard is not of the future either.
InFlight ==
    /\ GuardNotAhead
    /\ \A r \in Requests : req[r].pc \notin {"idle", "setSecret"} =>
          /\ req[r].code \in Codes
          /\ req[r].secret \in Secret
    /\ \A r \in Requests : req[r].pc \in {"enable", "replace", "lastStep"} =>
          /\ req[r].code \in TOTPCode
          /\ req[r].code.step <= now
          /\ req[r].batch \in 1 .. batches

\* TypeOK and InFlight together are inductive.
LEMMA TypeStep == TypeOK /\ InFlight /\ [Next]_vars => TypeOK' /\ InFlight'
<1>. SUFFICES ASSUME TypeOK, InFlight, [Next]_vars
              PROVE  TypeOK' /\ InFlight'
  OBVIOUS
<1>. USE TwoFactorAssumption, IdleType
<1>0. now \in Nat /\ now <= MaxStep /\ FirstStep \in Nat
  BY DEF TypeOK, FirstStep
<1>1. ASSUME NEW r \in Requests, TOTPBegin(r) PROVE TypeOK' /\ InFlight'
  BY <1>1 DEF TOTPBegin, Begin, TypeOK, InFlight, GuardNotAhead, Request,
              store, fresh, history
<1>2. ASSUME NEW r \in Requests, TOTPBeginSet(r) PROVE TypeOK' /\ InFlight'
  <2>1. totp' \in TOTPInfo /\ totp'.lastStep = 0 /\ secrets' \in 0 .. MaxSecret
    BY <1>2 DEF TOTPBeginSet, SetTOTPSecret, TypeOK, TOTPInfo, Secret
  <2>. QED
    BY <1>0, <1>2, <2>1
    DEF TOTPBeginSet, NewPeriod, Finish, Idle, TypeOK, InFlight, GuardNotAhead
<1>3. ASSUME NEW r \in Requests, TOTPConfirm(r) PROVE TypeOK' /\ InFlight'
  <2>1. PICK code \in Codes :
          req' = [req EXCEPT ![r] = [Idle EXCEPT !.pc = "validate", !.op = "confirm",
                                       !.secret = totp.secret, !.code = code]]
    BY <1>3, TypedType DEF TOTPConfirm, Begin
  <2>2. totp.secret \in Secret /\ totp.secret \in 0 .. MaxSecret
    BY <1>3 DEF TOTPConfirm, TypeOK, TOTPInfo, Secret
  <2>3. /\ req' \in [Requests -> Request]
        /\ req'[r].pc = "validate" /\ req'[r].code = code /\ req'[r].secret = totp.secret
    BY <2>1, <2>2 DEF TypeOK, Request, Ops
  <2>. QED
    BY <1>3, <2>1, <2>2, <2>3
    DEF TOTPConfirm, TypeOK, InFlight, GuardNotAhead, store, fresh, history
<1>4. ASSUME NEW r \in Requests, TOTPConfirmValidate(r) PROVE TypeOK' /\ InFlight'
  <2>1. CASE Finish(r) /\ UNCHANGED <<batches, history>>
    BY <1>4, <2>1
    DEF TOTPConfirmValidate, Finish, Idle, TypeOK, InFlight, GuardNotAhead, store, history
  <2>2. CASE /\ totpValidate(req[r].secret, req[r].code)
             /\ batches < MaxBatch
             /\ batches' = batches + 1
             /\ req' = [req EXCEPT ![r].pc = "enable", ![r].batch = batches']
             /\ confirmed' = confirmed \cup {req[r].secret}
             /\ UNCHANGED <<once, twice, recent, again>>
    <3>1. req[r].code \in Codes /\ req[r].secret \in Secret
      BY <1>4 DEF TOTPConfirmValidate, InFlight
    <3>2. req[r].code \in TOTPCode /\ req[r].code.step <= now
      BY <1>0, <2>2, <3>1, ValidateType DEF TOTPCode
    <3>3. batches' \in 1 .. MaxBatch /\ \A b \in 1 .. batches : b \in 1 .. batches'
      BY <2>2 DEF TypeOK
    <3>4. /\ req' \in [Requests -> Request]
          /\ req'[r].code = req[r].code /\ req'[r].secret = req[r].secret
          /\ req'[r].pc = "enable" /\ req'[r].batch = batches'
      <4>. DEFINE x == [req[r] EXCEPT !.pc = "enable", !.batch = batches']
      <4>1. x \in Request /\ x.code = req[r].code /\ x.secret = req[r].secret
            /\ x.pc = "enable" /\ x.batch = batches'
        BY <3>3, DrawBatch DEF TypeOK
      <4>2. req' = [req EXCEPT ![r] = x]
        BY <2>2 DEF TypeOK
      <4>. HIDE DEF x
      <4>. QED
        BY <4>1, <4>2 DEF TypeOK
    <3>5. TypeOK'
      BY <1>4, <2>2, <3>1, <3>3, <3>4 DEF TOTPConfirmValidate, TypeOK, store
    <3>6. InFlight'
      BY <1>4, <2>2, <3>1, <3>2, <3>3, <3>4
      DEF TOTPConfirmValidate, InFlight, GuardNotAhead, store, TypeOK
    <3>. QED
      BY <3>5, <3>6
  <2>. QED
    BY <1>4, <2>1, <2>2 DEF TOTPConfirmValidate
<1>5. ASSUME NEW r \in Requests, TOTPConfirmEnable(r) PROVE TypeOK' /\ InFlight'
  <2>1. totp' \in TOTPInfo \cup {None}
    BY <1>5 DEF TOTPConfirmEnable, EnableTOTP, TypeOK, TOTPInfo
  <2>2. GuardNotAhead'
    BY <1>5 DEF TOTPConfirmEnable, EnableTOTP, TypeOK, TOTPInfo, InFlight, GuardNotAhead
  <2>3. req' \in [Requests -> Request]
    BY <1>5 DEF TOTPConfirmEnable, Goto, Finish, TypeOK, Request
  <2>. QED
    BY <1>5, <2>1, <2>2, <2>3
    DEF TOTPConfirmEnable, Goto, Finish, Idle, TypeOK, InFlight, Request, fresh, history
<1>6. ASSUME NEW r \in Requests, TOTPConfirmReplace(r) PROVE TypeOK' /\ InFlight'
  <2>1. req[r].batch \in 1 .. MaxBatch
    BY <1>6 DEF TOTPConfirmReplace, InFlight, TypeOK
  <2>2. recovery' \subseteq RecoveryCode
    BY <1>6, <2>1, BatchType DEF TOTPConfirmReplace, TypeOK
  <2>3. req' \in [Requests -> Request]
    BY <1>6 DEF TOTPConfirmReplace, Goto, Finish, TypeOK, Request
  <2>. QED
    BY <1>6, <2>2, <2>3
    DEF TOTPConfirmReplace, Goto, Finish, Idle, TypeOK, InFlight, GuardNotAhead, Request,
        fresh, history
<1>7. ASSUME NEW r \in Requests, TOTPConfirmLastStep(r) PROVE TypeOK' /\ InFlight'
  <2>1. /\ req[r].code \in Codes /\ req[r].code.step <= now
        /\ req[r].code.step \in 0 .. MaxStep
    BY <1>0, <1>7 DEF TOTPConfirmLastStep, InFlight, TOTPCode
  <2>2. totp' \in TOTPInfo \cup {None} /\ GuardNotAhead'
    BY <1>7, <2>1 DEF TOTPConfirmLastStep, SetTOTPLastStep, TypeOK, TOTPInfo, InFlight,
                      GuardNotAhead
  <2>. QED
    BY <1>7, <2>1, <2>2
    DEF TOTPConfirmLastStep, NewPeriod, Finish, Idle, TypeOK, InFlight, fresh
<1>8. ASSUME NEW r \in Requests, NEW op \in {"verify", "disable"}, SecondFactor(r, op)
      PROVE  TypeOK' /\ InFlight'
  <2>1. PICK code \in Codes :
          req' = [req EXCEPT ![r] = [Idle EXCEPT !.pc = "check", !.op = op,
                                       !.secret = totp.secret, !.code = code]]
    BY <1>8, TypedType DEF SecondFactor, Begin
  <2>2. totp.secret \in Secret /\ totp.secret \in 0 .. MaxSecret
    BY <1>8 DEF SecondFactor, Enabled, TypeOK, TOTPInfo, Secret
  <2>3. /\ req' \in [Requests -> Request]
        /\ req'[r].pc = "check" /\ req'[r].code = code /\ req'[r].secret = totp.secret
    BY <2>1, <2>2 DEF TypeOK, Request, Ops
  <2>. QED
    BY <1>8, <2>1, <2>2, <2>3
    DEF SecondFactor, TypeOK, InFlight, GuardNotAhead, store, fresh, history
<1>9. ASSUME NEW r \in Requests, verifySecondFactor(r) PROVE TypeOK' /\ InFlight'
  <2>1. req[r].code \in Codes
    BY <1>9 DEF verifySecondFactor, InFlight
  <2>2. totp' \in TOTPInfo \cup {None} /\ GuardNotAhead'
    <3>1. CASE totpValidate(req[r].secret, req[r].code) /\ CanClaim(req[r].code.step)
               /\ totp' = [totp EXCEPT !.lastStep = req[r].code.step]
      <4>1. req[r].code.step \in 0 .. MaxStep /\ req[r].code.step <= now
        BY <1>0, <2>1, <3>1, ValidateType DEF TOTPCode
      <4>. QED
        BY <1>9, <3>1, <4>1 DEF verifySecondFactor, CanClaim, TypeOK, TOTPInfo, GuardNotAhead
    <3>2. CASE UNCHANGED totp
      BY <1>9, <3>2 DEF verifySecondFactor, TypeOK, InFlight, GuardNotAhead
    <3>. QED
      BY <1>9, <3>1, <3>2 DEF verifySecondFactor, store
  <2>3. recovery' \subseteq recovery
    BY <1>9 DEF verifySecondFactor, ConsumeRecoveryCode, store
  <2>4. /\ req' \in [Requests -> Request]
        /\ \A q \in Requests : \/ req'[q] = Idle
                               \/ /\ req'[q].code = req[q].code
                                  /\ req'[q].secret = req[q].secret
                                  /\ req'[q].batch = req[q].batch
                                  /\ req'[q].pc = req[q].pc \/ req'[q].pc = "disable"
                                  /\ req'[q].pc = "disable" => req[q].pc \in {"check", "disable"}
    BY <1>9 DEF verifySecondFactor, Goto, Finish, TypeOK, Request
  <2>5. TypeOK'
    BY <1>9, <2>1, <2>2, <2>3, <2>4 DEF verifySecondFactor, Accept, TypeOK, fresh
  <2>6. InFlight'
    BY <1>9, <2>2, <2>4 DEF verifySecondFactor, InFlight, Idle, fresh
  <2>. QED
    BY <2>5, <2>6
<1>10. ASSUME NEW r \in Requests, TOTPDisable(r) PROVE TypeOK' /\ InFlight'
  BY <1>10 DEF TOTPDisable, NewPeriod, Finish, Idle, TypeOK, InFlight, GuardNotAhead, fresh
<1>11. ASSUME Tick PROVE TypeOK' /\ InFlight'
  <2>1. now' \in FirstStep .. MaxStep /\ now <= now'
    BY <1>0, <1>11 DEF Tick, TypeOK
  <2>2. GuardNotAhead'
    BY <1>0, <1>11, <2>1 DEF Tick, InFlight, GuardNotAhead, TypeOK, TOTPInfo, store
  <2>3. InFlight'
    BY <1>0, <1>11, <2>1, <2>2 DEF Tick, InFlight, TOTPCode, fresh
  <2>. QED
    BY <1>11, <2>1, <2>3 DEF Tick, TypeOK, store, fresh, history
<1>12. ASSUME UNCHANGED vars PROVE TypeOK' /\ InFlight'
  BY <1>12 DEF vars, store, fresh, history, TypeOK, InFlight, GuardNotAhead
<1>. QED
  BY <1>1, <1>2, <1>3, <1>4, <1>5, <1>6, <1>7, <1>8, <1>9, <1>10, <1>11, <1>12 DEF Next

\* Init establishes TypeOK and InFlight.
LEMMA TypeInit == MaxStep >= FirstStep /\ Init => TypeOK /\ InFlight
BY IdleType, TwoFactorAssumption
DEF Init, TypeOK, InFlight, GuardNotAhead, FirstStep, Idle

\* The handlers keep the stored state well typed, and the replay guard never
\* runs ahead of the clock: the code of the next time-step stays usable.
THEOREM GuardInPast ==
    ASSUME MaxStep >= FirstStep
    PROVE  Spec => [](TypeOK /\ GuardNotAhead)
<1>1. TypeOK /\ InFlight => GuardNotAhead
  BY DEF InFlight
<1>. QED
  BY <1>1, TypeInit, TypeStep, PTL DEF Spec

-----------------------------------------------------------------------------
(* The replay guard *)

\* LastStep covers the codes accepted in this period.
PeriodCovered ==
    /\ NoReplayInPeriod
    /\ totp # None => \A c \in recent : c \in TOTPCode => c.step <= totp.lastStep

\* PeriodCovered is inductive relative to the type invariant.
LEMMA PeriodStep == TypeOK /\ InFlight /\ PeriodCovered /\ [Next]_vars => PeriodCovered'
<1>. SUFFICES ASSUME TypeOK, InFlight, PeriodCovered, [Next]_vars PROVE PeriodCovered'
  OBVIOUS
<1>1. CASE UNCHANGED <<totp, recent, again>>
  BY <1>1 DEF PeriodCovered, NoReplayInPeriod
<1>2. ASSUME NEW r \in Requests, TOTPBeginSet(r) PROVE PeriodCovered'
  BY <1>2 DEF TOTPBeginSet, NewPeriod, PeriodCovered, NoReplayInPeriod
<1>3. ASSUME NEW r \in Requests, TOTPConfirmEnable(r) PROVE PeriodCovered'
  BY <1>3 DEF TOTPConfirmEnable, EnableTOTP, history, PeriodCovered, NoReplayInPeriod,
              TypeOK, TOTPInfo
<1>4. ASSUME NEW r \in Requests, TOTPConfirmLastStep(r) PROVE PeriodCovered'
  <2>1. CASE UNCHANGED <<totp, recent, again>>
    BY <1>1, <2>1
  <2>2. CASE SetTOTPLastStep(req[r].code.step) /\ NewPeriod({req[r].code})
    <3>1. req[r].code.step \in Nat
      BY <1>4 DEF TOTPConfirmLastStep, InFlight, TOTPCode
    <3>2. totp' # None => totp'.lastStep = req[r].code.step
      BY <2>2 DEF SetTOTPLastStep, TypeOK, TOTPInfo
    <3>. QED
      BY <2>2, <3>1, <3>2 DEF NewPeriod, PeriodCovered, NoReplayInPeriod
  <2>. QED
    BY <1>4, <2>1, <2>2 DEF TOTPConfirmLastStep
<1>5. ASSUME NEW r \in Requests, verifySecondFactor(r) PROVE PeriodCovered'
  <2>. DEFINE code == req[r].code
  <2>1. code \in Codes
    BY <1>5 DEF verifySecondFactor, InFlight
  <2>2. CASE UNCHANGED <<totp, recent, again>>
    BY <1>1, <2>2
  <2>3. CASE /\ totpValidate(req[r].secret, code)
             /\ CanClaim(code.step)
             /\ totp' = [totp EXCEPT !.lastStep = code.step]
             /\ Accept(code)
    <3>1. code \in TOTPCode /\ code.step \in Nat
      BY <2>1, <2>3, ValidateType DEF TOTPCode
    <3>2. totp # None /\ totp \in TOTPInfo /\ totp.lastStep \in Nat /\ totp.lastStep < code.step
      BY <2>3, <3>1 DEF CanClaim, TypeOK, TOTPInfo
    <3>3. code \notin recent
      BY <3>1, <3>2 DEF PeriodCovered
    <3>4. totp'.lastStep = code.step
      BY <2>3, <3>2 DEF TOTPInfo
    <3>5. \A c \in recent : c \in TOTPCode => c.step <= code.step
      BY <3>1, <3>2 DEF PeriodCovered, TOTPCode
    <3>. QED
      BY <2>3, <3>1, <3>3, <3>4, <3>5 DEF Accept, PeriodCovered, NoReplayInPeriod
  <2>4. CASE ConsumeRecoveryCode(code) /\ UNCHANGED totp /\ Accept(code)
    <3>1. code \in RecoveryCode
      BY <2>4 DEF ConsumeRecoveryCode, TypeOK
    <3>2. code.kind = "recovery" /\ code \notin TOTPCode
      BY <3>1, CodeKinds
    <3>. QED
      BY <2>4, <3>2 DEF Accept, PeriodCovered, NoReplayInPeriod
  <2>. QED
    BY <1>5, <2>2, <2>3, <2>4 DEF verifySecondFactor, store
<1>6. ASSUME NEW r \in Requests, TOTPDisable(r) PROVE PeriodCovered'
  BY <1>6 DEF TOTPDisable, NewPeriod, PeriodCovered, NoReplayInPeriod
<1>7. ASSUME NEW r \in Requests,
             \/ TOTPBegin(r) \/ TOTPConfirm(r) \/ TOTPConfirmValidate(r)
             \/ TOTPConfirmReplace(r)
             \/ \E op \in {"verify", "disable"} : SecondFactor(r, op)
      PROVE  PeriodCovered'
  BY <1>1, <1>7 DEF TOTPBegin, TOTPConfirm, TOTPConfirmValidate, TOTPConfirmReplace,
                    SecondFactor, store, history
<1>8. CASE Tick \/ UNCHANGED vars
  BY <1>1, <1>8 DEF Tick, vars, store, history
<1>. QED
  BY <1>2, <1>3, <1>4, <1>5, <1>6, <1>7, <1>8 DEF Next

\* No TOTP code is accepted twice while LastStep is left to ClaimTOTPStep,
\* however many requests carry it at the same time.
THEOREM ReplayGuard ==
    ASSUME MaxStep >= FirstStep
    PROVE  Spec => []NoReplayInPeriod
<1>1. Init => PeriodCovered
  BY DEF Init, PeriodCovered, NoReplayInPeriod
<1>2. PeriodCovered => NoReplayInPeriod
  BY DEF PeriodCovered
<1>. QED
  BY <1>1, <1>2, TypeInit, TypeStep, PeriodStep, PTL DEF Spec

-----------------------------------------------------------------------------
(* Recovery codes *)

\* The request has drawn a batch and not stored it yet.
Drawing(r) == req[r].pc \in {"enable", "replace"}

\* A drawn batch belongs to one request and is unused until it is stored; a
\* stored code is unused.
BatchesFresh ==
    /\ RecoveryCodeOnce
    /\ \A c \in recovery : c \notin once
    /\ \A c \in recovery \cup once : c \in RecoveryCode => c.batch <= batches
    /\ \A r \in Requests : Drawing(r) =>
          /\ \A c \in recovery \cup once : c \in RecoveryCode => c.batch # req[r].batch
          /\ \A q \in Requests \ {r} : Drawing(q) => req[q].batch # req[r].batch

\* BatchesFresh is inductive relative to the type invariant.
LEMMA BatchStep == TypeOK /\ InFlight /\ BatchesFresh /\ [Next]_vars => BatchesFresh'
<1>. SUFFICES ASSUME TypeOK, InFlight, BatchesFresh, [Next]_vars PROVE BatchesFresh'
  OBVIOUS
<1>0. batches \in Nat /\ \A r \in Requests : Drawing(r) => req[r].batch \in 1 .. batches
  BY TwoFactorAssumption DEF TypeOK, InFlight, Drawing
<1>1. ASSUME UNCHANGED <<batches, once, twice>>, recovery' \subseteq recovery,
             \A q \in Requests : Drawing(q)' => Drawing(q) /\ req'[q].batch = req[q].batch
      PROVE  BatchesFresh'
  BY <1>1 DEF BatchesFresh, RecoveryCodeOnce
<1>2. ASSUME NEW r \in Requests, TOTPBegin(r) \/ TOTPBeginSet(r) \/ TOTPConfirm(r)
      PROVE  BatchesFresh'
  <2>0. PICK x : x.pc \notin {"enable", "replace"} /\ req' = [req EXCEPT ![r] = x]
    <3>1. CASE TOTPBegin(r)
      BY <3>1 DEF TOTPBegin, Begin, Idle
    <3>2. CASE TOTPBeginSet(r)
      BY <3>2 DEF TOTPBeginSet, Finish, Idle
    <3>3. CASE TOTPConfirm(r)
      BY <3>3 DEF TOTPConfirm, Begin, Idle
    <3>. QED
      BY <1>2, <3>1, <3>2, <3>3
  <2>1. \A q \in Requests : Drawing(q)' => Drawing(q) /\ req'[q] = req[q]
    BY <2>0 DEF Drawing, TypeOK
  <2>. QED
    BY <1>1, <1>2, <2>1 DEF TOTPBegin, TOTPBeginSet, TOTPConfirm, store, fresh, history
<1>3. ASSUME NEW r \in Requests, NEW op, SecondFactor(r, op) PROVE BatchesFresh'
  <2>1. \A q \in Requests : Drawing(q)' => Drawing(q) /\ req'[q] = req[q]
    BY <1>3 DEF SecondFactor, Begin, Idle, Drawing, TypeOK
  <2>. QED
    BY <1>1, <1>3, <2>1 DEF SecondFactor, store, fresh, history
<1>4. ASSUME NEW r \in Requests, TOTPConfirmValidate(r) PROVE BatchesFresh'
  <2>1. CASE Finish(r) /\ UNCHANGED <<batches, history>>
    <3>1. \A q \in Requests : Drawing(q)' => Drawing(q) /\ req'[q] = req[q]
      BY <2>1 DEF Finish, Idle, Drawing, TypeOK
    <3>. QED
      BY <1>1, <1>4, <2>1, <3>1 DEF TOTPConfirmValidate, store, history
  <2>2. CASE /\ batches' = batches + 1
             /\ req' = [req EXCEPT ![r].pc = "enable", ![r].batch = batches']
             /\ UNCHANGED <<once, twice, recent, again>>
    <3>1. req'[r].batch = batches + 1 /\ \A q \in Requests \ {r} : req'[q] = req[q]
      BY <2>2 DEF TypeOK, Request
    <3>2. UNCHANGED recovery
      BY <1>4 DEF TOTPConfirmValidate, store
    <3>3. \A c \in recovery \cup once : c \in RecoveryCode =>
              /\ c.batch \in Nat
              /\ c.batch <= batches
      BY DEF BatchesFresh, RecoveryCode
    <3>4. \A q \in Requests \ {r} : Drawing(q)' => Drawing(q)
      BY <3>1 DEF Drawing
    <3>5. \A c \in recovery \cup once : c \in RecoveryCode =>
              c.batch <= batches' /\ c.batch # batches'
      BY <1>0, <2>2, <3>3
    <3>6. \A q \in Requests \ {r} : Drawing(q) => req[q].batch # batches'
      BY <1>0, <2>2
    <3>7. ASSUME NEW p \in Requests, Drawing(p)'
          PROVE  /\ \A c \in recovery \cup once : c \in RecoveryCode => c.batch # req'[p].batch
                 /\ \A q \in Requests \ {p} : Drawing(q)' => req'[q].batch # req'[p].batch
      <4>1. CASE p = r
        BY <2>2, <3>1, <3>4, <3>5, <3>6, <4>1
      <4>2. CASE p # r
        <5>1. Drawing(p) /\ req'[p] = req[p]
          BY <3>1, <3>4, <3>7, <4>2
        <5>2. ASSUME NEW q \in Requests \ {p}, Drawing(q)' PROVE req'[q].batch # req'[p].batch
          <6>1. CASE q = r
            BY <2>2, <3>1, <3>6, <4>2, <5>1, <6>1
          <6>2. CASE q # r
            <7>1. Drawing(q) /\ req'[q] = req[q]
              BY <3>1, <3>4, <5>2, <6>2
            <7>. QED
              BY <5>1, <7>1 DEF BatchesFresh
          <6>. QED
            BY <6>1, <6>2
        <5>. QED
          BY <5>1, <5>2 DEF BatchesFresh
      <4>. QED
        BY <4>1, <4>2
    <3>. QED
      BY <2>2, <3>2, <3>5, <3>7 DEF BatchesFresh, RecoveryCodeOnce
  <2>. QED
    BY <1>4, <2>1, <2>2 DEF TOTPConfirmValidate
<1>5. ASSUME NEW r \in Requests, TOTPConfirmEnable(r) \/ TOTPConfirmLastStep(r)
      PROVE  BatchesFresh'
  <2>1. \A q \in Requests : Drawing(q)' => Drawing(q) /\ req'[q].batch = req[q].batch
    BY <1>5 DEF TOTPConfirmEnable, TOTPConfirmLastStep, Goto, Finish, Idle, Drawing, TypeOK, Request
  <2>. QED
    BY <1>1, <1>5, <2>1 DEF TOTPConfirmEnable, TOTPConfirmLastStep, fresh, history
<1>6. ASSUME NEW r \in Requests, TOTPConfirmReplace(r) PROVE BatchesFresh'
  <2>1. CASE Finish(r) /\ UNCHANGED recovery
    <3>1. \A q \in Requests : Drawing(q)' => Drawing(q) /\ req'[q] = req[q]
      BY <2>1 DEF Finish, Idle, Drawing, TypeOK
    <3>. QED
      BY <1>1, <1>6, <2>1, <3>1 DEF TOTPConfirmReplace, fresh, history
  <2>2. CASE recovery' = BatchCodes(req[r].batch) /\ Goto(r, "lastStep")
    <3>1. ~Drawing(r)' /\ \A q \in Requests \ {r} : req'[q] = req[q]
      BY <2>2 DEF Goto, Drawing, TypeOK, Request
    <3>2. \A c \in recovery' : c \in RecoveryCode /\ c.batch = req[r].batch
      <4>1. req[r].batch \in 1 .. MaxBatch
        BY <1>0, <1>6, TwoFactorAssumption DEF TOTPConfirmReplace, Drawing, TypeOK
      <4>. QED
        BY <2>2, <4>1 DEF BatchCodes, RecoveryCode
    <3>3. Drawing(r)
      BY <1>6 DEF TOTPConfirmReplace, Drawing
    <3>4. UNCHANGED <<batches, once, twice>>
      BY <1>6 DEF TOTPConfirmReplace, fresh, history
    <3>5. \A q \in Requests \ {r} : Drawing(q)' => Drawing(q)
      BY <3>1 DEF Drawing
    <3>6. \A c \in recovery' : c \notin once /\ c.batch <= batches
      BY <1>0, <3>2, <3>3 DEF BatchesFresh
    <3>. QED
      BY <3>1, <3>2, <3>3, <3>4, <3>5, <3>6 DEF BatchesFresh, RecoveryCodeOnce
  <2>. QED
    BY <1>6, <2>1, <2>2 DEF TOTPConfirmReplace
<1>7. ASSUME NEW r \in Requests, verifySecondFactor(r) PROVE BatchesFresh'
  <2>. DEFINE code == req[r].code
  <2>1. code \in Codes
    BY <1>7 DEF verifySecondFactor, InFlight
  <2>2. \A q \in Requests : Drawing(q)' => Drawing(q) /\ req'[q].batch = req[q].batch
    BY <1>7 DEF verifySecondFactor, Goto, Finish, Idle, Drawing, TypeOK, Request
  <2>3. UNCHANGED batches
    BY <1>7 DEF verifySecondFactor, fresh
  <2>4. CASE UNCHANGED <<recovery, once, twice>>
    BY <1>1, <2>2, <2>3, <2>4
  <2>5. CASE totpValidate(req[r].secret, code) /\ UNCHANGED recovery /\ Accept(code)
    <3>1. code \notin RecoveryCode /\ code.kind = "totp"
      BY <2>1, <2>5, ValidateType DEF TOTPCode, RecoveryCode
    <3>2. \A c \in recovery : c \in RecoveryCode
      BY DEF TypeOK
    <3>. QED
      BY <2>2, <2>3, <2>5, <3>1, <3>2 DEF Accept, BatchesFresh, RecoveryCodeOnce
  <2>6. CASE ConsumeRecoveryCode(code) /\ Accept(code)
    <3>1. code \in recovery /\ code \notin once /\ recovery' = recovery \ {code}
      BY <2>6 DEF ConsumeRecoveryCode, BatchesFresh
    <3>2. once' = once \cup {code} /\ twice' = twice
      BY <2>6, <3>1 DEF Accept
    <3>. QED
      BY <2>2, <2>3, <3>1, <3>2 DEF BatchesFresh, RecoveryCodeOnce
  <2>. QED
    BY <1>7, <2>4, <2>5, <2>6 DEF verifySecondFactor, store
<1>8. ASSUME NEW r \in Requests, TOTPDisable(r) PROVE BatchesFresh'
  <2>1. \A q \in Requests : Drawing(q)' => Drawing(q) /\ req'[q] = req[q]
    BY <1>8 DEF TOTPDisable, Finish, Idle, Drawing, TypeOK
  <2>. QED
    BY <1>1, <1>8, <2>1 DEF TOTPDisable, fresh
<1>9. CASE Tick \/ UNCHANGED vars
  BY <1>1, <1>9 DEF Tick, vars, store, fresh, history, Drawing
<1>. QED
  BY <1>2, <1>3, <1>4, <1>5, <1>6, <1>7, <1>8, <1>9 DEF Next

\* A recovery code is accepted at most once, under any concurrency and through
\* any number of re-enrolments.
THEOREM RecoveryOnce ==
    ASSUME MaxStep >= FirstStep
    PROVE  Spec => []RecoveryCodeOnce
<1>1. Init => BatchesFresh
  BY DEF Init, BatchesFresh, RecoveryCodeOnce, Drawing, Idle
<1>2. BatchesFresh => RecoveryCodeOnce
  BY DEF BatchesFresh
<1>. QED
  BY <1>1, <1>2, TypeInit, TypeStep, BatchStep, PTL DEF Spec

-----------------------------------------------------------------------------
(* Enrolment *)

\* The request is TOTPBegin or TOTPConfirm in flight.
Enrolling(r) == req[r].pc \in {"setSecret", "validate", "enable", "replace", "lastStep"}

\* With enrolment requests one at a time: the one in flight knows what the store
\* holds. TOTPBegin about to write finds TOTP still off; TOTPConfirm holds the
\* stored secret (unless TOTP was removed meanwhile), validated once it enables.
OneEnrolment ==
    /\ EnabledWasConfirmed
    /\ \A r \in Requests : Enrolling(r) =>
          /\ req[r].op \in {"begin", "confirm"}
          /\ \A q \in Requests : Enrolling(q) => q = r
          /\ req[r].pc = "setSecret" => ~Enabled
          /\ req[r].pc \in {"validate", "enable"} /\ totp # None => totp.secret = req[r].secret
          /\ req[r].pc = "enable" => req[r].secret \in confirmed

\* Writing LastStep changes nothing else of the row.
LEMMA LastStepOnly ==
    ASSUME NEW i \in TOTPInfo, NEW s \in 0 .. MaxStep
    PROVE  LET x == [i EXCEPT !.lastStep = s]
           IN  x # None /\ x.secret = i.secret /\ x.enabled = i.enabled
<1>1. [i EXCEPT !.lastStep = s] \in TOTPInfo
  BY DEF TOTPInfo
<1>. QED
  BY <1>1, NoneAssumption DEF TOTPInfo

\* The steps that write LastStep keep the secret and whether TOTP is on.
LEMMA LastStepKeeps ==
    ASSUME TypeOK, InFlight, NEW r \in Requests, TOTPConfirmLastStep(r) \/ verifySecondFactor(r)
    PROVE  \/ totp' = totp
           \/ /\ totp # None /\ totp' # None
              /\ totp'.secret = totp.secret /\ totp'.enabled = totp.enabled
<1>1. CASE TOTPConfirmLastStep(r)
  <2>1. req[r].code.step \in 0 .. MaxStep
    BY <1>1, TwoFactorAssumption DEF TOTPConfirmLastStep, InFlight, TOTPCode, TypeOK, FirstStep
  <2>. QED
    BY <1>1, <2>1, LastStepOnly DEF TOTPConfirmLastStep, SetTOTPLastStep, TypeOK
<1>2. CASE verifySecondFactor(r)
  <2>1. CASE /\ totpValidate(req[r].secret, req[r].code) /\ CanClaim(req[r].code.step)
             /\ totp' = [totp EXCEPT !.lastStep = req[r].code.step]
    <3>1. req[r].code \in Codes
      BY <1>2 DEF verifySecondFactor, InFlight
    <3>2. req[r].code.step \in 0 .. MaxStep
      BY <2>1, <3>1, ValidateType, TwoFactorAssumption DEF TOTPCode, TypeOK, FirstStep
    <3>. QED
      BY <2>1, <3>2, LastStepOnly DEF CanClaim, TypeOK
  <2>. QED
    BY <1>2, <2>1 DEF verifySecondFactor, store
<1>. QED
  BY <1>1, <1>2

\* An enrolment request that starts is the only one.
LEMMA EnrolStart ==
    ASSUME Serial, TypeOK, OneEnrolment, MayEnrol,
           NEW r \in Requests, NEW x, req' = [req EXCEPT ![r] = x]
    PROVE  /\ req'[r] = x
           /\ \A q \in Requests : q # r => req'[q] = req[q] /\ ~Enrolling(q)'
<1>1. \A q \in Requests : ~Enrolling(q)
  BY DEF OneEnrolment, MayEnrol, Enrolling
<1>. QED
  BY <1>1 DEF TypeOK, Enrolling

\* OneEnrolment is inductive relative to the type invariant.
LEMMA EnrolStep ==
    Serial /\ TypeOK /\ InFlight /\ OneEnrolment /\ [Next]_vars => OneEnrolment'
<1>. SUFFICES ASSUME Serial, TypeOK, InFlight, OneEnrolment, [Next]_vars PROVE OneEnrolment'
  OBVIOUS
<1>0. ASSUME UNCHANGED <<totp, confirmed>>,
             \A q \in Requests : Enrolling(q)' =>
                /\ Enrolling(q) /\ req'[q].op = req[q].op /\ req'[q].secret = req[q].secret
                /\ req'[q].pc \in {req[q].pc, "replace", "lastStep"}
      PROVE  OneEnrolment'
  BY <1>0 DEF OneEnrolment, EnabledWasConfirmed, Enabled
<1>1. ASSUME NEW r \in Requests, TOTPBegin(r) PROVE OneEnrolment'
  <2>. DEFINE x == [Idle EXCEPT !.pc = "setSecret"]
  <2>1. req' = [req EXCEPT ![r] = x] /\ MayEnrol /\ ~Enabled /\ UNCHANGED <<totp, confirmed>>
    BY <1>1 DEF TOTPBegin, Begin, store, history
  <2>2. x.pc = "setSecret" /\ x.op = "begin"
    BY DEF Idle
  <2>. HIDE DEF x
  <2>3. req'[r] = x /\ \A q \in Requests : q # r => ~Enrolling(q)'
    BY <2>1, EnrolStart
  <2>. QED
    BY <2>1, <2>2, <2>3 DEF OneEnrolment, EnabledWasConfirmed, Enabled
<1>2. ASSUME NEW r \in Requests, TOTPBeginSet(r) PROVE OneEnrolment'
  <2>1. totp' # None => totp'.enabled = FALSE
    BY <1>2 DEF TOTPBeginSet, SetTOTPSecret
  <2>2. Enrolling(r)
    BY <1>2 DEF TOTPBeginSet, Enrolling
  <2>3. \A q \in Requests : ~Enrolling(q)'
    BY <1>2, <2>2 DEF TOTPBeginSet, Finish, Idle, TypeOK, OneEnrolment, Enrolling
  <2>. QED
    BY <2>1, <2>3 DEF OneEnrolment, EnabledWasConfirmed, Enabled
<1>3. ASSUME NEW r \in Requests, TOTPConfirm(r) PROVE OneEnrolment'
  <2>1. PICK code \in Typed :
          req' = [req EXCEPT ![r] = [Idle EXCEPT !.pc = "validate", !.op = "confirm",
                                       !.secret = totp.secret, !.code = code]]
    BY <1>3 DEF TOTPConfirm, Begin
  <2>. DEFINE x == [Idle EXCEPT !.pc = "validate", !.op = "confirm",
                                !.secret = totp.secret, !.code = code]
  <2>2. x.pc = "validate" /\ x.op = "confirm" /\ x.secret = totp.secret
    BY DEF Idle
  <2>3. req' = [req EXCEPT ![r] = x] /\ MayEnrol /\ UNCHANGED <<totp, confirmed>>
    BY <1>3, <2>1 DEF TOTPConfirm, store, history
  <2>. HIDE DEF x
  <2>4. req'[r] = x /\ \A q \in Requests : q # r => ~Enrolling(q)'
    BY <2>3, EnrolStart
  <2>. QED
    BY <2>2, <2>3, <2>4 DEF OneEnrolment, EnabledWasConfirmed, Enabled
<1>4. ASSUME NEW r \in Requests, TOTPConfirmValidate(r) PROVE OneEnrolment'
  <2>1. CASE Finish(r) /\ UNCHANGED <<batches, history>>
    BY <1>0, <1>4, <2>1 DEF TOTPConfirmValidate, Finish, Idle, Enrolling, TypeOK, store, history
  <2>2. CASE /\ req' = [req EXCEPT ![r].pc = "enable", ![r].batch = batches']
             /\ confirmed' = confirmed \cup {req[r].secret}
    <3>1. /\ req'[r].pc = "enable" /\ req'[r].op = req[r].op /\ req'[r].secret = req[r].secret
          /\ \A q \in Requests \ {r} : req'[q] = req[q]
      BY <2>2 DEF TypeOK, Request
    <3>2. UNCHANGED totp /\ req[r].pc = "validate"
      BY <1>4 DEF TOTPConfirmValidate, store
    <3>3. Enrolling(r) /\ \A q \in Requests : Enrolling(q)' => q = r
      BY <3>1, <3>2 DEF OneEnrolment, Enrolling
    <3>4. EnabledWasConfirmed'
      BY <2>2, <3>2 DEF OneEnrolment, EnabledWasConfirmed, Enabled
    <3>5. totp # None => totp.secret = req[r].secret
      BY <3>2, <3>3 DEF OneEnrolment
    <3>6. req[r].op \in {"begin", "confirm"}
      BY <3>3 DEF OneEnrolment
    <3>7. /\ req'[r].op \in {"begin", "confirm"} /\ req'[r].secret \in confirmed'
          /\ totp' # None => totp'.secret = req'[r].secret
      BY <2>2, <3>1, <3>2, <3>5, <3>6
    <3>8. req'[r].pc # "setSecret"
      BY <3>1
    <3>. QED
      BY <3>3, <3>4, <3>7, <3>8 DEF OneEnrolment
  <2>. QED
    BY <1>4, <2>1, <2>2 DEF TOTPConfirmValidate
<1>5. ASSUME NEW r \in Requests, TOTPConfirmEnable(r) PROVE OneEnrolment'
  <2>1. UNCHANGED confirmed /\ Enrolling(r) /\ req[r].pc = "enable"
    BY <1>5 DEF TOTPConfirmEnable, history, Enrolling
  <2>2. CASE Finish(r) /\ UNCHANGED totp
    BY <1>0, <2>1, <2>2 DEF Finish, Idle, Enrolling, TypeOK
  <2>3. CASE EnableTOTP /\ Goto(r, "replace")
    <3>1. /\ req'[r].pc = "replace" /\ req'[r].op = req[r].op
          /\ \A q \in Requests \ {r} : req'[q] = req[q]
      BY <2>3 DEF Goto, TypeOK, Request
    <3>2. totp' # None => totp # None /\ totp'.secret = totp.secret
      BY <2>3 DEF EnableTOTP, TypeOK, TOTPInfo
    <3>3. \A q \in Requests : Enrolling(q)' => q = r
      BY <2>1, <3>1 DEF Enrolling, OneEnrolment
    <3>4. EnabledWasConfirmed'
      BY <2>1, <3>2 DEF OneEnrolment, EnabledWasConfirmed, Enabled
    <3>. QED
      BY <2>1, <3>1, <3>3, <3>4 DEF OneEnrolment
  <2>. QED
    BY <1>5, <2>2, <2>3 DEF TOTPConfirmEnable
<1>6. ASSUME NEW r \in Requests, TOTPConfirmReplace(r) PROVE OneEnrolment'
  <2>1. UNCHANGED <<totp, confirmed>>
    BY <1>6 DEF TOTPConfirmReplace, history
  <2>2. \A q \in Requests : Enrolling(q)' =>
           /\ Enrolling(q) /\ req'[q].op = req[q].op /\ req'[q].secret = req[q].secret
           /\ req'[q].pc \in {req[q].pc, "replace", "lastStep"}
    BY <1>6 DEF TOTPConfirmReplace, Goto, Finish, Idle, Enrolling, TypeOK, Request
  <2>. QED
    BY <1>0, <2>1, <2>2
<1>7. ASSUME NEW r \in Requests, TOTPConfirmLastStep(r) PROVE OneEnrolment'
  <2>1. UNCHANGED confirmed /\ Enrolling(r)
    BY <1>7 DEF TOTPConfirmLastStep, Enrolling
  <2>2. \A q \in Requests : ~Enrolling(q)'
    BY <1>7, <2>1 DEF TOTPConfirmLastStep, Finish, Idle, TypeOK, OneEnrolment, Enrolling
  <2>3. totp' # None => /\ totp # None /\ totp'.secret = totp.secret
                        /\ totp'.enabled = totp.enabled
    BY <1>7 DEF TOTPConfirmLastStep, SetTOTPLastStep, TypeOK, TOTPInfo
  <2>. QED
    BY <2>1, <2>2, <2>3 DEF OneEnrolment, EnabledWasConfirmed, Enabled
<1>8. ASSUME NEW r \in Requests, NEW op \in {"verify", "disable"}, SecondFactor(r, op)
      PROVE  OneEnrolment'
  <2>1. \A q \in Requests : Enrolling(q)' => Enrolling(q) /\ req'[q] = req[q]
    BY <1>8 DEF SecondFactor, Begin, Idle, Enrolling, TypeOK
  <2>. QED
    BY <1>0, <1>8, <2>1 DEF SecondFactor, store, history
<1>9. ASSUME NEW r \in Requests, verifySecondFactor(r) PROVE OneEnrolment'
  <2>1. \A q \in Requests : Enrolling(q)' => Enrolling(q) /\ req'[q] = req[q]
    BY <1>9 DEF verifySecondFactor, Goto, Finish, Idle, Enrolling, TypeOK, Request
  <2>2. UNCHANGED confirmed
    BY <1>9 DEF verifySecondFactor
  <2>3. totp' = totp \/ (totp # None /\ totp' # None /\ totp'.secret = totp.secret
                         /\ totp'.enabled = totp.enabled)
    BY <1>9, LastStepKeeps
  <2>. QED
    BY <2>1, <2>2, <2>3 DEF OneEnrolment, EnabledWasConfirmed, Enabled
<1>10. ASSUME NEW r \in Requests, TOTPDisable(r) PROVE OneEnrolment'
  <2>1. \A q \in Requests : Enrolling(q)' => Enrolling(q) /\ req'[q] = req[q]
    BY <1>10 DEF TOTPDisable, Finish, Idle, Enrolling, TypeOK
  <2>. QED
    BY <1>10, <2>1 DEF TOTPDisable, OneEnrolment, EnabledWasConfirmed, Enabled
<1>11. CASE Tick \/ UNCHANGED vars
  BY <1>0, <1>11 DEF Tick, vars, store, history, Enrolling
<1>. QED
  BY <1>1, <1>2, <1>3, <1>4, <1>5, <1>6, <1>7, <1>8, <1>9, <1>10, <1>11 DEF Next

\* Nothing but TOTPDisable turns TOTP off, and it runs after an accepted code.
LEMMA OffStep ==
    Serial /\ TypeOK /\ InFlight /\ OneEnrolment /\ [Next]_vars =>
        [Enabled /\ ~Enabled' => \E r \in Requests : TOTPDisable(r)]_vars
<1>. SUFFICES ASSUME Serial, TypeOK, InFlight, OneEnrolment, Next, Enabled, ~Enabled'
              PROVE  \E r \in Requests : TOTPDisable(r)
  OBVIOUS
<1>1. ASSUME NEW r \in Requests, TOTPBeginSet(r) PROVE FALSE
  BY <1>1 DEF TOTPBeginSet, OneEnrolment, Enrolling
<1>2. ASSUME NEW r \in Requests, TOTPConfirmEnable(r) PROVE FALSE
  BY <1>2 DEF TOTPConfirmEnable, EnableTOTP, Enabled, TypeOK, TOTPInfo
<1>3. ASSUME NEW r \in Requests, TOTPConfirmLastStep(r) \/ verifySecondFactor(r) PROVE FALSE
  BY <1>3, LastStepKeeps DEF Enabled
<1>4. totp' # totp
  BY DEF Enabled
<1>5. ASSUME NEW r \in Requests,
             \/ TOTPBegin(r) \/ TOTPConfirm(r) \/ TOTPConfirmValidate(r)
             \/ TOTPConfirmReplace(r)
             \/ \E op \in {"verify", "disable"} : SecondFactor(r, op)
      PROVE  FALSE
  BY <1>4, <1>5 DEF TOTPBegin, TOTPConfirm, TOTPConfirmValidate, TOTPConfirmReplace,
                    SecondFactor, store
<1>6. ~Tick
  BY <1>4 DEF Tick, store
<1>. QED
  BY <1>1, <1>2, <1>3, <1>5, <1>6 DEF Next

\* With enrolment requests one at a time, TOTP is in force only with a secret
\* that a code was validated against: no order of TOTPBegin, TOTPConfirm,
\* TOTPDisable and verification by other requests enables an unconfirmed one.
THEOREM ConfirmedEnrolment ==
    ASSUME MaxStep >= FirstStep, Serial
    PROVE  Spec => []EnabledWasConfirmed
<1>1. Init => OneEnrolment
  BY DEF Init, OneEnrolment, EnabledWasConfirmed, Enabled, Enrolling, Idle
<1>2. OneEnrolment => EnabledWasConfirmed
  BY DEF OneEnrolment
<1>. QED
  BY <1>1, <1>2, TypeInit, TypeStep, EnrolStep, PTL DEF Spec

\* Under the same condition TOTP goes off only by TOTPDisable: the check in
\* TOTPBegin is still true when it writes the new secret.
THEOREM OffByDisable ==
    ASSUME MaxStep >= FirstStep, Serial
    PROVE  Spec => OffOnlyByDisable
<1>1. Init => OneEnrolment
  BY DEF Init, OneEnrolment, EnabledWasConfirmed, Enabled, Enrolling, Idle
<1>. QED
  BY <1>1, TypeInit, TypeStep, EnrolStep, OffStep, PTL DEF Spec, OffOnlyByDisable
=============================================================================
