# go-auth-x in TLA+

Specifications of the `authx` authentication engine (package `authx`, its two stores,
the embedded OAuth provider, the SCIM server and the LDAP synchronisation), checked with
TLC on small instances and, where it matters most, proved with TLAPS for every value of
the constants. `PROJECT.json` lists the runs, the
mutants that show that each property can fail, the lines each definition stands
for, the findings, the hazards and the theorems.

## The system

`authx` is a library: an `Authenticator` with HTTP handlers, over store
interfaces that two packages implement (`store/memory`: one mutex;
`store/gormstore`: SQL). Each HTTP request runs in a goroutine of its own, some
handlers start further goroutines (mail, `EmailOTPSend`), and several processes
may share one SQL store. There is no transaction around a handler: its store
calls are atomic one by one, and everything between two calls may be interleaved
with other requests. That is where most of the difficulty lies.

| Component | State | Operations | Interacts with | What makes it correct |
|---|---|---|---|---|
| Login funnel and sessions (`login.go`, `session.go`, `sessions.go`, `handlers.go`, `store/*/sessions.go`) | signed cookies (with the client), session records, 2fa-pending cookies | `completeLogin`, OIDC `Callback`, impersonation, `recordSession`, `Logout`, `SessionRevoke`, `SessionRevokeOthers`, the gate | every sign-in method ends here; off-boarding revokes here | a refused session is never accepted again; a blocked or deleted user has no session; a live cookie has its record; no single-factor session reaches a TOTP user |
| Off-boarding (`admin.go`, `admin_users.go`, `account_lifecycle.go`) | `disabled`, `banUntil` of the row | ban, disable, delete, revoke sessions | rows, then sessions | off-boarding is complete and stays |
| Two-factor (`twofactor*.go`, `totp.go`, `stepup.go`) | TOTP secret, `Enabled`, `LastStep`, recovery codes | begin, confirm, verify, disable, `ReAuth` | halts the funnel, resumes it | codes work once; TOTP goes on and off only as the user proved |
| Accounts and linking (`account.go`, `password.go`, `magic.go`, `social.go`, `webauthn.go`, `store/*/memory.go`, `gormstore.go`) | rows, passwords, passkeys, links, mailed tokens | sign-up, mailed links, reset, change of address, social and OIDC logins, removal of methods, delete | `UpsertUserOnLogin` in every login | one row per address; verified means proved; mailed links work once; the last method stays; a block stays; a password is not put back |
| E-mail codes (`emailotp.go`) | one code per address, attempts, expiry | send, verify | funnel | capped guesses, single use, no early death |
| Rate limits and lockout (`ratelimit.go`, `password.go`) | attempts per key, failures in the audit log | `Allow`, `gc`, `RecentFailures` | before every credential check | limit kept, refusals do not extend it, locks lift |
| Organisations (`orgs*.go`, `admin_orgs.go`, `orgdirectory.go`) | organisations, memberships, invitations, active organisation in the cookie | create, invite, accept, change role, remove, switch, provision and deprovision through the SCIM view | sessions, directory | an organisation keeps an owner; owners come from owners; an invitation works once; a deleted organisation leaves nothing |
| OAuth/OIDC provider (`oidcprovider/`, `oauthstore.go`, `store/*/oauth.go`) | authorization requests, codes, grants, tokens, clients, signing keys | authorize, consent, exchange, refresh, revoke, register, rotate keys | sessions; the zitadel `op` library drives the storage | codes and refresh tokens work once; reuse ends the grant; a revoked grant has no live token; published keys verify live tokens; rotations settle on one key |
| SCIM, directory, LDAP (`scim/`, `directory.go`, `ldapsync/`) | users, groups, API keys | provisioning, PATCH/PUT, sync | rows, off-boarding, the members of an organisation | a replacement replaces; an organisation's groups stay within it; a synchronisation disables those who are missing and nobody else |
| Gate, CSRF, step-up (`middleware.go`, `csrf.go`, `stepup.go`) | cookies | admit or refuse | sessions | no state change without the right token |
| Social protocols, mail, configuration, hashing | none, or with external services | – | – | – |

### What is hard here

* **Interleaving.** A check in one store call and the write in a later one
  (sign-up, enrolment, unlinking, login against ban).
* **Stale values.** An identity, a row or a subject read at the start of a
  handler and written or used at its end (`UpsertUserOnLogin` over SQL, the rehash
  after a login, the subject whose sessions are revoked).
* **Time.** Two clock readings for one session, a time-step guard, a limiter that
  reads the clock before it takes the lock.
* **Restarts.** The in-memory store forgets rows, sessions and attempts while the
  signed cookies live on with the clients; a rotation of keys stops between two calls.
* **Replicas.** Each signs with a copy of the keys that another one has retired; locks
  (`orgMu`, `credMu`) and maps of used codes are local to a process.
* **Several writers of one table.** SCIM clients, LDAP, operators and members write
  memberships and groups with a check in one call and the write in the next.
* **Partial failure.** Store errors that are dropped, loops whose body may fail.
* **Retries and duplicates.** A link opened twice, a code posted twice, a
  registration confirmed twice.

`PROJECT.json` lists these at their lines under `hazards`.

## Modules

| Module | Models |
|---|---|
| `SessionAbs` | what the gate promises of sessions, and the OAuth provider of its tokens: each is issued once, and once refused is never accepted again |
| `Sessions` | the login funnel, session records, off-boarding, revocation, restarts |
| `SessionsProofs` | theorems about `Sessions`, among them that it implements `SessionAbs` |
| `TwoFactor`, `TwoFactorProofs` | TOTP and recovery codes of one user |
| `Accounts`, `AccountsProofs` | rows, addresses, credentials, mailed links, social and OIDC linking |
| `EmailOTP` | mailed sign-in codes of one address |
| `Throttle` | the sliding-window limiter and the password lockout |
| `AttemptsProofs` | the proofs about `Throttle` and `EmailOTP` |
| `OAuthGrants`, `OAuthGrantsProofs` | the OAuth provider: consent, codes, grants, refresh rotation, revocation, clean-up |
| `Orgs`, `OrgsProofs` | organisations: members and roles, invitations, the active organisation |
| `SigningKeys`, `SigningKeysProofs` | the provider's signing keys: rotation by several replicas with caches |
| `Directory`, `DirectoryProofs` | SCIM users and groups, the view of one organisation, the LDAP synchronisation |
| `MC*` | the symmetry sets for TLC; the `.cfg` files give the constants |

Conventions. A handler is a sequence of steps, one per store call that writes or
whose answer is used later; `req[r]` is the handler's local state (`pc` names the
store call that comes next). A request that stops half-way (client gone, process
killed) is a request that takes no further step, or a `Restart`. Data is what the
properties tell apart: a password, a code, a link is a number; an address is a
model value. Definitions marked `Mutant` are plausible bugs, kept next to the
definition that they would replace; no specification uses them. Variables marked
`history` record what happened and influence nothing.

### Sessions

`row[u]` is the user's row (its generation is the primary key, so that a deleted
and re-created account differs), `sess` the session store, `cookie` all session
cookies ever issued (a client may keep any copy), `pending` the 2fa-pending
cookies. `Login` stands for every in-app method at the moment it has proved its
factor and passed `loginBlocked`; `Authorize`, `Resolve`, `FactorGate` and
`Record` are the store calls of `completeLogin` in their order, `TwoFactorVerify`,
`TwoFactorWebauthnFinish`, `SecondFactor`, `PendingResolve` the second half of a
login that was halted. `Callback` is the OIDC login, which has its own path.
`adminSetBan`, `adminSetDisabled`, `ReadSub`, `DeleteStart`, `DeleteUser`,
`adminRevokeUserSessions` and `RevokeAll` are the store calls of the off-boarding
handlers. With `Durable = FALSE` a `Restart` empties the store (`store/memory`).
Faults of the store are those the code treats specially: a lost `RecordSession`
(fails the login), a lost `RevokeAllForUser` (dropped), failed look-ups within
`completeLogin` (dropped).

### TwoFactor

`totp` is the stored `TOTPInfo`, `recovery` the stored codes. A code names what it
was computed from (secret and time-step, or batch and index), so equality of codes
is equality of these. A client may type any code of any secret it was shown, one
step off in either direction. `Serial = TRUE` restricts enrolment (begin, confirm)
to one request at a time; verification and disabling always interleave.

### Accounts

`users` are rows by primary key. `Arrive` starts a handler with its first store
call, `Step` is any later one. With `SQL = TRUE` `UpsertUserOnLogin` reads and
`Save` writes all columns of the row later, as gorm's `Save` does (external
library, modelled from how it is used). `Handlers` says which handlers an instance
serves, so that runs can combine many handlers without exploring all at once.
There is no clock: expiry only makes a link useless, and any step may fail to
happen. When `SetPasswordHash` fails, `adminCreateUser` rolls the row back; that
fault is not modelled.

### EmailOTP

One address: the stored code with attempts and expiry, the row's state (active,
blocked, gone). `EmailOTPSend` answers at once and creates the code in a goroutine,
hence two steps.

### Throttle

Entries are kept by age, so that time needs no bound and liveness can be checked.
`lag` is the time between reading the clock and taking the lock. `Total` counts the entries of
some ages as a set, which lets the proofs compare counts by inclusion. The limiter is per
process: a `Restart` (which takes a tick) empties it; the audit log stays. Sign-up,
second-factor and step-up failures count toward the lockout but do not look at it
(`OtherFailure`).

### OAuthGrants

One client. `areq`, `grants`, `access` and `refresh` are the tables of the
`OAuthStore`; ids and tokens are numbers that are never handed out twice, and an
access token and the refresh token that comes with it have the same number. `codes`
is the map of each process with the codes that it has seen (a process that restarts
has an empty map and counts as a new one). `login`, `Approve`,
`Deny`, `AuthorizeCallback` read an authorization request; `SaveOAuthAuthRequest`
writes the copy back later, as a whole. `Exchange`, `OAuthAuthRequestByCode`,
`CreateOAuthGrant`, `accessToken`, `CreateOAuthRefreshToken`,
`DeleteOAuthAuthRequest` are the store calls of a code exchange in their order;
`TokenRequestByRefreshToken`, `OAuthGrant`, `UseOAuthRefreshToken`, `accessToken`,
`CreateOAuthRefreshToken` those of a refresh. The order comes from zitadel's `op`
library (external, modelled from the storage interface that it calls); its checks of
the client, of PKCE and of the redirect only refuse, and are a choice. Whether a user
may sign in (`userOK`) is a choice as well. A `Ref` stands for the authorization
request that it was given to. `Refreshes` says whether the client has the grant type
`refresh_token`; without it an exchange ends with the access token. `Fail` stops any
handler between two calls. `TokenStatus` maps the tokens to `SessionAbs`: an access token
is accepted as long as `Verify` accepts it, a refresh token as long as an exchange would;
both count as issued from the moment their request has stored them, or given up on it.

### Orgs

`org`, `users`, `role`, `invite` and `status` are the tables, `active` the organisation
that each user's cookie names. `OrgMemberSetRole` and `OrgMemberRemove` read the actor's
role and wait for `orgMu` of their process (`Lock`), ask for the sole owner (`SoleOwner`)
and write (`WriteMember`); `OrgInviteCreate`, `InviteCheck`, `CreateOrgInvite`, then
`OrgInviteAccept`, `ConsumeOrgInvite`, `GrantInvite`, `JoinOrg` are the store calls of an
invitation, `OrgInviteRevoke`, `RevokeOrgInvite` of its withdrawal. `ViewSetUserDisabled`
with `Deprovision`, and `ViewUpsertExternalUser` with `EnsureMember`, are what the SCIM
view of an organisation does to memberships. `AdminCreateOrg`, `AdminSetOrgMember`,
`AdminRemoveOrgMember`, `DeleteOrg` and `DeleteUser` are the operator's, which bypass
`orgMu`. The history variable `bypassed` marks organisations in which such a writer took
an owner or wrote into a guarded change; `LastOwnerKept` excepts them, and supposes one
process. `Login` picks the active organisation and `OrgSwitch` changes it.

### SigningKeys

A key has a time of creation (`at`) and of retirement (`retired`); `stored` says whether
it still exists. A worker is one run of `rotateKeys` or `loadKeys`: `RotateKeys` begins it,
`RotateRead`, `AddKey`, `RotateReread`, `Retire`, `Delete` are the store calls of the
upkeep in their order, `LoadRead` and `LoadStore` those of reading the copy, `Refresh` a
request that finds the copy old. `New` runs the same upkeep before the replica is up.
`Sign` signs a token with the replica's copy; `expires` remembers until when, if the copy
was read less than `keyRefresh` ago. `Crash` stops a replica with all its runs, `Fail`
loses one call. With `Slow = FALSE` no store call takes a tick of the clock, which
`TokensVerify` needs: a key read before and stored after a long pause is as old as the pause.

### Directory

Everyone has one address; `sub` says to which name space (LDAP's or SCIM's) the subject of
a row belongs, `member` who is a member of the organisation, `grouped` the rows of
`GroupMembership`. `mount` is what the host gives to the SCIM server: the store itself or
the view of one organisation (`orgdirectory.go`), whose groups are its own. In the first
case the LDAP synchronisation runs as well; it writes groups of the installation only, and
membership is not its business, so that the two cases do not meet. `createUser`,
`putUser`, `UpsertUser`, `DisableUser`, `SetUserDisabled` are the users; `createGroup`,
`MakeGroup`, `putGroup`, `patchGroup`, `PatchOp`, `ReadMembers`, `RemoveMembers`,
`AddMembers`, `WriteMembers`, `DeleteGroup` the groups, with the admin handlers beside
them; `SyncSearch` to `SyncDone` the loops of `Sync`, one step per store call, any of
which may fail (`Fails`) at most `MaxFails` times. An If-Match is compared before the first
write, so it only decides whether a request begins. `late` and `met` are histories: rows
that were on their way when a membership ended, and replacements that somebody disturbed.

## Runs

| Run | Bounds | Shows |
|---|---|---|
| `sessions_offboard` | 1 user (with and without TOTP), 2 requests, 2 session ids, in-memory store, 1 tick, 1 re-creation | `OffboardedUnlessOverlapping`, `SecondFactorKept`, `ImplementsSessionAbs` |
| `sessions_expiry` | 1 user, 1 request, 1 session id, 3 ticks, durable store, OIDC, all faults | `UnexpiredCookieIsRecorded`, `RecordOutlivesCookie` |
| `twofactor_serial` | 2 requests, 2 secrets, 2 batches of 1 code, 2 time-steps ahead, store faults | `NoReplayInPeriod`, `RecoveryCodeOnce`, `GuardNotAhead`, `EnabledWasConfirmed`, `OffOnlyByDisable` |
| `twofactor_replay` | the same, no faults | refutes `NoReplay` (finding) |
| `accounts_linking` | 2 addresses, 3 rows, 2 requests over gormstore, a seeded placeholder, one social and one OIDC identity | `OneRowPerEmail`, `VerifiedWasProven` |
| `accounts_methods` | 1 address, 2 passkeys, 2 social identities, 2 passwords, 2 requests, in-memory store | `LinkWorksOnce`, `LastMethodKept`, `BlockSticks`, `PasswordNotReverted` |
| `emailotp` | 2 requests, 3 codes, 3 attempts, 4 ticks | `GuessesCapped`, `CodeWorksOnce`, `NotBurnedEarly` |
| `throttle` | 2 requests, window 3, limit 2, lock window 1, 1 failure allowed, lag up to 1, with sign-up failures | `BudgetKept`, `LockoutBound`, `BudgetReopens`, `LockLifts` |
| `oauthgrants` | 1 user, 1 process, 2 requests, 1 scope, 1 end date, 1 authorization request, 1 code, 1 grant, 2 token pairs, 2 ticks | `WithinApproval`, `OneRefreshChain`, `ReplayEndsGrant`, `CodeOncePerProcess`, `CleanUpIsInvisible`, `TokensEndForGood` |
| `orgs` | 1 organisation, 2 users (1 provisioned), 1 process, 2 requests, 1 invitation, roles owner and admin | `LastOwnerKept`, `OwnersComeFromOwners`, `InviteWorksOnce`, `OrgLeavesNothing` |
| `signingkeys` | 2 replicas, 2 runs at once, 2 keys, all times 1, rotation 2, 2 ticks, 1 failure, 1 forced rotation | `SomeKeySigns`, `TokensVerify`, `Settles` |
| `directory` | 2 users (1 of SCIM), both mounts, 1 name, the lists {} and {u1}, 1 request, 1 group, 1 failure | `GroupWithinOrg`, `DeprovisionsOnlyMissing`, `ReplacesMembers`, `MissingIsDisabled` |

Why the bounds are enough. The races are between two handlers over one row, one
code or one session, so two requests and one user show each of them, and a second
session id lets one session survive what ends the other. Two addresses and three
rows let two creations collide while a third row holds the address that moves.
One authorization
request with its one grant is the unit that every race of the provider is about: two
requests save it, exchange its code or rotate its token at once.
Two owners and two requests are the smallest case in which each could take the other for
the owner who stays; replacing a pending invitation takes two invitations and is covered
by the proofs only. Two replicas and two keys let each replica retire what the other
counts on. In `Directory` one SCIM request meets LDAP, the operator and the removal of
members between any two of its calls; its safety properties are proved for any number of
requests.
Time matters through the order of expiries and clock readings; the bounds leave at
least one tick on either side of each. `CHECK_DEADLOCK FALSE` is set where the
bounded clock and the bounded supply of ids let a behaviour end; `Throttle` has no
such bound and deadlock is checked there. Types are proved rather than run
where there is a proof module, and run in `accounts_linking`. Each property has a mutant that TLC
refutes under the run's own configuration, which shows that the case does happen.

Fairness. `throttle` assumes `WF_throttleVars(Elapse)`: time passes. `signingkeys` assumes that a
store call that is under way ends (`Step`) and that some replica is up or comes up and
runs its upkeep again, as the hourly clean-up in `provider.go` does (`Upkeep`). `directory`
assumes `WF_vars(Sync)`: the host calls `Sync` on a schedule (`src/README.md:465`, "One-way
scheduled pull") and a run that has begun goes on. No request is assumed to come, to go on
or to end, so liveness does not lean on clients. Everything else is safety.

## Proofs

TLAPS checks these for every number of users, requests, session ids, codes, secrets
and every bound, from the assumptions on the constants stated in the modules
(`ConstantsAssumption`, `NoneAssumption`, `TwoFactorAssumption`,
`EmailOTPAssumption`, `ThrottleAssumption`, `AccountsAssumption`, `GrantsAssumption`, `OrgsAssumption`,
`KeysAssumption`, `DirectoryAssumption`). `KeysAssumption` has `keyRefresh <= keySkew`, which the constants of
`keys.go` satisfy with equality; `ThrottleAssumption` has `MaxLag < window`, a request waits for the
mutex for less than a window; the others only say what is a number, what is finite
and what is not `None`. A theorem that holds for one configuration of the code only names it
(`Durable`, `Serial`, `~OIDC`, `~SQL`, ...); outside of it the property fails as described
under Findings.

* `SessionsProofs!TypeCorrect`: `TypeOK` is inductive, one step per action.
* `SessionsProofs!RecordOutlives`: `RecordOutlivesCookie` is inductive given
  `TypeOK`, because it also speaks of requests that minted and have not recorded:
  the expiry of the cookie was computed from an earlier clock than the record's.
* `SessionsProofs!UnexpiredIsRecorded`, assuming `Durable`: no step but `Record`
  adds a cookie, and every step that removes a record removes an expired one
  (`KeepsUnexpired`), which by `RecordOutlivesCookie` belongs to an expired cookie.
* `SessionsProofs!Refinement`: `Spec => ImplementsSessionAbs`. Every step other
  than `Record` only removes records or tombstones them and never moves time back
  (`OtherStep`), so a refused session stays refused; `Record` takes an id that was
  never issued (`RecordStep`).
* `SessionsProofs!Offboarded`, assuming `~OIDC` and `~RevokeFaults`:
  `OffboardedUnlessOverlapping` from `OffInv`. A record names
  the user of its cookie (`Matched`), a login under way that no off-boarding overlapped is
  that of a user who exists and is not blocked (`LoginsClear`), and the accepted sessions of
  a user who is gone are about to be revoked by a handler that needs no row any more
  (`NoneLeft`). Without `~OIDC` a row has several subjects and revocation
  misses some.
* `SessionsProofs!SecondFactorHolds`, assuming `~OIDC` and `~LookupFaults`:
  `SecondFactorKept` from `FactorInv`, which says what a login has learnt of the second
  factor at each of its calls (`FactorsRead`): a row created meanwhile has none.
* `TwoFactorProofs!GuardInPast`: `GuardNotAhead` with the invariant that requests
  which validated a code hold a code not of the future.
* `TwoFactorProofs!ReplayGuard`: `NoReplayInPeriod`; the strengthening says that
  every TOTP code accepted since enrolment last wrote `LastStep` has a step at or
  below it. `NoReplay` itself is false (finding).
* `TwoFactorProofs!RecoveryOnce`: `RecoveryCodeOnce`; an accepted recovery code is
  neither stored nor part of a batch that a request still has to store.
* `TwoFactorProofs!ConfirmedEnrolment` and `OffByDisable`, assuming `Serial`:
  `EnabledWasConfirmed` and `OffOnlyByDisable` from `OneEnrolment`: while one request
  enrols, the secret that it has validated is the one stored, and what it read of the row
  is still true when it writes.
* `AccountsProofs!TypeCorrect`: the types, with what a handler holds at each of its store
  calls (`WellFormed`).
* `AccountsProofs!OneRow`: `OneRowPerEmail`, for both stores and all sets of handlers. The
  stores test the address and the subject they write, except that `CreateLocalUser` makes a
  subject up from the next key; `Fresh` says that no row, request or link names it yet.
* `AccountsProofs!VerifiedProved`, assuming `~UnprovenOIDC`: `VerifiedWasProven` from
  `AllProved`. The property alone is far from inductive: `SetEmailVerified` marks a row
  whatever its address is by then. The invariant says that whoever can sign in without
  proving the address (a verified row, a passkey, a session, a linked identity, a request
  that has passed its check) does so for a row whose address was proved.
* `AccountsProofs!LinkOnce`: `LinkWorksOnce` from `Once`: a link that took effect, or that a
  request has consumed, is spent, and at most one request holds it.
* `AccountsProofs!BlockKept`, assuming `~SQL`: `BlockSticks` from `OneInv` and that no login
  stands before gorm's `Save`.
* `AccountsProofs!PasswordKept`, assuming `~StaleCost`: `PasswordNotReverted`, as no stored
  password is newer than the last one chosen and no login rehashes.
* `AccountsProofs!MethodKept`: `LastMethodKept` without conditions. Deleting and reclaiming
  rows take methods away too; that they spare a row that stays rests on `OneInv`.
* `AttemptsProofs!CodesAreCapped`, `CodesSignInOnce`, `CodesLast`: the attempts in the store are the
  wrong guesses ever made at the current code (`Counted`).
* `AttemptsProofs!BudgetsHold`: `BudgetKept` from `Budgeted`: what the limiter keeps of a key
  is within the limit, and what it keeps of the last `window` ticks is exactly what it
  granted. Pruning by a stale clock may keep more and never less (`KeptWithin`), and since
  `MaxLag < window` a grant is entered where both tables still agree (`AllowWithin`).
* `AttemptsProofs!LockoutHolds`: `LockoutBound` from `Recorded` (every wrong password is in the
  audit log under its age) and `WithinLock`: the wrong passwords of an account within
  `lockWindow` together with the requests that are past its lock stay within the bound. The
  bound alone is not inductive, as it would not say how many requests may still add to it.
* The counts in both are cardinalities of sets of entries (`Throttle!Total`), so the lemmas
  on them (`TotalMonotone`, `TotalAdded`, `TotalOlder`) come from inclusions and injections
  of finite sets and need no induction.
* `AttemptsProofs!TypeCorrect`: the types of `Throttle`.

* `OAuthGrantsProofs!TypeCorrect`: types are not inductive alone. The invariant `Core`
  adds that an approved request, stored or held as a copy by a handler, stands for
  terms that are in `approved`, and that grants named by tokens and requests were made.
* `OAuthGrantsProofs!StaysWithinApproval`: `WithinApproval` from `Core` and `Fits`: a
  request that works for a grant carries at most its scopes and exactly its end date,
  so that the tokens it issues do not exceed them.
* `OAuthGrantsProofs!RefreshTokensFormOneChain`: `OneRefreshChain` from `Core` and
  `Reserved`: the number of a refresh token that is about to be made is free and
  belongs to one request, and a request that presents a token works for its grant.
  Both proofs treat the steps that neither make grants nor issue or use up tokens
  together (`Quiet`, `StepKinds`).
* `OAuthGrantsProofs!ReplayEnds`: `ReplayEndsGrant` from `Reserved` and `ReplayTraced`: a
  used refresh token is still stored as used, or has expired, or its grant is over; and a
  grant of which a token came again is over or about to be.
* `OAuthGrantsProofs!CodeAnsweredOnce`: `CodeOncePerProcess` from `CodesTraced`: a code that
  a process has answered is in its map, or every copy of its authorization request, stored
  or held, is too old to be exchanged. Hence `forgetCodes` may drop it.
* `OAuthGrantsProofs!CleanUpInvisible`: `CleanUpIsInvisible` from `Core`.
* `OAuthGrantsProofs!TokensStayEnded`: `TokensEndForGood`, the refinement of `SessionAbs`,
  from `Core` and `Reserved`. The issue of an access token and the end of a request that
  holds a refresh token (it stores it or fails) are `Issue`; every other step is `Refuse`
  of the tokens that it ends: it leaves tokens as they are, removes them or has them used
  (`TokensKept`), and a grant in force afterwards was in force before (`InForceBefore`).

* `SigningKeysProofs!SigningKeyExists`: `SomeKeySigns` from `KInv`: a run retires only keys
  that are older than one it has read in the store, so that the newest key of all is never
  among them (`NewerSigns`, `RetiresOlder`), and deletes only keys that it saw retired
  (`DeletesRetired`).
* `SigningKeysProofs!TokensStayVerifiable`: `TokensVerify`, assuming `~Slow`. `OnTime` says
  that runs are no older than the present, that a key is deleted `KeyGrace` after its
  retirement at the earliest, that the key of a copy either signs still or was retired
  after the copy was read (`CopiesKept`), and hence that every signed token expires before
  its key may go (`ExpiresCovered`).
* `OrgsProofs!LastOwnerStays`: `LastOwnerKept` from `LastOwner`: at most one request of the
  process holds `orgMu` (`OneHolder`), and one that passed the guard leaves an owner whom
  it does not change (`OwnerLeft`). The guard's answer stays true until the write only
  because every other writer either takes `orgMu` or is recorded as bypassing.
* `OrgsProofs!OwnersOnlyFromOwners`: `OwnersSeeded` adds that whatever a request still has
  to grant, and whatever an invitation offers, is owner only where an operator has made
  one.
* `OrgsProofs!InvitationWorksOnce`: `UsedOnce`: an invitation that a request has consumed
  and not yet turned into a membership is counted for one request.
* `OrgsProofs!DeletedOrgLeavesNothing`: inductive with the types; the stores refuse rows
  for an organisation that is gone.
* `DirectoryProofs!DisablesOnlyMissing`: `DeprovisionsOnlyMissing` from `SeenFirst`: the
  entries that the search returned are seen or still to be visited, all of them seen when
  the users are listed, and whom the list picks was not seen.
* `DirectoryProofs!GroupsWithinOrg`: `GroupWithinOrg` with `RowsChecked`: what a request is
  about to write was allowed when it asked and, if a membership ended since, is in `late`.
  A new group has no rows and no request speaks of it, because ids are not given out again.
* `DirectoryProofs!Replaces`: `ReplacesMembers` from `Replacing`, which says how far an
  undisturbed replacement has come at each call: what it did not read as superfluous is
  wanted, then the whole group is wanted, then what is not wanted is in `late`. The last one
  needs `GroupWithinOrg`, since the view drops from the list those who are no members.
* `TypeCorrect` of `SigningKeysProofs`, `OrgsProofs` and `DirectoryProofs`: the types, strengthened by
  what a request at each store call holds (`Owned`, `Shape`).

Model-checked only: liveness (`BudgetReopens`, `LockLifts`, `Settles`, `MissingIsDisabled`).
The proof system handles neither fairness nor `ENABLED`. Every other property of a passing
run is stated by a theorem. The type invariants are in no run: the
theorems named `TypeCorrect`, `TwoFactorProofs!GuardInPast` and, for `EmailOTP`, the
inductive invariant of `AttemptsProofs` establish them.

## Findings

**Confirming again resets the replay guard** (`twofactor_replay`,
`twofactor_handlers.go:82`): a code that was used is accepted once more.

### Further deviations met while modelling

These definitions are stated in the modules; no run checks them, since TLC refutes
them as the code stands. Each can be reproduced by putting the definition into the
configuration that is named.

* `Sessions!BlockedLoginYieldsNoSession` in `Sessions_offboard.cfg` with `OIDC = TRUE`: the
  library's README (`src/README.md:240-243`) says that every method ends in
  `completeLogin`; `Callback` (`handlers.go:221`) mints and records a session on its own,
  and neither it nor the reference `Authorizer` looks at a ban.
* `Accounts!BlockSticks` in `Accounts_methods.cfg` with `SQL = TRUE`: `Save`
  (`gormstore.go:737`) writes every column back as it was read, so a login undoes a ban
  (`admin_users.go:124`) that was set meanwhile.
* `Sessions!OffboardedAtOnce` in `Sessions_offboard.cfg`: a login that passed the
  gate before the ban records its session after the revocation. Hence the checked
  form has the exception for overlapping logins.
* `Sessions!OffboardedUnderEverySubject` in `Sessions_offboard.cfg` with `OIDC =
  TRUE`: an OIDC login binds the row to another subject; revocation goes by the
  subject that the row has now and misses sessions issued under the former one.
* `Sessions!DeleteIsFinal` in `Sessions_offboard.cfg`: a login in flight
  re-creates the deleted row in `UpsertUserOnLogin`.
* `Sessions!SecondFactorKept` with `LookupFaults = TRUE`: when `UserBySub` or
  `TOTP` fails, `completeLogin` goes on as if the user had no second factor. With
  `OIDC = TRUE` it fails as well: the OIDC callback never asks for TOTP, which the
  library leaves to the issuer.
* `TwoFactor!EnabledWasConfirmed` and `OffOnlyByDisable` with `Serial = FALSE`: a
  begin between the validation and the enabling of a confirm puts a secret in
  force that nobody has shown; a begin that checked before the confirm enabled
  switches TOTP off.
* `Accounts!VerifiedWasProven` with `UnprovenOIDC = TRUE` in
  `Accounts_linking.cfg`: if the issuer changes an address without verifying it, the
  row stays verified under the new address.
* `Accounts!PasswordNotReverted` with `StaleCost = TRUE` in `Accounts_methods.cfg`: the
  rehash after a login writes the old password over one that was set meanwhile.
* `Accounts!SignupSparesVerified` and `AddressKept` in `Accounts_linking.cfg`,
  `ErasureComplete` in `Accounts_methods.cfg`: sign-up checks that the row is
  unverified and writes the password later; a login writes back the address it read
  at its start; writes by primary key land after the delete.
* `OAuthGrants!OneGrantPerApproval` in `OAuthGrants.cfg` with `MaxGrants = 2` and two
  processes (two replicas, or one that restarts): the code is exchanged again before
  the first exchange deletes the authorization request. `oauthstore.go:12` speaks of one
  grant per approval; the comment in `AuthRequestByCode` says that across replicas
  only the deletion ends a code.

Those of the newer modules are exceptions or preconditions of the properties checked:

* Organisations. `OrgInviteAccept` reads the role and sets it without `orgMu`, so that it
  may overwrite a role granted meanwhile, the last owner's too; the view's
  `SetUserDisabled` and `ensureMember` race in the same way; the admin API bypasses the
  guard; and `orgMu` is local, so that two replicas can take the last owner. Removing a
  member leaves the pending invitations to that address. Over SQL, groups and API keys of
  an organisation that is deleted between the check and the creation are left behind.
* Groups of an organisation. Rows of former members come from adds that overlap the
  removal (`late`), and work again when the person comes back. `adminAddMember`, the
  installation's verb, does not look at the scope of the group.
* SCIM. The ETag is compared before the writes; `createUser` may rebind a row that was made
  after its look-up (the comment at `scim.go:359-363` says that this is what the look-up
  prevents); `putUser` may re-create a row that was deleted; disabling over the
  installation's SCIM does not revoke sessions.
* LDAP. An entry that lost its uid or address counts as missing although the search
  returned it; a user who comes back to LDAP is not enabled again; a user whose row was
  bound to another subject after the list is disabled all the same.
* Keys. `keySkew` equals `keyRefresh`, so that the floor of the grace time covers a copy
  read less than `keyRefresh` ago and no older one. `keysAt` is advanced before the copy is
  read again: after a failed reload, and for callers that arrive while another one reloads
  after an idle time, the copy in use is older, and a token may outlive the publication of
  its key by as much (`keys.go:25-26` and `158-160` speak of no such case). With `Slow = TRUE`
  a slow store has the same effect.

## Not modelled, and why

* Tokens, signatures, password hashes, WebAuthn ceremonies and the protocols of the
  social providers: cryptography and external services. The models take their
  verdicts.
* A store that is unreachable when the gate asks (`sessionRevoked` lets the request
  pass, as documented in `sessions.go`).
* Several processes over one SQL store, for locks that are local to a process
  (`credMu`, the limiter): documented trade-offs of the code. `Orgs` has processes, with
  the guard stated for one.
* API keys and the filters and paging of SCIM: reads and validation.
* Overlapping runs of `Sync`: the host starts them one after the other.
* Mail, formatting, configuration: no state.
* The components marked `not_modelled` in `PROJECT.json`; see the plan.

## Plan

Done: `Sessions` with `SessionAbs`, `TwoFactor`, `Accounts`, `EmailOTP`, `Throttle`,
`OAuthGrants`, `SigningKeys`, `Orgs`, `Directory`; theorems for every safety and
action property of the runs.

Next, in this order:

1. `Gate`: CSRF tokens, scopes of API keys, freshness of the step-up cookie.
2. The API keys of `directory.go` and client registration of the provider: little state,
   mostly validation of input.
3. The exceptions recorded in histories (`bypassed`, `late`, `overlap`) as theorems of their
   own: when each of them can be empty.
