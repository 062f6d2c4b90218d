------------------------------ MODULE Sessions ------------------------------
(***************************************************************************)
(* The session life cycle of the authx engine over a SessionStore: logins   *)
(* that mint a signed cookie and record it server-side, the handlers that   *)
(* revoke sessions, and the gate that accepts or refuses a cookie.          *)
(*                                                                          *)
(* Every HTTP request runs in a goroutine of its own and each store call is *)
(* atomic (one mutex, or one SQL statement), so a handler is a sequence of  *)
(* steps, one per store call, interleaved with the steps of the other       *)
(* requests.  A user is named by its e-mail address, which is fixed here;   *)
(* the row behind it has a subject (that of the local account or that of    *)
(* the OIDC identity) and a primary key, its generation.                    *)
(***************************************************************************)
EXTENDS Integers, FiniteSets

CONSTANTS
    Users,            \* e-mail addresses
    Requests,         \* slots for requests in flight
    Sids,             \* session ids (randToken)
    sessionTTL,
    rememberTTL,
    impersonationTTL,
    twoFactorPendingTTL,
    MaxTime,          \* bound on the clock
    MaxSeq,           \* bound on the rows ever created
    OIDC,             \* is an OIDC issuer configured (Enabled())
    None,             \* no row, no record, no cookie
    Durable,          \* does the store survive a restart (gormstore, not memory)
    RecordFaults,     \* may RecordSession fail
    RevokeFaults,     \* may RevokeAllForUser fail
    LookupFaults      \* may UserBySub or TOTP fail inside completeLogin

ASSUME ConstantsAssumption ==
    /\ Users # {}
    /\ sessionTTL \in Nat
    /\ rememberTTL \in Nat
    /\ impersonationTTL \in Nat
    /\ twoFactorPendingTTL \in Nat
    /\ MaxTime \in Nat
    /\ MaxSeq \in Nat
    /\ OIDC \in BOOLEAN
    /\ Durable \in BOOLEAN
    /\ RecordFaults \in BOOLEAN
    /\ RevokeFaults \in BOOLEAN
    /\ LookupFaults \in BOOLEAN


VARIABLES
    now,        \* the clock
    row,        \* user rows by address
    sess,       \* the session store, by SID
    cookie,     \* the session cookies ever issued; a holder may keep a copy
    pending,    \* the 2fa-pending cookies issued and not expired
    req,        \* requests in flight
    seq,        \* the last primary key handed out
    cut         \* history: users whose off-boarding a restart cut short

vars == <<now, row, sess, cookie, pending, req, seq, cut>>

-----------------------------------------------------------------------------
(* Data *)

TTLs == {sessionTTL, rememberTTL}      \* without and with "remember me"
Subs == {"local", "oidc"}
Forever == MaxTime + 1
NoGen == -1                     \* UserID "": not tied to a stored row
Gens == 0 .. MaxSeq

Row == [gen : Gens, sub : Subs, disabled : BOOLEAN, banUntil : 0 .. Forever,
        totp : BOOLEAN]

\* SessionRecord: subject, user id, expiry and the tombstone.
SessionRecord ==
    [user : Users, sub : Subs, gen : Gens \cup {NoGen}, exp : Nat,
     revoked : BOOLEAN]

Kinds == {"login", "2fa", "oidc", "imp"}

\* SessionClaims as far as the gate reads them.  overlap and startBlocked are
\* history: whether an off-boarding of the user ran while the login was under
\* way, and whether the user was blocked when it started.
SessionClaims ==
    [user : Users, sub : Subs, exp : Nat, kind : Kinds,
     overlap : BOOLEAN, startBlocked : BOOLEAN]

PendingClaims == [user : Users, sub : Subs, exp : Nat, ttl : Nat]

PCs == {"idle", "authorize", "resolve", "factor", "second", "presolve",
        "record", "readSub", "delete", "revokeAll", "revokeUser", "revokeEach"}

Request ==
    [pc : PCs, user : Users, sub : Subs, gen : Gens \cup {NoGen},
     kind : Kinds, exp : Nat, ttl : Nat, todo : SUBSET Sids,
     overlap : BOOLEAN, startBlocked : BOOLEAN]

\* None is no row, record or claim.
ASSUME NoneAssumption == None \notin Row \cup SessionRecord \cup SessionClaims

AnyUser == CHOOSE u \in Users : TRUE

Idle == [pc |-> "idle", user |-> AnyUser, sub |-> "local", gen |-> NoGen,
         kind |-> "login", exp |-> 0, ttl |-> 0, todo |-> {},
         overlap |-> FALSE, startBlocked |-> FALSE]

Exists(u) == row[u] # None

\* AuthUser.loginBlocked: the disabled switch, or a ban that has not lapsed.
loginBlocked(u) ==
    /\ Exists(u)
    /\ row[u].disabled \/ now < row[u].banUntil

\* UserBySub finds the row of u under the subject sub.
HasSub(u, sub) == Exists(u) /\ row[u].sub = sub

-----------------------------------------------------------------------------
(* The session store *)

\* An expired row may go: its cookie is refused on exp already.  The memory
\* store drops such rows whenever it records; the SQL store leaves that to a
\* periodic DELETE (PruneExpired).
pruneSessions(st) ==
    [s \in Sids |-> IF st[s] # None /\ st[s].exp < now THEN None ELSE st[s]]

\* Mutant: the row of a "remember me" session gets the default lifetime.
RecordSessionShort(s, rec) ==
    sess' = [IF Durable THEN sess ELSE pruneSessions(sess)
                EXCEPT ![s] = [rec EXCEPT !.exp = now + sessionTTL]]

RecordSession(s, rec) ==
    sess' = [IF Durable THEN sess ELSE pruneSessions(sess) EXCEPT ![s] = rec]

\* Mutant: an unknown session id is taken for one that was never revoked.
IsRevokedUnknownOK(s) == sess[s] # None /\ sess[s].revoked

\* A session id the store does not know counts as revoked.
IsRevoked(s) == sess[s] = None \/ sess[s].revoked

Tombstone(S) ==
    [s \in Sids |-> IF s \in S /\ sess[s] # None
                    THEN [sess[s] EXCEPT !.revoked = TRUE] ELSE sess[s]]

RevokeSession(s) == sess' = Tombstone({s})

RevokeAllForUser(u, sub) ==
    sess' = Tombstone({s \in Sids : sess[s] # None /\ sess[s].user = u
                                                   /\ sess[s].sub = sub})

ListSessionsForUser(u, sub) ==
    {s \in Sids : /\ sess[s] # None
                  /\ sess[s].user = u /\ sess[s].sub = sub
                  /\ ~sess[s].revoked
                  /\ now < sess[s].exp}

\* sessionOf / GateHTTP: signature and expiry, then server-side revocation.
Live(s) == cookie[s] # None /\ now < cookie[s].exp /\ ~IsRevoked(s)

-----------------------------------------------------------------------------
(* Requests *)

Begin(r, fields) ==
    /\ req[r].pc = "idle"
    /\ req' = [req EXCEPT ![r] = fields]

Goto(r, pc) == req' = [req EXCEPT ![r].pc = pc]

Finish(r) == req' = [req EXCEPT ![r] = Idle]

\* While the handler that blocked or deleted u still has to revoke.
Offboarding(u) ==
    \E r \in Requests : req[r].user = u /\ req[r].pc \in {"readSub", "revokeAll"}

\* mintSessionWith: the cookie's exp counts from here, and the record is next.
mintSessionWith(rq) == [rq EXCEPT !.pc = "record", !.exp = now + rq.ttl]

\* History: an off-boarding of u now overlaps the requests for u in flight.
MarkOverlap(rq, u) ==
    [r \in Requests |-> IF rq[r].pc # "idle" /\ rq[r].user = u
                        THEN [rq[r] EXCEPT !.overlap = TRUE] ELSE rq[r]]

\* Any in-app method (password, passkey, link, code, social) has proved its
\* factor, resolved the user and applied the loginBlocked gate.
Login(r, u) ==
    /\ Exists(u)
    /\ ~loginBlocked(u)
    /\ \E ttl \in TTLs :
          Begin(r, [Idle EXCEPT !.pc = "authorize", !.user = u, !.ttl = ttl,
                                !.sub = row[u].sub,
                                !.startBlocked = loginBlocked(u)])
    /\ UNCHANGED <<now, row, sess, cookie, pending, seq, cut>>

\* UpsertUserOnLogin with a proven address: found by subject, else the verified
\* row of the address is bound to this subject, else a row is created.
UpsertUserOnLogin(u, sub) ==
    \/ /\ Exists(u)
       /\ row' = [row EXCEPT ![u].sub = sub]
       /\ UNCHANGED seq
    \/ /\ ~Exists(u)
       /\ seq < MaxSeq
       /\ seq' = seq + 1
       /\ row' = [row EXCEPT ![u] = [gen |-> seq', sub |-> sub, disabled |-> FALSE,
                                     banUntil |-> 0, totp |-> FALSE]]

\* completeLogin: the Authorizer runs with the identity read at the lookup.
Authorize(r) ==
    /\ req[r].pc = "authorize"
    /\ UpsertUserOnLogin(req[r].user, req[r].sub)
    /\ Goto(r, "resolve")
    /\ UNCHANGED <<now, sess, cookie, pending, cut>>

\* completeLogin: UserBySub; a miss or a failed call leaves the user nil, and
\* the login goes on without a user id and without the second-factor gate.
Resolve(r) ==
    /\ req[r].pc = "resolve"
    /\ LET u == req[r].user
       IN  \/ /\ HasSub(u, req[r].sub)
              /\ req' = [req EXCEPT ![r].pc = "factor", ![r].gen = row[u].gen]
           \/ /\ LookupFaults \/ ~HasSub(u, req[r].sub)
              /\ req' = [req EXCEPT ![r] = mintSessionWith(@)]
    /\ UNCHANGED <<now, row, sess, cookie, pending, seq, cut>>

\* Mutant: the pending cookie is set and the login goes on to the session.
FactorGateNoHalt(r) ==
    /\ req[r].pc = "factor"
    /\ pending' = pending \cup {[user |-> req[r].user, sub |-> req[r].sub,
                                 exp |-> now + twoFactorPendingTTL, ttl |-> req[r].ttl]}
    /\ req' = [req EXCEPT ![r] = mintSessionWith(@)]
    /\ UNCHANGED <<now, row, sess, cookie, seq, cut>>

\* completeLogin: userHasTOTP halts the login with a 2fa-pending cookie.
FactorGate(r) ==
    /\ req[r].pc = "factor"
    /\ LET u == req[r].user
           p == [user |-> u, sub |-> req[r].sub, exp |-> now + twoFactorPendingTTL,
                 ttl |-> req[r].ttl]
           has == Exists(u) /\ row[u].gen = req[r].gen /\ row[u].totp
       IN  \/ has /\ pending' = pending \cup {p} /\ Finish(r)
           \/ /\ LookupFaults \/ ~has
              /\ req' = [req EXCEPT ![r] = mintSessionWith(@)]
              /\ UNCHANGED pending
    /\ UNCHANGED <<now, row, sess, cookie, seq, cut>>

\* Mutant: a ban between the two factors goes unnoticed.
TwoFactorVerifyUngated(r, p) ==
    /\ now < p.exp
    /\ HasSub(p.user, p.sub)
    /\ Begin(r, [Idle EXCEPT !.pc = "second", !.user = p.user, !.sub = p.sub,
                             !.gen = row[p.user].gen, !.kind = "2fa", !.ttl = p.ttl])
    /\ UNCHANGED <<now, row, sess, cookie, pending, seq, cut>>

\* TwoFactorVerify: the pending cookie still names a user who may sign in.
TwoFactorVerify(r, p) ==
    /\ now < p.exp
    /\ HasSub(p.user, p.sub)
    /\ ~loginBlocked(p.user)
    /\ Begin(r, [Idle EXCEPT !.pc = "second", !.user = p.user, !.sub = p.sub,
                             !.gen = row[p.user].gen, !.kind = "2fa", !.ttl = p.ttl,
                             !.startBlocked = loginBlocked(p.user)])
    /\ UNCHANGED <<now, row, sess, cookie, pending, seq, cut>>

\* TwoFactorVerify: TOTP must still be enabled and the code right.
SecondFactor(r) ==
    /\ req[r].pc = "second"
    /\ LET u == req[r].user
       IN  \/ Exists(u) /\ row[u].gen = req[r].gen /\ row[u].totp /\ Goto(r, "presolve")
           \/ Finish(r)
    /\ UNCHANGED <<now, row, sess, cookie, pending, seq, cut>>

\* TwoFactorWebauthnFinish: a passkey as the second factor; no TOTP state is read.
TwoFactorWebauthnFinish(r, p) ==
    /\ now < p.exp
    /\ HasSub(p.user, p.sub)
    /\ ~loginBlocked(p.user)
    /\ Begin(r, [Idle EXCEPT !.pc = "presolve", !.user = p.user, !.sub = p.sub,
                             !.kind = "2fa", !.ttl = p.ttl,
                             !.startBlocked = loginBlocked(p.user)])
    /\ UNCHANGED <<now, row, sess, cookie, pending, seq, cut>>

\* completePendingLogin: UserBySub once more, for the record's user id.
PendingResolve(r) ==
    /\ req[r].pc = "presolve"
    /\ LET u == req[r].user
           gen == IF HasSub(u, req[r].sub) THEN row[u].gen ELSE NoGen
       IN  req' = [req EXCEPT ![r] = mintSessionWith([@ EXCEPT !.gen = gen])]
    /\ UNCHANGED <<now, row, sess, cookie, pending, seq, cut>>

\* Callback: the OIDC login; its session has no user id.
Callback(r, u) ==
    /\ OIDC
    /\ Begin(r, mintSessionWith([Idle EXCEPT !.user = u, !.sub = "oidc",
                                             !.kind = "oidc", !.ttl = sessionTTL,
                                             !.startBlocked = loginBlocked(u)]))
    /\ UpsertUserOnLogin(u, "oidc")
    /\ UNCHANGED <<now, sess, cookie, pending, cut>>

\* adminImpersonate: no loginBlocked gate, by design.
Impersonate(r, u) ==
    /\ Exists(u)
    /\ Begin(r, mintSessionWith([Idle EXCEPT !.user = u, !.sub = row[u].sub,
                                             !.gen = row[u].gen, !.kind = "imp",
                                             !.ttl = impersonationTTL]))
    /\ UNCHANGED <<now, row, sess, cookie, pending, seq, cut>>

\* Mutant: a lost write does not stop the login.
RecordBestEffort(r) ==
    /\ req[r].pc = "record"
    /\ \E s \in Sids :
          /\ cookie[s] = None
          /\ cookie' = [cookie EXCEPT ![s] =
                           [user |-> req[r].user, sub |-> req[r].sub,
                            exp |-> req[r].exp, kind |-> req[r].kind,
                            overlap |-> req[r].overlap,
                            startBlocked |-> req[r].startBlocked]]
          /\ \/ RecordFaults /\ UNCHANGED sess
             \/ RecordSession(s, [user |-> req[r].user, sub |-> req[r].sub,
                                  gen |-> req[r].gen, exp |-> now + req[r].ttl,
                                  revoked |-> FALSE])
    /\ Finish(r)
    /\ UNCHANGED <<now, row, pending, seq, cut>>

\* recordSession, then setCookie: a lost write fails the login.
Record(r) ==
    /\ req[r].pc = "record"
    /\ \/ \E s \in Sids :
             /\ cookie[s] = None
             /\ RecordSession(s, [user |-> req[r].user, sub |-> req[r].sub,
                                  gen |-> req[r].gen, exp |-> now + req[r].ttl,
                                  revoked |-> FALSE])
             /\ cookie' = [cookie EXCEPT ![s] =
                              [user |-> req[r].user, sub |-> req[r].sub,
                               exp |-> req[r].exp, kind |-> req[r].kind,
                               overlap |-> req[r].overlap,
                               startBlocked |-> req[r].startBlocked]]
       \/ /\ RecordFaults
          /\ UNCHANGED <<sess, cookie>>
    /\ Finish(r)
    /\ UNCHANGED <<now, row, pending, seq, cut>>

-----------------------------------------------------------------------------
(* Off-boarding and revocation *)

\* adminSetBan / adminSetDisabled, first call: the row is blocked.
SetBlocked(r, u, newRow) ==
    /\ req[r].pc = "idle"
    /\ Exists(u)
    /\ row' = [row EXCEPT ![u] = newRow]
    /\ req' = [MarkOverlap(req, u) EXCEPT ![r] = [Idle EXCEPT !.pc = "readSub", !.user = u]]
    /\ UNCHANGED <<now, sess, cookie, pending, seq, cut>>

adminSetBan(r, u) ==
    \E until \in now .. Forever : SetBlocked(r, u, [row[u] EXCEPT !.banUntil = until])

\* Mutant: disabling leaves the live sessions to run out.
adminSetDisabledOnly(r, u) ==
    /\ req[r].pc = "idle"
    /\ Exists(u)
    /\ row' = [row EXCEPT ![u].disabled = TRUE]
    /\ req' = MarkOverlap(req, u)
    /\ UNCHANGED <<now, sess, cookie, pending, seq, cut>>

adminSetDisabled(r, u) == SetBlocked(r, u, [row[u] EXCEPT !.disabled = TRUE])

\* Mutant: lifting a ban gives the sessions back that it revoked.
adminUnblockRestores(u) ==
    /\ Exists(u)
    /\ ~row[u].disabled
    /\ row' = [row EXCEPT ![u].banUntil = 0]
    /\ sess' = [s \in Sids |-> IF sess[s] # None /\ sess[s].user = u
                               THEN [sess[s] EXCEPT !.revoked = FALSE] ELSE sess[s]]
    /\ UNCHANGED <<now, cookie, pending, req, seq, cut>>

\* The same handlers with banned / disabled false, which revoke nothing.
adminUnblock(u) ==
    /\ Exists(u)
    /\ \/ row' = [row EXCEPT ![u].banUntil = 0]
       \/ row' = [row EXCEPT ![u].disabled = FALSE]
    /\ UNCHANGED <<now, sess, cookie, pending, req, seq, cut>>

\* UserByID after the block: the subject whose sessions go.
ReadSub(r) ==
    /\ req[r].pc = "readSub"
    /\ LET u == req[r].user
       IN  IF Exists(u)
           THEN req' = [req EXCEPT ![r].pc = "revokeAll", ![r].sub = row[u].sub]
           ELSE Finish(r)
    /\ UNCHANGED <<now, row, sess, cookie, pending, seq, cut>>

\* adminDeleteUser / AccountDelete: the user is read, then deleted by id.
DeleteStart(r, u) ==
    /\ Exists(u)
    /\ Begin(r, [Idle EXCEPT !.pc = "delete", !.user = u, !.sub = row[u].sub,
                             !.gen = row[u].gen])
    /\ UNCHANGED <<now, row, sess, cookie, pending, seq, cut>>

\* DeleteUser: the cascade removes the row and tombstones its sessions by id.
DeleteUser(r) ==
    /\ req[r].pc = "delete"
    /\ LET u == req[r].user
       IN  /\ row' = IF Exists(u) /\ row[u].gen = req[r].gen
                     THEN [row EXCEPT ![u] = None] ELSE row
           /\ sess' = Tombstone({s \in Sids : sess[s] # None /\ sess[s].user = u
                                                /\ sess[s].gen = req[r].gen})
           /\ req' = [MarkOverlap(req, u) EXCEPT ![r].pc = "revokeAll"]
    /\ UNCHANGED <<now, cookie, pending, seq, cut>>

\* adminRevokeUserSessions: the user is read for the subject; the row stays.
adminRevokeUserSessions(r, u) ==
    /\ Exists(u)
    /\ Begin(r, [Idle EXCEPT !.pc = "revokeUser", !.user = u, !.sub = row[u].sub])
    /\ UNCHANGED <<now, row, sess, cookie, pending, seq, cut>>

\* RevokeAllForUser with the subject read before.
RevokeAll(r) ==
    /\ req[r].pc \in {"revokeAll", "revokeUser"}
    /\ \/ RevokeAllForUser(req[r].user, req[r].sub)
       \/ RevokeFaults /\ UNCHANGED sess          \* the error is dropped
    /\ Finish(r)
    /\ cut' = cut \ {req[r].user}
    /\ UNCHANGED <<now, row, cookie, pending, seq>>

\* Logout and StopImpersonating revoke the session they were called with.
Logout(s) ==
    /\ cookie[s] # None /\ now < cookie[s].exp
    /\ RevokeSession(s)
    /\ UNCHANGED <<now, row, cookie, pending, req, seq, cut>>

\* SessionRevoke and SessionRevokeOthers, first call: the caller's sessions.
SessionRevokeList(r, s) ==
    /\ Live(s)
    /\ LET mine == ListSessionsForUser(cookie[s].user, cookie[s].sub)
       IN  \E todo \in {mine \ {s}} \cup {{t} : t \in mine} :
              Begin(r, [Idle EXCEPT !.pc = "revokeEach", !.user = cookie[s].user,
                                    !.sub = cookie[s].sub, !.todo = todo])
    /\ UNCHANGED <<now, row, sess, cookie, pending, seq, cut>>

SessionRevokeEach(r) ==
    /\ req[r].pc = "revokeEach"
    /\ \/ \E s \in req[r].todo :
             /\ RevokeSession(s)
             /\ req' = [req EXCEPT ![r].todo = @ \ {s}]
       \/ req[r].todo = {} /\ Finish(r) /\ UNCHANGED sess
    /\ UNCHANGED <<now, row, cookie, pending, seq, cut>>

-----------------------------------------------------------------------------
(* Time and restarts *)

\* The out-of-band DELETE ... WHERE expires_at < now on the SQL table.
PruneExpired ==
    /\ Durable
    /\ sess' = pruneSessions(sess)
    /\ UNCHANGED <<now, row, cookie, pending, req, seq, cut>>

\* An expired 2fa-pending cookie is of no more use and is forgotten.
Tick ==
    /\ now < MaxTime
    /\ now' = now + 1
    /\ pending' = {p \in pending : now' < p.exp}
    /\ UNCHANGED <<row, sess, cookie, req, seq, cut>>

\* A restart drops the requests in flight, and the in-memory store with them.
Restart ==
    /\ req' = [r \in Requests |-> Idle]
    /\ IF Durable THEN UNCHANGED <<row, sess, seq>>
                  ELSE /\ row' = [u \in Users |-> None]
                       /\ sess' = [s \in Sids |-> None]
                       /\ seq' = 0
    /\ cut' = cut \cup {u \in Users : Offboarding(u)}
    /\ UNCHANGED <<now, cookie, pending>>

Init ==
    /\ now = 0
    /\ \E enrolled \in SUBSET Users :
          row = [u \in Users |-> [gen |-> 0, sub |-> "local", disabled |-> FALSE,
                                  banUntil |-> 0, totp |-> u \in enrolled]]
    /\ sess = [s \in Sids |-> None]
    /\ cookie = [s \in Sids |-> None]
    /\ pending = {}
    /\ req = [r \in Requests |-> Idle]
    /\ seq = 0
    /\ cut = {}

LoginStep(r) ==
    \/ \E u \in Users : Login(r, u) \/ Callback(r, u) \/ Impersonate(r, u)
    \/ \E p \in pending : TwoFactorVerify(r, p) \/ TwoFactorWebauthnFinish(r, p)
    \/ Authorize(r) \/ Resolve(r) \/ FactorGate(r) \/ SecondFactor(r)
    \/ PendingResolve(r) \/ Record(r)

RevokeStep(r) ==
    \/ \E u \in Users : \/ adminSetBan(r, u) \/ adminSetDisabled(r, u)
                        \/ DeleteStart(r, u) \/ adminRevokeUserSessions(r, u)
    \/ ReadSub(r) \/ DeleteUser(r) \/ RevokeAll(r)
    \/ \E s \in Sids : SessionRevokeList(r, s)
    \/ SessionRevokeEach(r)

Next ==
    \/ \E r \in Requests : LoginStep(r) \/ RevokeStep(r)
    \/ \E u \in Users : adminUnblock(u)
    \/ \E s \in Sids : Logout(s)
    \/ PruneExpired
    \/ Tick
    \/ Restart

Spec == Init /\ [][Next]_vars

-----------------------------------------------------------------------------
(* Properties *)

\* Type correctness of the session store, the cookies and the requests.
TypeOK ==
    /\ now \in 0 .. MaxTime
    /\ seq \in Gens
    /\ row \in [Users -> Row \cup {None}]
    /\ sess \in [Sids -> SessionRecord \cup {None}]
    /\ cookie \in [Sids -> SessionClaims \cup {None}]
    /\ pending \subseteq PendingClaims
    /\ req \in [Requests -> Request]
    /\ cut \subseteq Users

\* What the gate makes of the cookie with this session id.
GateStatus ==
    [s \in Sids |-> IF cookie[s] = None THEN "unissued"
                    ELSE IF Live(s) THEN "accepted" ELSE "refused"]

Abs == INSTANCE SessionAbs WITH status <- GateStatus

\* A cookie that the gate refuses is refused for ever: logging out, revoking,
\* banning or deleting is never undone by pruning, by an unknown id or by a
\* restart of the store (sessions.go: IsRevoked is true for an unknown SID).
\* Stated as refinement: the session layer implements SessionAbs.
ImplementsSessionAbs == Abs!Spec

\* A record expires no earlier than the cookie it stands for, although the two
\* clocks are read one after the other: pruning never forgets a session that a
\* cookie still claims.  A request about to record has not overrun its lifetime.
RecordOutlivesCookie ==
    /\ \A s \in Sids : cookie[s] # None /\ sess[s] # None => cookie[s].exp <= sess[s].exp
    /\ \A r \in Requests : req[r].pc = "record" => req[r].exp <= now + req[r].ttl

\* On a durable store a login never yields a cookie that the gate refuses by
\* itself: an unexpired cookie has its record, so only an explicit revocation
\* ends the session (recordSession runs before setCookie and its clock is read
\* later, so pruning cannot drop the row of a cookie still in date).
UnexpiredCookieIsRecorded ==
    \A s \in Sids : cookie[s] # None /\ now < cookie[s].exp => sess[s] # None

\* Once a ban, disable or delete has answered, a session of that user that is
\* still accepted belongs to a login that was under way at that moment; every
\* earlier session is revoked and every later login is refused.  An admin may
\* impersonate a blocked user, never a deleted one.
OffboardedUnlessOverlapping ==
    \A s \in Sids :
        /\ Live(s)
        /\ \/ ~Exists(cookie[s].user)
           \/ loginBlocked(cookie[s].user) /\ cookie[s].kind # "imp"
        => \/ cookie[s].overlap
           \/ Offboarding(cookie[s].user)
           \/ cookie[s].user \in cut

\* The stronger reading, of the comments in admin.go and admin_users.go: when
\* the handler that disabled or banned a user is done, no session of a login by
\* that user is accepted.
OffboardedAtOnce ==
    \A s \in Sids :
        /\ Live(s)
        /\ loginBlocked(cookie[s].user)
        /\ cookie[s].kind # "imp"
        => Offboarding(cookie[s].user) \/ cookie[s].user \in cut

\* Every session of the user is cut, whatever subject it was issued under (the
\* sessions of logins that began while blocked set aside).
OffboardedUnderEverySubject ==
    \A s \in Sids :
        /\ Live(s)
        /\ ~cookie[s].startBlocked
        /\ \/ ~Exists(cookie[s].user)
           \/ loginBlocked(cookie[s].user) /\ cookie[s].kind # "imp"
        => \/ cookie[s].overlap
           \/ Offboarding(cookie[s].user)
           \/ cookie[s].user \in cut

\* No login that starts while the user is blocked ends in a session: each method
\* applies loginBlocked, and the second factor applies it again.
BlockedLoginYieldsNoSession ==
    \A s \in Sids : cookie[s] # None => ~cookie[s].startBlocked

\* A row with confirmed TOTP is never reached by a session whose login passed a
\* single factor.
SecondFactorKept ==
    \A s \in Sids :
        cookie[s] # None /\ cookie[s].kind \in {"login", "oidc"}
            => ~(Exists(cookie[s].user) /\ row[cookie[s].user].totp)

\* A deleted account does not come back by itself: with sign-up and OIDC out of
\* the picture, nothing re-creates a row that DeleteUser removed.
DeleteIsFinal ==
    [][\A u \in Users : row[u] = None => row'[u] = None]_vars
=============================================================================
