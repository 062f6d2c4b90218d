--------------------------- MODULE SessionsProofs ---------------------------
(***************************************************************************)
(* Proofs about Sessions, for every number of users, requests and sessions, *)
(* every lifetime and both kinds of store.                                  *)
(***************************************************************************)
EXTENDS Sessions, TLAPS

-----------------------------------------------------------------------------
(* Type correctness *)

\* The record of an idle request slot is well typed.
LEMMA IdleType == Idle \in Request
<1>1. AnyUser \in Users
  BY ConstantsAssumption DEF AnyUser
<1>. QED
  BY <1>1 DEF Idle, Request, PCs, Subs, Gens, NoGen, Kinds

\* mintSessionWith keeps a request well typed.
LEMMA MintType ==
    ASSUME now \in Nat, NEW rq \in Request
    PROVE  mintSessionWith(rq) \in Request
<1>1. rq.ttl \in Nat
  BY DEF Request
<1>2. now + rq.ttl \in Nat
  BY <1>1
<1>3. "record" \in PCs
  BY DEF PCs
<1>. QED
  BY <1>2, <1>3 DEF mintSessionWith, Request

\* Tombstoning never changes the type of the store.
LEMMA TombstoneType ==
    ASSUME sess \in [Sids -> SessionRecord \cup {None}], NEW S
    PROVE  Tombstone(S) \in [Sids -> SessionRecord \cup {None}]
BY DEF Tombstone, SessionRecord

\* Nor does pruning.
LEMMA PruneType ==
    ASSUME sess \in [Sids -> SessionRecord \cup {None}]
    PROVE  pruneSessions(sess) \in [Sids -> SessionRecord \cup {None}]
BY DEF pruneSessions

\* Marking the requests in flight keeps them well typed.
LEMMA MarkType ==
    ASSUME req \in [Requests -> Request], NEW u
    PROVE  MarkOverlap(req, u) \in [Requests -> Request]
BY DEF MarkOverlap, Request

\* UpsertUserOnLogin keeps rows and keys well typed.
LEMMA UpsertType ==
    ASSUME TypeOK, NEW u \in Users, NEW sub \in Subs, UpsertUserOnLogin(u, sub)
    PROVE  /\ row' \in [Users -> Row \cup {None}]
           /\ seq' \in Gens
<1>0. MaxSeq \in Nat /\ MaxTime \in Nat
  BY ConstantsAssumption
<1>1. CASE Exists(u) /\ row' = [row EXCEPT ![u].sub = sub] /\ UNCHANGED seq
  BY <1>1 DEF TypeOK, Exists, Row
<1>2. CASE /\ ~Exists(u)
           /\ seq < MaxSeq
           /\ seq' = seq + 1
           /\ row' = [row EXCEPT ![u] = [gen |-> seq', sub |-> sub,
                          disabled |-> FALSE, banUntil |-> 0, totp |-> FALSE]]
  <2>1. seq' \in Gens
    BY <1>0, <1>2 DEF TypeOK, Gens
  <2>2. 0 \in 0 .. Forever
    BY <1>0 DEF Forever
  <2>. QED
    BY <1>2, <2>1, <2>2 DEF TypeOK, Row
<1>. QED
  BY <1>1, <1>2 DEF UpsertUserOnLogin

\* TypeOK is inductive.
LEMMA TypeStep == TypeOK /\ [Next]_vars => TypeOK'
<1>. SUFFICES ASSUME TypeOK, [Next]_vars PROVE TypeOK'
  OBVIOUS
<1>0. now \in Nat
  BY ConstantsAssumption DEF TypeOK
<1>. USE IdleType, ConstantsAssumption
<1>1. ASSUME NEW r \in Requests, NEW u \in Users, Login(r, u) PROVE TypeOK'
  <2>1. row[u].sub \in Subs
    BY <1>1 DEF Login, Exists, TypeOK, Row
  <2>2. loginBlocked(u) \in BOOLEAN
    BY DEF loginBlocked, Exists
  <2>3. PICK ttl \in Nat :
          Begin(r, [Idle EXCEPT !.pc = "authorize", !.user = u, !.ttl = ttl,
                                !.sub = row[u].sub,
                                !.startBlocked = loginBlocked(u)])
    BY <1>1 DEF Login, TTLs
  <2>4. [Idle EXCEPT !.pc = "authorize", !.user = u, !.ttl = ttl, !.sub = row[u].sub,
                     !.startBlocked = loginBlocked(u)] \in Request
    BY <2>1, <2>2 DEF Request, PCs
  <2>. QED
    BY <1>1, <2>3, <2>4 DEF Login, Begin, TypeOK
<1>2. ASSUME NEW r \in Requests, Authorize(r) PROVE TypeOK'
  <2>1. req[r].user \in Users /\ req[r].sub \in Subs
    BY DEF TypeOK, Request
  <2>2. row' \in [Users -> Row \cup {None}] /\ seq' \in Gens
    BY <1>2, <2>1, UpsertType DEF Authorize
  <2>3. req' \in [Requests -> Request]
    <3>1. req[r] \in Request /\ "resolve" \in PCs
      BY DEF TypeOK, PCs
    <3>2. [req[r] EXCEPT !.pc = "resolve"] \in Request
      BY <3>1 DEF Request
    <3>. QED
      BY <1>2, <3>2 DEF Authorize, Goto, TypeOK
  <2>. QED
    BY <1>2, <2>2, <2>3 DEF Authorize, TypeOK
<1>3. ASSUME NEW r \in Requests, Resolve(r) PROVE TypeOK'
  <2>1. req' \in [Requests -> Request]
    BY <1>0, <1>3, MintType DEF Resolve, HasSub, Exists, TypeOK, Request, PCs, Row
  <2>. QED
    BY <1>3, <2>1 DEF Resolve, TypeOK
<1>4. ASSUME NEW r \in Requests, FactorGate(r) PROVE TypeOK'
  <2>1. req' \in [Requests -> Request]
    BY <1>0, <1>4, MintType DEF FactorGate, Finish, TypeOK
  <2>2. pending' \subseteq PendingClaims
    BY <1>0, <1>4 DEF FactorGate, TypeOK, Request, PendingClaims
  <2>. QED
    BY <1>4, <2>1, <2>2 DEF FactorGate, TypeOK
<1>5. ASSUME NEW r \in Requests, NEW p \in pending, TwoFactorVerify(r, p) PROVE TypeOK'
  <2>1. p \in PendingClaims /\ row[p.user].gen \in Gens
    BY <1>5 DEF TwoFactorVerify, HasSub, Exists, TypeOK, Row, PendingClaims
  <2>2. loginBlocked(p.user) \in BOOLEAN
    BY DEF loginBlocked, Exists
  <2>3. [Idle EXCEPT !.pc = "second", !.user = p.user, !.sub = p.sub,
                     !.gen = row[p.user].gen, !.kind = "2fa", !.ttl = p.ttl,
                     !.startBlocked = loginBlocked(p.user)] \in Request
    BY <2>1, <2>2 DEF PendingClaims, Request, PCs, Kinds
  <2>. QED
    BY <1>5, <2>3 DEF TwoFactorVerify, Begin, TypeOK
<1>5a. ASSUME NEW r \in Requests, NEW p \in pending, TwoFactorWebauthnFinish(r, p)
       PROVE  TypeOK'
  <2>1. p \in PendingClaims
    BY DEF TypeOK
  <2>2. loginBlocked(p.user) \in BOOLEAN
    BY DEF loginBlocked, Exists
  <2>3. [Idle EXCEPT !.pc = "presolve", !.user = p.user, !.sub = p.sub,
                     !.kind = "2fa", !.ttl = p.ttl,
                     !.startBlocked = loginBlocked(p.user)] \in Request
    BY <2>1, <2>2 DEF PendingClaims, Request, PCs, Kinds
  <2>. QED
    BY <1>5a, <2>3 DEF TwoFactorWebauthnFinish, Begin, TypeOK
<1>6. ASSUME NEW r \in Requests, SecondFactor(r) PROVE TypeOK'
  BY <1>6 DEF SecondFactor, Goto, Finish, TypeOK, Request, PCs
<1>7. ASSUME NEW r \in Requests, PendingResolve(r) PROVE TypeOK'
  <2>1. PICK g \in Gens \cup {NoGen} :
            req' = [req EXCEPT ![r] = mintSessionWith([@ EXCEPT !.gen = g])]
    BY <1>7 DEF PendingResolve, HasSub, Exists, TypeOK, Row, Request
  <2>2. [req[r] EXCEPT !.gen = g] \in Request
    BY DEF TypeOK, Request
  <2>3. req' \in [Requests -> Request]
    BY <1>0, <2>1, <2>2, MintType DEF TypeOK
  <2>. QED
    BY <1>7, <2>3 DEF PendingResolve, TypeOK
<1>8. ASSUME NEW r \in Requests, NEW u \in Users, Callback(r, u) PROVE TypeOK'
  <2>1. row' \in [Users -> Row \cup {None}] /\ seq' \in Gens
    BY <1>8, UpsertType DEF Callback, Subs
  <2>2. loginBlocked(u) \in BOOLEAN
    BY DEF loginBlocked, Exists
  <2>3. [Idle EXCEPT !.user = u, !.sub = "oidc", !.kind = "oidc", !.ttl = sessionTTL,
                     !.startBlocked = loginBlocked(u)] \in Request
    BY <2>2 DEF Request, Subs, Kinds
  <2>4. req' \in [Requests -> Request]
    BY <1>0, <1>8, <2>3, MintType DEF Callback, Begin, TypeOK
  <2>. QED
    BY <1>8, <2>1, <2>4 DEF Callback, TypeOK
<1>9. ASSUME NEW r \in Requests, NEW u \in Users, Impersonate(r, u) PROVE TypeOK'
  <2>1. [Idle EXCEPT !.user = u, !.sub = row[u].sub, !.gen = row[u].gen, !.kind = "imp",
                     !.ttl = impersonationTTL] \in Request
    BY <1>9 DEF Impersonate, Exists, TypeOK, Row, Request, Kinds
  <2>2. req' \in [Requests -> Request]
    BY <1>0, <1>9, <2>1, MintType DEF Impersonate, Begin, TypeOK
  <2>. QED
    BY <1>9, <2>2 DEF Impersonate, TypeOK
<1>10. ASSUME NEW r \in Requests, Record(r) PROVE TypeOK'
  <2>1. req' \in [Requests -> Request]
    BY <1>10 DEF Record, Finish, TypeOK
  <2>2. /\ sess' \in [Sids -> SessionRecord \cup {None}]
        /\ cookie' \in [Sids -> SessionClaims \cup {None}]
    <3>1. CASE RecordFaults /\ UNCHANGED <<sess, cookie>>
      BY <3>1 DEF TypeOK
    <3>2. CASE ~(RecordFaults /\ UNCHANGED <<sess, cookie>>)
      <4>1. PICK s \in Sids :
              /\ RecordSession(s, [user |-> req[r].user, sub |-> req[r].sub,
                                   gen |-> req[r].gen, exp |-> now + req[r].ttl,
                                   revoked |-> FALSE])
              /\ cookie' = [cookie EXCEPT ![s] =
                              [user |-> req[r].user, sub |-> req[r].sub,
                               exp |-> req[r].exp, kind |-> req[r].kind,
                               overlap |-> req[r].overlap,
                               startBlocked |-> req[r].startBlocked]]
        BY <1>10, <3>2 DEF Record
      <4>2. cookie' \in [Sids -> SessionClaims \cup {None}]
        BY <4>1 DEF TypeOK, Request, SessionClaims
      <4>3. sess' \in [Sids -> SessionRecord \cup {None}]
        BY <1>0, <4>1, PruneType DEF RecordSession, TypeOK, Request, SessionRecord
      <4>. QED
        BY <4>2, <4>3
    <3>. QED
      BY <3>1, <3>2
  <2>. QED
    BY <1>10, <2>1, <2>2 DEF Record, TypeOK
<1>11. ASSUME NEW r \in Requests, NEW u \in Users, NEW x \in Row, SetBlocked(r, u, x) PROVE TypeOK'
  <2>1. [Idle EXCEPT !.pc = "readSub", !.user = u] \in Request
    BY DEF Request, PCs
  <2>2. MarkOverlap(req, u) \in [Requests -> Request]
    BY MarkType DEF TypeOK
  <2>3. req' \in [Requests -> Request]
    BY <1>11, <2>1, <2>2 DEF SetBlocked
  <2>. QED
    BY <1>11, <2>3 DEF SetBlocked, TypeOK
<1>12. ASSUME NEW r \in Requests, NEW u \in Users, adminSetBan(r, u) PROVE TypeOK'
  <2>1. PICK until \in now .. Forever : SetBlocked(r, u, [row[u] EXCEPT !.banUntil = until])
    BY <1>12 DEF adminSetBan
  <2>2. until \in 0 .. Forever
    BY <1>0 DEF Forever
  <2>3. [row[u] EXCEPT !.banUntil = until] \in Row
    BY <2>1, <2>2 DEF SetBlocked, Exists, TypeOK, Row
  <2>. QED
    BY <1>11, <2>1, <2>3
<1>13. ASSUME NEW r \in Requests, NEW u \in Users, adminSetDisabled(r, u) PROVE TypeOK'
  <2>1. [row[u] EXCEPT !.disabled = TRUE] \in Row
    BY <1>13 DEF adminSetDisabled, SetBlocked, Exists, TypeOK, Row
  <2>. QED
    BY <1>11, <1>13, <2>1 DEF adminSetDisabled
<1>14. ASSUME NEW u \in Users, adminUnblock(u) PROVE TypeOK'
  <2>1. row[u] \in Row /\ 0 \in 0 .. Forever
    BY <1>14 DEF adminUnblock, Exists, TypeOK, Forever
  <2>2. /\ [row[u] EXCEPT !.banUntil = 0] \in Row
        /\ [row[u] EXCEPT !.disabled = FALSE] \in Row
    BY <2>1 DEF Row
  <2>3. row' \in [Users -> Row \cup {None}]
    BY <1>14, <2>2 DEF adminUnblock, TypeOK
  <2>. QED
    BY <1>14, <2>3 DEF adminUnblock, TypeOK
<1>15. ASSUME NEW r \in Requests, ReadSub(r) PROVE TypeOK'
  BY <1>15 DEF ReadSub, Finish, Exists, TypeOK, Row, Request, PCs
<1>16. ASSUME NEW r \in Requests, NEW u \in Users, DeleteStart(r, u) PROVE TypeOK'
  <2>1. [Idle EXCEPT !.pc = "delete", !.user = u, !.sub = row[u].sub,
                     !.gen = row[u].gen] \in Request
    BY <1>16 DEF DeleteStart, Exists, TypeOK, Row, Request, PCs
  <2>. QED
    BY <1>16, <2>1 DEF DeleteStart, Begin, TypeOK
<1>16a. ASSUME NEW r \in Requests, NEW u \in Users, adminRevokeUserSessions(r, u) PROVE TypeOK'
  <2>1. [Idle EXCEPT !.pc = "revokeUser", !.user = u, !.sub = row[u].sub] \in Request
    BY <1>16a DEF adminRevokeUserSessions, Exists, TypeOK, Row, Request, PCs
  <2>. QED
    BY <1>16a, <2>1 DEF adminRevokeUserSessions, Begin, TypeOK
<1>17. ASSUME NEW r \in Requests, DeleteUser(r) PROVE TypeOK'
  <2>1. req' \in [Requests -> Request]
    <3>1. MarkOverlap(req, req[r].user) \in [Requests -> Request]
      BY MarkType DEF TypeOK
    <3>2. [MarkOverlap(req, req[r].user)[r] EXCEPT !.pc = "revokeAll"] \in Request
      BY <3>1 DEF Request, PCs
    <3>. QED
      BY <1>17, <3>1, <3>2 DEF DeleteUser
  <2>2. sess' \in [Sids -> SessionRecord \cup {None}]
    BY <1>17, TombstoneType DEF DeleteUser, TypeOK
  <2>3. row' \in [Users -> Row \cup {None}]
    BY <1>17 DEF DeleteUser, TypeOK
  <2>. QED
    BY <1>17, <2>1, <2>2, <2>3 DEF DeleteUser, TypeOK
<1>18. ASSUME NEW r \in Requests, RevokeAll(r) PROVE TypeOK'
  <2>1. sess' \in [Sids -> SessionRecord \cup {None}]
    BY <1>18, TombstoneType DEF RevokeAll, RevokeAllForUser, TypeOK
  <2>. QED
    BY <1>18, <2>1 DEF RevokeAll, Finish, TypeOK
<1>19. ASSUME NEW s \in Sids, Logout(s) PROVE TypeOK'
  BY <1>19, TombstoneType DEF Logout, RevokeSession, TypeOK
<1>20. ASSUME NEW r \in Requests, NEW s \in Sids, SessionRevokeList(r, s) PROVE TypeOK'
  <2>1. cookie[s] \in SessionClaims
    BY <1>20 DEF SessionRevokeList, Live, TypeOK
  <2>2. PICK todo \in SUBSET Sids :
          Begin(r, [Idle EXCEPT !.pc = "revokeEach", !.user = cookie[s].user,
                                !.sub = cookie[s].sub, !.todo = todo])
    BY <1>20 DEF SessionRevokeList, ListSessionsForUser
  <2>. QED
    BY <1>20, <2>1, <2>2 DEF SessionRevokeList, Begin, TypeOK, SessionClaims, Request, PCs
<1>21. ASSUME NEW r \in Requests, SessionRevokeEach(r) PROVE TypeOK'
  <2>1. req' \in [Requests -> Request]
    BY <1>21 DEF SessionRevokeEach, Finish, TypeOK, Request
  <2>2. sess' \in [Sids -> SessionRecord \cup {None}]
    BY <1>21, TombstoneType DEF SessionRevokeEach, RevokeSession, TypeOK
  <2>. QED
    BY <1>21, <2>1, <2>2 DEF SessionRevokeEach, TypeOK
<1>22. ASSUME PruneExpired PROVE TypeOK'
  BY <1>22, PruneType DEF PruneExpired, TypeOK
<1>23. ASSUME Tick PROVE TypeOK'
  BY <1>23 DEF Tick, TypeOK
<1>24. ASSUME Restart PROVE TypeOK'
  <2>1. req' \in [Requests -> Request] /\ cut' \subseteq Users
    BY <1>24 DEF Restart, TypeOK
  <2>2. /\ row' \in [Users -> Row \cup {None}]
        /\ sess' \in [Sids -> SessionRecord \cup {None}]
        /\ seq' \in Gens
    BY <1>24 DEF Restart, TypeOK, Gens
  <2>. QED
    BY <1>24, <2>1, <2>2 DEF Restart, TypeOK
<1>25. ASSUME UNCHANGED vars PROVE TypeOK'
  BY <1>25 DEF vars, TypeOK
<1>. QED
  BY <1>1, <1>2, <1>3, <1>4, <1>5, <1>5a, <1>6, <1>7, <1>8, <1>9, <1>10, <1>12, <1>13,
     <1>14, <1>15, <1>16, <1>16a, <1>17, <1>18, <1>19, <1>20, <1>21, <1>22, <1>23, <1>24,
     <1>25 DEF Next, LoginStep, RevokeStep

\* Init establishes TypeOK.
LEMMA TypeInit == Init => TypeOK
<1>. SUFFICES ASSUME Init PROVE TypeOK
  OBVIOUS
<1>1. row \in [Users -> Row \cup {None}]
  BY ConstantsAssumption DEF Init, Row, Gens, Subs, Forever
<1>. QED
  BY <1>1, IdleType, ConstantsAssumption DEF Init, TypeOK, Gens

\* Every store call of every handler keeps the rows, the session records, the
\* cookies and the requests well typed, whatever the interleaving.
THEOREM TypeCorrect == Spec => []TypeOK
<1>. QED
  BY TypeInit, TypeStep, PTL DEF Spec

-----------------------------------------------------------------------------
(* Records and cookies *)

\* No step but Record adds a record, moves an expiry, gives a session to another
\* user or subject, or lifts a tombstone.
Shrinks ==
    \A s \in Sids : sess'[s] # None =>
        /\ sess[s] # None
        /\ sess'[s].user = sess[s].user
        /\ sess'[s].sub = sess[s].sub
        /\ sess'[s].exp = sess[s].exp
        /\ sess[s].revoked => sess'[s].revoked

\* What a step drops from the store had expired.
KeepsUnexpired ==
    \A s \in Sids : sess[s] # None /\ sess'[s] = None => sess[s].exp < now

\* Tombstoning shrinks the store and drops nothing.
LEMMA TombstoneShrinks ==
    ASSUME TypeOK, NEW S, sess' = Tombstone(S)
    PROVE  Shrinks /\ KeepsUnexpired
<1>. SUFFICES ASSUME NEW s \in Sids
              PROVE  /\ sess'[s] # None =>
                          /\ sess[s] # None
                          /\ sess'[s].user = sess[s].user
                          /\ sess'[s].sub = sess[s].sub
                          /\ sess'[s].exp = sess[s].exp
                          /\ sess[s].revoked => sess'[s].revoked
                     /\ sess[s] # None => sess'[s] # None
  BY DEF Shrinks, KeepsUnexpired
<1>1. sess'[s] = IF s \in S /\ sess[s] # None
                 THEN [sess[s] EXCEPT !.revoked = TRUE] ELSE sess[s]
  BY DEF Tombstone
<1>2. CASE s \in S /\ sess[s] # None
  <2>1. sess[s] \in SessionRecord
    BY <1>2 DEF TypeOK
  <2>2. /\ sess'[s] \in SessionRecord
        /\ sess'[s].user = sess[s].user
        /\ sess'[s].sub = sess[s].sub
        /\ sess'[s].exp = sess[s].exp
        /\ sess'[s].revoked
    BY <1>1, <1>2, <2>1 DEF SessionRecord
  <2>. QED
    BY <1>2, <2>2, NoneAssumption
<1>3. CASE ~(s \in S /\ sess[s] # None)
  BY <1>1, <1>3
<1>. QED
  BY <1>2, <1>3

\* Pruning shrinks the store and drops what has expired.
LEMMA PruneShrinks ==
    ASSUME TypeOK, sess' = pruneSessions(sess)
    PROVE  Shrinks /\ KeepsUnexpired
BY DEF pruneSessions, Shrinks, KeepsUnexpired

\* An unchanged store shrinks too.
LEMMA QuietShrinks ==
    ASSUME UNCHANGED sess
    PROVE  Shrinks /\ KeepsUnexpired
BY DEF Shrinks, KeepsUnexpired

\* What every step other than Record does to the store, the cookies and time.
LEMMA OtherStep ==
    ASSUME TypeOK, [Next]_vars, ~ \E r \in Requests : Record(r)
    PROVE  /\ cookie' = cookie
           /\ now <= now'
           /\ Shrinks
           /\ Durable => KeepsUnexpired
<1>0. now \in Nat
  BY ConstantsAssumption DEF TypeOK
<1>. DEFINE Goal == /\ cookie' = cookie
                    /\ now <= now'
                    /\ Shrinks
                    /\ Durable => KeepsUnexpired
<1>1. ASSUME UNCHANGED <<now, sess, cookie>> PROVE Goal
  BY <1>0, <1>1, QuietShrinks
<1>2. ASSUME UNCHANGED <<now, cookie>>, NEW S, sess' = Tombstone(S) PROVE Goal
  BY <1>0, <1>2, TombstoneShrinks
<1>3. ASSUME NEW r \in Requests, LoginStep(r) PROVE Goal
  <2>1. UNCHANGED <<now, sess, cookie>>
    BY <1>3 DEF LoginStep, Login, Callback, Impersonate, TwoFactorVerify,
                TwoFactorWebauthnFinish, Authorize,
                Resolve, FactorGate, SecondFactor, PendingResolve
  <2>. QED
    BY <1>1, <2>1
<1>4. ASSUME NEW r \in Requests, RevokeStep(r) PROVE Goal
  <2>1. CASE \/ \E u \in Users : \/ adminSetBan(r, u) \/ adminSetDisabled(r, u)
                                 \/ DeleteStart(r, u) \/ adminRevokeUserSessions(r, u)
             \/ ReadSub(r)
             \/ \E s \in Sids : SessionRevokeList(r, s)
    <3>1. UNCHANGED <<now, sess, cookie>>
      BY <2>1 DEF adminSetBan, adminSetDisabled, SetBlocked, DeleteStart,
                  adminRevokeUserSessions, ReadSub, SessionRevokeList
    <3>. QED
      BY <1>1, <3>1
  <2>2. CASE DeleteUser(r)
    BY <1>2, <2>2 DEF DeleteUser
  <2>3. CASE RevokeAll(r)
    BY <1>1, <1>2, <2>3 DEF RevokeAll, RevokeAllForUser
  <2>4. CASE SessionRevokeEach(r)
    BY <1>1, <1>2, <2>4 DEF SessionRevokeEach, RevokeSession
  <2>. QED
    BY <1>4, <2>1, <2>2, <2>3, <2>4 DEF RevokeStep
<1>5. ASSUME NEW u \in Users, adminUnblock(u) PROVE Goal
  BY <1>1, <1>5 DEF adminUnblock
<1>6. ASSUME NEW s \in Sids, Logout(s) PROVE Goal
  BY <1>2, <1>6 DEF Logout, RevokeSession
<1>7. ASSUME PruneExpired PROVE Goal
  BY <1>0, <1>7, PruneShrinks DEF PruneExpired
<1>8. ASSUME Tick PROVE Goal
  BY <1>0, <1>8, QuietShrinks DEF Tick
<1>9. ASSUME Restart PROVE Goal
  <2>1. CASE Durable
    BY <1>1, <1>9, <2>1 DEF Restart
  <2>2. CASE ~Durable
    <3>1. Shrinks
      BY <1>9, <2>2 DEF Restart, Shrinks
    <3>. QED
      BY <1>0, <1>9, <2>2, <3>1 DEF Restart
  <2>. QED
    BY <2>1, <2>2
<1>10. ASSUME UNCHANGED vars PROVE Goal
  BY <1>1, <1>10 DEF vars
<1>. QED
  BY <1>3, <1>4, <1>5, <1>6, <1>7, <1>8, <1>9, <1>10 DEF Next

\* What Record does: it changes nothing, or issues one fresh session whose
\* record lasts from now on, and drops expired records at most.
LEMMA RecordStep ==
    ASSUME TypeOK, RecordOutlivesCookie, NEW r \in Requests, Record(r)
    PROVE  /\ now' = now
           /\ \/ UNCHANGED <<sess, cookie>>
              \/ \E s \in Sids :
                    /\ cookie[s] = None
                    /\ cookie'[s] # None
                    /\ sess'[s] # None
                    /\ cookie'[s].exp <= sess'[s].exp
                    /\ cookie'[s].user = req[r].user /\ sess'[s].user = req[r].user
                    /\ cookie'[s].sub = req[r].sub /\ sess'[s].sub = req[r].sub
                    /\ cookie'[s].kind = req[r].kind
                    /\ cookie'[s].overlap = req[r].overlap
                    /\ \A t \in Sids \ {s} :
                          /\ cookie'[t] = cookie[t]
                          /\ \/ sess'[t] = sess[t]
                             \/ sess'[t] = None /\ sess[t] # None /\ sess[t].exp < now
<1>1. CASE RecordFaults /\ UNCHANGED <<sess, cookie>>
  BY <1>1 DEF Record
<1>2. CASE ~(RecordFaults /\ UNCHANGED <<sess, cookie>>)
  <2>. DEFINE rec == [user |-> req[r].user, sub |-> req[r].sub, gen |-> req[r].gen,
                      exp |-> now + req[r].ttl, revoked |-> FALSE]
              claims == [user |-> req[r].user, sub |-> req[r].sub,
                         exp |-> req[r].exp, kind |-> req[r].kind,
                         overlap |-> req[r].overlap,
                         startBlocked |-> req[r].startBlocked]
  <2>1. PICK s \in Sids : /\ cookie[s] = None
                          /\ RecordSession(s, rec)
                          /\ cookie' = [cookie EXCEPT ![s] = claims]
    BY <1>2 DEF Record
  <2>2. now \in Nat /\ req[r].ttl \in Nat /\ req[r] \in Request
    BY ConstantsAssumption DEF TypeOK, Request
  <2>3. rec \in SessionRecord /\ claims \in SessionClaims
    <3>1. now + req[r].ttl \in Nat
      BY <2>2
    <3>. QED
      BY <2>2, <3>1 DEF Request, SessionRecord, SessionClaims
  <2>4. sess'[s] = rec /\ cookie'[s] = claims
    BY <2>1, PruneType DEF RecordSession, TypeOK
  <2>5. /\ claims.exp <= rec.exp
        /\ claims.user = req[r].user /\ rec.user = req[r].user
        /\ claims.sub = req[r].sub /\ rec.sub = req[r].sub
        /\ claims.kind = req[r].kind
        /\ claims.overlap = req[r].overlap
    BY DEF Record, RecordOutlivesCookie
  <2>6. ASSUME NEW t \in Sids \ {s}
        PROVE  /\ cookie'[t] = cookie[t]
               /\ \/ sess'[t] = sess[t]
                  \/ sess'[t] = None /\ sess[t] # None /\ sess[t].exp < now
    BY <2>1 DEF RecordSession, pruneSessions, TypeOK
  <2>7. now' = now
    BY DEF Record
  <2>8. rec # None /\ claims # None
    BY <2>3, NoneAssumption
  <2>9. \E x \in Sids :
           /\ cookie[x] = None
           /\ cookie'[x] # None
           /\ sess'[x] # None
           /\ cookie'[x].exp <= sess'[x].exp
           /\ cookie'[x].user = req[r].user /\ sess'[x].user = req[r].user
           /\ cookie'[x].sub = req[r].sub /\ sess'[x].sub = req[r].sub
           /\ cookie'[x].kind = req[r].kind
           /\ cookie'[x].overlap = req[r].overlap
           /\ \A t \in Sids \ {x} :
                 /\ cookie'[t] = cookie[t]
                 /\ \/ sess'[t] = sess[t]
                    \/ sess'[t] = None /\ sess[t] # None /\ sess[t].exp < now
    <3>. HIDE DEF rec, claims
    <3>. QED
      BY <2>1, <2>4, <2>5, <2>6, <2>8
  <2>. QED
    BY <2>7, <2>9
<1>. QED
  BY <1>1, <1>2

\* The requests about to record stay within their lifetime.
LEMMA MintedInTime ==
    ASSUME TypeOK, RecordOutlivesCookie, [Next]_vars
    PROVE  \A r \in Requests : req'[r].pc = "record" => req'[r].exp <= now' + req'[r].ttl
<1>0. now \in Nat /\ \A r \in Requests : req[r].ttl \in Nat /\ req[r].exp \in Nat
  BY ConstantsAssumption DEF TypeOK, Request
<1>. DEFINE InTime(rq) == rq.pc = "record" => rq.exp <= now + rq.ttl
<1>1. \A r \in Requests : InTime(req[r])
  BY DEF RecordOutlivesCookie
<1>2. InTime(Idle) /\ Idle.pc = "idle"
  BY DEF Idle
<1>3. \A u : \A q \in Requests : InTime(MarkOverlap(req, u)[q])
  BY <1>1 DEF MarkOverlap, TypeOK, Request
<1>4. ASSUME NEW rq \in Request PROVE InTime(mintSessionWith(rq))
  <2>1. /\ mintSessionWith(rq).exp = now + rq.ttl
        /\ mintSessionWith(rq).ttl = rq.ttl
    BY DEF mintSessionWith, Request
  <2>. QED
    BY <1>0, <2>1 DEF Request
<1>. DEFINE Goal == \A q \in Requests : req'[q].pc = "record" => req'[q].exp <= now' + req'[q].ttl
<1>5. ASSUME UNCHANGED req, now <= now', now' \in Nat PROVE Goal
  BY <1>0, <1>1, <1>5
<1>6. ASSUME UNCHANGED now, NEW r \in Requests, NEW x, InTime(x),
             req' = [req EXCEPT ![r] = x]
      PROVE  Goal
  BY <1>1, <1>6 DEF TypeOK
<1>7. ASSUME UNCHANGED now, NEW r \in Requests, NEW u, NEW x, InTime(x),
             req' = [MarkOverlap(req, u) EXCEPT ![r] = x]
      PROVE  Goal
  BY <1>3, <1>7, MarkType DEF TypeOK
<1>7a. ASSUME UNCHANGED now, NEW r \in Requests, req'[r].pc # "record",
              \A q \in Requests \ {r} : InTime(req'[q])
       PROVE  Goal
  BY <1>7a
<1>8. ASSUME NEW r \in Requests, LoginStep(r) PROVE Goal
  <2>0. UNCHANGED now /\ req[r] \in Request
    BY <1>8 DEF LoginStep, Login, Callback, Impersonate, TwoFactorVerify,
                TwoFactorWebauthnFinish, Authorize,
                Resolve, FactorGate, SecondFactor, PendingResolve, Record, TypeOK
  <2>1. CASE \E u \in Users : Login(r, u)
    <3>1. req'[r].pc = "authorize" /\ \A q \in Requests \ {r} : req'[q] = req[q]
      BY <2>1 DEF Login, Begin, Idle, TypeOK
    <3>. QED
      BY <1>1, <1>7a, <2>0, <3>1
  <2>2. CASE \E u \in Users : Callback(r, u)
    <3>1. PICK u \in Users : Callback(r, u)
      BY <2>2
    <3>. DEFINE x == [Idle EXCEPT !.user = u, !.sub = "oidc", !.kind = "oidc",
                                  !.ttl = sessionTTL, !.startBlocked = loginBlocked(u)]
    <3>2. loginBlocked(u) \in BOOLEAN
      BY DEF loginBlocked, Exists
    <3>3. x \in Request
      BY <3>2, IdleType, ConstantsAssumption DEF Request, Subs, Kinds
    <3>4. req' = [req EXCEPT ![r] = mintSessionWith(x)]
      BY <3>1 DEF Callback, Begin
    <3>. QED
      BY <1>4, <1>6, <2>0, <3>3, <3>4
  <2>3. CASE \E u \in Users : Impersonate(r, u)
    <3>1. PICK u \in Users : Impersonate(r, u)
      BY <2>3
    <3>. DEFINE x == [Idle EXCEPT !.user = u, !.sub = row[u].sub, !.gen = row[u].gen,
                                  !.kind = "imp", !.ttl = impersonationTTL]
    <3>2. x \in Request
      BY <3>1, IdleType, ConstantsAssumption
      DEF Impersonate, Exists, TypeOK, Row, Request, Kinds
    <3>3. req' = [req EXCEPT ![r] = mintSessionWith(x)]
      BY <3>1 DEF Impersonate, Begin
    <3>. QED
      BY <1>4, <1>6, <2>0, <3>2, <3>3
  <2>4. CASE \E p \in pending : TwoFactorVerify(r, p)
    <3>1. req'[r].pc = "second" /\ \A q \in Requests \ {r} : req'[q] = req[q]
      BY <2>4 DEF TwoFactorVerify, Begin, Idle, TypeOK
    <3>. QED
      BY <1>1, <1>7a, <2>0, <3>1
  <2>4a. CASE \E p \in pending : TwoFactorWebauthnFinish(r, p)
    <3>1. req'[r].pc = "presolve" /\ \A q \in Requests \ {r} : req'[q] = req[q]
      BY <2>4a DEF TwoFactorWebauthnFinish, Begin, Idle, TypeOK
    <3>. QED
      BY <1>1, <1>7a, <2>0, <3>1
  <2>5. CASE Authorize(r)
    <3>1. req' = [req EXCEPT ![r] = [req[r] EXCEPT !.pc = "resolve"]]
      BY <2>5 DEF Authorize, Goto, TypeOK
    <3>2. [req[r] EXCEPT !.pc = "resolve"].pc = "resolve"
      BY <2>0 DEF Request
    <3>. QED
      BY <1>6, <2>0, <3>1, <3>2
  <2>6. CASE Resolve(r)
    <3>1. \/ req' = [req EXCEPT ![r] = mintSessionWith(req[r])]
          \/ \E x : req' = [req EXCEPT ![r] = x] /\ x.pc = "factor"
      BY <2>0, <2>6 DEF Resolve, TypeOK, Request
    <3>. QED
      BY <1>4, <1>6, <2>0, <3>1
  <2>7. CASE FactorGate(r)
    <3>1. \/ req' = [req EXCEPT ![r] = mintSessionWith(req[r])]
          \/ req' = [req EXCEPT ![r] = Idle]
      BY <2>7 DEF FactorGate, Finish
    <3>. QED
      BY <1>2, <1>4, <1>6, <2>0, <3>1
  <2>8. CASE SecondFactor(r)
    <3>1. \/ \E x : req' = [req EXCEPT ![r] = x] /\ x.pc = "presolve"
          \/ req' = [req EXCEPT ![r] = Idle]
      BY <2>0, <2>8 DEF SecondFactor, Goto, Finish, TypeOK, Request
    <3>. QED
      BY <1>2, <1>6, <2>0, <3>1
  <2>9. CASE PendingResolve(r)
    <3>1. PICK g \in Gens \cup {NoGen} :
             req' = [req EXCEPT ![r] = mintSessionWith([req[r] EXCEPT !.gen = g])]
      BY <2>9 DEF PendingResolve, HasSub, Exists, TypeOK, Row, Request
    <3>2. [req[r] EXCEPT !.gen = g] \in Request
      BY <2>0 DEF Request
    <3>. QED
      BY <1>4, <1>6, <2>0, <3>1, <3>2
  <2>10. CASE Record(r)
    BY <1>2, <1>6, <2>0, <2>10 DEF Record, Finish
  <2>. QED
    BY <1>8, <2>1, <2>2, <2>3, <2>4, <2>4a, <2>5, <2>6, <2>7, <2>8, <2>9, <2>10 DEF LoginStep
<1>9. ASSUME NEW r \in Requests, RevokeStep(r) PROVE Goal
  <2>0. UNCHANGED now /\ req[r] \in Request
    BY <1>9 DEF RevokeStep, adminSetBan, adminSetDisabled, SetBlocked, DeleteStart, ReadSub,
                adminRevokeUserSessions, DeleteUser, RevokeAll, SessionRevokeList, SessionRevokeEach, TypeOK
  <2>1. CASE \E u \in Users : adminSetBan(r, u) \/ adminSetDisabled(r, u)
    <3>1. PICK u \in Users :
             req' = [MarkOverlap(req, u) EXCEPT ![r] = [Idle EXCEPT !.pc = "readSub", !.user = u]]
      BY <2>1 DEF adminSetBan, adminSetDisabled, SetBlocked
    <3>2. [Idle EXCEPT !.pc = "readSub", !.user = u].pc = "readSub"
      BY DEF Idle
    <3>. QED
      BY <1>7, <2>0, <3>1, <3>2
  <2>2. CASE \E u \in Users : DeleteStart(r, u)
    <3>1. req'[r].pc = "delete" /\ \A q \in Requests \ {r} : req'[q] = req[q]
      BY <2>2 DEF DeleteStart, Begin, Idle, TypeOK
    <3>. QED
      BY <1>1, <1>7a, <2>0, <3>1
  <2>2a. CASE \E u \in Users : adminRevokeUserSessions(r, u)
    <3>1. req'[r].pc = "revokeUser" /\ \A q \in Requests \ {r} : req'[q] = req[q]
      BY <2>2a DEF adminRevokeUserSessions, Begin, Idle, TypeOK
    <3>. QED
      BY <1>1, <1>7a, <2>0, <3>1
  <2>3. CASE ReadSub(r)
    <3>1. \/ \E x : req' = [req EXCEPT ![r] = x] /\ x.pc = "revokeAll"
          \/ req' = [req EXCEPT ![r] = Idle]
      BY <2>0, <2>3 DEF ReadSub, Finish, TypeOK, Request
    <3>. QED
      BY <1>2, <1>6, <2>0, <3>1
  <2>4. CASE DeleteUser(r)
    <3>1. MarkOverlap(req, req[r].user) \in [Requests -> Request]
      BY MarkType DEF TypeOK
    <3>2. req' = [MarkOverlap(req, req[r].user) EXCEPT ![r].pc = "revokeAll"]
      BY <2>4 DEF DeleteUser
    <3>3. /\ req'[r].pc = "revokeAll"
          /\ \A q \in Requests \ {r} : req'[q] = MarkOverlap(req, req[r].user)[q]
      BY <3>1, <3>2 DEF Request
    <3>. QED
      BY <1>3, <1>7a, <2>0, <3>3
  <2>5. CASE RevokeAll(r)
    BY <1>2, <1>6, <2>0, <2>5 DEF RevokeAll, Finish
  <2>6. CASE \E s \in Sids : SessionRevokeList(r, s)
    <3>1. req'[r].pc = "revokeEach" /\ \A q \in Requests \ {r} : req'[q] = req[q]
      BY <2>6 DEF SessionRevokeList, Begin, Idle, TypeOK
    <3>. QED
      BY <1>1, <1>7a, <2>0, <3>1
  <2>7. CASE SessionRevokeEach(r)
    <3>1. \/ \E x : req' = [req EXCEPT ![r] = x] /\ x.pc = "revokeEach"
          \/ req' = [req EXCEPT ![r] = Idle]
      BY <2>0, <2>7 DEF SessionRevokeEach, Finish, TypeOK, Request
    <3>. QED
      BY <1>2, <1>6, <2>0, <3>1
  <2>. QED
    BY <1>9, <2>1, <2>2, <2>2a, <2>3, <2>4, <2>5, <2>6, <2>7 DEF RevokeStep
<1>10. CASE \/ \E u \in Users : adminUnblock(u)
            \/ \E s \in Sids : Logout(s)
            \/ PruneExpired \/ Tick
            \/ UNCHANGED vars
  BY <1>0, <1>5, <1>10 DEF adminUnblock, Logout, PruneExpired, Tick, vars
<1>11. CASE Restart
  BY <1>2, <1>11 DEF Restart
<1>. QED
  BY <1>8, <1>9, <1>10, <1>11 DEF Next

\* RecordOutlivesCookie is inductive relative to TypeOK.
LEMMA OutlivesStep == TypeOK /\ RecordOutlivesCookie /\ [Next]_vars => RecordOutlivesCookie'
<1>. SUFFICES ASSUME TypeOK, RecordOutlivesCookie, [Next]_vars PROVE RecordOutlivesCookie'
  OBVIOUS
<1>1. \A s \in Sids : cookie'[s] # None /\ sess'[s] # None => cookie'[s].exp <= sess'[s].exp
  <2>1. CASE \E r \in Requests : Record(r)
    <3>1. PICK r \in Requests : Record(r)
      BY <2>1
    <3>2. CASE UNCHANGED <<sess, cookie>>
      BY <3>2 DEF RecordOutlivesCookie
    <3>3. CASE ~ UNCHANGED <<sess, cookie>>
      BY <3>1, <3>3, RecordStep DEF RecordOutlivesCookie
    <3>. QED
      BY <3>2, <3>3
  <2>2. CASE ~ \E r \in Requests : Record(r)
    BY <2>2, OtherStep DEF RecordOutlivesCookie, Shrinks
  <2>. QED
    BY <2>1, <2>2
<1>. QED
  BY <1>1, MintedInTime DEF RecordOutlivesCookie

\* The record of a session expires no earlier than its cookie, for every
\* interleaving of logins, pruning, revocations and restarts.
THEOREM RecordOutlives == Spec => []RecordOutlivesCookie
<1>1. Init => RecordOutlivesCookie
  BY DEF Init, RecordOutlivesCookie, Idle
<1>. QED
  BY <1>1, TypeInit, TypeStep, OutlivesStep, PTL DEF Spec

\* On a durable store no login yields a cookie that the gate refuses although
\* nobody revoked it: an unexpired cookie keeps its record.
THEOREM UnexpiredIsRecorded ==
    ASSUME Durable
    PROVE  Spec => []UnexpiredCookieIsRecorded
<1>1. Init => UnexpiredCookieIsRecorded
  BY DEF Init, UnexpiredCookieIsRecorded
<1>2. TypeOK /\ RecordOutlivesCookie /\ UnexpiredCookieIsRecorded /\ [Next]_vars
        => UnexpiredCookieIsRecorded'
  <2>. SUFFICES ASSUME TypeOK, RecordOutlivesCookie, UnexpiredCookieIsRecorded, [Next]_vars,
                       NEW s \in Sids, cookie'[s] # None, now' < cookie'[s].exp
                PROVE  sess'[s] # None
    BY DEF UnexpiredCookieIsRecorded
  <2>0. /\ now \in Nat /\ now' \in Nat
        /\ cookie[s] # None => cookie[s].exp \in Nat
        /\ sess[s] # None => sess[s].exp \in Nat
    BY TypeStep, ConstantsAssumption DEF TypeOK, SessionClaims, SessionRecord
  <2>1. CASE \E r \in Requests : Record(r)
    <3>1. PICK r \in Requests : Record(r)
      BY <2>1
    <3>2. CASE UNCHANGED <<sess, cookie>>
      BY <3>1, <3>2, RecordStep DEF UnexpiredCookieIsRecorded
    <3>3. CASE ~ UNCHANGED <<sess, cookie>>
      <4>1. now' = now
        BY <3>1, RecordStep
      <4>2. PICK x \in Sids :
              /\ cookie[x] = None
              /\ sess'[x] # None
              /\ \A t \in Sids \ {x} :
                    /\ cookie'[t] = cookie[t]
                    /\ \/ sess'[t] = sess[t]
                       \/ sess'[t] = None /\ sess[t] # None /\ sess[t].exp < now
        BY <3>1, <3>3, RecordStep
      <4>. QED
        BY <2>0, <4>1, <4>2 DEF UnexpiredCookieIsRecorded, RecordOutlivesCookie
    <3>. QED
      BY <3>2, <3>3
  <2>2. CASE ~ \E r \in Requests : Record(r)
    <3>1. cookie' = cookie /\ now <= now' /\ KeepsUnexpired
      BY <2>2, OtherStep
    <3>2. sess[s] # None /\ cookie[s].exp <= sess[s].exp
      BY <2>0, <3>1 DEF UnexpiredCookieIsRecorded, RecordOutlivesCookie
    <3>. QED
      BY <2>0, <3>1, <3>2 DEF KeepsUnexpired
  <2>. QED
    BY <2>1, <2>2
<1>. QED
  BY <1>1, <1>2, TypeCorrect, RecordOutlives, PTL DEF Spec

-----------------------------------------------------------------------------
(* Refinement *)

\* The gate never accepts again what it has refused: the session layer, over a
\* durable or a volatile store, implements SessionAbs.
THEOREM Refinement == Spec => ImplementsSessionAbs
<1>1. Init => Abs!Init
  BY DEF Init, Abs!Init, GateStatus
<1>2. TypeOK /\ TypeOK' /\ RecordOutlivesCookie /\ [Next]_vars => [Abs!Next]_GateStatus
  <2>. SUFFICES ASSUME TypeOK, TypeOK', RecordOutlivesCookie, [Next]_vars
                PROVE  [Abs!Next]_GateStatus
    OBVIOUS
  <2>0. /\ now \in Nat /\ now' \in Nat
        /\ \A s \in Sids : /\ cookie[s] # None => cookie[s].exp \in Nat
                           /\ sess[s] # None => sess[s].exp \in Nat
    BY ConstantsAssumption DEF TypeOK, SessionClaims, SessionRecord
  <2>1. CASE \E r \in Requests : Record(r)
    <3>1. PICK r \in Requests : Record(r)
      BY <2>1
    <3>2. now' = now
      BY <3>1, RecordStep
    <3>3. CASE UNCHANGED <<sess, cookie>>
      BY <3>2, <3>3 DEF GateStatus, Live, IsRevoked
    <3>4. CASE ~ UNCHANGED <<sess, cookie>>
      <4>1. PICK s \in Sids :
              /\ cookie[s] = None
              /\ cookie'[s] # None
              /\ \A t \in Sids \ {s} :
                    /\ cookie'[t] = cookie[t]
                    /\ \/ sess'[t] = sess[t]
                       \/ sess'[t] = None /\ sess[t] # None /\ sess[t].exp < now
        BY <3>1, <3>4, RecordStep
      <4>2. ASSUME NEW t \in Sids \ {s} PROVE GateStatus'[t] = GateStatus[t]
        <5>1. CASE cookie[t] = None
          BY <4>1, <5>1 DEF GateStatus
        <5>2. CASE cookie[t] # None
          <6>1. Live(t)' <=> Live(t)
            BY <2>0, <3>2, <4>1, <5>2 DEF Live, IsRevoked, RecordOutlivesCookie
          <6>. QED
            BY <4>1, <5>2, <6>1 DEF GateStatus
        <5>. QED
          BY <5>1, <5>2
      <4>3. GateStatus[s] = "unissued" /\ GateStatus'[s] \in {"accepted", "refused"}
        BY <4>1 DEF GateStatus
      <4>4. GateStatus' = [GateStatus EXCEPT ![s] = GateStatus'[s]]
        BY <4>2 DEF GateStatus
      <4>. QED
        BY <4>3, <4>4 DEF Abs!Next, Abs!Issue
    <3>. QED
      BY <3>3, <3>4
  <2>2. CASE ~ \E r \in Requests : Record(r)
    <3>1. cookie' = cookie /\ now <= now' /\ Shrinks
      BY <2>2, OtherStep
    <3>2. ASSUME NEW s \in Sids, Live(s)' PROVE Live(s)
      BY <2>0, <3>1, <3>2 DEF Live, IsRevoked, Shrinks
    <3>. DEFINE S == {s \in Sids : Live(s) /\ ~Live(s)'}
    <3>3. \A s \in S : GateStatus[s] = "accepted"
      BY DEF GateStatus, Live
    <3>4. ASSUME NEW s \in Sids
          PROVE  GateStatus'[s] = IF s \in S THEN "refused" ELSE GateStatus[s]
      <4>1. CASE cookie[s] = None
        BY <3>1, <4>1 DEF GateStatus, Live
      <4>2. CASE cookie[s] # None
        BY <3>1, <3>2, <4>2 DEF GateStatus
      <4>. QED
        BY <4>1, <4>2
    <3>5. GateStatus' = [s \in Sids |-> IF s \in S THEN "refused" ELSE GateStatus[s]]
      BY <3>4 DEF GateStatus
    <3>6. S \in SUBSET Sids
      OBVIOUS
    <3>. HIDE DEF S
    <3>. QED
      BY <3>3, <3>5, <3>6 DEF Abs!Next, Abs!Refuse
  <2>. QED
    BY <2>1, <2>2
<1>. QED
  BY <1>1, <1>2, TypeCorrect, RecordOutlives, PTL DEF Spec, ImplementsSessionAbs, Abs!Spec

-----------------------------------------------------------------------------
(* Off-boarding *)

\* Where a request that may end in a session stands.
LoginPCs == {"authorize", "resolve", "factor", "second", "presolve", "record"}

\* Without an OIDC issuer every row, request, pending login and session has the
\* subject of the local account, so RevokeAllForUser misses no session.
AllLocal ==
    /\ \A u \in Users : Exists(u) => row[u].sub = "local"
    /\ \A r \in Requests : req[r].sub = "local"
    /\ \A p \in pending : p.sub = "local"
    /\ \A s \in Sids : /\ sess[s] # None => sess[s].sub = "local"
                       /\ cookie[s] # None => cookie[s].sub = "local"

\* A record belongs to the user its cookie names.
Matched == \A s \in Sids : sess[s] # None => sess[s].user = cookie[s].user

\* A handler that has blocked or deleted u and read its subject is to revoke.
Revoking(u) == \E r \in Requests : req[r].user = u /\ req[r].pc = "revokeAll"

\* A login on its way that no off-boarding has overlapped is that of a user who
\* exists and, unless an admin impersonates, is not blocked.
LoginsClear ==
    \A r \in Requests :
        req[r].pc \in LoginPCs /\ ~req[r].overlap
            => /\ Exists(req[r].user)
               /\ req[r].kind # "imp" => ~loginBlocked(req[r].user)

\* The accepted sessions of a user who is gone are about to be revoked by a
\* handler that needs no row any more; those of a blocked user are, too.
NoneLeft ==
    \A s \in Sids :
        Live(s) /\ ~cookie[s].overlap
            => /\ ~Exists(cookie[s].user)
                    => Revoking(cookie[s].user) \/ cookie[s].user \in cut
               /\ loginBlocked(cookie[s].user) /\ cookie[s].kind # "imp"
                    => Offboarding(cookie[s].user) \/ cookie[s].user \in cut

OffInv == TypeOK /\ RecordOutlivesCookie /\ AllLocal /\ Matched /\ LoginsClear /\ NoneLeft

\* The row of u has a confirmed second factor.
HasTOTP(u) == Exists(u) /\ row[u].totp

\* An off-boarding of its user has marked the request.
Marked(q) == req[q].pc # "idle" /\ req'[q] = [req[q] EXCEPT !.overlap = TRUE]

\* A request moves by its own step, by a mark or by a restart.
LEMMA WhoMoves ==
    ASSUME TypeOK, [Next]_vars, NEW q \in Requests
    PROVE  \/ req'[q] = req[q]
           \/ Marked(q)
           \/ LoginStep(q)
           \/ RevokeStep(q)
           \/ Restart
<1>1. ASSUME NEW r \in Requests, r # q, LoginStep(r) PROVE req'[q] = req[q]
  BY <1>1 DEF LoginStep, Login, Callback, Impersonate, TwoFactorVerify,
              TwoFactorWebauthnFinish, Authorize, Resolve, FactorGate, SecondFactor,
              PendingResolve, Record, Begin, Goto, Finish, TypeOK
<1>2. ASSUME NEW r \in Requests, r # q, RevokeStep(r) PROVE req'[q] = req[q] \/ Marked(q)
  <2>1. ASSUME NEW u, NEW f, req' = [MarkOverlap(req, u) EXCEPT ![r] = f]
        PROVE  req'[q] = req[q] \/ Marked(q)
    BY <1>2, <2>1 DEF MarkOverlap, Marked, TypeOK
  <2>2. CASE DeleteUser(r)
    <3>1. req' = [MarkOverlap(req, req[r].user) EXCEPT ![r] =
                      [MarkOverlap(req, req[r].user)[r] EXCEPT !.pc = "revokeAll"]]
      BY <2>2 DEF DeleteUser
    <3>. QED
      BY <2>1, <3>1
  <2>3. CASE \E u \in Users : adminSetBan(r, u) \/ adminSetDisabled(r, u)
    BY <2>1, <2>3 DEF adminSetBan, adminSetDisabled, SetBlocked
  <2>4. CASE ~DeleteUser(r) /\ ~ \E u \in Users : adminSetBan(r, u) \/ adminSetDisabled(r, u)
    BY <1>2, <2>4 DEF RevokeStep, DeleteStart, adminRevokeUserSessions, ReadSub,
              RevokeAll, SessionRevokeList, SessionRevokeEach, Begin, Finish, TypeOK
  <2>. QED
    BY <2>2, <2>3, <2>4
<1>3. ASSUME UNCHANGED req PROVE req'[q] = req[q]
  BY <1>3
<1>. QED
  BY <1>1, <1>2, <1>3 DEF Next, adminUnblock, Logout, PruneExpired, Tick, vars

\* A login that starts at this state.
Begun(x) ==
    /\ \/ x.pc = "authorize" /\ x.kind = "login"
       \/ x.pc \in {"second", "presolve"} /\ x.kind = "2fa"
       \/ x.pc = "record" /\ x.kind = "imp"
    /\ Exists(x.user)
    /\ x.kind # "imp" => ~loginBlocked(x.user)

\* A login that goes on from x to y at this state.
Advanced(x, y) ==
    /\ y.user = x.user /\ y.sub = x.sub /\ y.kind = x.kind /\ y.overlap = x.overlap
    /\ \/ x.pc = "authorize" /\ y.pc = "resolve"
       \/ x.pc = "resolve" /\ y.pc = "factor" /\ y.gen = row[x.user].gen
       \/ x.pc = "resolve" /\ y.pc = "record" /\ (LookupFaults \/ ~HasSub(x.user, x.sub))
       \/ /\ x.pc = "factor" /\ y.pc = "record"
          /\ LookupFaults \/ ~(HasTOTP(x.user) /\ row[x.user].gen = x.gen)
       \/ x.pc = "second" /\ y.pc = "presolve"
       \/ x.pc = "presolve" /\ y.pc = "record"

\* What the login of slot q does in a step of its own.
LEMMA LoginMoves ==
    ASSUME TypeOK, AllLocal, ~OIDC, NEW q \in Requests, LoginStep(q)
    PROVE  /\ \/ req'[q].pc \notin LoginPCs
              \/ Begun(req'[q])
              \/ Advanced(req[q], req'[q])
           /\ req'[q].sub = "local"
<1>0. req[q] \in Request /\ req[q].sub = "local" /\ Idle \in Request
  BY IdleType DEF TypeOK, AllLocal
<1>. DEFINE Goal == /\ \/ req'[q].pc \notin LoginPCs
                       \/ Begun(req'[q])
                       \/ Advanced(req[q], req'[q])
                    /\ req'[q].sub = "local"
<1>1. ASSUME req'[q] = Idle PROVE Goal
  BY <1>1 DEF Idle, LoginPCs
<1>2. ASSUME NEW u \in Users, Login(q, u) PROVE Goal
  <2>1. req'[q].pc = "authorize" /\ req'[q].kind = "login" /\ req'[q].user = u
        /\ req'[q].sub = row[u].sub
    BY <1>2 DEF Login, Begin, Idle, TypeOK
  <2>. QED
    BY <1>2, <2>1 DEF Login, Begun, AllLocal
<1>3. ASSUME NEW u \in Users, Impersonate(q, u) PROVE Goal
  <2>. DEFINE x == [Idle EXCEPT !.user = u, !.sub = row[u].sub, !.gen = row[u].gen,
                                !.kind = "imp", !.ttl = impersonationTTL]
  <2>1. req'[q] = mintSessionWith(x)
    BY <1>3 DEF Impersonate, Begin, TypeOK
  <2>2. /\ req'[q].pc = "record" /\ req'[q].kind = "imp"
        /\ req'[q].user = u /\ req'[q].sub = row[u].sub
    BY <2>1 DEF mintSessionWith, Idle
  <2>. QED
    BY <1>3, <2>2 DEF Impersonate, Begun, AllLocal
<1>4. ASSUME NEW p \in pending, TwoFactorVerify(q, p) \/ TwoFactorWebauthnFinish(q, p)
      PROVE  Goal
  <2>1. /\ req'[q].pc \in {"second", "presolve"} /\ req'[q].kind = "2fa"
        /\ req'[q].user = p.user /\ req'[q].sub = p.sub
    <3>1. ASSUME TwoFactorVerify(q, p)
          PROVE  /\ req'[q].pc = "second" /\ req'[q].kind = "2fa"
                 /\ req'[q].user = p.user /\ req'[q].sub = p.sub
      BY <3>1 DEF TwoFactorVerify, Begin, Idle, TypeOK
    <3>2. ASSUME TwoFactorWebauthnFinish(q, p)
          PROVE  /\ req'[q].pc = "presolve" /\ req'[q].kind = "2fa"
                 /\ req'[q].user = p.user /\ req'[q].sub = p.sub
      BY <3>2 DEF TwoFactorWebauthnFinish, Begin, Idle, TypeOK
    <3>. QED
      BY <1>4, <3>1, <3>2
  <2>2. HasSub(p.user, p.sub) /\ ~loginBlocked(p.user)
    BY <1>4 DEF TwoFactorVerify, TwoFactorWebauthnFinish
  <2>. QED
    BY <2>1, <2>2 DEF Begun, AllLocal, HasSub
<1>5. CASE Authorize(q)
  <2>1. req'[q] = [req[q] EXCEPT !.pc = "resolve"] /\ req[q].pc = "authorize"
    BY <1>5 DEF Authorize, Goto, TypeOK
  <2>. QED
    BY <1>0, <2>1 DEF Request, Advanced
<1>m. ASSUME NEW x \in Request
      PROVE  /\ mintSessionWith(x).pc = "record" /\ mintSessionWith(x).user = x.user
             /\ mintSessionWith(x).sub = x.sub /\ mintSessionWith(x).kind = x.kind
             /\ mintSessionWith(x).overlap = x.overlap
  BY DEF mintSessionWith, Request
<1>6. CASE Resolve(q)
  <2>1. CASE HasSub(req[q].user, req[q].sub)
             /\ req' = [req EXCEPT ![q].pc = "factor", ![q].gen = row[req[q].user].gen]
    <3>1. /\ req'[q].pc = "factor" /\ req'[q].gen = row[req[q].user].gen
          /\ req'[q].user = req[q].user /\ req'[q].sub = req[q].sub
          /\ req'[q].kind = req[q].kind /\ req'[q].overlap = req[q].overlap
      BY <1>0, <2>1 DEF Request, TypeOK
    <3>. QED
      BY <1>0, <1>6, <3>1 DEF Resolve, Advanced
  <2>2. CASE (LookupFaults \/ ~HasSub(req[q].user, req[q].sub))
             /\ req' = [req EXCEPT ![q] = mintSessionWith(@)]
    <3>1. req'[q] = mintSessionWith(req[q])
      BY <2>2 DEF TypeOK
    <3>. QED
      BY <1>0, <1>6, <1>m, <2>2, <3>1 DEF Resolve, Advanced
  <2>. QED
    BY <1>6, <2>1, <2>2 DEF Resolve
<1>7. CASE FactorGate(q)
  <2>1. CASE Finish(q)
    BY <1>1, <2>1 DEF Finish, TypeOK
  <2>2. CASE ~Finish(q)
    <3>1. /\ req'[q] = mintSessionWith(req[q])
          /\ LookupFaults \/ ~(HasTOTP(req[q].user) /\ row[req[q].user].gen = req[q].gen)
      BY <1>7, <2>2 DEF FactorGate, TypeOK, HasTOTP
    <3>. QED
      BY <1>0, <1>7, <1>m, <3>1 DEF FactorGate, Advanced
  <2>. QED
    BY <2>1, <2>2
<1>8. CASE SecondFactor(q)
  <2>1. CASE Goto(q, "presolve")
    <3>1. req'[q] = [req[q] EXCEPT !.pc = "presolve"] /\ req[q].pc = "second"
      BY <1>8, <2>1 DEF SecondFactor, Goto, TypeOK
    <3>. QED
      BY <1>0, <3>1 DEF Request, Advanced
  <2>2. CASE Finish(q)
    BY <1>1, <2>2 DEF Finish, TypeOK
  <2>. QED
    BY <1>8, <2>1, <2>2 DEF SecondFactor
<1>9. CASE PendingResolve(q)
  <2>1. PICK g \in Gens \cup {NoGen} :
           req' = [req EXCEPT ![q] = mintSessionWith([req[q] EXCEPT !.gen = g])]
    BY <1>9 DEF PendingResolve, HasSub, Exists, TypeOK, Row, Request
  <2>. DEFINE x == [req[q] EXCEPT !.gen = g]
  <2>2. x \in Request /\ x.user = req[q].user /\ x.sub = req[q].sub
        /\ x.kind = req[q].kind /\ x.overlap = req[q].overlap
    BY <1>0 DEF Request
  <2>3. req'[q] = mintSessionWith(x)
    BY <2>1 DEF TypeOK
  <2>. HIDE DEF x
  <2>. QED
    BY <1>0, <1>9, <1>m, <2>2, <2>3 DEF PendingResolve, Advanced
<1>10. CASE Record(q)
  BY <1>1, <1>10 DEF Record, Finish, TypeOK
<1>. QED
  BY <1>2, <1>3, <1>4, <1>5, <1>6, <1>7, <1>8, <1>9, <1>10 DEF LoginStep, Callback

\* A revocation keeps the local subject and is no login.
LEMMA RevokeMoves ==
    ASSUME TypeOK, AllLocal, NEW q \in Requests, RevokeStep(q)
    PROVE  req'[q].pc \notin LoginPCs /\ req'[q].sub = "local"
<1>0. req[q] \in Request /\ req[q].sub = "local" /\ Idle.sub = "local" /\ Idle.pc = "idle"
  BY DEF TypeOK, AllLocal, Idle
<1>. DEFINE Goal == req'[q].pc \notin LoginPCs /\ req'[q].sub = "local"
<1>1. ASSUME Finish(q) PROVE Goal
  BY <1>0, <1>1 DEF Finish, TypeOK, LoginPCs
<1>2. ASSUME NEW u \in Users, adminSetBan(q, u) \/ adminSetDisabled(q, u) PROVE Goal
  <2>1. MarkOverlap(req, u) \in [Requests -> Request]
    BY MarkType DEF TypeOK
  <2>2. req'[q] = [Idle EXCEPT !.pc = "readSub", !.user = u]
    BY <1>2, <2>1 DEF adminSetBan, adminSetDisabled, SetBlocked
  <2>. QED
    BY <2>2 DEF Idle, LoginPCs
<1>3. ASSUME NEW u \in Users, DeleteStart(q, u) \/ adminRevokeUserSessions(q, u) PROVE Goal
  <2>1. req'[q].pc \in {"delete", "revokeUser"} /\ req'[q].sub = row[u].sub
    BY <1>3 DEF DeleteStart, adminRevokeUserSessions, Begin, Idle, TypeOK
  <2>. QED
    BY <1>3, <2>1 DEF DeleteStart, adminRevokeUserSessions, AllLocal, LoginPCs
<1>4. CASE ReadSub(q)
  <2>1. CASE Exists(req[q].user)
    <3>1. req'[q].pc = "revokeAll" /\ req'[q].sub = row[req[q].user].sub
      BY <1>0, <1>4, <2>1 DEF ReadSub, TypeOK, Request
    <3>. QED
      BY <1>0, <2>1, <3>1 DEF AllLocal, LoginPCs, Request
  <2>2. CASE ~Exists(req[q].user)
    BY <1>1, <1>4, <2>2 DEF ReadSub
  <2>. QED
    BY <2>1, <2>2
<1>5. CASE DeleteUser(q)
  <2>1. MarkOverlap(req, req[q].user) \in [Requests -> Request]
    BY MarkType DEF TypeOK
  <2>2. MarkOverlap(req, req[q].user)[q].sub = req[q].sub
    BY <1>0 DEF MarkOverlap, Request
  <2>3. req'[q] = [MarkOverlap(req, req[q].user)[q] EXCEPT !.pc = "revokeAll"]
    BY <1>5, <2>1 DEF DeleteUser
  <2>. QED
    BY <1>0, <2>1, <2>2, <2>3 DEF Request, LoginPCs
<1>6. CASE RevokeAll(q)
  BY <1>1, <1>6 DEF RevokeAll
<1>7. ASSUME NEW s \in Sids, SessionRevokeList(q, s) PROVE Goal
  <2>1. req'[q].pc = "revokeEach" /\ req'[q].sub = cookie[s].sub
    BY <1>7 DEF SessionRevokeList, Begin, Idle, TypeOK
  <2>. QED
    BY <1>7, <2>1 DEF SessionRevokeList, Live, AllLocal, LoginPCs
<1>8. CASE SessionRevokeEach(q)
  <2>1. CASE Finish(q)
    BY <1>1, <2>1
  <2>2. CASE ~Finish(q)
    <3>1. req'[q].pc = "revokeEach" /\ req'[q].sub = req[q].sub
      BY <1>0, <1>8, <2>2 DEF SessionRevokeEach, TypeOK, Request
    <3>. QED
      BY <1>0, <3>1 DEF LoginPCs
  <2>. QED
    BY <2>1, <2>2
<1>. QED
  BY <1>2, <1>3, <1>4, <1>5, <1>6, <1>7, <1>8 DEF RevokeStep

\* What a step makes of one request, whoever takes it.
LEMMA RequestMoves ==
    ASSUME TypeOK, AllLocal, ~OIDC, [Next]_vars, NEW q \in Requests
    PROVE  /\ \/ req'[q] = req[q]
              \/ Marked(q)
              \/ req'[q].pc \notin LoginPCs
              \/ Begun(req'[q])
              \/ Advanced(req[q], req'[q])
           /\ req'[q].sub = "local"
<1>0. req[q] \in Request /\ req[q].sub = "local"
  BY DEF TypeOK, AllLocal
<1>1. CASE Marked(q)
  BY <1>0, <1>1 DEF Marked, Request
<1>2. CASE Restart
  BY <1>2 DEF Restart, Idle, LoginPCs
<1>3. CASE LoginStep(q)
  BY <1>3, LoginMoves
<1>4. CASE RevokeStep(q)
  BY <1>4, RevokeMoves
<1>. QED
  BY <1>0, <1>1, <1>2, <1>3, <1>4, WhoMoves

\* The user is no worse off after the step.
Milder(u) ==
    /\ Exists(u) => Exists(u)'
    /\ loginBlocked(u)' => loginBlocked(u)

\* Every login of u that is on its way knows of the off-boarding.
LoginsMarked(u) ==
    \A q \in Requests : req'[q].user = u /\ req'[q].pc \in LoginPCs => req'[q].overlap

\* A restart of the volatile store.
Wiped == (\A q \in Requests : req'[q].pc = "idle") /\ (\A s \in Sids : sess'[s] = None)

\* What a step makes of one row: it stays as good, or it is blocked or deleted
\* with every login on its way marked and the revocation to come, or all is
\* lost.  No step but the first enrolment gives a row its second factor.
LEMMA RowMoves ==
    ASSUME TypeOK, AllLocal, ~OIDC, [Next]_vars, NEW u \in Users
    PROVE  /\ Exists(u)' => row'[u].sub = "local"
           /\ HasTOTP(u)' => HasTOTP(u) /\ row'[u].gen = row[u].gen
           /\ \/ Milder(u)
              \/ Exists(u)' /\ Offboarding(u)' /\ LoginsMarked(u)
              \/ ~Exists(u)' /\ Revoking(u)' /\ LoginsMarked(u)
              \/ Wiped
<1>0. /\ now \in Nat /\ row \in [Users -> Row \cup {None}]
      /\ req \in [Requests -> Request]
      /\ Exists(u) => row[u] \in Row /\ row[u].sub = "local"
      /\ \A v \in Users : Exists(v) => row[v].sub = "local"
  BY ConstantsAssumption DEF TypeOK, AllLocal, Exists
<1>. DEFINE Goal == /\ Exists(u)' => row'[u].sub = "local"
                    /\ HasTOTP(u)' => HasTOTP(u) /\ row'[u].gen = row[u].gen
                    /\ \/ Milder(u)
                       \/ Exists(u)' /\ Offboarding(u)' /\ LoginsMarked(u)
                       \/ ~Exists(u)' /\ Revoking(u)' /\ LoginsMarked(u)
                       \/ Wiped
<1>1. ASSUME UNCHANGED now, row'[u] = row[u] PROVE Goal
  BY <1>0, <1>1 DEF Exists, HasTOTP, Milder, loginBlocked
<1>2. ASSUME NEW r \in Requests, LoginStep(r), ~Authorize(r) PROVE Goal
  <2>1. UNCHANGED <<now, row>>
    BY <1>2 DEF LoginStep, Login, Callback, Impersonate, TwoFactorVerify,
                TwoFactorWebauthnFinish, Resolve, FactorGate, SecondFactor,
                PendingResolve, Record
  <2>. QED
    BY <1>1, <2>1
<1>3. ASSUME NEW r \in Requests, Authorize(r) PROVE Goal
  <2>0. UNCHANGED now /\ req[r].sub = "local" /\ req[r].user \in Users
    BY <1>3 DEF Authorize, AllLocal, TypeOK, Request
  <2>1. CASE req[r].user # u
    <3>1. row'[u] = row[u]
      BY <1>0, <1>3, <2>1 DEF Authorize, UpsertUserOnLogin
    <3>. QED
      BY <1>1, <2>0, <3>1
  <2>2. CASE req[r].user = u /\ Exists(u)
    <3>1. row' = [row EXCEPT ![u].sub = "local"]
      BY <1>3, <2>0, <2>2 DEF Authorize, UpsertUserOnLogin
    <3>2. row'[u] = [row[u] EXCEPT !.sub = "local"]
      BY <1>0, <3>1
    <3>3. /\ row'[u].sub = "local" /\ row'[u].gen = row[u].gen
          /\ row'[u].totp = row[u].totp /\ row'[u].disabled = row[u].disabled
          /\ row'[u].banUntil = row[u].banUntil /\ row'[u] \in Row
      BY <1>0, <2>2, <3>2 DEF Row, Subs
    <3>. QED
      BY <2>0, <2>2, <3>3, NoneAssumption DEF Exists, HasTOTP, Milder, loginBlocked
  <2>3. CASE req[r].user = u /\ ~Exists(u)
    <3>. DEFINE x == [gen |-> seq', sub |-> "local", disabled |-> FALSE,
                      banUntil |-> 0, totp |-> FALSE]
    <3>1. row' = [row EXCEPT ![u] = x]
      BY <1>3, <2>0, <2>3 DEF Authorize, UpsertUserOnLogin
    <3>2. /\ row'[u].sub = "local" /\ row'[u].totp = FALSE
          /\ row'[u].disabled = FALSE /\ row'[u].banUntil = 0
      BY <1>0, <3>1
    <3>3. ~loginBlocked(u)' /\ ~HasTOTP(u)'
      BY <1>0, <2>0, <3>2 DEF loginBlocked, HasTOTP
    <3>. QED
      BY <2>3, <3>2, <3>3 DEF Milder
  <2>. QED
    BY <2>1, <2>2, <2>3
<1>4. ASSUME NEW r \in Requests, NEW v \in Users, NEW x \in Row, SetBlocked(r, v, x),
             x.sub = row[v].sub, x.gen = row[v].gen, x.totp = row[v].totp
      PROVE  Goal
  <2>1. CASE v # u
    <3>1. UNCHANGED now /\ row'[u] = row[u]
      BY <1>0, <1>4, <2>1 DEF SetBlocked
    <3>. QED
      BY <1>1, <3>1
  <2>2. CASE v = u
    <3>1. Exists(u) /\ row'[u] = x /\ Exists(u)'
      BY <1>0, <1>4, <2>2, NoneAssumption DEF SetBlocked, Exists
    <3>2. MarkOverlap(req, u) \in [Requests -> Request]
      BY <1>0, MarkType
    <3>3. /\ req'[r] = [Idle EXCEPT !.pc = "readSub", !.user = u]
          /\ \A q \in Requests \ {r} : req'[q] = MarkOverlap(req, u)[q]
      BY <1>4, <2>2, <3>2 DEF SetBlocked
    <3>4. req'[r].pc = "readSub" /\ req'[r].user = u
      BY <3>3 DEF Idle
    <3>5. Offboarding(u)'
      BY <3>4 DEF Offboarding
    <3>6. LoginsMarked(u)
      <4>1. ASSUME NEW q \in Requests \ {r}, MarkOverlap(req, u)[q].user = u,
                   MarkOverlap(req, u)[q].pc \in LoginPCs
            PROVE  MarkOverlap(req, u)[q].overlap
        BY <1>0, <4>1 DEF MarkOverlap, LoginPCs, Request
      <4>. QED
        BY <3>3, <3>4, <4>1 DEF LoginsMarked, LoginPCs
    <3>. QED
      BY <1>0, <1>4, <2>2, <3>1, <3>5, <3>6 DEF HasTOTP
  <2>. QED
    BY <2>1, <2>2
<1>5. ASSUME NEW r \in Requests, NEW v \in Users, adminSetBan(r, v) PROVE Goal
  <2>1. PICK until \in now .. Forever : SetBlocked(r, v, [row[v] EXCEPT !.banUntil = until])
    BY <1>5 DEF adminSetBan
  <2>2. until \in 0 .. Forever
    BY <1>0, ConstantsAssumption DEF Forever
  <2>3. row[v] \in Row
    BY <2>1 DEF SetBlocked, Exists, TypeOK
  <2>. DEFINE x == [row[v] EXCEPT !.banUntil = until]
  <2>4. /\ x \in Row /\ x.sub = row[v].sub /\ x.gen = row[v].gen
        /\ x.totp = row[v].totp
    BY <2>2, <2>3 DEF Row
  <2>5. SetBlocked(r, v, x)
    BY <2>1
  <2>. HIDE DEF x
  <2>. QED
    BY <1>4, <2>4, <2>5
<1>6. ASSUME NEW r \in Requests, NEW v \in Users, adminSetDisabled(r, v) PROVE Goal
  <2>1. row[v] \in Row
    BY <1>6 DEF adminSetDisabled, SetBlocked, Exists, TypeOK
  <2>. DEFINE x == [row[v] EXCEPT !.disabled = TRUE]
  <2>2. /\ x \in Row /\ x.sub = row[v].sub /\ x.gen = row[v].gen
        /\ x.totp = row[v].totp
    BY <2>1 DEF Row
  <2>3. SetBlocked(r, v, x)
    BY <1>6 DEF adminSetDisabled
  <2>. HIDE DEF x
  <2>. QED
    BY <1>4, <2>2, <2>3
<1>7. ASSUME NEW r \in Requests, DeleteUser(r) PROVE Goal
  <2>1. CASE row'[u] = row[u]
    BY <1>1, <1>7, <2>1 DEF DeleteUser
  <2>2. CASE row'[u] # row[u]
    <3>1. req[r].user = u /\ row'[u] = None
      BY <1>0, <1>7, <2>2 DEF DeleteUser
    <3>2. MarkOverlap(req, u) \in [Requests -> Request]
      BY <1>0, MarkType
    <3>3. /\ req'[r] = [MarkOverlap(req, u)[r] EXCEPT !.pc = "revokeAll"]
          /\ \A q \in Requests \ {r} : req'[q] = MarkOverlap(req, u)[q]
      BY <1>7, <3>1, <3>2 DEF DeleteUser
    <3>4. req'[r].pc = "revokeAll" /\ req'[r].user = u
      BY <1>0, <3>1, <3>2, <3>3 DEF MarkOverlap, Request
    <3>5. Revoking(u)'
      BY <3>4 DEF Revoking
    <3>6. LoginsMarked(u)
      <4>1. ASSUME NEW q \in Requests \ {r}, MarkOverlap(req, u)[q].user = u,
                   MarkOverlap(req, u)[q].pc \in LoginPCs
            PROVE  MarkOverlap(req, u)[q].overlap
        BY <1>0, <4>1 DEF MarkOverlap, LoginPCs, Request
      <4>. QED
        BY <3>3, <3>4, <4>1 DEF LoginsMarked, LoginPCs
    <3>. QED
      BY <3>1, <3>5, <3>6 DEF Exists, HasTOTP
  <2>. QED
    BY <2>1, <2>2
<1>8. ASSUME NEW r \in Requests, RevokeStep(r), ~DeleteUser(r),
             \A v \in Users : ~adminSetBan(r, v) /\ ~adminSetDisabled(r, v)
      PROVE  Goal
  <2>1. UNCHANGED <<now, row>>
    BY <1>8 DEF RevokeStep, DeleteStart, adminRevokeUserSessions, ReadSub, RevokeAll,
                SessionRevokeList, SessionRevokeEach
  <2>. QED
    BY <1>1, <2>1
<1>9. ASSUME NEW v \in Users, adminUnblock(v) PROVE Goal
  <2>1. CASE v # u
    <3>1. UNCHANGED now /\ row'[u] = row[u]
      BY <1>0, <1>9, <2>1 DEF adminUnblock
    <3>. QED
      BY <1>1, <3>1
  <2>2. CASE v = u
    <3>0. UNCHANGED now /\ row[u] \in Row /\ Exists(u)
      BY <1>0, <1>9, <2>2 DEF adminUnblock
    <3>1. \/ row'[u] = [row[u] EXCEPT !.banUntil = 0]
          \/ row'[u] = [row[u] EXCEPT !.disabled = FALSE]
      BY <1>0, <1>9, <2>2 DEF adminUnblock
    <3>2. /\ row'[u].sub = row[u].sub /\ row'[u].gen = row[u].gen
          /\ row'[u].totp = row[u].totp
          /\ row'[u].disabled => row[u].disabled
          /\ row'[u].banUntil \in {0, row[u].banUntil}
      BY <3>0, <3>1 DEF Row
    <3>3. row'[u] # None
      <4>1. 0 \in 0 .. Forever
        BY ConstantsAssumption DEF Forever
      <4>2. row'[u] \in Row
        BY <3>0, <3>1, <4>1 DEF Row
      <4>. QED
        BY <4>2, NoneAssumption
    <3>. QED
      BY <1>0, <3>0, <3>2, <3>3 DEF Exists, HasTOTP, Milder, loginBlocked
  <2>. QED
    BY <2>1, <2>2
<1>10. ASSUME Tick PROVE Goal
  <2>1. UNCHANGED row /\ now' = now + 1
    BY <1>10 DEF Tick
  <2>2. Exists(u) => row[u].banUntil \in Int
    BY <1>0 DEF Row, Forever
  <2>. QED
    BY <1>0, <2>1, <2>2 DEF Exists, HasTOTP, Milder, loginBlocked
<1>11. ASSUME Restart PROVE Goal
  <2>1. CASE Durable
    BY <1>1, <1>11, <2>1 DEF Restart
  <2>2. CASE ~Durable
    BY <1>11, <2>2 DEF Restart, Wiped, Idle, Exists, HasTOTP
  <2>. QED
    BY <2>1, <2>2
<1>12. ASSUME UNCHANGED <<now, row>> PROVE Goal
  BY <1>1, <1>12
<1>. QED
  BY <1>2, <1>3, <1>5, <1>6, <1>7, <1>8, <1>9, <1>10, <1>11, <1>12
  DEF Next, Logout, PruneExpired, vars

\* A session that is still accepted cannot outlast the handler that is about to
\* revoke, unless the row is gone before that handler has read it.
LEMMA RevocationHolds ==
    ASSUME TypeOK, AllLocal, Matched, ~RevokeFaults, [Next]_vars,
           NEW s \in Sids, cookie[s] # None, cookie' = cookie, Live(s)',
           NEW u, u = cookie[s].user
    PROVE  /\ Revoking(u) \/ u \in cut => Revoking(u)' \/ u \in cut'
           /\ Offboarding(u) \/ u \in cut
                => Offboarding(u)' \/ u \in cut' \/ ~Exists(u)
<1>0. sess'[s] # None /\ ~sess'[s].revoked /\ u \in Users
  BY DEF Live, IsRevoked, TypeOK, SessionClaims
<1>1. ASSUME NEW r \in Requests, RevokeAll(r) PROVE req[r].user # u
  <2>. SUFFICES ASSUME req[r].user = u PROVE FALSE
    OBVIOUS
  <2>0. req[r].sub = "local"
    BY DEF AllLocal
  <2>1. sess' = Tombstone({t \in Sids : sess[t] # None /\ sess[t].user = u
                                                      /\ sess[t].sub = "local"})
    BY <1>1, <2>0 DEF RevokeAll, RevokeAllForUser
  <2>2. sess[s] # None
    BY <1>0, <2>1 DEF Tombstone
  <2>3. sess[s].user = u /\ sess[s].sub = "local" /\ sess[s] \in SessionRecord
    BY <2>2 DEF Matched, AllLocal, TypeOK
  <2>4. sess'[s] = [sess[s] EXCEPT !.revoked = TRUE]
    BY <2>1, <2>2, <2>3 DEF Tombstone
  <2>. QED
    BY <1>0, <2>3, <2>4 DEF SessionRecord
<1>2. u \in cut => u \in cut'
  <2>1. CASE \E r \in Requests : RevokeAll(r)
    BY <1>1, <2>1 DEF RevokeAll
  <2>2. CASE ~ \E r \in Requests : RevokeAll(r)
    <3>1. ASSUME NEW r \in Requests, LoginStep(r) PROVE cut' = cut
      BY <3>1 DEF LoginStep, Login, Callback, Impersonate, TwoFactorVerify,
                  TwoFactorWebauthnFinish, Authorize, Resolve, FactorGate, SecondFactor,
                  PendingResolve, Record
    <3>2. ASSUME NEW r \in Requests, RevokeStep(r) PROVE cut' = cut
      BY <2>2, <3>2 DEF RevokeStep, adminSetBan, adminSetDisabled, SetBlocked, DeleteStart,
                  adminRevokeUserSessions, ReadSub, DeleteUser, SessionRevokeList,
                  SessionRevokeEach
    <3>3. ASSUME Restart PROVE cut \subseteq cut'
      BY <3>3 DEF Restart
    <3>. QED
      BY <3>1, <3>2, <3>3 DEF Next, adminUnblock, Logout, PruneExpired, Tick, vars
  <2>. QED
    BY <2>1, <2>2
<1>3. ASSUME NEW q \in Requests, req[q].user = u, req[q].pc \in {"readSub", "revokeAll"}
      PROVE  \/ req'[q].user = u /\ req'[q].pc = req[q].pc
             \/ u \in cut'
             \/ /\ req[q].pc = "readSub"
                /\ Exists(u) => req'[q].user = u /\ req'[q].pc = "revokeAll"
  <2>0. req[q] \in Request
    BY DEF TypeOK
  <2>1. CASE req'[q] = req[q]
    BY <1>3, <2>1
  <2>2. CASE Marked(q)
    BY <1>3, <2>0, <2>2 DEF Marked, Request
  <2>3. CASE LoginStep(q)
    BY <1>3, <2>3 DEF LoginStep, Login, Callback, Impersonate, TwoFactorVerify,
              TwoFactorWebauthnFinish, Authorize, Resolve, FactorGate, SecondFactor,
              PendingResolve, Record, Begin
  <2>4. CASE RevokeStep(q)
    <3>1. ReadSub(q) \/ RevokeAll(q)
      BY <1>3, <2>4 DEF RevokeStep, adminSetBan, adminSetDisabled, SetBlocked, DeleteStart,
                adminRevokeUserSessions, DeleteUser, SessionRevokeList, SessionRevokeEach,
                Begin
    <3>2. ReadSub(q)
      BY <1>1, <1>3, <3>1
    <3>3. req[q].pc = "readSub"
      BY <3>2 DEF ReadSub
    <3>4. Exists(u) => req'[q].user = u /\ req'[q].pc = "revokeAll"
      BY <1>3, <2>0, <3>2 DEF ReadSub, TypeOK, Request
    <3>. QED
      BY <3>3, <3>4
  <2>5. CASE Restart
    BY <1>0, <1>3, <2>5 DEF Restart, Offboarding
  <2>. QED
    BY <2>1, <2>2, <2>3, <2>4, <2>5, WhoMoves
<1>4. ASSUME Revoking(u) PROVE Revoking(u)' \/ u \in cut'
  <2>1. PICK q \in Requests : req[q].user = u /\ req[q].pc = "revokeAll"
    BY <1>4 DEF Revoking
  <2>2. (req'[q].user = u /\ req'[q].pc = "revokeAll") \/ u \in cut'
    BY <1>3, <2>1
  <2>. QED
    BY <2>2 DEF Revoking
<1>5. ASSUME Offboarding(u) PROVE Offboarding(u)' \/ u \in cut' \/ ~Exists(u)
  <2>1. PICK q \in Requests : req[q].user = u /\ req[q].pc \in {"readSub", "revokeAll"}
    BY <1>5 DEF Offboarding
  <2>2. \/ req'[q].user = u /\ req'[q].pc \in {"readSub", "revokeAll"}
        \/ u \in cut' \/ ~Exists(u)
    BY <1>3, <2>1
  <2>. QED
    BY <2>2 DEF Offboarding
<1>. QED
  BY <1>2, <1>4, <1>5

\* Subjects stay local and records stay with the user of their cookie.
LEMMA LocalStep ==
    ASSUME TypeOK, RecordOutlivesCookie, AllLocal, Matched, ~OIDC, [Next]_vars
    PROVE  AllLocal' /\ Matched'
<1>1. \A u \in Users : Exists(u)' => row'[u].sub = "local"
  BY RowMoves
<1>2. \A q \in Requests : req'[q].sub = "local"
  BY RequestMoves
<1>3. \A p \in pending' : p.sub = "local"
  <2>1. ASSUME NEW r \in Requests, FactorGate(r) PROVE \A p \in pending' : p.sub = "local"
    BY <2>1 DEF FactorGate, AllLocal
  <2>2. ASSUME NEW r \in Requests, LoginStep(r), ~FactorGate(r) PROVE pending' = pending
    BY <2>2 DEF LoginStep, Login, Callback, Impersonate, TwoFactorVerify,
                TwoFactorWebauthnFinish, Authorize, Resolve, SecondFactor,
                PendingResolve, Record
  <2>3. ASSUME NEW r \in Requests, RevokeStep(r) PROVE pending' = pending
    BY <2>3 DEF RevokeStep, adminSetBan, adminSetDisabled, SetBlocked, DeleteStart,
                adminRevokeUserSessions, ReadSub, DeleteUser, RevokeAll, SessionRevokeList,
                SessionRevokeEach
  <2>4. ASSUME Tick PROVE pending' \subseteq pending
    BY <2>4 DEF Tick
  <2>. QED
    BY <2>1, <2>2, <2>3, <2>4
    DEF Next, AllLocal, adminUnblock, Logout, PruneExpired, Restart, vars
<1>4. \A s \in Sids : /\ sess'[s] # None => /\ sess'[s].sub = "local"
                                            /\ sess'[s].user = cookie'[s].user
                      /\ cookie'[s] # None => cookie'[s].sub = "local"
  <2>1. CASE \E r \in Requests : Record(r)
    <3>1. PICK r \in Requests : Record(r)
      BY <2>1
    <3>2. req[r].sub = "local"
      BY DEF AllLocal
    <3>3. CASE UNCHANGED <<sess, cookie>>
      BY <3>3 DEF AllLocal, Matched
    <3>4. CASE ~ UNCHANGED <<sess, cookie>>
      <4>1. PICK x \in Sids :
              /\ cookie'[x].user = req[r].user /\ sess'[x].user = req[r].user
              /\ cookie'[x].sub = req[r].sub /\ sess'[x].sub = req[r].sub
              /\ \A t \in Sids \ {x} :
                    /\ cookie'[t] = cookie[t]
                    /\ sess'[t] = sess[t] \/ sess'[t] = None
        BY <3>1, <3>4, RecordStep
      <4>. QED
        BY <3>2, <4>1 DEF AllLocal, Matched
    <3>. QED
      BY <3>3, <3>4
  <2>2. CASE ~ \E r \in Requests : Record(r)
    BY <2>2, OtherStep DEF AllLocal, Matched, Shrinks
  <2>. QED
    BY <2>1, <2>2
<1>. QED
  BY <1>1, <1>2, <1>3, <1>4 DEF AllLocal, Matched, Exists

\* Logins that no off-boarding has overlapped stay clear.
LEMMA ClearStep ==
    ASSUME TypeOK, AllLocal, ~OIDC, LoginsClear, [Next]_vars
    PROVE  LoginsClear'
<1>. SUFFICES ASSUME NEW q \in Requests, req'[q].pc \in LoginPCs, ~req'[q].overlap,
                     NEW u, u = req'[q].user
              PROVE  /\ Exists(u)'
                     /\ req'[q].kind # "imp" => ~loginBlocked(u)'
  BY DEF LoginsClear, Exists, loginBlocked
<1>0. req[q] \in Request /\ u \in Users
  BY TypeStep DEF TypeOK, Request
<1>1. Exists(u) /\ (req'[q].kind # "imp" => ~loginBlocked(u))
  <2>1. CASE req'[q] = req[q]
    BY <2>1 DEF LoginsClear
  <2>2. CASE Marked(q)
    BY <1>0, <2>2 DEF Marked, Request
  <2>3. CASE Begun(req'[q])
    BY <2>3 DEF Begun
  <2>4. CASE Advanced(req[q], req'[q])
    BY <2>4 DEF Advanced, LoginsClear, LoginPCs
  <2>. QED
    BY <2>1, <2>2, <2>3, <2>4, RequestMoves
<1>2. Milder(u)
  BY <1>0, RowMoves DEF LoginsMarked, Wiped, LoginPCs
<1>. QED
  BY <1>1, <1>2 DEF Milder

\* NoneLeft is preserved: a step that blocks or deletes leaves a handler that
\* revokes, and that handler misses no session.
LEMMA NoneLeftStep ==
    ASSUME OffInv, ~OIDC, ~RevokeFaults, [Next]_vars
    PROVE  NoneLeft'
<1>. USE DEF OffInv
<1>. SUFFICES ASSUME NEW s \in Sids, Live(s)', ~cookie'[s].overlap,
                     NEW u, u = cookie'[s].user
              PROVE  /\ ~Exists(u)' => Revoking(u)' \/ u \in cut'
                     /\ loginBlocked(u)' /\ cookie'[s].kind # "imp"
                           => Offboarding(u)' \/ u \in cut'
  BY DEF NoneLeft, Exists, loginBlocked, Revoking, Offboarding
<1>0. /\ now \in Nat /\ now' \in Nat
      /\ cookie'[s] # None /\ u \in Users
      /\ sess'[s] # None
      /\ cookie[s] # None => cookie[s].exp \in Nat
  BY TypeStep, ConstantsAssumption DEF TypeOK, SessionClaims, Live, IsRevoked
<1>1. ASSUME cookie'[s] = cookie[s], now <= now', sess[s] # None, sess[s].revoked => sess'[s].revoked
      PROVE  /\ Live(s) /\ cookie[s] # None
             /\ ~Exists(u) => Revoking(u) \/ u \in cut
             /\ loginBlocked(u) /\ cookie'[s].kind # "imp" => Offboarding(u) \/ u \in cut
  <2>1. Live(s)
    BY <1>0, <1>1 DEF Live, IsRevoked
  <2>. QED
    BY <1>0, <1>1, <2>1 DEF NoneLeft
<1>2. CASE \E r \in Requests : Record(r)
  <2>1. PICK r \in Requests : Record(r)
    BY <1>2
  <2>2. UNCHANGED <<now, row, cut>> /\ req[r].pc = "record" /\ req' = [req EXCEPT ![r] = Idle]
    BY <2>1 DEF Record, Finish
  <2>3. CASE sess'[s] = sess[s] /\ cookie'[s] = cookie[s]
    <3>1. /\ ~Exists(u) => Revoking(u) \/ u \in cut
          /\ loginBlocked(u) /\ cookie'[s].kind # "imp" => Offboarding(u) \/ u \in cut
      BY <1>0, <1>1, <2>2, <2>3
    <3>2. \A q \in Requests : req[q].pc \in {"readSub", "revokeAll"} => req'[q] = req[q]
      BY <2>2 DEF TypeOK
    <3>3. (Revoking(u) => Revoking(u)') /\ (Offboarding(u) => Offboarding(u)')
      BY <3>2 DEF Revoking, Offboarding
    <3>. QED
      BY <2>2, <3>1, <3>3 DEF Exists, loginBlocked
  <2>4. CASE ~(sess'[s] = sess[s] /\ cookie'[s] = cookie[s])
    <3>1. /\ cookie'[s].user = req[r].user
          /\ cookie'[s].kind = req[r].kind
          /\ cookie'[s].overlap = req[r].overlap
      BY <1>0, <2>1, <2>4, RecordStep
    <3>. QED
      BY <2>2, <3>1 DEF LoginsClear, LoginPCs, Exists, loginBlocked
  <2>. QED
    BY <2>3, <2>4
<1>3. CASE ~ \E r \in Requests : Record(r)
  <2>1. cookie' = cookie /\ now <= now' /\ Shrinks
    BY <1>3, OtherStep
  <2>2. sess[s] # None /\ (sess[s].revoked => sess'[s].revoked)
    BY <1>0, <2>1 DEF Shrinks
  <2>3. /\ cookie[s] # None
        /\ ~Exists(u) => Revoking(u) \/ u \in cut
        /\ loginBlocked(u) /\ cookie'[s].kind # "imp" => Offboarding(u) \/ u \in cut
    BY <1>1, <2>1, <2>2
  <2>4. /\ Revoking(u) \/ u \in cut => Revoking(u)' \/ u \in cut'
        /\ Offboarding(u) \/ u \in cut => Offboarding(u)' \/ u \in cut' \/ ~Exists(u)
    BY <2>1, <2>3, RevocationHolds
  <2>5. CASE Milder(u)
    BY <2>3, <2>4, <2>5 DEF Milder, loginBlocked
  <2>6. CASE ~Milder(u)
    <3>1. \/ Exists(u)' /\ Offboarding(u)'
          \/ ~Exists(u)' /\ Revoking(u)'
      BY <1>0, <2>6, RowMoves DEF Wiped
    <3>. QED
      BY <3>1 DEF loginBlocked
  <2>. QED
    BY <2>5, <2>6
<1>. QED
  BY <1>2, <1>3

\* Once a ban, disable or delete has answered, every accepted session of that
\* user is of a login that the off-boarding overlapped, for every interleaving
\* of the handlers and on both stores: adminSetBan, adminSetDisabled and
\* DeleteUser write the row before they revoke, and every login method reads
\* it after.  It needs a store that does the revocation it is asked for, and one
\* subject per user.
THEOREM Offboarded ==
    ASSUME ~OIDC, ~RevokeFaults
    PROVE  Spec => []OffboardedUnlessOverlapping
<1>1. Init => OffInv
  <2>. SUFFICES ASSUME Init PROVE OffInv
    OBVIOUS
  <2>1. AllLocal /\ Matched /\ LoginsClear /\ NoneLeft
    BY DEF Init, AllLocal, Matched, LoginsClear, NoneLeft, LoginPCs, Idle, Live, Exists
  <2>2. RecordOutlivesCookie
    BY DEF Init, RecordOutlivesCookie, Idle
  <2>. QED
    BY <2>1, <2>2, TypeInit DEF OffInv
<1>2. OffInv /\ [Next]_vars => OffInv'
  BY TypeStep, OutlivesStep, LocalStep, ClearStep, NoneLeftStep DEF OffInv
<1>3. OffInv => OffboardedUnlessOverlapping
  BY DEF OffInv, NoneLeft, OffboardedUnlessOverlapping, Revoking, Offboarding
<1>. QED
  BY <1>1, <1>2, <1>3, PTL DEF Spec

-----------------------------------------------------------------------------
(* The second factor *)

\* The row with a second factor is the one that the login looked at, and a login
\* about to be recorded with one factor found no second one.
FactorsRead ==
    \A r \in Requests :
        /\ req[r].pc \in {"second", "presolve"} => req[r].kind = "2fa"
        /\ req[r].pc = "factor" /\ HasTOTP(req[r].user)
              => req[r].gen = row[req[r].user].gen
        /\ req[r].pc = "record" /\ req[r].kind \in {"login", "oidc"}
              => ~HasTOTP(req[r].user)

\* FactorsRead is preserved when no lookup fails.
LEMMA FactorsStep ==
    ASSUME TypeOK, AllLocal, ~OIDC, ~LookupFaults, FactorsRead, [Next]_vars
    PROVE  FactorsRead'
<1>. SUFFICES ASSUME NEW q \in Requests, NEW u, u = req'[q].user
              PROVE  /\ req'[q].pc \in {"second", "presolve"} => req'[q].kind = "2fa"
                     /\ req'[q].pc = "factor" /\ HasTOTP(u)' => req'[q].gen = row'[u].gen
                     /\ req'[q].pc = "record" /\ req'[q].kind \in {"login", "oidc"}
                           => ~HasTOTP(u)'
  BY DEF FactorsRead, HasTOTP, Exists
<1>0. req[q] \in Request /\ u \in Users
  BY TypeStep DEF TypeOK, Request
<1>1. HasTOTP(u)' => HasTOTP(u) /\ row'[u].gen = row[u].gen
  BY <1>0, RowMoves
<1>. SUFFICES /\ req'[q].pc \in {"second", "presolve"} => req'[q].kind = "2fa"
              /\ req'[q].pc = "factor" /\ HasTOTP(u) => req'[q].gen = row[u].gen
              /\ req'[q].pc = "record" /\ req'[q].kind \in {"login", "oidc"}
                    => ~HasTOTP(u)
  BY <1>1
<1>2. CASE req'[q] = req[q]
  BY <1>2 DEF FactorsRead
<1>3. CASE Marked(q)
  <2>1. /\ req'[q].pc = req[q].pc /\ req'[q].kind = req[q].kind
        /\ req'[q].gen = req[q].gen /\ req'[q].user = req[q].user
    BY <1>0, <1>3 DEF Marked, Request
  <2>. QED
    BY <2>1 DEF FactorsRead
<1>4. CASE req'[q].pc \notin LoginPCs
  BY <1>4 DEF LoginPCs
<1>5. CASE Begun(req'[q])
  BY <1>5 DEF Begun
<1>6. CASE Advanced(req[q], req'[q])
  <2>1. req[q].sub = "local" /\ (Exists(u) => row[u].sub = "local")
    BY <1>0 DEF AllLocal
  <2>. QED
    BY <1>6, <2>1 DEF Advanced, FactorsRead, HasTOTP, HasSub
<1>. QED
  BY <1>2, <1>3, <1>4, <1>5, <1>6, RequestMoves

FactorInv ==
    TypeOK /\ RecordOutlivesCookie /\ AllLocal /\ Matched /\ FactorsRead /\ SecondFactorKept

\* No session of a login with a single factor reaches a row with a confirmed
\* second factor, although completeLogin reads the user, then the TOTP state,
\* and records the session a call later: no handler of this module enrols, a
\* row that is created has no second factor, and the row read is the row kept.
\* It needs lookups that do not fail (completeLogin goes on when they do) and
\* the local subject (the OIDC callback has no gate).
THEOREM SecondFactorHolds ==
    ASSUME ~OIDC, ~LookupFaults
    PROVE  Spec => []SecondFactorKept
<1>1. Init => FactorInv
  <2>. SUFFICES ASSUME Init PROVE FactorInv
    OBVIOUS
  <2>1. AllLocal /\ Matched /\ FactorsRead /\ SecondFactorKept
    BY DEF Init, AllLocal, Matched, FactorsRead, SecondFactorKept, Idle, Exists
  <2>2. RecordOutlivesCookie
    BY DEF Init, RecordOutlivesCookie, Idle
  <2>. QED
    BY <2>1, <2>2, TypeInit DEF FactorInv
<1>2. FactorInv /\ [Next]_vars => SecondFactorKept'
  <2>. SUFFICES ASSUME FactorInv, [Next]_vars, NEW s \in Sids, NEW u, u = cookie'[s].user,
                       cookie'[s] # None, cookie'[s].kind \in {"login", "oidc"}
                PROVE  ~HasTOTP(u)'
    BY DEF SecondFactorKept, HasTOTP, Exists
  <2>0. u \in Users
    BY TypeStep DEF FactorInv, TypeOK, SessionClaims
  <2>. SUFFICES ~HasTOTP(u)
    BY <2>0, RowMoves DEF FactorInv
  <2>1. CASE cookie'[s] = cookie[s]
    BY <2>1 DEF FactorInv, SecondFactorKept, HasTOTP
  <2>2. CASE cookie'[s] # cookie[s]
    <3>1. PICK r \in Requests : Record(r)
      BY <2>2, OtherStep DEF FactorInv
    <3>2. cookie'[s].user = req[r].user /\ cookie'[s].kind = req[r].kind
      BY <2>2, <3>1, RecordStep DEF FactorInv
    <3>. QED
      BY <3>1, <3>2 DEF Record, FactorInv, FactorsRead
  <2>. QED
    BY <2>1, <2>2
<1>3. FactorInv /\ [Next]_vars => FactorInv'
  BY <1>2, TypeStep, OutlivesStep, LocalStep, FactorsStep DEF FactorInv
<1>4. FactorInv => SecondFactorKept
  BY DEF FactorInv
<1>. QED
  BY <1>1, <1>3, <1>4, PTL DEF Spec
=============================================================================
