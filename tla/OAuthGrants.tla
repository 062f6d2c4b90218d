---------------------------- MODULE OAuthGrants -----------------------------
(***************************************************************************)
(* The embedded OAuth provider from /authorize to refresh and revocation,   *)
(* for one client: authorization requests, codes, grants, access tokens and *)
(* rotating refresh tokens over an OAuthStore that every process shares.    *)
(*                                                                          *)
(* A handler is one step per store call.  An authorization request is read, *)
(* changed and saved as a whole, so a save may write back what was read     *)
(* before another save, or bring a deleted request back.  The zitadel       *)
(* library calls the storage in the order that the steps follow.            *)
(***************************************************************************)
EXTENDS Integers, FiniteSets

CONSTANTS
    Users,           \* subjects
    Procs,           \* processes serving the provider; one that restarts is a new one
    Requests,        \* slots for HTTP requests in flight
    Scopes,          \* scopes that the client asks for
    Refreshes,       \* may the client refresh (grant type refresh_token)
    Ends,            \* end dates that an approval may set, 0 for none
    authRequestTTL, codeTTL, AccessTokenTTL, RefreshTokenTTL,
    MaxAuth,         \* bound on the authorization requests ever made
    MaxCodes,        \* bound on the codes ever issued
    MaxGrants,       \* bound on the grants ever made
    MaxTokens,       \* bound on the pairs of tokens ever issued
    MaxTime,         \* bound on the clock
    None

ASSUME GrantsAssumption ==
    /\ Procs # {}
    /\ Refreshes \in BOOLEAN
    /\ authRequestTTL \in Nat /\ codeTTL \in Nat
    /\ AccessTokenTTL \in Nat /\ RefreshTokenTTL \in Nat
    /\ MaxAuth \in Nat /\ MaxCodes \in Nat /\ MaxGrants \in Nat
    /\ MaxTokens \in Nat /\ MaxTime \in Nat
    /\ Ends \subseteq Nat
    /\ None \notin Users

VARIABLES
    now,         \* the clock
    registered,  \* is the client in the store
    areq,        \* authorization requests by id
    grants,      \* grants by id
    access,      \* access tokens by number
    refresh,     \* refresh tokens by number
    codes,       \* by process, when each code was first presented to it, or None
    req,         \* HTTP requests in flight
    seq,         \* the last id handed out, of each kind
    approved,    \* history: the terms that users have approved
    exchanged,   \* history: by process, the codes it has answered with a request
    twice,       \* history: the codes that one process has answered twice
    spent,       \* history: by refresh token, its grant and expiry once used
    replayed     \* history: grants of which a used refresh token came again in time

store == <<registered, areq, grants, access, refresh>>
history == <<approved, exchanged, twice, spent, replayed>>
vars == <<now, store, codes, req, seq, history>>

-----------------------------------------------------------------------------
(* Data *)

AuthIds == 1 .. MaxAuth
Codes == 1 .. MaxCodes
Grants == 1 .. MaxGrants
Tokens == 1 .. MaxTokens

\* OAuthAuthRequest; code 0 is no code yet, end 0 is no end date.
AuthRequest ==
    [subject : Users \cup {None}, scopes : SUBSET Scopes, end : Nat, done : BOOLEAN,
     code : 0 .. MaxCodes, codeAt : Nat, created : Nat]

\* OAuthGrant, with the authorization request it came from.
Grant == [from : AuthIds, subject : Users, scopes : SUBSET Scopes, end : Nat,
          revoked : BOOLEAN]

\* What a user approves, and what a grant is for.
Terms == [from : AuthIds, subject : Users, scopes : SUBSET Scopes, end : Nat]
TermsOf(g) == [from |-> g.from, subject |-> g.subject, scopes |-> g.scopes, end |-> g.end]

OAuthAccessToken == [grant : Grants, scopes : SUBSET Scopes, exp : Nat]
OAuthRefreshToken == [grant : Grants, scopes : SUBSET Scopes, exp : Nat, used : BOOLEAN]

PCs == {"idle", "save", "delete", "saveCode", "byCode", "grant", "access", "refresh",
        "grantOf", "use", "revoke"}

\* The local variables of a handler: rec is its copy of an authorization request.
Request ==
    [pc : PCs, proc : Procs, id : 0 .. MaxAuth, rec : AuthRequest \cup {None},
     code : 0 .. MaxCodes, grant : 0 .. MaxGrants, tok : 0 .. MaxTokens,
     scopes : SUBSET Scopes, end : Nat]

Seq == [auth : 0 .. MaxAuth, code : 0 .. MaxCodes, grant : 0 .. MaxGrants,
        token : 0 .. MaxTokens]

ASSUME NoneAssumption ==
    None \notin Nat \cup AuthRequest \cup Grant \cup OAuthAccessToken \cup OAuthRefreshToken

Idle == [pc |-> "idle", proc |-> CHOOSE p \in Procs : TRUE, id |-> 0, rec |-> None,
         code |-> 0, grant |-> 0, tok |-> 0, scopes |-> {}, end |-> 0]

\* capTime: a token does not outlive an end date.
capTime(t, end) == IF end # 0 /\ end < t THEN end ELSE t

Ended(end) == end # 0 /\ now > end

\* storage.request: the request is there and not too old.
Open(id) == areq[id] # None /\ now - areq[id].created <= authRequestTTL

\* A code that was given out: the callback answers once it has saved the code.
Issued(c) == c <= seq.code /\ \A r \in Requests : req[r].pc = "save" => req[r].code # c

\* Verify: the access token and its grant are there and in force.
Verify(a) ==
    /\ access[a] # None
    /\ now < access[a].exp
    /\ grants[access[a].grant] # None
    /\ ~grants[access[a].grant].revoked
    /\ ~Ended(grants[access[a].grant].end)

\* A refresh token that an exchange would still accept.
Usable(t) ==
    /\ refresh[t] # None
    /\ ~refresh[t].used
    /\ now <= refresh[t].exp
    /\ grants[refresh[t].grant] # None
    /\ ~grants[refresh[t].grant].revoked
    /\ ~Ended(grants[refresh[t].grant].end)

-----------------------------------------------------------------------------
(* HTTP requests *)

Continue(r, rq) == req' = [req EXCEPT ![r] = rq]

Begin(r, rq) == req[r].pc = "idle" /\ Continue(r, rq)

Finish(r) == Continue(r, Idle)

\* A handler that will save rec as the request id.
Saving(id, rec) == [Idle EXCEPT !.pc = "save", !.id = id, !.rec = rec]

-----------------------------------------------------------------------------
(* The authorization request *)

\* CreateAuthRequest for a client that exists.
CreateAuthRequest ==
    /\ registered
    /\ seq.auth < MaxAuth
    /\ seq' = [seq EXCEPT !.auth = @ + 1]
    /\ areq' = [areq EXCEPT ![seq'.auth] =
                   [subject |-> None, scopes |-> Scopes, end |-> 0, done |-> FALSE,
                    code |-> 0, codeAt |-> 0, created |-> now]]
    /\ UNCHANGED <<now, registered, grants, access, refresh, codes, req, history>>

\* login: the signed-in user becomes the subject of a request not approved yet.
login(r, id, u) ==
    /\ Open(id) /\ ~areq[id].done
    /\ Begin(r, Saving(id, [areq[id] EXCEPT !.subject = u]))
    /\ UNCHANGED <<now, store, codes, seq, history>>

\* Approve: the subject grants some of the scopes, perhaps with an end date.
Approve(r, id, scopes, end) ==
    /\ Open(id) /\ ~areq[id].done /\ areq[id].subject # None
    /\ scopes \subseteq areq[id].scopes
    /\ Begin(r, Saving(id, [areq[id] EXCEPT !.scopes = scopes, !.end = end, !.done = TRUE]))
    /\ approved' = approved \cup {[from |-> id, subject |-> areq[id].subject,
                                   scopes |-> scopes, end |-> end]}
    /\ UNCHANGED <<now, store, codes, seq, exchanged, twice, spent, replayed>>

\* Deny, or redirectError in login: the request is deleted.
Deny(r, id) ==
    /\ Open(id) /\ ~areq[id].done
    /\ Begin(r, [Idle EXCEPT !.pc = "delete", !.id = id])
    /\ UNCHANGED <<now, store, codes, seq, history>>

\* The callback of zitadel reads the request, which must be approved ...
AuthorizeCallback(r, id) ==
    /\ registered
    /\ Open(id) /\ areq[id].done
    /\ Begin(r, [Idle EXCEPT !.pc = "saveCode", !.id = id])
    /\ UNCHANGED <<now, store, codes, seq, history>>

\* ... and SaveAuthCode reads it once more to put the code in.
SaveAuthCode(r) ==
    /\ req[r].pc = "saveCode"
    /\ LET id == req[r].id
       IN  \/ /\ Open(id)
              /\ seq.code < MaxCodes
              /\ seq' = [seq EXCEPT !.code = @ + 1]
              /\ LET rec == [areq[id] EXCEPT !.code = seq'.code, !.codeAt = now]
                 IN  Continue(r, [Saving(id, rec) EXCEPT !.code = seq'.code])
           \/ ~Open(id) /\ Finish(r) /\ UNCHANGED seq
    /\ UNCHANGED <<now, store, codes, history>>

\* SaveOAuthAuthRequest creates or replaces the whole record.
SaveOAuthAuthRequest(r) ==
    /\ req[r].pc = "save"
    /\ areq' = [areq EXCEPT ![req[r].id] = req[r].rec]
    /\ Finish(r)
    /\ UNCHANGED <<now, registered, grants, access, refresh, codes, seq, history>>

DeleteOAuthAuthRequest(r) ==
    /\ req[r].pc = "delete"
    /\ areq' = [areq EXCEPT ![req[r].id] = None]
    /\ Finish(r)
    /\ UNCHANGED <<now, registered, grants, access, refresh, codes, seq, history>>

-----------------------------------------------------------------------------
(* The code exchange *)

\* AuthRequestByCode: a process takes a code once and remembers it.
Exchange(r, p, c) ==
    /\ registered
    /\ Issued(c)
    /\ codes[p][c] = None
    /\ codes' = [codes EXCEPT ![p][c] = now]
    /\ Begin(r, [Idle EXCEPT !.pc = "byCode", !.proc = p, !.code = c])
    /\ UNCHANGED <<now, store, seq, history>>

\* Mutant: a code is taken as the sign that its request was approved.
OAuthAuthRequestByCodeUndone(r) ==
    /\ req[r].pc = "byCode"
    /\ \/ \E id \in AuthIds :
             /\ Open(id)
             /\ areq[id].code = req[r].code
             /\ now - areq[id].codeAt <= codeTTL
             /\ Continue(r, [Idle EXCEPT !.pc = "grant", !.id = id, !.rec = areq[id]])
       \/ Finish(r)
    /\ UNCHANGED <<now, store, codes, seq, history>>

\* The request with this code, if it is approved and both it and the code are in date.
\* The client's proof (PKCE, redirect) may be wrong.
OAuthAuthRequestByCode(r) ==
    /\ req[r].pc = "byCode"
    /\ \/ \E id \in AuthIds :
             /\ Open(id)
             /\ areq[id].code = req[r].code
             /\ areq[id].done
             /\ now - areq[id].codeAt <= codeTTL
             /\ Continue(r, [Idle EXCEPT !.pc = "grant", !.id = id, !.rec = areq[id]])
             /\ exchanged' = [exchanged EXCEPT ![req[r].proc] = @ \cup {req[r].code}]
             /\ twice' = twice \cup (exchanged[req[r].proc] \cap {req[r].code})
       \/ Finish(r) /\ UNCHANGED <<exchanged, twice>>
    /\ UNCHANGED <<now, store, codes, seq, approved, spent, replayed>>

\* grantFor: the approval becomes a grant, if the user may sign in.
CreateOAuthGrant(r) ==
    /\ req[r].pc = "grant"
    /\ seq.grant < MaxGrants
    /\ seq' = [seq EXCEPT !.grant = @ + 1]
    /\ LET rec == req[r].rec
       IN  /\ grants' = [grants EXCEPT ![seq'.grant] =
                            [from |-> req[r].id, subject |-> rec.subject,
                             scopes |-> rec.scopes, end |-> rec.end, revoked |-> FALSE]]
           /\ Continue(r, [Idle EXCEPT !.pc = "access", !.id = req[r].id, !.grant = seq'.grant,
                                       !.scopes = rec.scopes, !.end = rec.end])
    /\ UNCHANGED <<now, registered, areq, access, refresh, codes, history>>

\* Mutant: a refresh renews the access token of its grant instead of issuing another.
accessTokenRenewed(r) ==
    /\ req[r].pc = "access"
    /\ LET old == {t \in Tokens : access[t] # None /\ access[t].grant = req[r].grant}
       IN  \E t \in IF old = {} THEN {seq.token + 1} \cap Tokens ELSE old :
              /\ seq' = [seq EXCEPT !.token = IF t > @ THEN t ELSE @]
              /\ access' = [access EXCEPT ![t] =
                               [grant |-> req[r].grant, scopes |-> req[r].scopes,
                                exp |-> capTime(now + AccessTokenTTL, req[r].end)]]
              /\ Continue(r, [req[r] EXCEPT !.pc = IF Refreshes THEN "refresh" ELSE "delete",
                                            !.tok = t])
    /\ UNCHANGED <<now, registered, areq, grants, refresh, codes, history>>

\* accessToken, for an exchange or a refresh.  A client that may refresh gets a refresh
\* token with it (CreateAuthRequest adds the scope that asks for one), of the same number.
accessToken(r) ==
    /\ req[r].pc = "access"
    /\ seq.token < MaxTokens
    /\ seq' = [seq EXCEPT !.token = @ + 1]
    /\ access' = [access EXCEPT ![seq'.token] =
                     [grant |-> req[r].grant, scopes |-> req[r].scopes,
                      exp |-> capTime(now + AccessTokenTTL, req[r].end)]]
    /\ Continue(r, [req[r] EXCEPT !.pc = IF Refreshes THEN "refresh" ELSE "delete",
                                  !.tok = seq'.token])
    /\ UNCHANGED <<now, registered, areq, grants, refresh, codes, history>>

\* CreateOAuthRefreshToken; after an exchange the authorization request is deleted.
CreateOAuthRefreshToken(r) ==
    /\ req[r].pc = "refresh"
    /\ refresh' = [refresh EXCEPT ![req[r].tok] =
                      [grant |-> req[r].grant, scopes |-> req[r].scopes,
                       exp |-> capTime(now + RefreshTokenTTL, req[r].end), used |-> FALSE]]
    /\ Continue(r, IF req[r].id = 0 THEN Idle ELSE [Idle EXCEPT !.pc = "delete", !.id = req[r].id])
    /\ UNCHANGED <<now, registered, areq, grants, access, codes, seq, history>>

-----------------------------------------------------------------------------
(* Refresh *)

\* Does the presented token count as replayed: it was used and is not expired.
Replays(t) == spent[t] # None /\ now <= spent[t].exp

\* TokenRequestByRefreshToken: a used token ends its grant, before any other check.
TokenRequestByRefreshToken(r, t) ==
    /\ registered
    /\ t <= seq.token
    /\ \/ /\ refresh[t] # None /\ refresh[t].used
          /\ Begin(r, [Idle EXCEPT !.pc = "revoke", !.grant = refresh[t].grant])
       \/ /\ refresh[t] # None /\ ~refresh[t].used
          /\ now <= refresh[t].exp
          /\ Begin(r, [Idle EXCEPT !.pc = "grantOf", !.tok = t, !.grant = refresh[t].grant,
                                   !.scopes = refresh[t].scopes])
       \/ /\ refresh[t] = None
          /\ Replays(t)
          /\ req[r].pc = "idle" /\ UNCHANGED req
    /\ replayed' = IF Replays(t) THEN replayed \cup {spent[t].grant} ELSE replayed
    /\ UNCHANGED <<now, store, codes, seq, approved, exchanged, twice, spent>>

\* The grant must be live; a refresh may ask for fewer scopes.
OAuthGrant(r) ==
    /\ req[r].pc = "grantOf"
    /\ LET g == req[r].grant
       IN  \/ /\ grants[g] # None /\ ~grants[g].revoked /\ ~Ended(grants[g].end)
              /\ \E scopes \in SUBSET req[r].scopes :
                    Continue(r, [req[r] EXCEPT !.pc = "use", !.scopes = scopes,
                                               !.end = grants[g].end])
           \/ Finish(r)
    /\ UNCHANGED <<now, store, codes, seq, history>>

\* Mutant: the token is marked, but not looked at.
UseOAuthRefreshTokenBlind(r) ==
    /\ req[r].pc = "use"
    /\ LET t == req[r].tok
       IN  /\ refresh[t] # None
           /\ refresh' = [refresh EXCEPT ![t].used = TRUE]
           /\ spent' = [spent EXCEPT ![t] = [grant |-> req[r].grant, exp |-> refresh[t].exp]]
           /\ Continue(r, [req[r] EXCEPT !.pc = "access", !.tok = 0])
    /\ UNCHANGED <<now, registered, areq, grants, access, codes, seq, approved, exchanged, twice, replayed>>

\* Rotation: the token is used up in one atomic call.  Who comes second ends the
\* grant; who comes first goes on if the grant, as read before, has not ended and the
\* user may sign in.
UseOAuthRefreshToken(r) ==
    /\ req[r].pc = "use"
    /\ LET t == req[r].tok
       IN  \/ /\ refresh[t] # None /\ ~refresh[t].used
              /\ refresh' = [refresh EXCEPT ![t].used = TRUE]
              /\ spent' = [spent EXCEPT ![t] = [grant |-> req[r].grant, exp |-> refresh[t].exp]]
              /\ \/ ~Ended(req[r].end) /\ Continue(r, [req[r] EXCEPT !.pc = "access", !.tok = 0])
                 \/ Finish(r)
              /\ UNCHANGED replayed
           \/ /\ refresh[t] # None /\ refresh[t].used
              /\ replayed' = replayed \cup {req[r].grant}
              /\ Continue(r, [Idle EXCEPT !.pc = "revoke", !.grant = req[r].grant])
              /\ UNCHANGED <<refresh, spent>>
           \/ refresh[t] = None /\ Finish(r) /\ UNCHANGED <<refresh, spent, replayed>>
    /\ UNCHANGED <<now, registered, areq, grants, access, codes, seq, approved, exchanged, twice>>

-----------------------------------------------------------------------------
(* Revocation, clean-up, failures *)

Revoked(G) ==
    [g \in Grants |-> IF g \in G /\ grants[g] # None
                      THEN [grants[g] EXCEPT !.revoked = TRUE] ELSE grants[g]]

\* revokeGrant after a replay.
RevokeReplayed(r) ==
    /\ req[r].pc = "revoke"
    /\ grants' = Revoked({req[r].grant})
    /\ Finish(r)
    /\ UNCHANGED <<now, registered, areq, access, refresh, codes, seq, history>>

\* RevokeGrant, RevokeRef and TerminateSession, and RevokeToken with a refresh token.
RevokeOAuthGrants ==
    /\ \E G \in {{g} : g \in Grants}
                \cup {{g \in Grants : grants[g] # None /\ grants[g].from = id} : id \in AuthIds}
                \cup {{g \in Grants : grants[g] # None /\ grants[g].subject = u} : u \in Users} :
          grants' = Revoked(G)
    /\ UNCHANGED <<now, registered, areq, access, refresh, codes, req, seq, history>>

\* RevokeToken with an access token.
DeleteOAuthAccessToken(a) ==
    /\ access' = [access EXCEPT ![a] = None]
    /\ UNCHANGED <<now, registered, areq, grants, refresh, codes, req, seq, history>>

\* The app deletes the client, or clean-up finds it unused for long: everything
\* issued to it goes.
DeleteOAuthClient ==
    /\ registered' = FALSE
    /\ areq' = [id \in AuthIds |-> None]
    /\ grants' = [g \in Grants |-> None]
    /\ access' = [a \in Tokens |-> None]
    /\ refresh' = [t \in Tokens |-> None]
    /\ UNCHANGED <<now, codes, req, seq, history>>

\* A grant that clean-up removes.
Dead(g) == grants[g] # None /\ (grants[g].revoked \/ Ended(grants[g].end))

\* Mutant: used refresh tokens are cleared away at once.
DeleteExpiredOAuthUsed ==
    /\ refresh' = [t \in Tokens |-> IF refresh[t] # None /\ refresh[t].used
                                    THEN None ELSE refresh[t]]
    /\ UNCHANGED <<now, registered, areq, grants, access, codes, req, seq, history>>

\* Mutant: access tokens go one tick before they expire.
DeleteExpiredOAuthEarly ==
    /\ access' = [a \in Tokens |-> IF access[a] # None /\ access[a].exp <= now + 1
                                   THEN None ELSE access[a]]
    /\ UNCHANGED <<now, registered, areq, grants, refresh, codes, req, seq, history>>

\* DeleteExpiredOAuth: old requests, expired tokens, dead grants with their tokens.
DeleteExpiredOAuth ==
    /\ areq' = [id \in AuthIds |->
                   IF areq[id] # None /\ areq[id].created < now - authRequestTTL
                   THEN None ELSE areq[id]]
    /\ access' = [a \in Tokens |->
                     IF access[a] # None /\ (access[a].exp < now \/ Dead(access[a].grant))
                     THEN None ELSE access[a]]
    /\ refresh' = [t \in Tokens |->
                      IF refresh[t] # None /\ (refresh[t].exp < now \/ Dead(refresh[t].grant))
                      THEN None ELSE refresh[t]]
    /\ grants' = [g \in Grants |-> IF Dead(g) THEN None ELSE grants[g]]
    /\ UNCHANGED <<now, registered, codes, req, seq, history>>

\* Mutant: a process forgets every code that was exchanged.
forgetCodesAll(p) ==
    /\ codes' = [codes EXCEPT ![p] = [c \in Codes |-> None]]
    /\ UNCHANGED <<now, store, req, seq, history>>

\* A process forgets a code when no request can be young enough for it any more.
forgetCodes(p) ==
    /\ codes' = [codes EXCEPT ![p] =
                    [c \in Codes |-> IF @[c] # None /\ now - @[c] > authRequestTTL
                                     THEN None ELSE @[c]]]
    /\ UNCHANGED <<now, store, req, seq, history>>

\* A store call fails or the process of the request stops: the handler goes no further.
\* Where it was to end a grant after a replay, that is lost (revokeGrant logs the error).
Fail(r) ==
    /\ req[r].pc # "idle"
    /\ Finish(r)
    /\ replayed' = IF req[r].pc = "revoke" THEN replayed \ {req[r].grant} ELSE replayed
    /\ UNCHANGED <<now, store, codes, seq, approved, exchanged, twice, spent>>

Tick ==
    /\ now < MaxTime
    /\ now' = now + 1
    /\ UNCHANGED <<store, codes, req, seq, history>>

-----------------------------------------------------------------------------
Init ==
    /\ now = 0
    /\ registered = TRUE
    /\ areq = [id \in AuthIds |-> None]
    /\ grants = [g \in Grants |-> None]
    /\ access = [a \in Tokens |-> None]
    /\ refresh = [t \in Tokens |-> None]
    /\ codes = [p \in Procs |-> [c \in Codes |-> None]]
    /\ req = [r \in Requests |-> Idle]
    /\ seq = [auth |-> 0, code |-> 0, grant |-> 0, token |-> 0]
    /\ approved = {}
    /\ exchanged = [p \in Procs |-> {}]
    /\ twice = {}
    /\ spent = [t \in Tokens |-> None]
    /\ replayed = {}

Consent(r) ==
    \/ \E id \in AuthIds :
          \/ \E u \in Users : login(r, id, u)
          \/ \E scopes \in SUBSET Scopes, end \in Ends : Approve(r, id, scopes, end)
          \/ Deny(r, id)
          \/ AuthorizeCallback(r, id)
    \/ SaveAuthCode(r) \/ SaveOAuthAuthRequest(r) \/ DeleteOAuthAuthRequest(r)

Token(r) ==
    \/ \E p \in Procs, c \in Codes : Exchange(r, p, c)
    \/ OAuthAuthRequestByCode(r) \/ CreateOAuthGrant(r)
    \/ accessToken(r) \/ CreateOAuthRefreshToken(r)
    \/ \E t \in Tokens : TokenRequestByRefreshToken(r, t)
    \/ OAuthGrant(r) \/ UseOAuthRefreshToken(r) \/ RevokeReplayed(r)

Next ==
    \/ \E r \in Requests : Consent(r) \/ Token(r) \/ Fail(r)
    \/ CreateAuthRequest
    \/ RevokeOAuthGrants
    \/ \E a \in Tokens : DeleteOAuthAccessToken(a)
    \/ DeleteOAuthClient
    \/ DeleteExpiredOAuth
    \/ \E p \in Procs : forgetCodes(p)
    \/ Tick

Spec == Init /\ [][Next]_vars

-----------------------------------------------------------------------------
(* Properties *)

\* The unused refresh tokens of a grant, and the requests that will make one.
Unused(g) == {t \in Tokens : refresh[t] # None /\ refresh[t].grant = g /\ ~refresh[t].used}
Minting(g) == {r \in Requests : /\ req[r].grant = g /\ Refreshes
                                 /\ req[r].pc \in {"access", "refresh"}}

\* Type correctness of the stored records, the requests and the histories.
TypeOK ==
    /\ now \in 0 .. MaxTime
    /\ registered \in BOOLEAN
    /\ areq \in [AuthIds -> AuthRequest \cup {None}]
    /\ grants \in [Grants -> Grant \cup {None}]
    /\ access \in [Tokens -> OAuthAccessToken \cup {None}]
    /\ refresh \in [Tokens -> OAuthRefreshToken \cup {None}]
    /\ codes \in [Procs -> [Codes -> Nat \cup {None}]]
    /\ req \in [Requests -> Request]
    /\ seq \in Seq
    /\ approved \subseteq Terms
    /\ exchanged \in [Procs -> SUBSET Codes]
    /\ twice \subseteq Codes
    /\ spent \in [Tokens -> [grant : Grants, exp : Nat] \cup {None}]
    /\ replayed \subseteq Grants

\* Every grant is on terms that its subject approved, and its tokens carry no more
\* scopes and last no longer, although requests are saved as a whole from copies that
\* may be stale (login, Approve, SaveAuthCode).
WithinApproval ==
    /\ \A g \in Grants : grants[g] # None => TermsOf(grants[g]) \in approved
    /\ \A t \in Tokens :
          /\ access[t] # None /\ grants[access[t].grant] # None =>
                LET g == grants[access[t].grant]
                IN  access[t].scopes \subseteq g.scopes /\ (g.end # 0 => access[t].exp <= g.end)
          /\ refresh[t] # None /\ grants[refresh[t].grant] # None =>
                LET g == grants[refresh[t].grant]
                IN  refresh[t].scopes \subseteq g.scopes /\ (g.end # 0 => refresh[t].exp <= g.end)

\* The refresh tokens of a grant form one chain: there is one token that was not used, or
\* one request that is about to make one, never two, however many requests present the
\* same token at once (UseOAuthRefreshToken).
OneRefreshChain ==
    \A g \in Grants :
        /\ \A t, u \in Unused(g) : t = u
        /\ \A r, s \in Minting(g) : r = s
        /\ Unused(g) = {} \/ Minting(g) = {}

\* When a refresh token comes again after it was used and before it expires, its grant
\* ends, whichever of the two requests noticed: none of its tokens works any more, unless
\* the call that ends the grant itself is lost.
ReplayEndsGrant ==
    \A g \in replayed :
        \/ \E r \in Requests : req[r].pc = "revoke" /\ req[r].grant = g
        \/ \A t \in Tokens : /\ Verify(t) => access[t].grant # g
                             /\ Usable(t) => refresh[t].grant # g

\* A process answers a code with its request once at most, as long as it runs: the code
\* is still remembered, or the request is too old (AuthRequestByCode, forgetCodes).
CodeOncePerProcess == twice = {}

\* Clean-up takes away nothing that still works.
CleanUpIsInvisible ==
    [][DeleteExpiredOAuth => \A t \in Tokens : /\ Verify(t) => Verify(t)'
                                               /\ Usable(t) => Usable(t)']_vars

\* What a client makes of a token: it was given out, it still works.  A request gives out
\* the refresh token of a number when it has stored it, or will not.
GivenOut(kind, t) ==
    /\ t <= seq.token
    /\ kind = "refresh" =>
          Refreshes /\ \A r \in Requests : req[r].pc = "refresh" => req[r].tok # t
Works(kind, t) == IF kind = "access" THEN Verify(t) ELSE Usable(t)

TokenStatus ==
    [k \in {"access", "refresh"} \X Tokens |->
        IF ~GivenOut(k[1], k[2]) THEN "unissued"
        ELSE IF Works(k[1], k[2]) THEN "accepted" ELSE "refused"]

Abs == INSTANCE SessionAbs WITH Sids <- {"access", "refresh"} \X Tokens, status <- TokenStatus

\* A token that was refused once is refused for ever, whatever ended it (rotation, a
\* replay, revocation, clean-up, the deletion of the client), although exchanges and
\* refreshes that began before go on writing (accessToken, UseOAuthRefreshToken).  Stated
\* as refinement: tokens implement what SessionAbs promises of sessions.
TokensEndForGood == Abs!Spec

\* An approval becomes one grant (oauthstore.go: "one per approval").
OneGrantPerApproval ==
    \A g, h \in Grants : grants[g] # None /\ grants[h] # None
                           /\ grants[g].from = grants[h].from => g = h
=============================================================================
