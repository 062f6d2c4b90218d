-------------------------- MODULE OAuthGrantsProofs -------------------------
(***************************************************************************)
(* Proofs about OAuthGrants: grants and tokens stay within what the user    *)
(* approved, the refresh tokens of a grant form one chain, a replay ends    *)
(* the grant, a code is answered once and a token that was refused stays    *)
(* refused, for any number of users, processes, requests, scopes, codes,    *)
(* grants and tokens.                                                       *)
(***************************************************************************)
EXTENDS OAuthGrants, TLAPS

-----------------------------------------------------------------------------
(* Types *)

\* An idle slot is well typed.
LEMMA IdleType == Idle \in Request /\ Idle.pc = "idle"
<1>1. (CHOOSE p \in Procs : TRUE) \in Procs
  BY GrantsAssumption
<1>. QED
  BY <1>1, GrantsAssumption DEF Idle, Request, PCs

\* The empty record is no record.
LEMMA NoneType ==
    /\ None \notin AuthRequest /\ None \notin Grant
    /\ None \notin OAuthAccessToken /\ None \notin OAuthRefreshToken
BY NoneAssumption

\* The slots that handlers put together are well typed.
LEMMA IdleForms ==
    /\ \A id \in AuthIds, rec \in AuthRequest : Saving(id, rec) \in Request
    /\ \A id \in AuthIds, rec \in AuthRequest, c \in Codes :
          [Saving(id, rec) EXCEPT !.code = c] \in Request
    /\ \A id \in AuthIds : /\ [Idle EXCEPT !.pc = "delete", !.id = id] \in Request
                           /\ [Idle EXCEPT !.pc = "saveCode", !.id = id] \in Request
    /\ \A p \in Procs, c \in Codes :
          [Idle EXCEPT !.pc = "byCode", !.proc = p, !.code = c] \in Request
    /\ \A id \in AuthIds, rec \in AuthRequest :
          [Idle EXCEPT !.pc = "grant", !.id = id, !.rec = rec] \in Request
    /\ \A id \in AuthIds, g \in Grants, scopes \in SUBSET Scopes, end \in Nat :
          [Idle EXCEPT !.pc = "access", !.id = id, !.grant = g, !.scopes = scopes,
                       !.end = end] \in Request
    /\ \A t \in Tokens, g \in Grants, scopes \in SUBSET Scopes :
          [Idle EXCEPT !.pc = "grantOf", !.tok = t, !.grant = g, !.scopes = scopes] \in Request
    /\ \A g \in Grants : [Idle EXCEPT !.pc = "revoke", !.grant = g] \in Request
<1>1. /\ AuthIds \subseteq 0 .. MaxAuth /\ Codes \subseteq 0 .. MaxCodes
      /\ Grants \subseteq 0 .. MaxGrants /\ Tokens \subseteq 0 .. MaxTokens
  BY GrantsAssumption DEF AuthIds, Codes, Grants, Tokens
<1>2. /\ Idle \in Request
      /\ {"save", "delete", "saveCode", "byCode", "grant", "access", "grantOf", "revoke"}
             \subseteq PCs
  BY IdleType DEF PCs
<1>3. ASSUME NEW id \in AuthIds, NEW rec \in AuthRequest PROVE Saving(id, rec) \in Request
  BY <1>1, <1>2 DEF Saving, Request
<1>4. ASSUME NEW id \in AuthIds, NEW rec \in AuthRequest, NEW c \in Codes
      PROVE  [Saving(id, rec) EXCEPT !.code = c] \in Request
  BY <1>1, <1>3 DEF Request
<1>5. ASSUME NEW id \in AuthIds
      PROVE  /\ [Idle EXCEPT !.pc = "delete", !.id = id] \in Request
             /\ [Idle EXCEPT !.pc = "saveCode", !.id = id] \in Request
  BY <1>1, <1>2 DEF Request
<1>6. ASSUME NEW p \in Procs, NEW c \in Codes
      PROVE  [Idle EXCEPT !.pc = "byCode", !.proc = p, !.code = c] \in Request
  BY <1>1, <1>2 DEF Request
<1>7. ASSUME NEW id \in AuthIds, NEW rec \in AuthRequest
      PROVE  [Idle EXCEPT !.pc = "grant", !.id = id, !.rec = rec] \in Request
  BY <1>1, <1>2 DEF Request
<1>8. ASSUME NEW id \in AuthIds, NEW g \in Grants, NEW scopes \in SUBSET Scopes, NEW end \in Nat
      PROVE  [Idle EXCEPT !.pc = "access", !.id = id, !.grant = g, !.scopes = scopes,
                          !.end = end] \in Request
  BY <1>1, <1>2 DEF Request
<1>9. ASSUME NEW t \in Tokens, NEW g \in Grants, NEW scopes \in SUBSET Scopes
      PROVE  [Idle EXCEPT !.pc = "grantOf", !.tok = t, !.grant = g, !.scopes = scopes]
                 \in Request
  BY <1>1, <1>2 DEF Request
<1>10. ASSUME NEW g \in Grants PROVE [Idle EXCEPT !.pc = "revoke", !.grant = g] \in Request
  BY <1>1, <1>2 DEF Request
<1>. QED
  BY <1>3, <1>4, <1>5, <1>6, <1>7, <1>8, <1>9, <1>10

\* The same for slots that are carried on.
LEMMA NextForms ==
    ASSUME NEW q \in Request
    PROVE  /\ \A t \in Tokens, pc \in {"refresh", "delete"} :
                 [q EXCEPT !.pc = pc, !.tok = t] \in Request
           /\ \A scopes \in SUBSET Scopes, end \in Nat :
                 [q EXCEPT !.pc = "use", !.scopes = scopes, !.end = end] \in Request
           /\ [q EXCEPT !.pc = "access", !.tok = 0] \in Request
<1>1. Tokens \subseteq 0 .. MaxTokens /\ 0 \in 0 .. MaxTokens
  BY GrantsAssumption DEF Tokens
<1>2. {"refresh", "delete", "use", "access"} \subseteq PCs
  BY DEF PCs
<1>3. ASSUME NEW t \in Tokens, NEW pc \in {"refresh", "delete"}
      PROVE  [q EXCEPT !.pc = pc, !.tok = t] \in Request
  BY <1>1, <1>2 DEF Request
<1>4. ASSUME NEW scopes \in SUBSET Scopes, NEW end \in Nat
      PROVE  [q EXCEPT !.pc = "use", !.scopes = scopes, !.end = end] \in Request
  BY <1>1, <1>2 DEF Request
<1>5. [q EXCEPT !.pc = "access", !.tok = 0] \in Request
  BY <1>1, <1>2 DEF Request
<1>. QED
  BY <1>3, <1>4, <1>5

\* The tokens that are issued are well typed.
LEMMA TokenForms ==
    ASSUME NEW g \in Grants, NEW scopes \in SUBSET Scopes, NEW exp \in Nat
    PROVE  /\ [grant |-> g, scopes |-> scopes, exp |-> exp] \in OAuthAccessToken
           /\ [grant |-> g, scopes |-> scopes, exp |-> exp, used |-> FALSE] \in OAuthRefreshToken
BY DEF OAuthAccessToken, OAuthRefreshToken

\* What a handler holds when it has put x in its slot.
LEMMA OneRequest ==
    ASSUME req \in [Requests -> Request], NEW r \in Requests, NEW x \in Request,
           req' = [req EXCEPT ![r] = x]
    PROVE  /\ req' \in [Requests -> Request]
           /\ req'[r] = x
           /\ \A s \in Requests : s # r => req'[s] = req[s]
OBVIOUS

\* The terms that an approved authorization request stands for.
Asked(id, rec) ==
    [from |-> id, subject |-> rec.subject, scopes |-> rec.scopes, end |-> rec.end]

\* The grants that are stored or that a token names have been made.
Numbered ==
    /\ \A g \in Grants : grants[g] # None => g \in 1 .. seq.grant
    /\ \A t \in Tokens : access[t] # None => access[t].grant \in 1 .. seq.grant
    /\ \A t \in Tokens : refresh[t] # None => refresh[t].grant \in 1 .. seq.grant

\* The tables, the counters and the histories are in order.
Tables ==
    /\ now \in 0 .. MaxTime
    /\ registered \in BOOLEAN
    /\ areq \in [AuthIds -> AuthRequest \cup {None}]
    /\ grants \in [Grants -> Grant \cup {None}]
    /\ access \in [Tokens -> OAuthAccessToken \cup {None}]
    /\ refresh \in [Tokens -> OAuthRefreshToken \cup {None}]
    /\ codes \in [Procs -> [Codes -> Nat \cup {None}]]
    /\ seq \in Seq
    /\ approved \subseteq Terms
    /\ exchanged \in [Procs -> SUBSET Codes]
    /\ twice \subseteq Codes
    /\ spent \in [Tokens -> [grant : Grants, exp : Nat] \cup {None}]
    /\ replayed \subseteq Grants
    /\ \A id \in AuthIds : areq[id] # None /\ areq[id].done => Asked(id, areq[id]) \in approved
    /\ \A g \in Grants : grants[g] # None => TermsOf(grants[g]) \in approved
    /\ Numbered

\* What a request x may hold when the counters are at q and the terms ap are approved.
Holds(x, q, ap) ==
    /\ x.pc = "saveCode" => x.id \in AuthIds
    /\ x.pc = "byCode" => x.code \in Codes
    /\ x.pc \in {"save", "grant"} => x.rec \in AuthRequest /\ x.id \in AuthIds
    /\ x.pc = "grant" => x.rec.done
    /\ x.pc \in {"access", "refresh", "grantOf", "use", "revoke"} => x.grant \in 1 .. q.grant
    /\ x.pc \in {"refresh", "grantOf", "use"} => x.tok \in 1 .. q.token
    /\ x.pc \in {"save", "grant"} /\ x.rec.done => Asked(x.id, x.rec) \in ap

\* The inductive core: the tables are in order and so is every request.
Core ==
    /\ Tables
    /\ req \in [Requests -> Request]
    /\ \A r \in Requests : Holds(req[r], seq, approved)

\* The core gives the types.
LEMMA CoreType == Core => TypeOK
BY DEF Core, Tables, TypeOK

\* A step that keeps the tables in order, never counts back and never forgets an
\* approval keeps the core, if the one request that it changes is in order.
LEMMA RequestStep ==
    ASSUME Core, Tables', NEW r \in Requests, NEW x \in Request,
           req' = [req EXCEPT ![r] = x],
           seq.grant <= seq'.grant, seq.token <= seq'.token, approved \subseteq approved',
           Holds(x, seq', approved')
    PROVE  Core'
<1>1. /\ req' \in [Requests -> Request] /\ req'[r] = x
      /\ \A s \in Requests : s # r => req'[s] = req[s]
  BY OneRequest DEF Core
<1>2. seq \in Seq /\ seq' \in Seq
  BY DEF Core, Tables
<1>3. ASSUME NEW s \in Requests PROVE Holds(req'[s], seq', approved')
  <2>1. CASE s = r
    BY <1>1, <2>1 DEF Holds
  <2>2. CASE s # r
    <3>1. req'[s] = req[s] /\ Holds(req[s], seq, approved)
      BY <1>1, <2>2 DEF Core
    <3>. QED
      BY <1>2, <3>1, GrantsAssumption DEF Holds, Seq
  <2>. QED
    BY <2>1, <2>2
<1>. QED
  BY <1>1, <1>3 DEF Core

\* A step that changes no request, likewise.
LEMMA TableStep ==
    ASSUME Core, Tables', UNCHANGED req,
           seq.grant <= seq'.grant, seq.token <= seq'.token, approved \subseteq approved'
    PROVE  Core'
<1>2. seq \in Seq /\ seq' \in Seq
  BY DEF Core, Tables
<1>3. ASSUME NEW s \in Requests PROVE Holds(req'[s], seq', approved')
  <2>1. Holds(req[s], seq, approved)
    BY DEF Core
  <2>. QED
    BY <1>2, <2>1, GrantsAssumption DEF Holds, Seq
<1>. QED
  BY <1>3 DEF Core

\* Counters that do not move do not count back.
LEMMA SameSeq == Core /\ UNCHANGED seq => seq.grant <= seq'.grant /\ seq.token <= seq'.token
BY GrantsAssumption DEF Core, Tables, Seq

\* An idle request holds nothing.
LEMMA IdleHolds == \A q, ap : Holds(Idle, q, ap)
BY IdleType DEF Holds, Idle

\* A request that is done leaves everything in order.
LEMMA FinishStep ==
    ASSUME Core, Tables', NEW r \in Requests, Finish(r),
           seq.grant <= seq'.grant, seq.token <= seq'.token, approved \subseteq approved'
    PROVE  Core'
BY RequestStep, IdleType, IdleHolds DEF Finish, Continue
-----------------------------------------------------------------------------
(* The core is inductive *)

\* Consent: a request that was read is changed and will be saved as a whole.
LEMMA ConsentSteps ==
    ASSUME Core, NEW r \in Requests, NEW id \in AuthIds,
           \/ \E u \in Users : login(r, id, u)
           \/ \E scopes \in SUBSET Scopes, end \in Ends : Approve(r, id, scopes, end)
           \/ Deny(r, id)
           \/ AuthorizeCallback(r, id)
    PROVE  Core'
<1>. USE GrantsAssumption, NoneType
<1>1. ASSUME NEW u \in Users, login(r, id, u) PROVE Core'
  <2>. DEFINE rec == [areq[id] EXCEPT !.subject = u]
              x == Saving(id, rec)
  <2>1. rec \in AuthRequest /\ ~rec.done
    BY <1>1 DEF login, Open, Core, Tables, AuthRequest
  <2>2. req' = [req EXCEPT ![r] = x] /\ Tables' /\ UNCHANGED <<seq, approved>>
    BY <1>1 DEF login, Begin, Continue, Core, Tables, Numbered, store, history
  <2>. HIDE DEF rec
  <2>3. x \in Request /\ Holds(x, seq', approved')
    BY <2>1, IdleForms DEF Holds, Saving, Idle
  <2>. QED
    BY <2>2, <2>3, RequestStep, SameSeq
<1>2. ASSUME NEW scopes \in SUBSET Scopes, NEW end \in Ends, Approve(r, id, scopes, end)
      PROVE  Core'
  <2>. DEFINE rec == [areq[id] EXCEPT !.scopes = scopes, !.end = end, !.done = TRUE]
              x == Saving(id, rec)
  <2>1. /\ rec \in AuthRequest
        /\ rec.subject = areq[id].subject /\ rec.subject \in Users
        /\ rec.scopes = scopes /\ rec.end = end
    BY <1>2 DEF Approve, Open, Core, Tables, AuthRequest
  <2>2. req' = [req EXCEPT ![r] = x] /\ UNCHANGED seq
    BY <1>2 DEF Approve, Begin, Continue
  <2>3. /\ approved \subseteq approved' /\ approved' \subseteq Terms
        /\ Asked(id, rec) \in approved'
    <3>1. Asked(id, rec) \in Terms
      BY <2>1 DEF Asked, Terms
    <3>2. approved' = approved \cup {Asked(id, rec)}
      BY <1>2, <2>1 DEF Approve, Asked
    <3>. QED
      BY <3>1, <3>2 DEF Core, Tables
  <2>4. Tables'
    BY <1>2, <2>3 DEF Approve, Core, Tables, Numbered, store
  <2>. HIDE DEF rec
  <2>5. x \in Request /\ Holds(x, seq', approved')
    BY <2>1, <2>3, IdleForms DEF Holds, Saving, Idle
  <2>. QED
    BY <2>2, <2>3, <2>4, <2>5, RequestStep, SameSeq
<1>3. ASSUME NEW pc \in {"delete", "saveCode"}, Deny(r, id) \/ AuthorizeCallback(r, id),
             req' = [req EXCEPT ![r] = [Idle EXCEPT !.pc = pc, !.id = id]]
      PROVE  Core'
  <2>. DEFINE x == [Idle EXCEPT !.pc = pc, !.id = id]
  <2>1. Tables' /\ UNCHANGED <<seq, approved>>
    BY <1>3 DEF Deny, AuthorizeCallback, Core, Tables, Numbered, store, history
  <2>2. x \in Request /\ Holds(x, seq', approved')
    BY IdleForms DEF Holds, Idle
  <2>. QED
    BY <1>3, <2>1, <2>2, RequestStep, SameSeq
<1>. QED
  BY <1>1, <1>2, <1>3 DEF Deny, AuthorizeCallback, Begin, Continue

\* A request that is saved was changed from one that was stored.
LEMMA SaveSteps ==
    ASSUME Core, NEW r \in Requests,
           SaveAuthCode(r) \/ SaveOAuthAuthRequest(r) \/ DeleteOAuthAuthRequest(r)
    PROVE  Core'
<1>. USE GrantsAssumption, NoneType
<1>2. CASE SaveAuthCode(r)
  <2>. DEFINE id == req[r].id
              rec == [areq[id] EXCEPT !.code = seq'.code, !.codeAt = now]
              x == [Saving(id, rec) EXCEPT !.code = seq'.code]
  <2>1. CASE UNCHANGED seq /\ Finish(r)
    <3>1. Tables' /\ UNCHANGED approved
      BY <1>2, <2>1 DEF SaveAuthCode, Core, Tables, Numbered, store, history
    <3>. QED
      BY <2>1, <3>1, SameSeq, FinishStep
  <2>2. CASE /\ Open(id) /\ seq.code < MaxCodes
             /\ seq' = [seq EXCEPT !.code = @ + 1]
             /\ req' = [req EXCEPT ![r] = x]
    <3>1. /\ seq' \in Seq /\ seq'.grant = seq.grant /\ seq'.token = seq.token
          /\ seq'.code \in Codes /\ seq.grant \in Nat /\ seq.token \in Nat
      <4>1. seq \in Seq /\ seq.code < MaxCodes /\ seq' = [seq EXCEPT !.code = @ + 1]
        BY <2>2 DEF Core, Tables
      <4>. HIDE DEF x, rec, id
      <4>. QED
        BY <4>1 DEF Seq, Codes
    <3>2. id \in AuthIds
      BY <1>2 DEF SaveAuthCode, Core, Holds
    <3>3. areq[id] \in AuthRequest /\ (areq[id].done => Asked(id, areq[id]) \in approved)
      BY <2>2, <3>2 DEF Open, Core, Tables
    <3>4. rec \in AuthRequest /\ rec.done = areq[id].done /\ Asked(id, rec) = Asked(id, areq[id])
      <4>1. now \in Nat /\ seq'.code \in 0 .. MaxCodes
        BY <3>1 DEF Core, Tables, Codes
      <4>. QED
        BY <3>3, <4>1 DEF AuthRequest, Asked
    <3>5. Tables' /\ UNCHANGED approved
      BY <1>2, <3>1 DEF SaveAuthCode, Core, Tables, Numbered, store, history
    <3>. HIDE DEF rec, id
    <3>6. x \in Request
      BY <3>1, <3>2, <3>4, IdleForms
    <3>7. Holds(x, seq', approved')
      BY <3>2, <3>3, <3>4, <3>5 DEF Holds, Saving, Idle
    <3>. HIDE DEF x
    <3>8. req' = [req EXCEPT ![r] = x]
      BY <2>2 DEF x
    <3>9. seq.grant <= seq'.grant /\ seq.token <= seq'.token
      BY <3>1
    <3>. QED
      BY <3>5, <3>6, <3>7, <3>8, <3>9, RequestStep
  <2>. QED
    BY <1>2, <2>1, <2>2 DEF SaveAuthCode, Continue
<1>3. CASE SaveOAuthAuthRequest(r)
  <2>1. req[r].rec \in AuthRequest /\ req[r].id \in AuthIds
    BY <1>3 DEF SaveOAuthAuthRequest, Core, Holds
  <2>2. req[r].rec.done => Asked(req[r].id, req[r].rec) \in approved
    BY <1>3 DEF SaveOAuthAuthRequest, Core, Holds
  <2>3. /\ areq' \in [AuthIds -> AuthRequest \cup {None}]
        /\ \A id \in AuthIds : areq'[id] = IF id = req[r].id THEN req[r].rec ELSE areq[id]
    BY <1>3, <2>1 DEF SaveOAuthAuthRequest, Core, Tables
  <2>4. Tables' /\ UNCHANGED <<seq, approved>>
    BY <1>3, <2>1, <2>2, <2>3 DEF SaveOAuthAuthRequest, Core, Tables, Numbered, history
  <2>. QED
    BY <1>3, <2>4, SameSeq, FinishStep DEF SaveOAuthAuthRequest
<1>4. CASE DeleteOAuthAuthRequest(r)
  <2>1. Tables' /\ UNCHANGED <<seq, approved>>
    BY <1>4 DEF DeleteOAuthAuthRequest, Core, Tables, Numbered, history
  <2>. QED
    BY <1>4, <2>1, SameSeq, FinishStep DEF DeleteOAuthAuthRequest
<1>. QED
  BY <1>2, <1>3, <1>4

\* The code exchange: the approved request becomes a grant.
LEMMA ExchangeSteps ==
    ASSUME Core, NEW r \in Requests,
           \/ \E p \in Procs, c \in Codes : Exchange(r, p, c)
           \/ OAuthAuthRequestByCode(r)
           \/ CreateOAuthGrant(r)
    PROVE  Core'
<1>. USE GrantsAssumption, NoneType
<1>1. ASSUME NEW p \in Procs, NEW c \in Codes, Exchange(r, p, c) PROVE Core'
  <2>. DEFINE x == [Idle EXCEPT !.pc = "byCode", !.proc = p, !.code = c]
  <2>1. x \in Request /\ Holds(x, seq', approved')
    BY IdleForms DEF Holds, Idle
  <2>2. req' = [req EXCEPT ![r] = x]
    BY <1>1 DEF Exchange, Begin, Continue
  <2>3. codes' \in [Procs -> [Codes -> Nat \cup {None}]]
    <3>1. now \in Nat /\ codes[p] \in [Codes -> Nat \cup {None}]
      BY DEF Core, Tables
    <3>2. [codes[p] EXCEPT ![c] = now] \in [Codes -> Nat \cup {None}]
      BY <3>1
    <3>3. codes' = [codes EXCEPT ![p] = [codes[p] EXCEPT ![c] = now]]
      BY <1>1 DEF Exchange, Core, Tables
    <3>. QED
      BY <3>2, <3>3 DEF Core, Tables
  <2>4. Tables' /\ UNCHANGED <<seq, approved>>
    BY <1>1, <2>3 DEF Exchange, Core, Tables, Numbered, store, history
  <2>. HIDE DEF x
  <2>. QED
    BY <2>1, <2>2, <2>4, SameSeq, RequestStep
<1>2. CASE OAuthAuthRequestByCode(r)
  <2>1. CASE Finish(r) /\ UNCHANGED <<exchanged, twice>>
    <3>1. Tables' /\ UNCHANGED <<seq, approved>>
      BY <1>2, <2>1 DEF OAuthAuthRequestByCode, Core, Tables, Numbered, store
    <3>. QED
      BY <2>1, <3>1, SameSeq, FinishStep
  <2>2. ASSUME NEW id \in AuthIds, Open(id), areq[id].done,
               req' = [req EXCEPT ![r] =
                          [Idle EXCEPT !.pc = "grant", !.id = id, !.rec = areq[id]]],
               exchanged' = [exchanged EXCEPT ![req[r].proc] = @ \cup {req[r].code}],
               twice' = twice \cup (exchanged[req[r].proc] \cap {req[r].code})
        PROVE  Core'
    <3>. DEFINE x == [Idle EXCEPT !.pc = "grant", !.id = id, !.rec = areq[id]]
    <3>1. areq[id] \in AuthRequest /\ Asked(id, areq[id]) \in approved
      BY <2>2 DEF Open, Core, Tables
    <3>2. req[r].proc \in Procs /\ req[r].code \in Codes
      BY <1>2 DEF OAuthAuthRequestByCode, Core, Holds, Request
    <3>3. exchanged' \in [Procs -> SUBSET Codes] /\ twice' \subseteq Codes
      BY <2>2, <3>2 DEF Core, Tables
    <3>4. Tables' /\ UNCHANGED <<seq, approved>>
      BY <1>2, <3>3 DEF OAuthAuthRequestByCode, Core, Tables, Numbered, store
    <3>5. x \in Request /\ Holds(x, seq', approved')
      BY <2>2, <3>1, <3>4, IdleForms DEF Holds, Idle
    <3>. QED
      BY <2>2, <3>4, <3>5, SameSeq, RequestStep
  <2>. QED
    BY <1>2, <2>1, <2>2 DEF OAuthAuthRequestByCode, Continue
<1>3. CASE CreateOAuthGrant(r)
  <2>. DEFINE q == req[r]
              n == seq'.grant
              g == [from |-> q.id, subject |-> q.rec.subject, scopes |-> q.rec.scopes,
                    end |-> q.rec.end, revoked |-> FALSE]
              x == [Idle EXCEPT !.pc = "access", !.id = q.id, !.grant = n,
                                !.scopes = q.rec.scopes, !.end = q.rec.end]
  <2>1. /\ q.rec \in AuthRequest /\ q.id \in AuthIds
        /\ Asked(q.id, q.rec) \in approved
    BY <1>3 DEF CreateOAuthGrant, Core, Holds
  <2>2. /\ seq' = [seq EXCEPT !.grant = @ + 1] /\ seq.grant < MaxGrants /\ seq \in Seq
        /\ req' = [req EXCEPT ![r] = x] /\ grants' = [grants EXCEPT ![n] = g]
    BY <1>3 DEF CreateOAuthGrant, Continue, Core, Tables
  <2>3. /\ seq' \in Seq /\ n = seq.grant + 1 /\ n \in Grants /\ seq.grant \in Nat
        /\ seq'.token = seq.token /\ seq.token \in Nat
    BY <2>2 DEF Seq, Grants
  <2>4. g \in Grant /\ TermsOf(g) = Asked(q.id, q.rec)
    <3>1. q.rec.subject \in Users
      BY <2>1 DEF Asked, Terms, Core, Tables
    <3>. QED
      BY <2>1, <3>1 DEF Grant, TermsOf, Asked, AuthRequest
  <2>5. x \in Request /\ x.pc = "access" /\ x.grant = n
    <3>1. q.rec.scopes \in SUBSET Scopes /\ q.rec.end \in Nat
      BY <2>1 DEF AuthRequest
    <3>. QED
      BY <2>1, <2>3, <3>1, IdleForms DEF Idle
  <2>. HIDE DEF g, x
  <2>6. /\ grants' \in [Grants -> Grant \cup {None}]
        /\ \A h \in Grants : grants'[h] = IF h = n THEN g ELSE grants[h]
    BY <2>2, <2>3, <2>4 DEF Core, Tables
  <2>7. Numbered'
    <3>1. UNCHANGED <<access, refresh>> /\ Numbered
      BY <1>3 DEF CreateOAuthGrant, Core, Tables
    <3>2. \A k \in 1 .. seq.grant : k \in 1 .. seq'.grant
      BY <2>3
    <3>3. n \in 1 .. seq'.grant
      BY <2>3
    <3>. QED
      BY <2>6, <3>1, <3>2, <3>3 DEF Numbered
  <2>8. Tables' /\ UNCHANGED approved
    BY <1>3, <2>1, <2>3, <2>4, <2>6, <2>7 DEF CreateOAuthGrant, Core, Tables, history
  <2>9. Holds(x, seq', approved')
    BY <2>3, <2>5 DEF Holds
  <2>10. seq.grant <= seq'.grant /\ seq.token <= seq'.token
    BY <2>3
  <2>. QED
    BY <2>2, <2>5, <2>8, <2>9, <2>10, RequestStep
<1>. QED
  BY <1>1, <1>2, <1>3

\* Tokens are issued for the grant of the request.
LEMMA IssueSteps ==
    ASSUME Core, NEW r \in Requests, accessToken(r) \/ CreateOAuthRefreshToken(r)
    PROVE  Core'
<1>. USE GrantsAssumption, NoneType
<1>0. /\ seq \in Seq /\ seq.grant \in Nat /\ seq.token \in Nat /\ now \in Nat
      /\ req[r] \in Request /\ req[r].scopes \in SUBSET Scopes /\ req[r].end \in Nat
  BY DEF Core, Tables, Seq, Request
<1>1. ASSUME req[r].grant \in 1 .. seq.grant PROVE req[r].grant \in Grants
  BY <1>0, <1>1 DEF Seq, Grants
<1>2. CASE accessToken(r)
  <2>. DEFINE n == seq'.token
              q == req[r]
              pc == IF Refreshes THEN "refresh" ELSE "delete"
              a == [grant |-> q.grant, scopes |-> q.scopes,
                    exp |-> capTime(now + AccessTokenTTL, q.end)]
              x == [q EXCEPT !.pc = pc, !.tok = n]
  <2>1. /\ seq' = [seq EXCEPT !.token = @ + 1] /\ seq.token < MaxTokens
        /\ req' = [req EXCEPT ![r] = x] /\ access' = [access EXCEPT ![n] = a]
    BY <1>2 DEF accessToken, Continue
  <2>2. /\ seq' \in Seq /\ n = seq.token + 1 /\ n \in Tokens /\ seq'.grant = seq.grant
    BY <1>0, <2>1 DEF Seq, Tokens
  <2>3. q.grant \in 1 .. seq.grant /\ q.grant \in Grants
    BY <1>1, <1>2 DEF accessToken, Core, Holds
  <2>4. a \in OAuthAccessToken /\ a.grant = q.grant
    <3>1. capTime(now + AccessTokenTTL, q.end) \in Nat
      BY <1>0 DEF capTime
    <3>. QED
      BY <1>0, <2>3, <3>1, TokenForms
  <2>5. x \in Request
    BY <1>0, <2>2, NextForms
  <2>6. x.pc = pc /\ x.grant = q.grant /\ x.tok = n
    BY <1>0 DEF Request
  <2>. HIDE DEF a, x
  <2>7. /\ access' \in [Tokens -> OAuthAccessToken \cup {None}]
        /\ \A t \in Tokens : access'[t] = IF t = n THEN a ELSE access[t]
    BY <2>1, <2>2, <2>4 DEF Core, Tables
  <2>8. Numbered'
    <3>1. UNCHANGED <<grants, refresh>> /\ Numbered
      BY <1>2 DEF accessToken, Core, Tables
    <3>. QED
      BY <2>2, <2>3, <2>4, <2>7, <3>1 DEF Numbered
  <2>9. Tables' /\ UNCHANGED approved
    BY <1>2, <2>2, <2>7, <2>8 DEF accessToken, Core, Tables, history
  <2>10. Holds(x, seq', approved')
    BY <1>0, <2>2, <2>3, <2>6 DEF Holds
  <2>11. seq.grant <= seq'.grant /\ seq.token <= seq'.token
    BY <1>0, <2>2
  <2>. QED
    BY <2>1, <2>5, <2>9, <2>10, <2>11, RequestStep
<1>3. CASE CreateOAuthRefreshToken(r)
  <2>. DEFINE q == req[r]
              t == [grant |-> q.grant, scopes |-> q.scopes,
                    exp |-> capTime(now + RefreshTokenTTL, q.end), used |-> FALSE]
              x == IF q.id = 0 THEN Idle ELSE [Idle EXCEPT !.pc = "delete", !.id = q.id]
  <2>1. req' = [req EXCEPT ![r] = x] /\ refresh' = [refresh EXCEPT ![q.tok] = t]
    BY <1>3 DEF CreateOAuthRefreshToken, Continue
  <2>2. q.grant \in 1 .. seq.grant /\ q.grant \in Grants
    BY <1>1, <1>3 DEF CreateOAuthRefreshToken, Core, Holds
  <2>3. t \in OAuthRefreshToken /\ t.grant = q.grant
    <3>1. capTime(now + RefreshTokenTTL, q.end) \in Nat
      BY <1>0 DEF capTime
    <3>. QED
      BY <1>0, <2>2, <3>1, TokenForms
  <2>4. x \in Request /\ x.pc \in {"idle", "delete"}
    <3>1. q.id = 0 \/ q.id \in AuthIds
      BY <1>0 DEF Request, AuthIds
    <3>. QED
      BY <3>1, IdleForms, IdleType DEF Idle
  <2>. HIDE DEF t, x
  <2>5. /\ refresh' \in [Tokens -> OAuthRefreshToken \cup {None}]
        /\ \A k \in Tokens : refresh'[k] = IF k = q.tok THEN t ELSE refresh[k]
    BY <2>1, <2>3 DEF Core, Tables
  <2>6. Numbered'
    <3>1. UNCHANGED <<grants, access, seq>> /\ Numbered
      BY <1>3 DEF CreateOAuthRefreshToken, Core, Tables
    <3>. QED
      BY <2>2, <2>3, <2>5, <3>1 DEF Numbered
  <2>7. Tables' /\ UNCHANGED <<seq, approved>>
    BY <1>3, <2>5, <2>6 DEF CreateOAuthRefreshToken, Core, Tables, history
  <2>8. Holds(x, seq', approved')
    BY <2>4 DEF Holds
  <2>. QED
    BY <2>1, <2>4, <2>7, <2>8, SameSeq, RequestStep
<1>. QED
  BY <1>2, <1>3

\* The grant of a refresh token is one that was made.
LEMMA GrantMade ==
    Core => \A t \in Tokens : refresh[t] # None => refresh[t].grant \in 1 .. seq.grant
BY NoneType DEF Core, Tables, Numbered

\* Refresh: the token names the grant, and is used up.
LEMMA RefreshSteps ==
    ASSUME Core, NEW r \in Requests,
           \/ \E t \in Tokens : TokenRequestByRefreshToken(r, t)
           \/ OAuthGrant(r) \/ UseOAuthRefreshToken(r)
    PROVE  Core'
<1>. USE GrantsAssumption, NoneType
<1>0. seq \in Seq /\ req[r] \in Request /\ now \in Nat
  BY DEF Core, Tables
<1>1. ASSUME NEW t \in Tokens, TokenRequestByRefreshToken(r, t) PROVE Core'
  <2>1. replayed' \subseteq Grants
    BY <1>1 DEF TokenRequestByRefreshToken, Replays, Core, Tables
  <2>2. Tables' /\ UNCHANGED <<seq, approved>>
    BY <1>1, <2>1 DEF TokenRequestByRefreshToken, Core, Tables, Numbered, store
  <2>3. CASE /\ refresh[t] # None
             /\ req' = [req EXCEPT ![r] =
                           [Idle EXCEPT !.pc = "revoke", !.grant = refresh[t].grant]]
    <3>. DEFINE x == [Idle EXCEPT !.pc = "revoke", !.grant = refresh[t].grant]
    <3>1. refresh[t].grant \in Grants /\ refresh[t].grant \in 1 .. seq.grant
      BY <2>3, GrantMade DEF Core, Tables, OAuthRefreshToken
    <3>2. x \in Request /\ Holds(x, seq', approved')
      BY <2>2, <3>1, IdleForms DEF Holds, Idle
    <3>. QED
      BY <2>2, <2>3, <3>2, SameSeq, RequestStep
  <2>4. CASE /\ refresh[t] # None
             /\ req' = [req EXCEPT ![r] =
                           [Idle EXCEPT !.pc = "grantOf", !.tok = t, !.grant = refresh[t].grant,
                                        !.scopes = refresh[t].scopes]]
    <3>. DEFINE x == [Idle EXCEPT !.pc = "grantOf", !.tok = t, !.grant = refresh[t].grant,
                                  !.scopes = refresh[t].scopes]
    <3>1. /\ refresh[t].grant \in Grants /\ refresh[t].grant \in 1 .. seq.grant
          /\ refresh[t].scopes \in SUBSET Scopes
      BY <2>4, GrantMade DEF Core, Tables, OAuthRefreshToken
    <3>2. t \in 1 .. seq.token
      <4>1. t <= seq.token
        BY <1>1 DEF TokenRequestByRefreshToken
      <4>2. seq.token \in Nat
        BY <1>0 DEF Seq
      <4>. QED
        BY <4>1, <4>2 DEF Tokens
    <3>3. x \in Request
      BY <3>1, IdleForms
    <3>4. Holds(x, seq', approved')
      BY <2>2, <3>1, <3>2 DEF Holds, Idle
    <3>. QED
      BY <2>2, <2>4, <3>3, <3>4, SameSeq, RequestStep
  <2>5. CASE UNCHANGED req
    BY <2>2, <2>5, SameSeq, TableStep
  <2>. QED
    BY <1>1, <2>3, <2>4, <2>5 DEF TokenRequestByRefreshToken, Begin, Continue
<1>2. CASE OAuthGrant(r)
  <2>1. Tables' /\ UNCHANGED <<seq, approved>>
    BY <1>2 DEF OAuthGrant, Core, Tables, Numbered, store, history
  <2>2. CASE Finish(r)
    BY <2>1, <2>2, SameSeq, FinishStep
  <2>3. ASSUME NEW scopes \in SUBSET req[r].scopes, grants[req[r].grant] # None,
               req' = [req EXCEPT ![r] = [req[r] EXCEPT !.pc = "use", !.scopes = scopes,
                                                        !.end = grants[req[r].grant].end]]
        PROVE  Core'
    <3>. DEFINE x == [req[r] EXCEPT !.pc = "use", !.scopes = scopes,
                                    !.end = grants[req[r].grant].end]
    <3>1. req[r].grant \in 1 .. seq.grant /\ req[r].tok \in 1 .. seq.token
      BY <1>2 DEF OAuthGrant, Core, Holds
    <3>2. scopes \in SUBSET Scopes /\ grants[req[r].grant].end \in Nat
      <4>1. req[r].grant \in Grants
        BY <1>0, <3>1 DEF Seq, Grants
      <4>2. grants[req[r].grant] \in Grant
        BY <2>3, <4>1 DEF Core, Tables
      <4>. QED
        BY <1>0, <2>3, <4>2 DEF Request, Grant
    <3>3. x \in Request
      BY <1>0, <3>2, NextForms
    <3>4. x.pc = "use" /\ x.grant = req[r].grant /\ x.tok = req[r].tok
      BY <1>0 DEF Request
    <3>. HIDE DEF x
    <3>5. Holds(x, seq', approved')
      BY <2>1, <3>1, <3>4 DEF Holds
    <3>6. req' = [req EXCEPT ![r] = x]
      BY <2>3 DEF x
    <3>. QED
      BY <2>1, <3>3, <3>5, <3>6, SameSeq, RequestStep
  <2>. QED
    BY <1>2, <2>2, <2>3 DEF OAuthGrant, Continue
<1>3. CASE UseOAuthRefreshToken(r)
  <2>1. /\ req[r].grant \in 1 .. seq.grant /\ req[r].grant \in Grants
        /\ req[r].tok \in Tokens
    <3>1. req[r].grant \in 1 .. seq.grant /\ req[r].tok \in 1 .. seq.token
      BY <1>3 DEF UseOAuthRefreshToken, Core, Holds
    <3>. QED
      BY <1>0, <3>1 DEF Seq, Grants, Tokens
  <2>2. /\ refresh' \in [Tokens -> OAuthRefreshToken \cup {None}]
        /\ \A t \in Tokens : refresh'[t] # None =>
              refresh[t] # None /\ refresh'[t].grant = refresh[t].grant
        /\ spent' \in [Tokens -> [grant : Grants, exp : Nat] \cup {None}]
    <3>1. CASE UNCHANGED <<refresh, spent>>
      BY <3>1 DEF Core, Tables
    <3>2. CASE /\ refresh[req[r].tok] # None
               /\ refresh' = [refresh EXCEPT ![req[r].tok].used = TRUE]
               /\ spent' = [spent EXCEPT ![req[r].tok] =
                               [grant |-> req[r].grant, exp |-> refresh[req[r].tok].exp]]
      <4>. DEFINE t == req[r].tok
                  y == [refresh[t] EXCEPT !.used = TRUE]
                  z == [grant |-> req[r].grant, exp |-> refresh[t].exp]
      <4>1. refresh[t] \in OAuthRefreshToken
        BY <2>1, <3>2 DEF Core, Tables
      <4>2. y \in OAuthRefreshToken /\ y.grant = refresh[t].grant
            /\ z \in [grant : Grants, exp : Nat]
        BY <2>1, <4>1 DEF OAuthRefreshToken
      <4>3. refresh' = [refresh EXCEPT ![t] = y] /\ spent' = [spent EXCEPT ![t] = z]
        BY <3>2
      <4>. HIDE DEF t, y, z
      <4>4. t \in Tokens
        BY <2>1 DEF t
      <4>5. refresh[t] # None
        BY <3>2 DEF t
      <4>. QED
        BY <4>2, <4>3, <4>4, <4>5 DEF Core, Tables
    <3>. QED
      BY <1>3, <3>1, <3>2 DEF UseOAuthRefreshToken
  <2>3. replayed' \subseteq Grants
    BY <1>3, <2>1 DEF UseOAuthRefreshToken, Core, Tables
  <2>4. Numbered'
    <3>1. UNCHANGED <<grants, access, seq>> /\ Numbered
      BY <1>3 DEF UseOAuthRefreshToken, Core, Tables
    <3>. QED
      BY <2>2, <3>1 DEF Numbered
  <2>5. Tables' /\ UNCHANGED <<seq, approved>>
    BY <1>3, <2>2, <2>3, <2>4 DEF UseOAuthRefreshToken, Core, Tables
  <2>6. CASE Finish(r)
    BY <2>5, <2>6, SameSeq, FinishStep
  <2>7. CASE req' = [req EXCEPT ![r] = [req[r] EXCEPT !.pc = "access", !.tok = 0]]
    <3>. DEFINE x == [req[r] EXCEPT !.pc = "access", !.tok = 0]
    <3>1. x \in Request /\ x.pc = "access" /\ x.grant = req[r].grant
      BY <1>0, NextForms DEF Request
    <3>. HIDE DEF x
    <3>2. Holds(x, seq', approved')
      BY <2>1, <2>5, <3>1 DEF Holds
    <3>3. req' = [req EXCEPT ![r] = x]
      BY <2>7 DEF x
    <3>. QED
      BY <2>5, <3>1, <3>2, <3>3, SameSeq, RequestStep
  <2>8. CASE req' = [req EXCEPT ![r] = [Idle EXCEPT !.pc = "revoke", !.grant = req[r].grant]]
    <3>. DEFINE x == [Idle EXCEPT !.pc = "revoke", !.grant = req[r].grant]
    <3>1. x \in Request /\ Holds(x, seq', approved')
      BY <2>1, <2>5, IdleForms DEF Holds, Idle
    <3>. QED
      BY <2>5, <2>8, <3>1, SameSeq, RequestStep
  <2>. QED
    BY <1>3, <2>6, <2>7, <2>8 DEF UseOAuthRefreshToken, Continue
<1>. QED
  BY <1>1, <1>2, <1>3

\* Revoking grants keeps their terms.
LEMMA RevokedTables ==
    ASSUME Core, NEW G, grants' = Revoked(G),
           UNCHANGED <<now, registered, areq, access, refresh, codes, seq, history>>
    PROVE  Tables'
<1>. USE NoneType
<1>1. ASSUME NEW g \in Grants, grants[g] # None
      PROVE  /\ [grants[g] EXCEPT !.revoked = TRUE] \in Grant
             /\ TermsOf([grants[g] EXCEPT !.revoked = TRUE]) = TermsOf(grants[g])
  <2>1. grants[g] \in Grant
    BY <1>1 DEF Core, Tables
  <2>. QED
    BY <2>1 DEF Grant, TermsOf
<1>2. /\ grants' \in [Grants -> Grant \cup {None}]
      /\ \A g \in Grants : grants'[g] # None =>
            grants[g] # None /\ TermsOf(grants'[g]) = TermsOf(grants[g])
  BY <1>1 DEF Revoked, Core, Tables
<1>3. Numbered'
  BY <1>2 DEF Core, Tables, Numbered
<1>. QED
  BY <1>2, <1>3 DEF Core, Tables, history

\* Steps of no one request: a new authorization request, revocation, clean-up.
LEMMA OtherSteps ==
    ASSUME Core,
           \/ CreateAuthRequest
           \/ RevokeOAuthGrants
           \/ \E a \in Tokens : DeleteOAuthAccessToken(a)
           \/ DeleteOAuthClient
           \/ DeleteExpiredOAuth
           \/ \E p \in Procs : forgetCodes(p)
           \/ Tick
    PROVE  Core'
<1>. USE GrantsAssumption, NoneType
<1>1. CASE CreateAuthRequest
  <2>. DEFINE n == seq'.auth
              rec == [subject |-> None, scopes |-> Scopes, end |-> 0, done |-> FALSE,
                      code |-> 0, codeAt |-> 0, created |-> now]
  <2>1. /\ seq' = [seq EXCEPT !.auth = @ + 1] /\ seq.auth < MaxAuth /\ seq \in Seq
        /\ areq' = [areq EXCEPT ![n] = rec]
    BY <1>1 DEF CreateAuthRequest, Core, Tables
  <2>2. /\ seq' \in Seq /\ n \in AuthIds
        /\ seq'.grant = seq.grant /\ seq.grant \in Nat
        /\ seq'.token = seq.token /\ seq.token \in Nat
    BY <2>1 DEF Seq, AuthIds
  <2>3. rec \in AuthRequest /\ ~rec.done
    <3>1. now \in Nat /\ 0 \in 0 .. MaxCodes /\ 0 \in Nat
      BY DEF Core, Tables
    <3>. QED
      BY <3>1 DEF AuthRequest
  <2>. HIDE DEF rec
  <2>4. /\ areq' \in [AuthIds -> AuthRequest \cup {None}]
        /\ \A id \in AuthIds : areq'[id] = IF id = n THEN rec ELSE areq[id]
    BY <2>1, <2>2, <2>3 DEF Core, Tables
  <2>5. Tables' /\ UNCHANGED <<req, approved>>
    BY <1>1, <2>2, <2>3, <2>4 DEF CreateAuthRequest, Core, Tables, Numbered, history
  <2>6. seq.grant <= seq'.grant /\ seq.token <= seq'.token
    BY <2>2
  <2>. QED
    BY <2>5, <2>6, TableStep
<1>2. CASE RevokeOAuthGrants
  <2>1. PICK G : grants' = Revoked(G)
    BY <1>2 DEF RevokeOAuthGrants
  <2>2. Tables' /\ UNCHANGED <<seq, approved, req>>
    BY <1>2, <2>1, RevokedTables DEF RevokeOAuthGrants, history
  <2>. QED
    BY <2>2, SameSeq, TableStep
<1>3. ASSUME NEW a \in Tokens, DeleteOAuthAccessToken(a) PROVE Core'
  <2>1. Tables' /\ UNCHANGED <<seq, approved, req>>
    BY <1>3 DEF DeleteOAuthAccessToken, Core, Tables, Numbered, history
  <2>. QED
    BY <2>1, SameSeq, TableStep
<1>4. CASE DeleteOAuthClient
  <2>1. Tables' /\ UNCHANGED <<seq, approved, req>>
    BY <1>4 DEF DeleteOAuthClient, Core, Tables, Numbered, history
  <2>. QED
    BY <2>1, SameSeq, TableStep
<1>5. CASE DeleteExpiredOAuth
  <2>1. /\ areq' \in [AuthIds -> AuthRequest \cup {None}]
        /\ \A id \in AuthIds : areq'[id] \in {areq[id], None}
    BY <1>5 DEF DeleteExpiredOAuth, Core, Tables
  <2>2. /\ access' \in [Tokens -> OAuthAccessToken \cup {None}]
        /\ \A t \in Tokens : access'[t] \in {access[t], None}
    BY <1>5 DEF DeleteExpiredOAuth, Core, Tables
  <2>3. /\ refresh' \in [Tokens -> OAuthRefreshToken \cup {None}]
        /\ \A t \in Tokens : refresh'[t] \in {refresh[t], None}
    BY <1>5 DEF DeleteExpiredOAuth, Core, Tables
  <2>4. /\ grants' \in [Grants -> Grant \cup {None}]
        /\ \A g \in Grants : grants'[g] \in {grants[g], None}
    BY <1>5 DEF DeleteExpiredOAuth, Core, Tables
  <2>5. UNCHANGED <<now, registered, codes, req, seq, history>>
    BY <1>5 DEF DeleteExpiredOAuth
  <2>6. Numbered'
    BY <2>2, <2>3, <2>4, <2>5 DEF Core, Tables, Numbered
  <2>7. Tables'
    BY <2>1, <2>2, <2>3, <2>4, <2>5, <2>6 DEF Core, Tables, history
  <2>. QED
    BY <2>5, <2>7, SameSeq, TableStep DEF history
<1>6. ASSUME NEW p \in Procs, forgetCodes(p) PROVE Core'
  <2>. DEFINE f == [c \in Codes |-> IF codes[p][c] # None /\ now - codes[p][c] > authRequestTTL
                                    THEN None ELSE codes[p][c]]
  <2>1. codes' = [codes EXCEPT ![p] = f]
    BY <1>6 DEF forgetCodes, Core, Tables
  <2>2. f \in [Codes -> Nat \cup {None}]
    BY DEF Core, Tables
  <2>. HIDE DEF f
  <2>3. codes' \in [Procs -> [Codes -> Nat \cup {None}]]
    BY <2>1, <2>2 DEF Core, Tables
  <2>4. Tables' /\ UNCHANGED <<seq, approved, req>>
    BY <1>6, <2>3 DEF forgetCodes, Core, Tables, Numbered, store, history
  <2>. QED
    BY <2>4, SameSeq, TableStep
<1>7. CASE Tick
  <2>1. now' \in 0 .. MaxTime
    BY <1>7 DEF Tick, Core, Tables
  <2>2. Tables' /\ UNCHANGED <<seq, approved, req>>
    BY <1>7, <2>1 DEF Tick, Core, Tables, Numbered, store, history
  <2>. QED
    BY <2>2, SameSeq, TableStep
<1>. QED
  BY <1>1, <1>2, <1>3, <1>4, <1>5, <1>6, <1>7

\* Requests that end, by revoking the grant of a replayed token or by failing.
LEMMA EndSteps ==
    ASSUME Core, NEW r \in Requests, RevokeReplayed(r) \/ Fail(r)
    PROVE  Core'
<1>1. CASE RevokeReplayed(r)
  <2>1. Tables' /\ UNCHANGED <<seq, approved>>
    BY <1>1, RevokedTables DEF RevokeReplayed, history
  <2>. QED
    BY <1>1, <2>1, SameSeq, FinishStep DEF RevokeReplayed
<1>2. CASE Fail(r)
  <2>1. Tables' /\ UNCHANGED <<seq, approved>>
    BY <1>2 DEF Fail, Core, Tables, Numbered, store
  <2>. QED
    BY <1>2, <2>1, SameSeq, FinishStep DEF Fail
<1>. QED
  BY <1>1, <1>2

\* The core holds of every reachable state.
THEOREM CoreInvariant == Spec => []Core
<1>1. Init => Core
  <2>. SUFFICES ASSUME Init PROVE Core
    OBVIOUS
  <2>1. seq \in Seq
    BY GrantsAssumption DEF Init, Seq
  <2>2. Tables
    BY <2>1, GrantsAssumption DEF Init, Tables, Numbered
  <2>. QED
    BY <2>2, IdleType, IdleHolds DEF Init, Core
<1>2. Core /\ [Next]_vars => Core'
  <2>. SUFFICES ASSUME Core, [Next]_vars PROVE Core'
    OBVIOUS
  <2>1. CASE UNCHANGED vars
    <3>1. Tables' /\ UNCHANGED <<seq, approved, req>>
      BY <2>1 DEF vars, store, history, Core, Tables, Numbered
    <3>. QED
      BY <3>1, SameSeq, TableStep
  <2>2. ASSUME NEW r \in Requests, Consent(r) \/ Token(r) \/ Fail(r) PROVE Core'
    BY <2>2, ConsentSteps, SaveSteps, ExchangeSteps, IssueSteps, RefreshSteps, EndSteps
       DEF Consent, Token
  <2>. QED
    BY <2>1, <2>2, OtherSteps DEF Next
<1>. QED
  BY <1>1, <1>2, PTL DEF Spec

\* Every record, request and history keeps its type (OAuthStore, the handlers).
THEOREM TypeCorrect == Spec => []TypeOK
BY CoreInvariant, CoreType, PTL

-----------------------------------------------------------------------------
(* Quiet steps *)

\* The places of a request that works for a grant.
Busy == {"access", "refresh", "grantOf", "use"}

\* A step that makes no grant, issues or uses up no token and starts no work for a grant.
Quiet ==
    /\ \A g \in Grants : grants'[g] # None =>
          grants[g] # None /\ grants'[g].scopes = grants[g].scopes /\ grants'[g].end = grants[g].end
    /\ \A t \in Tokens : access'[t] \in {access[t], None} /\ refresh'[t] \in {refresh[t], None}
    /\ \A r \in Requests : req'[r] = req[r] \/ req'[r].pc \notin Busy
    /\ seq'.grant = seq.grant /\ seq'.token = seq.token

\* Revoking is quiet as far as the grants go.
LEMMA RevokedQuiet ==
    ASSUME Core, NEW G, grants' = Revoked(G)
    PROVE  \A g \in Grants : grants'[g] # None =>
              /\ grants[g] # None
              /\ grants'[g].scopes = grants[g].scopes /\ grants'[g].end = grants[g].end
<1>. SUFFICES ASSUME NEW g \in Grants, grants'[g] # None
              PROVE  /\ grants[g] # None
                     /\ grants'[g].scopes = grants[g].scopes /\ grants'[g].end = grants[g].end
  OBVIOUS
<1>1. /\ grants[g] # None
      /\ grants'[g] = grants[g] \/ grants'[g] = [grants[g] EXCEPT !.revoked = TRUE]
  BY DEF Revoked
<1>2. grants[g] \in Grant
  BY <1>1 DEF Core, Tables
<1>. QED
  BY <1>1, <1>2 DEF Grant

\* A request that goes on in a place that is not busy, and leaves grants and tokens alone.
LEMMA QuietSlot ==
    ASSUME Core, NEW r \in Requests, NEW x, Continue(r, x), x.pc \notin Busy,
           UNCHANGED <<grants, access, refresh>>,
           seq'.grant = seq.grant, seq'.token = seq.token
    PROVE  Quiet
BY DEF Core, Continue, Quiet

\* Consent is quiet, and so are the first steps of an exchange, a revocation, a failure.
LEMMA QuietRequests ==
    ASSUME Core, NEW r \in Requests,
           \/ Consent(r) \/ Fail(r) \/ RevokeReplayed(r) \/ OAuthAuthRequestByCode(r)
           \/ \E p \in Procs, c \in Codes : Exchange(r, p, c)
    PROVE  Quiet
<1>0. Idle.pc \notin Busy
  BY IdleType DEF Busy
<1>1. ASSUME NEW id \in AuthIds, NEW rec PROVE Saving(id, rec).pc \notin Busy
  BY DEF Saving, Idle, Busy
<1>2. ASSUME NEW id \in AuthIds, NEW u \in Users, login(r, id, u) PROVE Quiet
  BY <1>1, <1>2, QuietSlot DEF login, Begin, store
<1>3. ASSUME NEW id \in AuthIds, NEW scopes \in SUBSET Scopes, NEW end \in Ends,
             Approve(r, id, scopes, end)
      PROVE  Quiet
  BY <1>1, <1>3, QuietSlot DEF Approve, Begin, store
<1>4. ASSUME NEW id \in AuthIds, Deny(r, id) \/ AuthorizeCallback(r, id) PROVE Quiet
  <2>1. /\ [Idle EXCEPT !.pc = "delete", !.id = id].pc \notin Busy
        /\ [Idle EXCEPT !.pc = "saveCode", !.id = id].pc \notin Busy
    BY DEF Idle, Busy
  <2>. QED
    BY <1>4, <2>1, QuietSlot DEF Deny, AuthorizeCallback, Begin, store
<1>5. CASE SaveAuthCode(r)
  <2>1. seq'.grant = seq.grant /\ seq'.token = seq.token
    BY <1>5 DEF SaveAuthCode, Core, Tables, Seq
  <2>2. UNCHANGED <<grants, access, refresh>>
    BY <1>5 DEF SaveAuthCode, store
  <2>3. CASE Finish(r)
    BY <1>0, <2>1, <2>2, <2>3, QuietSlot DEF Finish
  <2>4. ASSUME NEW id, NEW rec, NEW c, Continue(r, [Saving(id, rec) EXCEPT !.code = c])
        PROVE  Quiet
    <3>1. [Saving(id, rec) EXCEPT !.code = c].pc \notin Busy
      BY DEF Saving, Idle, Busy
    <3>. QED
      BY <2>1, <2>2, <2>4, <3>1, QuietSlot
  <2>. QED
    BY <1>5, <2>3, <2>4 DEF SaveAuthCode
<1>6. CASE SaveOAuthAuthRequest(r) \/ DeleteOAuthAuthRequest(r)
  BY <1>0, <1>6, QuietSlot DEF SaveOAuthAuthRequest, DeleteOAuthAuthRequest, Finish
<1>7. CASE Fail(r)
  BY <1>0, <1>7, QuietSlot DEF Fail, Finish, store
<1>8. CASE RevokeReplayed(r)
  <2>1. /\ grants' = Revoked({req[r].grant})
        /\ UNCHANGED <<access, refresh, seq>> /\ Continue(r, Idle)
    BY <1>8 DEF RevokeReplayed, Finish
  <2>2. \A s \in Requests : req'[s] = req[s] \/ req'[s].pc \notin Busy
    BY <1>0, <2>1 DEF Continue, Core
  <2>. QED
    BY <2>1, <2>2, RevokedQuiet DEF Quiet
<1>9. CASE OAuthAuthRequestByCode(r)
  <2>1. UNCHANGED <<grants, access, refresh, seq>>
    BY <1>9 DEF OAuthAuthRequestByCode, store
  <2>2. CASE Finish(r)
    BY <1>0, <2>1, <2>2, QuietSlot DEF Finish
  <2>3. ASSUME NEW id \in AuthIds,
               Continue(r, [Idle EXCEPT !.pc = "grant", !.id = id, !.rec = areq[id]])
        PROVE  Quiet
    <3>1. [Idle EXCEPT !.pc = "grant", !.id = id, !.rec = areq[id]].pc \notin Busy
      BY DEF Idle, Busy
    <3>. QED
      BY <2>1, <2>3, <3>1, QuietSlot
  <2>. QED
    BY <1>9, <2>2, <2>3 DEF OAuthAuthRequestByCode
<1>10. ASSUME NEW p \in Procs, NEW c \in Codes, Exchange(r, p, c) PROVE Quiet
  <2>1. [Idle EXCEPT !.pc = "byCode", !.proc = p, !.code = c].pc \notin Busy
    BY DEF Idle, Busy
  <2>. QED
    BY <1>10, <2>1, QuietSlot DEF Exchange, Begin, store
<1>. QED
  BY <1>2, <1>3, <1>4, <1>5, <1>6, <1>7, <1>8, <1>9, <1>10 DEF Consent

\* So are the steps of no one request.
LEMMA QuietOthers ==
    ASSUME Core,
           \/ CreateAuthRequest
           \/ RevokeOAuthGrants
           \/ \E a \in Tokens : DeleteOAuthAccessToken(a)
           \/ DeleteOAuthClient
           \/ DeleteExpiredOAuth
           \/ \E p \in Procs : forgetCodes(p)
           \/ Tick
           \/ UNCHANGED vars
    PROVE  Quiet
<1>1. CASE CreateAuthRequest
  <2>1. seq'.grant = seq.grant /\ seq'.token = seq.token
    BY <1>1 DEF CreateAuthRequest, Core, Tables, Seq
  <2>. QED
    BY <1>1, <2>1 DEF CreateAuthRequest, Quiet
<1>2. CASE RevokeOAuthGrants
  BY <1>2, RevokedQuiet DEF RevokeOAuthGrants, Quiet
<1>3. ASSUME NEW a \in Tokens, DeleteOAuthAccessToken(a) PROVE Quiet
  BY <1>3 DEF DeleteOAuthAccessToken, Quiet, Core, Tables
<1>4. CASE DeleteOAuthClient
  BY <1>4 DEF DeleteOAuthClient, Quiet
<1>5. CASE DeleteExpiredOAuth
  BY <1>5 DEF DeleteExpiredOAuth, Quiet
<1>6. CASE Tick \/ (\E p \in Procs : forgetCodes(p)) \/ UNCHANGED vars
  BY <1>6 DEF Tick, forgetCodes, vars, store, Quiet
<1>. QED
  BY <1>1, <1>2, <1>3, <1>4, <1>5, <1>6

\* Every step is quiet, or one of the six that make grants and issue and use up tokens.
LEMMA StepKinds ==
    ASSUME Core, [Next]_vars
    PROVE  \/ Quiet
           \/ \E r \in Requests :
                 \/ CreateOAuthGrant(r) \/ accessToken(r) \/ CreateOAuthRefreshToken(r)
                 \/ \E t \in Tokens : TokenRequestByRefreshToken(r, t)
                 \/ OAuthGrant(r) \/ UseOAuthRefreshToken(r)
BY QuietRequests, QuietOthers DEF Next, Token

-----------------------------------------------------------------------------
(* What the six other steps do *)

\* A new grant gets the next number, and its request goes on to issue tokens.
LEMMA GrantEffect ==
    ASSUME Core, NEW r \in Requests, CreateOAuthGrant(r)
    PROVE  /\ seq.grant \in Nat /\ seq'.grant = seq.grant + 1 /\ seq'.token = seq.token
           /\ UNCHANGED <<access, refresh>>
           /\ \A g \in Grants : g # seq.grant + 1 => grants'[g] = grants[g]
           /\ \A s \in Requests : s # r => req'[s] = req[s]
           /\ req[r].pc = "grant" /\ req'[r].pc = "access" /\ req'[r].grant = seq.grant + 1
           /\ seq.grant + 1 \in Grants
           /\ req'[r].scopes = grants'[seq.grant + 1].scopes
           /\ req'[r].end = grants'[seq.grant + 1].end
<1>. DEFINE q == req[r]
            g == [from |-> q.id, subject |-> q.rec.subject, scopes |-> q.rec.scopes,
                  end |-> q.rec.end, revoked |-> FALSE]
            x == [Idle EXCEPT !.pc = "access", !.id = q.id, !.grant = seq'.grant,
                              !.scopes = q.rec.scopes, !.end = q.rec.end]
<1>1. /\ seq' = [seq EXCEPT !.grant = @ + 1] /\ seq.grant < MaxGrants /\ seq \in Seq
      /\ req' = [req EXCEPT ![r] = x] /\ grants' = [grants EXCEPT ![seq'.grant] = g]
      /\ req[r].pc = "grant" /\ UNCHANGED <<access, refresh>>
  BY DEF CreateOAuthGrant, Continue, Core, Tables
<1>2. /\ x.pc = "access" /\ x.grant = seq'.grant /\ x.scopes = g.scopes /\ x.end = g.end
  BY DEF Idle
<1>. HIDE DEF g, x
<1>3. /\ seq.grant \in Nat /\ seq'.grant = seq.grant + 1 /\ seq'.token = seq.token
      /\ seq.grant + 1 \in Grants
  BY <1>1, GrantsAssumption DEF Seq, Grants
<1>4. /\ grants'[seq.grant + 1] = g
      /\ \A h \in Grants : h # seq.grant + 1 => grants'[h] = grants[h]
  BY <1>1, <1>3 DEF Core, Tables
<1>5. req'[r] = x /\ \A s \in Requests : s # r => req'[s] = req[s]
  BY <1>1 DEF Core
<1>. QED
  BY <1>1, <1>2, <1>3, <1>4, <1>5

\* An access token gets the next number, the grant and the scopes of its request.
LEMMA AccessEffect ==
    ASSUME Core, NEW r \in Requests, accessToken(r)
    PROVE  /\ seq.token \in Nat /\ seq'.grant = seq.grant /\ seq'.token = seq.token + 1
           /\ UNCHANGED <<grants, refresh>>
           /\ seq.token + 1 \in Tokens
           /\ \A t \in Tokens : t # seq.token + 1 => access'[t] = access[t]
           /\ access'[seq.token + 1].grant = req[r].grant
           /\ access'[seq.token + 1].scopes = req[r].scopes
           /\ access'[seq.token + 1].exp = capTime(now + AccessTokenTTL, req[r].end)
           /\ \A s \in Requests : s # r => req'[s] = req[s]
           /\ req[r].pc = "access"
           /\ req'[r].pc = IF Refreshes THEN "refresh" ELSE "delete"
           /\ req'[r].grant = req[r].grant /\ req'[r].tok = seq.token + 1
           /\ req'[r].scopes = req[r].scopes /\ req'[r].end = req[r].end
<1>. DEFINE q == req[r]
            pc == IF Refreshes THEN "refresh" ELSE "delete"
            a == [grant |-> q.grant, scopes |-> q.scopes,
                  exp |-> capTime(now + AccessTokenTTL, q.end)]
            x == [q EXCEPT !.pc = pc, !.tok = seq'.token]
<1>1. /\ seq' = [seq EXCEPT !.token = @ + 1] /\ seq.token < MaxTokens /\ seq \in Seq
      /\ req' = [req EXCEPT ![r] = x] /\ access' = [access EXCEPT ![seq'.token] = a]
      /\ req[r].pc = "access" /\ UNCHANGED <<grants, refresh>> /\ q \in Request
  BY DEF accessToken, Continue, Core, Tables
<1>. HIDE DEF q, pc
<1>2. /\ x.pc = pc /\ x.grant = q.grant /\ x.tok = seq'.token
      /\ x.scopes = q.scopes /\ x.end = q.end
  BY <1>1 DEF Request
<1>3. /\ a.grant = q.grant /\ a.scopes = q.scopes
      /\ a.exp = capTime(now + AccessTokenTTL, q.end)
  OBVIOUS
<1>. HIDE DEF a, x
<1>4. /\ seq.token \in Nat /\ seq'.token = seq.token + 1 /\ seq'.grant = seq.grant
      /\ seq.token + 1 \in Tokens
  BY <1>1, GrantsAssumption DEF Seq, Tokens
<1>5. /\ access'[seq.token + 1] = a
      /\ \A t \in Tokens : t # seq.token + 1 => access'[t] = access[t]
  BY <1>1, <1>4 DEF Core, Tables
<1>6. req'[r] = x /\ \A s \in Requests : s # r => req'[s] = req[s]
  BY <1>1 DEF Core
<1>. QED
  BY <1>1, <1>2, <1>3, <1>4, <1>5, <1>6 DEF q, pc

\* A refresh token gets the number that its request was given.
LEMMA RefreshEffect ==
    ASSUME Core, NEW r \in Requests, CreateOAuthRefreshToken(r)
    PROVE  /\ UNCHANGED <<grants, access, seq>>
           /\ req[r].tok \in Tokens
           /\ \A t \in Tokens : t # req[r].tok => refresh'[t] = refresh[t]
           /\ refresh'[req[r].tok].grant = req[r].grant
           /\ refresh'[req[r].tok].scopes = req[r].scopes
           /\ refresh'[req[r].tok].exp = capTime(now + RefreshTokenTTL, req[r].end)
           /\ \A s \in Requests : s # r => req'[s] = req[s]
           /\ req[r].pc = "refresh" /\ req'[r].pc \in {"idle", "delete"}
<1>1. req[r].tok \in Tokens
  <2>1. req[r].tok \in 1 .. seq.token /\ seq \in Seq
    BY DEF CreateOAuthRefreshToken, Core, Tables, Holds
  <2>. QED
    BY <2>1, GrantsAssumption DEF Seq, Tokens
<1>2. /\ UNCHANGED <<grants, access, seq>>
      /\ \A t \in Tokens : t # req[r].tok => refresh'[t] = refresh[t]
      /\ refresh'[req[r].tok].grant = req[r].grant
      /\ refresh'[req[r].tok].scopes = req[r].scopes
      /\ refresh'[req[r].tok].exp = capTime(now + RefreshTokenTTL, req[r].end)
  BY <1>1 DEF CreateOAuthRefreshToken, Core, Tables
<1>3. /\ \A s \in Requests : s # r => req'[s] = req[s]
      /\ req[r].pc = "refresh" /\ req'[r].pc \in {"idle", "delete"}
  BY IdleType DEF CreateOAuthRefreshToken, Continue, Core, Idle
<1>. QED
  BY <1>1, <1>2, <1>3

\* A presented refresh token is looked up; the request goes on with its grant.
LEMMA LookUpEffect ==
    ASSUME Core, NEW r \in Requests, NEW t \in Tokens, TokenRequestByRefreshToken(r, t)
    PROVE  /\ UNCHANGED <<grants, access, refresh, seq>>
           /\ \A s \in Requests : s # r => req'[s] = req[s]
           /\ req[r].pc = "idle"
           /\ \/ req'[r].pc \notin Busy
              \/ /\ req'[r].pc = "grantOf" /\ refresh[t] # None
                 /\ req'[r].tok = t /\ req'[r].grant = refresh[t].grant
                 /\ req'[r].scopes = refresh[t].scopes
<1>1. UNCHANGED <<grants, access, refresh, seq>> /\ req[r].pc = "idle"
  BY DEF TokenRequestByRefreshToken, store, Begin
<1>2. CASE UNCHANGED req
  BY <1>1, <1>2 DEF Busy
<1>3. CASE Continue(r, [Idle EXCEPT !.pc = "revoke", !.grant = refresh[t].grant])
  BY <1>1, <1>3 DEF Continue, Core, Idle, Busy
<1>4. CASE /\ refresh[t] # None
           /\ Continue(r, [Idle EXCEPT !.pc = "grantOf", !.tok = t, !.grant = refresh[t].grant,
                                       !.scopes = refresh[t].scopes])
  BY <1>1, <1>4 DEF Continue, Core, Idle, Busy
<1>. QED
  BY <1>1, <1>2, <1>3, <1>4 DEF TokenRequestByRefreshToken, Begin

\* The grant is read; the request ends, or goes on with some of its scopes.
LEMMA ReadEffect ==
    ASSUME Core, NEW r \in Requests, OAuthGrant(r)
    PROVE  /\ UNCHANGED <<grants, access, refresh, seq>>
           /\ \A s \in Requests : s # r => req'[s] = req[s]
           /\ req[r].pc = "grantOf"
           /\ \/ req'[r].pc \notin Busy
              \/ /\ req'[r].pc = "use"
                 /\ req'[r].tok = req[r].tok /\ req'[r].grant = req[r].grant
                 /\ req'[r].scopes \subseteq req[r].scopes
                 /\ req'[r].end = grants[req[r].grant].end
<1>1. /\ UNCHANGED <<grants, access, refresh, seq>> /\ req[r].pc = "grantOf"
      /\ req \in [Requests -> Request] /\ req[r] \in Request
  BY DEF OAuthGrant, store, Core
<1>2. CASE Finish(r)
  BY <1>1, <1>2, IdleType DEF Finish, Continue, Busy
<1>3. ASSUME NEW scopes \in SUBSET req[r].scopes,
             Continue(r, [req[r] EXCEPT !.pc = "use", !.scopes = scopes,
                                        !.end = grants[req[r].grant].end])
      PROVE  /\ \A s \in Requests : s # r => req'[s] = req[s]
             /\ req'[r].pc = "use"
             /\ req'[r].tok = req[r].tok /\ req'[r].grant = req[r].grant
             /\ req'[r].scopes \subseteq req[r].scopes
             /\ req'[r].end = grants[req[r].grant].end
  BY <1>1, <1>3 DEF Continue, Request
<1>. QED
  BY <1>1, <1>2, <1>3 DEF OAuthGrant

\* The token is used up by the request that goes on, or is left as it is.
LEMMA UseEffect ==
    ASSUME Core, NEW r \in Requests, UseOAuthRefreshToken(r)
    PROVE  /\ UNCHANGED <<grants, access, seq>>
           /\ \A s \in Requests : s # r => req'[s] = req[s]
           /\ req[r].pc = "use" /\ req[r].tok \in Tokens
           /\ \/ /\ req'[r].pc \notin Busy
                 /\ UNCHANGED refresh
              \/ /\ refresh[req[r].tok] # None /\ ~refresh[req[r].tok].used
                 /\ \A t \in Tokens : t # req[r].tok => refresh'[t] = refresh[t]
                 /\ refresh'[req[r].tok] = [refresh[req[r].tok] EXCEPT !.used = TRUE]
                 /\ \/ req'[r].pc \notin Busy
                    \/ /\ req'[r].pc = "access" /\ req'[r].grant = req[r].grant
                       /\ req'[r].scopes = req[r].scopes /\ req'[r].end = req[r].end
<1>1. /\ UNCHANGED <<grants, access, seq>> /\ req[r].pc = "use"
      /\ req \in [Requests -> Request] /\ req[r] \in Request
  BY DEF UseOAuthRefreshToken, Core
<1>2. req[r].tok \in Tokens
  <2>1. req[r].tok \in 1 .. seq.token /\ seq \in Seq
    BY <1>1 DEF Core, Tables, Holds
  <2>. QED
    BY <2>1, GrantsAssumption DEF Seq, Tokens
<1>3. ASSUME Finish(r)
      PROVE  (\A s \in Requests : s # r => req'[s] = req[s]) /\ req'[r].pc \notin Busy
  BY <1>1, <1>3, IdleType DEF Finish, Continue, Busy
<1>4. ASSUME Continue(r, [Idle EXCEPT !.pc = "revoke", !.grant = req[r].grant])
      PROVE  (\A s \in Requests : s # r => req'[s] = req[s]) /\ req'[r].pc \notin Busy
  BY <1>1, <1>4 DEF Continue, Busy, Idle
<1>5. ASSUME Continue(r, [req[r] EXCEPT !.pc = "access", !.tok = 0])
      PROVE  /\ \A s \in Requests : s # r => req'[s] = req[s]
             /\ req'[r].pc = "access" /\ req'[r].grant = req[r].grant
             /\ req'[r].scopes = req[r].scopes /\ req'[r].end = req[r].end
  BY <1>1, <1>5 DEF Continue, Request
<1>6. ASSUME refresh' = [refresh EXCEPT ![req[r].tok].used = TRUE]
      PROVE  /\ \A t \in Tokens : t # req[r].tok => refresh'[t] = refresh[t]
             /\ refresh'[req[r].tok] = [refresh[req[r].tok] EXCEPT !.used = TRUE]
  BY <1>2, <1>6 DEF Core, Tables
<1>. QED
  BY <1>1, <1>2, <1>3, <1>4, <1>5, <1>6 DEF UseOAuthRefreshToken

-----------------------------------------------------------------------------
(* Grants and tokens stay within the approval *)

\* A request that works for a grant carries no more than it, a token likewise, as far as
\* gs still has the grant.
SlotFits(x, gs) ==
    x.pc \in Busy /\ gs[x.grant] # None =>
        /\ x.scopes \subseteq gs[x.grant].scopes
        /\ x.pc # "grantOf" => x.end = gs[x.grant].end

TokenFits(t, gs) ==
    t # None /\ gs[t.grant] # None =>
        /\ t.scopes \subseteq gs[t.grant].scopes
        /\ gs[t.grant].end # 0 => t.exp <= gs[t.grant].end

Fits ==
    /\ \A r \in Requests : SlotFits(req[r], grants)
    /\ \A t \in Tokens : TokenFits(access[t], grants) /\ TokenFits(refresh[t], grants)

\* With the core, that is what is promised.
LEMMA FitsWithin == Core /\ Fits => WithinApproval
BY DEF Core, Tables, Fits, TokenFits, WithinApproval

\* The grants that requests and tokens name.
LEMMA NamedGrants ==
    ASSUME Core
    PROVE  /\ \A r \in Requests : req[r].pc \in Busy =>
                 req[r].grant \in Grants /\ req[r].grant # seq.grant + 1
           /\ \A t \in Tokens : access[t] # None =>
                 access[t].grant \in Grants /\ access[t].grant # seq.grant + 1
           /\ \A t \in Tokens : refresh[t] # None =>
                 refresh[t].grant \in Grants /\ refresh[t].grant # seq.grant + 1
<1>1. \A g \in 1 .. seq.grant : g \in Grants /\ g # seq.grant + 1
  <2>1. seq \in Seq
    BY DEF Core, Tables
  <2>. QED
    BY <2>1, GrantsAssumption DEF Seq, Grants
<1>2. \A r \in Requests : req[r].pc \in Busy => req[r].grant \in 1 .. seq.grant
  BY DEF Core, Holds, Busy
<1>. QED
  BY <1>1, <1>2 DEF Core, Tables, Numbered

\* A capped expiry is no later than the end date.
LEMMA CapFits ==
    ASSUME NEW t \in Nat, NEW end \in Nat, end # 0
    PROVE  capTime(t, end) <= end
BY DEF capTime

\* Every step keeps requests and tokens within their grants.
LEMMA FitsStep ==
    ASSUME Core, Core', Fits, [Next]_vars
    PROVE  Fits'
<1>. USE NamedGrants
<1>1. CASE Quiet
  <2>1. ASSUME NEW x, SlotFits(x, grants), x.pc \in Busy => x.grant \in Grants
        PROVE  SlotFits(x, grants')
    BY <1>1, <2>1 DEF Quiet, SlotFits
  <2>2. ASSUME NEW x, TokenFits(x, grants), x # None => x.grant \in Grants
        PROVE  TokenFits(x, grants')
    BY <1>1, <2>2 DEF Quiet, TokenFits
  <2>3. ASSUME NEW r \in Requests PROVE SlotFits(req'[r], grants')
    <3>1. CASE req'[r] = req[r]
      BY <2>1, <3>1 DEF Fits
    <3>2. CASE req'[r].pc \notin Busy
      BY <3>2 DEF SlotFits
    <3>. QED
      BY <1>1, <3>1, <3>2 DEF Quiet
  <2>4. ASSUME NEW t \in Tokens
        PROVE  TokenFits(access'[t], grants') /\ TokenFits(refresh'[t], grants')
    <3>1. TokenFits(None, grants')
      BY DEF TokenFits
    <3>2. TokenFits(access[t], grants') /\ TokenFits(refresh[t], grants')
      BY <2>2 DEF Fits
    <3>. QED
      BY <1>1, <3>1, <3>2 DEF Quiet
  <2>. QED
    BY <2>3, <2>4 DEF Fits
<1>2. ASSUME NEW r \in Requests, CreateOAuthGrant(r) PROVE Fits'
  <2>1. ASSUME NEW s \in Requests PROVE SlotFits(req'[s], grants')
    <3>1. CASE s = r
      BY <1>2, <3>1, GrantEffect DEF SlotFits
    <3>2. CASE s # r
      BY <1>2, <3>2, GrantEffect DEF SlotFits, Fits
    <3>. QED
      BY <3>1, <3>2
  <2>2. ASSUME NEW t \in Tokens
        PROVE  TokenFits(access'[t], grants') /\ TokenFits(refresh'[t], grants')
    BY <1>2, GrantEffect DEF TokenFits, Fits
  <2>. QED
    BY <2>1, <2>2 DEF Fits
<1>3. ASSUME NEW r \in Requests, accessToken(r) PROVE Fits'
  <2>. DEFINE n == seq.token + 1
              g == req[r].grant
  <2>1. SlotFits(req[r], grants) /\ g \in Grants /\ req[r].pc = "access"
    BY <1>3, AccessEffect DEF Fits, Busy
  <2>2. /\ UNCHANGED <<grants, refresh>> /\ n \in Tokens
        /\ access'[n].grant = g /\ access'[n].scopes = req[r].scopes
        /\ access'[n].exp = capTime(now + AccessTokenTTL, req[r].end)
    BY <1>3, AccessEffect
  <2>3. TokenFits(access'[n], grants')
    <3>1. CASE grants[g] = None
      BY <2>2, <3>1 DEF TokenFits
    <3>2. CASE grants[g] # None
      <4>1. req[r].scopes \subseteq grants[g].scopes /\ req[r].end = grants[g].end
        BY <2>1, <3>2 DEF SlotFits, Busy
      <4>2. now + AccessTokenTTL \in Nat /\ req[r].end \in Nat
        BY GrantsAssumption DEF Core, Tables, Request
      <4>3. grants[g].end # 0 => access'[n].exp <= grants[g].end
        BY <2>2, <4>1, <4>2, CapFits
      <4>. QED
        BY <2>2, <4>1, <4>3 DEF TokenFits
    <3>. QED
      BY <3>1, <3>2
  <2>4. ASSUME NEW t \in Tokens
        PROVE  TokenFits(access'[t], grants') /\ TokenFits(refresh'[t], grants')
    <3>1. t # n => access'[t] = access[t]
      BY <1>3, AccessEffect
    <3>. QED
      BY <2>2, <2>3, <3>1 DEF Fits
  <2>5. ASSUME NEW s \in Requests PROVE SlotFits(req'[s], grants')
    <3>1. CASE s = r
      BY <1>3, <2>1, <3>1, AccessEffect DEF SlotFits, Busy
    <3>2. CASE s # r
      BY <1>3, <3>2, AccessEffect DEF Fits
    <3>. QED
      BY <3>1, <3>2
  <2>. QED
    BY <2>4, <2>5 DEF Fits
<1>4. ASSUME NEW r \in Requests, CreateOAuthRefreshToken(r) PROVE Fits'
  <2>. DEFINE n == req[r].tok
              g == req[r].grant
  <2>1. SlotFits(req[r], grants) /\ g \in Grants /\ req[r].pc = "refresh"
    BY <1>4, RefreshEffect DEF Fits, Busy
  <2>2. /\ UNCHANGED <<grants, access>> /\ n \in Tokens
        /\ refresh'[n].grant = g /\ refresh'[n].scopes = req[r].scopes
        /\ refresh'[n].exp = capTime(now + RefreshTokenTTL, req[r].end)
    BY <1>4, RefreshEffect
  <2>3. TokenFits(refresh'[n], grants')
    <3>1. CASE grants[g] = None
      BY <2>2, <3>1 DEF TokenFits
    <3>2. CASE grants[g] # None
      <4>1. req[r].scopes \subseteq grants[g].scopes /\ req[r].end = grants[g].end
        BY <2>1, <3>2 DEF SlotFits, Busy
      <4>2. now + RefreshTokenTTL \in Nat /\ req[r].end \in Nat
        BY GrantsAssumption DEF Core, Tables, Request
      <4>3. grants[g].end # 0 => refresh'[n].exp <= grants[g].end
        BY <2>2, <4>1, <4>2, CapFits
      <4>. QED
        BY <2>2, <4>1, <4>3 DEF TokenFits
    <3>. QED
      BY <3>1, <3>2
  <2>4. ASSUME NEW t \in Tokens
        PROVE  TokenFits(access'[t], grants') /\ TokenFits(refresh'[t], grants')
    <3>1. t # n => refresh'[t] = refresh[t]
      BY <1>4, RefreshEffect
    <3>. QED
      BY <2>2, <2>3, <3>1 DEF Fits
  <2>5. ASSUME NEW s \in Requests PROVE SlotFits(req'[s], grants')
    <3>1. CASE s = r
      BY <1>4, <3>1, RefreshEffect DEF SlotFits, Busy
    <3>2. CASE s # r
      BY <1>4, <3>2, RefreshEffect DEF Fits
    <3>. QED
      BY <3>1, <3>2
  <2>. QED
    BY <2>4, <2>5 DEF Fits
<1>5. ASSUME NEW r \in Requests, NEW t \in Tokens, TokenRequestByRefreshToken(r, t)
      PROVE  Fits'
  <2>1. UNCHANGED <<grants, access, refresh>>
    BY <1>5, LookUpEffect
  <2>2. ASSUME NEW s \in Requests PROVE SlotFits(req'[s], grants')
    <3>1. CASE s = r
      <4>1. TokenFits(refresh[t], grants)
        BY DEF Fits
      <4>. QED
        BY <1>5, <2>1, <3>1, <4>1, LookUpEffect DEF SlotFits, TokenFits
    <3>2. CASE s # r
      BY <1>5, <2>1, <3>2, LookUpEffect DEF Fits
    <3>. QED
      BY <3>1, <3>2
  <2>. QED
    BY <2>1, <2>2 DEF Fits
<1>6. ASSUME NEW r \in Requests, OAuthGrant(r) PROVE Fits'
  <2>1. UNCHANGED <<grants, access, refresh>>
    BY <1>6, ReadEffect
  <2>2. ASSUME NEW s \in Requests PROVE SlotFits(req'[s], grants')
    <3>1. CASE s = r
      <4>1. SlotFits(req[r], grants)
        BY DEF Fits
      <4>. QED
        BY <1>6, <2>1, <3>1, <4>1, ReadEffect DEF SlotFits, Busy
    <3>2. CASE s # r
      BY <1>6, <2>1, <3>2, ReadEffect DEF Fits
    <3>. QED
      BY <3>1, <3>2
  <2>. QED
    BY <2>1, <2>2 DEF Fits
<1>7. ASSUME NEW r \in Requests, UseOAuthRefreshToken(r) PROVE Fits'
  <2>1. UNCHANGED <<grants, access>>
    BY <1>7, UseEffect
  <2>2. ASSUME NEW s \in Requests PROVE SlotFits(req'[s], grants')
    <3>1. CASE s = r
      <4>1. SlotFits(req[r], grants)
        BY DEF Fits
      <4>. QED
        BY <1>7, <2>1, <3>1, <4>1, UseEffect DEF SlotFits, Busy
    <3>2. CASE s # r
      <4>1. req'[s] = req[s]
        BY <1>7, <3>2, UseEffect
      <4>. QED
        BY <2>1, <4>1 DEF Fits
    <3>. QED
      BY <3>1, <3>2
  <2>3. ASSUME NEW t \in Tokens PROVE TokenFits(refresh'[t], grants')
    <3>1. CASE refresh'[t] = refresh[t]
      BY <2>1, <3>1 DEF Fits
    <3>2. CASE refresh[t] # None /\ refresh'[t] = [refresh[t] EXCEPT !.used = TRUE]
      <4>1. refresh[t] \in OAuthRefreshToken /\ TokenFits(refresh[t], grants)
        BY <3>2 DEF Core, Tables, Fits
      <4>2. /\ refresh'[t].grant = refresh[t].grant /\ refresh'[t].scopes = refresh[t].scopes
            /\ refresh'[t].exp = refresh[t].exp
        BY <3>2, <4>1 DEF OAuthRefreshToken
      <4>. QED
        BY <2>1, <3>2, <4>1, <4>2 DEF TokenFits
    <3>. QED
      BY <1>7, <3>1, <3>2, UseEffect
  <2>. QED
    BY <2>1, <2>2, <2>3 DEF Fits
<1>. QED
  BY <1>1, <1>2, <1>3, <1>4, <1>5, <1>6, <1>7, StepKinds

\* No grant or token ever goes beyond what its subject approved, whichever copies of an
\* authorization request were saved over one another (WithinApproval).
THEOREM StaysWithinApproval == Spec => []WithinApproval
<1>1. Init => Fits
  BY IdleType DEF Init, Fits, SlotFits, TokenFits, Busy
<1>2. Core /\ Core' /\ Fits /\ [Next]_vars => Fits'
  BY FitsStep
<1>. QED
  BY <1>1, <1>2, CoreInvariant, FitsWithin, PTL DEF Spec

-----------------------------------------------------------------------------
(* The refresh tokens of a grant form one chain *)

\* A number that is to become a refresh token is free, and its request alone has it; a
\* request that presents a refresh token works for the grant of that token.
Reserved ==
    /\ \A t \in Tokens : refresh[t] # None => t <= seq.token
    /\ \A r \in Requests : req[r].pc = "refresh" => Refreshes /\ refresh[req[r].tok] = None
    /\ \A r \in Requests : req[r].pc \in {"grantOf", "use"} /\ refresh[req[r].tok] # None =>
          refresh[req[r].tok].grant = req[r].grant
    /\ \A r, s \in Requests : req[r].pc = "refresh" /\ r # s
                               /\ req[s].pc \in {"refresh", "grantOf", "use"} =>
          req[r].tok # req[s].tok

\* The numbers that requests have are not above the counter.
LEMMA NamedTokens ==
    ASSUME Core, NEW r \in Requests, req[r].pc \in {"refresh", "grantOf", "use"}
    PROVE  req[r].tok \in Tokens /\ seq.token \in Nat /\ req[r].tok <= seq.token
<1>1. req[r].tok \in 1 .. seq.token /\ seq \in Seq
  BY DEF Core, Tables, Holds
<1>. QED
  BY <1>1, GrantsAssumption DEF Seq, Tokens

\* Every step keeps the numbers reserved.
LEMMA ReservedStep ==
    ASSUME Core, Reserved, [Next]_vars
    PROVE  Reserved'
<1>. USE NamedTokens
<1>1. CASE Quiet
  BY <1>1 DEF Quiet, Reserved, Busy
<1>2. ASSUME NEW r \in Requests, CreateOAuthGrant(r) PROVE Reserved'
  BY <1>2, GrantEffect DEF Reserved
<1>3. ASSUME NEW r \in Requests, accessToken(r) PROVE Reserved'
  <2>1. refresh[seq.token + 1] = None /\ seq.token \in Nat
    BY <1>3, AccessEffect DEF Reserved
  <2>2. /\ seq'.token = seq.token + 1 /\ UNCHANGED refresh
        /\ \A s \in Requests : s # r => req'[s] = req[s]
        /\ req'[r].pc = "refresh" => Refreshes /\ req'[r].tok = seq.token + 1
        /\ req'[r].pc \in {"refresh", "delete"}
    BY <1>3, AccessEffect
  <2>3. \A s \in Requests : req[s].pc \in {"refresh", "grantOf", "use"} =>
           req[s].tok # seq.token + 1
    BY <2>1
  <2>4. \A t \in Tokens : refresh'[t] # None => t <= seq'.token
    BY <2>1, <2>2 DEF Reserved, Tokens
  <2>. QED
    BY <2>1, <2>2, <2>3, <2>4 DEF Reserved
<1>4. ASSUME NEW r \in Requests, CreateOAuthRefreshToken(r) PROVE Reserved'
  <2>1. req[r].pc = "refresh" /\ req[r].tok \in Tokens /\ req[r].tok <= seq.token
    BY <1>4, RefreshEffect
  <2>2. \A s \in Requests : s # r /\ req[s].pc \in {"refresh", "grantOf", "use"} =>
           req[s].tok \in Tokens /\ refresh'[req[s].tok] = refresh[req[s].tok]
    BY <1>4, <2>1, RefreshEffect DEF Reserved
  <2>. QED
    BY <1>4, <2>1, <2>2, RefreshEffect DEF Reserved
<1>5. ASSUME NEW r \in Requests, NEW t \in Tokens, TokenRequestByRefreshToken(r, t)
      PROVE  Reserved'
  BY <1>5, LookUpEffect DEF Reserved, Busy
<1>6. ASSUME NEW r \in Requests, OAuthGrant(r) PROVE Reserved'
  BY <1>6, ReadEffect DEF Reserved, Busy
<1>7. ASSUME NEW r \in Requests, UseOAuthRefreshToken(r) PROVE Reserved'
  <2>1. ASSUME NEW t \in Tokens
        PROVE  /\ refresh'[t] # None => refresh[t] # None /\ refresh'[t].grant = refresh[t].grant
               /\ refresh[t] = None => refresh'[t] = None
    <3>1. CASE refresh'[t] = refresh[t]
      BY <3>1
    <3>2. CASE refresh[t] # None /\ refresh'[t] = [refresh[t] EXCEPT !.used = TRUE]
      <4>1. refresh[t] \in OAuthRefreshToken
        BY <3>2 DEF Core, Tables
      <4>. QED
        BY <3>2, <4>1 DEF OAuthRefreshToken
    <3>. QED
      BY <1>7, <3>1, <3>2, UseEffect
  <2>2. /\ UNCHANGED seq /\ \A s \in Requests : s # r => req'[s] = req[s]
        /\ req'[r].pc \notin {"refresh", "grantOf", "use"}
    BY <1>7, UseEffect DEF Busy
  <2>. QED
    BY <2>1, <2>2 DEF Reserved
<1>. QED
  BY <1>1, <1>2, <1>3, <1>4, <1>5, <1>6, <1>7, StepKinds

\* A step that for every grant leaves no more unused tokens and no more requests that
\* make one than there were keeps the chain.
LEMMA ChainKept ==
    ASSUME OneRefreshChain,
           \A g \in Grants : Unused(g)' \subseteq Unused(g) /\ Minting(g)' \subseteq Minting(g)
    PROVE  OneRefreshChain'
BY DEF OneRefreshChain

\* Every step keeps the chain.
LEMMA ChainStep ==
    ASSUME Core, Reserved, OneRefreshChain, [Next]_vars
    PROVE  OneRefreshChain'
<1>1. CASE Quiet
  BY <1>1, ChainKept DEF Quiet, Unused, Minting, Busy
<1>2. ASSUME NEW r \in Requests, CreateOAuthGrant(r) PROVE OneRefreshChain'
  <2>. DEFINE n == seq.grant + 1
  <2>1. \A g \in Grants : g = n => Unused(g)' = {} /\ Minting(g)' \subseteq {r}
    BY <1>2, GrantEffect, NamedGrants DEF Unused, Minting, Busy
  <2>2. \A g \in Grants : g # n => Unused(g)' = Unused(g) /\ Minting(g)' \subseteq Minting(g)
    BY <1>2, GrantEffect DEF Unused, Minting
  <2>. QED
    BY <2>1, <2>2 DEF OneRefreshChain
<1>3. ASSUME NEW r \in Requests, accessToken(r) PROVE OneRefreshChain'
  BY <1>3, AccessEffect, ChainKept DEF Unused, Minting
<1>4. ASSUME NEW r \in Requests, CreateOAuthRefreshToken(r) PROVE OneRefreshChain'
  <2>. DEFINE n == req[r].grant
  <2>1. n \in Grants /\ r \in Minting(n)
    BY <1>4, RefreshEffect, NamedGrants DEF Reserved, Minting, Busy
  <2>2. Minting(n) = {r} /\ Unused(n) = {}
    BY <2>1 DEF OneRefreshChain
  <2>3. \A g \in Grants : g = n => Minting(g)' = {} /\ \A t \in Unused(g)' : t = req[r].tok
    BY <1>4, <2>2, RefreshEffect DEF Minting, Unused
  <2>4. \A g \in Grants : g # n =>
           Unused(g)' \subseteq Unused(g) /\ Minting(g)' \subseteq Minting(g)
    BY <1>4, RefreshEffect DEF Unused, Minting
  <2>. QED
    BY <2>3, <2>4 DEF OneRefreshChain
<1>5. ASSUME NEW r \in Requests, NEW t \in Tokens, TokenRequestByRefreshToken(r, t)
      PROVE  OneRefreshChain'
  BY <1>5, LookUpEffect, ChainKept DEF Unused, Minting, Busy
<1>6. ASSUME NEW r \in Requests, OAuthGrant(r) PROVE OneRefreshChain'
  BY <1>6, ReadEffect, ChainKept DEF Unused, Minting, Busy
<1>7. ASSUME NEW r \in Requests, UseOAuthRefreshToken(r) PROVE OneRefreshChain'
  <2>. DEFINE n == req[r].grant
              t == req[r].tok
  <2>1. CASE UNCHANGED refresh /\ req'[r].pc \notin Busy
    BY <1>7, <2>1, UseEffect, ChainKept DEF Unused, Minting, Busy
  <2>2. CASE /\ refresh[t] # None /\ ~refresh[t].used
             /\ \A k \in Tokens : k # t => refresh'[k] = refresh[k]
             /\ refresh'[t] = [refresh[t] EXCEPT !.used = TRUE]
    <3>0. /\ \A s \in Requests : s # r => req'[s] = req[s]
          /\ req[r].pc = "use" /\ t \in Tokens
          /\ req'[r].pc \notin Busy \/ req'[r].grant = n
      BY <1>7, UseEffect
    <3>1. n \in Grants /\ t \in Tokens /\ refresh[t].grant = n
      BY <2>2, <3>0, NamedGrants DEF Reserved, Busy
    <3>2. Unused(n) = {t} /\ Minting(n) = {}
      BY <2>2, <3>1 DEF OneRefreshChain, Unused
    <3>3. refresh'[t].used /\ refresh'[t].grant = n
      BY <2>2, <3>1 DEF Core, Tables, OAuthRefreshToken
    <3>4. \A g \in Grants : Unused(g)' \subseteq Unused(g) \ {t}
      BY <2>2, <3>1, <3>3 DEF Unused
    <3>5. \A g \in Grants : g = n => Unused(g)' = {} /\ Minting(g)' \subseteq {r}
      <4>1. \A g \in Grants : g = n => Unused(g)' = {}
        BY <3>2, <3>4
      <4>2. \A g \in Grants : g = n => \A s \in Minting(g)' : s = r
        BY <3>0, <3>2 DEF Minting
      <4>. QED
        BY <4>1, <4>2
    <3>6. \A g \in Grants : g # n => Minting(g)' \subseteq Minting(g)
      BY <3>0 DEF Minting, Busy
    <3>. QED
      BY <3>2, <3>4, <3>5, <3>6 DEF OneRefreshChain
  <2>. QED
    BY <1>7, <2>1, <2>2, UseEffect
<1>. QED
  BY <1>1, <1>2, <1>3, <1>4, <1>5, <1>6, <1>7, StepKinds

\* A grant never has two refresh tokens that work, nor one and a request about to make
\* one, however many requests present the same token (UseOAuthRefreshToken).
THEOREM RefreshTokensFormOneChain == Spec => []OneRefreshChain
<1>1. Init => Reserved /\ OneRefreshChain
  BY IdleType DEF Init, Reserved, OneRefreshChain, Unused, Minting
<1>2. Core /\ Reserved /\ OneRefreshChain /\ [Next]_vars => Reserved' /\ OneRefreshChain'
  BY ReservedStep, ChainStep
<1>. QED
  BY <1>1, <1>2, CoreInvariant, PTL DEF Spec

-----------------------------------------------------------------------------
(* A replayed refresh token ends its grant *)

\* The grant is revoked or gone; it is after this step; a request is about to revoke it.
Over(g) == grants[g] = None \/ grants[g].revoked
EndsNow(g) == grants'[g] = None \/ grants'[g].revoked
Pending(g) == \E r \in Requests : req[r].pc = "revoke" /\ req[r].grant = g

\* A used refresh token is still stored as used, with its grant, or it is missing because
\* it expired or its grant is over; no number that is to become a token was used before; a
\* grant of which a token came again is over or about to be.
ReplayTraced ==
    /\ \A t \in Tokens : spent[t] # None =>
          /\ spent[t].grant \in 1 .. seq.grant /\ t <= seq.token
          /\ refresh[t] # None => /\ refresh[t].used /\ refresh[t].grant = spent[t].grant
                                  /\ refresh[t].exp = spent[t].exp
          /\ refresh[t] = None => spent[t].exp < now \/ Over(spent[t].grant)
    /\ \A r \in Requests : req[r].pc = "refresh" => spent[req[r].tok] = None
    /\ \A g \in replayed : g \in 1 .. seq.grant /\ (Pending(g) \/ Over(g))

\* With the core, that is what is promised.
LEMMA TracedEnds == Core /\ ReplayTraced => ReplayEndsGrant
BY DEF Core, Tables, ReplayTraced, ReplayEndsGrant, Pending, Over, Verify, Usable

\* The numbers of the grants that were made.
LEMMA MadeGrants ==
    ASSUME Core
    PROVE  /\ seq.grant \in Nat /\ seq.token \in Nat
           /\ \A g \in 1 .. seq.grant : g \in Grants /\ g # seq.grant + 1
<1>1. seq \in Seq
  BY DEF Core, Tables
<1>. QED
  BY <1>1, GrantsAssumption DEF Seq, Grants

\* A revoked grant stays revoked, and no grant comes back.
LEMMA OverStays ==
    ASSUME Core, [Next]_vars, NEW g \in 1 .. seq.grant, Over(g)
    PROVE  Over(g)'
<1>0. g \in Grants /\ g # seq.grant + 1
  BY MadeGrants
<1>1. CASE UNCHANGED grants
  BY <1>1 DEF Over
<1>2. ASSUME NEW G, grants' = Revoked(G) PROVE Over(g)'
  <2>1. grants[g] # None => grants[g] \in Grant
    BY <1>0 DEF Core, Tables
  <2>. QED
    BY <1>0, <1>2, <2>1 DEF Over, Revoked, Grant
<1>3. ASSUME NEW r \in Requests, CreateOAuthGrant(r) PROVE Over(g)'
  BY <1>0, <1>3, GrantEffect DEF Over
<1>4. CASE DeleteOAuthClient \/ DeleteExpiredOAuth
  BY <1>0, <1>4 DEF DeleteOAuthClient, DeleteExpiredOAuth, Over
<1>5. CASE RevokeOAuthGrants
  BY <1>2, <1>5 DEF RevokeOAuthGrants
<1>6. ASSUME NEW r \in Requests, RevokeReplayed(r) PROVE Over(g)'
  BY <1>2, <1>6 DEF RevokeReplayed
<1>7. ASSUME NEW r \in Requests, Consent(r) \/ Fail(r) PROVE Over(g)'
  BY <1>1, <1>7
     DEF Consent, login, Approve, Deny, AuthorizeCallback, SaveAuthCode, SaveOAuthAuthRequest,
         DeleteOAuthAuthRequest, Fail, store
<1>8. ASSUME NEW r \in Requests,
             \/ \E p \in Procs, c \in Codes : Exchange(r, p, c)
             \/ OAuthAuthRequestByCode(r) \/ accessToken(r) \/ CreateOAuthRefreshToken(r)
             \/ \E t \in Tokens : TokenRequestByRefreshToken(r, t)
             \/ OAuthGrant(r) \/ UseOAuthRefreshToken(r)
      PROVE  Over(g)'
  BY <1>1, <1>8
     DEF Exchange, OAuthAuthRequestByCode, accessToken, CreateOAuthRefreshToken,
         TokenRequestByRefreshToken, OAuthGrant, UseOAuthRefreshToken, store
<1>9. CASE \/ CreateAuthRequest \/ Tick \/ UNCHANGED vars
           \/ \E a \in Tokens : DeleteOAuthAccessToken(a)
           \/ \E p \in Procs : forgetCodes(p)
  BY <1>1, <1>9 DEF CreateAuthRequest, Tick, vars, DeleteOAuthAccessToken, forgetCodes, store
<1>. QED
  BY <1>3, <1>4, <1>5, <1>6, <1>7, <1>8, <1>9 DEF Next, Token

\* A step may use up tokens that it leaves stored, remove used ones that are expired or
\* whose grant is over, and note a replay that it answers or that is answered already; it
\* gives up no revocation under way, unless with it the note of the replay.
LEMMA TracedKept ==
    ASSUME Core, ReplayTraced, [Next]_vars,
           now' \in Nat, now <= now', seq'.grant \in Nat, seq.grant <= seq'.grant,
           seq'.token \in Nat, seq.token <= seq'.token,
           \A t \in Tokens : spent'[t] # None =>
              \/ /\ spent'[t] = spent[t]
                 /\ \/ refresh'[t] = refresh[t]
                    \/ /\ refresh'[t] = None /\ refresh[t] # None
                       /\ refresh[t].exp < now \/ EndsNow(refresh[t].grant)
              \/ /\ spent'[t].grant \in 1 .. seq.grant /\ t <= seq.token
                 /\ refresh'[t] # None /\ refresh'[t].used
                 /\ refresh'[t].grant = spent'[t].grant /\ refresh'[t].exp = spent'[t].exp,
           \A g \in replayed' : g \in replayed
                                \/ (g \in 1 .. seq.grant /\ (Pending(g)' \/ Over(g))),
           \A r \in Requests : req[r].pc = "revoke" =>
              req'[r] = req[r] \/ EndsNow(req[r].grant) \/ req[r].grant \notin replayed',
           \A r \in Requests : req'[r].pc = "refresh" => spent'[req'[r].tok] = None
    PROVE  ReplayTraced'
<1>0. /\ now \in Nat /\ seq.grant \in Nat /\ seq.token \in Nat
      /\ \A g \in 1 .. seq.grant : g \in 1 .. seq'.grant
      /\ \A t \in Tokens : t <= seq.token => t <= seq'.token
  BY MadeGrants DEF Core, Tables, Tokens
<1>1. ASSUME NEW t \in Tokens, spent'[t] # None
      PROVE  /\ spent'[t].grant \in 1 .. seq'.grant /\ t <= seq'.token
             /\ refresh'[t] # None => /\ refresh'[t].used /\ refresh'[t].grant = spent'[t].grant
                                      /\ refresh'[t].exp = spent'[t].exp
             /\ refresh'[t] = None => spent'[t].exp < now' \/ EndsNow(spent'[t].grant)
  <2>1. CASE /\ spent'[t] = spent[t]
             /\ \/ refresh'[t] = refresh[t]
                \/ /\ refresh'[t] = None /\ refresh[t] # None
                   /\ refresh[t].exp < now \/ EndsNow(refresh[t].grant)
    <3>1. /\ spent[t].exp \in Nat /\ spent[t].grant \in 1 .. seq.grant /\ t <= seq.token
          /\ refresh[t] # None => /\ refresh[t].used /\ refresh[t].grant = spent[t].grant
                                  /\ refresh[t].exp = spent[t].exp
          /\ refresh[t] = None => spent[t].exp < now \/ Over(spent[t].grant)
      BY <1>1, <2>1 DEF Core, Tables, ReplayTraced
    <3>2. spent[t].exp < now => spent[t].exp < now'
      BY <1>0, <3>1
    <3>3. Over(spent[t].grant) => EndsNow(spent[t].grant)
      BY <3>1, OverStays DEF EndsNow, Over
    <3>4. spent[t].grant \in 1 .. seq'.grant /\ t <= seq'.token
      BY <1>0, <3>1
    <3>5. CASE refresh'[t] = refresh[t]
      BY <2>1, <3>1, <3>2, <3>3, <3>4, <3>5
    <3>6. CASE /\ refresh'[t] = None /\ refresh[t] # None
               /\ refresh[t].exp < now \/ EndsNow(refresh[t].grant)
      <4>1. refresh[t].grant = spent[t].grant /\ refresh[t].exp = spent[t].exp
        BY <3>1, <3>6
      <4>2. spent[t].exp < now \/ EndsNow(spent[t].grant)
        BY <3>6, <4>1
      <4>. QED
        BY <2>1, <3>2, <3>4, <3>6, <4>2
    <3>. QED
      BY <2>1, <3>5, <3>6
  <2>2. CASE /\ spent'[t].grant \in 1 .. seq.grant /\ t <= seq.token
             /\ refresh'[t] # None /\ refresh'[t].used
             /\ refresh'[t].grant = spent'[t].grant /\ refresh'[t].exp = spent'[t].exp
    BY <1>0, <2>2
  <2>. QED
    BY <1>1, <2>1, <2>2
<1>2. ASSUME NEW g \in replayed' PROVE g \in 1 .. seq'.grant /\ (Pending(g)' \/ Over(g)')
  <2>1. g \in 1 .. seq.grant /\ (Pending(g) \/ Pending(g)' \/ Over(g))
    BY DEF ReplayTraced
  <2>2. Over(g) => Over(g)'
    BY <2>1, OverStays
  <2>3. ASSUME NEW r \in Requests, req[r].pc = "revoke", req[r].grant = g
        PROVE  Pending(g)' \/ Over(g)'
    <3>1. CASE req'[r] = req[r]
      BY <2>3, <3>1 DEF Pending
    <3>2. CASE EndsNow(req[r].grant)
      BY <2>3, <3>2 DEF Over, EndsNow
    <3>. QED
      BY <2>3, <3>1, <3>2
  <2>. QED
    BY <1>0, <2>1, <2>2, <2>3 DEF Pending
<1>. QED
  BY <1>1, <1>2 DEF ReplayTraced, Over, EndsNow

\* The clock and the counters never go back.
LEMMA CountersGrow ==
    ASSUME Core, Core', [Next]_vars
    PROVE  /\ now' \in Nat /\ now <= now'
           /\ seq'.grant \in Nat /\ seq.grant <= seq'.grant
           /\ seq'.token \in Nat /\ seq.token <= seq'.token
<1>1. /\ now \in Nat /\ now' \in Nat
      /\ seq.grant \in Nat /\ seq'.grant \in Nat /\ seq.token \in Nat /\ seq'.token \in Nat
  BY MadeGrants, GrantsAssumption DEF Core, Tables, Seq
<1>2. now <= now'
  <2>1. ASSUME NEW r \in Requests, Consent(r) \/ Fail(r) \/ RevokeReplayed(r) PROVE now' = now
    BY <2>1
       DEF Consent, login, Approve, Deny, AuthorizeCallback, SaveAuthCode,
           SaveOAuthAuthRequest, DeleteOAuthAuthRequest, Fail, RevokeReplayed
  <2>2. ASSUME NEW r \in Requests, Token(r) PROVE now' = now
    BY <2>2
       DEF Token, Exchange, OAuthAuthRequestByCode, CreateOAuthGrant, accessToken,
           CreateOAuthRefreshToken, TokenRequestByRefreshToken, OAuthGrant,
           UseOAuthRefreshToken, RevokeReplayed
  <2>3. CASE \/ CreateAuthRequest \/ RevokeOAuthGrants
             \/ \E a \in Tokens : DeleteOAuthAccessToken(a)
             \/ DeleteOAuthClient \/ DeleteExpiredOAuth
             \/ \E p \in Procs : forgetCodes(p)
             \/ UNCHANGED vars
    BY <1>1, <2>3
       DEF CreateAuthRequest, RevokeOAuthGrants, DeleteOAuthAccessToken, DeleteOAuthClient,
           DeleteExpiredOAuth, forgetCodes, vars
  <2>4. CASE Tick
    BY <1>1, <2>4 DEF Tick
  <2>. QED
    BY <1>1, <2>1, <2>2, <2>3, <2>4 DEF Next
<1>3. ASSUME NEW r \in Requests,
             \/ CreateOAuthGrant(r) \/ accessToken(r) \/ CreateOAuthRefreshToken(r)
             \/ \E t \in Tokens : TokenRequestByRefreshToken(r, t)
             \/ OAuthGrant(r) \/ UseOAuthRefreshToken(r)
      PROVE  seq.grant <= seq'.grant /\ seq.token <= seq'.token
  <2>1. CASE CreateOAuthGrant(r)
    BY <1>1, <2>1, GrantEffect
  <2>2. CASE accessToken(r)
    BY <1>1, <2>2, AccessEffect
  <2>3. ASSUME UNCHANGED seq PROVE seq.grant <= seq'.grant /\ seq.token <= seq'.token
    BY <1>1, <2>3
  <2>. QED
    BY <1>3, <2>1, <2>2, <2>3, RefreshEffect, LookUpEffect, ReadEffect, UseEffect
<1>. QED
  BY <1>1, <1>2, <1>3, StepKinds DEF Quiet

\* A request about to revoke a grant or to store a refresh token does nothing else.
LEMMA LastStep ==
    ASSUME Core, [Next]_vars, NEW r \in Requests, req[r].pc \in {"revoke", "refresh"}
    PROVE  req'[r] = req[r] \/ RevokeReplayed(r) \/ CreateOAuthRefreshToken(r) \/ Fail(r)
<1>1. ASSUME NEW s \in Requests, NEW x, s # r, Continue(s, x) PROVE req'[r] = req[r]
  BY <1>1 DEF Continue, Core
<1>2. ASSUME NEW s \in Requests, Consent(s) PROVE req'[r] = req[r]
  <2>1. s # r
    BY <1>2 DEF Consent, login, Approve, Deny, AuthorizeCallback, SaveAuthCode,
                SaveOAuthAuthRequest, DeleteOAuthAuthRequest, Begin
  <2>. QED
    BY <1>1, <1>2, <2>1
       DEF Consent, login, Approve, Deny, AuthorizeCallback, SaveAuthCode,
           SaveOAuthAuthRequest, DeleteOAuthAuthRequest, Begin, Finish
<1>3. ASSUME NEW s \in Requests,
             \/ \E p \in Procs, c \in Codes : Exchange(s, p, c)
             \/ OAuthAuthRequestByCode(s)
      PROVE  req'[r] = req[r]
  <2>1. s # r
    BY <1>3 DEF Exchange, OAuthAuthRequestByCode, Begin
  <2>. QED
    BY <1>1, <1>3, <2>1 DEF Exchange, OAuthAuthRequestByCode, Begin, Finish
<1>4. ASSUME NEW s \in Requests,
             \/ CreateOAuthGrant(s) \/ accessToken(s) \/ CreateOAuthRefreshToken(s)
             \/ \E t \in Tokens : TokenRequestByRefreshToken(s, t)
             \/ OAuthGrant(s) \/ UseOAuthRefreshToken(s)
      PROVE  req'[r] = req[r] \/ CreateOAuthRefreshToken(r)
  BY <1>4, GrantEffect, AccessEffect, RefreshEffect, LookUpEffect, ReadEffect, UseEffect
<1>5. ASSUME NEW s \in Requests, RevokeReplayed(s) \/ Fail(s), s # r PROVE req'[r] = req[r]
  BY <1>1, <1>5 DEF RevokeReplayed, Fail, Finish
<1>6. CASE \/ CreateAuthRequest \/ RevokeOAuthGrants
           \/ \E a \in Tokens : DeleteOAuthAccessToken(a)
           \/ DeleteOAuthClient \/ DeleteExpiredOAuth
           \/ \E p \in Procs : forgetCodes(p)
           \/ Tick \/ UNCHANGED vars
  BY <1>6 DEF CreateAuthRequest, RevokeOAuthGrants, DeleteOAuthAccessToken, DeleteOAuthClient,
              DeleteExpiredOAuth, forgetCodes, Tick, vars
<1>. QED
  BY <1>2, <1>3, <1>4, <1>5, <1>6 DEF Next, Token

\* A request about to revoke a grant does nothing else.
LEMMA RevokeStays ==
    ASSUME Core, [Next]_vars, NEW r \in Requests, req[r].pc = "revoke"
    PROVE  req'[r] = req[r] \/ RevokeReplayed(r) \/ Fail(r)
BY LastStep DEF CreateOAuthRefreshToken

\* A revocation under way is carried out, or given up with the note of the replay.
LEMMA RevokeAnswered ==
    ASSUME Core, [Next]_vars, NEW r \in Requests, req[r].pc = "revoke"
    PROVE  req'[r] = req[r] \/ EndsNow(req[r].grant) \/ req[r].grant \notin replayed'
<1>1. CASE RevokeReplayed(r)
  <2>1. req[r].grant \in Grants
    BY MadeGrants DEF Core, Holds
  <2>2. grants[req[r].grant] # None => grants[req[r].grant] \in Grant
    BY <2>1 DEF Core, Tables
  <2>. QED
    BY <1>1, <2>1, <2>2 DEF RevokeReplayed, Revoked, EndsNow, Grant
<1>2. CASE Fail(r)
  BY <1>2 DEF Fail
<1>. QED
  BY <1>1, <1>2, RevokeStays

\* A step that leaves refresh tokens, their use and the notes of replays alone.
LEMMA TracedQuiet ==
    ASSUME Core, Core', ReplayTraced, [Next]_vars,
           UNCHANGED <<refresh, spent>>, replayed' \subseteq replayed,
           \A r \in Requests : req'[r].pc = "refresh" => req'[r] = req[r]
    PROVE  ReplayTraced'
<1>1. \A r \in Requests : req'[r].pc = "refresh" => spent'[req'[r].tok] = None
  BY DEF ReplayTraced
<1>2. \A t \in Tokens : spent'[t] # None =>
         \/ /\ spent'[t] = spent[t]
            /\ \/ refresh'[t] = refresh[t]
               \/ /\ refresh'[t] = None /\ refresh[t] # None
                  /\ refresh[t].exp < now \/ EndsNow(refresh[t].grant)
         \/ /\ spent'[t].grant \in 1 .. seq.grant /\ t <= seq.token
            /\ refresh'[t] # None /\ refresh'[t].used
            /\ refresh'[t].grant = spent'[t].grant /\ refresh'[t].exp = spent'[t].exp
  <2>1. \A t \in Tokens : spent'[t] = spent[t] /\ refresh'[t] = refresh[t]
    OBVIOUS
  <2>. QED
    BY <2>1, Zenon
<1>3. \A g \in replayed' : g \in replayed
                           \/ (g \in 1 .. seq.grant /\ (Pending(g)' \/ Over(g)))
  OBVIOUS
<1>4. \A r \in Requests : req[r].pc = "revoke" =>
         req'[r] = req[r] \/ EndsNow(req[r].grant) \/ req[r].grant \notin replayed'
  BY RevokeAnswered
<1>5. /\ now' \in Nat /\ now <= now'
      /\ seq'.grant \in Nat /\ seq.grant <= seq'.grant
      /\ seq'.token \in Nat /\ seq.token <= seq'.token
  BY CountersGrow
<1>. QED
  BY <1>1, <1>2, <1>3, <1>4, <1>5, TracedKept

\* Consent, the exchange of a code, the steps that only read, revocations and failures
\* are such steps.
LEMMA TracedRequests ==
    ASSUME Core, Core', ReplayTraced, [Next]_vars, NEW r \in Requests,
           \/ Consent(r) \/ Fail(r) \/ RevokeReplayed(r) \/ OAuthAuthRequestByCode(r)
           \/ \E p \in Procs, c \in Codes : Exchange(r, p, c)
           \/ CreateOAuthGrant(r) \/ OAuthGrant(r)
    PROVE  ReplayTraced'
<1>1. CASE Consent(r) \/ Fail(r) \/ RevokeReplayed(r)
  <2>1. UNCHANGED <<refresh, spent>> /\ replayed' \subseteq replayed
    BY <1>1 DEF Consent, login, Approve, Deny, AuthorizeCallback, SaveAuthCode,
                SaveOAuthAuthRequest, DeleteOAuthAuthRequest, Fail, RevokeReplayed, store, history
  <2>2. \A s \in Requests : req'[s].pc = "refresh" => req'[s] = req[s]
    BY <1>1, QuietRequests DEF Quiet, Busy
  <2>. QED
    BY <2>1, <2>2, TracedQuiet
<1>2. CASE OAuthAuthRequestByCode(r) \/ \E p \in Procs, c \in Codes : Exchange(r, p, c)
  <2>1. UNCHANGED <<refresh, spent>> /\ replayed' \subseteq replayed
    BY <1>2 DEF OAuthAuthRequestByCode, Exchange, store, history
  <2>2. \A s \in Requests : req'[s].pc = "refresh" => req'[s] = req[s]
    BY <1>2, QuietRequests DEF Quiet, Busy
  <2>. QED
    BY <2>1, <2>2, TracedQuiet
<1>3. CASE CreateOAuthGrant(r)
  <2>1. UNCHANGED <<refresh, spent>> /\ replayed' \subseteq replayed
    BY <1>3 DEF CreateOAuthGrant, history
  <2>2. \A s \in Requests : req'[s].pc = "refresh" => req'[s] = req[s]
    BY <1>3, GrantEffect
  <2>. QED
    BY <2>1, <2>2, TracedQuiet
<1>4. CASE OAuthGrant(r)
  <2>1. UNCHANGED <<refresh, spent>> /\ replayed' \subseteq replayed
    BY <1>4 DEF OAuthGrant, store, history
  <2>2. \A s \in Requests : req'[s].pc = "refresh" => req'[s] = req[s]
    BY <1>4, ReadEffect DEF Busy
  <2>. QED
    BY <2>1, <2>2, TracedQuiet
<1>. QED
  BY <1>1, <1>2, <1>3, <1>4

\* Issuing tokens uses none up, and a new refresh token has a number that was not used.
LEMMA TracedIssue ==
    ASSUME Core, Core', ReplayTraced, [Next]_vars, NEW r \in Requests,
           accessToken(r) \/ CreateOAuthRefreshToken(r)
    PROVE  ReplayTraced'
<1>1. UNCHANGED <<spent, replayed>>
  BY DEF accessToken, CreateOAuthRefreshToken, history
<1>2. \A t \in Tokens : spent'[t] # None => refresh'[t] = refresh[t]
  <2>1. CASE accessToken(r)
    BY <2>1, AccessEffect
  <2>2. CASE CreateOAuthRefreshToken(r)
    BY <1>1, <2>2, RefreshEffect DEF ReplayTraced
  <2>. QED
    BY <2>1, <2>2
<1>3. ASSUME NEW s \in Requests, req'[s].pc = "refresh" PROVE spent'[req'[s].tok] = None
  <2>1. CASE req'[s] = req[s]
    BY <1>1, <1>3, <2>1 DEF ReplayTraced
  <2>2. CASE req'[s] # req[s]
    <3>1. accessToken(r) /\ s = r
      BY <1>3, <2>2, AccessEffect, RefreshEffect
    <3>2. seq.token + 1 \in Tokens /\ req'[s].tok = seq.token + 1 /\ seq.token \in Nat
      BY <3>1, AccessEffect
    <3>. QED
      BY <1>1, <3>2 DEF ReplayTraced
  <2>. QED
    BY <2>1, <2>2
<1>4. \A t \in Tokens : spent'[t] # None =>
         \/ /\ spent'[t] = spent[t]
            /\ \/ refresh'[t] = refresh[t]
               \/ /\ refresh'[t] = None /\ refresh[t] # None
                  /\ refresh[t].exp < now \/ EndsNow(refresh[t].grant)
         \/ /\ spent'[t].grant \in 1 .. seq.grant /\ t <= seq.token
            /\ refresh'[t] # None /\ refresh'[t].used
            /\ refresh'[t].grant = spent'[t].grant /\ refresh'[t].exp = spent'[t].exp
  BY <1>1, <1>2
<1>5. \A s \in Requests : req[s].pc = "revoke" =>
         req'[s] = req[s] \/ EndsNow(req[s].grant) \/ req[s].grant \notin replayed'
  BY RevokeAnswered
<1>6. /\ now' \in Nat /\ now <= now'
      /\ seq'.grant \in Nat /\ seq.grant <= seq'.grant
      /\ seq'.token \in Nat /\ seq.token <= seq'.token
  BY CountersGrow
<1>7. \A g \in replayed' : g \in replayed
                           \/ (g \in 1 .. seq.grant /\ (Pending(g)' \/ Over(g)))
  BY <1>1
<1>. QED
  BY <1>3, <1>4, <1>5, <1>6, <1>7, TracedKept

\* A token that is presented again is noted, and its grant is about to be revoked or is over.
LEMMA TracedLookUp ==
    ASSUME Core, Core', ReplayTraced, [Next]_vars, NEW r \in Requests, NEW t \in Tokens,
           TokenRequestByRefreshToken(r, t)
    PROVE  ReplayTraced'
<1>1. UNCHANGED <<spent, refresh>>
  BY DEF TokenRequestByRefreshToken, store
<1>2. \A s \in Requests : req'[s].pc = "refresh" => spent'[req'[s].tok] = None
  BY <1>1, LookUpEffect DEF ReplayTraced, Busy
<1>3. ASSUME NEW g \in replayed', g \notin replayed
      PROVE  g \in 1 .. seq.grant /\ (Pending(g)' \/ Over(g))
  <2>1. Replays(t) /\ g = spent[t].grant
    BY <1>3 DEF TokenRequestByRefreshToken
  <2>2. /\ g \in 1 .. seq.grant /\ spent[t] # None
        /\ refresh[t] # None => refresh[t].used /\ refresh[t].grant = g
        /\ refresh[t] = None => spent[t].exp < now \/ Over(g)
    BY <2>1 DEF Replays, ReplayTraced
  <2>3. CASE refresh[t] = None
    <3>1. ~(spent[t].exp < now)
      BY <2>1, <2>2 DEF Replays, Core, Tables
    <3>. QED
      BY <2>2, <2>3, <3>1
  <2>4. CASE refresh[t] # None
    <3>1. Continue(r, [Idle EXCEPT !.pc = "revoke", !.grant = g])
      BY <2>2, <2>4 DEF TokenRequestByRefreshToken, Begin
    <3>2. req'[r].pc = "revoke" /\ req'[r].grant = g
      BY <3>1 DEF Continue, Core, Idle
    <3>. QED
      BY <2>2, <3>2 DEF Pending
  <2>. QED
    BY <2>3, <2>4
<1>4. \A u \in Tokens : spent'[u] # None =>
         \/ /\ spent'[u] = spent[u]
            /\ \/ refresh'[u] = refresh[u]
               \/ /\ refresh'[u] = None /\ refresh[u] # None
                  /\ refresh[u].exp < now \/ EndsNow(refresh[u].grant)
         \/ /\ spent'[u].grant \in 1 .. seq.grant /\ u <= seq.token
            /\ refresh'[u] # None /\ refresh'[u].used
            /\ refresh'[u].grant = spent'[u].grant /\ refresh'[u].exp = spent'[u].exp
  BY <1>1
<1>5. \A s \in Requests : req[s].pc = "revoke" =>
         req'[s] = req[s] \/ EndsNow(req[s].grant) \/ req[s].grant \notin replayed'
  BY RevokeAnswered
<1>6. /\ now' \in Nat /\ now <= now'
      /\ seq'.grant \in Nat /\ seq.grant <= seq'.grant
      /\ seq'.token \in Nat /\ seq.token <= seq'.token
  BY CountersGrow
<1>7. \A g \in replayed' : g \in replayed
                           \/ (g \in 1 .. seq.grant /\ (Pending(g)' \/ Over(g)))
  BY <1>3
<1>. QED
  BY <1>2, <1>4, <1>5, <1>6, <1>7, TracedKept

\* A token that is used up stays stored as used; who comes second is noted and revokes.
LEMMA TracedUse ==
    ASSUME Core, Core', Reserved, ReplayTraced, [Next]_vars, NEW r \in Requests,
           UseOAuthRefreshToken(r)
    PROVE  ReplayTraced'
<1>. DEFINE t == req[r].tok
            n == req[r].grant
<1>0. /\ t \in Tokens /\ t <= seq.token /\ n \in 1 .. seq.grant /\ req[r].pc = "use"
      /\ refresh[t] # None => refresh[t].grant = n
  <2>1. req[r].pc = "use"
    BY DEF UseOAuthRefreshToken
  <2>. QED
    BY <2>1, NamedTokens DEF Core, Holds, Reserved
<1>1. /\ \A s \in Requests : s # r => req'[s] = req[s]
      /\ req'[r].pc # "refresh"
  BY UseEffect DEF Busy
<1>2. /\ \A u \in Tokens : spent'[u] # None =>
            \/ /\ spent'[u] = spent[u]
               /\ \/ refresh'[u] = refresh[u]
                  \/ /\ refresh'[u] = None /\ refresh[u] # None
                     /\ refresh[u].exp < now \/ EndsNow(refresh[u].grant)
            \/ /\ spent'[u].grant \in 1 .. seq.grant /\ u <= seq.token
               /\ refresh'[u] # None /\ refresh'[u].used
               /\ refresh'[u].grant = spent'[u].grant /\ refresh'[u].exp = spent'[u].exp
      /\ \A s \in Requests : s # r /\ req[s].pc = "refresh" => spent'[req[s].tok] = None
      /\ \A g \in replayed' : g \in replayed
                              \/ (g \in 1 .. seq.grant /\ (Pending(g)' \/ Over(g)))
  <2>1. CASE /\ refresh[t] # None /\ ~refresh[t].used
             /\ refresh' = [refresh EXCEPT ![t].used = TRUE]
             /\ spent' = [spent EXCEPT ![t] = [grant |-> n, exp |-> refresh[t].exp]]
             /\ UNCHANGED replayed
    <3>. DEFINE x == [refresh[t] EXCEPT !.used = TRUE]
                y == [grant |-> n, exp |-> refresh[t].exp]
    <3>1. refresh[t] \in OAuthRefreshToken
      BY <1>0, <2>1 DEF Core, Tables
    <3>2. /\ x \in OAuthRefreshToken /\ x.used /\ x.grant = n /\ x.exp = refresh[t].exp
          /\ y.grant = n /\ y.exp = refresh[t].exp
      BY <1>0, <2>1, <3>1 DEF OAuthRefreshToken
    <3>3. x # None
      BY <3>2, NoneType
    <3>. HIDE DEF y
    <3>4. /\ refresh'[t] = x /\ spent'[t] = y
          /\ \A u \in Tokens : u # t => refresh'[u] = refresh[u] /\ spent'[u] = spent[u]
      BY <1>0, <2>1 DEF Core, Tables, y
    <3>5. \A s \in Requests : req[s].pc = "refresh" => req[s].tok # t /\ req[s].tok \in Tokens
      BY <2>1, NamedTokens DEF Reserved
    <3>6. \A s \in Requests : req[s].pc = "refresh" => spent'[req[s].tok] = None
      BY <3>4, <3>5 DEF ReplayTraced
    <3>. HIDE DEF x
    <3>7. ASSUME NEW u \in Tokens
          PROVE  \/ spent'[u] = spent[u] /\ refresh'[u] = refresh[u]
                 \/ /\ spent'[u].grant \in 1 .. seq.grant /\ u <= seq.token
                    /\ refresh'[u] # None /\ refresh'[u].used
                    /\ refresh'[u].grant = spent'[u].grant /\ refresh'[u].exp = spent'[u].exp
      <4>1. CASE u = t
        BY <1>0, <3>2, <3>3, <3>4, <4>1
      <4>2. CASE u # t
        BY <3>4, <4>2
      <4>. QED
        BY <4>1, <4>2
    <3>. QED
      BY <2>1, <3>6, <3>7
  <2>2. CASE /\ replayed' = replayed \cup {n}
             /\ Continue(r, [Idle EXCEPT !.pc = "revoke", !.grant = n])
             /\ UNCHANGED <<refresh, spent>>
    <3>1. req'[r].pc = "revoke" /\ req'[r].grant = n
      BY <2>2 DEF Continue, Core, Idle
    <3>2. Pending(n)'
      BY <3>1 DEF Pending
    <3>3. \A g \in replayed' : g \in replayed
                               \/ (g \in 1 .. seq.grant /\ (Pending(g)' \/ Over(g)))
      <4>. HIDE DEF n
      <4>1. n \in 1 .. seq.grant
        BY <1>0
      <4>2. \A g : g = n => Pending(g)'
        BY <3>1 DEF Pending, n
      <4>3. replayed' = replayed \cup {n}
        BY <2>2
      <4>. QED
        BY <4>1, <4>2, <4>3
    <3>. QED
      BY <2>2, <3>3 DEF ReplayTraced
  <2>3. CASE UNCHANGED <<refresh, spent, replayed>>
    BY <2>3 DEF ReplayTraced
  <2>. QED
    BY <2>1, <2>2, <2>3 DEF UseOAuthRefreshToken
<1>3. \A s \in Requests : req'[s].pc = "refresh" => spent'[req'[s].tok] = None
  BY <1>1, <1>2
<1>4. \A s \in Requests : req[s].pc = "revoke" =>
         req'[s] = req[s] \/ EndsNow(req[s].grant) \/ req[s].grant \notin replayed'
  BY RevokeAnswered
<1>5. /\ now' \in Nat /\ now <= now'
      /\ seq'.grant \in Nat /\ seq.grant <= seq'.grant
      /\ seq'.token \in Nat /\ seq.token <= seq'.token
  BY CountersGrow
<1>. QED
  BY <1>2, <1>3, <1>4, <1>5, TracedKept

\* Clean-up and deleting the client remove a refresh token with its grant, or expired.
LEMMA TracedOthers ==
    ASSUME Core, Core', ReplayTraced, [Next]_vars,
           \/ CreateAuthRequest \/ RevokeOAuthGrants
           \/ \E a \in Tokens : DeleteOAuthAccessToken(a)
           \/ DeleteOAuthClient \/ DeleteExpiredOAuth
           \/ \E p \in Procs : forgetCodes(p)
           \/ Tick \/ UNCHANGED vars
    PROVE  ReplayTraced'
<1>1. UNCHANGED <<req, spent, replayed>>
  BY DEF CreateAuthRequest, RevokeOAuthGrants, DeleteOAuthAccessToken, DeleteOAuthClient,
         DeleteExpiredOAuth, forgetCodes, Tick, vars, history
<1>2. CASE DeleteOAuthClient \/ DeleteExpiredOAuth
  <2>1. ASSUME NEW t \in Tokens, refresh'[t] # refresh[t]
        PROVE  /\ refresh'[t] = None /\ refresh[t] # None
               /\ refresh[t].exp < now \/ EndsNow(refresh[t].grant)
    <3>1. refresh'[t] = None /\ refresh[t] # None
      BY <1>2, <2>1 DEF DeleteOAuthClient, DeleteExpiredOAuth
    <3>2. refresh[t].grant \in Grants
      BY <3>1, NamedGrants
    <3>. QED
      BY <1>2, <2>1, <3>1, <3>2 DEF DeleteOAuthClient, DeleteExpiredOAuth, EndsNow
  <2>2. \A t \in Tokens : spent'[t] # None =>
           \/ /\ spent'[t] = spent[t]
              /\ \/ refresh'[t] = refresh[t]
                 \/ /\ refresh'[t] = None /\ refresh[t] # None
                    /\ refresh[t].exp < now \/ EndsNow(refresh[t].grant)
           \/ /\ spent'[t].grant \in 1 .. seq.grant /\ t <= seq.token
              /\ refresh'[t] # None /\ refresh'[t].used
              /\ refresh'[t].grant = spent'[t].grant /\ refresh'[t].exp = spent'[t].exp
    BY <1>1, <2>1
  <2>3. \A r \in Requests : req'[r].pc = "refresh" => spent'[req'[r].tok] = None
    BY <1>1 DEF ReplayTraced
  <2>4. \A r \in Requests : req[r].pc = "revoke" =>
           req'[r] = req[r] \/ EndsNow(req[r].grant) \/ req[r].grant \notin replayed'
    BY <1>1
  <2>5. \A g \in replayed' : g \in replayed
                             \/ (g \in 1 .. seq.grant /\ (Pending(g)' \/ Over(g)))
    BY <1>1
  <2>6. /\ now' \in Nat /\ now <= now'
        /\ seq'.grant \in Nat /\ seq.grant <= seq'.grant
        /\ seq'.token \in Nat /\ seq.token <= seq'.token
    BY CountersGrow
  <2>. QED
    BY <2>2, <2>3, <2>4, <2>5, <2>6, TracedKept
<1>3. CASE UNCHANGED refresh
  BY <1>1, <1>3, TracedQuiet
<1>. QED
  BY <1>2, <1>3
     DEF CreateAuthRequest, RevokeOAuthGrants, DeleteOAuthAccessToken, forgetCodes, Tick, vars,
         store

\* When a used refresh token comes again before it expires, its grant ends: after the
\* revocation that is then under way nothing issued for the grant works any more, in every
\* order of the requests, of clean-up and of deletions (TokenRequestByRefreshToken,
\* UseOAuthRefreshToken, revokeGrant).
THEOREM ReplayEnds == Spec => []ReplayEndsGrant
<1>1. Init => Reserved /\ ReplayTraced
  BY IdleType DEF Init, Reserved, ReplayTraced
<1>2. Core /\ Core' /\ Reserved /\ ReplayTraced /\ [Next]_vars => Reserved' /\ ReplayTraced'
  <2>. SUFFICES ASSUME Core, Core', Reserved, ReplayTraced, [Next]_vars
                PROVE  Reserved' /\ ReplayTraced'
    OBVIOUS
  <2>1. Reserved'
    BY ReservedStep
  <2>2. ASSUME NEW r \in Requests, Consent(r) \/ Token(r) \/ Fail(r) PROVE ReplayTraced'
    BY <2>2, TracedRequests, TracedIssue, TracedLookUp, TracedUse DEF Token
  <2>. QED
    BY <2>1, <2>2, TracedOthers DEF Next
<1>. QED
  BY <1>1, <1>2, CoreInvariant, TracedEnds, PTL DEF Spec

-----------------------------------------------------------------------------
(* Clean-up *)

\* Clean-up removes no access token that Verify accepts, no refresh token that an exchange
\* accepts, and no grant that either needs (DeleteExpiredOAuth).
THEOREM CleanUpInvisible == Spec => CleanUpIsInvisible
<1>1. ASSUME Core, DeleteExpiredOAuth, NEW t \in Tokens
      PROVE  (Verify(t) => Verify(t)') /\ (Usable(t) => Usable(t)')
  <2>0. now \in Nat /\ UNCHANGED now
    BY <1>1 DEF Core, Tables, DeleteExpiredOAuth
  <2>1. ASSUME NEW g \in Grants, grants[g] # None, ~grants[g].revoked, ~Ended(grants[g].end)
        PROVE  grants'[g] = grants[g] /\ ~Dead(g)
    BY <1>1, <2>1 DEF DeleteExpiredOAuth, Dead
  <2>2. ASSUME Verify(t) PROVE Verify(t)'
    <3>1. access[t] \in OAuthAccessToken /\ access[t].grant \in Grants /\ access[t].exp \in Nat
      BY <1>1, <2>2 DEF Verify, Core, Tables, OAuthAccessToken
    <3>2. access'[t] = access[t] /\ grants'[access[t].grant] = grants[access[t].grant]
      BY <1>1, <2>0, <2>1, <2>2, <3>1 DEF Verify, DeleteExpiredOAuth
    <3>. QED
      BY <2>0, <2>2, <3>2 DEF Verify, Ended
  <2>3. ASSUME Usable(t) PROVE Usable(t)'
    <3>1. refresh[t] \in OAuthRefreshToken /\ refresh[t].grant \in Grants /\ refresh[t].exp \in Nat
      BY <1>1, <2>3 DEF Usable, Core, Tables, OAuthRefreshToken
    <3>2. refresh'[t] = refresh[t] /\ grants'[refresh[t].grant] = grants[refresh[t].grant]
      BY <1>1, <2>0, <2>1, <2>3, <3>1 DEF Usable, DeleteExpiredOAuth
    <3>. QED
      BY <2>0, <2>3, <3>2 DEF Usable, Ended
  <2>. QED
    BY <2>2, <2>3
<1>2. Core => [DeleteExpiredOAuth =>
                  \A t \in Tokens : /\ Verify(t) => Verify(t)'
                                    /\ Usable(t) => Usable(t)']_vars
  BY <1>1
<1>. QED
  BY <1>2, CoreInvariant, PTL DEF CleanUpIsInvisible

-----------------------------------------------------------------------------
(* A process answers a code once *)

\* The copies of authorization requests that are stored or will be.
Copies ==
    {areq[id] : id \in {i \in AuthIds : areq[i] # None}}
        \cup {req[r].rec : r \in {q \in Requests : req[q].pc = "save"}}

\* No request with this code is young enough to be exchanged.
Old(c) == \A k \in Copies : k.code = c => now - k.created > authRequestTTL

\* The requests that have taken the code from this process and will look it up.
Taking(p, c) == {r \in Requests : req[r].pc = "byCode" /\ req[r].proc = p /\ req[r].code = c}

\* A request is older than its code, and its code older than the time it was presented;
\* a code that was answered or taken is remembered or old, and a second request gets
\* hold of it only when it is old.
CodesTraced ==
    /\ CodeOncePerProcess
    /\ \A k \in Copies : k.code <= seq.code /\ k.created <= now
    /\ \A p \in Procs, c \in Codes : codes[p][c] # None =>
          /\ c <= seq.code /\ codes[p][c] <= now
          /\ \A k \in Copies : k.code = c => k.created <= codes[p][c]
    /\ \A p \in Procs, c \in Codes : c \in exchanged[p] \/ Taking(p, c) # {} =>
          c <= seq.code /\ (codes[p][c] # None \/ Old(c))
    /\ \A p \in Procs, c \in Codes : \A r, s \in Taking(p, c) : r = s \/ Old(c)
    /\ \A p \in Procs, c \in Codes : c \in exchanged[p] /\ Taking(p, c) # {} => Old(c)

\* Where the copies after a step come from: a copy before it, with the same age and the
\* same code or a new one, or a new request without a code.
CopiesFrom ==
    \A k \in Copies' :
        \/ k.code = 0 /\ k.created = now
        \/ \E j \in Copies : /\ k.created = j.created
                             /\ k.code = j.code \/ (k.code = seq.code + 1 /\ k.code = seq'.code)

\* A copy is an authorization request.
LEMMA CopyType ==
    ASSUME Core, NEW k \in Copies
    PROVE  k \in AuthRequest /\ k.code \in Nat /\ k.created \in Nat
<1>1. k \in AuthRequest
  BY DEF Copies, Core, Tables, Holds
<1>. QED
  BY <1>1, GrantsAssumption DEF AuthRequest

\* A step that saves nothing and prepares no copy.
LEMMA NoNewCopy ==
    ASSUME Core, \A id \in AuthIds : areq'[id] \in {areq[id], None},
           \A s \in Requests : req'[s].pc = "save" => req'[s] = req[s]
    PROVE  CopiesFrom
<1>1. \A k \in Copies' : k \in Copies
  BY DEF Copies
<1>. QED
  BY <1>1 DEF CopiesFrom

\* A handler that is not to save puts nothing to be saved in its slot.
LEMMA NotSaving ==
    ASSUME Core, NEW r \in Requests, NEW x, Continue(r, x), x.pc # "save", UNCHANGED areq
    PROVE  CopiesFrom
<1>1. \A s \in Requests : req'[s].pc = "save" => req'[s] = req[s]
  BY DEF Continue, Core
<1>. QED
  BY <1>1, NoNewCopy

\* A handler that changes a stored request and will save it keeps its age.
LEMMA SavingCopy ==
    ASSUME Core, NEW r \in Requests, NEW x, Continue(r, x), UNCHANGED areq,
           NEW id \in AuthIds, areq[id] # None, x.rec.created = areq[id].created,
           \/ x.rec.code = areq[id].code
           \/ x.rec.code = seq.code + 1 /\ x.rec.code = seq'.code
    PROVE  CopiesFrom
<1>1. req'[r] = x /\ \A s \in Requests : s # r => req'[s] = req[s]
  BY DEF Continue, Core
<1>2. areq[id] \in Copies
  BY DEF Copies
<1>3. \A k \in Copies' : k \in Copies \/ k = x.rec
  BY <1>1 DEF Copies
<1>. QED
  BY <1>2, <1>3 DEF CopiesFrom

\* Consent only makes copies from copies.
LEMMA CopiesConsent ==
    ASSUME Core, NEW r \in Requests, Consent(r)
    PROVE  CopiesFrom
<1>1. ASSUME NEW id \in AuthIds, NEW u \in Users, login(r, id, u) PROVE CopiesFrom
  <2>. DEFINE rec == [areq[id] EXCEPT !.subject = u]
              x == Saving(id, rec)
  <2>1. areq[id] # None /\ areq[id] \in AuthRequest
    BY <1>1 DEF login, Open, Core, Tables
  <2>2. rec.created = areq[id].created /\ rec.code = areq[id].code
    BY <2>1 DEF AuthRequest
  <2>3. Continue(r, x) /\ UNCHANGED areq
    BY <1>1 DEF login, Begin, store
  <2>. HIDE DEF rec
  <2>4. x.rec = rec
    BY DEF Saving, Idle
  <2>. HIDE DEF x
  <2>. QED
    BY <2>1, <2>2, <2>3, <2>4, SavingCopy
<1>2. ASSUME NEW id \in AuthIds, NEW scopes \in SUBSET Scopes, NEW end \in Ends,
             Approve(r, id, scopes, end)
      PROVE  CopiesFrom
  <2>. DEFINE rec == [areq[id] EXCEPT !.scopes = scopes, !.end = end, !.done = TRUE]
              x == Saving(id, rec)
  <2>1. areq[id] # None /\ areq[id] \in AuthRequest
    BY <1>2 DEF Approve, Open, Core, Tables
  <2>2. rec.created = areq[id].created /\ rec.code = areq[id].code
    BY <2>1 DEF AuthRequest
  <2>3. Continue(r, x) /\ UNCHANGED areq
    BY <1>2 DEF Approve, Begin, store
  <2>. HIDE DEF rec
  <2>4. x.rec = rec
    BY DEF Saving, Idle
  <2>. HIDE DEF x
  <2>. QED
    BY <2>1, <2>2, <2>3, <2>4, SavingCopy
<1>3. ASSUME NEW id \in AuthIds, Deny(r, id) \/ AuthorizeCallback(r, id) PROVE CopiesFrom
  <2>1. /\ [Idle EXCEPT !.pc = "delete", !.id = id].pc # "save"
        /\ [Idle EXCEPT !.pc = "saveCode", !.id = id].pc # "save"
    BY DEF Idle
  <2>. QED
    BY <1>3, <2>1, NotSaving DEF Deny, AuthorizeCallback, Begin, store
<1>4. CASE SaveAuthCode(r)
  <2>. DEFINE id == req[r].id
              rec == [areq[id] EXCEPT !.code = seq'.code, !.codeAt = now]
              x == [Saving(id, rec) EXCEPT !.code = seq'.code]
  <2>1. CASE Finish(r)
    BY <1>4, <2>1, NotSaving, IdleType DEF SaveAuthCode, Finish, store
  <2>2. CASE /\ Open(id) /\ seq' = [seq EXCEPT !.code = @ + 1] /\ Continue(r, x)
    <3>1. id \in AuthIds
      BY <1>4 DEF SaveAuthCode, Core, Holds
    <3>2. areq[id] # None /\ areq[id] \in AuthRequest /\ seq'.code = seq.code + 1
      BY <2>2, <3>1 DEF Open, Core, Tables, Seq
    <3>3. rec.created = areq[id].created /\ rec.code = seq'.code
      BY <3>2 DEF AuthRequest
    <3>4. UNCHANGED areq
      BY <1>4 DEF SaveAuthCode, store
    <3>. HIDE DEF rec
    <3>5. x.rec = rec
      BY DEF Saving, Idle
    <3>. HIDE DEF x, id
    <3>. QED
      BY <2>2, <3>1, <3>2, <3>3, <3>4, <3>5, SavingCopy
  <2>. QED
    BY <1>4, <2>1, <2>2 DEF SaveAuthCode
<1>5. CASE SaveOAuthAuthRequest(r)
  <2>1. req[r].rec \in Copies /\ req[r].id \in AuthIds
    BY <1>5 DEF SaveOAuthAuthRequest, Copies, Core, Holds
  <2>2. \A id \in AuthIds : areq'[id] = IF id = req[r].id THEN req[r].rec ELSE areq[id]
    BY <1>5, <2>1 DEF SaveOAuthAuthRequest, Core, Tables
  <2>3. \A s \in Requests : req'[s].pc = "save" => req'[s] = req[s]
    BY <1>5, IdleType DEF SaveOAuthAuthRequest, Finish, Continue, Core
  <2>4. \A k \in Copies' : k \in Copies
    BY <2>1, <2>2, <2>3 DEF Copies
  <2>. QED
    BY <2>4 DEF CopiesFrom
<1>6. CASE DeleteOAuthAuthRequest(r)
  <2>1. \A id \in AuthIds : areq'[id] \in {areq[id], None}
    BY <1>6 DEF DeleteOAuthAuthRequest, Core, Tables
  <2>2. \A s \in Requests : req'[s].pc = "save" => req'[s] = req[s]
    BY <1>6, IdleType DEF DeleteOAuthAuthRequest, Finish, Continue, Core
  <2>. QED
    BY <2>1, <2>2, NoNewCopy
<1>. QED
  BY <1>1, <1>2, <1>3, <1>4, <1>5, <1>6 DEF Consent

\* The other steps of a request prepare no copy.
LEMMA CopiesToken ==
    ASSUME Core, NEW r \in Requests, Token(r) \/ Fail(r)
    PROVE  CopiesFrom
<1>1. UNCHANGED areq
  BY DEF Token, Fail, Exchange, OAuthAuthRequestByCode, CreateOAuthGrant, accessToken,
         CreateOAuthRefreshToken, TokenRequestByRefreshToken, OAuthGrant,
         UseOAuthRefreshToken, RevokeReplayed, store
<1>2. Idle.pc # "save"
  BY IdleType
<1>3. ASSUME NEW p \in Procs, NEW c \in Codes, Exchange(r, p, c) PROVE CopiesFrom
  <2>1. [Idle EXCEPT !.pc = "byCode", !.proc = p, !.code = c].pc # "save"
    BY DEF Idle
  <2>. QED
    BY <1>1, <1>3, <2>1, NotSaving DEF Exchange, Begin
<1>4. CASE OAuthAuthRequestByCode(r)
  <2>1. ASSUME NEW id \in AuthIds
        PROVE  [Idle EXCEPT !.pc = "grant", !.id = id, !.rec = areq[id]].pc # "save"
    BY DEF Idle
  <2>. QED
    BY <1>1, <1>2, <1>4, <2>1, NotSaving DEF OAuthAuthRequestByCode, Finish
<1>5. ASSUME NEW t \in Tokens, TokenRequestByRefreshToken(r, t) PROVE CopiesFrom
  <2>1. /\ [Idle EXCEPT !.pc = "revoke", !.grant = refresh[t].grant].pc # "save"
        /\ [Idle EXCEPT !.pc = "grantOf", !.tok = t, !.grant = refresh[t].grant,
                        !.scopes = refresh[t].scopes].pc # "save"
    BY DEF Idle
  <2>2. CASE UNCHANGED req
    BY <1>1, <2>2, NoNewCopy
  <2>. QED
    BY <1>1, <1>5, <2>1, <2>2, NotSaving DEF TokenRequestByRefreshToken, Begin
<1>6. CASE UseOAuthRefreshToken(r)
  <2>1. /\ [Idle EXCEPT !.pc = "revoke", !.grant = req[r].grant].pc # "save"
        /\ [req[r] EXCEPT !.pc = "access", !.tok = 0].pc # "save"
    BY DEF Idle, Core, Request
  <2>. QED
    BY <1>1, <1>2, <1>6, <2>1, NotSaving DEF UseOAuthRefreshToken, Finish
<1>7. CASE OAuthGrant(r)
  <2>1. ASSUME NEW scopes, NEW end
        PROVE  [req[r] EXCEPT !.pc = "use", !.scopes = scopes, !.end = end].pc # "save"
    BY DEF Core, Request
  <2>. QED
    BY <1>1, <1>2, <1>7, <2>1, NotSaving DEF OAuthGrant, Finish
<1>8. CASE CreateOAuthGrant(r) \/ accessToken(r) \/ CreateOAuthRefreshToken(r)
  <2>1. /\ \A s \in Requests : s # r => req'[s] = req[s]
        /\ req'[r].pc # "save"
    BY <1>8, GrantEffect, AccessEffect, RefreshEffect
  <2>. QED
    BY <1>1, <2>1, NoNewCopy
<1>9. CASE RevokeReplayed(r) \/ Fail(r)
  BY <1>1, <1>2, <1>9, NotSaving DEF RevokeReplayed, Fail, Finish
<1>. QED
  BY <1>3, <1>4, <1>5, <1>6, <1>7, <1>8, <1>9 DEF Token

\* Every step makes copies from copies, but for a new request.
LEMMA CopiesStep ==
    ASSUME Core, [Next]_vars
    PROVE  CopiesFrom
<1>1. CASE CreateAuthRequest
  <2>. DEFINE n == seq'.auth
              rec == [subject |-> None, scopes |-> Scopes, end |-> 0, done |-> FALSE,
                      code |-> 0, codeAt |-> 0, created |-> now]
  <2>1. areq' = [areq EXCEPT ![n] = rec] /\ UNCHANGED req
    BY <1>1 DEF CreateAuthRequest
  <2>2. rec.code = 0 /\ rec.created = now
    OBVIOUS
  <2>. HIDE DEF rec
  <2>3. \A id \in AuthIds : areq'[id] \in {areq[id], rec}
    BY <2>1 DEF Core, Tables
  <2>4. \A k \in Copies' : k \in Copies \/ k = rec
    BY <2>1, <2>3 DEF Copies
  <2>. QED
    BY <2>2, <2>4 DEF CopiesFrom
<1>2. CASE \/ RevokeOAuthGrants \/ \E a \in Tokens : DeleteOAuthAccessToken(a)
           \/ DeleteOAuthClient \/ DeleteExpiredOAuth
           \/ \E p \in Procs : forgetCodes(p)
           \/ Tick \/ UNCHANGED vars
  <2>1. UNCHANGED req
    BY <1>2 DEF RevokeOAuthGrants, DeleteOAuthAccessToken, DeleteOAuthClient,
                DeleteExpiredOAuth, forgetCodes, Tick, vars
  <2>2. \A id \in AuthIds : areq'[id] \in {areq[id], None}
    BY <1>2 DEF RevokeOAuthGrants, DeleteOAuthAccessToken, DeleteOAuthClient,
                DeleteExpiredOAuth, forgetCodes, Tick, vars, store
  <2>. QED
    BY <2>1, <2>2, NoNewCopy
<1>. QED
  BY <1>1, <1>2, CopiesConsent, CopiesToken DEF Next

\* The last code only moves up.
LEMMA CodeCount ==
    ASSUME Core, [Next]_vars
    PROVE  seq.code \in Nat /\ seq'.code \in Nat /\ seq.code <= seq'.code
<1>0. seq \in Seq /\ seq.code \in Nat
  BY GrantsAssumption DEF Core, Tables, Seq
<1>1. ASSUME NEW r \in Requests, SaveAuthCode(r) PROVE seq'.code \in {seq.code, seq.code + 1}
  BY <1>0, <1>1 DEF SaveAuthCode, Seq
<1>2. ASSUME NEW r \in Requests, Consent(r), ~SaveAuthCode(r) PROVE UNCHANGED seq
  BY <1>2 DEF Consent, login, Approve, Deny, AuthorizeCallback, SaveOAuthAuthRequest,
              DeleteOAuthAuthRequest
<1>3. ASSUME NEW r \in Requests, CreateOAuthGrant(r) \/ accessToken(r)
      PROVE  seq'.code = seq.code
  BY <1>0, <1>3 DEF CreateOAuthGrant, accessToken, Seq
<1>4. ASSUME CreateAuthRequest PROVE seq'.code = seq.code
  BY <1>0, <1>4 DEF CreateAuthRequest, Seq
<1>5. ASSUME NEW r \in Requests, Token(r) \/ Fail(r), ~CreateOAuthGrant(r), ~accessToken(r)
      PROVE  UNCHANGED seq
  BY <1>5 DEF Token, Fail, Exchange, OAuthAuthRequestByCode, CreateOAuthRefreshToken,
              TokenRequestByRefreshToken, OAuthGrant, UseOAuthRefreshToken, RevokeReplayed
<1>6. ASSUME \/ RevokeOAuthGrants \/ \E a \in Tokens : DeleteOAuthAccessToken(a)
             \/ DeleteOAuthClient \/ DeleteExpiredOAuth
             \/ \E p \in Procs : forgetCodes(p)
             \/ Tick \/ UNCHANGED vars
      PROVE  UNCHANGED seq
  BY <1>6 DEF RevokeOAuthGrants, DeleteOAuthAccessToken, DeleteOAuthClient,
              DeleteExpiredOAuth, forgetCodes, Tick, vars
<1>7. seq'.code \in {seq.code, seq.code + 1}
  BY <1>1, <1>2, <1>3, <1>4, <1>5, <1>6 DEF Next
<1>. QED
  BY <1>0, <1>7

\* A code that is old stays old.
LEMMA OldStays ==
    ASSUME Core, Core', [Next]_vars, NEW c \in Codes, c <= seq.code, Old(c)
    PROVE  Old(c)'
<1>1. /\ now \in Nat /\ now' \in Nat /\ now <= now' /\ authRequestTTL \in Nat
      /\ c \in Nat /\ c # 0 /\ seq.code \in Nat
  BY CountersGrow, CodeCount, GrantsAssumption DEF Core, Tables, Codes
<1>2. ASSUME NEW k \in Copies', k.code = c PROVE now' - k.created > authRequestTTL
  <2>1. PICK j \in Copies : k.created = j.created /\ k.code = j.code
    BY <1>1, <1>2, CopiesStep DEF CopiesFrom
  <2>2. now - j.created > authRequestTTL /\ j.created \in Nat
    BY <1>2, <2>1, CopyType DEF Old
  <2>. QED
    BY <1>1, <2>1, <2>2
<1>. QED
  BY <1>2 DEF Old

\* What a step leaves true of every copy.
LEMMA CopiesYoung ==
    ASSUME Core, Core', [Next]_vars, CodesTraced
    PROVE  /\ \A k \in Copies' : k.code <= seq'.code /\ k.created <= now'
           /\ \A p \in Procs, c \in Codes : codes[p][c] # None =>
                 /\ c <= seq'.code /\ codes[p][c] <= now'
                 /\ \A k \in Copies' : k.code = c => k.created <= codes[p][c]
<1>1. /\ now \in Nat /\ now' \in Nat /\ now <= now'
      /\ seq.code \in Nat /\ seq'.code \in Nat /\ seq.code <= seq'.code
  BY CountersGrow, CodeCount DEF Core, Tables
<1>2. ASSUME NEW k \in Copies' PROVE k.code <= seq'.code /\ k.created <= now'
  <2>1. CASE k.code = 0 /\ k.created = now
    BY <1>1, <2>1
  <2>2. ASSUME NEW j \in Copies, k.created = j.created,
               k.code = j.code \/ k.code = seq'.code
        PROVE  k.code <= seq'.code /\ k.created <= now'
    <3>1. j.code <= seq.code /\ j.created <= now /\ j.code \in Nat /\ j.created \in Nat
      BY CopyType DEF CodesTraced
    <3>. QED
      BY <1>1, <2>2, <3>1
  <2>. QED
    BY <2>1, <2>2, CopiesStep DEF CopiesFrom
<1>3. ASSUME NEW p \in Procs, NEW c \in Codes, codes[p][c] # None
      PROVE  /\ c <= seq'.code /\ codes[p][c] <= now'
             /\ \A k \in Copies' : k.code = c => k.created <= codes[p][c]
  <2>1. /\ c <= seq.code /\ codes[p][c] <= now /\ codes[p][c] \in Nat
        /\ c \in Nat /\ c # 0
        /\ \A k \in Copies : k.code = c => k.created <= codes[p][c]
    <3>1. codes[p][c] \in Nat
      BY <1>3 DEF Core, Tables
    <3>2. c \in Nat /\ c # 0
      BY GrantsAssumption DEF Codes
    <3>. QED
      BY <1>3, <3>1, <3>2 DEF CodesTraced
  <2>2. ASSUME NEW k \in Copies', k.code = c PROVE k.created <= codes[p][c]
    <3>1. PICK j \in Copies : k.created = j.created /\ k.code = j.code
      BY <1>1, <2>1, <2>2, CopiesStep DEF CopiesFrom
    <3>. QED
      BY <2>1, <2>2, <3>1
  <2>. QED
    BY <1>1, <2>1, <2>2
<1>. QED
  BY <1>2, <1>3

\* A step that takes, answers and forgets no code.
LEMMA CodesKept ==
    ASSUME Core, Core', [Next]_vars, CodesTraced, UNCHANGED <<codes, exchanged, twice>>,
           \A s \in Requests : req'[s].pc = "byCode" => req'[s] = req[s]
    PROVE  CodesTraced'
<1>1. CodeOncePerProcess'
  BY DEF CodesTraced, CodeOncePerProcess
<1>2. ASSUME NEW p \in Procs, NEW c \in Codes
      PROVE  /\ Taking(p, c)' \subseteq Taking(p, c)
             /\ c \in exchanged'[p] \/ Taking(p, c)' # {} =>
                   c <= seq'.code /\ (codes'[p][c] # None \/ Old(c)')
             /\ \A r, s \in Taking(p, c)' : r = s \/ Old(c)'
             /\ c \in exchanged'[p] /\ Taking(p, c)' # {} => Old(c)'
  <2>1. Taking(p, c)' \subseteq Taking(p, c)
    BY DEF Taking
  <2>2. c <= seq.code => c <= seq'.code
    BY CodeCount DEF Codes
  <2>3. c <= seq.code /\ Old(c) => Old(c)'
    BY OldStays
  <2>4. c \in exchanged[p] \/ Taking(p, c) # {} =>
           c <= seq.code /\ (codes[p][c] # None \/ Old(c))
    BY DEF CodesTraced
  <2>5. \A r, s \in Taking(p, c) : r = s \/ Old(c)
    BY DEF CodesTraced
  <2>6. c \in exchanged[p] /\ Taking(p, c) # {} => Old(c)
    BY DEF CodesTraced
  <2>. QED
    BY <2>1, <2>2, <2>3, <2>4, <2>5, <2>6
<1>. QED
  BY <1>1, <1>2, CopiesYoung DEF CodesTraced

\* A process takes a code that it does not know: nobody else has it, or it is old.
LEMMA CodesExchange ==
    ASSUME Core, Core', [Next]_vars, CodesTraced,
           NEW r \in Requests, NEW p \in Procs, NEW c \in Codes, Exchange(r, p, c)
    PROVE  CodesTraced'
<1>0. /\ UNCHANGED <<now, seq, exchanged, twice>>
      /\ codes[p][c] = None /\ c <= seq.code
      /\ now \in Nat /\ now # None
  BY NoneAssumption DEF Exchange, history, Issued, Core, Tables
<1>1. \A q \in Procs, d \in Codes :
         codes'[q][d] = IF q = p /\ d = c THEN now ELSE codes[q][d]
  BY DEF Exchange, Core, Tables
<1>2. /\ \A s \in Requests : s # r => req'[s] = req[s]
      /\ req'[r].pc = "byCode" /\ req'[r].proc = p /\ req'[r].code = c
      /\ req[r].pc = "idle"
  BY DEF Exchange, Begin, Continue, Core, Idle
<1>3. ASSUME NEW q \in Procs, NEW d \in Codes
      PROVE  /\ codes'[q][d] # None =>
                   /\ d <= seq'.code /\ codes'[q][d] <= now'
                   /\ \A k \in Copies' : k.code = d => k.created <= codes'[q][d]
             /\ d \in exchanged'[q] \/ Taking(q, d)' # {} =>
                   d <= seq'.code /\ (codes'[q][d] # None \/ Old(d)')
             /\ \A s, u \in Taking(q, d)' : s = u \/ Old(d)'
             /\ d \in exchanged'[q] /\ Taking(q, d)' # {} => Old(d)'
  <2>1. d <= seq.code /\ Old(d) => Old(d)'
    BY OldStays
  <2>2. /\ d \in exchanged[q] \/ Taking(q, d) # {} =>
               d <= seq.code /\ (codes[q][d] # None \/ Old(d))
        /\ \A s, u \in Taking(q, d) : s = u \/ Old(d)
        /\ d \in exchanged[q] /\ Taking(q, d) # {} => Old(d)
    BY DEF CodesTraced
  <2>3. CASE q = p /\ d = c
    <3>1. codes'[q][d] = now
      BY <1>1, <2>3
    <3>2. \A s \in Taking(q, d)' : s = r \/ s \in Taking(q, d)
      BY <1>2 DEF Taking
    <3>3. d \in exchanged[q] \/ Taking(q, d) # {} => Old(d)'
      BY <1>0, <2>1, <2>2, <2>3
    <3>4. \A s, u \in Taking(q, d)' : s = u \/ Old(d)'
      BY <3>2, <3>3
    <3>5. \A k \in Copies' : k.created <= now'
      BY CopiesYoung
    <3>. QED
      BY <1>0, <2>3, <3>1, <3>3, <3>4, <3>5
  <2>4. CASE ~(q = p /\ d = c)
    <3>1. codes'[q][d] = codes[q][d]
      BY <1>1, <2>4
    <3>2. Taking(q, d)' \subseteq Taking(q, d)
      BY <1>2, <2>4 DEF Taking
    <3>. QED
      BY <1>0, <2>1, <2>2, <3>1, <3>2, CopiesYoung
  <2>. QED
    BY <2>3, <2>4
<1>4. CodeOncePerProcess'
  BY <1>0 DEF CodesTraced, CodeOncePerProcess
<1>5. \A k \in Copies' : k.code <= seq'.code /\ k.created <= now'
  BY CopiesYoung
<1>. QED
  BY <1>3, <1>4, <1>5 DEF CodesTraced

\* A code that is answered is not old: this process has not answered it before, and no
\* other request holds it.
LEMMA CodesAnswer ==
    ASSUME Core, Core', [Next]_vars, CodesTraced,
           NEW r \in Requests, OAuthAuthRequestByCode(r)
    PROVE  CodesTraced'
<1>. DEFINE p == req[r].proc
            c == req[r].code
<1>0. /\ p \in Procs /\ c \in Codes /\ req[r].pc = "byCode" /\ r \in Taking(p, c)
  BY DEF OAuthAuthRequestByCode, Core, Holds, Request, Taking
<1>1. /\ \A s \in Requests : s # r => req'[s] = req[s]
      /\ req'[r].pc # "byCode"
  <2>1. ASSUME NEW x, Continue(r, x), x.pc # "byCode"
        PROVE  (\A s \in Requests : s # r => req'[s] = req[s]) /\ req'[r].pc # "byCode"
    BY <2>1 DEF Continue, Core
  <2>2. ASSUME NEW id \in AuthIds
        PROVE  [Idle EXCEPT !.pc = "grant", !.id = id, !.rec = areq[id]].pc # "byCode"
    BY DEF Idle
  <2>. QED
    BY <2>1, <2>2, IdleType DEF OAuthAuthRequestByCode, Finish
<1>2. UNCHANGED <<codes, seq, now>>
  BY DEF OAuthAuthRequestByCode
<1>3. CASE UNCHANGED <<exchanged, twice>>
  BY <1>1, <1>2, <1>3, CodesKept
<1>4. ASSUME NEW id \in AuthIds, Open(id), areq[id].code = c,
             exchanged' = [exchanged EXCEPT ![p] = @ \cup {c}],
             twice' = twice \cup (exchanged[p] \cap {c})
      PROVE  CodesTraced'
  <2>1. ~Old(c)
    <3>1. areq[id] \in Copies /\ now - areq[id].created <= authRequestTTL
      BY <1>4 DEF Open, Copies
    <3>2. areq[id].created \in Nat /\ now \in Nat
      BY <3>1, CopyType DEF Core, Tables
    <3>. QED
      BY <1>4, <3>1, <3>2, GrantsAssumption DEF Old
  <2>2. c \notin exchanged[p] /\ Taking(p, c) = {r}
    BY <1>0, <2>1 DEF CodesTraced
  <2>3. CodeOncePerProcess'
    BY <1>4, <2>2 DEF CodesTraced, CodeOncePerProcess
  <2>4. ASSUME NEW q \in Procs, NEW d \in Codes
        PROVE  /\ d \in exchanged'[q] \/ Taking(q, d)' # {} =>
                     d <= seq'.code /\ (codes'[q][d] # None \/ Old(d)')
               /\ \A s, u \in Taking(q, d)' : s = u \/ Old(d)'
               /\ d \in exchanged'[q] /\ Taking(q, d)' # {} => Old(d)'
    <3>1. d <= seq.code /\ Old(d) => Old(d)'
      BY OldStays
    <3>2. /\ d \in exchanged[q] \/ Taking(q, d) # {} =>
                 d <= seq.code /\ (codes[q][d] # None \/ Old(d))
          /\ \A s, u \in Taking(q, d) : s = u \/ Old(d)
          /\ d \in exchanged[q] /\ Taking(q, d) # {} => Old(d)
      BY DEF CodesTraced
    <3>3. \A s \in Taking(q, d)' : s \in Taking(q, d) /\ s # r
      BY <1>1 DEF Taking
    <3>4. exchanged'[q] = IF q = p THEN exchanged[q] \cup {c} ELSE exchanged[q]
      BY <1>0, <1>4 DEF Core, Tables
    <3>5. CASE q = p /\ d = c
      <4>1. Taking(q, d)' = {}
        BY <2>2, <3>3, <3>5
      <4>2. Taking(q, d) # {}
        BY <1>0, <3>5
      <4>. QED
        BY <1>2, <3>1, <3>2, <4>1, <4>2
    <3>6. CASE ~(q = p /\ d = c)
      <4>1. d \in exchanged'[q] => d \in exchanged[q]
        BY <3>4, <3>6
      <4>. QED
        BY <1>2, <3>1, <3>2, <3>3, <4>1
    <3>. QED
      BY <3>5, <3>6
  <2>. QED
    BY <1>2, <2>3, <2>4, CopiesYoung DEF CodesTraced
<1>. QED
  BY <1>3, <1>4 DEF OAuthAuthRequestByCode

\* A code that is forgotten is old.
LEMMA CodesForget ==
    ASSUME Core, Core', [Next]_vars, CodesTraced, NEW p \in Procs, forgetCodes(p)
    PROVE  CodesTraced'
<1>0. UNCHANGED <<now, seq, req, exchanged, twice>> /\ now \in Nat /\ authRequestTTL \in Nat
  BY GrantsAssumption DEF forgetCodes, history, Core, Tables
<1>1. \A q \in Procs, d \in Codes :
         \/ codes'[q][d] = codes[q][d]
         \/ /\ codes'[q][d] = None /\ codes[q][d] # None
            /\ now - codes[q][d] > authRequestTTL
  BY DEF forgetCodes, Core, Tables
<1>2. ASSUME NEW q \in Procs, NEW d \in Codes
      PROVE  /\ codes'[q][d] # None =>
                   /\ d <= seq'.code /\ codes'[q][d] <= now'
                   /\ \A k \in Copies' : k.code = d => k.created <= codes'[q][d]
             /\ d \in exchanged'[q] \/ Taking(q, d)' # {} =>
                   d <= seq'.code /\ (codes'[q][d] # None \/ Old(d)')
             /\ \A s, u \in Taking(q, d)' : s = u \/ Old(d)'
             /\ d \in exchanged'[q] /\ Taking(q, d)' # {} => Old(d)'
  <2>1. d <= seq.code /\ Old(d) => Old(d)'
    BY OldStays
  <2>2. /\ d \in exchanged[q] \/ Taking(q, d) # {} =>
               d <= seq.code /\ (codes[q][d] # None \/ Old(d))
        /\ \A s, u \in Taking(q, d) : s = u \/ Old(d)
        /\ d \in exchanged[q] /\ Taking(q, d) # {} => Old(d)
    BY DEF CodesTraced
  <2>3. Taking(q, d)' = Taking(q, d)
    BY <1>0 DEF Taking
  <2>4. CASE codes'[q][d] = codes[q][d]
    BY <1>0, <2>1, <2>2, <2>3, <2>4, CopiesYoung
  <2>5. CASE /\ codes'[q][d] = None /\ codes[q][d] # None
             /\ now - codes[q][d] > authRequestTTL
    <3>1. codes[q][d] \in Nat
      BY <2>5 DEF Core, Tables
    <3>2. \A k \in Copies : k.code = d => k.created <= codes[q][d] /\ k.created \in Nat
      BY <2>5, CopyType DEF CodesTraced
    <3>3. Old(d)
      BY <1>0, <2>5, <3>1, <3>2 DEF Old
    <3>. QED
      BY <1>0, <2>1, <2>2, <2>3, <2>5, <3>3
  <2>. QED
    BY <1>1, <2>4, <2>5
<1>3. CodeOncePerProcess'
  BY <1>0 DEF CodesTraced, CodeOncePerProcess
<1>. QED
  BY <1>2, <1>3, CopiesYoung DEF CodesTraced

\* The other steps leave the codes alone.
LEMMA CodesOthers ==
    ASSUME Core, Core', [Next]_vars, CodesTraced,
           \/ \E r \in Requests :
                 \/ Consent(r) \/ Fail(r) \/ RevokeReplayed(r)
                 \/ CreateOAuthGrant(r) \/ accessToken(r) \/ CreateOAuthRefreshToken(r)
                 \/ \E t \in Tokens : TokenRequestByRefreshToken(r, t)
                 \/ OAuthGrant(r) \/ UseOAuthRefreshToken(r)
           \/ CreateAuthRequest \/ RevokeOAuthGrants
           \/ \E a \in Tokens : DeleteOAuthAccessToken(a)
           \/ DeleteOAuthClient \/ DeleteExpiredOAuth
           \/ Tick \/ UNCHANGED vars
    PROVE  CodesTraced'
<1>1. ASSUME NEW r \in Requests, NEW x, Continue(r, x), x.pc # "byCode",
             UNCHANGED <<codes, exchanged, twice>>
      PROVE  CodesTraced'
  <2>1. \A s \in Requests : req'[s].pc = "byCode" => req'[s] = req[s]
    BY <1>1 DEF Continue, Core
  <2>. QED
    BY <1>1, <2>1, CodesKept
<1>2. Idle.pc # "byCode"
  BY IdleType
<1>3. ASSUME NEW r \in Requests, Consent(r) PROVE CodesTraced'
  <2>1. UNCHANGED <<codes, exchanged, twice>>
    BY <1>3 DEF Consent, login, Approve, Deny, AuthorizeCallback, SaveAuthCode,
                SaveOAuthAuthRequest, DeleteOAuthAuthRequest, history
  <2>2. ASSUME NEW id, NEW rec PROVE Saving(id, rec).pc # "byCode"
    BY DEF Saving, Idle
  <2>3. ASSUME NEW id, NEW rec, NEW c PROVE [Saving(id, rec) EXCEPT !.code = c].pc # "byCode"
    BY DEF Saving, Idle
  <2>4. ASSUME NEW id, NEW pc \in {"delete", "saveCode"}
        PROVE  [Idle EXCEPT !.pc = pc, !.id = id].pc # "byCode"
    BY DEF Idle
  <2>5. CASE SaveAuthCode(r)
    BY <1>1, <1>2, <2>1, <2>3, <2>5 DEF SaveAuthCode, Finish
  <2>6. CASE SaveOAuthAuthRequest(r) \/ DeleteOAuthAuthRequest(r)
    BY <1>1, <1>2, <2>1, <2>6 DEF SaveOAuthAuthRequest, DeleteOAuthAuthRequest, Finish
  <2>7. ASSUME NEW id \in AuthIds, Deny(r, id) \/ AuthorizeCallback(r, id) PROVE CodesTraced'
    BY <1>1, <2>1, <2>4, <2>7 DEF Deny, AuthorizeCallback, Begin
  <2>8. ASSUME NEW id \in AuthIds, NEW u \in Users, login(r, id, u) PROVE CodesTraced'
    BY <1>1, <2>1, <2>2, <2>8 DEF login, Begin
  <2>9. ASSUME NEW id \in AuthIds, NEW scopes \in SUBSET Scopes, NEW end \in Ends,
               Approve(r, id, scopes, end)
        PROVE  CodesTraced'
    BY <1>1, <2>1, <2>2, <2>9 DEF Approve, Begin
  <2>. QED
    BY <1>3, <2>5, <2>6, <2>7, <2>8, <2>9 DEF Consent
<1>4. ASSUME NEW r \in Requests, Fail(r) \/ RevokeReplayed(r) PROVE CodesTraced'
  BY <1>1, <1>2, <1>4 DEF Fail, RevokeReplayed, Finish, history
<1>5. ASSUME NEW r \in Requests,
             CreateOAuthGrant(r) \/ accessToken(r) \/ CreateOAuthRefreshToken(r)
      PROVE  CodesTraced'
  <2>1. \A s \in Requests : req'[s].pc = "byCode" => req'[s] = req[s]
    BY <1>5, GrantEffect, AccessEffect, RefreshEffect
  <2>2. UNCHANGED <<codes, exchanged, twice>>
    BY <1>5 DEF CreateOAuthGrant, accessToken, CreateOAuthRefreshToken, history
  <2>. QED
    BY <2>1, <2>2, CodesKept
<1>6. ASSUME NEW r \in Requests, NEW t \in Tokens, TokenRequestByRefreshToken(r, t)
      PROVE  CodesTraced'
  <2>1. /\ [Idle EXCEPT !.pc = "revoke", !.grant = refresh[t].grant].pc # "byCode"
        /\ [Idle EXCEPT !.pc = "grantOf", !.tok = t, !.grant = refresh[t].grant,
                        !.scopes = refresh[t].scopes].pc # "byCode"
    BY DEF Idle
  <2>2. UNCHANGED <<codes, exchanged, twice>>
    BY <1>6 DEF TokenRequestByRefreshToken
  <2>3. CASE UNCHANGED req
    BY <2>2, <2>3, CodesKept
  <2>. QED
    BY <1>1, <1>6, <2>1, <2>2, <2>3 DEF TokenRequestByRefreshToken, Begin
<1>7. ASSUME NEW r \in Requests, OAuthGrant(r) PROVE CodesTraced'
  <2>1. ASSUME NEW scopes, NEW end
        PROVE  [req[r] EXCEPT !.pc = "use", !.scopes = scopes, !.end = end].pc # "byCode"
    BY DEF Core, Request
  <2>. QED
    BY <1>1, <1>2, <1>7, <2>1 DEF OAuthGrant, Finish, history
<1>8. ASSUME NEW r \in Requests, UseOAuthRefreshToken(r) PROVE CodesTraced'
  <2>1. /\ [Idle EXCEPT !.pc = "revoke", !.grant = req[r].grant].pc # "byCode"
        /\ [req[r] EXCEPT !.pc = "access", !.tok = 0].pc # "byCode"
    BY DEF Idle, Core, Request
  <2>2. UNCHANGED <<codes, exchanged, twice>>
    BY <1>8 DEF UseOAuthRefreshToken
  <2>. QED
    BY <1>1, <1>2, <1>8, <2>1, <2>2 DEF UseOAuthRefreshToken, Finish
<1>9. CASE \/ CreateAuthRequest \/ RevokeOAuthGrants
           \/ \E a \in Tokens : DeleteOAuthAccessToken(a)
           \/ DeleteOAuthClient \/ DeleteExpiredOAuth
           \/ Tick \/ UNCHANGED vars
  <2>1. UNCHANGED <<req, codes, exchanged, twice>>
    BY <1>9 DEF CreateAuthRequest, RevokeOAuthGrants, DeleteOAuthAccessToken,
                DeleteOAuthClient, DeleteExpiredOAuth, Tick, vars, history
  <2>. QED
    BY <2>1, CodesKept
<1>. QED
  BY <1>3, <1>4, <1>5, <1>6, <1>7, <1>8, <1>9

\* As long as a process runs it answers a code at most once: what forgetCodes drops
\* belongs to a request that is too old to be exchanged, for every authRequestTTL and
\* whatever stale copies of the request are saved meanwhile.
THEOREM CodeAnsweredOnce == Spec => []CodeOncePerProcess
<1>1. Init => CodesTraced
  BY IdleType DEF Init, CodesTraced, CodeOncePerProcess, Copies, Taking
<1>2. Core /\ Core' /\ CodesTraced /\ [Next]_vars => CodesTraced'
  BY CodesExchange, CodesAnswer, CodesForget, CodesOthers DEF Next, Token
<1>3. CodesTraced => CodeOncePerProcess
  BY DEF CodesTraced
<1>. QED
  BY <1>1, <1>2, <1>3, CoreInvariant, PTL DEF Spec

-----------------------------------------------------------------------------
(* Tokens end for good *)

\* The refresh token of this number was given out.
Given(t) == GivenOut("refresh", t)

\* What the abstract specification sees of the tokens of one number.
LEMMA StatusOf ==
    ASSUME NEW t \in Tokens
    PROVE  /\ TokenStatus[<<"access", t>>] = IF ~(t <= seq.token) THEN "unissued"
                                            ELSE IF Verify(t) THEN "accepted" ELSE "refused"
           /\ TokenStatus[<<"refresh", t>>] = IF ~Given(t) THEN "unissued"
                                             ELSE IF Usable(t) THEN "accepted" ELSE "refused"
<1>1. /\ <<"access", t>> \in {"access", "refresh"} \X Tokens
      /\ <<"refresh", t>> \in {"access", "refresh"} \X Tokens
  OBVIOUS
<1>. QED
  BY <1>1 DEF TokenStatus, Given, GivenOut, Works

\* The same after a step.
LEMMA StatusAfter ==
    ASSUME NEW t \in Tokens
    PROVE  /\ TokenStatus'[<<"access", t>>] = IF ~(t <= seq'.token) THEN "unissued"
                                             ELSE IF Verify(t)' THEN "accepted" ELSE "refused"
           /\ TokenStatus'[<<"refresh", t>>] = IF ~Given(t)' THEN "unissued"
                                              ELSE IF Usable(t)' THEN "accepted" ELSE "refused"
<1>1. /\ <<"access", t>> \in {"access", "refresh"} \X Tokens
      /\ <<"refresh", t>> \in {"access", "refresh"} \X Tokens
  OBVIOUS
<1>. QED
  BY <1>1 DEF TokenStatus, Given, GivenOut, Works

\* A step in which tokens only end is one of the abstract specification.
LEMMA EndStep ==
    ASSUME \A t \in Tokens : \A c \in {"access", "refresh"} :
              \/ TokenStatus'[<<c, t>>] = TokenStatus[<<c, t>>]
              \/ TokenStatus[<<c, t>>] = "accepted" /\ TokenStatus'[<<c, t>>] = "refused"
    PROVE  Abs!Next
<1>. DEFINE Keys == {"access", "refresh"} \X Tokens
            S == {k \in Keys : TokenStatus[k] = "accepted" /\ TokenStatus'[k] = "refused"}
<1>1. ASSUME NEW k \in Keys
      PROVE  TokenStatus'[k] = IF k \in S THEN "refused" ELSE TokenStatus[k]
  <2>1. PICK c \in {"access", "refresh"}, t \in Tokens : k = <<c, t>>
    OBVIOUS
  <2>. QED
    BY <2>1
<1>2. TokenStatus' = [k \in Keys |-> IF k \in S THEN "refused" ELSE TokenStatus[k]]
  BY <1>1 DEF TokenStatus
<1>3. S \in SUBSET Keys /\ \A k \in S : TokenStatus[k] = "accepted"
  OBVIOUS
<1>. HIDE DEF S
<1>. QED
  BY <1>2, <1>3 DEF Abs!Next, Abs!Refuse

\* So is one in which one token is given out and the others stay as they are.
LEMMA IssueStep ==
    ASSUME NEW c \in {"access", "refresh"}, NEW t \in Tokens,
           TokenStatus[<<c, t>>] = "unissued",
           TokenStatus'[<<c, t>>] \in {"accepted", "refused"},
           \A u \in Tokens : \A d \in {"access", "refresh"} :
              d # c \/ u # t => TokenStatus'[<<d, u>>] = TokenStatus[<<d, u>>]
    PROVE  Abs!Next
<1>. DEFINE Keys == {"access", "refresh"} \X Tokens
            k == <<c, t>>
<1>1. k \in Keys
  OBVIOUS
<1>2. ASSUME NEW j \in Keys, j # k PROVE TokenStatus'[j] = TokenStatus[j]
  <2>1. PICK d \in {"access", "refresh"}, u \in Tokens : j = <<d, u>>
    OBVIOUS
  <2>. QED
    BY <1>2, <2>1
<1>3. PICK st \in {"accepted", "refused"} : TokenStatus'[k] = st
  OBVIOUS
<1>4. TokenStatus[k] = "unissued"
  OBVIOUS
<1>. HIDE DEF k
<1>5. /\ TokenStatus = [j \in Keys |-> TokenStatus[j]]
      /\ TokenStatus' = [j \in Keys |-> TokenStatus'[j]]
  BY DEF TokenStatus
<1>6. TokenStatus' = [TokenStatus EXCEPT ![k] = st]
  BY <1>1, <1>2, <1>3, <1>5
<1>. QED
  BY <1>1, <1>4, <1>6 DEF Abs!Next, Abs!Issue

\* A request about to store a refresh token, unless it does so or gives up, stays where it
\* is; no other step takes a request there but the issue of the access token.
LEMMA SlotsKept ==
    ASSUME Core, [Next]_vars,
           \A r \in Requests : /\ ~accessToken(r) /\ ~CreateOAuthRefreshToken(r)
                               /\ ~(Fail(r) /\ req[r].pc = "refresh"),
           NEW r \in Requests, req[r].pc = "refresh" \/ req'[r].pc = "refresh"
    PROVE  req'[r] = req[r]
<1>1. CASE req[r].pc = "refresh"
  BY <1>1, LastStep DEF RevokeReplayed
<1>2. CASE req'[r].pc = "refresh"
  <2>1. CASE Quiet
    BY <1>2, <2>1 DEF Quiet, Busy
  <2>2. ASSUME NEW s \in Requests,
               \/ CreateOAuthGrant(s)
               \/ \E t \in Tokens : TokenRequestByRefreshToken(s, t)
               \/ OAuthGrant(s) \/ UseOAuthRefreshToken(s)
        PROVE  req'[r] = req[r]
    BY <1>2, <2>2, GrantEffect, LookUpEffect, ReadEffect, UseEffect DEF Busy
  <2>. QED
    BY <2>1, <2>2, StepKinds
<1>. QED
  BY <1>1, <1>2

\* A step that gives out no token leaves every token as it was, removes it or has it used.
LEMMA TokensKept ==
    ASSUME Core, [Next]_vars,
           \A r \in Requests : ~accessToken(r) /\ ~CreateOAuthRefreshToken(r)
    PROVE  /\ seq'.token = seq.token
           /\ \A t \in Tokens :
                 /\ access'[t] \in {access[t], None}
                 /\ refresh'[t] \in {refresh[t], None} \/ refresh'[t].used = TRUE
<1>1. CASE Quiet
  BY <1>1 DEF Quiet
<1>2. ASSUME NEW r \in Requests, CreateOAuthGrant(r)
      PROVE  seq'.token = seq.token /\ UNCHANGED <<access, refresh>>
  BY <1>2, GrantEffect
<1>3. ASSUME NEW r \in Requests,
             (\E t \in Tokens : TokenRequestByRefreshToken(r, t)) \/ OAuthGrant(r)
      PROVE  seq'.token = seq.token /\ UNCHANGED <<access, refresh>>
  BY <1>3, LookUpEffect, ReadEffect
<1>4. ASSUME NEW r \in Requests, UseOAuthRefreshToken(r)
      PROVE  /\ seq'.token = seq.token /\ UNCHANGED access
             /\ \A t \in Tokens : refresh'[t] = refresh[t] \/ refresh'[t].used = TRUE
  <2>1. /\ seq'.token = seq.token /\ UNCHANGED access /\ req[r].tok \in Tokens
        /\ \A t \in Tokens :
              \/ refresh'[t] = refresh[t]
              \/ refresh[t] # None /\ refresh'[t] = [refresh[t] EXCEPT !.used = TRUE]
    BY <1>4, UseEffect
  <2>2. ASSUME NEW x \in OAuthRefreshToken PROVE [x EXCEPT !.used = TRUE].used = TRUE
    BY DEF OAuthRefreshToken
  <2>3. \A t \in Tokens : refresh[t] # None => refresh[t] \in OAuthRefreshToken
    BY DEF Core, Tables
  <2>. QED
    BY <2>1, <2>2, <2>3
<1>. QED
  BY <1>1, <1>2, <1>3, <1>4, StepKinds

\* A grant keeps its end date for as long as it is stored.
LEMMA EndKept ==
    ASSUME Core, [Next]_vars, NEW g \in 1 .. seq.grant, grants'[g] # None
    PROVE  grants[g] # None /\ grants'[g].end = grants[g].end
<1>0. g \in Grants /\ g # seq.grant + 1
  BY MadeGrants
<1>1. CASE Quiet
  BY <1>0, <1>1 DEF Quiet
<1>2. ASSUME NEW r \in Requests, CreateOAuthGrant(r) PROVE grants'[g] = grants[g]
  BY <1>0, <1>2, GrantEffect
<1>3. ASSUME NEW r \in Requests,
             \/ accessToken(r) \/ CreateOAuthRefreshToken(r)
             \/ \E t \in Tokens : TokenRequestByRefreshToken(r, t)
             \/ OAuthGrant(r) \/ UseOAuthRefreshToken(r)
      PROVE  grants'[g] = grants[g]
  BY <1>3, AccessEffect, RefreshEffect, LookUpEffect, ReadEffect, UseEffect
<1>. QED
  BY <1>1, <1>2, <1>3, StepKinds

\* A grant that is in force after a step was in force before it.
LEMMA InForceBefore ==
    ASSUME Core, Core', [Next]_vars, NEW g \in 1 .. seq.grant,
           grants'[g] # None, ~grants'[g].revoked, ~(grants'[g].end # 0 /\ now' > grants'[g].end)
    PROVE  grants[g] # None /\ ~grants[g].revoked /\ ~Ended(grants[g].end)
<1>1. grants[g] # None /\ grants'[g].end = grants[g].end
  BY EndKept
<1>2. ~grants[g].revoked
  BY OverStays DEF Over
<1>3. grants[g].end \in Nat /\ now \in Nat /\ now' \in Nat /\ now <= now'
  BY <1>1, MadeGrants, CountersGrow DEF Core, Tables, Grant
<1>. QED
  BY <1>1, <1>2, <1>3 DEF Ended

\* So a token that works after a step and was left as it was worked before it.
LEMMA WorkedBefore ==
    ASSUME Core, Core', [Next]_vars, NEW t \in Tokens
    PROVE  /\ access'[t] = access[t] /\ Verify(t)' => Verify(t)
           /\ refresh'[t] = refresh[t] /\ Usable(t)' => Usable(t)
<1>0. now \in Nat /\ now' \in Nat /\ now <= now'
  BY CountersGrow DEF Core, Tables
<1>1. ASSUME access'[t] = access[t], Verify(t)' PROVE Verify(t)
  <2>1. /\ access[t] # None /\ now' < access[t].exp /\ grants'[access[t].grant] # None
        /\ ~grants'[access[t].grant].revoked
        /\ ~(grants'[access[t].grant].end # 0 /\ now' > grants'[access[t].grant].end)
    BY <1>1 DEF Verify, Ended
  <2>2. access[t].grant \in 1 .. seq.grant /\ access[t].exp \in Nat
    BY <2>1 DEF Core, Tables, Numbered, OAuthAccessToken
  <2>3. LET g == access[t].grant
        IN  grants[g] # None /\ ~grants[g].revoked /\ ~Ended(grants[g].end)
    BY <2>1, <2>2, InForceBefore
  <2>. QED
    BY <1>0, <2>1, <2>2, <2>3 DEF Verify
<1>2. ASSUME refresh'[t] = refresh[t], Usable(t)' PROVE Usable(t)
  <2>1. /\ refresh[t] # None /\ ~refresh[t].used /\ now' <= refresh[t].exp
        /\ grants'[refresh[t].grant] # None /\ ~grants'[refresh[t].grant].revoked
        /\ ~(grants'[refresh[t].grant].end # 0 /\ now' > grants'[refresh[t].grant].end)
    BY <1>2 DEF Usable, Ended
  <2>2. refresh[t].grant \in 1 .. seq.grant /\ refresh[t].exp \in Nat
    BY <2>1 DEF Core, Tables, Numbered, OAuthRefreshToken
  <2>3. LET g == refresh[t].grant
        IN  grants[g] # None /\ ~grants[g].revoked /\ ~Ended(grants[g].end)
    BY <2>1, <2>2, InForceBefore
  <2>. QED
    BY <1>0, <2>1, <2>2, <2>3 DEF Usable
<1>. QED
  BY <1>1, <1>2

\* Any other step only ends tokens.
LEMMA OtherRefines ==
    ASSUME Core, Core', [Next]_vars,
           \A r \in Requests : /\ ~accessToken(r) /\ ~CreateOAuthRefreshToken(r)
                               /\ ~(Fail(r) /\ req[r].pc = "refresh")
    PROVE  Abs!Next
<1>1. ASSUME NEW t \in Tokens PROVE Given(t)' <=> Given(t)
  BY SlotsKept, TokensKept DEF Given, GivenOut
<1>2. ASSUME NEW t \in Tokens, Verify(t)' PROVE Verify(t)
  BY <1>2, WorkedBefore, TokensKept DEF Verify
<1>3. ASSUME NEW t \in Tokens, Usable(t)' PROVE Usable(t)
  BY <1>3, WorkedBefore, TokensKept DEF Usable
<1>4. seq'.token = seq.token
  BY TokensKept
<1>5. ASSUME NEW t \in Tokens
      PROVE  \A c \in {"access", "refresh"} :
                \/ TokenStatus'[<<c, t>>] = TokenStatus[<<c, t>>]
                \/ TokenStatus[<<c, t>>] = "accepted" /\ TokenStatus'[<<c, t>>] = "refused"
  BY <1>1, <1>2, <1>3, <1>4, StatusOf, StatusAfter
<1>. QED
  BY <1>5, EndStep

\* The issue of an access token gives out that token and no other.
LEMMA AccessRefines ==
    ASSUME Core, NEW r \in Requests, accessToken(r)
    PROVE  Abs!Next
<1>0. PICK n \in Tokens : n = seq.token + 1
  BY AccessEffect
<1>1. /\ seq.token \in Nat /\ seq'.token = n
      /\ UNCHANGED <<grants, refresh>>
      /\ \A t \in Tokens : t # n => access'[t] = access[t]
      /\ \A s \in Requests : s # r => req'[s] = req[s]
      /\ req[r].pc = "access" /\ req'[r].tok = n
      /\ req'[r].pc = IF Refreshes THEN "refresh" ELSE "delete"
  BY <1>0, AccessEffect
<1>2. now' = now
  BY DEF accessToken
<1>3. \A t \in Tokens : t \in Nat /\ (t <= n /\ t # n => t <= seq.token)
                        /\ (t <= seq.token => t <= n /\ t # n)
  BY <1>0, <1>1 DEF Tokens
<1>4. ASSUME NEW t \in Tokens PROVE Given(t)' <=> Given(t)
  BY <1>1, <1>3 DEF Given, GivenOut
<1>5. ASSUME NEW t \in Tokens PROVE Usable(t)' <=> Usable(t)
  BY <1>1, <1>2 DEF Usable, Ended
<1>6. ASSUME NEW t \in Tokens, t # n
      PROVE  (Verify(t)' <=> Verify(t)) /\ (t <= seq'.token <=> t <= seq.token)
  BY <1>1, <1>2, <1>3, <1>6 DEF Verify, Ended
<1>7. ~(n <= seq.token) /\ n <= seq'.token
  BY <1>1, <1>3
<1>8. /\ TokenStatus[<<"access", n>>] = "unissued"
      /\ TokenStatus'[<<"access", n>>] \in {"accepted", "refused"}
  BY <1>7, StatusOf, StatusAfter
<1>9. ASSUME NEW u \in Tokens, NEW d \in {"access", "refresh"}, d # "access" \/ u # n
      PROVE  TokenStatus'[<<d, u>>] = TokenStatus[<<d, u>>]
  BY <1>4, <1>5, <1>6, <1>9, StatusOf, StatusAfter
<1>. QED
  BY <1>7, <1>8, <1>9, IssueStep

\* A request that stores a refresh token, or gives up, gives out that token and no other.
LEMMA RefreshRefines ==
    ASSUME Core, Reserved, NEW r \in Requests,
           CreateOAuthRefreshToken(r) \/ (Fail(r) /\ req[r].pc = "refresh")
    PROVE  Abs!Next
<1>0. req[r].pc = "refresh"
  BY DEF CreateOAuthRefreshToken
<1>. PICK n \in Tokens : n = req[r].tok
  BY <1>0, NamedTokens
<1>1. /\ n = req[r].tok /\ n <= seq.token /\ Refreshes
      /\ \A s \in Requests : s # r /\ req[s].pc = "refresh" => req[s].tok # n
  BY <1>0, NamedTokens DEF Reserved
<1>2. /\ UNCHANGED <<now, grants, access, seq>>
      /\ \A t \in Tokens : t # n => refresh'[t] = refresh[t]
      /\ \A s \in Requests : s # r => req'[s] = req[s]
      /\ req'[r].pc # "refresh"
  <2>1. CASE CreateOAuthRefreshToken(r)
    BY <1>1, <2>1, RefreshEffect DEF CreateOAuthRefreshToken
  <2>2. CASE Fail(r)
    BY <2>2, IdleType DEF Fail, Finish, Continue, store, Core
  <2>. QED
    BY <2>1, <2>2
<1>3. ~Given(n) /\ Given(n)'
  BY <1>0, <1>1, <1>2 DEF Given, GivenOut
<1>4. ASSUME NEW t \in Tokens, t # n PROVE (Given(t)' <=> Given(t)) /\ (Usable(t)' <=> Usable(t))
  BY <1>1, <1>2, <1>4 DEF Given, GivenOut, Usable, Ended
<1>5. ASSUME NEW t \in Tokens PROVE Verify(t)' <=> Verify(t)
  BY <1>2 DEF Verify, Ended
<1>6. /\ TokenStatus[<<"refresh", n>>] = "unissued"
      /\ TokenStatus'[<<"refresh", n>>] \in {"accepted", "refused"}
  BY <1>3, StatusOf, StatusAfter
<1>7. ASSUME NEW u \in Tokens, NEW d \in {"access", "refresh"}, d # "refresh" \/ u # n
      PROVE  TokenStatus'[<<d, u>>] = TokenStatus[<<d, u>>]
  <2>1. CASE d = "access"
    BY <1>2, <1>5, <2>1, StatusOf, StatusAfter
  <2>2. CASE d = "refresh"
    BY <1>4, <1>7, <2>2, StatusOf, StatusAfter
  <2>. QED
    BY <2>1, <2>2
<1>. QED
  BY <1>6, <1>7, IssueStep

\* An access or refresh token that was refused once is never accepted again, whatever ended
\* it, although exchanges and refreshes that began before go on writing (accessToken,
\* UseOAuthRefreshToken, RevokeOAuthGrants, DeleteExpiredOAuth): tokens implement SessionAbs.
THEOREM TokensStayEnded == Spec => TokensEndForGood
<1>1. Init => Reserved /\ Abs!Init
  <2>. SUFFICES ASSUME Init PROVE Reserved /\ Abs!Init
    OBVIOUS
  <2>1. Reserved
    BY IdleType DEF Init, Reserved
  <2>2. ASSUME NEW t \in Tokens PROVE ~(t <= seq.token) /\ ~Given(t)
    BY DEF Init, Tokens, Given, GivenOut
  <2>3. ASSUME NEW t \in Tokens, NEW c \in {"access", "refresh"}
        PROVE  TokenStatus[<<c, t>>] = "unissued"
    BY <2>2, StatusOf
  <2>4. ASSUME NEW k \in {"access", "refresh"} \X Tokens PROVE TokenStatus[k] = "unissued"
    <3>1. PICK c \in {"access", "refresh"}, t \in Tokens : k = <<c, t>>
      OBVIOUS
    <3>. QED
      BY <2>3, <3>1
  <2>5. TokenStatus = [k \in {"access", "refresh"} \X Tokens |-> TokenStatus[k]]
    BY DEF TokenStatus
  <2>. QED
    BY <2>1, <2>4, <2>5 DEF Abs!Init
<1>2. Core /\ Core' /\ Reserved /\ [Next]_vars => Reserved' /\ Abs!Next
  BY ReservedStep, OtherRefines, AccessRefines, RefreshRefines
<1>. QED
  BY <1>1, <1>2, CoreInvariant, PTL DEF Spec, TokensEndForGood, Abs!Spec
=============================================================================
