--------------------------- MODULE AccountsProofs ---------------------------
(***************************************************************************)
(* Proofs about Accounts, for every number of addresses, rows, links,       *)
(* passkeys, identities and concurrent requests, and every set of handlers. *)
(***************************************************************************)
EXTENDS Accounts, FiniteSetTheorems, TLAPS

-----------------------------------------------------------------------------
(* Type correctness *)

\* What a handler's local variables hold at each of its store calls: the address
\* is there unless an account sets its password, the id is that of a row, and a
\* row to be saved has been read.
WellFormed(x) ==
    /\ x.email = None => x.pc = "idle" \/ (x.pc = "setPassword" /\ x.op = "account")
    /\ x.pc = "create" => x.op \in {"signup", "admin", "social"}
    /\ x.pc = "byEmail" => x.op = "social"
    /\ x.pc \in {"setPassword", "token", "consume"} => x.id \in Ids
    /\ x.pc = "consume" => x.tok \in Tokens
    /\ x.pc = "save" => x.row # None /\ x.id \in Ids

TypeInv == TypeOK /\ \A r \in Requests : WellFormed(req[r])

\* The record of an idle request slot.
LEMMA IdleType == Idle \in Request /\ WellFormed(Idle)
BY AccountsAssumption DEF Idle, Request, PCs, Ops, Sub, local, Purposes, WellFormed

\* A request that goes on with the identity of a row.
LEMMA AsType ==
    ASSUME TypeOK, NEW i \in Live, NEW x \in Request
    PROVE  /\ As(i, x) \in Request
           /\ As(i, x).id = i /\ i \in Ids
           /\ As(i, x).sub = users[i].sub
           /\ As(i, x).email = users[i].email /\ users[i].email \in Emails
           /\ As(i, x).ver
           /\ As(i, x).pc = x.pc /\ As(i, x).op = x.op /\ As(i, x).tok = x.tok
           /\ As(i, x).soc = x.soc /\ As(i, x).halt = x.halt /\ As(i, x).row = x.row
           /\ As(i, x).pw = x.pw /\ As(i, x).purpose = x.purpose
<1>1. users[i] \in Row /\ i \in Ids /\ i \in 0 .. MaxId
  BY AccountsAssumption DEF Live, TypeOK, Ids
<1>. QED
  BY <1>1 DEF As, Request, Row

\* One request moves to a well-formed record.
LEMMA ReqMoves ==
    ASSUME TypeInv, NEW r \in Requests, NEW x \in Request, WellFormed(x),
           req' = [req EXCEPT ![r] = x]
    PROVE  req' \in [Requests -> Request] /\ \A q \in Requests : WellFormed(req'[q])
BY DEF TypeInv, TypeOK

\* A new row is well typed and takes the next key.
LEMMA CreateType ==
    ASSUME TypeOK, NEW sub \in Sub, NEW e \in Emails, NEW ver \in BOOLEAN,
           CreateRow(sub, e, ver)
    PROVE  /\ users' \in [Ids -> Row \cup {None}]
           /\ nextId' \in 0 .. MaxId /\ nextId' \in Ids /\ nextId' = nextId + 1
           /\ local(nextId') \in Sub
<1>1. nextId' \in Ids /\ nextId' = nextId + 1 /\ nextId' \in Nat
  BY AccountsAssumption DEF TypeOK, CreateRow, Ids
<1>2. NewRow(sub, e, ver) \in Row
  BY DEF NewRow, Row
<1>. QED
  BY <1>1, <1>2, AccountsAssumption DEF TypeOK, CreateRow, Ids, Sub, local

\* The cascade keeps credentials and links well typed.
LEMMA CascadeType ==
    ASSUME TypeOK, NEW i, CascadeCreds(i)
    PROVE  /\ password' \in [Ids -> 0 .. MaxPassword]
           /\ chosen' \in 0 .. MaxPassword
           /\ passkeys' \in [Ids -> 0 .. MaxPasskeys]
           /\ links' \in [Socials -> 0 .. MaxId]
           /\ tokens' \in [Tokens -> Token \cup {None}]
           /\ issued' \in 0 .. MaxTokens
<1>1. 0 \in 0 .. MaxPassword /\ 0 \in 0 .. MaxPasskeys /\ 0 \in 0 .. MaxId
  BY AccountsAssumption
<1>. QED
  BY <1>1 DEF CascadeCreds, TypeOK

\* Everything of TypeOK but the requests.
StoreType ==
    /\ users \in [Ids -> Row \cup {None}]
    /\ nextId \in 0 .. MaxId
    /\ password \in [Ids -> 0 .. MaxPassword]
    /\ chosen \in 0 .. MaxPassword
    /\ passkeys \in [Ids -> 0 .. MaxPasskeys]
    /\ links \in [Socials -> 0 .. MaxId]
    /\ tokens \in [Tokens -> Token \cup {None}]
    /\ issued \in 0 .. MaxTokens
    /\ session \subseteq Sub
    /\ proven \subseteq Sub \X Emails
    /\ used \in [Tokens -> Nat]

\* A request arrives: only its slot is written.
LEMMA BeginType ==
    ASSUME TypeInv, StoreType', NEW r \in Requests, NEW x \in Request, WellFormed(x),
           req' = [req EXCEPT ![r] = x]
    PROVE  TypeInv'
BY ReqMoves DEF TypeInv, TypeOK, StoreType

\* An address is proved.
LEMMA ProvenType ==
    ASSUME proven \subseteq Sub \X Emails, NEW sub \in Sub, NEW e \in Emails
    PROVE  proven \cup {<<sub, e>>} \subseteq Sub \X Emails
OBVIOUS

\* Every handler starts well typed.
LEMMA ArriveType ==
    ASSUME TypeInv, NEW r \in Requests, Arrive(r)
    PROVE  TypeInv'
<1>. USE AccountsAssumption DEF creds, mail, history
<1>0. TypeOK /\ StoreType
  BY DEF TypeInv, TypeOK, StoreType
<1>1. ASSUME NEW e \in Emails, PasswordSignup(r, e) PROVE TypeInv'
  <2>1. StoreType'
    BY <1>0, <1>1 DEF PasswordSignup, StoreType
  <2>2. ASSUME NEW i \in Live,
               req' = [req EXCEPT ![r] = [Idle EXCEPT !.pc = "setPassword", !.op = "signup",
                                                      !.id = i, !.email = e]]
        PROVE  TypeInv'
    <3>1. i \in Ids /\ i \in 0 .. MaxId
      BY DEF Live, Ids
    <3>2. /\ [Idle EXCEPT !.pc = "setPassword", !.op = "signup", !.id = i, !.email = e] \in Request
          /\ WellFormed([Idle EXCEPT !.pc = "setPassword", !.op = "signup",
                                     !.id = i, !.email = e])
      BY <3>1, IdleType DEF Request, PCs, Ops, WellFormed
    <3>. QED
      BY <2>1, <2>2, <3>2, BeginType
  <2>3. ASSUME req' = [req EXCEPT ![r] =
                          [Idle EXCEPT !.pc = "create", !.op = "signup", !.email = e]]
        PROVE  TypeInv'
    <3>1. /\ [Idle EXCEPT !.pc = "create", !.op = "signup", !.email = e] \in Request
          /\ WellFormed([Idle EXCEPT !.pc = "create", !.op = "signup", !.email = e])
      BY IdleType DEF Request, PCs, Ops, WellFormed
    <3>. QED
      BY <2>1, <2>3, <3>1, BeginType
  <2>. QED
    BY <1>1, <2>2, <2>3 DEF PasswordSignup, Begin, ByEmail
<1>2. ASSUME NEW e \in Emails, adminCreateUser(r, e) PROVE TypeInv'
  <2>1. StoreType'
    BY <1>0, <1>2 DEF adminCreateUser, StoreType
  <2>2. /\ [Idle EXCEPT !.pc = "create", !.op = "admin", !.email = e] \in Request
        /\ WellFormed([Idle EXCEPT !.pc = "create", !.op = "admin", !.email = e])
    BY IdleType DEF Request, PCs, Ops, WellFormed
  <2>. QED
    BY <1>2, <2>1, <2>2, BeginType DEF adminCreateUser, Begin
<1>3. ASSUME NEW e \in Emails, EmailOTPVerify(r, e) PROVE TypeInv'
  <2>1. StoreType'
    BY <1>0, <1>3 DEF EmailOTPVerify, StoreType
  <2>2. /\ [Idle EXCEPT !.pc = "lookup", !.op = "otp", !.email = e] \in Request
        /\ WellFormed([Idle EXCEPT !.pc = "lookup", !.op = "otp", !.email = e])
    BY IdleType DEF Request, PCs, Ops, WellFormed
  <2>. QED
    BY <1>3, <2>1, <2>2, BeginType DEF EmailOTPVerify, Begin
<1>4. ASSUME NEW e \in Emails, NEW n \in OIDCSubs, Callback(r, n, e) PROVE TypeInv'
  <2>. DEFINE sub == [kind |-> "oidc", n |-> n]
  <2>0. sub \in Sub
    BY DEF Sub
  <2>2. PICK ver \in BOOLEAN :
          /\ req' = [req EXCEPT ![r] =
                       [Idle EXCEPT !.pc = "upsert", !.op = "oidc", !.email = e,
                                    !.ver = ver, !.sub = sub]]
          /\ proven' = IF ver THEN proven \cup {<<sub, e>>} ELSE proven
    BY <1>4 DEF Callback, Begin
  <2>. HIDE DEF sub
  <2>1. StoreType'
    BY <1>0, <1>4, <2>0, <2>2, ProvenType DEF Callback, StoreType
  <2>. DEFINE x == [Idle EXCEPT !.pc = "upsert", !.op = "oidc", !.email = e, !.ver = ver,
                                !.sub = sub]
  <2>3. x \in Request
    BY <2>0, IdleType DEF Request, PCs, Ops
  <2>4. x.pc = "upsert" /\ x.email = e
    BY DEF Idle
  <2>5. req' = [req EXCEPT ![r] = x]
    BY <2>2
  <2>. HIDE DEF x
  <2>6. WellFormed(x)
    BY <2>4 DEF WellFormed
  <2>. QED
    BY <2>1, <2>3, <2>5, <2>6, BeginType
<1>5. ASSUME NEW e \in Emails, NEW s \in Socials, SocialCallback(r, s, e) PROVE TypeInv'
  <2>1. StoreType'
    BY <1>0, <1>5 DEF SocialCallback, StoreType
  <2>2. ASSUME links[s] \in Live,
               req' = [req EXCEPT ![r] = [As(links[s], Idle) EXCEPT !.pc = "upsert",
                                                                    !.op = "social"]]
        PROVE  TypeInv'
    <3>. DEFINE x == As(links[s], Idle)
    <3>1. x \in Request /\ x.email \in Emails
      BY <1>0, <2>2, AsType, IdleType
    <3>. HIDE DEF x
    <3>2. /\ [x EXCEPT !.pc = "upsert", !.op = "social"] \in Request
          /\ WellFormed([x EXCEPT !.pc = "upsert", !.op = "social"])
      BY <3>1 DEF Request, PCs, Ops, WellFormed
    <3>. QED
      BY <2>1, <2>2, <3>2, BeginType DEF x
  <2>3. ASSUME req' = [req EXCEPT ![r] = [Idle EXCEPT !.pc = "byEmail", !.op = "social",
                                                      !.soc = s, !.email = e]]
        PROVE  TypeInv'
    <3>1. /\ [Idle EXCEPT !.pc = "byEmail", !.op = "social", !.soc = s, !.email = e] \in Request
          /\ WellFormed([Idle EXCEPT !.pc = "byEmail", !.op = "social",
                                     !.soc = s, !.email = e])
      BY IdleType DEF Request, PCs, Ops, WellFormed
    <3>. QED
      BY <2>1, <2>3, <3>1, BeginType
  <2>. QED
    BY <1>5, <2>2, <2>3 DEF SocialCallback, Begin
<1>6. ASSUME NEW i \in Live, SetPassword(r, i) PROVE TypeInv'
  <2>1. StoreType'
    BY <1>0, <1>6 DEF SetPassword, StoreType
  <2>2. i \in Ids /\ i \in 0 .. MaxId
    BY DEF Live, Ids
  <2>3. /\ [Idle EXCEPT !.pc = "setPassword", !.op = "account", !.id = i] \in Request
        /\ WellFormed([Idle EXCEPT !.pc = "setPassword", !.op = "account", !.id = i])
    BY <2>2, IdleType DEF Request, PCs, Ops, WellFormed
  <2>. QED
    BY <1>6, <2>1, <2>3, BeginType DEF SetPassword, Begin
<1>7. ASSUME NEW i \in Live, NEW e \in Emails, NEW purpose \in Purposes, StoreType',
             req' = [req EXCEPT ![r] = [Idle EXCEPT !.pc = "token", !.op = "mail", !.id = i,
                                          !.email = e, !.purpose = purpose]]
      PROVE  TypeInv'
  <2>1. i \in Ids /\ i \in 0 .. MaxId
    BY DEF Live, Ids
  <2>2. /\ [Idle EXCEPT !.pc = "token", !.op = "mail", !.id = i, !.email = e,
                        !.purpose = purpose] \in Request
        /\ WellFormed([Idle EXCEPT !.pc = "token", !.op = "mail", !.id = i, !.email = e,
                                   !.purpose = purpose])
    BY <2>1, IdleType DEF Request, PCs, Ops, WellFormed
  <2>. QED
    BY <1>7, <2>2, BeginType
<1>8. ASSUME NEW i \in Live, NEW purpose \in {"login", "reset"}, MailRequest(r, i, purpose)
      PROVE  TypeInv'
  <2>1. StoreType'
    BY <1>0, <1>8 DEF MailRequest, StoreType
  <2>2. users[i].email \in Emails /\ purpose \in Purposes
    BY <1>0 DEF Live, StoreType, Row, Purposes
  <2>. QED
    BY <1>7, <1>8, <2>1, <2>2 DEF MailRequest, Begin
<1>9. ASSUME NEW i \in Live, NEW e \in Emails, AccountChangeEmailRequest(r, i, e)
      PROVE  TypeInv'
  <2>1. StoreType'
    BY <1>0, <1>9 DEF AccountChangeEmailRequest, StoreType
  <2>. QED
    BY <1>7, <1>9, <2>1 DEF AccountChangeEmailRequest, Begin, Purposes
<1>10. ASSUME NEW i \in Live, PasswordLogin(r, i) PROVE TypeInv'
  <2>1. StoreType'
    BY <1>0, <1>10 DEF PasswordLogin, StoreType
  <2>. DEFINE x == As(i, Idle)
  <2>2. x \in Request /\ x.email \in Emails
    BY <1>0, AsType, IdleType
  <2>3. PICK h \in BOOLEAN, pc \in {"rehash", "upsert"} :
          req' = [req EXCEPT ![r] = [x EXCEPT !.op = "login", !.pw = password[i], !.halt = h,
                                              !.pc = pc]]
    BY <1>10 DEF PasswordLogin, Begin
  <2>4. password[i] \in 0 .. MaxPassword
    BY <1>0 DEF StoreType, Live
  <2>. HIDE DEF x
  <2>5. /\ [x EXCEPT !.op = "login", !.pw = password[i], !.halt = h, !.pc = pc] \in Request
        /\ WellFormed([x EXCEPT !.op = "login", !.pw = password[i], !.halt = h, !.pc = pc])
    BY <2>2, <2>4 DEF Request, PCs, Ops, WellFormed
  <2>. QED
    BY <2>1, <2>3, <2>5, BeginType
<1>11. ASSUME NEW i \in Live, WebauthnLoginFinish(r, i) PROVE TypeInv'
  <2>1. StoreType'
    BY <1>0, <1>11 DEF WebauthnLoginFinish, StoreType
  <2>. DEFINE x == As(i, Idle)
  <2>2. x \in Request /\ x.email \in Emails
    BY <1>0, AsType, IdleType
  <2>3. req' = [req EXCEPT ![r] = [x EXCEPT !.pc = "upsert", !.op = "login"]]
    BY <1>11 DEF WebauthnLoginFinish, Begin
  <2>. HIDE DEF x
  <2>4. /\ [x EXCEPT !.pc = "upsert", !.op = "login"] \in Request
        /\ WellFormed([x EXCEPT !.pc = "upsert", !.op = "login"])
    BY <2>2 DEF Request, PCs, Ops, WellFormed
  <2>. QED
    BY <2>1, <2>3, <2>4, BeginType
<1>12. ASSUME NEW t \in Tokens, tokens[t] # None, NEW pc \in {"setVerified", "setEmail", "consume"},
              NEW op \in {"redeem", "change", "reset"}, StoreType',
              req' = [req EXCEPT ![r] = [Idle EXCEPT !.pc = pc, !.op = op, !.id = tokens[t].id,
                                           !.email = tokens[t].email, !.tok = t]]
       PROVE  TypeInv'
  <2>1. tokens[t].id \in Ids /\ tokens[t].email \in Emails
    BY <1>0, <1>12 DEF StoreType, Token
  <2>2. tokens[t].id \in 0 .. MaxId /\ t \in 0 .. MaxTokens
    BY <2>1 DEF Ids, Tokens
  <2>3. /\ [Idle EXCEPT !.pc = pc, !.op = op, !.id = tokens[t].id,
                        !.email = tokens[t].email, !.tok = t] \in Request
        /\ WellFormed([Idle EXCEPT !.pc = pc, !.op = op, !.id = tokens[t].id,
                                   !.email = tokens[t].email, !.tok = t])
    BY <2>1, <2>2, IdleType DEF Request, PCs, Ops, WellFormed
  <2>. QED
    BY <1>12, <2>3, BeginType
<1>13. ASSUME NEW t \in Tokens, NEW purpose \in {"login", "change"}, RedeemToken(r, t, purpose)
       PROVE  TypeInv'
  <2>1. tokens[t] \in Token /\ tokens[t] # None
    BY <1>0, <1>13 DEF RedeemToken, ConsumeToken, Valid, StoreType
  <2>2. [tokens[t] EXCEPT !.consumed = TRUE] \in Token
    BY <2>1 DEF Token
  <2>3. StoreType'
    BY <1>0, <1>13, <2>2 DEF RedeemToken, ConsumeToken, StoreType
  <2>4. CASE purpose = "login"
    BY <1>12, <1>13, <2>1, <2>3, <2>4 DEF RedeemToken, Begin
  <2>5. CASE purpose = "change"
    BY <1>12, <1>13, <2>1, <2>3, <2>5 DEF RedeemToken, Begin
  <2>. QED
    BY <2>4, <2>5
<1>14. ASSUME NEW t \in Tokens, PasswordResetPeek(r, t) PROVE TypeInv'
  <2>1. StoreType'
    BY <1>0, <1>14 DEF PasswordResetPeek, StoreType
  <2>2. tokens[t] # None
    BY <1>14 DEF PasswordResetPeek, Valid
  <2>3. req' = [req EXCEPT ![r] = [Idle EXCEPT !.pc = "consume", !.op = "reset",
                                     !.id = tokens[t].id, !.email = tokens[t].email, !.tok = t]]
    BY <1>14 DEF PasswordResetPeek, Begin, Idle
  <2>. QED
    BY <1>12, <2>1, <2>2, <2>3
<1>. QED
  BY <1>1, <1>2, <1>3, <1>4, <1>5, <1>6, <1>8, <1>9, <1>10, <1>11, <1>13, <1>14 DEF Arrive

\* Which of the disjuncts of UpsertUserOnLogin a call takes, with its answer.
LEMMA UpsertType ==
    ASSUME TypeOK, NEW sub \in Sub, NEW e \in Emails, NEW ver \in BOOLEAN, NEW i \in Ids,
           Upserted(sub, e, ver, i)
    PROVE  /\ users' \in [Ids -> Row \cup {None}]
           /\ nextId' \in 0 .. MaxId
           /\ password' \in [Ids -> 0 .. MaxPassword]
           /\ chosen' \in 0 .. MaxPassword
           /\ passkeys' \in [Ids -> 0 .. MaxPasskeys]
           /\ links' \in [Socials -> 0 .. MaxId]
           /\ tokens' \in [Tokens -> Token \cup {None}]
           /\ issued' \in 0 .. MaxTokens
<1>. DEFINE Goal ==
           /\ users' \in [Ids -> Row \cup {None}]
           /\ nextId' \in 0 .. MaxId
           /\ password' \in [Ids -> 0 .. MaxPassword]
           /\ chosen' \in 0 .. MaxPassword
           /\ passkeys' \in [Ids -> 0 .. MaxPasskeys]
           /\ links' \in [Socials -> 0 .. MaxId]
           /\ tokens' \in [Tokens -> Token \cup {None}]
           /\ issued' \in 0 .. MaxTokens
<1>1. ASSUME i \in Live, UpdateBySub(i, e, ver) \/ Adopt(i, sub, ver),
             UNCHANGED <<nextId, creds, mail>>
      PROVE  Goal
  <2>1. users[i] \in Row
    BY <1>1 DEF Live, TypeOK
  <2>2. /\ [users[i] EXCEPT !.email = e, !.verified = @ \/ ver] \in Row
        /\ [users[i] EXCEPT !.sub = sub, !.verified = @ \/ ver] \in Row
    BY <2>1 DEF Row
  <2>3. \/ users' = [users EXCEPT ![i] = [users[i] EXCEPT !.email = e, !.verified = @ \/ ver]]
        \/ users' = [users EXCEPT ![i] = [users[i] EXCEPT !.sub = sub, !.verified = @ \/ ver]]
    BY <1>1, <2>1 DEF UpdateBySub, Adopt
  <2>. QED
    BY <1>1, <2>2, <2>3 DEF TypeOK, creds, mail
<1>2. ASSUME CreateRow(sub, e, ver), UNCHANGED <<creds, mail>> PROVE Goal
  BY <1>2, CreateType DEF TypeOK, creds, mail
<1>3. ASSUME NEW j \in Live, Reclaim(j, sub, e) PROVE Goal
  <2>1. NewRow(sub, e, TRUE) \in Row
    BY DEF NewRow, Row
  <2>2. nextId' \in 0 .. MaxId
    BY <1>3, AccountsAssumption DEF Reclaim, TypeOK
  <2>3. users' \in [Ids -> Row \cup {None}]
    BY <1>3, <2>1 DEF Reclaim, TypeOK
  <2>. QED
    BY <1>3, <2>2, <2>3, CascadeType DEF Reclaim
<1>. QED
  BY <1>1, <1>2, <1>3 DEF Upserted, BySub, ByEmail

\* The answer of UpsertUserOnLogin is the row of the subject and the address that
\* the login came with; every other row is left alone or gone.
LEMMA UpsertedRow ==
    ASSUME TypeOK, NEW sub \in Sub, NEW e \in Emails, NEW ver \in BOOLEAN, NEW i \in Ids,
           Upserted(sub, e, ver, i)
    PROVE  /\ users'[i] # None
           /\ users'[i].sub = sub /\ users'[i].email = e
           /\ \A j \in Ids \ {i} : users'[j] = users[j] \/ users'[j] = None
<1>. DEFINE Goal == /\ users'[i] # None
                    /\ users'[i].sub = sub /\ users'[i].email = e
                    /\ \A j \in Ids \ {i} : users'[j] = users[j] \/ users'[j] = None
<1>0. users \in [Ids -> Row \cup {None}]
  BY DEF TypeOK
<1>1. ASSUME i \in BySub(sub), UpdateBySub(i, e, ver) PROVE Goal
  <2>1. users[i] \in Row /\ users[i].sub = sub
    BY <1>0, <1>1 DEF BySub, Live
  <2>. DEFINE w == [users[i] EXCEPT !.email = e, !.verified = @ \/ ver]
  <2>2. w \in Row /\ w.sub = sub /\ w.email = e
    BY <2>1 DEF Row
  <2>3. users' = [users EXCEPT ![i] = w]
    BY <1>0, <1>1 DEF UpdateBySub
  <2>. HIDE DEF w
  <2>. QED
    BY <1>0, <2>2, <2>3, NoneAssumption
<1>2. ASSUME i \in ByEmail(e), Adopt(i, sub, ver) PROVE Goal
  <2>1. users[i] \in Row /\ users[i].email = e
    BY <1>0, <1>2 DEF ByEmail, Live
  <2>. DEFINE w == [users[i] EXCEPT !.sub = sub, !.verified = @ \/ ver]
  <2>2. w \in Row /\ w.sub = sub /\ w.email = e
    BY <2>1 DEF Row
  <2>3. users' = [users EXCEPT ![i] = w]
    BY <1>0, <1>2 DEF Adopt
  <2>. HIDE DEF w
  <2>. QED
    BY <1>0, <2>2, <2>3, NoneAssumption
<1>3. ASSUME NEW v \in BOOLEAN, users'[i] = NewRow(sub, e, v),
             \A j \in Ids \ {i} : users'[j] = users[j] \/ users'[j] = None
      PROVE  Goal
  <2>1. NewRow(sub, e, v) \in Row /\ NewRow(sub, e, v).sub = sub /\ NewRow(sub, e, v).email = e
    BY DEF NewRow, Row
  <2>. QED
    BY <1>3, <2>1, NoneAssumption
<1>4. ASSUME CreateRow(sub, e, ver), i = nextId + 1 PROVE Goal
  BY <1>0, <1>3, <1>4 DEF CreateRow
<1>5. ASSUME NEW j \in Live, Reclaim(j, sub, e), i = nextId + 1 PROVE Goal
  <2>1. users' = [users EXCEPT ![j] = None, ![i] = NewRow(sub, e, TRUE)]
    BY <1>5 DEF Reclaim
  <2>. QED
    BY <1>0, <1>3, <2>1
<1>. QED
  BY <1>1, <1>2, <1>4, <1>5 DEF Upserted, ByEmail

\* Counting the effect of a link.
LEMMA UsedType ==
    ASSUME used \in [Tokens -> Nat], NEW t
    PROVE  [used EXCEPT ![t] = @ + 1] \in [Tokens -> Nat]
<1>1. CASE t \in Tokens
  <2>1. used[t] + 1 \in Nat
    BY <1>1
  <2>. QED
    BY <2>1
<1>2. CASE t \notin Tokens
  BY <1>2
<1>. QED
  BY <1>1, <1>2

\* The end of a login is well typed.
LEMMA GrantedType ==
    ASSUME TypeInv, NEW r \in Requests, NEW i \in Ids, Granted(r, i),
           users' \in [Ids -> Row \cup {None}], users'[i] # None, req[r].email \in Emails
    PROVE  /\ session' \subseteq Sub
           /\ used' \in [Tokens -> Nat]
           /\ req' \in [Requests -> Request]
           /\ \A q \in Requests : WellFormed(req'[q])
<1>0. req[r] \in Request /\ users'[i] \in Row /\ i \in 0 .. MaxId
  BY DEF TypeInv, TypeOK, Ids
<1>1. CASE req[r].op = "reclaim"
  <2>. DEFINE x == [req[r] EXCEPT !.pc = "link", !.op = "social", !.id = i,
                                  !.halt = users'[i].blocked]
  <2>1. req' = [req EXCEPT ![r] = x] /\ UNCHANGED <<session, used>>
    BY <1>0, <1>1 DEF Granted, TypeInv, TypeOK
  <2>2. x \in Request /\ WellFormed(x)
    BY <1>0, AccountsAssumption DEF Request, Row, PCs, Ops, WellFormed
  <2>. HIDE DEF x
  <2>. QED
    BY <2>1, <2>2, ReqMoves DEF TypeInv, TypeOK
<1>2. CASE req[r].op # "reclaim"
  <2>1. session' \subseteq Sub
    BY <1>0, <1>2 DEF Granted, TypeInv, TypeOK, Request
  <2>2. used' \in [Tokens -> Nat]
    BY <1>2, UsedType DEF Granted, TypeInv, TypeOK
  <2>. QED
    BY <1>2, <2>1, <2>2, ReqMoves, IdleType DEF Granted, Finish
<1>. QED
  BY <1>1, <1>2

\* Every later store call of a handler keeps the types.
LEMMA StepType ==
    ASSUME TypeInv, NEW r \in Requests, Step(r)
    PROVE  TypeInv'
<1>. USE AccountsAssumption DEF creds, mail, history
<1>0. /\ TypeOK /\ StoreType
      /\ req[r] \in Request /\ WellFormed(req[r])
  BY DEF TypeInv, TypeOK, StoreType
<1>1. ASSUME StoreType', Finish(r) PROVE TypeInv'
  BY <1>1, IdleType, BeginType DEF Finish
<1>2. ASSUME StoreType', NEW pc \in PCs \ {"idle", "create", "byEmail", "save", "consume"}, Goto(r, pc),
             req[r].email \in Emails, pc \in {"setPassword", "token"} => req[r].id \in Ids
      PROVE  TypeInv'
  <2>1. [req[r] EXCEPT !.pc = pc] \in Request /\ WellFormed([req[r] EXCEPT !.pc = pc])
    BY <1>0, <1>2 DEF Request, WellFormed
  <2>2. req' = [req EXCEPT ![r] = [req[r] EXCEPT !.pc = pc]]
    BY <1>2 DEF Goto
  <2>. QED
    BY <1>2, <2>1, <2>2, BeginType
<1>3. ASSUME CreateLocalUser(r) PROVE TypeInv'
  <2>0. req[r].email \in Emails /\ req[r].op \in {"signup", "admin", "social"}
    BY <1>0, <1>3 DEF CreateLocalUser, WellFormed, Request
  <2>1. CASE Finish(r) /\ UNCHANGED <<users, nextId, proven>>
    <3>1. StoreType'
      BY <1>0, <1>3, <2>1 DEF CreateLocalUser, StoreType
    <3>. QED
      BY <1>1, <2>1, <3>1
  <2>2. CASE ~(Finish(r) /\ UNCHANGED <<users, nextId, proven>>)
    <3>1. CreateRow(local(nextId + 1), req[r].email, FALSE)
      BY <1>3, <2>2 DEF CreateLocalUser
    <3>2. nextId' = nextId + 1
      BY <3>1 DEF CreateRow
    <3>3. local(nextId + 1) \in Sub
      BY <1>0 DEF StoreType, local, Sub
    <3>4. /\ users' \in [Ids -> Row \cup {None}]
          /\ nextId' \in 0 .. MaxId /\ nextId' \in Ids /\ local(nextId') \in Sub
      BY <1>0, <2>0, <3>1, <3>3, CreateType
    <3>5. StoreType'
      <4>1. proven' \subseteq Sub \X Emails
        <5>1. proven' = proven \/ proven' = proven \cup {<<local(nextId'), req[r].email>>}
          BY <1>3, <2>2 DEF CreateLocalUser
        <5>. QED
          BY <1>0, <2>0, <3>4, <5>1, ProvenType DEF StoreType
      <4>. QED
        BY <1>0, <1>3, <3>4, <4>1 DEF CreateLocalUser, StoreType
    <3>6. PICK pc \in {"setPassword", "setVerified", "link"} :
             req' = [req EXCEPT ![r].pc = pc, ![r].id = nextId',
                                ![r].sub = local(nextId'), ![r].ver = TRUE,
                                ![r].op = IF @ = "social" THEN "new" ELSE @]
      BY <1>3, <2>0, <2>2 DEF CreateLocalUser
    <3>. DEFINE y == [req[r] EXCEPT !.pc = pc, !.id = nextId', !.sub = local(nextId'),
                                    !.ver = TRUE, !.op = IF @ = "social" THEN "new" ELSE @]
    <3>7. req' = [req EXCEPT ![r] = y]
      BY <1>0, <3>6 DEF TypeOK
    <3>8. y \in Request /\ WellFormed(y)
      BY <1>0, <2>0, <3>4 DEF Request, PCs, Ops, WellFormed
    <3>. HIDE DEF y
    <3>. QED
      BY <3>5, <3>7, <3>8, BeginType
  <2>. QED
    BY <2>1, <2>2
<1>4. ASSUME SetPasswordHash(r) PROVE TypeInv'
  <2>1. StoreType'
    <3>1. chosen' \in 0 .. MaxPassword
      BY <1>0, <1>4 DEF SetPasswordHash, StoreType
    <3>2. used' \in [Tokens -> Nat]
      BY <1>0, <1>4, UsedType DEF SetPasswordHash, StoreType
    <3>. QED
      BY <1>0, <1>4, <3>1, <3>2 DEF SetPasswordHash, StoreType
  <2>2. req[r].pc = "setPassword" /\ req[r].id \in Ids
    BY <1>0, <1>4 DEF SetPasswordHash, WellFormed
  <2>3. CASE Finish(r)
    BY <1>1, <2>1, <2>3
  <2>4. CASE ~Finish(r)
    <3>1. req[r].op # "account" /\ (Goto(r, "token") \/ Goto(r, "setVerified"))
      BY <1>4, <2>4 DEF SetPasswordHash
    <3>2. req[r].email \in Emails
      BY <1>0, <2>2, <3>1 DEF WellFormed, Request
    <3>. QED
      BY <1>2, <2>1, <2>2, <3>1, <3>2 DEF PCs
  <2>. QED
    BY <2>3, <2>4
<1>5. ASSUME CreateToken(r) PROVE TypeInv'
  <2>1. req[r].email \in Emails /\ req[r].id \in Ids /\ req[r].purpose \in Purposes
    BY <1>0, <1>5 DEF CreateToken, WellFormed, Request
  <2>2. [purpose |-> req[r].purpose, id |-> req[r].id,
         email |-> req[r].email, consumed |-> FALSE] \in Token
    BY <2>1 DEF Token
  <2>3. tokens' \in [Tokens -> Token \cup {None}] /\ issued' \in 0 .. MaxTokens
    <3>1. issued' = issued + 1 /\ issued < MaxTokens /\ issued \in 0 .. MaxTokens
      BY <1>0, <1>5 DEF CreateToken, StoreType
    <3>2. issued' \in 0 .. MaxTokens
      BY <3>1
    <3>3. tokens \in [Tokens -> Token \cup {None}]
      BY <1>0 DEF StoreType
    <3>. QED
      BY <1>5, <2>2, <3>2, <3>3 DEF CreateToken
  <2>4. StoreType'
    BY <1>0, <1>5, <2>3 DEF CreateToken, StoreType
  <2>. QED
    BY <1>1, <1>5, <2>4 DEF CreateToken
<1>6. ASSUME PasswordResetConsume(r) PROVE TypeInv'
  <2>1. req[r].email \in Emails /\ req[r].pc = "consume"
    BY <1>0, <1>6 DEF PasswordResetConsume, WellFormed, Request
  <2>2. CASE Finish(r) /\ UNCHANGED tokens
    <3>1. StoreType'
      BY <1>0, <1>6, <2>2 DEF PasswordResetConsume, StoreType
    <3>. QED
      BY <1>1, <2>2, <3>1
  <2>3. CASE ConsumeToken(req[r].tok, "reset") /\ Goto(r, "setPassword")
    <3>1. req[r].tok \in Tokens /\ req[r].id \in Ids
      BY <1>0, <2>1 DEF WellFormed
    <3>2. tokens[req[r].tok] \in Token
      BY <1>0, <2>3, <3>1 DEF ConsumeToken, Valid, StoreType
    <3>3. [tokens[req[r].tok] EXCEPT !.consumed = TRUE] \in Token
      BY <3>2 DEF Token
    <3>4. StoreType'
      BY <1>0, <1>6, <2>3, <3>3 DEF PasswordResetConsume, ConsumeToken, StoreType
    <3>. QED
      BY <1>2, <2>1, <2>3, <3>1, <3>4 DEF PCs
  <2>. QED
    BY <1>6, <2>2, <2>3 DEF PasswordResetConsume
<1>7. ASSUME SetEmailVerified(r) PROVE TypeInv'
  <2>1. req[r].email \in Emails /\ req[r].pc = "setVerified"
    BY <1>0, <1>7 DEF SetEmailVerified, WellFormed, Request
  <2>2. users' \in [Ids -> Row \cup {None}] /\ proven' \subseteq Sub \X Emails
    <3>1. CASE req[r].id \in Live
      <4>1. users[req[r].id] \in Row
        BY <1>0, <3>1 DEF Live, StoreType
      <4>2. [users[req[r].id] EXCEPT !.verified = TRUE] \in Row /\ users[req[r].id].sub \in Sub
        BY <4>1 DEF Row
      <4>3. users' = [users EXCEPT ![req[r].id] = [users[req[r].id] EXCEPT !.verified = TRUE]]
        BY <1>7, <3>1 DEF SetEmailVerified
      <4>. QED
        BY <1>0, <1>7, <2>1, <3>1, <4>2, <4>3, ProvenType DEF SetEmailVerified, StoreType
    <3>2. CASE req[r].id \notin Live
      BY <1>0, <1>7, <3>2 DEF SetEmailVerified, StoreType
    <3>. QED
      BY <3>1, <3>2
  <2>3. StoreType'
    BY <1>0, <1>7, <2>2 DEF SetEmailVerified, StoreType
  <2>4. Finish(r) \/ Goto(r, "lookup") \/ Goto(r, "upsert")
    BY <1>7 DEF SetEmailVerified
  <2>. QED
    BY <1>1, <1>2, <2>1, <2>3, <2>4 DEF PCs
<1>8. ASSUME LookupByEmail(r) PROVE TypeInv'
  <2>1. req[r].email \in Emails
    BY <1>0, <1>8 DEF LookupByEmail, WellFormed, Request
  <2>2. CASE Finish(r) /\ UNCHANGED proven
    <3>1. StoreType'
      BY <1>0, <1>8, <2>2 DEF LookupByEmail, StoreType
    <3>. QED
      BY <1>1, <2>2, <3>1
  <2>3. ASSUME NEW i \in ByEmail(req[r].email), NEW pc \in {"setVerified", "upsert"},
               req' = [req EXCEPT ![r] = [As(i, req[r]) EXCEPT !.pc = pc]],
               proven' = proven \cup {<<users[i].sub, req[r].email>>}
        PROVE  TypeInv'
    <3>0. i \in Live /\ users[i].sub \in Sub
      BY <1>0 DEF ByEmail, Live, StoreType, Row
    <3>. DEFINE x == As(i, req[r])
    <3>1. x \in Request /\ x.email \in Emails
      BY <1>0, <3>0, AsType
    <3>. HIDE DEF x
    <3>2. [x EXCEPT !.pc = pc] \in Request /\ WellFormed([x EXCEPT !.pc = pc])
      BY <3>1 DEF Request, PCs, WellFormed
    <3>3. StoreType'
      BY <1>0, <1>8, <2>1, <2>3, <3>0 DEF LookupByEmail, StoreType
    <3>4. req' = [req EXCEPT ![r] = [x EXCEPT !.pc = pc]]
      BY <2>3 DEF x
    <3>. QED
      BY <3>2, <3>3, <3>4, BeginType
  <2>. QED
    BY <1>8, <2>2, <2>3 DEF LookupByEmail
<1>9. ASSUME EmailChangeConfirm(r) PROVE TypeInv'
  <2>1. req[r].email \in Emails
    BY <1>0, <1>9 DEF EmailChangeConfirm, WellFormed, Request
  <2>2. ASSUME SetEmail(req[r].id, req[r].email) PROVE users' \in [Ids -> Row \cup {None}]
    <3>1. CASE req[r].id \in Live
      <4>1. users[req[r].id] \in Row
        BY <1>0, <3>1 DEF Live, StoreType
      <4>2. [users[req[r].id] EXCEPT !.email = req[r].email, !.verified = TRUE] \in Row
        BY <2>1, <4>1 DEF Row
      <4>3. users' = [users EXCEPT ![req[r].id] =
                        [users[req[r].id] EXCEPT !.email = req[r].email, !.verified = TRUE]]
        BY <1>0, <2>2, <3>1 DEF SetEmail, StoreType, Live
      <4>. QED
        BY <1>0, <4>2, <4>3 DEF StoreType
    <3>2. CASE req[r].id \notin Live
      BY <1>0, <2>2, <3>2 DEF SetEmail, StoreType
    <3>. QED
      BY <3>1, <3>2
  <2>3. users' \in [Ids -> Row \cup {None}]
    BY <1>0, <1>9, <2>2 DEF EmailChangeConfirm, StoreType
  <2>4. proven' \subseteq Sub \X Emails
    <3>1. req[r].id \in Live => users[req[r].id].sub \in Sub
      BY <1>0 DEF Live, StoreType, Row
    <3>. QED
      BY <1>0, <1>9, <2>1, <3>1 DEF EmailChangeConfirm, StoreType
  <2>5. used' \in [Tokens -> Nat]
    BY <1>0, <1>9, UsedType DEF EmailChangeConfirm, StoreType
  <2>6. StoreType'
    BY <1>0, <1>9, <2>3, <2>4, <2>5 DEF EmailChangeConfirm, StoreType
  <2>. QED
    BY <1>1, <1>9, <2>6 DEF EmailChangeConfirm
<1>10. ASSUME Rehash(r) PROVE TypeInv'
  <2>1. req[r].email \in Emails
    BY <1>0, <1>10 DEF Rehash, WellFormed, Request
  <2>2. StoreType'
    BY <1>0, <1>10 DEF Rehash, StoreType, Request
  <2>3. Finish(r) \/ Goto(r, "upsert")
    BY <1>10 DEF Rehash
  <2>. QED
    BY <1>1, <1>2, <2>1, <2>2, <2>3 DEF PCs
<1>11. ASSUME SocialByEmail(r) PROVE TypeInv'
  <2>1. req[r].email \in Emails /\ req[r].op = "social"
    BY <1>0, <1>11 DEF SocialByEmail, WellFormed, Request
  <2>2. ASSUME UNCHANGED proven PROVE StoreType'
    BY <1>0, <1>11, <2>2 DEF SocialByEmail, StoreType
  <2>3. ASSUME NEW sub \in Sub, proven' = proven \cup {<<sub, req[r].email>>} PROVE StoreType'
    BY <1>0, <1>11, <2>1, <2>3, ProvenType DEF SocialByEmail, StoreType
  <2>4. ASSUME NEW i \in ByEmail(req[r].email),
               req' = [req EXCEPT ![r] = [As(i, req[r]) EXCEPT !.pc = "link",
                                                               !.halt = users[i].blocked]],
               proven' = proven \cup {<<users[i].sub, req[r].email>>}
        PROVE  TypeInv'
    <3>0. i \in Live /\ users[i].sub \in Sub /\ users[i].blocked \in BOOLEAN
      BY <1>0 DEF ByEmail, Live, StoreType, Row
    <3>. DEFINE x == As(i, req[r])
    <3>1. x \in Request /\ x.email \in Emails
      BY <1>0, <3>0, AsType
    <3>. HIDE DEF x
    <3>2. /\ [x EXCEPT !.pc = "link", !.halt = users[i].blocked] \in Request
          /\ WellFormed([x EXCEPT !.pc = "link", !.halt = users[i].blocked])
      BY <3>0, <3>1 DEF Request, PCs, WellFormed
    <3>3. req' = [req EXCEPT ![r] = [x EXCEPT !.pc = "link", !.halt = users[i].blocked]]
      BY <2>4 DEF x
    <3>. QED
      BY <2>3, <2>4, <3>0, <3>2, <3>3, BeginType
  <2>5. ASSUME NEW sub \in Sub, proven' = proven \cup {<<sub, req[r].email>>},
               req' = [req EXCEPT ![r].pc = "upsert", ![r].op = "reclaim",
                                  ![r].ver = TRUE, ![r].sub = sub]
        PROVE  TypeInv'
    <3>. DEFINE x == [req[r] EXCEPT !.pc = "upsert", !.op = "reclaim", !.ver = TRUE, !.sub = sub]
    <3>1. x \in Request /\ WellFormed(x)
      BY <1>0, <2>1 DEF Request, PCs, Ops, WellFormed
    <3>2. req' = [req EXCEPT ![r] = x]
      BY <1>0, <2>5 DEF TypeOK
    <3>. HIDE DEF x
    <3>. QED
      BY <2>3, <2>5, <3>1, <3>2, BeginType
  <2>6. [kind |-> "social", n |-> req[r].soc] \in Sub
    BY <1>0 DEF Request, Sub
  <2>7. ASSUME Goto(r, "create"), UNCHANGED proven PROVE TypeInv'
    <3>1. [req[r] EXCEPT !.pc = "create"] \in Request /\ WellFormed([req[r] EXCEPT !.pc = "create"])
      BY <1>0, <2>1 DEF Request, PCs, WellFormed
    <3>2. req' = [req EXCEPT ![r] = [req[r] EXCEPT !.pc = "create"]]
      BY <2>7 DEF Goto
    <3>. QED
      BY <2>2, <2>7, <3>1, <3>2, BeginType
  <2>8. \/ UNCHANGED proven /\ (Finish(r) \/ Goto(r, "create"))
        \/ \E i \in ByEmail(req[r].email) :
              /\ req' = [req EXCEPT ![r] = [As(i, @) EXCEPT !.pc = "link",
                                                            !.halt = users[i].blocked]]
              /\ proven' = proven \cup {<<users[i].sub, req[r].email>>}
        \/ \E sub \in Sub :
              /\ req' = [req EXCEPT ![r].pc = "upsert", ![r].op = "reclaim",
                                    ![r].ver = TRUE, ![r].sub = sub]
              /\ proven' = proven \cup {<<sub, req[r].email>>}
    BY <1>11, <2>6, Zenon DEF SocialByEmail
  <2>. QED
    BY <1>1, <2>2, <2>4, <2>5, <2>7, <2>8
<1>12. ASSUME LinkOAuth(r) PROVE TypeInv'
  <2>1. req[r].email \in Emails
    BY <1>0, <1>12 DEF LinkOAuth, WellFormed, Request
  <2>2. StoreType'
    BY <1>0, <1>12 DEF LinkOAuth, StoreType, Request
  <2>3. Finish(r) \/ Goto(r, "setVerified") \/ Goto(r, "upsert")
    BY <1>12 DEF LinkOAuth
  <2>. QED
    BY <1>1, <1>2, <2>1, <2>2, <2>3 DEF PCs
<1>13. ASSUME UpsertUserOnLogin(r) PROVE TypeInv'
  <2>1. /\ req[r].email \in Emails /\ req[r].sub \in Sub /\ req[r].ver \in BOOLEAN
        /\ UNCHANGED proven
    BY <1>0, <1>13 DEF UpsertUserOnLogin, WellFormed, Request
  <2>2. ASSUME NEW i \in Ids, Upserted(req[r].sub, req[r].email, req[r].ver, i), Granted(r, i)
        PROVE  TypeInv'
    <3>1. users'[i] # None
      BY <1>0, <2>1, <2>2, UpsertedRow
    <3>2. /\ users' \in [Ids -> Row \cup {None}]
          /\ nextId' \in 0 .. MaxId
          /\ password' \in [Ids -> 0 .. MaxPassword]
          /\ chosen' \in 0 .. MaxPassword
          /\ passkeys' \in [Ids -> 0 .. MaxPasskeys]
          /\ links' \in [Socials -> 0 .. MaxId]
          /\ tokens' \in [Tokens -> Token \cup {None}]
          /\ issued' \in 0 .. MaxTokens
      BY <1>0, <2>1, <2>2, UpsertType
    <3>3. /\ session' \subseteq Sub /\ used' \in [Tokens -> Nat]
          /\ req' \in [Requests -> Request]
          /\ \A q \in Requests : WellFormed(req'[q])
      BY <2>1, <2>2, <3>1, <3>2, GrantedType
    <3>. QED
      BY <1>0, <2>1, <3>2, <3>3 DEF TypeInv, TypeOK
  <2>3. ASSUME NEW i \in Live, NEW row \in Row,
               req' = [req EXCEPT ![r].pc = "save", ![r].id = i, ![r].row = row],
               UNCHANGED <<users, nextId, creds, mail, session, used>>
        PROVE  TypeInv'
    <3>1. StoreType'
      BY <1>0, <2>1, <2>3 DEF StoreType
    <3>2. i \in Ids /\ i \in 0 .. MaxId
      BY DEF Live, Ids
    <3>. DEFINE x == [req[r] EXCEPT !.pc = "save", !.id = i, !.row = row]
    <3>3. x \in Request /\ WellFormed(x)
      BY <1>0, <2>1, <3>2, NoneAssumption DEF Request, PCs, WellFormed
    <3>4. req' = [req EXCEPT ![r] = x]
      BY <1>0, <2>3 DEF TypeOK
    <3>. HIDE DEF x
    <3>. QED
      BY <3>1, <3>3, <3>4, BeginType
  <2>4. ASSUME Finish(r), UNCHANGED <<users, nextId, creds, mail, session, used>>
        PROVE  TypeInv'
    <3>1. StoreType'
      BY <1>0, <2>1, <2>4 DEF StoreType
    <3>. QED
      BY <1>1, <2>4, <3>1
  <2>5. ASSUME NEW i \in Live
        PROVE  /\ [users[i] EXCEPT !.email = req[r].email, !.verified = @ \/ req[r].ver] \in Row
               /\ [users[i] EXCEPT !.sub = req[r].sub, !.verified = @ \/ req[r].ver] \in Row
    <3>1. users[i] \in Row
      BY <1>0 DEF Live, StoreType
    <3>. QED
      BY <2>1, <3>1 DEF Row
  <2>6. \/ \E i \in Ids : /\ Upserted(req[r].sub, req[r].email, req[r].ver, i)
                          /\ Granted(r, i)
        \/ /\ \E i \in Live : \E row \in Row :
                 req' = [req EXCEPT ![r].pc = "save", ![r].id = i, ![r].row = row]
           /\ UNCHANGED <<users, nextId, creds, mail, session, used>>
        \/ Finish(r) /\ UNCHANGED <<users, nextId, creds, mail, session, used>>
    BY <1>13, <2>5, Zenon DEF UpsertUserOnLogin, BySub, ByEmail
  <2>. QED
    BY <2>2, <2>3, <2>4, <2>6
<1>14. ASSUME Save(r) PROVE TypeInv'
  <2>1. /\ req[r].pc = "save" /\ req[r].id \in Ids /\ req[r].row \in Row
        /\ req[r].email \in Emails /\ req[r].row # None
    BY <1>0, <1>14 DEF Save, WellFormed, Request
  <2>2. CASE users' = [users EXCEPT ![req[r].id] = req[r].row] /\ Granted(r, req[r].id)
    <3>1. users' \in [Ids -> Row \cup {None}] /\ users'[req[r].id] # None
      BY <1>0, <2>1, <2>2 DEF StoreType
    <3>2. /\ session' \subseteq Sub /\ used' \in [Tokens -> Nat]
          /\ req' \in [Requests -> Request]
          /\ \A q \in Requests : WellFormed(req'[q])
      BY <2>1, <2>2, <3>1, GrantedType
    <3>. QED
      BY <1>0, <1>14, <3>1, <3>2 DEF Save, TypeInv, TypeOK
  <2>3. CASE Finish(r) /\ UNCHANGED <<users, session, used>>
    <3>1. StoreType'
      BY <1>0, <1>14, <2>3 DEF Save, StoreType
    <3>. QED
      BY <1>1, <2>3, <3>1
  <2>. QED
    BY <1>14, <2>2, <2>3 DEF Save
<1>. QED
  BY <1>3, <1>4, <1>5, <1>6, <1>7, <1>8, <1>9, <1>10, <1>11, <1>12, <1>13, <1>14 DEF Step

\* TypeInv is inductive.
LEMMA TypeStep == TypeInv /\ [Next]_vars => TypeInv'
<1>. SUFFICES ASSUME TypeInv, [Next]_vars PROVE TypeInv'
  OBVIOUS
<1>. USE AccountsAssumption DEF creds, mail, history
<1>1. ASSUME NEW r \in Requests, Arrive(r) PROVE TypeInv'
  BY <1>1, ArriveType
<1>2. ASSUME NEW r \in Requests, Step(r) PROVE TypeInv'
  BY <1>2, StepType
<1>3. ASSUME NEW i \in Live, AddPasskey(i) PROVE TypeInv'
  BY <1>3 DEF AddPasskey, Live, TypeInv, TypeOK
<1>4. ASSUME NEW i \in Live, PasskeyRemove(i) PROVE TypeInv'
  BY <1>4 DEF PasskeyRemove, Live, TypeInv, TypeOK
<1>5. ASSUME NEW i \in Live, DeleteUser(i) PROVE TypeInv'
  BY <1>5, CascadeType DEF DeleteUser, TypeInv, TypeOK
<1>6. ASSUME NEW i \in Live, NEW s \in Socials, OAuthUnlink(i, s) PROVE TypeInv'
  BY <1>6 DEF OAuthUnlink, TypeInv, TypeOK
<1>7. ASSUME NEW i \in Live, NEW b \in BOOLEAN, adminSetBlocked(i, b) PROVE TypeInv'
  BY <1>7 DEF adminSetBlocked, Live, TypeInv, TypeOK, Row
<1>8. ASSUME UNCHANGED vars PROVE TypeInv'
  BY <1>8 DEF vars, TypeInv, TypeOK
<1>. QED
  BY <1>1, <1>2, <1>3, <1>4, <1>5, <1>6, <1>7, <1>8 DEF Next

\* Init establishes TypeInv.
LEMMA TypeInit == Init => TypeInv
<1>. SUFFICES ASSUME Init PROVE TypeInv
  OBVIOUS
<1>1. users \in [Ids -> Row \cup {None}]
  BY AccountsAssumption DEF Init, NewRow, Row, Sub
<1>2. /\ nextId \in 0 .. MaxId
      /\ password \in [Ids -> 0 .. MaxPassword]
      /\ chosen \in 0 .. MaxPassword
      /\ passkeys \in [Ids -> 0 .. MaxPasskeys]
      /\ links \in [Socials -> 0 .. MaxId]
      /\ issued \in 0 .. MaxTokens
  BY AccountsAssumption DEF Init
<1>3. /\ tokens \in [Tokens -> Token \cup {None}]
      /\ session \subseteq Sub
      /\ proven \subseteq Sub \X Emails
      /\ used \in [Tokens -> Nat]
  BY DEF Init
<1>4. req \in [Requests -> Request] /\ \A r \in Requests : WellFormed(req[r])
  BY IdleType DEF Init
<1>. QED
  BY <1>1, <1>2, <1>3, <1>4 DEF TypeInv, TypeOK

\* Every handler keeps the rows, the credentials, the links and its own local
\* variables well typed, at every one of its store calls.
THEOREM TypeCorrect == Spec => []TypeOK
<1>1. TypeInv => TypeOK
  BY DEF TypeInv
<1>. QED
  BY <1>1, TypeInit, TypeStep, PTL DEF Spec

-----------------------------------------------------------------------------
(* What a request holds when it arrives *)

\* Row i has been read for its identity.
Reads(y, i) ==
    /\ i \in Live /\ y.id = i
    /\ y.sub = users[i].sub /\ y.email = users[i].email /\ y.ver

\* The link t has been read.
Carried(y, t) ==
    /\ t \in Tokens /\ y.tok = t
    /\ tokens[t] # None /\ ~tokens[t].consumed
    /\ y.id = tokens[t].id /\ y.email = tokens[t].email /\ y.sub = local(0)

\* The first record of each handler, by what it has read.
Arrived(y) ==
    /\ y.row = None
    /\ \/ /\ y.pc = "create" /\ y.op \in {"signup", "admin"}
          /\ y.id = 0 /\ y.sub = local(0) /\ y.purpose = "login"
       \/ /\ y.pc = "setPassword" /\ y.op = "signup" /\ y.purpose = "login"
          /\ y.id \in Live /\ users[y.id].email = y.email /\ y.sub = local(0)
       \/ y.pc = "lookup" /\ y.op = "otp" /\ y.id = 0 /\ y.sub = local(0)
       \/ /\ y.pc = "upsert" /\ y.op = "oidc" /\ y.id = 0 /\ y.sub.kind = "oidc"
          /\ ~UnprovenOIDC => y.ver /\ <<y.sub, y.email>> \in proven'
       \/ /\ y.pc = "upsert" /\ y.op = "social"
          /\ \E s \in Socials : Reads(y, links[s])
       \/ y.pc = "byEmail" /\ y.op = "social" /\ y.id = 0 /\ y.sub = local(0)
       \/ y.pc = "setPassword" /\ y.op = "account" /\ y.id \in Live /\ y.sub = local(0)
       \/ /\ y.pc = "token" /\ y.op = "mail" /\ y.id \in Live /\ y.sub = local(0)
          /\ y.purpose # "change" => users[y.id].email = y.email
       \/ /\ y.pc = "rehash" /\ y.op = "login" /\ StaleCost /\ y.pw > 0
          /\ \E i \in Live : Reads(y, i) /\ (y.halt \/ users[i].verified)
       \/ /\ y.pc = "upsert" /\ y.op = "login"
          /\ \E i \in Live : Reads(y, i) /\ (passkeys[i] > 0 \/ users[i].verified)
       \/ /\ y.pc = "setVerified" /\ y.op = "redeem"
          /\ \E t \in Tokens : Carried(y, t) /\ tokens[t].purpose # "change"
       \/ y.pc = "setEmail" /\ y.op = "change" /\ \E t \in Tokens : Carried(y, t)
       \/ /\ y.pc = "consume" /\ y.op = "reset"
          /\ \E t \in Tokens : Carried(y, t) /\ tokens[t].purpose # "change"

\* An arriving request writes its slot; a link that is redeemed is consumed.
ArrivesAt(r) ==
    /\ UNCHANGED <<users, nextId, creds, session, used, issued>>
    /\ proven \subseteq proven'
    /\ \/ UNCHANGED tokens
       \/ /\ req'[r].pc \in {"setVerified", "setEmail"}
          /\ tokens' = [tokens EXCEPT ![req'[r].tok] = [@ EXCEPT !.consumed = TRUE]]
    /\ req'[r].pc \in {"setVerified", "setEmail"} => tokens'[req'[r].tok].consumed
    /\ req[r].pc = "idle"
    /\ \A q \in Requests \ {r} : req'[q] = req[q]

\* No handler writes the store when it arrives, but for a link it redeems.
LEMMA ArrivesFrame ==
    ASSUME TypeInv, NEW r \in Requests, Arrive(r)
    PROVE  /\ UNCHANGED <<users, nextId, creds, session, used, issued>>
           /\ proven \subseteq proven'
           /\ req[r].pc = "idle"
           /\ \A q \in Requests \ {r} : req'[q] = req[q]
<1>. USE DEF creds, mail, history, Begin, TypeInv, TypeOK
<1>1. CASE \E e \in Emails : \/ PasswordSignup(r, e) \/ adminCreateUser(r, e)
                             \/ EmailOTPVerify(r, e)
                             \/ \E n \in OIDCSubs : Callback(r, n, e)
                             \/ \E s \in Socials : SocialCallback(r, s, e)
  BY <1>1 DEF PasswordSignup, adminCreateUser, EmailOTPVerify, Callback, SocialCallback
<1>2. CASE \E i \in Live : \/ SetPassword(r, i)
                           \/ \E purpose \in {"login", "reset"} : MailRequest(r, i, purpose)
                           \/ \E e \in Emails : AccountChangeEmailRequest(r, i, e)
                           \/ PasswordLogin(r, i) \/ WebauthnLoginFinish(r, i)
  BY <1>2 DEF SetPassword, MailRequest, AccountChangeEmailRequest, PasswordLogin,
              WebauthnLoginFinish
<1>3. CASE \E t \in Tokens : \/ \E purpose \in {"login", "change"} : RedeemToken(r, t, purpose)
                             \/ PasswordResetPeek(r, t)
  BY <1>3 DEF RedeemToken, PasswordResetPeek
<1>. QED
  BY <1>1, <1>2, <1>3 DEF Arrive

\* Every handler arrives in one of the ways of Arrived.
LEMMA Arrivals ==
    ASSUME TypeInv, NEW r \in Requests, Arrive(r), NEW y, y = req'[r]
    PROVE  ArrivesAt(r) /\ Arrived(y)
<1>. USE AccountsAssumption DEF creds, mail, history
<1>0. TypeOK /\ Idle \in Request /\ r \in DOMAIN req
  BY IdleType DEF TypeInv, TypeOK
<1>a. /\ UNCHANGED <<users, nextId, creds, session, used, issued>>
      /\ proven \subseteq proven'
      /\ req[r].pc = "idle"
      /\ \A q \in Requests \ {r} : req'[q] = req[q]
  BY ArrivesFrame
<1>. DEFINE Goal == ArrivesAt(r) /\ Arrived(y)
<1>b. ASSUME UNCHANGED tokens, y.pc \notin {"setVerified", "setEmail"} PROVE ArrivesAt(r)
  BY <1>a, <1>b DEF ArrivesAt
<1>1. ASSUME NEW e \in Emails, PasswordSignup(r, e) PROVE Goal
  <2>1. CASE y = [Idle EXCEPT !.pc = "create", !.op = "signup", !.email = e]
    BY <1>b, <1>1, <2>1 DEF PasswordSignup, Idle, Arrived
  <2>2. ASSUME NEW i \in ByEmail(e),
               y = [Idle EXCEPT !.pc = "setPassword", !.op = "signup", !.id = i, !.email = e]
        PROVE  Goal
    BY <1>b, <1>1, <2>2 DEF PasswordSignup, Idle, Arrived, ByEmail
  <2>. QED
    BY <1>0, <1>1, <2>1, <2>2 DEF PasswordSignup, Begin
<1>2. ASSUME NEW e \in Emails, adminCreateUser(r, e) PROVE Goal
  BY <1>0, <1>b, <1>2 DEF adminCreateUser, Begin, Idle, Arrived
<1>3. ASSUME NEW e \in Emails, EmailOTPVerify(r, e) PROVE Goal
  BY <1>0, <1>b, <1>3 DEF EmailOTPVerify, Begin, Idle, Arrived
<1>4. ASSUME NEW e \in Emails, NEW n \in OIDCSubs, Callback(r, n, e) PROVE Goal
  <2>1. PICK ver \in IF UnprovenOIDC THEN BOOLEAN ELSE {TRUE} :
          /\ req' = [req EXCEPT ![r] =
                       [Idle EXCEPT !.pc = "upsert", !.op = "oidc", !.email = e,
                                    !.ver = ver, !.sub = [kind |-> "oidc", n |-> n]]]
          /\ proven' = IF ver THEN proven \cup {<<[kind |-> "oidc", n |-> n], e>>} ELSE proven
    BY <1>4 DEF Callback, Begin
  <2>2. /\ y.pc = "upsert" /\ y.op = "oidc" /\ y.email = e /\ y.ver = ver /\ y.id = 0
        /\ y.sub = [kind |-> "oidc", n |-> n] /\ y.row = None
    BY <1>0, <2>1 DEF Idle
  <2>3. UNCHANGED tokens
    BY <1>4 DEF Callback
  <2>4. ASSUME ~UnprovenOIDC PROVE y.ver /\ <<y.sub, y.email>> \in proven'
    <3>1. ver = TRUE
      BY <2>1, <2>4
    <3>2. <<[kind |-> "oidc", n |-> n], e>> \in proven'
      BY <2>1, <3>1
    <3>. QED
      BY <2>2, <3>1, <3>2
  <2>. QED
    BY <1>b, <2>2, <2>3, <2>4 DEF Arrived
<1>5. ASSUME NEW e \in Emails, NEW s \in Socials, SocialCallback(r, s, e) PROVE Goal
  <2>0. UNCHANGED tokens
    BY <1>5 DEF SocialCallback
  <2>1. ASSUME links[s] \in Live,
               y = [As(links[s], Idle) EXCEPT !.pc = "upsert", !.op = "social"]
        PROVE  Goal
    <3>. DEFINE x == As(links[s], Idle)
    <3>1. x \in Request /\ Reads(x, links[s]) /\ x.row = None
      BY <1>0, <2>1, AsType DEF Reads, Idle
    <3>2. y = [x EXCEPT !.pc = "upsert", !.op = "social"]
      BY <2>1
    <3>. HIDE DEF x
    <3>3. y.pc = "upsert" /\ y.op = "social" /\ Reads(y, links[s]) /\ y.row = None
      BY <3>1, <3>2 DEF Reads, Request
    <3>. QED
      BY <1>b, <2>0, <3>3 DEF Arrived
  <2>2. ASSUME y = [Idle EXCEPT !.pc = "byEmail", !.op = "social", !.soc = s, !.email = e]
        PROVE  Goal
    BY <1>b, <2>0, <2>2 DEF Idle, Arrived
  <2>. QED
    BY <1>0, <1>5, <2>1, <2>2 DEF SocialCallback, Begin
<1>6. ASSUME NEW i \in Live, SetPassword(r, i) PROVE Goal
  BY <1>0, <1>b, <1>6 DEF SetPassword, Begin, Idle, Arrived
<1>7. ASSUME NEW i \in Live, NEW purpose \in {"login", "reset"}, MailRequest(r, i, purpose)
      PROVE  Goal
  BY <1>0, <1>b, <1>7 DEF MailRequest, Begin, Idle, Arrived
<1>8. ASSUME NEW i \in Live, NEW e \in Emails, AccountChangeEmailRequest(r, i, e)
      PROVE  Goal
  BY <1>0, <1>b, <1>8 DEF AccountChangeEmailRequest, Begin, Idle, Arrived
<1>9. ASSUME NEW i \in Live, PasswordLogin(r, i) PROVE Goal
  <2>. DEFINE x == As(i, Idle)
              gate == ~users[i].blocked /\ users[i].verified
              stale == StaleCost /\ password[i] = 1
  <2>1. x \in Request /\ Reads(x, i) /\ x.row = None
    BY <1>0, AsType DEF Reads, Idle
  <2>2. /\ y = [x EXCEPT !.op = "login", !.pw = password[i], !.halt = ~gate,
                         !.pc = IF stale THEN "rehash" ELSE "upsert"]
        /\ stale \/ gate
        /\ UNCHANGED tokens
    BY <1>0, <1>9 DEF PasswordLogin, Begin
  <2>. HIDE DEF x
  <2>3. /\ y.op = "login" /\ y.pw = password[i] /\ y.halt = ~gate
        /\ y.pc = (IF stale THEN "rehash" ELSE "upsert")
        /\ Reads(y, i) /\ y.row = None
    <3>. DEFINE h == ~gate
                pc == IF stale THEN "rehash" ELSE "upsert"
    <3>1. y = [x EXCEPT !.op = "login", !.pw = password[i], !.halt = h, !.pc = pc]
      BY <2>2
    <3>. HIDE DEF h, pc
    <3>2. /\ y.op = "login" /\ y.pw = password[i] /\ y.halt = h /\ y.pc = pc
          /\ Reads(y, i) /\ y.row = None
      BY <2>1, <3>1 DEF Reads, Request
    <3>. QED
      BY <3>2 DEF h, pc
  <2>4. y.pw > 0
    BY <1>9, <2>3 DEF PasswordLogin
  <2>. QED
    BY <1>b, <2>2, <2>3, <2>4 DEF Arrived
<1>10. ASSUME NEW i \in Live, WebauthnLoginFinish(r, i) PROVE Goal
  <2>. DEFINE x == As(i, Idle)
  <2>1. x \in Request /\ Reads(x, i) /\ x.row = None
    BY <1>0, AsType DEF Reads, Idle
  <2>2. y = [x EXCEPT !.pc = "upsert", !.op = "login"] /\ passkeys[i] > 0 /\ UNCHANGED tokens
    BY <1>0, <1>10 DEF WebauthnLoginFinish, Begin
  <2>. HIDE DEF x
  <2>3. y.op = "login" /\ y.pc = "upsert" /\ Reads(y, i) /\ y.row = None
    BY <2>1, <2>2 DEF Reads, Request
  <2>. QED
    BY <1>b, <2>2, <2>3 DEF Arrived
<1>11. ASSUME NEW t \in Tokens, NEW purpose \in {"login", "change"}, RedeemToken(r, t, purpose)
       PROVE  Goal
  <2>0. tokens[t] # None /\ tokens[t].purpose = purpose /\ ~tokens[t].consumed
    BY <1>11 DEF RedeemToken, ConsumeToken, Valid
  <2>1. /\ y.pc = IF purpose = "login" THEN "setVerified" ELSE "setEmail"
        /\ y.op = IF purpose = "login" THEN "redeem" ELSE "change"
        /\ Carried(y, t) /\ y.row = None
    BY <1>0, <1>11, <2>0 DEF RedeemToken, Begin, Idle, Carried
  <2>2. tokens' = [tokens EXCEPT ![t] = [@ EXCEPT !.consumed = TRUE]]
    BY <1>11 DEF RedeemToken, ConsumeToken
  <2>3. tokens[t] \in Token /\ y.tok = t
    BY <1>0, <2>0, <2>1 DEF TypeOK, Carried
  <2>4. tokens'[t].consumed
    BY <1>0, <2>2, <2>3 DEF TypeOK, Token
  <2>5. ArrivesAt(r)
    BY <1>a, <2>1, <2>2, <2>3, <2>4 DEF ArrivesAt
  <2>. QED
    BY <2>0, <2>1, <2>5 DEF Arrived
<1>12. ASSUME NEW t \in Tokens, PasswordResetPeek(r, t) PROVE Goal
  <2>0. /\ tokens[t] # None /\ tokens[t].purpose = "reset" /\ ~tokens[t].consumed
        /\ UNCHANGED tokens
    BY <1>12 DEF PasswordResetPeek, Valid
  <2>1. y.pc = "consume" /\ y.op = "reset" /\ Carried(y, t) /\ y.row = None
    BY <1>0, <1>12, <2>0 DEF PasswordResetPeek, Begin, Idle, Carried
  <2>. QED
    BY <1>b, <2>0, <2>1 DEF Arrived
<1>. QED
  BY <1>1, <1>2, <1>3, <1>4, <1>5, <1>6, <1>7, <1>8, <1>9, <1>10, <1>11, <1>12 DEF Arrive

-----------------------------------------------------------------------------
(* How a request goes on *)

\* All but the place in the handler is kept.
Same(x, y) ==
    /\ y.id = x.id /\ y.sub = x.sub /\ y.email = x.email /\ y.ver = x.ver
    /\ y.tok = x.tok /\ y.purpose = x.purpose /\ y.op = x.op /\ y.row = x.row
    /\ y.halt = x.halt /\ y.pw = x.pw

\* The places a handler passes through with its local variables unchanged.
Passes(x, y) ==
    \/ x.pc = "setPassword" /\ x.op = "signup" /\ y.pc = "token"
    \/ x.pc = "setPassword" /\ x.op \in {"reset", "admin"} /\ y.pc = "setVerified"
    \/ x.pc = "consume" /\ y.pc = "setPassword" /\ ConsumeToken(x.tok, "reset")
    \/ x.pc = "setVerified" /\ x.op = "redeem" /\ y.pc = "lookup"
    \/ x.pc = "setVerified" /\ x.op \in {"otp", "new"} /\ y.pc = "upsert"
    \/ x.pc = "rehash" /\ ~x.halt /\ y.pc = "upsert"
    \/ x.pc = "byEmail" /\ x.op = "social" /\ y.pc = "create"
    \/ x.pc = "link" /\ x.op = "new" /\ y.pc = "setVerified"
    \/ x.pc = "link" /\ x.op # "new" /\ y.pc = "upsert"

\* What a handler makes of its local variables in a store call.
Stepped(x, y) ==
    \/ y = Idle
    \/ Same(x, y) /\ Passes(x, y)
    \/ /\ x.pc = "create" /\ y.row = x.row /\ y.email = x.email /\ y.tok = x.tok
       /\ y.purpose = x.purpose
       /\ y.id = nextId' /\ y.sub = local(nextId') /\ y.ver
       /\ users'[nextId'] = NewRow(y.sub, y.email, FALSE) /\ nextId' = nextId + 1
       /\ \/ x.op \in {"signup", "admin"} /\ y.op = x.op
             /\ y.pc \in {"setPassword", "setVerified"}
          \/ y.op = "new" /\ y.pc = "link" /\ <<y.sub, y.email>> \in proven'
    \/ /\ x.pc = "lookup" /\ y.row = x.row /\ y.tok = x.tok /\ y.op = x.op
       /\ \E i \in ByEmail(x.email) : Reads(y, i)
       /\ <<y.sub, y.email>> \in proven'
       /\ y.pc = IF x.op = "otp" THEN "setVerified" ELSE "upsert"
    \/ /\ x.pc = "byEmail" /\ y.row = x.row /\ y.pc = "link" /\ y.op = x.op
       /\ \E i \in ByEmail(x.email) : Reads(y, i)
       /\ <<y.sub, y.email>> \in proven'
    \/ /\ x.pc = "byEmail" /\ y.row = x.row /\ y.pc = "upsert" /\ y.op = "reclaim"
       /\ y.id = x.id /\ y.email = x.email /\ y.sub.kind = "social" /\ y.ver
       /\ <<y.sub, y.email>> \in proven'
    \/ /\ x.pc \in {"upsert", "save"} /\ x.op = "reclaim" /\ y.pc = "link" /\ y.op = "social"
       /\ y.sub = x.sub /\ y.email = x.email /\ y.ver = x.ver /\ y.row = x.row
       /\ y.id \in Ids /\ users'[y.id] # None
       /\ \/ x.pc = "upsert" /\ Upserted(x.sub, x.email, x.ver, y.id)
          \/ x.pc = "save" /\ y.id = x.id /\ users'[y.id] = x.row
    \/ /\ x.pc = "upsert" /\ y.pc = "save" /\ SQL
       /\ y.sub = x.sub /\ y.email = x.email /\ y.ver = x.ver /\ y.op = x.op
       /\ y.tok = x.tok /\ y.id \in Live /\ UNCHANGED <<users, nextId>>
       /\ y.row.sub = x.sub /\ y.row.email = x.email
       /\ x.ver => y.row.verified

\* Goto keeps the local variables.
LEMMA GotoSame ==
    ASSUME TypeInv, NEW r \in Requests, NEW pc, Goto(r, pc)
    PROVE  Same(req[r], req'[r]) /\ req'[r].pc = pc
BY DEF Goto, Same, TypeInv, TypeOK, Request

\* The end of a login clears the slot, unless a reclaimed row is to be linked.
LEMMA GrantedSlot ==
    ASSUME TypeInv, NEW r \in Requests, NEW i, Granted(r, i)
    PROVE  \/ req'[r] = Idle
           \/ /\ req[r].op = "reclaim" /\ req'[r].pc = "link" /\ req'[r].op = "social"
              /\ req'[r].id = i /\ req'[r].sub = req[r].sub /\ req'[r].email = req[r].email
              /\ req'[r].ver = req[r].ver /\ req'[r].row = req[r].row
<1>0. req[r] \in Request /\ r \in DOMAIN req
  BY DEF TypeInv, TypeOK
<1>1. CASE req[r].op = "reclaim"
  <2>. DEFINE h == users'[i].blocked
  <2>1. req' = [req EXCEPT ![r].pc = "link", ![r].op = "social", ![r].id = i, ![r].halt = h]
    BY <1>1 DEF Granted
  <2>. HIDE DEF h
  <2>. QED
    BY <1>0, <1>1, <2>1 DEF Request
<1>2. CASE req[r].op # "reclaim"
  BY <1>0, <1>2 DEF Granted, Finish
<1>. QED
  BY <1>1, <1>2

\* Every store call moves its request in one of the ways of Stepped and leaves
\* the other requests alone.
LEMMA StepMoves ==
    ASSUME TypeInv, NEW r \in Requests, Step(r), NEW x, x = req[r], NEW y, y = req'[r]
    PROVE  Stepped(x, y) /\ \A q \in Requests \ {r} : req'[q] = req[q]
<1>. USE AccountsAssumption
<1>0. TypeOK /\ x \in Request /\ WellFormed(x) /\ r \in DOMAIN req
  BY DEF TypeInv, TypeOK
<1>a. \A q \in Requests \ {r} : req'[q] = req[q]
  <2>1. ASSUME NEW i, Granted(r, i) PROVE \A q \in Requests \ {r} : req'[q] = req[q]
    BY <1>0, <2>1 DEF Granted, Finish, TypeOK
  <2>2. CASE UpsertUserOnLogin(r)
    BY <1>0, <2>1, <2>2 DEF UpsertUserOnLogin, Finish, TypeOK
  <2>3. CASE Save(r)
    BY <1>0, <2>1, <2>3 DEF Save, Finish, TypeOK
  <2>4. CASE CreateLocalUser(r)
    BY <1>0, <2>4 DEF CreateLocalUser, Finish, TypeOK
  <2>5. CASE ~UpsertUserOnLogin(r) /\ ~Save(r) /\ ~CreateLocalUser(r)
    BY <1>0, <2>5 DEF Step, SetPasswordHash, CreateToken, PasswordResetConsume,
       SetEmailVerified, LookupByEmail, EmailChangeConfirm, Rehash, SocialByEmail, LinkOAuth,
       Finish, Goto, TypeOK
  <2>. QED
    BY <2>2, <2>3, <2>4, <2>5
<1>b. ASSUME Finish(r) PROVE Stepped(x, y)
  BY <1>0, <1>b DEF Finish, Stepped
<1>c. ASSUME NEW pc, Goto(r, pc), y.pc = pc => Passes(x, y) PROVE Stepped(x, y)
  BY <1>c, GotoSame DEF Stepped
<1>1. ASSUME CreateLocalUser(r) PROVE Stepped(x, y)
  <2>1. CASE Finish(r)
    BY <1>b, <2>1
  <2>2. CASE ~Finish(r)
    <3>0. x.pc = "create" /\ x.op \in {"signup", "admin", "social"}
      BY <1>0, <1>1 DEF CreateLocalUser, WellFormed
    <3>1. CreateRow(local(nextId + 1), x.email, FALSE)
      BY <1>1, <2>2 DEF CreateLocalUser
    <3>2. nextId' = nextId + 1 /\ nextId' \in Ids
      BY <1>0, <3>1 DEF CreateRow, TypeOK, Ids
    <3>3. users'[nextId'] = NewRow(local(nextId'), x.email, FALSE)
      BY <1>0, <3>1, <3>2 DEF CreateRow, TypeOK
    <3>4. PICK pc \in CASE x.op = "signup" -> {"setPassword"}
                        [] x.op = "admin" -> {"setPassword", "setVerified"}
                        [] x.op = "social" -> {"link"} :
            req' = [req EXCEPT ![r].pc = pc, ![r].id = nextId',
                               ![r].sub = local(nextId'), ![r].ver = TRUE,
                               ![r].op = IF @ = "social" THEN "new" ELSE @]
      BY <1>1, <2>2 DEF CreateLocalUser
    <3>5. /\ y.pc = pc /\ y.id = nextId' /\ y.sub = local(nextId') /\ y.ver
          /\ y.op = (IF x.op = "social" THEN "new" ELSE x.op)
          /\ y.row = x.row /\ y.email = x.email /\ y.tok = x.tok /\ y.purpose = x.purpose
      BY <1>0, <3>4 DEF Request
    <3>6. \/ x.op \in {"signup", "admin"} /\ pc \in {"setPassword", "setVerified"}
          \/ x.op = "social" /\ pc = "link"
      BY <3>0, <3>4
    <3>7. x.op = "social" => <<local(nextId'), x.email>> \in proven'
      BY <1>1, <2>2 DEF CreateLocalUser
    <3>. QED
      BY <3>0, <3>2, <3>3, <3>5, <3>6, <3>7 DEF Stepped
  <2>. QED
    BY <2>1, <2>2
<1>2. ASSUME SetPasswordHash(r) PROVE Stepped(x, y)
  BY <1>b, <1>c, <1>2 DEF SetPasswordHash, Passes
<1>3. ASSUME CreateToken(r) PROVE Stepped(x, y)
  BY <1>b, <1>3 DEF CreateToken
<1>4. ASSUME PasswordResetConsume(r) PROVE Stepped(x, y)
  BY <1>b, <1>c, <1>4 DEF PasswordResetConsume, Passes
<1>5. ASSUME SetEmailVerified(r) PROVE Stepped(x, y)
  BY <1>b, <1>c, <1>5 DEF SetEmailVerified, Passes
<1>6. ASSUME LookupByEmail(r) PROVE Stepped(x, y)
  <2>1. CASE Finish(r)
    BY <1>b, <2>1
  <2>2. CASE ~Finish(r)
    <3>1. PICK i \in ByEmail(x.email) :
            /\ req' = [req EXCEPT ![r] =
                          [As(i, @) EXCEPT !.pc = IF req[r].op = "otp" THEN "setVerified"
                                                                       ELSE "upsert"]]
            /\ proven' = proven \cup {<<users[i].sub, x.email>>}
      BY <1>6, <2>2 DEF LookupByEmail
    <3>. DEFINE z == As(i, x)
                pc == IF x.op = "otp" THEN "setVerified" ELSE "upsert"
    <3>2. z \in Request /\ Reads(z, i) /\ z.row = x.row /\ z.tok = x.tok /\ z.op = x.op
      BY <1>0, AsType DEF Reads, ByEmail
    <3>3. y = [z EXCEPT !.pc = pc]
      BY <1>0, <3>1
    <3>4. users[i].email = x.email
      BY DEF ByEmail
    <3>. HIDE DEF z, pc
    <3>5. Reads(y, i) /\ y.row = x.row /\ y.tok = x.tok /\ y.op = x.op /\ y.pc = pc
      BY <3>2, <3>3 DEF Reads, Request
    <3>6. <<y.sub, y.email>> \in proven'
      BY <3>1, <3>4, <3>5 DEF Reads
    <3>. QED
      BY <1>6, <3>5, <3>6 DEF LookupByEmail, Stepped, pc
  <2>. QED
    BY <2>1, <2>2
<1>7. ASSUME EmailChangeConfirm(r) PROVE Stepped(x, y)
  BY <1>b, <1>7 DEF EmailChangeConfirm
<1>8. ASSUME Rehash(r) PROVE Stepped(x, y)
  BY <1>b, <1>c, <1>8 DEF Rehash, Passes
<1>9. ASSUME SocialByEmail(r) PROVE Stepped(x, y)
  <2>0. x.pc = "byEmail" /\ x.op = "social"
    BY <1>0, <1>9 DEF SocialByEmail, WellFormed
  <2>1. CASE Finish(r)
    BY <1>b, <2>1
  <2>2. CASE Goto(r, "create")
    BY <1>c, <2>0, <2>2 DEF Passes
  <2>3. ASSUME NEW i \in ByEmail(x.email),
               req' = [req EXCEPT ![r] = [As(i, @) EXCEPT !.pc = "link",
                                                          !.halt = users[i].blocked]],
               proven' = proven \cup {<<users[i].sub, x.email>>}
        PROVE  Stepped(x, y)
    <3>. DEFINE z == As(i, x)
                h == users[i].blocked
    <3>1. z \in Request /\ Reads(z, i) /\ z.row = x.row /\ z.op = x.op
      BY <1>0, AsType DEF Reads, ByEmail
    <3>2. y = [z EXCEPT !.pc = "link", !.halt = h]
      BY <1>0, <2>3
    <3>3. users[i].email = x.email
      BY DEF ByEmail
    <3>. HIDE DEF z, h
    <3>4. Reads(y, i) /\ y.row = x.row /\ y.op = x.op /\ y.pc = "link"
      BY <3>1, <3>2 DEF Reads, Request
    <3>5. <<y.sub, y.email>> \in proven'
      BY <2>3, <3>3, <3>4 DEF Reads
    <3>. QED
      BY <2>0, <3>4, <3>5 DEF Stepped
  <2>4. ASSUME NEW sub, sub.kind = "social",
               req' = [req EXCEPT ![r].pc = "upsert", ![r].op = "reclaim",
                                  ![r].ver = TRUE, ![r].sub = sub],
               proven' = proven \cup {<<sub, x.email>>}
        PROVE  Stepped(x, y)
    <3>1. /\ y.pc = "upsert" /\ y.op = "reclaim" /\ y.ver /\ y.sub = sub
          /\ y.row = x.row /\ y.id = x.id /\ y.email = x.email
      BY <1>0, <2>4 DEF Request
    <3>. QED
      BY <2>0, <2>4, <3>1 DEF Stepped
  <2>5. [kind |-> "social", n |-> x.soc].kind = "social"
    OBVIOUS
  <2>. QED
    BY <1>9, <2>1, <2>2, <2>3, <2>4, <2>5, Zenon DEF SocialByEmail
<1>10. ASSUME LinkOAuth(r) PROVE Stepped(x, y)
  BY <1>b, <1>c, <1>10 DEF LinkOAuth, Passes
<1>11. ASSUME UpsertUserOnLogin(r) PROVE Stepped(x, y)
  <2>0. x.pc = "upsert" /\ x.sub \in Sub /\ x.email \in Emails /\ x.ver \in BOOLEAN
    BY <1>0, <1>11 DEF UpsertUserOnLogin, WellFormed, Request
  <2>1. ASSUME NEW i \in Ids, Upserted(x.sub, x.email, x.ver, i), Granted(r, i)
        PROVE  Stepped(x, y)
    <3>1. users'[i] # None
      BY <1>0, <2>0, <2>1, UpsertedRow
    <3>. QED
      BY <2>0, <2>1, <3>1, GrantedSlot DEF Stepped
  <2>2. ASSUME NEW i \in Live, NEW row, SQL, UNCHANGED <<users, nextId>>,
               req' = [req EXCEPT ![r].pc = "save", ![r].id = i, ![r].row = row],
               row.sub = x.sub, row.email = x.email, x.ver => row.verified
        PROVE  Stepped(x, y)
    <3>1. /\ y.pc = "save" /\ y.id = i /\ y.row = row /\ y.sub = x.sub
          /\ y.email = x.email /\ y.ver = x.ver /\ y.op = x.op /\ y.tok = x.tok
      BY <1>0, <2>2 DEF Request
    <3>. QED
      BY <2>0, <2>2, <3>1 DEF Stepped
  <2>3. ASSUME NEW i \in BySub(x.sub), SQL, UNCHANGED <<users, nextId>>,
               req' = [req EXCEPT ![r].pc = "save", ![r].id = i,
                  ![r].row = [users[i] EXCEPT !.email = x.email, !.verified = @ \/ x.ver]]
        PROVE  Stepped(x, y)
    <3>1. i \in Live /\ users[i] \in Row /\ users[i].sub = x.sub
      BY <1>0 DEF BySub, Live, TypeOK
    <3>. DEFINE row == [users[i] EXCEPT !.email = x.email, !.verified = @ \/ x.ver]
    <3>2. row.sub = x.sub /\ row.email = x.email /\ (x.ver => row.verified)
      BY <3>1 DEF Row
    <3>3. req' = [req EXCEPT ![r].pc = "save", ![r].id = i, ![r].row = row]
      BY <2>3
    <3>. HIDE DEF row
    <3>. QED
      BY <2>2, <2>3, <3>1, <3>2, <3>3
  <2>4. ASSUME NEW i \in ByEmail(x.email), SQL, UNCHANGED <<users, nextId>>,
               req' = [req EXCEPT ![r].pc = "save", ![r].id = i,
                  ![r].row = [users[i] EXCEPT !.sub = x.sub, !.verified = @ \/ x.ver]]
        PROVE  Stepped(x, y)
    <3>1. i \in Live /\ users[i] \in Row /\ users[i].email = x.email
      BY <1>0 DEF ByEmail, Live, TypeOK
    <3>. DEFINE row == [users[i] EXCEPT !.sub = x.sub, !.verified = @ \/ x.ver]
    <3>2. row.sub = x.sub /\ row.email = x.email /\ (x.ver => row.verified)
      BY <3>1 DEF Row
    <3>3. req' = [req EXCEPT ![r].pc = "save", ![r].id = i, ![r].row = row]
      BY <2>4
    <3>. HIDE DEF row
    <3>. QED
      BY <2>2, <2>4, <3>1, <3>2, <3>3
  <2>. QED
    BY <1>b, <1>11, <2>1, <2>3, <2>4, Zenon DEF UpsertUserOnLogin
<1>12. ASSUME Save(r) PROVE Stepped(x, y)
  <2>0. x.pc = "save" /\ x.id \in Ids /\ x.row # None
    BY <1>0, <1>12 DEF Save, WellFormed
  <2>1. CASE Finish(r)
    BY <1>b, <2>1
  <2>2. CASE users' = [users EXCEPT ![x.id] = x.row] /\ Granted(r, x.id)
    <3>1. users'[x.id] = x.row
      BY <1>0, <2>0, <2>2 DEF TypeOK
    <3>. QED
      BY <2>0, <2>2, <3>1, GrantedSlot DEF Stepped
  <2>. QED
    BY <1>12, <2>1, <2>2 DEF Save
<1>. QED
  BY <1>a, <1>1, <1>2, <1>3, <1>4, <1>5, <1>6, <1>7, <1>8, <1>9, <1>10, <1>11, <1>12 DEF Step

-----------------------------------------------------------------------------
(* What a step does to the store *)

\* The cascade only takes things away.
LEMMA CascadeLoses ==
    ASSUME TypeOK, NEW i, CascadeCreds(i)
    PROVE  /\ \A j \in Ids : passkeys'[j] = passkeys[j] \/ passkeys'[j] = 0
           /\ \A s \in Socials : links'[s] = links[s] \/ links'[s] = 0
           /\ \A t \in Tokens : tokens'[t] = tokens[t] \/ tokens'[t] = None
BY DEF CascadeCreds, TypeOK

\* Passkeys, identities and links of UpsertUserOnLogin are kept or gone.
LEMMA UpsertLoses ==
    ASSUME TypeOK, NEW sub, NEW e, NEW ver, NEW i \in Ids, Upserted(sub, e, ver, i)
    PROVE  /\ \A j \in Ids : passkeys'[j] = passkeys[j] \/ passkeys'[j] = 0
           /\ \A s \in Socials : links'[s] = links[s] \/ links'[s] = 0
           /\ \A t \in Tokens : tokens'[t] = tokens[t] \/ tokens'[t] = None
           /\ nextId <= nextId'
<1>1. CASE UNCHANGED <<creds, mail>> /\ nextId <= nextId'
  BY <1>1 DEF creds, mail
<1>2. ASSUME NEW j, Reclaim(j, sub, e) PROVE nextId <= nextId'
  BY <1>2 DEF Reclaim, TypeOK
<1>3. CASE \E j \in ByEmail(e) : Reclaim(j, sub, e)
  BY <1>2, <1>3, CascadeLoses DEF Reclaim
<1>4. ASSUME CreateRow(sub, e, ver) PROVE nextId <= nextId'
  BY <1>4 DEF CreateRow, TypeOK
<1>5. nextId <= nextId
  BY DEF TypeOK
<1>. QED
  BY <1>1, <1>3, <1>4, <1>5 DEF Upserted, creds, mail

\* A key, an identity, a link or a session that is there after a step was there
\* before it, or comes from the row and the request that the step is about.
Kept ==
    /\ nextId <= nextId'
    /\ proven \subseteq proven'
    /\ \A i \in Ids :
          passkeys'[i] > 0 => \/ passkeys[i] > 0
                              \/ i \in Live /\ users[i].sub \in session /\ users' = users
    /\ \A s \in Socials : \/ links'[s] = links[s] \/ links'[s] = 0
                          \/ \E r \in Requests : req[r].pc = "link" /\ links'[s] = req[r].id
    /\ \A t \in Tokens :
          tokens'[t] # None =>
              \/ /\ tokens[t] # None /\ tokens'[t].id = tokens[t].id
                 /\ tokens'[t].email = tokens[t].email /\ tokens'[t].purpose = tokens[t].purpose
              \/ \E r \in Requests :
                    /\ req[r].pc = "token" /\ tokens'[t].id = req[r].id
                    /\ tokens'[t].email = req[r].email /\ tokens'[t].purpose = req[r].purpose
    /\ \A sub \in session' :
          \/ sub \in session
          \/ \E r \in Requests : req[r].pc \in {"upsert", "save"} /\ sub = req[r].sub

\* Granted adds the subject of the request, and nothing else.
LEMMA GrantedSession ==
    ASSUME NEW r \in Requests, NEW i, Granted(r, i), req[r].pc \in {"upsert", "save"}
    PROVE  \A sub \in session' :
              \/ sub \in session
              \/ \E q \in Requests : req[q].pc \in {"upsert", "save"} /\ sub = req[q].sub
BY DEF Granted

\* A link that is consumed keeps the rest of its record.
LEMMA ConsumedKeeps ==
    ASSUME TypeOK, NEW t, tokens' = [tokens EXCEPT ![t] = [@ EXCEPT !.consumed = TRUE]],
           NEW u \in Tokens, tokens'[u] # None, t \in Tokens, tokens[t] # None
    PROVE  /\ tokens[u] # None /\ tokens'[u].id = tokens[u].id
           /\ tokens'[u].email = tokens[u].email /\ tokens'[u].purpose = tokens[u].purpose
<1>1. tokens[t] \in Token
  BY DEF TypeOK
<1>2. CASE u = t
  BY <1>1, <1>2 DEF TypeOK, Token
<1>3. CASE u # t
  BY <1>3 DEF TypeOK
<1>. QED
  BY <1>2, <1>3

\* Kept holds of every step of a request.
LEMMA StepKept ==
    ASSUME TypeInv, NEW r \in Requests, Step(r)
    PROVE  Kept
<1>. USE AccountsAssumption DEF creds, mail, history
<1>0. TypeOK /\ req[r] \in Request /\ nextId <= nextId
  BY DEF TypeInv, TypeOK
<1>1. CASE CreateLocalUser(r)
  <2>1. nextId <= nextId'
    <3>1. nextId' = nextId \/ nextId' = nextId + 1
      BY <1>1, Zenon DEF CreateLocalUser, CreateRow
    <3>. QED
      BY <1>0, <3>1 DEF TypeOK
  <2>2. proven \subseteq proven' /\ UNCHANGED <<creds, mail, session>>
    BY <1>1 DEF CreateLocalUser
  <2>. QED
    BY <2>1, <2>2 DEF Kept
<1>2. CASE SetPasswordHash(r)
  BY <1>0, <1>2 DEF SetPasswordHash, Kept
<1>3. CASE CreateToken(r)
  <2>. DEFINE z == [purpose |-> req[r].purpose, id |-> req[r].id,
                    email |-> req[r].email, consumed |-> FALSE]
  <2>1. tokens' = [tokens EXCEPT ![issued'] = z] /\ req[r].pc = "token"
    BY <1>3 DEF CreateToken
  <2>2. z.purpose = req[r].purpose /\ z.id = req[r].id /\ z.email = req[r].email
    OBVIOUS
  <2>. HIDE DEF z
  <2>3. \A t \in Tokens : tokens'[t] = tokens[t] \/ tokens'[t] = z
    BY <1>0, <2>1 DEF TypeOK
  <2>. QED
    BY <1>0, <1>3, <2>1, <2>2, <2>3 DEF CreateToken, Kept
<1>4. CASE PasswordResetConsume(r)
  <2>0. req[r].tok \in Tokens
    BY <1>4 DEF PasswordResetConsume, TypeInv, WellFormed
  <2>1. CASE UNCHANGED tokens
    BY <1>0, <1>4, <2>1 DEF PasswordResetConsume, Kept
  <2>2. CASE ConsumeToken(req[r].tok, "reset")
    <3>. DEFINE t == req[r].tok
    <3>1. t \in Tokens /\ tokens[t] # None
      BY <2>0, <2>2 DEF ConsumeToken, Valid
    <3>2. tokens' = [tokens EXCEPT ![t] = [@ EXCEPT !.consumed = TRUE]]
      BY <2>2 DEF ConsumeToken
    <3>. HIDE DEF t
    <3>3. \A u \in Tokens : tokens'[u] # None =>
            /\ tokens[u] # None /\ tokens'[u].id = tokens[u].id
            /\ tokens'[u].email = tokens[u].email /\ tokens'[u].purpose = tokens[u].purpose
      BY <1>0, <3>1, <3>2, ConsumedKeeps
    <3>. QED
      BY <1>0, <1>4, <3>3 DEF PasswordResetConsume, Kept
  <2>. QED
    BY <1>4, <2>1, <2>2 DEF PasswordResetConsume
<1>5. CASE SetEmailVerified(r)
  BY <1>0, <1>5 DEF SetEmailVerified, Kept
<1>6. CASE LookupByEmail(r)
  BY <1>0, <1>6 DEF LookupByEmail, Kept
<1>7. CASE EmailChangeConfirm(r)
  BY <1>0, <1>7 DEF EmailChangeConfirm, Kept
<1>8. CASE Rehash(r)
  BY <1>0, <1>8 DEF Rehash, Kept
<1>9. CASE SocialByEmail(r)
  BY <1>0, <1>9 DEF SocialByEmail, Kept
<1>10. CASE LinkOAuth(r)
  <2>1. \A s \in Socials : links'[s] = links[s] \/ links'[s] = req[r].id
    BY <1>0, <1>10 DEF LinkOAuth, TypeOK
  <2>. QED
    BY <1>0, <1>10, <2>1 DEF LinkOAuth, Kept
<1>11. CASE UpsertUserOnLogin(r)
  <2>0. req[r].pc \in {"upsert", "save"} /\ proven \subseteq proven'
    BY <1>11 DEF UpsertUserOnLogin
  <2>1. ASSUME NEW i \in Ids, Upserted(req[r].sub, req[r].email, req[r].ver, i), Granted(r, i)
        PROVE  Kept
    BY <1>0, <2>0, <2>1, UpsertLoses, GrantedSession DEF Kept
  <2>2. CASE UNCHANGED <<users, nextId, creds, mail, session, used>>
    BY <1>0, <2>0, <2>2 DEF Kept
  <2>. QED
    BY <1>11, <2>1, <2>2 DEF UpsertUserOnLogin
<1>12. CASE Save(r)
  <2>0. req[r].pc \in {"upsert", "save"}
    BY <1>12 DEF Save
  <2>1. CASE Granted(r, req[r].id)
    BY <1>0, <1>12, <2>0, <2>1, GrantedSession DEF Save, Kept
  <2>2. CASE UNCHANGED session
    BY <1>0, <1>12, <2>2 DEF Save, Kept
  <2>. QED
    BY <1>12, <2>1, <2>2 DEF Save
<1>. QED
  BY <1>1, <1>2, <1>3, <1>4, <1>5, <1>6, <1>7, <1>8, <1>9, <1>10, <1>11, <1>12 DEF Step

\* The handlers of a single store call that writes.
Direct ==
    \E i \in Live : \/ AddPasskey(i) \/ PasskeyRemove(i) \/ DeleteUser(i)
                    \/ \E s \in Socials : OAuthUnlink(i, s)
                    \/ \E blocked \in BOOLEAN : adminSetBlocked(i, blocked)

\* Kept holds of every step of the system.
LEMMA AllKept ==
    ASSUME TypeInv, [Next]_vars
    PROVE  Kept
<1>. USE AccountsAssumption DEF creds, mail, history
<1>0. TypeOK /\ nextId <= nextId
  BY DEF TypeInv, TypeOK
<1>1. ASSUME NEW r \in Requests, Arrive(r) PROVE Kept
  <2>. DEFINE y == req'[r]
  <2>1. ArrivesAt(r) /\ Arrived(y)
    BY <1>1, Arrivals
  <2>2. CASE UNCHANGED tokens
    BY <1>0, <2>1, <2>2 DEF ArrivesAt, Kept
  <2>3. CASE ~UNCHANGED tokens
    <3>1. y.pc \in {"setVerified", "setEmail"}
      BY <2>1, <2>3 DEF ArrivesAt
    <3>. HIDE DEF y
    <3>2. PICK t \in Tokens : Carried(y, t)
      BY <2>1, <3>1 DEF Arrived
    <3>3. tokens[t] # None /\ y.tok = t
      BY <3>2 DEF Carried
    <3>4. tokens' = [tokens EXCEPT ![t] = [@ EXCEPT !.consumed = TRUE]]
      BY <2>1, <2>3, <3>3 DEF ArrivesAt, y
    <3>5. \A u \in Tokens : tokens'[u] # None =>
            /\ tokens[u] # None /\ tokens'[u].id = tokens[u].id
            /\ tokens'[u].email = tokens[u].email /\ tokens'[u].purpose = tokens[u].purpose
      BY <1>0, <3>3, <3>4, ConsumedKeeps
    <3>. QED
      BY <1>0, <2>1, <3>5 DEF ArrivesAt, Kept
  <2>. QED
    BY <2>2, <2>3
<1>2. ASSUME NEW i \in Live, AddPasskey(i) PROVE Kept
  <2>1. \A j \in Ids : j # i => passkeys'[j] = passkeys[j]
    BY <1>0, <1>2 DEF AddPasskey, TypeOK
  <2>. QED
    BY <1>0, <1>2, <2>1 DEF AddPasskey, Kept
<1>3. ASSUME NEW i \in Live, PasskeyRemove(i) PROVE Kept
  <2>1. \A j \in Ids : passkeys'[j] > 0 => passkeys[j] > 0
    BY <1>0, <1>3 DEF PasskeyRemove, TypeOK
  <2>. QED
    BY <1>0, <1>3, <2>1 DEF PasskeyRemove, Kept
<1>4. ASSUME NEW i \in Live, DeleteUser(i) PROVE Kept
  BY <1>0, <1>4, CascadeLoses DEF DeleteUser, Kept
<1>5. ASSUME NEW i \in Live, NEW s \in Socials, OAuthUnlink(i, s) PROVE Kept
  <2>1. \A z \in Socials : links'[z] = links[z] \/ links'[z] = 0
    BY <1>0, <1>5 DEF OAuthUnlink, TypeOK
  <2>. QED
    BY <1>0, <1>5, <2>1 DEF OAuthUnlink, Kept
<1>6. ASSUME NEW i \in Live, NEW b \in BOOLEAN, adminSetBlocked(i, b) PROVE Kept
  BY <1>0, <1>6 DEF adminSetBlocked, Kept
<1>7. CASE UNCHANGED vars
  BY <1>0, <1>7 DEF vars, Kept
<1>. QED
  BY <1>1, <1>2, <1>3, <1>4, <1>5, <1>6, <1>7, StepKept DEF Next

-----------------------------------------------------------------------------
(* One row per address and per subject *)

\* The subject that CreateLocalUser is about to make up, and the key it takes,
\* are named nowhere yet.
Known(sub, n) == sub.kind = "local" => sub.n <= n

ReqFresh(x, n) ==
    /\ x.id <= n
    /\ Known(x.sub, n)
    /\ x.row # None => Known(x.row.sub, n)

Fresh ==
    /\ \A i \in Live : i <= nextId /\ Known(users[i].sub, nextId)
    /\ \A sub \in session : Known(sub, nextId)
    /\ \A i \in Ids : passkeys[i] > 0 => i <= nextId
    /\ \A s \in Socials : links[s] <= nextId
    /\ \A t \in Tokens : tokens[t] # None => tokens[t].id <= nextId
    /\ \A r \in Requests : ReqFresh(req[r], nextId)

OneInv == TypeInv /\ Fresh /\ OneRowPerEmail

\* Every row but i is left alone or gone.
Only(i) == \A j \in Ids \ {i} : users'[j] = users[j] \/ users'[j] = None

\* No other row has the address or the subject that row i has now.
Alone(i) ==
    \A j \in Live \ {i} :
        users'[j] # None => /\ users[j].email # users'[i].email
                            /\ users[j].sub # users'[i].sub

\* A step writes one row: it is gone, it keeps its address and its subject, or no
\* other row has its new ones; its key has been handed out.
Writes(i) ==
    /\ i \in Ids
    /\ Only(i)
    /\ \/ users'[i] = None
       \/ /\ i \in Live /\ users'[i].email = users[i].email /\ users'[i].sub = users[i].sub
       \/ /\ Alone(i) /\ i <= nextId' /\ users'[i] # None
          /\ Known(users'[i].sub, nextId')

\* Such a write keeps the rows apart.
LEMMA WritesApart ==
    ASSUME OneInv, TypeInv', nextId <= nextId', NEW i, Writes(i)
    PROVE  OneRowPerEmail' /\ \A j \in Live' : j <= nextId' /\ Known(users'[j].sub, nextId')
<1>0. TypeOK /\ TypeOK' /\ OneRowPerEmail /\ nextId \in Int /\ nextId' \in Int /\ i \in Ids
  BY DEF OneInv, TypeInv, TypeOK, Writes
<1>1. \A j \in Live' : j # i => j \in Live /\ users'[j] = users[j]
  BY DEF Writes, Only, Live
<1>2. \A j \in Live : j <= nextId' /\ Known(users[j].sub, nextId')
  <2>. SUFFICES ASSUME NEW j \in Live PROVE j <= nextId' /\ Known(users[j].sub, nextId')
    OBVIOUS
  <2>1. j \in Int /\ users[j] \in Row
    BY <1>0, AccountsAssumption DEF Live, Ids, TypeOK
  <2>2. users[j].sub.n \in Int
    BY <2>1 DEF Row, Sub
  <2>3. j <= nextId /\ Known(users[j].sub, nextId)
    BY DEF OneInv, Fresh
  <2>. QED
    BY <1>0, <2>1, <2>2, <2>3 DEF Known
<1>3. i \in Live' => i <= nextId' /\ Known(users'[i].sub, nextId')
  BY <1>2 DEF Writes, Live
<1>4. ASSUME NEW j \in Live', NEW k \in Live',
             users'[j].email = users'[k].email \/ users'[j].sub = users'[k].sub
      PROVE  j = k
  <2>1. CASE j # i /\ k # i
    BY <1>0, <1>1, <1>4, <2>1 DEF OneRowPerEmail
  <2>2. ASSUME NEW m \in Live', m # i, i \in Live',
               users'[m].email = users'[i].email \/ users'[m].sub = users'[i].sub
        PROVE  FALSE
    <3>1. m \in Live /\ users'[m] = users[m] /\ users'[m] # None
      BY <1>1, <2>2 DEF Live
    <3>2. CASE Alone(i)
      BY <2>2, <3>1, <3>2 DEF Alone
    <3>3. CASE i \in Live /\ users'[i].email = users[i].email /\ users'[i].sub = users[i].sub
      BY <1>0, <2>2, <3>1, <3>3 DEF OneRowPerEmail
    <3>. QED
      BY <2>2, <3>2, <3>3 DEF Writes, Live
  <2>. QED
    BY <1>4, <2>1, <2>2
<1>. QED
  BY <1>1, <1>2, <1>3, <1>4 DEF OneRowPerEmail

\* A write that leaves address and subject of row i alone, or removes it.
LEMMA WritesSame ==
    ASSUME TypeOK, NEW i \in Live, NEW w, w # None => w.email = users[i].email /\ w.sub = users[i].sub,
           users' = [users EXCEPT ![i] = w]
    PROVE  Writes(i)
BY DEF Writes, Only, Live, TypeOK

\* No write at all.
LEMMA WritesNone ==
    ASSUME TypeOK, users' = users
    PROVE  Writes(1)
BY AccountsAssumption DEF Writes, Only, Live, Ids, TypeOK

\* CreateRow, for an address and a subject that no row has.
LEMMA WritesNew ==
    ASSUME OneInv, NEW sub \in Sub, NEW e \in Emails, NEW ver \in BOOLEAN, BySub(sub) = {},
           ByEmail(e) = {}, CreateRow(sub, e, ver), Known(sub, nextId + 1)
    PROVE  Writes(nextId + 1)
<1>0. TypeOK
  BY DEF OneInv, TypeInv
<1>1. nextId' = nextId + 1 /\ nextId' \in Ids /\ nextId' <= nextId'
  BY <1>0, CreateType DEF Ids
<1>. DEFINE w == NewRow(sub, e, ver)
<1>2. w \in Row /\ w.sub = sub /\ w.email = e
  BY DEF NewRow, Row
<1>3. users' = [users EXCEPT ![nextId'] = w]
  BY DEF CreateRow
<1>. HIDE DEF w
<1>4. users'[nextId'] = w /\ Only(nextId')
  BY <1>0, <1>1, <1>3 DEF TypeOK, Only
<1>5. Alone(nextId')
  BY <1>2, <1>4 DEF Alone, BySub, ByEmail
<1>. QED
  BY <1>1, <1>2, <1>4, <1>5, NoneAssumption DEF Writes

\* UpsertUserOnLogin.
LEMMA WritesUpsert ==
    ASSUME OneInv, NEW sub \in Sub, NEW e \in Emails, NEW ver \in BOOLEAN, NEW i \in Ids,
           Upserted(sub, e, ver, i), Known(sub, nextId)
    PROVE  Writes(i)
<1>0. TypeOK /\ OneRowPerEmail /\ nextId \in Int
  BY DEF OneInv, TypeInv, TypeOK
<1>1. users'[i] # None /\ users'[i].sub = sub /\ users'[i].email = e /\ Only(i)
  BY <1>0, UpsertedRow DEF Only
<1>2. sub.n \in Int
  BY DEF Sub
<1>3. ASSUME i \in Live PROVE i <= nextId
  BY <1>3 DEF OneInv, Fresh
<1>4. CASE i \in BySub(sub) /\ UpdateBySub(i, e, ver) /\ UNCHANGED <<nextId, creds, mail>>
  <2>1. Alone(i)
    BY <1>0, <1>1, <1>4 DEF Alone, UpdateBySub, OneRowPerEmail, BySub, ByEmail
  <2>. QED
    BY <1>1, <1>3, <1>4, <2>1 DEF Writes, BySub
<1>5. CASE BySub(sub) = {} /\ i \in ByEmail(e) /\ UNCHANGED <<nextId, creds, mail>>
  <2>1. Alone(i)
    BY <1>0, <1>1, <1>5 DEF Alone, OneRowPerEmail, BySub, ByEmail
  <2>. QED
    BY <1>1, <1>3, <1>5, <2>1 DEF Writes, ByEmail
<1>6. ASSUME BySub(sub) = {}, i = nextId + 1, NEW j \in ByEmail(e), Reclaim(j, sub, e)
      PROVE  Writes(i)
  <2>1. nextId' = i /\ i <= nextId'
    BY <1>0, <1>6 DEF Reclaim
  <2>2. users' = [users EXCEPT ![j] = None, ![i] = NewRow(sub, e, TRUE)]
    BY <1>6, <2>1 DEF Reclaim
  <2>3. j # i => users'[j] = None
    BY <1>0, <2>2 DEF ByEmail, Live, TypeOK
  <2>4. \A k \in Live \ {i} : users'[k] # None => users[k].email # e
    BY <1>0, <2>3 DEF OneRowPerEmail, ByEmail, Live
  <2>5. Alone(i)
    BY <1>1, <1>6, <2>4 DEF Alone, BySub
  <2>. QED
    <3>1. Known(sub, nextId')
      BY <1>0, <1>2, <1>6, <2>1 DEF Known
    <3>. QED
      BY <1>1, <2>1, <2>5, <3>1 DEF Writes
<1>7. CASE BySub(sub) = {} /\ ByEmail(e) = {} /\ i = nextId + 1 /\ CreateRow(sub, e, ver)
  <2>1. Known(sub, nextId + 1)
    BY <1>0, <1>2 DEF Known
  <2>. QED
    BY <1>7, <2>1, WritesNew
<1>. QED
  BY <1>4, <1>5, <1>6, <1>7 DEF Upserted

\* Every step writes at most one row, in one of the ways of Writes.
LEMMA AllWrite ==
    ASSUME OneInv, [Next]_vars
    PROVE  \E i \in Ids : Writes(i)
<1>. USE AccountsAssumption DEF creds, mail, history
<1>0. TypeInv /\ TypeOK /\ OneRowPerEmail /\ Fresh /\ nextId \in Int
  BY DEF OneInv, TypeInv, TypeOK
<1>. SUFFICES \E i : Writes(i)
  BY DEF Writes
<1>1. ASSUME users' = users PROVE \E i : Writes(i)
  BY <1>0, <1>1, WritesNone
<1>2. ASSUME NEW r \in Requests, CreateLocalUser(r), users' # users PROVE \E i : Writes(i)
  <2>. DEFINE sub == local(nextId + 1)
              e == req[r].email
  <2>0. e \in Emails /\ ByEmail(e) = {} /\ CreateRow(sub, e, FALSE)
    <3>1. req[r].pc = "create" /\ ByEmail(e) = {} /\ CreateRow(sub, e, FALSE)
      BY <1>2, Zenon DEF CreateLocalUser
    <3>. QED
      BY <1>0, <3>1 DEF TypeInv, TypeOK, WellFormed, Request
  <2>1. sub \in Sub /\ sub.kind = "local" /\ sub.n = nextId + 1
    BY <1>0 DEF Sub, local, TypeOK
  <2>. HIDE DEF sub, e
  <2>2. Known(sub, nextId + 1)
    BY <1>0, <2>1 DEF Known
  <2>3. BySub(sub) = {}
    BY <1>0, <2>1 DEF BySub, Fresh, Known
  <2>. QED
    BY <2>0, <2>1, <2>2, <2>3, WritesNew
<1>3. ASSUME NEW r \in Requests, SetEmailVerified(r), users' # users PROVE \E i : Writes(i)
  <2>. DEFINE i == req[r].id
              w == [users[i] EXCEPT !.verified = TRUE]
  <2>1. i \in Live /\ users' = [users EXCEPT ![i] = w]
    BY <1>3 DEF SetEmailVerified
  <2>2. w.email = users[i].email /\ w.sub = users[i].sub
    BY <1>0, <2>1 DEF TypeOK, Live, Row
  <2>. HIDE DEF i, w
  <2>. QED
    BY <1>0, <2>1, <2>2, WritesSame
<1>4. ASSUME NEW r \in Requests, EmailChangeConfirm(r), users' # users PROVE \E i : Writes(i)
  <2>. DEFINE i == req[r].id
              e == req[r].email
              w == [users[i] EXCEPT !.email = e, !.verified = TRUE]
  <2>1. i \in Live /\ ByEmail(e) \subseteq {i} /\ users' = [users EXCEPT ![i] = w]
    BY <1>4 DEF EmailChangeConfirm, SetEmail
  <2>2. e \in Emails
    BY <1>0, <1>4 DEF EmailChangeConfirm, TypeInv, TypeOK, WellFormed, Request
  <2>3. w \in Row /\ w.email = e /\ w.sub = users[i].sub /\ i \in Ids
    <3>1. users[i] \in Row /\ i \in Ids
      BY <1>0, <2>1 DEF TypeOK, Live
    <3>. QED
      BY <2>2, <3>1 DEF Row
  <2>4. i <= nextId /\ Known(users[i].sub, nextId) /\ nextId' = nextId
    BY <1>0, <1>4, <2>1 DEF Fresh, EmailChangeConfirm
  <2>. HIDE DEF i, e, w
  <2>5. users'[i] = w /\ Only(i)
    BY <1>0, <2>1, <2>3 DEF TypeOK, Only
  <2>6. Alone(i)
    BY <1>0, <2>1, <2>3, <2>5 DEF Alone, OneRowPerEmail, ByEmail
  <2>. QED
    BY <2>3, <2>4, <2>5, <2>6, NoneAssumption DEF Writes
<1>5. ASSUME NEW r \in Requests, UpsertUserOnLogin(r), users' # users PROVE \E i : Writes(i)
  <2>1. PICK i \in Ids : Upserted(req[r].sub, req[r].email, req[r].ver, i)
    BY <1>5 DEF UpsertUserOnLogin
  <2>2. req[r].sub \in Sub /\ req[r].email \in Emails /\ req[r].ver \in BOOLEAN
    BY <1>0, <1>5 DEF UpsertUserOnLogin, TypeInv, TypeOK, WellFormed, Request
  <2>3. Known(req[r].sub, nextId)
    BY <1>0 DEF Fresh, ReqFresh
  <2>. QED
    BY <2>1, <2>2, <2>3, WritesUpsert
<1>6. ASSUME NEW r \in Requests, Save(r), users' # users PROVE \E i : Writes(i)
  <2>. DEFINE i == req[r].id
              w == req[r].row
  <2>1. /\ users' = [users EXCEPT ![i] = w] /\ nextId' = nextId
        /\ (ByEmail(w.email) \cup BySub(w.sub)) \ {i} = {}
    BY <1>6 DEF Save
  <2>2. i \in Ids /\ w # None
    BY <1>0, <1>6 DEF Save, TypeInv, WellFormed
  <2>3. i <= nextId /\ Known(w.sub, nextId)
    BY <1>0, <2>2 DEF Fresh, ReqFresh
  <2>. HIDE DEF i, w
  <2>4. users'[i] = w /\ Only(i)
    BY <1>0, <2>1, <2>2 DEF TypeOK, Only
  <2>5. Alone(i)
    BY <2>1, <2>4 DEF Alone, ByEmail, BySub
  <2>. QED
    BY <2>1, <2>2, <2>3, <2>4, <2>5 DEF Writes
<1>7. ASSUME NEW r \in Requests, Step(r), users' # users PROVE \E i : Writes(i)
  BY <1>2, <1>3, <1>4, <1>5, <1>6, <1>7 DEF Step, SetPasswordHash, CreateToken,
     PasswordResetConsume, LookupByEmail, Rehash, SocialByEmail, LinkOAuth
<1>8. ASSUME NEW r \in Requests, Arrive(r) PROVE users' = users
  BY <1>0, <1>8, ArrivesFrame
<1>9. ASSUME NEW i \in Live, DeleteUser(i) PROVE \E j : Writes(j)
  BY <1>0, <1>9, WritesSame DEF DeleteUser
<1>10. ASSUME NEW i \in Live, NEW b \in BOOLEAN, adminSetBlocked(i, b) PROVE \E j : Writes(j)
  <2>. DEFINE w == [users[i] EXCEPT !.blocked = b]
  <2>1. users' = [users EXCEPT ![i] = w]
    BY <1>10 DEF adminSetBlocked
  <2>2. w.email = users[i].email /\ w.sub = users[i].sub
    BY <1>0 DEF TypeOK, Live, Row
  <2>. HIDE DEF w
  <2>. QED
    BY <1>0, <2>1, <2>2, WritesSame
<1>. QED
  BY <1>1, <1>7, <1>8, <1>9, <1>10 DEF Next, vars, AddPasskey, PasskeyRemove, OAuthUnlink

\* How each request moves in a step of the system.
LEMMA Moves ==
    ASSUME TypeInv, [Next]_vars, NEW q \in Requests, NEW x, x = req[q], NEW y, y = req'[q]
    PROVE  \/ y = x
           \/ Arrived(y) /\ ArrivesAt(q)
           \/ Stepped(x, y) /\ Step(q)
<1>1. ASSUME NEW r \in Requests, Arrive(r)
      PROVE  y = x \/ (Arrived(y) /\ ArrivesAt(q)) \/ (Stepped(x, y) /\ Step(q))
  <2>1. CASE q = r
    BY <1>1, <2>1, Arrivals
  <2>2. CASE q # r
    BY <1>1, <2>2, ArrivesFrame
  <2>. QED
    BY <2>1, <2>2
<1>2. ASSUME NEW r \in Requests, Step(r)
      PROVE  y = x \/ (Arrived(y) /\ ArrivesAt(q)) \/ (Stepped(x, y) /\ Step(q))
  <2>1. CASE q = r
    BY <1>2, <2>1, StepMoves
  <2>2. CASE q # r
    <3>1. \A k \in Requests \ {r} : req'[k] = req[k]
      BY <1>2, StepMoves
    <3>. QED
      BY <2>2, <3>1
  <2>. QED
    BY <2>1, <2>2
<1>. QED
  BY <1>1, <1>2 DEF Next, vars, AddPasskey, PasskeyRemove, OAuthUnlink, DeleteUser,
     adminSetBlocked

\* What a request names is known, wherever it stands.
LEMMA ReqFreshStep ==
    ASSUME OneInv, TypeInv', [Next]_vars, NEW q \in Requests, nextId <= nextId',
           NEW x, x = req[q], NEW y, y = req'[q]
    PROVE  ReqFresh(y, nextId')
<1>. USE AccountsAssumption
<1>0. /\ TypeInv /\ Fresh /\ x \in Request /\ y \in Request
      /\ nextId \in Nat /\ nextId' \in Nat /\ ReqFresh(x, nextId)
  BY DEF OneInv, TypeInv, TypeOK, Fresh
<1>1. \A sub \in Sub : Known(sub, nextId) => Known(sub, nextId')
  BY <1>0 DEF Known, Sub
<1>2. x.sub \in Sub /\ y.sub \in Sub /\ x.id \in Int /\ y.id \in Int
      /\ (x.row # None => x.row.sub \in Sub)
  BY <1>0 DEF Request, Row
<1>3. \A i \in Ids : i <= nextId => i <= nextId'
  BY <1>0 DEF Ids
<1>a. x.row # None => Known(x.row.sub, nextId')
  BY <1>0, <1>1, <1>2 DEF ReqFresh
<1>b. Known(x.sub, nextId') /\ x.id <= nextId'
  BY <1>0, <1>1, <1>2 DEF ReqFresh
<1>c. Known(local(0), nextId') /\ 0 <= nextId'
  BY <1>0 DEF Known, local
<1>d. ASSUME NEW i \in Live PROVE i <= nextId' /\ Known(users[i].sub, nextId')
  <2>1. users[i].sub \in Sub /\ i \in Ids
    BY <1>0 DEF Live, TypeInv, TypeOK, Row
  <2>. QED
    BY <1>0, <1>1, <1>3, <2>1 DEF Fresh
<1>e. ASSUME NEW i, Reads(y, i) PROVE y.id <= nextId' /\ Known(y.sub, nextId')
  BY <1>d, <1>e DEF Reads
<1>4. CASE y = x
  BY <1>a, <1>b, <1>4 DEF ReqFresh
<1>5. CASE Arrived(y)
  <2>1. ASSUME NEW t \in Tokens, Carried(y, t)
        PROVE  y.id <= nextId' /\ Known(y.sub, nextId')
    <3>1. tokens[t] # None /\ tokens[t].id <= nextId /\ y.id = tokens[t].id /\ y.sub = local(0)
      BY <1>0, <2>1 DEF Carried, Fresh
    <3>. QED
      BY <1>0, <1>2, <1>c, <3>1
  <2>2. y.sub.kind = "oidc" => Known(y.sub, nextId')
    BY DEF Known
  <2>. QED
    BY <1>5, <1>c, <1>d, <1>e, <2>1, <2>2 DEF Arrived, ReqFresh
<1>6. CASE Stepped(x, y)
  <2>1. CASE y = Idle
    BY <1>c, <2>1 DEF ReqFresh, Idle
  <2>2. CASE Same(x, y)
    BY <1>a, <1>b, <2>2 DEF Same, ReqFresh
  <2>3. CASE y.id = nextId' /\ y.sub = local(nextId') /\ y.row = x.row
    <3>1. Known(local(nextId'), nextId') /\ nextId' <= nextId'
      BY <1>0 DEF Known, local
    <3>. QED
      BY <1>a, <2>3, <3>1 DEF ReqFresh
  <2>4. CASE y.row = x.row /\ \E i \in ByEmail(x.email) : Reads(y, i)
    BY <1>a, <1>e, <2>4 DEF ReqFresh
  <2>5. CASE y.row = x.row /\ y.id = x.id /\ y.sub.kind = "social"
    BY <1>a, <1>b, <2>5 DEF ReqFresh, Known
  <2>6. CASE y.row = x.row /\ y.sub = x.sub /\ users'[y.id] # None /\ y.id \in Ids
    <3>1. CASE y.id = x.id
      BY <1>a, <1>b, <2>6, <3>1 DEF ReqFresh
    <3>2. CASE y.id # x.id
      <4>1. PICK i \in Ids : Writes(i)
        BY AllWrite
      <4>2. \A j \in Live' : j <= nextId'
        BY <4>1, WritesApart
      <4>. QED
        BY <1>a, <1>b, <2>6, <4>2 DEF ReqFresh, Live
    <3>. QED
      BY <3>1, <3>2
  <2>7. CASE y.id \in Live /\ y.sub = x.sub /\ y.row.sub = x.sub
    BY <1>b, <1>d, <2>7 DEF ReqFresh
  <2>. QED
    BY <1>6, <2>1, <2>2, <2>3, <2>4, <2>5, <2>6, <2>7 DEF Stepped
<1>. QED
  BY <1>0, <1>4, <1>5, <1>6, Moves

\* OneInv is inductive.
LEMMA OneStep == OneInv /\ [Next]_vars => OneInv'
<1>. SUFFICES ASSUME OneInv, [Next]_vars PROVE OneInv'
  OBVIOUS
<1>. USE AccountsAssumption
<1>1. TypeInv /\ Fresh /\ TypeOK /\ TypeInv' /\ TypeOK'
  BY TypeStep DEF OneInv, TypeInv
<1>2. Kept
  BY <1>1, AllKept
<1>3. nextId \in Nat /\ nextId' \in Nat /\ nextId <= nextId'
  BY <1>1, <1>2 DEF TypeOK, Kept
<1>4. PICK i \in Ids : Writes(i)
  BY AllWrite
<1>5. OneRowPerEmail' /\ \A j \in Live' : j <= nextId' /\ Known(users'[j].sub, nextId')
  BY <1>1, <1>3, <1>4, WritesApart
<1>6. \A sub \in Sub : Known(sub, nextId) => Known(sub, nextId')
  BY <1>3 DEF Known, Sub
<1>7. \A j \in Int : j <= nextId => j <= nextId'
  BY <1>3
<1>8. ASSUME NEW sub \in session' PROVE Known(sub, nextId')
  <2>1. CASE sub \in session
    BY <1>1, <1>6, <2>1 DEF Fresh, TypeOK
  <2>2. ASSUME NEW r \in Requests, sub = req[r].sub PROVE Known(sub, nextId')
    <3>1. req[r].sub \in Sub /\ Known(req[r].sub, nextId)
      BY <1>1 DEF TypeOK, Request, Fresh, ReqFresh
    <3>. QED
      BY <1>6, <2>2, <3>1
  <2>. QED
    BY <1>2, <2>1, <2>2 DEF Kept
<1>9. ASSUME NEW j \in Ids, passkeys'[j] > 0 PROVE j <= nextId'
  BY <1>1, <1>2, <1>7, <1>9 DEF Kept, Fresh, Ids
<1>10. ASSUME NEW s \in Socials PROVE links'[s] <= nextId'
  <2>1. CASE links'[s] = links[s] \/ links'[s] = 0
    BY <1>1, <1>3, <2>1 DEF Fresh, TypeOK
  <2>2. ASSUME NEW r \in Requests, links'[s] = req[r].id PROVE links'[s] <= nextId'
    <3>1. req[r].id \in Int /\ req[r].id <= nextId
      BY <1>1 DEF TypeOK, Request, Fresh, ReqFresh
    <3>. QED
      BY <1>7, <2>2, <3>1
  <2>. QED
    BY <1>2, <2>1, <2>2 DEF Kept
<1>11. ASSUME NEW t \in Tokens, tokens'[t] # None PROVE tokens'[t].id <= nextId'
  <2>1. CASE tokens[t] # None /\ tokens'[t].id = tokens[t].id
    <3>1. tokens[t].id \in Int /\ tokens[t].id <= nextId
      BY <1>1, <2>1 DEF TypeOK, Token, Ids, Fresh
    <3>. QED
      BY <1>7, <2>1, <3>1
  <2>2. ASSUME NEW r \in Requests, tokens'[t].id = req[r].id PROVE tokens'[t].id <= nextId'
    <3>1. req[r].id \in Int /\ req[r].id <= nextId
      BY <1>1 DEF TypeOK, Request, Fresh, ReqFresh
    <3>. QED
      BY <1>7, <2>2, <3>1
  <2>. QED
    BY <1>2, <1>11, <2>1, <2>2 DEF Kept
<1>12. ASSUME NEW q \in Requests PROVE ReqFresh(req'[q], nextId')
  BY <1>1, <1>3, ReqFreshStep
<1>13. Fresh'
  BY <1>5, <1>8, <1>9, <1>10, <1>11, <1>12 DEF Fresh
<1>. QED
  BY <1>1, <1>5, <1>13 DEF OneInv

\* The initial state: at most the seeded row.
LEMMA OneInit == Init => OneInv
<1>. SUFFICES ASSUME Init PROVE OneInv
  OBVIOUS
<1>. USE AccountsAssumption
<1>1. TypeInv
  BY TypeInit
<1>2. \A i \in Live : i = 1 /\ nextId = 1 /\ users[i].sub.kind = "bootstrap"
  BY DEF Init, Live, NewRow
<1>3. nextId \in Nat
  BY <1>1 DEF TypeInv, TypeOK
<1>4. OneRowPerEmail
  BY <1>2 DEF OneRowPerEmail
<1>5. \A r \in Requests : ReqFresh(req[r], nextId)
  BY <1>3 DEF Init, Idle, ReqFresh, Known, local
<1>6. \A i \in Live : i <= nextId /\ Known(users[i].sub, nextId)
  BY <1>2 DEF Known
<1>7. /\ session = {} /\ \A i \in Ids : ~(passkeys[i] > 0)
      /\ \A s \in Socials : links[s] <= nextId
      /\ \A t \in Tokens : tokens[t] = None
  BY <1>3 DEF Init
<1>8. Fresh
  BY <1>5, <1>6, <1>7 DEF Fresh
<1>. QED
  BY <1>1, <1>4, <1>8 DEF OneInv

\* No two rows have one address or one subject, whichever of sign-up, admin, social
\* login, OIDC and change of address create and move them concurrently, in either
\* store: CreateLocalUser, SetEmail, UpsertUserOnLogin and gorm's Save each test the
\* address and the subject they write, but a local subject is made up from the next
\* key without a test, so the proof needs that no request or row names it yet.
THEOREM OneRow == Spec => []OneRowPerEmail
<1>1. OneInv => OneRowPerEmail
  BY DEF OneInv
<1>. QED
  BY OneInit, OneStep, <1>1, PTL DEF Spec

-----------------------------------------------------------------------------
(* A verified row's address was proved *)

\* The subject of row i has proved its address; or else it has the address e, so
\* that a link or code for e proves it.
Proved(i) == i \in Live => <<users[i].sub, users[i].email>> \in proven
Named(i, e) == i \in Live => users[i].email = e \/ Proved(i)

\* What is certain of the row that a request works on, and of its identity.
ReqProven(x) ==
    /\ \/ x.pc \in {"setVerified", "consume"}
       \/ x.pc = "setPassword" /\ x.op # "account"
       \/ x.pc = "token" /\ x.purpose # "change"
       => Named(x.id, x.email)
    /\ x.pc = "link" => Proved(x.id)
    /\ \/ x.pc \in {"upsert", "link", "save"}
       \/ x.pc = "rehash" /\ ~x.halt
       \/ x.pc = "setVerified" /\ x.op \in {"otp", "new"}
       => <<x.sub, x.email>> \in proven
    /\ x.pc = "save" => x.row.sub = x.sub /\ x.row.email = x.email

\* Whatever lets its holder sign in without proving the address again (a verified
\* row, a passkey, a session, a linked identity) belongs to a row that is proved.
AllProved ==
    /\ \A i \in Live : users[i].verified => Proved(i)
    /\ \A i \in Ids : passkeys[i] > 0 => Proved(i)
    /\ \A i \in Live : users[i].sub \in session => Proved(i)
    /\ \A s \in Socials : Proved(links[s])
    /\ \A t \in Tokens : tokens[t] # None /\ tokens[t].purpose # "change"
                             => Named(tokens[t].id, tokens[t].email)
    /\ \A r \in Requests : \A x \in Request : x = req[r] => ReqProven(x)

ProvenInv == OneInv /\ AllProved

\* What a step makes of row i: its subject has proved its address, or both are as
\* before and it is not verified by the step, or it is a new row of a local subject.
RowProof(i) ==
    users'[i] # None =>
        \/ <<users'[i].sub, users'[i].email>> \in proven'
        \/ /\ i \in Live /\ users'[i].sub = users[i].sub /\ users'[i].email = users[i].email
           /\ users'[i].verified => users[i].verified
        \/ /\ i > nextId /\ ~users'[i].verified /\ users'[i].sub.kind = "local"
           /\ users'[i].sub.n > nextId

\* Rows that are not written prove nothing new.
LEMMA RowKept ==
    ASSUME NEW i \in Ids, users'[i] = users[i] \/ users'[i] = None
    PROVE  RowProof(i)
BY DEF RowProof, Live

\* RowProof holds of every row in every step.
LEMMA AllRowProof ==
    ASSUME ProvenInv, [Next]_vars, NEW i \in Ids
    PROVE  RowProof(i)
<1>. USE AccountsAssumption DEF creds, mail, history
<1>0. TypeInv /\ TypeOK /\ Fresh /\ AllProved /\ nextId \in Int /\ users \in [Ids -> Row \cup {None}]
  BY DEF ProvenInv, OneInv, TypeInv, TypeOK
<1>1. ASSUME users' = users PROVE RowProof(i)
  BY <1>1, RowKept
<1>2. ASSUME NEW r \in Requests, CreateLocalUser(r), users' # users PROVE RowProof(i)
  <2>. DEFINE sub == local(nextId + 1)
              w == NewRow(sub, req[r].email, FALSE)
  <2>1. CreateRow(sub, req[r].email, FALSE)
    BY <1>2, Zenon DEF CreateLocalUser
  <2>2. nextId' = nextId + 1 /\ users' = [users EXCEPT ![nextId'] = w]
    BY <2>1 DEF CreateRow
  <2>3. ~w.verified /\ w.sub.kind = "local" /\ w.sub.n = nextId + 1
    BY DEF NewRow, local
  <2>. HIDE DEF w
  <2>4. CASE i = nextId'
    <3>1. users'[i] = w
      BY <1>0, <2>2, <2>4
    <3>. QED
      BY <1>0, <2>2, <2>3, <2>4, <3>1 DEF RowProof
  <2>5. CASE i # nextId'
    BY <1>0, <2>2, <2>5, RowKept
  <2>. QED
    BY <2>4, <2>5
<1>3. ASSUME NEW r \in Requests, SetEmailVerified(r), users' # users PROVE RowProof(i)
  <2>. DEFINE k == req[r].id
              w == [users[k] EXCEPT !.verified = TRUE]
  <2>1. /\ k \in Live /\ users' = [users EXCEPT ![k] = w]
        /\ proven' = proven \cup {<<users[k].sub, req[r].email>>}
    BY <1>3 DEF SetEmailVerified
  <2>2. w.email = users[k].email /\ w.sub = users[k].sub
    BY <1>0, <2>1 DEF Live, Row
  <2>3. Named(k, req[r].email)
    BY <1>0, <1>3 DEF SetEmailVerified, AllProved, ReqProven, TypeOK
  <2>4. <<w.sub, w.email>> \in proven'
    BY <2>1, <2>2, <2>3 DEF Named, Proved
  <2>. HIDE DEF k, w
  <2>5. CASE i = k
    BY <1>0, <2>1, <2>4, <2>5 DEF RowProof
  <2>6. CASE i # k
    BY <1>0, <2>1, <2>6, RowKept
  <2>. QED
    BY <2>5, <2>6
<1>4. ASSUME NEW r \in Requests, EmailChangeConfirm(r), users' # users PROVE RowProof(i)
  <2>. DEFINE k == req[r].id
              e == req[r].email
              w == [users[k] EXCEPT !.email = e, !.verified = TRUE]
  <2>1. /\ k \in Live /\ users' = [users EXCEPT ![k] = w]
        /\ proven' = proven \cup {<<users[k].sub, e>>}
    BY <1>4 DEF EmailChangeConfirm, SetEmail
  <2>2. w.email = e /\ w.sub = users[k].sub
    BY <1>0, <2>1 DEF Live, Row
  <2>. HIDE DEF k, w, e
  <2>3. CASE i = k
    BY <1>0, <2>1, <2>2, <2>3 DEF RowProof
  <2>4. CASE i # k
    BY <1>0, <2>1, <2>4, RowKept
  <2>. QED
    BY <2>3, <2>4
<1>5. ASSUME NEW r \in Requests, UpsertUserOnLogin(r), users' # users PROVE RowProof(i)
  <2>1. PICK k \in Ids : Upserted(req[r].sub, req[r].email, req[r].ver, k)
    BY <1>5 DEF UpsertUserOnLogin
  <2>2. req[r].sub \in Sub /\ req[r].email \in Emails /\ req[r].ver \in BOOLEAN
    BY <1>0, <1>5 DEF UpsertUserOnLogin, TypeInv, TypeOK, WellFormed, Request
  <2>3. /\ users'[k].sub = req[r].sub /\ users'[k].email = req[r].email
        /\ \A j \in Ids \ {k} : users'[j] = users[j] \/ users'[j] = None
    BY <1>0, <2>1, <2>2, UpsertedRow
  <2>4. <<req[r].sub, req[r].email>> \in proven'
    BY <1>0, <1>5 DEF UpsertUserOnLogin, AllProved, ReqProven, TypeOK
  <2>. QED
    BY <2>3, <2>4, RowKept DEF RowProof
<1>6. ASSUME NEW r \in Requests, Save(r), users' # users PROVE RowProof(i)
  <2>. DEFINE k == req[r].id
              w == req[r].row
  <2>1. users' = [users EXCEPT ![k] = w] /\ UNCHANGED proven
    BY <1>6 DEF Save
  <2>2. <<w.sub, w.email>> \in proven
    BY <1>0, <1>6 DEF Save, AllProved, ReqProven, TypeOK
  <2>. HIDE DEF k, w
  <2>3. CASE i = k
    BY <1>0, <2>1, <2>2, <2>3 DEF RowProof
  <2>4. CASE i # k
    BY <1>0, <2>1, <2>4, RowKept
  <2>. QED
    BY <2>3, <2>4
<1>7. ASSUME NEW r \in Requests, Step(r), users' # users PROVE RowProof(i)
  BY <1>2, <1>3, <1>4, <1>5, <1>6, <1>7 DEF Step, SetPasswordHash, CreateToken,
     PasswordResetConsume, LookupByEmail, Rehash, SocialByEmail, LinkOAuth
<1>8. ASSUME NEW r \in Requests, Arrive(r) PROVE users' = users
  BY <1>0, <1>8, ArrivesFrame
<1>9. ASSUME NEW k \in Live, DeleteUser(k) PROVE RowProof(i)
  BY <1>0, <1>9, RowKept DEF DeleteUser
<1>10. ASSUME NEW k \in Live, NEW b \in BOOLEAN, adminSetBlocked(k, b) PROVE RowProof(i)
  <2>. DEFINE w == [users[k] EXCEPT !.blocked = b]
  <2>1. users' = [users EXCEPT ![k] = w]
    BY <1>10 DEF adminSetBlocked
  <2>2. w.email = users[k].email /\ w.sub = users[k].sub /\ w.verified = users[k].verified
    BY <1>0 DEF Live, Row
  <2>. HIDE DEF w
  <2>3. CASE i = k
    BY <1>0, <2>1, <2>2, <2>3 DEF RowProof, Live
  <2>4. CASE i # k
    BY <1>0, <2>1, <2>4, RowKept
  <2>. QED
    BY <2>3, <2>4
<1>. QED
  BY <1>1, <1>7, <1>8, <1>9, <1>10 DEF Next, vars, AddPasskey, PasskeyRemove, OAuthUnlink

\* A row with a key handed out stays proved, and stays the row of the address.
LEMMA ProofKept ==
    ASSUME ProvenInv, [Next]_vars, NEW i, i <= nextId
    PROVE  /\ (i \in Live => <<users[i].sub, users[i].email>> \in proven') => Proved(i)'
           /\ Proved(i) => Proved(i)'
           /\ \A e : Named(i, e) => Named(i, e)'
<1>1. proven \subseteq proven' /\ nextId \in Int /\ MaxId \in Int
  BY AllKept, AccountsAssumption DEF Kept, ProvenInv, OneInv, TypeInv, TypeOK
<1>2. ASSUME i \in Live'
      PROVE  \/ <<users'[i].sub, users'[i].email>> \in proven'
             \/ /\ i \in Live /\ users'[i].sub = users[i].sub /\ users'[i].email = users[i].email
  <2>1. i \in Ids /\ users'[i] # None /\ ~(i > nextId)
    BY <1>1, <1>2 DEF Live, Ids
  <2>. QED
    BY <2>1, AllRowProof DEF RowProof
<1>3. (i \in Live => <<users[i].sub, users[i].email>> \in proven') => Proved(i)'
  BY <1>2 DEF Proved
<1>4. Proved(i) => Proved(i)'
  BY <1>1, <1>3 DEF Proved
<1>5. ASSUME NEW e, Named(i, e) PROVE Named(i, e)'
  BY <1>2, <1>4, <1>5 DEF Named, Proved
<1>. QED
  BY <1>3, <1>4, <1>5

\* A session is granted to the subject of a row that is proved.
LEMMA GrantedProved ==
    ASSUME ProvenInv, TypeInv', [Next]_vars, NEW sub \in session', sub \notin session
    PROVE  \E j \in Live' : users'[j].sub = sub /\ Proved(j)'
<1>. USE AccountsAssumption DEF creds, mail, history
<1>0. TypeInv /\ TypeOK /\ AllProved
  BY DEF ProvenInv, OneInv, TypeInv
<1>1. ASSUME NEW r \in Requests, NEW i, Granted(r, i) PROVE sub = req[r].sub
  BY <1>1 DEF Granted
<1>2. ASSUME NEW r \in Requests, UpsertUserOnLogin(r)
      PROVE  \E j \in Live' : users'[j].sub = sub /\ Proved(j)'
  <2>1. PICK i \in Ids : Upserted(req[r].sub, req[r].email, req[r].ver, i) /\ Granted(r, i)
    BY <1>2 DEF UpsertUserOnLogin
  <2>2. req[r].sub \in Sub /\ req[r].email \in Emails /\ req[r].ver \in BOOLEAN
    BY <1>0, <1>2 DEF UpsertUserOnLogin, TypeInv, TypeOK, WellFormed, Request
  <2>3. users'[i] # None /\ users'[i].sub = req[r].sub /\ users'[i].email = req[r].email
    BY <1>0, <2>1, <2>2, UpsertedRow
  <2>4. <<req[r].sub, req[r].email>> \in proven'
    BY <1>0, <1>2 DEF UpsertUserOnLogin, AllProved, ReqProven, TypeOK
  <2>. QED
    BY <1>1, <2>1, <2>3, <2>4 DEF Live, Proved
<1>3. ASSUME NEW r \in Requests, Save(r)
      PROVE  \E j \in Live' : users'[j].sub = sub /\ Proved(j)'
  <2>0. req[r].id \in Ids /\ req[r].row # None
    BY <1>0, <1>3 DEF Save, TypeInv, WellFormed
  <2>1. PICK k \in Ids : k = req[r].id
    BY <2>0
  <2>2. PICK w : w = req[r].row /\ w # None
    BY <2>0
  <2>3. users' = [users EXCEPT ![k] = w] /\ UNCHANGED proven /\ Granted(r, k)
    BY <1>3, <2>1, <2>2 DEF Save
  <2>4. <<w.sub, w.email>> \in proven /\ w.sub = req[r].sub
    BY <1>0, <1>3, <2>2 DEF Save, AllProved, ReqProven, TypeOK
  <2>5. users'[k] = w
    BY <1>0, <2>1, <2>3 DEF TypeOK
  <2>6. k \in Live' /\ Proved(k)' /\ users'[k].sub = sub
    BY <1>1, <2>2, <2>3, <2>4, <2>5 DEF Live, Proved
  <2>. QED
    BY <2>6
<1>4. ASSUME NEW r \in Requests, Step(r)
      PROVE  \E j \in Live' : users'[j].sub = sub /\ Proved(j)'
  BY <1>2, <1>3, <1>4 DEF Step, CreateLocalUser, SetEmailVerified, EmailChangeConfirm,
     SetPasswordHash, CreateToken, PasswordResetConsume, LookupByEmail, Rehash, SocialByEmail,
     LinkOAuth
<1>5. ASSUME NEW r \in Requests, Arrive(r) PROVE session' = session
  BY <1>0, <1>5, ArrivesFrame
<1>. QED
  BY <1>4, <1>5 DEF Next, vars, AddPasskey, PasskeyRemove, OAuthUnlink, DeleteUser,
     adminSetBlocked

\* What a request holds is proved when it arrives ...
LEMMA ArrivedProven ==
    ASSUME ProvenInv, ~UnprovenOIDC, [Next]_vars, NEW y, Arrived(y)
    PROVE  ReqProven(y)'
<1>. USE AccountsAssumption
<1>0. TypeInv /\ TypeOK /\ Fresh /\ AllProved /\ proven \subseteq proven'
  BY AllKept DEF ProvenInv, OneInv, TypeInv, Kept
<1>1. ASSUME NEW i \in Live PROVE i <= nextId
  BY <1>0 DEF Fresh
<1>2. ASSUME NEW i \in Live, users[i].email = y.email PROVE Named(i, y.email)'
  <2>1. Named(i, y.email)
    BY <1>2 DEF Named
  <2>. QED
    BY <1>1, <2>1, ProofKept
<1>3. ASSUME NEW i \in Live, Proved(i), Reads(y, i) PROVE <<y.sub, y.email>> \in proven'
  BY <1>0, <1>3 DEF Proved, Reads
<1>4. ASSUME NEW t \in Tokens, Carried(y, t), tokens[t].purpose # "change"
      PROVE  Named(y.id, y.email)'
  <2>1. tokens[t] # None /\ y.id = tokens[t].id /\ y.email = tokens[t].email
    BY <1>4 DEF Carried
  <2>2. Named(y.id, y.email) /\ y.id <= nextId
    BY <1>0, <1>4, <2>1 DEF AllProved, Fresh
  <2>. QED
    BY <2>2, ProofKept
<1>5. ASSUME NEW s \in Socials, Reads(y, links[s]) PROVE <<y.sub, y.email>> \in proven'
  <2>1. links[s] \in Live
    BY <1>5 DEF Reads
  <2>2. Proved(links[s])
    BY <1>0 DEF AllProved
  <2>. QED
    BY <1>3, <1>5, <2>1, <2>2
<1>6. ASSUME NEW i \in Live, Reads(y, i), passkeys[i] > 0 \/ users[i].verified
      PROVE  <<y.sub, y.email>> \in proven'
  <2>1. Proved(i)
    BY <1>0, <1>6 DEF AllProved, Live
  <2>. QED
    BY <1>3, <1>6, <2>1
<1>7. CASE y.pc \in {"create", "lookup", "byEmail", "setEmail"} \/ y.op = "account"
  BY <1>7 DEF Arrived, ReqProven
<1>8. CASE y.pc \in {"setPassword", "token"} /\ y.op # "account"
  BY <1>2, <1>8 DEF Arrived, ReqProven
<1>9. CASE y.pc = "upsert"
  <2>1. <<y.sub, y.email>> \in proven'
    BY <1>5, <1>6, <1>9 DEF Arrived
  <2>. QED
    BY <1>9, <2>1 DEF ReqProven
<1>10. CASE y.pc = "rehash"
  <2>1. ~y.halt => <<y.sub, y.email>> \in proven'
    BY <1>6, <1>10 DEF Arrived
  <2>. QED
    BY <1>10, <2>1 DEF ReqProven
<1>11. CASE y.pc \in {"setVerified", "consume"}
  <2>1. Named(y.id, y.email)' /\ y.op \notin {"otp", "new"}
    BY <1>4, <1>11 DEF Arrived
  <2>. QED
    BY <1>11, <2>1 DEF ReqProven
<1>. QED
  BY <1>7, <1>8, <1>9, <1>10, <1>11 DEF Arrived

\* ... and with every store call after that.
LEMMA SteppedProven ==
    ASSUME ProvenInv, [Next]_vars, NEW q \in Requests, NEW x, x = req[q], NEW y, Stepped(x, y)
    PROVE  ReqProven(y)'
<1>. USE AccountsAssumption
<1>0. /\ TypeInv /\ TypeOK /\ Fresh /\ AllProved /\ proven \subseteq proven'
      /\ x \in Request /\ ReqProven(x) /\ x.id <= nextId
  BY AllKept DEF ProvenInv, OneInv, TypeInv, TypeOK, Kept, AllProved, Fresh, ReqFresh
<1>1. /\ \A e : Named(x.id, e) => Named(x.id, e)'
      /\ Proved(x.id) => Proved(x.id)'
  BY <1>0, ProofKept
<1>2. Proved(x.id)' => \A e : Named(x.id, e)'
  BY DEF Named
<1>3. CASE y = Idle
  BY <1>3 DEF Idle, ReqProven
<1>4. CASE Same(x, y) /\ Passes(x, y)
  <2>1. y.id = x.id /\ y.sub = x.sub /\ y.email = x.email /\ y.op = x.op /\ y.purpose = x.purpose
    BY <1>4 DEF Same
  <2>2. CASE x.pc \in {"setPassword", "consume"}
    <3>1. y.pc \in {"token", "setVerified", "setPassword"}
          /\ (x.pc = "setPassword" => x.op \in {"signup", "reset", "admin"})
      BY <1>4, <2>2 DEF Passes
    <3>2. Named(x.id, x.email)'
      BY <1>0, <1>1, <2>2, <3>1 DEF ReqProven
    <3>3. Named(y.id, y.email)'
      BY <2>1, <3>2
    <3>4. y.pc = "setVerified" => y.op \notin {"otp", "new"}
      BY <1>4, <2>1, <2>2 DEF Passes
    <3>. QED
      BY <3>1, <3>3, <3>4 DEF ReqProven
  <2>3. CASE x.pc \in {"setVerified", "rehash", "byEmail"}
    <3>1. y.pc \in {"lookup", "upsert", "create"}
      BY <1>4, <2>3 DEF Passes
    <3>2. y.pc = "upsert" => <<x.sub, x.email>> \in proven'
      BY <1>0, <1>4, <2>3 DEF Passes, ReqProven
    <3>. QED
      BY <2>1, <3>1, <3>2 DEF ReqProven
  <2>4. CASE x.pc = "link"
    <3>1. y.pc \in {"setVerified", "upsert"}
      BY <1>4, <2>4 DEF Passes
    <3>2. <<x.sub, x.email>> \in proven' /\ Proved(x.id)'
      BY <1>0, <1>1, <2>4 DEF ReqProven
    <3>3. Named(x.id, x.email)'
      BY <1>2, <3>2
    <3>4. Named(y.id, y.email)'
      BY <2>1, <3>3
    <3>. QED
      BY <2>1, <3>1, <3>2, <3>4 DEF ReqProven
  <2>. QED
    BY <1>4, <2>2, <2>3, <2>4 DEF Passes
<1>5. ASSUME NEW i \in ByEmail(x.email), Reads(y, i), <<y.sub, y.email>> \in proven'
      PROVE  Proved(y.id)' /\ Named(y.id, y.email)'
  <2>1. i \in Live /\ y.id = i /\ y.sub = users[i].sub /\ y.email = users[i].email /\ i <= nextId
    BY <1>0, <1>5 DEF Reads, Fresh
  <2>2. Proved(i)'
    BY <1>5, <2>1, ProofKept
  <2>3. Named(i, y.email)'
    BY <2>2 DEF Named
  <2>. QED
    BY <2>1, <2>2, <2>3
<1>6. CASE x.pc = "create" /\ y.id = nextId' /\ users'[nextId'] = NewRow(y.sub, y.email, FALSE)
           /\ y.pc \in {"setPassword", "setVerified", "link"}
           /\ (y.pc = "link" => <<y.sub, y.email>> \in proven')
           /\ y.op \in {"signup", "admin", "new"} /\ (y.op = "new" => y.pc = "link")
  <2>1. users'[y.id].email = y.email /\ users'[y.id].sub = y.sub
    BY <1>6 DEF NewRow
  <2>2. Named(y.id, y.email)' /\ (y.pc = "link" => Proved(y.id)')
    BY <1>6, <2>1 DEF Named, Proved
  <2>. QED
    BY <1>6, <2>2 DEF ReqProven
<1>7. CASE /\ x.pc = "lookup" /\ \E i \in ByEmail(x.email) : Reads(y, i)
           /\ <<y.sub, y.email>> \in proven' /\ y.pc \in {"setVerified", "upsert"}
  BY <1>5, <1>7 DEF ReqProven
<1>8. CASE /\ x.pc = "byEmail" /\ \E i \in ByEmail(x.email) : Reads(y, i)
           /\ <<y.sub, y.email>> \in proven' /\ y.pc = "link"
  BY <1>5, <1>8 DEF ReqProven
<1>9. CASE y.pc = "upsert" /\ <<y.sub, y.email>> \in proven'
  BY <1>9 DEF ReqProven
<1>10. CASE /\ x.pc \in {"upsert", "save"} /\ y.pc = "link"
            /\ y.sub = x.sub /\ y.email = x.email
            /\ \/ x.pc = "upsert" /\ Upserted(x.sub, x.email, x.ver, y.id)
               \/ x.pc = "save" /\ users'[y.id] = x.row
            /\ y.id \in Ids
  <2>1. <<x.sub, x.email>> \in proven'
    BY <1>0, <1>10 DEF ReqProven
  <2>2. x.pc = "upsert" => x.sub \in Sub /\ x.email \in Emails /\ x.ver \in BOOLEAN
    BY <1>0 DEF TypeInv, WellFormed, Request
  <2>3. users'[y.id].sub = x.sub /\ users'[y.id].email = x.email
    BY <1>0, <1>10, <2>2, UpsertedRow DEF ReqProven
  <2>. QED
    BY <1>10, <2>1, <2>3 DEF ReqProven, Proved
<1>11. CASE /\ x.pc = "upsert" /\ y.pc = "save" /\ y.sub = x.sub /\ y.email = x.email
            /\ y.row.sub = x.sub /\ y.row.email = x.email
  BY <1>0, <1>11 DEF ReqProven
<1>. QED
  BY <1>3, <1>4, <1>6, <1>7, <1>8, <1>9, <1>10, <1>11 DEF Stepped

\* ProvenInv is inductive.
LEMMA ProvenStep == ~UnprovenOIDC /\ ProvenInv /\ [Next]_vars => ProvenInv'
<1>. SUFFICES ASSUME ~UnprovenOIDC, ProvenInv, [Next]_vars PROVE ProvenInv'
  OBVIOUS
<1>. USE AccountsAssumption
<1>1. OneInv' /\ OneInv
  BY OneStep DEF ProvenInv
<1>2. /\ TypeInv /\ TypeOK /\ Fresh /\ TypeInv' /\ TypeOK' /\ OneRowPerEmail' /\ AllProved
      /\ nextId \in Int
  BY <1>1 DEF OneInv, TypeInv, TypeOK, ProvenInv
<1>3. Kept /\ proven \subseteq proven'
  BY <1>2, AllKept DEF Kept
<1>4. ASSUME NEW i \in Live', users'[i].verified PROVE Proved(i)'
  <2>1. i \in Ids /\ users'[i] # None
    BY DEF Live
  <2>2. RowProof(i)
    BY <2>1, AllRowProof
  <2>3. CASE <<users'[i].sub, users'[i].email>> \in proven'
    BY <2>3 DEF Proved
  <2>4. CASE /\ i \in Live /\ users'[i].sub = users[i].sub /\ users'[i].email = users[i].email
             /\ users[i].verified
    BY <1>2, <1>3, <2>4 DEF AllProved, Proved
  <2>. QED
    BY <1>4, <2>1, <2>2, <2>3, <2>4 DEF RowProof
<1>5. ASSUME NEW i \in Ids, passkeys'[i] > 0 PROVE Proved(i)'
  <2>1. Proved(i)
    BY <1>2, <1>3, <1>5 DEF Kept, AllProved
  <2>2. i <= nextId
    BY <1>2, <1>3, <1>5 DEF Kept, Fresh
  <2>. QED
    BY <2>1, <2>2, ProofKept
<1>6. ASSUME NEW i \in Live', users'[i].sub \in session' PROVE Proved(i)'
  <2>1. CASE users'[i].sub \notin session
    BY <1>2, <1>6, <2>1, GrantedProved DEF OneRowPerEmail
  <2>2. CASE users'[i].sub \in session
    <3>1. i \in Ids /\ users'[i] # None
      BY DEF Live
    <3>2. RowProof(i)
      BY <3>1, AllRowProof
    <3>3. CASE <<users'[i].sub, users'[i].email>> \in proven'
      BY <3>3 DEF Proved
    <3>4. CASE /\ i \in Live /\ users'[i].sub = users[i].sub /\ users'[i].email = users[i].email
      BY <1>2, <1>3, <2>2, <3>4 DEF AllProved, Proved
    <3>5. CASE users'[i].sub.kind = "local" /\ users'[i].sub.n > nextId
      <4>1. Known(users'[i].sub, nextId) /\ users'[i].sub \in Sub
        BY <1>2, <2>2 DEF Fresh, TypeOK
      <4>2. users'[i].sub.n \in Int
        BY <4>1 DEF Sub
      <4>. QED
        BY <1>2, <3>5, <4>1, <4>2 DEF Known
    <3>. QED
      BY <3>1, <3>2, <3>3, <3>4, <3>5 DEF RowProof
  <2>. QED
    BY <2>1, <2>2
<1>7. ASSUME NEW s \in Socials, NEW i, i = links'[s] PROVE Proved(i)'
  <2>1. CASE i = 0
    BY <2>1 DEF Proved, Live, Ids
  <2>2. CASE i = links[s]
    BY <1>2, <2>2, ProofKept DEF AllProved, Fresh
  <2>3. ASSUME NEW r \in Requests, req[r].pc = "link", i = req[r].id PROVE Proved(i)'
    <3>1. Proved(i) /\ i <= nextId
      BY <1>2, <2>3 DEF AllProved, ReqProven, Fresh, ReqFresh, TypeOK
    <3>. QED
      BY <3>1, ProofKept
  <2>. QED
    BY <1>3, <1>7, <2>1, <2>2, <2>3 DEF Kept
<1>8. ASSUME NEW t \in Tokens, tokens'[t] # None, tokens'[t].purpose # "change",
             NEW i, i = tokens'[t].id, NEW e, e = tokens'[t].email
      PROVE  Named(i, e)'
  <2>1. CASE tokens[t] # None /\ i = tokens[t].id /\ e = tokens[t].email
             /\ tokens[t].purpose # "change"
    <3>1. Named(i, e) /\ i <= nextId
      BY <1>2, <2>1 DEF AllProved, Fresh
    <3>. QED
      BY <3>1, ProofKept
  <2>2. ASSUME NEW r \in Requests, req[r].pc = "token", i = req[r].id, e = req[r].email,
               req[r].purpose # "change"
        PROVE  Named(i, e)'
    <3>1. Named(i, e) /\ i <= nextId
      BY <1>2, <2>2 DEF AllProved, ReqProven, Fresh, ReqFresh, TypeOK
    <3>. QED
      BY <3>1, ProofKept
  <2>. QED
    BY <1>3, <1>8, <2>1, <2>2 DEF Kept
<1>9. ASSUME NEW q \in Requests, NEW y \in Request, y = req'[q] PROVE ReqProven(y)'
  <2>1. PICK x \in Request : x = req[q]
    BY <1>2 DEF TypeOK
  <2>2. CASE y = x
    <3>1. ReqProven(y) /\ y.id <= nextId
      BY <1>2, <2>1, <2>2 DEF AllProved, Fresh, ReqFresh
    <3>2. (Named(y.id, y.email) => Named(y.id, y.email)') /\ (Proved(y.id) => Proved(y.id)')
      BY <3>1, ProofKept
    <3>. QED
      BY <1>3, <3>1, <3>2 DEF ReqProven
  <2>3. CASE Arrived(y)
    BY <2>3, ArrivedProven
  <2>4. CASE Stepped(x, y)
    BY <2>1, <2>4, SteppedProven
  <2>. QED
    BY <1>2, <1>9, <2>1, <2>2, <2>3, <2>4, Moves
<1>10. AllProved'
  <2>1. \A i \in Live' : users'[i].verified => Proved(i)'
    BY <1>4
  <2>2. \A i \in Live' : users'[i].sub \in session' => Proved(i)'
    BY <1>6
  <2>3. \A s \in Socials : Proved(links[s])'
    <3>1. \A s \in Socials : \E i : i = links'[s] /\ Proved(i)'
      BY <1>7
    <3>. QED
      BY <3>1 DEF Proved
  <2>4. \A t \in Tokens : tokens'[t] # None /\ tokens'[t].purpose # "change"
                              => Named(tokens[t].id, tokens[t].email)'
    BY <1>8 DEF Named, Proved
  <2>. QED
    BY <1>5, <1>9, <2>1, <2>2, <2>3, <2>4 DEF AllProved
<1>. QED
  BY <1>1, <1>10 DEF ProvenInv

\* The seeded row is not verified, and nothing else is there.
LEMMA ProvenInit == Init => ProvenInv
<1>. SUFFICES ASSUME Init PROVE ProvenInv
  OBVIOUS
<1>. USE AccountsAssumption
<1>1. OneInv
  BY OneInit
<1>2. \A i \in Live : ~users[i].verified
  BY DEF Init, Live, NewRow
<1>3. session = {} /\ \A i \in Ids : ~(passkeys[i] > 0)
  BY DEF Init
<1>4. \A s \in Socials : Proved(links[s])
  BY DEF Init, Proved, Live, Ids
<1>5. \A t \in Tokens : tokens[t] = None
  BY DEF Init
<1>6. \A r \in Requests : req[r] = Idle
  BY DEF Init
<1>7. ReqProven(Idle)
  BY DEF ReqProven, Idle
<1>. QED
  BY <1>1, <1>2, <1>3, <1>4, <1>5, <1>6, <1>7 DEF ProvenInv, AllProved

\* A row counts as verified only for an address that its subject has proved, for every
\* store, set of handlers and interleaving, unless the OIDC issuer may assert addresses
\* that it has not verified.  SetEmailVerified marks the row of the link whatever its
\* address is by then; the proof shows that the address can only have moved to one that
\* was proved itself.
THEOREM VerifiedProved ==
    ASSUME ~UnprovenOIDC
    PROVE  Spec => []VerifiedWasProven
<1>1. ProvenInv => VerifiedWasProven
  BY DEF ProvenInv, AllProved, Proved, VerifiedWasProven
<1>2. ProvenInv /\ [Next]_vars => ProvenInv'
  BY ProvenStep
<1>. QED
  BY ProvenInit, <1>1, <1>2, PTL DEF Spec

-----------------------------------------------------------------------------
(* A mailed link takes effect once *)

\* The request has consumed its link and has yet to act on it.
Carries(x) ==
    \/ x.op = "redeem" /\ x.pc \in {"setVerified", "lookup", "upsert", "save"}
    \/ x.op = "reset" /\ x.pc = "setPassword"
    \/ x.pc = "setEmail"

Holds(x, t) == Carries(x) /\ x.tok = t

\* Which handlers pass through a place, and that a consumed link has a number.
Placed(x) ==
    /\ x.pc = "rehash" => x.op = "login"
    /\ x.pc = "link" => x.op \in {"social", "new"}
    /\ x.pc = "consume" => x.op = "reset"
    /\ Carries(x) => x.tok \in Tokens

\* The link has been mailed and cannot be consumed any more.
Spent(t) == t <= issued /\ (tokens[t] # None => tokens[t].consumed)

\* A link that took effect, or is held by a request, is spent; it is held by one
\* request at most, and not after it took effect.
Once ==
    /\ \A t \in Tokens : /\ used[t] <= 1
                         /\ used[t] > 0 => Spent(t)
                         /\ tokens[t] # None => t <= issued
    /\ \A r \in Requests : Placed(req[r])
    /\ \A r \in Requests, t \in Tokens : Holds(req[r], t) => Spent(t) /\ used[t] = 0
    /\ \A r, q \in Requests, t \in Tokens : Holds(req[r], t) /\ Holds(req[q], t) => r = q

LinkInv == TypeInv /\ Once

\* What a step makes of link t.
LinkMoves(t) ==
    \/ tokens'[t] = tokens[t] \/ tokens'[t] = None
    \/ tokens[t] # None /\ tokens'[t].consumed
    \/ t = issued' /\ t > issued

\* One link is consumed.
LEMMA ConsumedMoves ==
    ASSUME TypeOK, NEW t \in Tokens, tokens[t] # None,
           tokens' = [tokens EXCEPT ![t] = [@ EXCEPT !.consumed = TRUE]]
    PROVE  tokens'[t].consumed /\ \A u \in Tokens : LinkMoves(u)
<1>1. tokens[t] \in Token
  BY DEF TypeOK
<1>2. tokens'[t].consumed
  BY <1>1 DEF TypeOK, Token
<1>3. \A u \in Tokens : u # t => tokens'[u] = tokens[u]
  BY DEF TypeOK
<1>. QED
  BY <1>2, <1>3 DEF LinkMoves

\* A spent link stays spent.
LEMMA SpentKept ==
    ASSUME LinkInv, [Next]_vars, NEW t \in Tokens
    PROVE  /\ Spent(t) => Spent(t)'
           /\ tokens'[t] # None => t <= issued'
<1>. USE AccountsAssumption DEF creds, mail, history
<1>0. TypeInv /\ TypeOK /\ Once /\ issued \in Int /\ t \in Int
  BY DEF LinkInv, TypeInv, TypeOK, Tokens
<1>. DEFINE Goal == LinkMoves(t) /\ issued <= issued' /\ issued' \in Int
<1>1. ASSUME UNCHANGED issued, \A u \in Tokens : tokens'[u] = tokens[u] \/ tokens'[u] = None
      PROVE  Goal
  BY <1>0, <1>1 DEF LinkMoves
<1>2. ASSUME NEW r \in Requests, Arrive(r) PROVE Goal
  <2>1. PICK y : y = req'[r]
    OBVIOUS
  <2>2. ArrivesAt(r) /\ Arrived(y)
    BY <1>0, <1>2, <2>1, Arrivals
  <2>3. CASE UNCHANGED tokens
    BY <1>1, <2>2, <2>3 DEF ArrivesAt
  <2>4. CASE ~UNCHANGED tokens
    <3>1. y.pc \in {"setVerified", "setEmail"} /\ UNCHANGED issued
      BY <2>1, <2>2, <2>4 DEF ArrivesAt
    <3>2. PICK u \in Tokens : Carried(y, u)
      BY <2>2, <3>1 DEF Arrived
    <3>3. tokens[u] # None /\ tokens' = [tokens EXCEPT ![u] = [@ EXCEPT !.consumed = TRUE]]
      BY <2>1, <2>2, <2>4, <3>2 DEF Carried, ArrivesAt
    <3>4. \A w \in Tokens : LinkMoves(w)
      BY <1>0, <3>3, ConsumedMoves
    <3>. QED
      BY <1>0, <3>1, <3>4
  <2>. QED
    BY <2>3, <2>4
<1>3. ASSUME NEW r \in Requests, CreateToken(r) PROVE Goal
  <2>1. issued' = issued + 1
    BY <1>3 DEF CreateToken
  <2>2. t # issued' => tokens'[t] = tokens[t]
    BY <1>0, <1>3 DEF CreateToken, TypeOK
  <2>. QED
    BY <1>0, <2>1, <2>2 DEF LinkMoves
<1>4. ASSUME NEW r \in Requests, PasswordResetConsume(r) PROVE Goal
  <2>1. CASE UNCHANGED tokens
    BY <1>1, <1>4, <2>1 DEF PasswordResetConsume
  <2>2. CASE ConsumeToken(req[r].tok, "reset")
    <3>1. PICK u \in Tokens : u = req[r].tok
      BY <1>0, <1>4 DEF PasswordResetConsume, TypeInv, WellFormed
    <3>2. tokens[u] # None /\ tokens' = [tokens EXCEPT ![u] = [@ EXCEPT !.consumed = TRUE]]
      BY <2>2, <3>1 DEF ConsumeToken, Valid
    <3>3. \A w \in Tokens : LinkMoves(w)
      BY <1>0, <3>2, ConsumedMoves
    <3>. QED
      BY <1>0, <1>4, <3>3 DEF PasswordResetConsume
  <2>. QED
    BY <1>4, <2>1, <2>2 DEF PasswordResetConsume
<1>5. ASSUME NEW r \in Requests, UpsertUserOnLogin(r) PROVE Goal
  <2>1. ASSUME NEW i \in Ids, Upserted(req[r].sub, req[r].email, req[r].ver, i) PROVE Goal
    <3>1. \A u \in Tokens : tokens'[u] = tokens[u] \/ tokens'[u] = None
      BY <1>0, <2>1, UpsertLoses
    <3>2. UNCHANGED issued
      BY <2>1 DEF Upserted, Reclaim, CascadeCreds
    <3>. QED
      BY <1>1, <3>1, <3>2
  <2>. QED
    BY <1>1, <1>5, <2>1 DEF UpsertUserOnLogin
<1>6. ASSUME NEW i \in Live, DeleteUser(i) PROVE Goal
  <2>1. UNCHANGED issued
    BY <1>6 DEF DeleteUser, CascadeCreds
  <2>. QED
    BY <1>0, <1>1, <1>6, <2>1, CascadeLoses DEF DeleteUser
<1>7. ASSUME NEW r \in Requests, Step(r) PROVE Goal
  <2>1. CASE UNCHANGED <<tokens, issued>>
    BY <1>1, <2>1
  <2>2. CASE ~UNCHANGED <<tokens, issued>>
    BY <1>3, <1>4, <1>5, <1>7, <2>2 DEF Step, CreateLocalUser, SetPasswordHash,
       SetEmailVerified, EmailChangeConfirm, LookupByEmail, Rehash, SocialByEmail, LinkOAuth, Save
  <2>. QED
    BY <2>1, <2>2
<1>8. Goal
  BY <1>1, <1>2, <1>6, <1>7 DEF Next, vars, AddPasskey, PasskeyRemove, OAuthUnlink,
     adminSetBlocked
<1>9. tokens[t] # None => t <= issued
  BY <1>0 DEF Once
<1>. QED
  BY <1>0, <1>8, <1>9 DEF LinkMoves, Spent

\* The request takes a link that was there to be taken.
Takes(q, t) ==
    /\ ~Spent(t) /\ tokens'[t].consumed /\ t <= issued'
    /\ \A p \in Requests \ {q} : req'[p] = req[p]
    /\ used' = used

\* A request holds the link that it held before, or takes it now.
LEMMA HoldStep ==
    ASSUME LinkInv, [Next]_vars, NEW q \in Requests, NEW x, x = req[q], NEW y, y = req'[q]
    PROVE  /\ Placed(y)
           /\ \A t \in Tokens : Holds(y, t) => Holds(x, t) \/ Takes(q, t)
<1>. USE AccountsAssumption DEF creds, mail, history
<1>0. TypeInv /\ TypeOK /\ Once /\ issued \in Int /\ Placed(x) /\ WellFormed(x) /\ x \in Request
  BY DEF LinkInv, TypeInv, TypeOK, Once
<1>1. CASE y = x
  BY <1>0, <1>1
<1>2. CASE Arrived(y) /\ ArrivesAt(q)
  <2>1. CASE y.pc \in {"setVerified", "setEmail"}
    <3>1. PICK t \in Tokens : Carried(y, t)
      BY <1>2, <2>1 DEF Arrived
    <3>2. y.tok = t /\ tokens[t] # None /\ ~tokens[t].consumed
      BY <3>1 DEF Carried
    <3>3. t <= issued /\ ~Spent(t)
      BY <1>0, <3>2 DEF Once, Spent
    <3>4. Takes(q, t)
      BY <1>2, <2>1, <3>2, <3>3 DEF Takes, ArrivesAt
    <3>5. Placed(y)
      BY <2>1, <3>2 DEF Placed
    <3>. QED
      BY <3>2, <3>4, <3>5 DEF Holds
  <2>2. CASE y.pc \notin {"setVerified", "setEmail"}
    <3>1. ~Carries(y)
      BY <1>2, <2>2 DEF Arrived, Carries
    <3>2. Placed(y)
      BY <1>2, <3>1 DEF Arrived, Placed
    <3>. QED
      BY <3>1, <3>2 DEF Holds
  <2>. QED
    BY <2>1, <2>2
<1>3. CASE Stepped(x, y) /\ Step(q)
  <2>1. CASE x.pc = "consume" /\ y # Idle
    <3>1. Same(x, y) /\ y.pc = "setPassword" /\ ConsumeToken(x.tok, "reset")
      BY <1>3, <2>1 DEF Stepped, Passes
    <3>2. PICK t \in Tokens : t = x.tok
      BY <1>0, <2>1 DEF WellFormed
    <3>3. /\ tokens[t] # None /\ ~tokens[t].consumed
          /\ tokens' = [tokens EXCEPT ![t] = [@ EXCEPT !.consumed = TRUE]]
      BY <3>1, <3>2 DEF ConsumeToken, Valid
    <3>4. tokens'[t].consumed
      BY <1>0, <3>3, ConsumedMoves
    <3>5. t <= issued /\ ~Spent(t)
      BY <1>0, <3>3 DEF Once, Spent
    <3>6. UNCHANGED <<issued, used>>
      BY <1>3, <2>1 DEF Step, CreateLocalUser, SetPasswordHash, CreateToken,
         PasswordResetConsume, SetEmailVerified, EmailChangeConfirm, LookupByEmail, Rehash,
         SocialByEmail, LinkOAuth, UpsertUserOnLogin, Save
    <3>7. \A p \in Requests \ {q} : req'[p] = req[p]
      BY <1>0, <1>3, StepMoves
    <3>8. Takes(q, t)
      BY <3>4, <3>5, <3>6, <3>7 DEF Takes
    <3>9. y.tok = t /\ Placed(y)
      BY <3>1, <3>2 DEF Same, Placed
    <3>. QED
      BY <3>8, <3>9 DEF Holds
  <2>2. CASE x.pc # "consume" \/ y = Idle
    <3>. DEFINE Fine ==
            /\ Carries(y) => Carries(x) /\ y.tok = x.tok
            /\ y.pc = "rehash" => y.op = "login"
            /\ y.pc = "link" => y.op \in {"social", "new"}
            /\ y.pc = "consume" => y.op = "reset"
    <3>1. ASSUME y = Idle
          PROVE  Fine
      BY <3>1 DEF Idle, Carries
    <3>2. ASSUME Same(x, y) /\ Passes(x, y) /\ x.pc # "consume"
          PROVE  Fine
      <4>1. y.op = x.op /\ y.tok = x.tok
        BY <3>2 DEF Same
      <4>. QED
        BY <1>0, <3>2, <4>1 DEF Passes, Carries, Placed
    <3>3. ASSUME x.pc = "create" /\ y.op \in {"signup", "admin", "new"}
               /\ y.pc \in {"setPassword", "setVerified", "link"}
               /\ (y.pc = "link" => y.op = "new")
          PROVE  Fine
      BY <3>3 DEF Carries
    <3>4. ASSUME x.pc = "lookup" /\ y.tok = x.tok /\ y.op = x.op
               /\ (y.pc = IF x.op = "otp" THEN "setVerified" ELSE "upsert")
          PROVE  Fine
      BY <3>4 DEF Carries
    <3>5. ASSUME y.pc = "link" /\ y.op = "social"
          PROVE  Fine
      BY <3>5 DEF Carries
    <3>6. ASSUME x.pc = "byEmail" /\ y.pc = "link" /\ y.op = x.op
          PROVE  Fine
      BY <1>0, <3>6 DEF Carries, WellFormed
    <3>7. ASSUME y.pc = "upsert" /\ y.op = "reclaim"
          PROVE  Fine
      BY <3>7 DEF Carries
    <3>8. ASSUME x.pc = "upsert" /\ y.pc = "save" /\ y.op = x.op /\ y.tok = x.tok
          PROVE  Fine
      BY <3>8 DEF Carries
    <3>. HIDE DEF Fine
    <3>9. Fine
      BY <1>3, <2>2, <3>1, <3>2, <3>3, <3>4, <3>5, <3>6, <3>7, <3>8 DEF Stepped
    <3>10. Placed(y)
      BY <1>0, <3>9 DEF Placed, Fine
    <3>. QED
      BY <3>9, <3>10 DEF Holds, Fine
  <2>. QED
    BY <2>1, <2>2
<1>. QED
  BY <1>0, <1>1, <1>2, <1>3, Moves

\* A link takes effect for the request that holds it, which lets go of it.
LEMMA UsedStep ==
    ASSUME LinkInv, [Next]_vars, used' # used
    PROVE  \E r \in Requests, t \in Tokens :
              /\ Holds(req[r], t) /\ used' = [used EXCEPT ![t] = @ + 1]
              /\ ~Carries(req'[r])
<1>. USE AccountsAssumption DEF creds, mail, history
<1>. DEFINE Goal == \E r \in Requests, t \in Tokens :
                      /\ Holds(req[r], t) /\ used' = [used EXCEPT ![t] = @ + 1]
                      /\ ~Carries(req'[r])
<1>0. TypeInv /\ TypeOK /\ Once /\ \A r \in Requests : Placed(req[r])
  BY DEF LinkInv, TypeInv, Once
<1>1. ~Carries(Idle)
  BY DEF Carries, Idle
<1>2. ASSUME NEW r \in Requests, SetPasswordHash(r) PROVE Goal
  <2>1. /\ req[r].pc = "setPassword" /\ req[r].op = "reset" /\ Goto(r, "setVerified")
        /\ used' = [used EXCEPT ![req[r].tok] = @ + 1]
    BY <1>2 DEF SetPasswordHash
  <2>2. req'[r].pc = "setVerified" /\ req'[r].op = "reset"
    BY <1>0, <2>1, GotoSame DEF Same
  <2>3. Carries(req[r]) /\ ~Carries(req'[r])
    BY <2>1, <2>2 DEF Carries
  <2>. QED
    BY <1>0, <2>1, <2>3 DEF Placed, Holds
<1>3. ASSUME NEW r \in Requests, EmailChangeConfirm(r) PROVE Goal
  <2>1. /\ req[r].pc = "setEmail" /\ Finish(r)
        /\ used' = [used EXCEPT ![req[r].tok] = @ + 1]
    BY <1>3 DEF EmailChangeConfirm
  <2>2. Carries(req[r]) /\ ~Carries(req'[r])
    BY <1>0, <1>1, <2>1 DEF Carries, Finish, TypeOK
  <2>. QED
    BY <1>0, <2>1, <2>2 DEF Placed, Holds
<1>4. ASSUME NEW r \in Requests, NEW i, Granted(r, i), req[r].pc \in {"upsert", "save"} PROVE Goal
  <2>1. req[r].op = "redeem" /\ Finish(r) /\ used' = [used EXCEPT ![req[r].tok] = @ + 1]
    BY <1>4 DEF Granted
  <2>2. Carries(req[r])
    BY <1>4, <2>1 DEF Carries
  <2>3. ~Carries(req'[r])
    BY <1>0, <1>1, <2>1 DEF Finish, TypeOK
  <2>. QED
    BY <1>0, <2>1, <2>2, <2>3 DEF Placed, Holds
<1>5. ASSUME NEW r \in Requests, UpsertUserOnLogin(r) \/ Save(r) PROVE Goal
  BY <1>4, <1>5 DEF UpsertUserOnLogin, Save
<1>6. ASSUME NEW r \in Requests, Step(r) PROVE Goal
  BY <1>2, <1>3, <1>5, <1>6 DEF Step, CreateLocalUser, CreateToken, PasswordResetConsume,
     SetEmailVerified, LookupByEmail, Rehash, SocialByEmail, LinkOAuth
<1>7. ASSUME NEW r \in Requests, Arrive(r) PROVE FALSE
  BY <1>0, <1>7, ArrivesFrame
<1>. QED
  BY <1>6, <1>7 DEF Next, vars, AddPasskey, PasskeyRemove, OAuthUnlink, DeleteUser,
     adminSetBlocked

\* LinkInv is inductive.
LEMMA LinkStep == LinkInv /\ [Next]_vars => LinkInv'
<1>. SUFFICES ASSUME LinkInv, [Next]_vars PROVE LinkInv'
  OBVIOUS
<1>0. TypeInv /\ TypeOK /\ Once /\ TypeInv' /\ used \in [Tokens -> Nat]
  BY TypeStep DEF LinkInv, TypeInv, TypeOK
<1>1. \A t \in Tokens : (Spent(t) => Spent(t)') /\ (tokens'[t] # None => t <= issued')
  BY SpentKept
<1>2. \A q \in Requests :
        /\ Placed(req'[q])
        /\ \A t \in Tokens : Holds(req'[q], t) => Holds(req[q], t) \/ Takes(q, t)
  BY HoldStep
<1>3. ASSUME NEW t \in Tokens, used'[t] # used[t]
      PROVE  /\ used'[t] = 1 /\ Spent(t)'
             /\ \A q \in Requests : ~Holds(req'[q], t)
  <2>1. PICK r \in Requests, u \in Tokens : /\ Holds(req[r], u) /\ ~Carries(req'[r])
                                            /\ used' = [used EXCEPT ![u] = @ + 1]
    BY <1>3, UsedStep
  <2>2. u = t
    BY <1>0, <1>3, <2>1
  <2>3. Spent(t) /\ used[t] = 0
    BY <1>0, <2>1, <2>2 DEF Once
  <2>4. used'[t] = 1
    BY <1>0, <2>1, <2>2, <2>3
  <2>5. ASSUME NEW q \in Requests, Holds(req'[q], t) PROVE FALSE
    <3>1. Holds(req[q], t)
      BY <1>2, <2>3, <2>5 DEF Takes
    <3>2. q = r
      BY <1>0, <2>1, <2>2, <3>1 DEF Once
    <3>. QED
      BY <2>1, <2>5, <3>2 DEF Holds
  <2>. QED
    BY <1>1, <2>3, <2>4, <2>5
<1>4. ASSUME NEW q \in Requests, NEW t \in Tokens, Takes(q, t) PROVE Spent(t)' /\ used[t] = 0
  BY <1>0, <1>4 DEF Takes, Spent, Once
<1>5. ASSUME NEW q \in Requests, NEW t \in Tokens, Holds(req'[q], t)
      PROVE  Spent(t)' /\ used'[t] = 0
  BY <1>0, <1>1, <1>2, <1>3, <1>4, <1>5 DEF Once
<1>6. ASSUME NEW p \in Requests, NEW q \in Requests, NEW t \in Tokens,
             Holds(req'[p], t), Holds(req'[q], t), p # q
      PROVE  FALSE
  <2>1. CASE Holds(req[p], t) /\ Holds(req[q], t)
    BY <1>0, <1>6, <2>1 DEF Once
  <2>2. CASE Takes(p, t)
    BY <1>0, <1>6, <2>2 DEF Takes, Once
  <2>3. CASE Takes(q, t)
    BY <1>0, <1>6, <2>3 DEF Takes, Once
  <2>. QED
    BY <1>2, <1>6, <2>1, <2>2, <2>3
<1>7. \A t \in Tokens : used'[t] <= 1 /\ (used'[t] > 0 => Spent(t)')
  BY <1>0, <1>1, <1>3 DEF Once
<1>8. Once'
  BY <1>1, <1>2, <1>5, <1>6, <1>7 DEF Once
<1>. QED
  BY <1>0, <1>8 DEF LinkInv

\* A mailed link takes effect at most once, in either store and under any interleaving:
\* redeemAndLogin and EmailChangeConfirm consume it at once, and PasswordResetConfirm,
\* which looks at it first, goes on only if it consumes it itself.
THEOREM LinkOnce == Spec => []LinkWorksOnce
<1>1. Init => LinkInv
  <2>. SUFFICES ASSUME Init PROVE LinkInv
    OBVIOUS
  <2>1. TypeInv
    BY TypeInit
  <2>2. ~Carries(Idle) /\ Placed(Idle)
    BY DEF Carries, Idle, Placed
  <2>3. Once
    BY <2>2 DEF Init, Once, Holds
  <2>. QED
    BY <2>1, <2>3 DEF LinkInv
<1>2. LinkInv => LinkWorksOnce
  BY DEF LinkInv, Once, LinkWorksOnce
<1>. QED
  BY LinkStep, <1>1, <1>2, PTL DEF Spec

-----------------------------------------------------------------------------
(* A block is lifted only by an admin *)

BlockInv == OneInv /\ \A r \in Requests : req[r].pc # "save"

\* With an atomic store no request ever holds a row to be saved.
LEMMA BlockStep == ~SQL /\ BlockInv /\ [Next]_vars => BlockInv'
<1>. SUFFICES ASSUME ~SQL, BlockInv, [Next]_vars PROVE BlockInv'
  OBVIOUS
<1>1. OneInv /\ OneInv' /\ TypeInv
  BY OneStep DEF BlockInv, OneInv
<1>2. ASSUME NEW q \in Requests PROVE req'[q].pc # "save"
  <2>1. PICK x, y : x = req[q] /\ y = req'[q]
    OBVIOUS
  <2>2. x.pc # "save"
    BY <2>1 DEF BlockInv
  <2>3. y = x \/ Arrived(y) \/ Stepped(x, y)
    BY <1>1, <2>1, Moves
  <2>4. Arrived(y) => y.pc # "save"
    BY DEF Arrived
  <2>5. Stepped(x, y) => y.pc # "save"
    <3>1. Passes(x, y) => y.pc # "save"
      BY DEF Passes
    <3>2. Idle.pc # "save"
      BY DEF Idle
    <3>. QED
      BY <3>1, <3>2 DEF Stepped
  <2>. QED
    BY <2>1, <2>2, <2>3, <2>4, <2>5
<1>. QED
  BY <1>1, <1>2 DEF BlockInv

\* The next key belongs to no row.
LEMMA NextKeyFree ==
    ASSUME OneInv, NEW i \in Live
    PROVE  /\ users \in [Ids -> Row \cup {None}] /\ users[i] \in Row /\ i \in Ids
           /\ i # nextId + 1
<1>1. users \in [Ids -> Row \cup {None}] /\ i \in Ids /\ users[i] # None
  BY DEF OneInv, TypeInv, TypeOK, Live
<1>2. i <= nextId /\ i \in Int /\ nextId \in Int
  BY AccountsAssumption DEF OneInv, Fresh, TypeInv, TypeOK, Live, Ids
<1>. QED
  BY <1>1, <1>2

\* Which write of the store leaves the block of row i alone.
Leaves(i) == users'[i] = None \/ users'[i].blocked = users[i].blocked

\* UpsertUserOnLogin updates the columns of the identity, and a new row takes a new key.
LEMMA UpsertLeaves ==
    ASSUME OneInv, NEW sub, NEW e, NEW ver, NEW k \in Ids, Upserted(sub, e, ver, k),
           NEW i \in Live
    PROVE  Leaves(i)
<1>0. /\ users \in [Ids -> Row \cup {None}] /\ users[i] \in Row /\ i \in Ids
      /\ i # nextId + 1
  BY NextKeyFree
<1>1. ASSUME k \in Live, UpdateBySub(k, e, ver) PROVE Leaves(i)
  <2>. DEFINE w == [users[k] EXCEPT !.email = e, !.verified = @ \/ ver]
  <2>1. users' = [users EXCEPT ![k] = w]
    BY <1>0, <1>1 DEF UpdateBySub
  <2>2. users[k] \in Row
    BY <1>0, <1>1 DEF Live
  <2>3. w.blocked = users[k].blocked
    BY <2>2 DEF Row
  <2>. HIDE DEF w
  <2>. QED
    BY <1>0, <2>1, <2>3 DEF Leaves
<1>2. ASSUME k \in Live, Adopt(k, sub, ver) PROVE Leaves(i)
  <2>. DEFINE w == [users[k] EXCEPT !.sub = sub, !.verified = @ \/ ver]
  <2>1. users' = [users EXCEPT ![k] = w]
    BY <1>0, <1>2 DEF Adopt
  <2>2. users[k] \in Row
    BY <1>0, <1>2 DEF Live
  <2>3. w.blocked = users[k].blocked
    BY <2>2 DEF Row
  <2>. HIDE DEF w
  <2>. QED
    BY <1>0, <2>1, <2>3 DEF Leaves
<1>3. ASSUME NEW j, Reclaim(j, sub, e) PROVE Leaves(i)
  <2>1. users' = [users EXCEPT ![j] = None, ![nextId + 1] = NewRow(sub, e, TRUE)]
    BY <1>3 DEF Reclaim
  <2>. QED
    BY <1>0, <2>1 DEF Leaves
<1>4. ASSUME CreateRow(sub, e, ver) PROVE Leaves(i)
  <2>1. users' = [users EXCEPT ![nextId + 1] = NewRow(sub, e, ver)]
    BY <1>4 DEF CreateRow
  <2>. QED
    BY <1>0, <2>1 DEF Leaves
<1>. QED
  BY <1>1, <1>2, <1>3, <1>4 DEF Upserted, BySub, ByEmail

\* With a store whose calls are atomic, a ban or a disable ends only by adminSetBan or
\* adminSetDisabled, never by a login that was under way: UpsertUserOnLogin writes the
\* columns of the identity and no other, and a new row never takes the key of a row that
\* is there.
THEOREM BlockKept ==
    ASSUME ~SQL
    PROVE  Spec => BlockSticks
<1>. DEFINE A == \A i \in Live : users[i].blocked /\ users'[i] # None /\ ~users'[i].blocked
                                     => adminSetBlocked(i, FALSE)
<1>1. Init => BlockInv
  BY OneInit DEF Init, BlockInv, Idle
<1>2. BlockInv /\ [Next]_vars => BlockInv'
  BY BlockStep
<1>3. BlockInv /\ [Next]_vars => A
  <2>. SUFFICES ASSUME BlockInv, [Next]_vars, NEW i \in Live,
                       users[i].blocked, users'[i] # None, ~users'[i].blocked
                PROVE  adminSetBlocked(i, FALSE)
    OBVIOUS
  <2>0. /\ OneInv /\ TypeInv /\ TypeOK /\ users[i] \in Row /\ i \in Ids
        /\ users \in [Ids -> Row \cup {None}] /\ i # nextId + 1
    BY NextKeyFree DEF BlockInv, OneInv, TypeInv
  <2>1. ~Leaves(i)
    BY DEF Leaves
  <2>2. ASSUME NEW r \in Requests, Step(r) PROVE FALSE
    <3>1. CASE users' = users
      BY <2>1, <3>1 DEF Leaves
    <3>2. CASE CreateLocalUser(r) /\ users' # users
      <4>1. CreateRow(local(nextId + 1), req[r].email, FALSE)
        BY <3>2, Zenon DEF CreateLocalUser
      <4>2. PICK w : users' = [users EXCEPT ![nextId + 1] = w]
        BY <4>1 DEF CreateRow
      <4>. QED
        BY <2>0, <2>1, <4>2 DEF Leaves
    <3>3. CASE SetEmailVerified(r)
      <4>1. users' = users \/ users' = [users EXCEPT ![req[r].id].verified = TRUE]
        BY <3>3 DEF SetEmailVerified
      <4>. QED
        BY <2>0, <2>1, <4>1 DEF Leaves, Row
    <3>4. CASE EmailChangeConfirm(r)
      <4>1. \/ users' = users
            \/ users' = [users EXCEPT ![req[r].id].email = req[r].email,
                                      ![req[r].id].verified = TRUE]
        BY <3>4 DEF EmailChangeConfirm, SetEmail
      <4>. QED
        BY <2>0, <2>1, <4>1 DEF Leaves, Row
    <3>5. CASE UpsertUserOnLogin(r) /\ users' # users
      <4>1. PICK k \in Ids : Upserted(req[r].sub, req[r].email, req[r].ver, k)
        BY <3>5 DEF UpsertUserOnLogin
      <4>. QED
        BY <2>0, <2>1, <4>1, UpsertLeaves
    <3>6. CASE Save(r)
      BY <3>6 DEF Save, BlockInv
    <3>. QED
      BY <2>2, <3>1, <3>2, <3>3, <3>4, <3>5, <3>6 DEF Step, SetPasswordHash, CreateToken,
         PasswordResetConsume, LookupByEmail, Rehash, SocialByEmail, LinkOAuth
  <2>3. ASSUME NEW r \in Requests, Arrive(r) PROVE FALSE
    BY <2>0, <2>1, <2>3, ArrivesFrame DEF Leaves
  <2>4. ASSUME NEW k \in Live, DeleteUser(k) PROVE FALSE
    BY <2>0, <2>1, <2>4 DEF DeleteUser, Leaves
  <2>5. ASSUME NEW k \in Live, NEW b \in BOOLEAN, adminSetBlocked(k, b)
        PROVE  adminSetBlocked(i, FALSE)
    <3>1. users' = [users EXCEPT ![k].blocked = b]
      BY <2>5 DEF adminSetBlocked
    <3>2. k = i
      BY <2>0, <2>1, <3>1 DEF Leaves
    <3>3. users'[i].blocked = b
      BY <2>0, <3>1, <3>2 DEF Row
    <3>4. b = FALSE
      BY <3>3
    <3>. QED
      BY <2>5, <3>2, <3>4
  <2>6. CASE users' = users
    BY <2>1, <2>6 DEF Leaves
  <2>. QED
    BY <2>2, <2>3, <2>4, <2>5, <2>6 DEF Next, vars, AddPasskey, PasskeyRemove, OAuthUnlink
<1>. QED
  BY <1>1, <1>2, <1>3, PTL DEF Spec, BlockSticks

-----------------------------------------------------------------------------
(* Passwords and sign-in methods *)

\* What a step makes of the credentials of row i: they are kept, or go with the row; a
\* password is replaced by a new one, or by the one that a login has read; a passkey or
\* an identity is removed by its handler only.
CredMoves(i) ==
    /\ \/ password'[i] = password[i]
       \/ password'[i] = chosen' /\ chosen' = chosen + 1
       \/ \E r \in Requests : req[r].pc = "rehash" /\ password'[i] = req[r].pw
       \/ password'[i] = 0 /\ users'[i] = None
    /\ users'[i] # None =>
          /\ passkeys'[i] >= passkeys[i] \/ PasskeyRemove(i)
          /\ \A s \in Socials : links[s] = i => links'[s] = i \/ OAuthUnlink(i, s)
    /\ chosen' = chosen \/ chosen' = chosen + 1

\* CredMoves holds of every row in every step.
LEMMA AllCredMoves ==
    ASSUME OneInv, [Next]_vars, NEW i \in Ids
    PROVE  CredMoves(i)
<1>. USE AccountsAssumption DEF creds, mail, history
<1>0. /\ TypeInv /\ TypeOK /\ password \in [Ids -> 0 .. MaxPassword] /\ 0 \notin Ids
      /\ passkeys \in [Ids -> 0 .. MaxPasskeys] /\ links \in [Socials -> 0 .. MaxId]
      /\ passkeys[i] \in Nat
  <2>1. TypeInv /\ TypeOK
    BY DEF OneInv, TypeInv
  <2>2. 0 \notin Ids
    BY DEF Ids
  <2>. QED
    BY <2>1, <2>2 DEF TypeOK
<1>1. ASSUME UNCHANGED creds PROVE CredMoves(i)
  BY <1>0, <1>1 DEF CredMoves
<1>2. ASSUME NEW j, CascadeCreds(j), users'[j] = None PROVE CredMoves(i)
  <2>1. chosen' = chosen
    BY <1>2 DEF CascadeCreds
  <2>2. CASE i = j
    BY <1>0, <1>2, <2>1, <2>2 DEF CascadeCreds, CredMoves
  <2>3. CASE i # j
    <3>1. password'[i] = password[i] /\ passkeys'[i] = passkeys[i]
      BY <1>0, <1>2, <2>3 DEF CascadeCreds
    <3>2. \A s \in Socials : links[s] = i => links'[s] = i
      BY <1>0, <1>2, <2>3 DEF CascadeCreds
    <3>. QED
      BY <1>0, <2>1, <3>1, <3>2 DEF CredMoves
  <2>. QED
    BY <2>2, <2>3
<1>3. ASSUME NEW r \in Requests, SetPasswordHash(r) PROVE CredMoves(i)
  <2>1. chosen' = chosen + 1 /\ UNCHANGED <<passkeys, links>>
        /\ password' = [password EXCEPT ![req[r].id] = chosen']
    BY <1>3 DEF SetPasswordHash
  <2>2. password'[i] = password[i] \/ password'[i] = chosen'
    BY <1>0, <2>1
  <2>. QED
    BY <1>0, <2>1, <2>2 DEF CredMoves
<1>4. ASSUME NEW r \in Requests, Rehash(r) PROVE CredMoves(i)
  <2>1. req[r].pc = "rehash" /\ UNCHANGED <<chosen, passkeys, links>>
        /\ password' = [password EXCEPT ![req[r].id] = req[r].pw]
    BY <1>4 DEF Rehash
  <2>2. password'[i] = password[i] \/ password'[i] = req[r].pw
    BY <1>0, <2>1
  <2>. QED
    BY <1>0, <2>1, <2>2 DEF CredMoves
<1>5. ASSUME NEW r \in Requests, LinkOAuth(r) PROVE CredMoves(i)
  <2>1. UNCHANGED <<password, chosen, passkeys>>
        /\ links' = [links EXCEPT ![req[r].soc] = IF @ = 0 THEN req[r].id ELSE @]
    BY <1>5 DEF LinkOAuth
  <2>2. \A s \in Socials : links[s] = i => links'[s] = i
    BY <1>0, <2>1
  <2>. QED
    BY <1>0, <2>1, <2>2 DEF CredMoves
<1>6. ASSUME NEW r \in Requests, UpsertUserOnLogin(r) PROVE CredMoves(i)
  <2>1. ASSUME NEW sub, NEW e, NEW j \in Live, Reclaim(j, sub, e) PROVE CredMoves(i)
    <3>1. j # nextId + 1 /\ j \in Ids /\ users \in [Ids -> Row \cup {None}]
      BY NextKeyFree
    <3>2. users' = [users EXCEPT ![j] = None, ![nextId + 1] = NewRow(sub, e, TRUE)]
      BY <2>1 DEF Reclaim
    <3>3. users'[j] = None
      BY <3>1, <3>2
    <3>. QED
      BY <1>2, <2>1, <3>3 DEF Reclaim
  <2>2. ASSUME NEW sub, NEW e, NEW ver, NEW k, Upserted(sub, e, ver, k) PROVE CredMoves(i)
    BY <1>1, <2>1, <2>2 DEF Upserted, ByEmail
  <2>. QED
    BY <1>1, <1>6, <2>2 DEF UpsertUserOnLogin
<1>7. ASSUME NEW r \in Requests, Step(r) PROVE CredMoves(i)
  BY <1>1, <1>3, <1>4, <1>5, <1>6, <1>7 DEF Step, CreateLocalUser, CreateToken,
     PasswordResetConsume, SetEmailVerified, EmailChangeConfirm, LookupByEmail, SocialByEmail,
     Save
<1>8. ASSUME NEW r \in Requests, Arrive(r) PROVE CredMoves(i)
  BY <1>0, <1>1, <1>8, ArrivesFrame
<1>9. ASSUME NEW k \in Live, AddPasskey(k) PROVE CredMoves(i)
  <2>1. passkeys'[i] >= passkeys[i]
    BY <1>0, <1>9 DEF AddPasskey
  <2>. QED
    BY <1>9, <2>1 DEF AddPasskey, CredMoves
<1>10. ASSUME NEW k \in Live, PasskeyRemove(k) PROVE CredMoves(i)
  <2>1. k # i => passkeys'[i] >= passkeys[i]
    BY <1>0, <1>10 DEF PasskeyRemove
  <2>2. UNCHANGED <<password, chosen, links>>
    BY <1>10 DEF PasskeyRemove
  <2>. QED
    BY <1>10, <2>1, <2>2 DEF CredMoves
<1>11. ASSUME NEW k \in Live, NEW s \in Socials, OAuthUnlink(k, s) PROVE CredMoves(i)
  <2>1. UNCHANGED <<password, chosen, passkeys>> /\ links' = [links EXCEPT ![s] = 0] /\ links[s] = k
    BY <1>11 DEF OAuthUnlink
  <2>2. \A z \in Socials : links[z] = i => links'[z] = i \/ (z = s /\ k = i)
    BY <1>0, <2>1
  <2>. QED
    BY <1>0, <1>11, <2>1, <2>2 DEF CredMoves
<1>12. ASSUME NEW k \in Live, DeleteUser(k) PROVE CredMoves(i)
  <2>1. users'[k] = None
    BY <1>0, <1>12 DEF DeleteUser, TypeOK, Live
  <2>. QED
    BY <1>2, <1>12, <2>1 DEF DeleteUser
<1>. QED
  BY <1>1, <1>7, <1>8, <1>9, <1>10, <1>11, <1>12 DEF Next, vars, adminSetBlocked

\* A login that writes a hash back writes that of a password, and only where the cost
\* was raised.
MethodInv ==
    /\ OneInv
    /\ \A r \in Requests : req[r].pc = "rehash" => StaleCost /\ req[r].pw > 0

\* MethodInv is inductive.
LEMMA MethodStep == MethodInv /\ [Next]_vars => MethodInv'
<1>. SUFFICES ASSUME MethodInv, [Next]_vars PROVE MethodInv'
  OBVIOUS
<1>1. OneInv /\ OneInv' /\ TypeInv
  BY OneStep DEF MethodInv, OneInv
<1>2. ASSUME NEW q \in Requests, req'[q].pc = "rehash" PROVE StaleCost /\ req'[q].pw > 0
  <2>1. PICK x, y : x = req[q] /\ y = req'[q]
    OBVIOUS
  <2>2. y = x \/ Arrived(y) \/ Stepped(x, y)
    BY <1>1, <2>1, Moves
  <2>3. Arrived(y) => StaleCost /\ y.pw > 0
    BY <1>2, <2>1 DEF Arrived
  <2>4. Passes(x, y) => y.pc # "rehash"
    BY DEF Passes
  <2>5. Idle.pc # "rehash"
    BY DEF Idle
  <2>6. ~Stepped(x, y)
    BY <1>2, <2>1, <2>4, <2>5 DEF Stepped
  <2>. QED
    BY <1>2, <2>1, <2>2, <2>3, <2>6 DEF MethodInv
<1>. QED
  BY <1>1, <1>2 DEF MethodInv

\* No request writes a hash back when the system starts.
LEMMA MethodInit == Init => MethodInv
BY OneInit DEF Init, MethodInv, Idle

\* The password of a row is one of those chosen.
PwInv == MethodInv /\ \A i \in Ids : password[i] <= chosen

\* Without hashes of an older cost, PwInv is inductive.
LEMMA PwStep == ~StaleCost /\ PwInv /\ [Next]_vars => PwInv'
<1>. SUFFICES ASSUME ~StaleCost, PwInv, [Next]_vars PROVE PwInv'
  OBVIOUS
<1>1. MethodInv /\ OneInv /\ MethodInv'
  BY MethodStep DEF PwInv, MethodInv
<1>2. chosen \in Nat /\ password \in [Ids -> Nat]
  BY <1>1, AccountsAssumption DEF OneInv, TypeInv, TypeOK
<1>3. ASSUME NEW i \in Ids PROVE password'[i] <= chosen'
  <2>1. CredMoves(i) /\ password[i] <= chosen /\ password[i] \in Nat
    BY <1>1, <1>2, AllCredMoves DEF PwInv
  <2>2. /\ chosen' = chosen \/ chosen' = chosen + 1
        /\ password'[i] = password[i] \/ password'[i] = chosen' \/ password'[i] = 0
    BY <1>1, <2>1 DEF CredMoves, MethodInv
  <2>. QED
    BY <1>2, <2>1, <2>2
<1>. QED
  BY <1>1, <1>3 DEF PwInv

\* When no hash is of an older cost, a password is only ever replaced by one that was
\* chosen later: no interleaving of sign-up, reset, change, deletion and login brings an
\* earlier one back.
THEOREM PasswordKept ==
    ASSUME ~StaleCost
    PROVE  Spec => PasswordNotReverted
<1>1. Init => PwInv
  BY MethodInit, AccountsAssumption DEF Init, PwInv
<1>2. PwInv /\ [Next]_vars => PwInv'
  BY PwStep
<1>3. PwInv /\ [Next]_vars => \A i \in Ids : password'[i] >= password[i] \/ users'[i] = None
  <2>. SUFFICES ASSUME PwInv, [Next]_vars, NEW i \in Ids
                PROVE  password'[i] >= password[i] \/ users'[i] = None
    OBVIOUS
  <2>1. CredMoves(i) /\ password[i] <= chosen
    BY AllCredMoves DEF PwInv, MethodInv
  <2>2. chosen \in Nat /\ password[i] \in Nat
    BY AccountsAssumption DEF PwInv, MethodInv, OneInv, TypeInv, TypeOK
  <2>3. \/ password'[i] = password[i]
        \/ password'[i] = chosen + 1
        \/ users'[i] = None
    BY <2>1 DEF CredMoves, PwInv, MethodInv
  <2>. QED
    BY <2>1, <2>2, <2>3
<1>. QED
  BY <1>1, <1>2, <1>3, PTL DEF Spec, PasswordNotReverted

\* signInMethods counts something if there is something.
LEMMA CountPositive ==
    ASSUME NEW p \in Nat, NEW k \in Nat, NEW S, IsFiniteSet(S)
    PROVE  /\ Cardinality(S) \in Nat
           /\ ((IF p > 0 THEN 1 ELSE 0) + k + Cardinality(S) > 0) <=> (p > 0 \/ k > 0 \/ S # {})
<1>1. Cardinality(S) \in Nat
  BY FS_CardinalityType
<1>2. Cardinality(S) = 0 <=> S = {}
  BY FS_EmptySet
<1>. QED
  BY <1>1, <1>2

\* A row that has a way to sign in keeps one as long as it exists, in either store:
\* PasskeyRemove and OAuthUnlink refuse to take the last one, and no other step takes one
\* from a row that stays.  The count and the removal are one step under credMu; a hash
\* written back by a login is that of a password, and the cascade of a reclaimed row
\* spares the row that takes its place.
THEOREM MethodKept == Spec => LastMethodKept
<1>. USE AccountsAssumption
<1>1. MethodInv /\ [Next]_vars
        => \A i \in Live : users'[i] # None /\ Methods(i) > 0 => Methods(i)' > 0
  <2>. SUFFICES ASSUME MethodInv, [Next]_vars, NEW i \in Live, users'[i] # None, Methods(i) > 0
                PROVE  Methods(i)' > 0
    OBVIOUS
  <2>0. i \in Ids /\ i # 0 /\ OneInv
    BY DEF Live, MethodInv, Ids
  <2>1. /\ password[i] \in Nat /\ passkeys[i] \in Nat /\ chosen \in Nat
        /\ passkeys \in [Ids -> 0 .. MaxPasskeys] /\ links \in [Socials -> 0 .. MaxId]
    BY <2>0 DEF OneInv, TypeInv, TypeOK
  <2>2. password'[i] \in Nat /\ passkeys'[i] \in Nat
    <3>1. TypeOK'
      BY <2>0, OneStep DEF OneInv, TypeInv
    <3>. QED
      BY <2>0, <3>1 DEF TypeOK
  <2>. DEFINE S == {s \in Socials : links[s] = i}
              T == {s \in Socials : links'[s] = i}
              n == IF password[i] > 0 THEN 1 ELSE 0
              m == IF password'[i] > 0 THEN 1 ELSE 0
  <2>3. Methods(i) = n + passkeys[i] + Cardinality(S) /\ n \in Nat
    BY DEF Methods
  <2>4. Methods(i)' = m + passkeys'[i] + Cardinality(T)
    BY DEF Methods
  <2>5. CredMoves(i)
    BY <2>0, AllCredMoves
  <2>6. IsFiniteSet(S) /\ Cardinality(S) \in Nat /\ IsFiniteSet(T)
    BY FS_Subset, FS_CardinalityType
  <2>a. password[i] > 0 \/ passkeys[i] > 0 \/ S # {}
    <3>. HIDE DEF S
    <3>. QED
      BY <2>1, <2>3, <2>6, CountPositive
  <2>b. ASSUME password'[i] > 0 \/ passkeys'[i] > 0 \/ T # {} PROVE Methods(i)' > 0
    <3>. HIDE DEF T
    <3>. QED
      BY <2>2, <2>4, <2>6, <2>b, CountPositive
  <2>7. CASE PasskeyRemove(i)
    <3>1. /\ passkeys'[i] = passkeys[i] - 1 /\ password' = password /\ links' = links
          /\ Methods(i) > 1
      BY <2>0, <2>1, <2>7 DEF PasskeyRemove, NotLast
    <3>2. T = S /\ m = n
      BY <3>1
    <3>. HIDE DEF S, T, n, m
    <3>. QED
      BY <2>1, <2>3, <2>4, <2>6, <3>1, <3>2
  <2>8. ASSUME NEW s \in Socials, OAuthUnlink(i, s) PROVE Methods(i)' > 0
    <3>1. /\ links' = [links EXCEPT ![s] = 0] /\ password' = password /\ passkeys' = passkeys
          /\ links[s] = i /\ Methods(i) > 1
      BY <2>8 DEF OAuthUnlink, NotLast
    <3>2. T = S \ {s} /\ s \in S /\ m = n
      BY <2>0, <2>1, <3>1
    <3>. HIDE DEF S, T, n, m
    <3>3. Cardinality(S \ {s}) = Cardinality(S) - 1
      BY <2>6, <3>2, FS_RemoveElement
    <3>. QED
      BY <2>1, <2>3, <2>4, <2>6, <3>1, <3>2, <3>3
  <2>9. CASE ~PasskeyRemove(i) /\ \A s \in Socials : ~OAuthUnlink(i, s)
    <3>1. passkeys[i] > 0 => passkeys'[i] > 0
      BY <2>1, <2>2, <2>5, <2>9 DEF CredMoves
    <3>2. S \subseteq T
      BY <2>5, <2>9 DEF CredMoves
    <3>3. password[i] > 0 => password'[i] > 0
      BY <2>1, <2>5 DEF CredMoves, MethodInv
    <3>. QED
      BY <2>a, <2>b, <3>1, <3>2, <3>3
  <2>. QED
    BY <2>7, <2>8, <2>9
<1>. QED
  BY MethodInit, MethodStep, <1>1, PTL DEF Spec, LastMethodKept
=============================================================================
