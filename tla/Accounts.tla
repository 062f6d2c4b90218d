------------------------------ MODULE Accounts ------------------------------
(***************************************************************************)
(* User rows, their addresses and their sign-in methods: sign-up, one-time  *)
(* e-mail links, change of address, social and OIDC linking, removal of     *)
(* methods, deletion and blocking, over a CredentialStore.                  *)
(*                                                                          *)
(* A handler is one step per store call that writes, or whose answer is     *)
(* used after a later call; requests interleave between the steps.  With    *)
(* SQL the store is gormstore, whose UpsertUserOnLogin reads a row and      *)
(* saves it with a second statement; otherwise each call is atomic.         *)
(* Passing time only makes a link or a session useless, so there is no      *)
(* clock: any step may fail to happen.                                      *)
(***************************************************************************)
EXTENDS Integers, FiniteSets

CONSTANTS
    Emails,        \* normalised addresses
    Requests,      \* slots for requests in flight
    MaxId,         \* bound on the rows ever created
    MaxTokens,     \* bound on the links ever mailed
    MaxPasskeys,   \* bound on the passkeys of a row
    MaxPassword,   \* bound on the passwords ever chosen
    Socials,       \* 1 .. n: social identities, each of its own provider
    OIDCSubs,      \* 1 .. n: subjects of the OIDC issuer
    Seed,          \* address of an operator-seeded "bootstrap:" row, or None
    Handlers,      \* the handlers that this instance serves
    Dir,           \* is a DirectoryStore wired
    SQL,           \* gormstore instead of the in-memory store
    UnprovenOIDC,  \* may the issuer assert addresses it has not verified
    StaleCost,     \* was the first password hashed before bcryptCost was raised
    None

ASSUME AccountsAssumption ==
    /\ MaxId \in Nat \ {0}
    /\ MaxTokens \in Nat
    /\ MaxPasskeys \in Nat
    /\ MaxPassword \in Nat
    /\ Socials \subseteq Nat /\ IsFiniteSet(Socials)
    /\ OIDCSubs \subseteq Nat
    /\ Seed \in Emails \cup {None}
    /\ None \notin Emails
    /\ Dir \in BOOLEAN
    /\ SQL \in BOOLEAN
    /\ UnprovenOIDC \in BOOLEAN
    /\ StaleCost \in BOOLEAN

VARIABLES
    users,      \* user rows by primary key
    nextId,     \* the last primary key handed out
    password,   \* by primary key: which password is set, 0 for none
    chosen,     \* how many passwords were ever chosen
    passkeys,   \* by primary key: how many passkeys
    links,      \* by social identity: the primary key it is linked to, or 0
    tokens,     \* mailed links, by number
    issued,     \* how many links were mailed
    session,    \* subjects that hold a session
    req,        \* requests in flight
    proven,     \* history: <<subject, address>> pairs that a login has proved
    used        \* history: by link, how often it took effect

creds == <<password, chosen, passkeys, links>>
mail == <<tokens, issued>>
history == <<proven, used>>
vars == <<users, nextId, creds, mail, session, req, history>>

-----------------------------------------------------------------------------
(* Data *)

Ids == 1 .. MaxId
Tokens == 1 .. MaxTokens

Sub == [kind : {"bootstrap", "local", "oidc", "social"}, n : Nat]
local(i) == [kind |-> "local", n |-> i]

Row == [sub : Sub, email : Emails, verified : BOOLEAN, blocked : BOOLEAN]

\* AuthToken; "login" stands for the magic-login and the verify-email link,
\* which are redeemed by the same code.
Purposes == {"login", "reset", "change"}
Token == [purpose : Purposes, id : Ids, email : Emails, consumed : BOOLEAN]

\* None is no row and no link.
ASSUME NoneAssumption == None \notin Row \cup Token

PCs == {"idle", "create", "setPassword", "token", "consume", "setVerified",
        "lookup", "setEmail", "byEmail", "link", "rehash", "upsert", "save"}
Ops == {"none", "signup", "mail", "redeem", "reset", "change", "otp", "login",
        "oidc", "social", "new", "reclaim", "account", "admin"}

\* What a handler holds in its local variables: the row it found, the identity
\* for completeLogin, the link, the social identity, and for "save" the whole
\* row that gorm read.
Request ==
    [pc : PCs, op : Ops, id : 0 .. MaxId, sub : Sub, email : Emails \cup {None},
     ver : BOOLEAN, tok : 0 .. MaxTokens, purpose : Purposes, soc : Nat,
     pw : 0 .. MaxPassword, halt : BOOLEAN, row : Row \cup {None}]

Idle == [pc |-> "idle", op |-> "none", id |-> 0, sub |-> local(0), email |-> None,
         ver |-> FALSE, tok |-> 0, purpose |-> "login", soc |-> 0,
         pw |-> 0, halt |-> FALSE, row |-> None]

Live == {i \in Ids : users[i] # None}
ByEmail(e) == {i \in Live : users[i].email = e}
BySub(sub) == {i \in Live : users[i].sub = sub}

\* signInMethods: a password, each passkey, each linked provider.
Methods(i) ==
    (IF password[i] > 0 THEN 1 ELSE 0) + passkeys[i]
        + Cardinality({s \in Socials : links[s] = i})

-----------------------------------------------------------------------------
(* The store *)

\* Mutant: a new row counts as verified from the start.
NewRowVerified(sub, e, ver) == [sub |-> sub, email |-> e, verified |-> TRUE, blocked |-> FALSE]

NewRow(sub, e, ver) == [sub |-> sub, email |-> e, verified |-> ver, blocked |-> FALSE]

CreateRow(sub, e, ver) ==
    /\ nextId < MaxId
    /\ nextId' = nextId + 1
    /\ users' = [users EXCEPT ![nextId'] = NewRow(sub, e, ver)]

\* Everything keyed to a row dies with it.
CascadeCreds(i) ==
    /\ password' = [password EXCEPT ![i] = 0]
    /\ passkeys' = [passkeys EXCEPT ![i] = 0]
    /\ links' = [s \in Socials |-> IF links[s] = i THEN 0 ELSE links[s]]
    /\ tokens' = [t \in Tokens |-> IF tokens[t] # None /\ tokens[t].id = i
                                   THEN None ELSE tokens[t]]
    /\ UNCHANGED <<chosen, issued>>

Bootstrap(i) == users[i].sub.kind = "bootstrap"

\* Mutant: the row is written anew instead of updated.
UpdateBySubWhole(i, e, ver) ==
    /\ ByEmail(e) \subseteq {i}
    /\ users' = [users EXCEPT ![i] = NewRow(users[i].sub, e, users[i].verified \/ ver)]

\* UpsertUserOnLogin, found by subject: the identity is written back, unless the
\* address belongs to another row.
UpdateBySub(i, e, ver) ==
    /\ ByEmail(e) \subseteq {i}
    /\ users' = [users EXCEPT ![i].email = e, ![i].verified = @ \/ ver]

\* A row of the address is adopted if it is a placeholder, or verified and the
\* login proved the address.
MayAdopt(i, ver) == Bootstrap(i) \/ (users[i].verified /\ ver)

Adopt(i, sub, ver) == users' = [users EXCEPT ![i].sub = sub, ![i].verified = @ \/ ver]

\* Mutant: the unverified row keeps its address next to the new one.
ReclaimBeside(i, sub, e) ==
    /\ CreateRow(sub, e, TRUE)
    /\ UNCHANGED <<creds, mail>>

\* An unverified row gives way to a login that proved the address.
Reclaim(i, sub, e) ==
    /\ nextId < MaxId
    /\ nextId' = nextId + 1
    /\ users' = [users EXCEPT ![i] = None, ![nextId'] = NewRow(sub, e, TRUE)]
    /\ CascadeCreds(i)

\* UpsertUserOnLogin as one atomic call that succeeds and answers with row i.
Upserted(sub, e, ver, i) ==
    \/ /\ i \in BySub(sub) /\ UpdateBySub(i, e, ver)
       /\ UNCHANGED <<nextId, creds, mail>>
    \/ /\ BySub(sub) = {} /\ i \in ByEmail(e) /\ MayAdopt(i, ver) /\ Adopt(i, sub, ver)
       /\ UNCHANGED <<nextId, creds, mail>>
    \/ /\ BySub(sub) = {} /\ ver /\ i = nextId + 1
       /\ \E j \in ByEmail(e) : ~Bootstrap(j) /\ ~users[j].verified /\ Reclaim(j, sub, e)
    \/ /\ BySub(sub) = {} /\ ByEmail(e) = {} /\ i = nextId + 1 /\ CreateRow(sub, e, ver)
       /\ UNCHANGED <<creds, mail>>

\* ErrEmailConflict.
Conflict(sub, e, ver) ==
    \/ \E i \in BySub(sub) : ~(ByEmail(e) \subseteq {i})
    \/ BySub(sub) = {} /\ ~ver /\ \E i \in ByEmail(e) : ~Bootstrap(i)

-----------------------------------------------------------------------------
(* Requests *)

Begin(r, h, fields) ==
    /\ h \in Handlers
    /\ req[r].pc = "idle"
    /\ req' = [req EXCEPT ![r] = fields]

Finish(r) == req' = [req EXCEPT ![r] = Idle]

Goto(r, pc) == req' = [req EXCEPT ![r].pc = pc]

\* The request goes on with the identity of row i, for completeLogin.
As(i, rq) == [rq EXCEPT !.id = i, !.sub = users[i].sub, !.email = users[i].email, !.ver = TRUE]

\* PasswordSignup reads the row of the address; a verified one is left alone.
PasswordSignup(r, e) ==
    /\ \/ /\ ByEmail(e) = {}
          /\ Begin(r, "signup", [Idle EXCEPT !.pc = "create", !.op = "signup", !.email = e])
       \/ \E i \in ByEmail(e) :
             /\ ~users[i].verified
             /\ Begin(r, "signup", [Idle EXCEPT !.pc = "setPassword", !.op = "signup",
                                                !.id = i, !.email = e])
    /\ UNCHANGED <<users, nextId, creds, mail, session, history>>

\* adminCreateUser.
adminCreateUser(r, e) ==
    /\ Begin(r, "admin", [Idle EXCEPT !.pc = "create", !.op = "admin", !.email = e])
    /\ UNCHANGED <<users, nextId, creds, mail, session, history>>

\* CreateLocalUser on behalf of sign-up, the admin or a social login.
CreateLocalUser(r) ==
    /\ req[r].pc = "create"
    /\ LET e == req[r].email
       IN  \/ /\ ByEmail(e) # {}
              /\ Finish(r)
              /\ UNCHANGED <<users, nextId, proven>>
           \/ /\ ByEmail(e) = {}
              /\ CreateRow(local(nextId + 1), e, FALSE)
              /\ proven' = IF req[r].op = "social" THEN proven \cup {<<local(nextId'), e>>}
                                                  ELSE proven
              /\ \E pc \in CASE req[r].op = "signup" -> {"setPassword"}
                             [] req[r].op = "admin" -> {"setPassword", "setVerified"}
                             [] req[r].op = "social" -> {"link"} :
                    req' = [req EXCEPT ![r].pc = pc, ![r].id = nextId',
                                       ![r].sub = local(nextId'), ![r].ver = TRUE,
                                       ![r].op = IF @ = "social" THEN "new" ELSE @]
    /\ UNCHANGED <<creds, mail, session, used>>

\* AccountSetPassword by the holder of a session, or adminSetPassword: the row
\* is resolved before the password is hashed and written.
SetPassword(r, i) ==
    /\ users[i].sub \in session \/ "admin" \in Handlers
    /\ Begin(r, "password", [Idle EXCEPT !.pc = "setPassword", !.op = "account", !.id = i])
    /\ UNCHANGED <<users, nextId, creds, mail, session, history>>

\* SetPasswordHash upserts by primary key and does not look at the row.
SetPasswordHash(r) ==
    /\ req[r].pc = "setPassword"
    /\ chosen < MaxPassword
    /\ chosen' = chosen + 1
    /\ password' = [password EXCEPT ![req[r].id] = chosen']
    /\ used' = IF req[r].op = "reset" THEN [used EXCEPT ![req[r].tok] = @ + 1] ELSE used
    /\ \/ req[r].op = "signup" /\ Goto(r, "token")
       \/ req[r].op \in {"reset", "admin"} /\ Goto(r, "setVerified")
       \/ req[r].op \in {"account", "admin"} /\ Finish(r)
    /\ UNCHANGED <<users, nextId, passkeys, links, mail, session, proven>>

\* EmailRequest, PasswordResetRequest and the fresh confirmation link of
\* PasswordLogin look the user up.
MailRequest(r, i, purpose) ==
    /\ ~users[i].blocked
    /\ Begin(r, "mail", [Idle EXCEPT !.pc = "token", !.op = "mail", !.id = i,
                                     !.email = users[i].email, !.purpose = purpose])
    /\ UNCHANGED <<users, nextId, creds, mail, session, history>>

\* Mutant: the new address is written before it is confirmed.
AccountChangeEmailRequestEager(r, i, e) ==
    /\ users[i].sub \in session
    /\ ByEmail(e) = {}
    /\ Begin(r, "change", [Idle EXCEPT !.pc = "token", !.op = "mail", !.id = i,
                                       !.email = e, !.purpose = "change"])
    /\ users' = [users EXCEPT ![i].email = e]
    /\ UNCHANGED <<nextId, creds, mail, session, history>>

\* AccountChangeEmailRequest: the new address must be free when it is asked for.
AccountChangeEmailRequest(r, i, e) ==
    /\ users[i].sub \in session
    /\ ByEmail(e) = {}
    /\ Begin(r, "change", [Idle EXCEPT !.pc = "token", !.op = "mail", !.id = i,
                                       !.email = e, !.purpose = "change"])
    /\ UNCHANGED <<users, nextId, creds, mail, session, history>>

CreateToken(r) ==
    /\ req[r].pc = "token"
    /\ issued < MaxTokens
    /\ issued' = issued + 1
    /\ tokens' = [tokens EXCEPT ![issued'] =
                     [purpose |-> req[r].purpose, id |-> req[r].id,
                      email |-> req[r].email, consumed |-> FALSE]]
    /\ Finish(r)
    /\ UNCHANGED <<users, nextId, creds, session, history>>

\* PeekToken's test, and ConsumeToken's.
Valid(t, purpose) ==
    tokens[t] # None /\ tokens[t].purpose = purpose /\ ~tokens[t].consumed

\* Mutant: the reset link is taken on the strength of the earlier look.
ConsumeTokenUnchecked(t, purpose) ==
    /\ tokens[t] # None
    /\ tokens' = [tokens EXCEPT ![t].consumed = TRUE]

ConsumeToken(t, purpose) ==
    /\ Valid(t, purpose)
    /\ tokens' = [tokens EXCEPT ![t].consumed = TRUE]

\* redeemAndLogin, and EmailChangeConfirm: the link is consumed at once.
RedeemToken(r, t, purpose) ==
    /\ ConsumeToken(t, purpose)
    /\ Begin(r, "redeem",
             [Idle EXCEPT !.pc = IF purpose = "login" THEN "setVerified" ELSE "setEmail",
                          !.op = IF purpose = "login" THEN "redeem" ELSE "change",
                          !.id = tokens[t].id, !.email = tokens[t].email, !.tok = t])
    /\ UNCHANGED <<users, nextId, creds, issued, session, history>>

\* PasswordResetConfirm looks at the link first, to check the new password ...
PasswordResetPeek(r, t) ==
    /\ Valid(t, "reset")
    /\ Begin(r, "reset", [Idle EXCEPT !.pc = "consume", !.op = "reset", !.tok = t,
                                      !.id = tokens[t].id, !.email = tokens[t].email])
    /\ UNCHANGED <<users, nextId, creds, mail, session, history>>

\* ... and then consumes it.
PasswordResetConsume(r) ==
    /\ req[r].pc = "consume"
    /\ \/ ConsumeToken(req[r].tok, "reset") /\ Goto(r, "setPassword")
       \/ ~Valid(req[r].tok, "reset") /\ Finish(r) /\ UNCHANGED tokens
    /\ UNCHANGED <<users, nextId, creds, issued, session, history>>

\* EmailOTPVerify after the code was accepted: the address is proved.
EmailOTPVerify(r, e) ==
    /\ Begin(r, "otp", [Idle EXCEPT !.pc = "lookup", !.op = "otp", !.email = e])
    /\ UNCHANGED <<users, nextId, creds, mail, session, history>>

\* SetEmailVerified by primary key.
SetEmailVerified(r) ==
    /\ req[r].pc = "setVerified"
    /\ LET i == req[r].id
       IN  IF i \in Live
           THEN /\ users' = [users EXCEPT ![i].verified = TRUE]
                /\ proven' = proven \cup {<<users[i].sub, req[r].email>>}
           ELSE UNCHANGED <<users, proven>>
    /\ \/ req[r].op = "redeem" /\ Goto(r, "lookup")
       \/ req[r].op \in {"otp", "new"} /\ Goto(r, "upsert")
       \/ req[r].op \in {"reset", "admin"} /\ Finish(r)
    /\ UNCHANGED <<nextId, creds, mail, session, used>>

\* UserByEmail with the proved address, and the loginBlocked gate.
LookupByEmail(r) ==
    /\ req[r].pc = "lookup"
    /\ \/ \E i \in ByEmail(req[r].email) :
             /\ ~users[i].blocked
             /\ req' = [req EXCEPT ![r] =
                           [As(i, @) EXCEPT !.pc = IF req[r].op = "otp" THEN "setVerified"
                                                                        ELSE "upsert"]]
             /\ proven' = proven \cup {<<users[i].sub, req[r].email>>}
       \/ /\ \A i \in ByEmail(req[r].email) : users[i].blocked
          /\ Finish(r)
          /\ UNCHANGED proven
    /\ UNCHANGED <<users, nextId, creds, mail, session, used>>

\* Mutant: the address is moved without asking whose it is by now.
SetEmailUnchecked(i, e) ==
    users' = IF i \in Live THEN [users EXCEPT ![i].email = e, ![i].verified = TRUE] ELSE users

\* SetEmail refuses an address that another row holds by now.
SetEmail(i, e) ==
    /\ ByEmail(e) \subseteq {i}
    /\ users' = IF i \in Live THEN [users EXCEPT ![i].email = e, ![i].verified = TRUE]
                              ELSE users

EmailChangeConfirm(r) ==
    /\ req[r].pc = "setEmail"
    /\ LET i == req[r].id
           e == req[r].email
       IN  \/ /\ SetEmail(i, e)
              /\ proven' = IF i \in Live THEN proven \cup {<<users[i].sub, e>>} ELSE proven
              /\ used' = [used EXCEPT ![req[r].tok] = @ + 1]
           \/ /\ ~(ByEmail(e) \subseteq {i})
              /\ UNCHANGED <<users, history>>
    /\ Finish(r)
    /\ UNCHANGED <<nextId, creds, mail, session>>

\* Mutant: every login writes the hash back.
PasswordLoginRehash(r, i) ==
    /\ password[i] > 0
    /\ ~users[i].blocked /\ users[i].verified
    /\ Begin(r, "login", [As(i, Idle) EXCEPT !.op = "login", !.pw = password[i],
                                             !.pc = "rehash"])
    /\ UNCHANGED <<users, nextId, creds, mail, session, history>>

\* PasswordLogin: hash, then gates, on the row as it was first read.  A hash of
\* an older cost is written back before the gates.
PasswordLogin(r, i) ==
    /\ password[i] > 0
    /\ LET gate == ~users[i].blocked /\ users[i].verified
           stale == StaleCost /\ password[i] = 1
       IN  /\ stale \/ gate
           /\ Begin(r, "login",
                    [As(i, Idle) EXCEPT !.op = "login", !.pw = password[i], !.halt = ~gate,
                                        !.pc = IF stale THEN "rehash" ELSE "upsert"])
    /\ UNCHANGED <<users, nextId, creds, mail, session, history>>

Rehash(r) ==
    /\ req[r].pc = "rehash"
    /\ password' = [password EXCEPT ![req[r].id] = req[r].pw]
    /\ IF req[r].halt THEN Finish(r) ELSE Goto(r, "upsert")
    /\ UNCHANGED <<users, nextId, chosen, passkeys, links, mail, session, history>>

\* WebauthnLoginFinish: the row is not required to be verified.
WebauthnLoginFinish(r, i) ==
    /\ passkeys[i] > 0
    /\ ~users[i].blocked
    /\ Begin(r, "login", [As(i, Idle) EXCEPT !.pc = "upsert", !.op = "login"])
    /\ UNCHANGED <<users, nextId, creds, mail, session, history>>

\* Callback: an identity of the OIDC issuer, verified by it or not.
Callback(r, n, e) ==
    /\ \E ver \in IF UnprovenOIDC THEN BOOLEAN ELSE {TRUE} :
          /\ Begin(r, "oidc", [Idle EXCEPT !.pc = "upsert", !.op = "oidc", !.email = e,
                                           !.ver = ver, !.sub = [kind |-> "oidc", n |-> n]])
          /\ proven' = IF ver THEN proven \cup {<<[kind |-> "oidc", n |-> n], e>>} ELSE proven
    /\ UNCHANGED <<users, nextId, creds, mail, session, used>>

\* resolveSocialUser, by provider and subject; the address is one the provider
\* verified.  For gormstore a link to a missing row is an error.
SocialCallback(r, s, e) ==
    /\ \/ /\ links[s] \in Live
          /\ ~users[links[s]].blocked
          /\ Begin(r, "social", [As(links[s], Idle) EXCEPT !.pc = "upsert", !.op = "social"])
       \/ /\ links[s] = 0 \/ (~SQL /\ links[s] \notin Live)
          /\ Begin(r, "social", [Idle EXCEPT !.pc = "byEmail", !.op = "social",
                                             !.soc = s, !.email = e])
    /\ UNCHANGED <<users, nextId, creds, mail, session, history>>

\* resolveSocialUser, by address: link a verified row, reclaim an unverified
\* one if a directory is wired, else create.
SocialByEmail(r) ==
    /\ req[r].pc = "byEmail"
    /\ LET e == req[r].email
       IN  \/ \E i \in ByEmail(e) :
                 /\ users[i].verified
                 /\ req' = [req EXCEPT ![r] = [As(i, @) EXCEPT !.pc = "link",
                                                               !.halt = users[i].blocked]]
                 /\ proven' = proven \cup {<<users[i].sub, e>>}
           \/ \E i \in ByEmail(e) :
                 /\ ~users[i].verified
                 /\ IF Dir
                    THEN LET sub == [kind |-> "social", n |-> req[r].soc]
                         IN  /\ req' = [req EXCEPT ![r].pc = "upsert", ![r].op = "reclaim",
                                                   ![r].ver = TRUE, ![r].sub = sub]
                             /\ proven' = proven \cup {<<sub, e>>}
                    ELSE Finish(r) /\ UNCHANGED proven
           \/ ByEmail(e) = {} /\ Goto(r, "create") /\ UNCHANGED proven
    /\ UNCHANGED <<users, nextId, creds, mail, session, used>>

\* LinkOAuth: the first link of an identity wins; the row is not looked at.
LinkOAuth(r) ==
    /\ req[r].pc = "link"
    /\ links' = [links EXCEPT ![req[r].soc] = IF @ = 0 THEN req[r].id ELSE @]
    /\ IF req[r].halt THEN Finish(r)
       ELSE Goto(r, IF req[r].op = "new" THEN "setVerified" ELSE "upsert")
    /\ UNCHANGED <<users, nextId, password, chosen, passkeys, mail, session, history>>

\* The login is through: completeLogin grants the session, or the reclaimed row
\* is linked first.
Granted(r, i) ==
    IF req[r].op = "reclaim"
    THEN /\ req' = [req EXCEPT ![r].pc = "link", ![r].op = "social", ![r].id = i,
                               ![r].halt = users'[i].blocked]
         /\ UNCHANGED <<session, used>>
    ELSE /\ session' = session \cup {req[r].sub}
         /\ used' = IF req[r].op = "redeem" THEN [used EXCEPT ![req[r].tok] = @ + 1] ELSE used
         /\ Finish(r)

\* UpsertUserOnLogin, by the Authorizer or UpsertExternalUser.
UpsertUserOnLogin(r) ==
    /\ req[r].pc = "upsert"
    /\ LET sub == req[r].sub
           e == req[r].email
           ver == req[r].ver
       IN  \/ /\ ~SQL
              /\ \E i \in Ids : Upserted(sub, e, ver, i) /\ Granted(r, i)
           \/ /\ SQL /\ BySub(sub) = {}
              /\ \A i \in ByEmail(e) : ~MayAdopt(i, ver)
              /\ \E i \in Ids : Upserted(sub, e, ver, i) /\ Granted(r, i)
           \/ /\ SQL                        \* the row is read, changed in memory ...
              /\ \/ \E i \in BySub(sub) :
                       /\ ByEmail(e) \subseteq {i}
                       /\ req' = [req EXCEPT ![r].pc = "save", ![r].id = i,
                             ![r].row = [users[i] EXCEPT !.email = e, !.verified = @ \/ ver]]
                 \/ /\ BySub(sub) = {}
                    /\ \E i \in ByEmail(e) :
                         /\ MayAdopt(i, ver)
                         /\ req' = [req EXCEPT ![r].pc = "save", ![r].id = i,
                               ![r].row = [users[i] EXCEPT !.sub = sub, !.verified = @ \/ ver]]
              /\ UNCHANGED <<users, nextId, creds, mail, session, used>>
           \/ /\ Conflict(sub, e, ver)
              /\ Finish(r)
              /\ UNCHANGED <<users, nextId, creds, mail, session, used>>
    /\ UNCHANGED proven

\* ... and saved: gorm's Save writes every column, and inserts the row when it
\* is gone.  The unique indexes on address and subject refuse a duplicate.
Save(r) ==
    /\ req[r].pc = "save"
    /\ LET i == req[r].id
           others == (ByEmail(req[r].row.email) \cup BySub(req[r].row.sub)) \ {i}
       IN  \/ /\ others = {}
              /\ users' = [users EXCEPT ![i] = req[r].row]
              /\ Granted(r, i)
           \/ /\ others # {}
              /\ Finish(r)
              /\ UNCHANGED <<users, session, used>>
    /\ UNCHANGED <<nextId, creds, mail, proven>>

-----------------------------------------------------------------------------
(* Handlers of a single store call that writes *)

\* WebauthnRegisterFinish.
AddPasskey(i) ==
    /\ "passkey" \in Handlers
    /\ users[i].sub \in session
    /\ passkeys[i] < MaxPasskeys
    /\ passkeys' = [passkeys EXCEPT ![i] = @ + 1]
    /\ UNCHANGED <<users, nextId, password, chosen, links, mail, session, req, history>>

\* Mutant: the last method may go if it is the only one of its kind left.
NotLastOffByOne(i) == Methods(i) >= 1

\* The check under credMu.
NotLast(i) == Methods(i) > 1

\* PasskeyRemove and OAuthUnlink: check and removal under credMu.
PasskeyRemove(i) ==
    /\ "remove" \in Handlers
    /\ users[i].sub \in session
    /\ passkeys[i] > 0
    /\ NotLast(i)
    /\ passkeys' = [passkeys EXCEPT ![i] = @ - 1]
    /\ UNCHANGED <<users, nextId, password, chosen, links, mail, session, req, history>>

OAuthUnlink(i, s) ==
    /\ "remove" \in Handlers
    /\ users[i].sub \in session
    /\ links[s] = i
    /\ NotLast(i)
    /\ links' = [links EXCEPT ![s] = 0]
    /\ UNCHANGED <<users, nextId, password, chosen, passkeys, mail, session, req, history>>

\* adminDeleteUser and AccountDelete.
DeleteUser(i) ==
    /\ "delete" \in Handlers
    /\ users' = [users EXCEPT ![i] = None]
    /\ CascadeCreds(i)
    /\ UNCHANGED <<nextId, session, req, history>>

\* adminSetDisabled and adminSetBan, one column each.
adminSetBlocked(i, blocked) ==
    /\ "block" \in Handlers
    /\ users' = [users EXCEPT ![i].blocked = blocked]
    /\ UNCHANGED <<nextId, creds, mail, session, req, history>>

Init ==
    /\ users = [i \in Ids |-> IF i = 1 /\ Seed # None
                              THEN NewRow([kind |-> "bootstrap", n |-> 0], Seed, FALSE)
                              ELSE None]
    /\ nextId = IF Seed = None THEN 0 ELSE 1
    /\ password = [i \in Ids |-> 0]
    /\ chosen = 0
    /\ passkeys = [i \in Ids |-> 0]
    /\ links = [s \in Socials |-> 0]
    /\ tokens = [t \in Tokens |-> None]
    /\ issued = 0
    /\ session = {}
    /\ req = [r \in Requests |-> Idle]
    /\ proven = {}
    /\ used = [t \in Tokens |-> 0]

Step(r) ==
    \/ CreateLocalUser(r) \/ SetPasswordHash(r) \/ CreateToken(r) \/ PasswordResetConsume(r)
    \/ SetEmailVerified(r) \/ LookupByEmail(r) \/ EmailChangeConfirm(r) \/ Rehash(r)
    \/ SocialByEmail(r) \/ LinkOAuth(r) \/ UpsertUserOnLogin(r) \/ Save(r)

Arrive(r) ==
    \/ \E e \in Emails : \/ PasswordSignup(r, e) \/ adminCreateUser(r, e)
                         \/ EmailOTPVerify(r, e)
                         \/ \E n \in OIDCSubs : Callback(r, n, e)
                         \/ \E s \in Socials : SocialCallback(r, s, e)
    \/ \E i \in Live : \/ SetPassword(r, i)
                       \/ \E purpose \in {"login", "reset"} : MailRequest(r, i, purpose)
                       \/ \E e \in Emails : AccountChangeEmailRequest(r, i, e)
                       \/ PasswordLogin(r, i) \/ WebauthnLoginFinish(r, i)
    \/ \E t \in Tokens : \/ \E purpose \in {"login", "change"} : RedeemToken(r, t, purpose)
                         \/ PasswordResetPeek(r, t)

Next ==
    \/ \E r \in Requests : Arrive(r) \/ Step(r)
    \/ \E i \in Live : \/ AddPasskey(i) \/ PasskeyRemove(i) \/ DeleteUser(i)
                       \/ \E s \in Socials : OAuthUnlink(i, s)
                       \/ \E blocked \in BOOLEAN : adminSetBlocked(i, blocked)

Spec == Init /\ [][Next]_vars

-----------------------------------------------------------------------------
(* Properties *)

\* Type correctness of the rows, the credentials, the links and the requests.
TypeOK ==
    /\ users \in [Ids -> Row \cup {None}]
    /\ nextId \in 0 .. MaxId
    /\ password \in [Ids -> 0 .. MaxPassword]
    /\ chosen \in 0 .. MaxPassword
    /\ passkeys \in [Ids -> 0 .. MaxPasskeys]
    /\ links \in [Socials -> 0 .. MaxId]
    /\ tokens \in [Tokens -> Token \cup {None}]
    /\ issued \in 0 .. MaxTokens
    /\ session \subseteq Sub
    /\ req \in [Requests -> Request]
    /\ proven \subseteq Sub \X Emails
    /\ used \in [Tokens -> Nat]

\* One row per address and per subject, whichever of sign-up, social login, OIDC,
\* change of address and admin create the rows concurrently (CreateLocalUser,
\* SetEmail, UpsertUserOnLogin).
OneRowPerEmail ==
    \A i, j \in Live :
        users[i].email = users[j].email \/ users[i].sub = users[j].sub => i = j

\* A row counts as verified only for an address that its subject has proved: by
\* a mailed link or code, by a provider, or by the operator's word.
VerifiedWasProven ==
    \A i \in Live : users[i].verified => <<users[i].sub, users[i].email>> \in proven

\* A mailed link takes effect once, although a reset looks at it before it is
\* consumed and two requests may carry it.
LinkWorksOnce == \A t \in Tokens : used[t] <= 1

\* A row that has a way to sign in keeps one as long as it exists (PasskeyRemove,
\* OAuthUnlink).
LastMethodKept ==
    [][\A i \in Live : users'[i] # None /\ Methods(i) > 0 => Methods(i)' > 0]_vars

\* A ban or a disable ends only by an admin's hand, never by a login that was
\* under way.
BlockSticks ==
    [][\A i \in Live : users[i].blocked /\ users'[i] # None /\ ~users'[i].blocked
                           => adminSetBlocked(i, FALSE)]_vars

\* A password is only ever replaced by one that was chosen later: a reset or a
\* change is not undone.
PasswordNotReverted ==
    [][\A i \in Ids : password'[i] >= password[i] \/ users'[i] = None]_vars

\* Sign-up never overwrites the password of a verified account.
SignupSparesVerified ==
    [][\A r \in Requests :
          SetPasswordHash(r) /\ req[r].op = "signup" /\ req[r].id \in Live
              => ~users[req[r].id].verified]_vars

\* The address of a row changes by redeeming a change-of-address link, or because
\* the OIDC issuer says so; a login with another method leaves it alone.
AddressKept ==
    [][\A i \in Live :
          users'[i] # None /\ users'[i].email # users[i].email
              => \E r \in Requests : req[r].pc = "setEmail" \/ req[r].op = "oidc"]_vars

\* Once a row is deleted and no request still works on it, nothing is keyed to it.
ErasureComplete ==
    \A i \in 1 .. nextId :
        /\ users[i] = None
        /\ \A r \in Requests : req[r].id # i
        => /\ Methods(i) = 0
           /\ \A t \in Tokens : tokens[t] # None => tokens[t].id # i
=============================================================================
