----------------------------- MODULE OrgsProofs -----------------------------
(***************************************************************************)
(* Proofs about Orgs, for any organisations, users, processes, requests and *)
(* invitations.  The actions fall into five groups, each described by one   *)
(* lemma: a request begins, moves on, writes a membership or an invitation, *)
(* or the operator acts.  The invariants are proved from those lemmas.      *)
(***************************************************************************)
EXTENDS Orgs, TLAPS

-----------------------------------------------------------------------------
(* Types *)

\* What a request under way names, by where it is.
Shape(q) ==
    /\ q.pc # "idle" => q.org \in Orgs
    /\ q.pc \notin {"idle", "revoke"} => q.user \in Users
    /\ q.pc \in {"invited", "invite", "consume", "grant", "join"} => q.role \in Roles
    /\ q.pc \in {"consume", "grant", "join"} => q.id \in Invites

Shaped == \A r \in Requests : Shape(req[r])

\* An invitation that was made has a record.
Recorded == \A i \in Invites : status[i] # "unused" => invite[i] # None

TypeInv == TypeOK /\ Shaped /\ Recorded

\* Idle is a request.
LEMMA IdleType == Idle \in Request /\ Shape(Idle) /\ Idle.pc = "idle"
BY OrgsAssumption DEF Idle, Request, PCs, Shape, Roles, Owner

\* The roles that requests name are roles, and None is not one.
LEMMA RoleTypes == GivenRoles \subseteq Roles /\ None \notin Roles /\ None \notin Orgs /\ Owner \in Roles
BY OrgsAssumption DEF Roles, Owner

\* Whoever has a role in an organisation names one, and is a user.
LEMMA RoleNamesOrg ==
    ASSUME TypeInv, NEW o \in Orgs \cup {None}, NEW u \in Users, OrgRole(o, u) # None
    PROVE  o \in Orgs /\ u \in users /\ role[o][u] = OrgRole(o, u)
BY DEF OrgRole

\* What Continue does to the table of requests.
LEMMA Continued ==
    ASSUME TypeInv, NEW r \in Requests, NEW q \in Request, Shape(q), Continue(r, q)
    PROVE  /\ req' \in [Requests -> Request] /\ Shaped'
           /\ req'[r] = q /\ \A s \in Requests \ {r} : req'[s] = req[s]
<1>1. /\ req' \in [Requests -> Request]
      /\ req'[r] = q /\ \A s \in Requests \ {r} : req'[s] = req[s]
  BY DEF TypeInv, TypeOK, Continue
<1>. QED
  BY <1>1 DEF TypeInv, Shaped, Shape

\* How the handlers begin: the roles they rest on are read in the store, and an
\* invitation is as recorded.
Begins(r, q) ==
    /\ q \in Request /\ Shape(q) /\ Continue(r, q)
    /\ req[r].pc = "idle"
    /\ UNCHANGED <<rows, active, history>>
    /\ q.pc \in {"lock", "invited", "revoke", "consume", "deprovision", "ensure"}
    /\ q.pc = "lock" /\ q.asOwner => Owners(q.org) # {}
    /\ q.pc = "invited" /\ q.role = Owner => Owners(q.org) # {}
    /\ q.pc = "consume" => /\ invite[q.id] # None
                           /\ q.org = invite[q.id].org /\ q.role = invite[q.id].role

\* Every handler begins so.
LEMMA StartBegins ==
    ASSUME TypeInv, NEW r \in Requests, Start(r)
    PROVE  \E q : Begins(r, q)
<1>a. /\ active \in [Users -> Orgs \cup {None}] /\ Idle \in Request
      /\ \A a \in Users : ActiveRole(a) = OrgRole(active[a], a)
  BY IdleType DEF TypeInv, TypeOK, ActiveRole
<1>1. ASSUME NEW a \in Users, NEW t \in Users, NEW p \in Procs, NEW x \in GivenRoles,
             OrgMemberSetRole(r, p, a, t, x)
      PROVE  \E q : Begins(r, q)
  <2>. DEFINE b == (ActiveRole(a) = Owner)
  <2>. DEFINE q == [Idle EXCEPT !.pc = "lock", !.proc = p, !.org = active[a], !.user = t,
                                !.role = x, !.asOwner = b]
  <2>1. ActiveRole(a) # None /\ active[a] \in Orgs /\ x \in Roles
    BY <1>1, <1>a, RoleTypes, RoleNamesOrg DEF OrgMemberSetRole, orgRoleIsManager, Roles, Owner
  <2>2. Continue(r, q) /\ req[r].pc = "idle" /\ UNCHANGED <<rows, active, history>>
    BY <1>1 DEF OrgMemberSetRole, Begin
  <2>3. b => Owners(active[a]) # {}
    BY <1>a, <2>1, RoleNamesOrg DEF Owners
  <2>4. b \in BOOLEAN
    OBVIOUS
  <2>. HIDE DEF b
  <2>5. /\ q \in Request /\ q.pc = "lock" /\ q.org = active[a] /\ q.user = t /\ q.asOwner = b
    BY <2>1, <2>4, <1>a DEF Request, PCs, Idle
  <2>. HIDE DEF q
  <2>. QED
    BY <2>1, <2>2, <2>3, <2>5 DEF Begins, Shape
<1>2. ASSUME NEW a \in Users, NEW t \in Users, NEW p \in Procs, OrgMemberRemove(r, p, a, t)
      PROVE  \E q : Begins(r, q)
  <2>. DEFINE b == (ActiveRole(a) = Owner)
  <2>. DEFINE l == (t = a)
  <2>. DEFINE q == [Idle EXCEPT !.pc = "lock", !.proc = p, !.org = active[a], !.user = t,
                                !.asOwner = b, !.leaving = l]
  <2>1. ActiveRole(a) # None /\ active[a] \in Orgs
    BY <1>2, <1>a, RoleNamesOrg DEF OrgMemberRemove
  <2>2. Continue(r, q) /\ req[r].pc = "idle" /\ UNCHANGED <<rows, active, history>>
    BY <1>2 DEF OrgMemberRemove, Begin
  <2>3. b => Owners(active[a]) # {}
    BY <1>a, <2>1, RoleNamesOrg DEF Owners
  <2>4. b \in BOOLEAN /\ l \in BOOLEAN
    OBVIOUS
  <2>. HIDE DEF b, l
  <2>5. /\ q \in Request /\ q.pc = "lock" /\ q.org = active[a] /\ q.user = t /\ q.asOwner = b
    BY <2>1, <2>4, <1>a DEF Request, PCs, Idle
  <2>. HIDE DEF q
  <2>. QED
    BY <2>1, <2>2, <2>3, <2>5 DEF Begins, Shape
<1>3. ASSUME NEW a \in Users, NEW e \in Users, NEW x \in GivenRoles, OrgInviteCreate(r, a, e, x)
      PROVE  \E q : Begins(r, q)
  <2>. DEFINE q == [Idle EXCEPT !.pc = "invited", !.org = active[a], !.user = e, !.role = x]
  <2>1. ActiveRole(a) # None /\ active[a] \in Orgs /\ x \in Roles
    BY <1>3, <1>a, RoleTypes, RoleNamesOrg
    DEF OrgInviteCreate, MayInvite, orgRoleIsManager, Roles, Owner
  <2>2. Continue(r, q) /\ req[r].pc = "idle" /\ UNCHANGED <<rows, active, history>>
    BY <1>3 DEF OrgInviteCreate, Begin
  <2>3. x = Owner => Owners(active[a]) # {}
    BY <1>3, <1>a, <2>1, RoleNamesOrg DEF Owners, OrgInviteCreate, MayInvite
  <2>5. /\ q \in Request /\ q.pc = "invited" /\ q.org = active[a] /\ q.user = e /\ q.role = x
    BY <2>1, <1>a DEF Request, PCs, Idle
  <2>. HIDE DEF q
  <2>. QED
    BY <2>1, <2>2, <2>3, <2>5 DEF Begins, Shape
<1>4. ASSUME NEW a \in Users, NEW i \in Invites, OrgInviteRevoke(r, a, i)
      PROVE  \E q : Begins(r, q)
  <2>. DEFINE q == [Idle EXCEPT !.pc = "revoke", !.org = active[a], !.id = i]
  <2>1. ActiveRole(a) # None /\ active[a] \in Orgs /\ i \in Nat
    BY <1>4, <1>a, RoleTypes, RoleNamesOrg, OrgsAssumption
    DEF OrgInviteRevoke, orgRoleIsManager, Roles, Owner, Invites
  <2>2. Continue(r, q) /\ req[r].pc = "idle" /\ UNCHANGED <<rows, active, history>>
    BY <1>4 DEF OrgInviteRevoke, Begin
  <2>5. /\ q \in Request /\ q.pc = "revoke" /\ q.org = active[a]
    BY <2>1, <1>a DEF Request, PCs, Idle
  <2>. HIDE DEF q
  <2>. QED
    BY <2>1, <2>2, <2>5 DEF Begins, Shape
<1>5. ASSUME NEW u \in Users, NEW i \in Invites, OrgInviteAccept(r, u, i)
      PROVE  \E q : Begins(r, q)
  <2>. DEFINE q == [Idle EXCEPT !.pc = "consume", !.org = invite[i].org, !.user = u,
                                !.role = invite[i].role, !.id = i]
  <2>1. invite[i] # None /\ invite[i] \in OrgInvite /\ i \in Nat
    BY <1>5, OrgsAssumption DEF OrgInviteAccept, Valid, TypeInv, TypeOK, Recorded, Invites
  <2>2. Continue(r, q) /\ req[r].pc = "idle" /\ UNCHANGED <<rows, active, history>>
    BY <1>5 DEF OrgInviteAccept, Begin
  <2>3. invite[i].org \in Orgs /\ invite[i].role \in Roles
    BY <2>1 DEF OrgInvite
  <2>5. /\ q \in Request /\ q.pc = "consume" /\ q.org = invite[i].org /\ q.user = u
        /\ q.role = invite[i].role /\ q.id = i
    BY <2>1, <2>3, <1>a DEF Request, PCs, Idle
  <2>. HIDE DEF q
  <2>. QED
    BY <2>1, <2>2, <2>3, <2>5 DEF Begins, Shape
<1>6. ASSUME NEW o \in Orgs, NEW u \in Users,
             ViewSetUserDisabled(r, o, u) \/ ViewUpsertExternalUser(r, o, u)
      PROVE  \E q : Begins(r, q)
  <2>1. PICK pc \in {"deprovision", "ensure"} :
          Begin(r, [Idle EXCEPT !.pc = pc, !.org = o, !.user = u])
    BY <1>6 DEF ViewSetUserDisabled, ViewUpsertExternalUser
  <2>. DEFINE q == [Idle EXCEPT !.pc = pc, !.org = o, !.user = u]
  <2>2. Continue(r, q) /\ req[r].pc = "idle" /\ UNCHANGED <<rows, active, history>>
    BY <1>6, <2>1 DEF ViewSetUserDisabled, ViewUpsertExternalUser, Begin
  <2>5. /\ q \in Request /\ q.pc = pc /\ q.org = o /\ q.user = u
    BY <2>1, <1>a DEF Request, PCs, Idle
  <2>. HIDE DEF q
  <2>. QED
    BY <2>1, <2>2, <2>5 DEF Begins, Shape
<1>. QED
  BY <1>1, <1>2, <1>3, <1>4, <1>5, <1>6 DEF Start

\* How a handler moves on without a write: it ends, or it goes on as it was, past the
\* lock with the gate passed, or past the guard with another owner there.
Passes(r, q) ==
    /\ q.org = req[r].org /\ q.user = req[r].user /\ q.role = req[r].role
    /\ q.id = req[r].id /\ q.proc = req[r].proc
    /\ \/ req[r].pc = "invited" /\ q.pc = "invite"
       \/ req[r].pc = "grant" /\ q.pc = "join"
       \/ /\ req[r].pc = "lock" /\ ~Locked(req[r].proc)
          /\ q.role = Owner => req[r].asOwner
          /\ q.pc = "sole" \/ (q.pc = "write" /\ (q.role = Owner \/ q.user \notin Owners(q.org)))
       \/ req[r].pc = "sole" /\ q.pc = "write" /\ Owners(q.org) # {q.user}

MovesOn(r, q) ==
    /\ q \in Request /\ Shape(q) /\ Continue(r, q)
    /\ UNCHANGED <<rows, history>>
    /\ active' \in [Users -> Orgs \cup {None}]
    /\ q = Idle \/ Passes(r, q)

\* The steps without a write, and a failure, move a handler on so.
LEMMA StepMovesOn ==
    ASSUME TypeInv, NEW r \in Requests,
           Lock(r) \/ SoleOwner(r) \/ InviteCheck(r) \/ GrantInvite(r) \/ Fail(r)
    PROVE  \E q : MovesOn(r, q)
<1>a. /\ active \in [Users -> Orgs \cup {None}] /\ req[r] \in Request /\ Shape(req[r])
      /\ req[r].org \in Orgs \cup {None}
  BY DEF TypeInv, TypeOK, Shaped, Request
<1>b. ASSUME Finish(r), UNCHANGED <<rows, history>>, active' \in [Users -> Orgs \cup {None}]
      PROVE  \E q : MovesOn(r, q)
  BY <1>b, IdleType DEF Finish, MovesOn
<1>c. ASSUME NEW pc \in PCs, Continue(r, [req[r] EXCEPT !.pc = pc]), UNCHANGED <<rows, active, history>>,
             \/ req[r].pc = "invited" /\ pc = "invite"
             \/ req[r].pc = "grant" /\ pc = "join"
             \/ req[r].pc = "sole" /\ pc = "write" /\ Owners(req[r].org) # {req[r].user}
      PROVE  \E q : MovesOn(r, q)
  <2>. DEFINE q == [req[r] EXCEPT !.pc = pc]
  <2>1. /\ q \in Request /\ q.pc = pc /\ q.org = req[r].org /\ q.user = req[r].user
        /\ q.role = req[r].role /\ q.id = req[r].id /\ q.proc = req[r].proc
    BY <1>a DEF Request
  <2>2. Continue(r, q)
    BY <1>c
  <2>. HIDE DEF q
  <2>3. Shape(q)
    BY <1>a, <1>c, <2>1 DEF Shape
  <2>4. Passes(r, q)
    BY <1>c, <2>1 DEF Passes
  <2>. QED
    BY <1>a, <1>c, <2>1, <2>2, <2>3, <2>4 DEF MovesOn
<1>1. CASE Lock(r)
  <2>. DEFINE old == OrgRole(req[r].org, req[r].user)
  <2>. DEFINE pc == IF old = Owner /\ req[r].role # Owner THEN "sole" ELSE "write"
  <2>. DEFINE q == [req[r] EXCEPT !.asOwner = FALSE, !.pc = pc]
  <2>1. UNCHANGED <<rows, active, history>> /\ req[r].pc = "lock" /\ ~Locked(req[r].proc)
    BY <1>1 DEF Lock
  <2>2. CASE Finish(r)
    BY <1>a, <1>b, <2>1, <2>2
  <2>3. CASE OwnerGate(old, req[r].role, req[r].asOwner) /\ Continue(r, q)
    <3>1. pc \in PCs
      BY DEF PCs
    <3>2. pc = "write" => req[r].role = Owner \/ req[r].user \notin Owners(req[r].org)
      BY <1>a, <2>1, RoleTypes DEF Shape, OrgRole, Owners
    <3>3. pc \in {"sole", "write"} /\ (req[r].role = Owner => req[r].asOwner)
      BY <2>3 DEF OwnerGate
    <3>4. Continue(r, q)
      BY <2>3
    <3>. HIDE DEF pc
    <3>5. /\ q \in Request /\ q.pc = pc /\ q.org = req[r].org /\ q.user = req[r].user
          /\ q.role = req[r].role /\ q.id = req[r].id /\ q.proc = req[r].proc
      BY <1>a, <3>1 DEF Request
    <3>. HIDE DEF q
    <3>6. Shape(q)
      BY <1>a, <2>1, <3>3, <3>5 DEF Shape
    <3>7. Passes(r, q)
      BY <2>1, <3>2, <3>3, <3>5 DEF Passes
    <3>. QED
      BY <1>a, <2>1, <3>4, <3>5, <3>6, <3>7 DEF MovesOn
  <2>. QED
    BY <1>1, <2>2, <2>3 DEF Lock
<1>2. CASE SoleOwner(r)
  BY <1>2, <1>a, <1>b, <1>c DEF SoleOwner, soleOwner, PCs
<1>3. CASE InviteCheck(r)
  BY <1>3, <1>a, <1>b, <1>c DEF InviteCheck, PCs
<1>4. CASE GrantInvite(r)
  <2>1. req[r].pc = "grant" /\ UNCHANGED <<rows, history>>
    BY <1>4 DEF GrantInvite
  <2>2. CASE Finish(r) /\ UNCHANGED active
    BY <1>a, <1>b, <2>1, <2>2
  <2>3. CASE Finish(r) /\ Activate(req[r].user, req[r].org)
    BY <1>a, <1>b, <2>1, <2>3 DEF Activate
  <2>4. CASE Continue(r, [req[r] EXCEPT !.pc = "join"]) /\ UNCHANGED active
    BY <1>c, <2>1, <2>4 DEF PCs
  <2>. QED
    BY <1>4, <2>2, <2>3, <2>4 DEF GrantInvite
<1>5. CASE Fail(r)
  BY <1>5, <1>a, <1>b DEF Fail
<1>. QED
  BY <1>1, <1>2, <1>3, <1>4, <1>5

\* A write of a membership, by whichever handler: the organisation and the user exist
\* when it adds one.
Written(o, u, x) ==
    /\ o \in Orgs /\ u \in Users /\ x \in Roles \cup {None}
    /\ x # None => MaySet(o, u)
    /\ role' = [role EXCEPT ![o][u] = x]
    /\ UNCHANGED <<org, users, invite, status>>

\* A handler that writes a membership ends with it; only the self-service one holds
\* orgMu, every other write is one that Bypass sees.
Writes(r) ==
    LET q == req[r]
    IN  /\ q.pc \in {"write", "join", "deprovision", "ensure"}
        /\ Continue(r, Idle) /\ active' \in [Users -> Orgs \cup {None}] /\ seeded' = seeded
        /\ \/ UNCHANGED <<rows, bypassed, joins>>
           \/ \E x \in Roles \cup {None} :
                 /\ Written(q.org, q.user, x)
                 /\ x = Owner => q.pc \in {"write", "join"} /\ q.role = Owner
                 /\ q.pc = "write" => x = q.role /\ bypassed' = bypassed
                 /\ q.pc # "write" => Bypass(q.org, q.user, x)
                 /\ joins' = IF q.pc = "join" THEN [joins EXCEPT ![q.id] = @ + 1] ELSE joins

\* The handlers that write a membership do so.
LEMMA StepWrites ==
    ASSUME TypeInv, NEW r \in Requests,
           WriteMember(r) \/ JoinOrg(r) \/ Deprovision(r) \/ EnsureMember(r)
    PROVE  Writes(r)
<1>. DEFINE q == req[r]
<1>a. /\ active \in [Users -> Orgs \cup {None}] /\ q \in Request /\ Shape(q)
      /\ q.org \in Orgs \cup {None} /\ q.role \in Roles \cup {None}
  BY DEF TypeInv, TypeOK, Shaped, Request
<1>b. \A o \in Orgs \cup {None}, u \in Users : Activate(u, o) => active' \in [Users -> Orgs \cup {None}]
  BY <1>a DEF Activate
<1>1. CASE WriteMember(r)
  <2>1. q.pc = "write" /\ q.org \in Orgs /\ q.user \in Users /\ Continue(r, Idle)
    BY <1>1, <1>a DEF WriteMember, Shape, Finish
  <2>2. UNCHANGED <<seeded, bypassed, joins>>
    BY <1>1 DEF WriteMember
  <2>3. CASE q.role = None /\ RemoveOrgMember(q.org, q.user)
             /\ IF q.leaving THEN Activate(q.user, None) ELSE UNCHANGED active
    BY <1>a, <1>b, <2>1, <2>2, <2>3, RoleTypes DEF Writes, Written, RemoveOrgMember
  <2>4. CASE q.role # None /\ MaySet(q.org, q.user) /\ SetOrgMember(q.org, q.user, q.role)
             /\ UNCHANGED active
    BY <1>a, <2>1, <2>2, <2>4, RoleTypes DEF Writes, Written, SetOrgMember
  <2>5. CASE UNCHANGED <<rows, active>>
    BY <1>a, <2>1, <2>2, <2>5 DEF Writes
  <2>. QED
    BY <1>1, <2>3, <2>4, <2>5 DEF WriteMember
<1>2. CASE JoinOrg(r)
  <2>1. /\ q.pc = "join" /\ q.org \in Orgs /\ q.user \in Users /\ q.role \in Roles
        /\ Continue(r, Idle) /\ seeded' = seeded
    BY <1>2, <1>a DEF JoinOrg, Shape, Finish
  <2>2. CASE /\ MaySet(q.org, q.user) /\ SetOrgMember(q.org, q.user, q.role)
             /\ Bypass(q.org, q.user, q.role) /\ joins' = [joins EXCEPT ![q.id] = @ + 1]
             /\ Activate(q.user, q.org)
    BY <1>a, <1>b, <2>1, <2>2, RoleTypes DEF Writes, Written, SetOrgMember
  <2>3. CASE UNCHANGED <<rows, active, bypassed, joins>>
    BY <1>a, <2>1, <2>3 DEF Writes
  <2>. QED
    BY <1>2, <2>2, <2>3 DEF JoinOrg
<1>3. CASE Deprovision(r)
  <2>1. /\ q.pc = "deprovision" /\ q.org \in Orgs /\ q.user \in Users
        /\ Continue(r, Idle) /\ UNCHANGED <<active, seeded, joins>>
    BY <1>3, <1>a DEF Deprovision, Shape, Finish
  <2>2. Bypass(q.org, q.user, None) /\ RemoveOrgMember(q.org, q.user)
    BY <1>3 DEF Deprovision
  <2>. QED
    BY <1>a, <2>1, <2>2, RoleTypes DEF Writes, Written, RemoveOrgMember
<1>4. CASE EnsureMember(r)
  <2>1. /\ q.pc = "ensure" /\ q.org \in Orgs /\ q.user \in Users
        /\ Continue(r, Idle) /\ UNCHANGED <<active, seeded, joins>>
    BY <1>4, <1>a DEF EnsureMember, Shape, Finish
  <2>2. CASE /\ MaySet(q.org, q.user) /\ SetOrgMember(q.org, q.user, "member")
             /\ Bypass(q.org, q.user, "member")
    <3>1. "member" \in Roles /\ "member" # Owner
      BY DEF Roles, Owner
    <3>. QED
      BY <1>a, <2>1, <2>2, <3>1 DEF Writes, Written, SetOrgMember
  <2>3. CASE UNCHANGED <<rows, bypassed>>
    BY <1>a, <2>1, <2>3 DEF Writes
  <2>. QED
    BY <1>4, <2>2, <2>3 DEF EnsureMember
<1>. QED
  BY <1>1, <1>2, <1>3, <1>4

\* None is no invitation.
LEMMA NoInviteIsNone == None \notin OrgInvite
BY OrgsAssumption DEF OrgInvite, Roles, Owner

\* Invitations may only be withdrawn.
Voided ==
    /\ invite' = invite
    /\ status' \in [Invites -> {"unused", "pending", "consumed", "void"}]
    /\ \A i \in Invites : status'[i] = status[i] \/ (Valid(i) /\ status'[i] = "void")

\* Void withdraws the pending invitations it is given.
LEMMA VoidVoids ==
    ASSUME TypeInv, invite' = invite, NEW I, Void(I)
    PROVE  Voided /\ \A i \in I \cap Invites : status'[i] # "pending"
BY DEF TypeInv, TypeOK, Void, Voided, Valid

\* A new invitation, which nobody has used.
Invites1(o, e, x) ==
    \E n \in Invites :
       /\ status[n] = "unused" /\ org[o] = "live"
       /\ invite' = [invite EXCEPT ![n] = [org |-> o, email |-> e, role |-> x]]
       /\ status' \in [Invites -> {"unused", "pending", "consumed", "void"}]
       /\ status'[n] \in {"pending", "void"}
       /\ \A i \in Invites \ {n} : status'[i] = status[i] \/ (Valid(i) /\ status'[i] = "void")

\* The steps of a handler that change invitations.
ChangesInvites(r) ==
    LET q == req[r]
    IN  /\ q.pc \in {"invite", "revoke", "consume"}
        /\ UNCHANGED <<org, users, role, active, history>>
        /\ \/ Continue(r, Idle) /\ Voided
           \/ q.pc = "invite" /\ Continue(r, Idle) /\ Invites1(q.org, q.user, q.role)
           \/ /\ q.pc = "consume" /\ Valid(q.id)
              /\ Continue(r, [q EXCEPT !.pc = "grant"])
              /\ status' = [status EXCEPT ![q.id] = "consumed"] /\ invite' = invite

\* The handlers that change invitations do so.
LEMMA StepChangesInvites ==
    ASSUME TypeInv, NEW r \in Requests,
           CreateOrgInvite(r) \/ RevokeOrgInvite(r) \/ ConsumeOrgInvite(r)
    PROVE  ChangesInvites(r)
<1>. DEFINE q == req[r]
<1>a. status \in [Invites -> {"unused", "pending", "consumed", "void"}]
  BY DEF TypeInv, TypeOK
<1>b. UNCHANGED <<invite, status>> => Voided
  BY <1>a DEF Voided
<1>1. CASE CreateOrgInvite(r)
  <2>1. q.pc = "invite" /\ Continue(r, Idle) /\ UNCHANGED <<org, users, role, active, history>>
    BY <1>1 DEF CreateOrgInvite, Finish
  <2>2. CASE UNCHANGED <<invite, status>>
    BY <1>b, <2>1, <2>2 DEF ChangesInvites
  <2>3. ASSUME org[q.org] = "live", NEW n \in Invites, NEW sent \in {"pending", "void"}, NextInvite(n),
               invite' = [invite EXCEPT ![n] = [org |-> q.org, email |-> q.user, role |-> q.role]],
               status' = [Replaced(q.org, q.user) EXCEPT ![n] = sent]
        PROVE  ChangesInvites(r)
    <3>1. Replaced(q.org, q.user) \in [Invites -> {"unused", "pending", "consumed", "void"}]
      BY <1>a DEF Replaced
    <3>2. \A i \in Invites : \/ Replaced(q.org, q.user)[i] = status[i]
                             \/ Valid(i) /\ Replaced(q.org, q.user)[i] = "void"
      BY DEF Replaced
    <3>3. Invites1(q.org, q.user, q.role)
      BY <2>3, <3>1, <3>2 DEF Invites1, NextInvite
    <3>. QED
      BY <2>1, <3>3 DEF ChangesInvites
  <2>. QED
    BY <1>1, <2>2, <2>3 DEF CreateOrgInvite
<1>2. CASE RevokeOrgInvite(r)
  <2>1. /\ q.pc = "revoke" /\ Continue(r, Idle) /\ UNCHANGED <<org, users, role, active, history>>
        /\ invite' = invite /\ Void({i \in {q.id} : invite[i].org = q.org})
    BY <1>2 DEF RevokeOrgInvite, Finish
  <2>. QED
    BY <2>1, VoidVoids DEF ChangesInvites
<1>3. CASE ConsumeOrgInvite(r)
  BY <1>3, <1>b DEF ConsumeOrgInvite, Finish, ChangesInvites
<1>. QED
  BY <1>1, <1>2, <1>3

\* Writes of the operator: like those of a handler without orgMu, and only here an owner
\* comes from nowhere.
AdminWrites ==
    \E o \in Orgs, u \in Users, x \in Roles \cup {None} :
       /\ Written(o, u, x) /\ Bypass(o, u, x)
       /\ seeded' = IF x = Owner THEN seeded \cup {o} ELSE seeded
       /\ x = Owner => org[o] = "live"
       /\ UNCHANGED <<active, req, joins>>

\* The steps of one call: a session names another organisation, an invitation expires, or
\* the operator writes or deletes.
AtomicStep ==
    \/ UNCHANGED <<rows, req, history>> /\ active' \in [Users -> Orgs \cup {None}]
    \/ UNCHANGED <<org, users, role, active, req, history>> /\ Voided
    \/ AdminWrites
    \/ \E o \in Orgs : AdminCreateOrg(o) \/ DeleteOrg(o)
    \/ \E u \in Users : DeleteUser(u)

\* They are such steps.
LEMMA AtomicIsStep == ASSUME TypeInv, Atomic PROVE AtomicStep
<1>1. ASSUME NEW u \in Users, Login(u) PROVE AtomicStep
  <2>1. DefaultOrg(u) \in Orgs \cup {None}
    BY DEF DefaultOrg
  <2>. QED
    BY <1>1, <2>1 DEF Login, Activate, AtomicStep, TypeInv, TypeOK
<1>2. ASSUME NEW u \in Users, NEW o \in Orgs \cup {None}, OrgSwitch(u, o) PROVE AtomicStep
  BY <1>2 DEF OrgSwitch, Activate, AtomicStep, TypeInv, TypeOK
<1>3. ASSUME NEW i \in Invites, InviteExpires(i) PROVE AtomicStep
  BY <1>3, VoidVoids DEF InviteExpires, AtomicStep
<1>4. ASSUME NEW o \in Orgs, NEW u \in Users, NEW x \in GivenRoles, AdminSetOrgMember(o, u, x)
      PROVE  AtomicStep
  <2>1. x \in Roles \cup {None}
    BY RoleTypes
  <2>2. Written(o, u, x) /\ Bypass(o, u, x) /\ org[o] = "live"
    BY <1>4, <2>1 DEF AdminSetOrgMember, SetOrgMember, Written, MaySet
  <2>. QED
    BY <1>4, <2>1, <2>2 DEF AdminSetOrgMember, AdminWrites, AtomicStep
<1>5. ASSUME NEW o \in Orgs, NEW u \in Users, AdminRemoveOrgMember(o, u) PROVE AtomicStep
  <2>1. None \in Roles \cup {None} /\ None # Owner
    BY RoleTypes
  <2>2. Written(o, u, None) /\ Bypass(o, u, None)
    BY <1>5 DEF AdminRemoveOrgMember, RemoveOrgMember, Written
  <2>. QED
    BY <1>5, <2>1, <2>2 DEF AdminRemoveOrgMember, AdminWrites, AtomicStep
<1>6. CASE \E o \in Orgs : AdminCreateOrg(o) \/ DeleteOrg(o)
  BY <1>6 DEF AtomicStep
<1>7. CASE \E u \in Users : DeleteUser(u)
  BY <1>7 DEF AtomicStep
<1>. QED
  BY <1>1, <1>2, <1>3, <1>4, <1>5, <1>6, <1>7 DEF Atomic

\* Init establishes the types.
LEMMA InitTypeInv == Init => TypeInv
<1>. SUFFICES ASSUME Init PROVE TypeInv
  OBVIOUS
<1>1. TypeOK
  BY IdleType DEF Init, TypeOK
<1>2. Shaped /\ Recorded
  BY IdleType DEF Init, Shaped, Recorded
<1>. QED
  BY <1>1, <1>2 DEF TypeInv

\* A write of a membership keeps the types of the table.
LEMMA WrittenType ==
    ASSUME TypeInv, NEW o, NEW u, NEW x, Written(o, u, x)
    PROVE  /\ role' \in [Orgs -> [Users -> Roles \cup {None}]]
           /\ role'[o][u] = x
           /\ \A p \in Orgs, v \in Users : p # o \/ v # u => role'[p][v] = role[p][v]
BY DEF Written, TypeInv, TypeOK

\* Every step preserves the types.
LEMMA NextTypeInv == TypeInv /\ [Next]_vars => TypeInv'
<1>. SUFFICES ASSUME TypeInv, [Next]_vars PROVE TypeInv'
  OBVIOUS
<1>1. ASSUME NEW r \in Requests, Start(r) PROVE TypeInv'
  <2>1. PICK q : Begins(r, q)
    BY <1>1, StartBegins
  <2>2. req' \in [Requests -> Request] /\ Shaped'
    BY <2>1, Continued DEF Begins
  <2>. QED
    BY <2>1, <2>2 DEF Begins, TypeInv, TypeOK, Recorded, rows, history
<1>2. ASSUME NEW r \in Requests,
             Lock(r) \/ SoleOwner(r) \/ InviteCheck(r) \/ GrantInvite(r) \/ Fail(r)
      PROVE  TypeInv'
  <2>1. PICK q : MovesOn(r, q)
    BY <1>2, StepMovesOn
  <2>2. req' \in [Requests -> Request] /\ Shaped'
    BY <2>1, Continued DEF MovesOn
  <2>. QED
    BY <2>1, <2>2 DEF MovesOn, TypeInv, TypeOK, Recorded, rows, history
<1>3. ASSUME NEW r \in Requests,
             WriteMember(r) \/ JoinOrg(r) \/ Deprovision(r) \/ EnsureMember(r)
      PROVE  TypeInv'
  <2>1. Writes(r)
    BY <1>3, StepWrites
  <2>2. req' \in [Requests -> Request] /\ Shaped'
    BY <2>1, IdleType, Continued DEF Writes
  <2>3. CASE UNCHANGED <<rows, bypassed, joins>>
    BY <2>1, <2>2, <2>3 DEF Writes, TypeInv, TypeOK, Recorded, rows
  <2>4. ASSUME NEW x, Written(req[r].org, req[r].user, x),
               bypassed' = bypassed \/ Bypass(req[r].org, req[r].user, x),
               joins' = joins \/ joins' = [joins EXCEPT ![req[r].id] = @ + 1]
        PROVE  TypeInv'
    <3>1. role' \in [Orgs -> [Users -> Roles \cup {None}]] /\ UNCHANGED <<org, users, invite, status>>
      BY <2>4, WrittenType DEF Written
    <3>2. bypassed' \subseteq Orgs
      BY <2>4 DEF Bypass, Written, TypeInv, TypeOK
    <3>3. joins' \in [Invites -> Nat]
      BY <2>4 DEF TypeInv, TypeOK
    <3>. QED
      BY <2>1, <2>2, <3>1, <3>2, <3>3 DEF Writes, TypeInv, TypeOK, Recorded
  <2>. QED
    BY <2>1, <2>3, <2>4 DEF Writes
<1>4. ASSUME NEW r \in Requests, CreateOrgInvite(r) \/ RevokeOrgInvite(r) \/ ConsumeOrgInvite(r)
      PROVE  TypeInv'
  <2>. DEFINE q == req[r]
  <2>1. ChangesInvites(r)
    BY <1>4, StepChangesInvites
  <2>2. UNCHANGED <<org, users, role, active, history>> /\ q \in Request /\ Shape(q)
    BY <2>1 DEF ChangesInvites, TypeInv, TypeOK, Shaped
  <2>3. CASE Continue(r, Idle) /\ Voided
    <3>1. req' \in [Requests -> Request] /\ Shaped'
      BY <2>3, IdleType, Continued
    <3>. QED
      BY <2>2, <2>3, <3>1 DEF Voided, Valid, TypeInv, TypeOK, Recorded, history
  <2>4. CASE q.pc = "invite" /\ Continue(r, Idle) /\ Invites1(q.org, q.user, q.role)
    <3>1. req' \in [Requests -> Request] /\ Shaped'
      BY <2>4, IdleType, Continued
    <3>2. PICK n \in Invites :
             /\ invite' = [invite EXCEPT ![n] = [org |-> q.org, email |-> q.user, role |-> q.role]]
             /\ status' \in [Invites -> {"unused", "pending", "consumed", "void"}]
             /\ \A i \in Invites \ {n} : status'[i] = status[i] \/ (Valid(i) /\ status'[i] = "void")
      BY <2>4 DEF Invites1
    <3>3. [org |-> q.org, email |-> q.user, role |-> q.role] \in OrgInvite
      BY <2>2, <2>4 DEF Shape, OrgInvite
    <3>4. [org |-> q.org, email |-> q.user, role |-> q.role] # None
      BY <3>3, NoInviteIsNone
    <3>5. invite' \in [Invites -> OrgInvite \cup {None}] /\ invite'[n] # None
          /\ \A i \in Invites \ {n} : invite'[i] = invite[i]
      BY <3>2, <3>3, <3>4 DEF TypeInv, TypeOK
    <3>6. Recorded'
      BY <3>2, <3>5 DEF TypeInv, Recorded, Valid
    <3>. QED
      BY <2>2, <3>1, <3>2, <3>5, <3>6 DEF TypeInv, TypeOK, history
  <2>5. CASE /\ q.pc = "consume" /\ Valid(q.id) /\ Continue(r, [q EXCEPT !.pc = "grant"])
             /\ status' = [status EXCEPT ![q.id] = "consumed"] /\ invite' = invite
    <3>. DEFINE g == [q EXCEPT !.pc = "grant"]
    <3>1. g \in Request /\ Shape(g)
      BY <2>2, <2>5 DEF Request, PCs, Shape
    <3>2. Continue(r, g)
      BY <2>5
    <3>. HIDE DEF g
    <3>3. req' \in [Requests -> Request] /\ Shaped'
      BY <3>1, <3>2, Continued
    <3>4. status' \in [Invites -> {"unused", "pending", "consumed", "void"}] /\ Recorded'
      BY <2>5 DEF TypeInv, TypeOK, Recorded, Valid
    <3>. QED
      BY <2>2, <2>5, <3>3, <3>4 DEF TypeInv, TypeOK, history
  <2>. QED
    BY <2>1, <2>3, <2>4, <2>5 DEF ChangesInvites
<1>5. CASE AtomicStep
  <2>1. CASE UNCHANGED <<rows, req, history>> /\ active' \in [Users -> Orgs \cup {None}]
    BY <2>1 DEF TypeInv, TypeOK, Shaped, Shape, Recorded, rows, history
  <2>2. CASE UNCHANGED <<org, users, role, active, req, history>> /\ Voided
    BY <2>2 DEF Voided, Valid, TypeInv, TypeOK, Shaped, Shape, Recorded, history
  <2>3. CASE AdminWrites
    <3>1. PICK o \in Orgs, u \in Users, x \in Roles \cup {None} :
             /\ Written(o, u, x) /\ Bypass(o, u, x) /\ UNCHANGED <<active, req, joins>>
             /\ seeded' = IF x = Owner THEN seeded \cup {o} ELSE seeded
      BY <2>3 DEF AdminWrites
    <3>2. role' \in [Orgs -> [Users -> Roles \cup {None}]] /\ UNCHANGED <<org, users, invite, status>>
      BY <3>1, WrittenType DEF Written
    <3>3. bypassed' \subseteq Orgs /\ seeded' \subseteq Orgs
      BY <3>1 DEF Bypass, TypeInv, TypeOK
    <3>. QED
      BY <3>1, <3>2, <3>3 DEF TypeInv, TypeOK, Shaped, Shape, Recorded
  <2>4. ASSUME NEW o \in Orgs, AdminCreateOrg(o) PROVE TypeInv'
    BY <2>4 DEF AdminCreateOrg, TypeInv, TypeOK, Shaped, Shape, Recorded, history
  <2>5. ASSUME NEW o \in Orgs, DeleteOrg(o) PROVE TypeInv'
    <3>1. Voided /\ invite' = invite
      BY <2>5, VoidVoids DEF DeleteOrg
    <3>. QED
      BY <2>5, <3>1 DEF DeleteOrg, NoMembers, Voided, Valid, TypeInv, TypeOK, Shaped, Shape, Recorded
  <2>6. ASSUME NEW u \in Users, DeleteUser(u) PROVE TypeInv'
    <3>1. Voided /\ invite' = invite
      BY <2>6, VoidVoids DEF DeleteUser
    <3>. QED
      BY <2>6, <3>1
      DEF DeleteUser, Activate, Voided, Valid, TypeInv, TypeOK, Shaped, Shape, Recorded
  <2>. QED
    BY <1>5, <2>1, <2>2, <2>3, <2>4, <2>5, <2>6 DEF AtomicStep
<1>6. CASE UNCHANGED vars
  BY <1>6 DEF vars, rows, history, TypeInv, TypeOK, Shaped, Shape, Recorded
<1>. QED
  BY <1>1, <1>2, <1>3, <1>4, <1>5, <1>6, AtomicIsStep DEF Next, Step

\* Every reachable state has the types that TypeOK gives.
THEOREM TypeCorrect == Spec => []TypeOK
<1>1. TypeInv => TypeOK
  BY DEF TypeInv
<1>. QED
  BY <1>1, InitTypeInv, NextTypeInv, PTL DEF Spec

-----------------------------------------------------------------------------
(* What a step does, in the groups above *)

\* The next-state relation by groups.
LEMMA NextGroups ==
    ASSUME TypeInv, [Next]_vars
    PROVE  \/ \E r \in Requests : \E q : Begins(r, q) \/ MovesOn(r, q)
           \/ \E r \in Requests : Writes(r) \/ ChangesInvites(r)
           \/ AtomicStep \/ UNCHANGED vars
BY StartBegins, StepMovesOn, StepWrites, StepChangesInvites, AtomicIsStep DEF Next, Step

-----------------------------------------------------------------------------
(* An organisation leaves nothing behind *)

LeavesInv == TypeInv /\ OrgLeavesNothing

\* Init establishes the invariant.
LEMMA InitLeaves == Init => LeavesInv
BY InitTypeInv DEF Init, LeavesInv, OrgLeavesNothing, Valid

\* Every step preserves it: memberships and invitations are only written in an
\* organisation that is there.
LEMMA NextLeaves == LeavesInv /\ [Next]_vars => LeavesInv'
<1>. SUFFICES ASSUME LeavesInv, [Next]_vars PROVE LeavesInv'
  OBVIOUS
<1>a. TypeInv /\ TypeInv'
  BY NextTypeInv DEF LeavesInv
<1>b. ASSUME UNCHANGED rows PROVE LeavesInv'
  BY <1>a, <1>b DEF LeavesInv, OrgLeavesNothing, Valid, rows
<1>c. ASSUME NEW o, NEW u, NEW x, Written(o, u, x) PROVE LeavesInv'
  <2>1. \A p \in Orgs : org[p] # "live" => \A v \in Users : role'[p][v] = None
    BY <1>a, <1>c, WrittenType DEF Written, MaySet, LeavesInv, OrgLeavesNothing
  <2>. QED
    BY <1>a, <1>c, <2>1 DEF Written, LeavesInv, OrgLeavesNothing, Valid
<1>d. ASSUME UNCHANGED <<org, role>>, Voided PROVE LeavesInv'
  BY <1>a, <1>d DEF Voided, LeavesInv, OrgLeavesNothing, Valid
<1>1. ASSUME NEW r \in Requests, NEW q, Begins(r, q) \/ MovesOn(r, q) PROVE LeavesInv'
  BY <1>1, <1>b DEF Begins, MovesOn
<1>2. ASSUME NEW r \in Requests, Writes(r) PROVE LeavesInv'
  BY <1>2, <1>b, <1>c DEF Writes
<1>3. ASSUME NEW r \in Requests, ChangesInvites(r) PROVE LeavesInv'
  <2>. DEFINE q == req[r]
  <2>1. UNCHANGED <<org, role>>
    BY <1>3 DEF ChangesInvites
  <2>2. CASE Voided
    BY <1>d, <2>1, <2>2
  <2>3. CASE Invites1(q.org, q.user, q.role)
    <3>1. PICK n \in Invites :
             /\ org[q.org] = "live"
             /\ invite' = [invite EXCEPT ![n] = [org |-> q.org, email |-> q.user, role |-> q.role]]
             /\ \A i \in Invites \ {n} : status'[i] = status[i] \/ (Valid(i) /\ status'[i] = "void")
      BY <2>3 DEF Invites1
    <3>2. invite'[n].org = q.org /\ \A i \in Invites \ {n} : invite'[i] = invite[i]
      BY <1>a, <3>1 DEF TypeInv, TypeOK
    <3>. QED
      BY <1>a, <2>1, <3>1, <3>2 DEF LeavesInv, OrgLeavesNothing, Valid
  <2>4. CASE status' = [status EXCEPT ![q.id] = "consumed"] /\ invite' = invite
    BY <1>a, <2>1, <2>4 DEF LeavesInv, OrgLeavesNothing, Valid, TypeInv, TypeOK
  <2>. QED
    BY <1>3, <2>2, <2>3, <2>4 DEF ChangesInvites
<1>4. CASE AtomicStep
  <2>1. CASE AdminWrites
    BY <2>1, <1>c DEF AdminWrites
  <2>2. ASSUME NEW o \in Orgs, AdminCreateOrg(o) PROVE LeavesInv'
    BY <1>a, <2>2 DEF AdminCreateOrg, LeavesInv, OrgLeavesNothing, Valid, TypeInv, TypeOK
  <2>3. ASSUME NEW o \in Orgs, DeleteOrg(o) PROVE LeavesInv'
    <3>1. /\ org' = [org EXCEPT ![o] = "gone"] /\ role' = NoMembers(o) /\ invite' = invite
          /\ Void({i \in Invites : invite[i] # None /\ invite[i].org = o})
      BY <2>3 DEF DeleteOrg
    <3>2. /\ Voided
          /\ \A i \in Invites : invite[i] # None /\ invite[i].org = o => ~Valid(i)'
      BY <1>a, <3>1, VoidVoids DEF Valid
    <3>3. \A i \in Invites : Valid(i)' => Valid(i) /\ invite[i] # None /\ invite[i].org # o
      BY <1>a, <3>1, <3>2 DEF Voided, Valid, TypeInv, Recorded
    <3>4. \A p \in Orgs : org'[p] # "live" => \A u \in Users : role'[p][u] = None
      BY <1>a, <3>1 DEF NoMembers, LeavesInv, OrgLeavesNothing, TypeInv, TypeOK
    <3>5. \A p \in Orgs : p # o => org'[p] = org[p]
      BY <1>a, <3>1 DEF TypeInv, TypeOK
    <3>. QED
      BY <1>a, <3>1, <3>3, <3>4, <3>5 DEF LeavesInv, OrgLeavesNothing
  <2>4. ASSUME NEW u \in Users, DeleteUser(u) PROVE LeavesInv'
    <3>1. org' = org /\ invite' = invite /\ role' = [o \in Orgs |-> [role[o] EXCEPT ![u] = None]]
      BY <2>4 DEF DeleteUser
    <3>2. Voided
      BY <1>a, <2>4, VoidVoids DEF DeleteUser
    <3>3. \A p \in Orgs, v \in Users : role[p][v] = None => role'[p][v] = None
      BY <1>a, <3>1 DEF TypeInv, TypeOK
    <3>. QED
      BY <1>a, <3>1, <3>2, <3>3 DEF Voided, LeavesInv, OrgLeavesNothing, Valid
  <2>. QED
    BY <1>4, <1>b, <1>d, <2>1, <2>2, <2>3, <2>4 DEF AtomicStep
<1>5. CASE UNCHANGED vars
  BY <1>5, <1>b DEF vars
<1>. QED
  BY <1>a, <1>1, <1>2, <1>3, <1>4, <1>5, NextGroups

\* A deleted organisation leaves no membership and no usable invitation, whatever was
\* under way when it went.
THEOREM DeletedOrgLeavesNothing == Spec => []OrgLeavesNothing
<1>1. LeavesInv => OrgLeavesNothing
  BY DEF LeavesInv
<1>. QED
  BY <1>1, InitLeaves, NextLeaves, PTL DEF Spec

-----------------------------------------------------------------------------
(* An invitation works once *)

Granting(q) == q.pc \in {"grant", "join"}

\* A request past ConsumeOrgInvite has the invitation for itself, and nobody has joined
\* with it yet.
UsedOnce ==
    /\ \A i \in Invites : joins[i] <= 1 /\ (status[i] # "consumed" => joins[i] = 0)
    /\ \A r \in Requests : Granting(req[r]) => /\ status[req[r].id] = "consumed"
                                               /\ joins[req[r].id] = 0
    /\ \A r, s \in Requests : Granting(req[r]) /\ Granting(req[s]) /\ req[r].id = req[s].id => r = s

\* Init establishes the invariant.
LEMMA InitUsedOnce == Init => UsedOnce
BY IdleType DEF Init, UsedOnce, Granting

\* A step that uses no invitation.
LEMMA UsesNone ==
    ASSUME TypeInv, UsedOnce, joins' = joins,
           \A i \in Invites : status'[i] = "consumed" <=> status[i] = "consumed",
           \A s \in Requests : Granting(req'[s]) => Granting(req[s]) /\ req'[s].id = req[s].id
    PROVE  UsedOnce'
<1>1. \A s \in Requests : Granting(req[s]) => req[s].id \in Invites
  BY DEF TypeInv, Shaped, Shape, Granting
<1>2. \A s \in Requests : Granting(req[s])' <=> Granting(req'[s])
  BY DEF Granting
<1>. QED
  BY <1>1, <1>2 DEF UsedOnce

\* Every step preserves the invariant.
LEMMA NextUsedOnce == TypeInv /\ UsedOnce /\ [Next]_vars => UsedOnce'
<1>. SUFFICES ASSUME TypeInv, UsedOnce, [Next]_vars PROVE UsedOnce'
  OBVIOUS
<1>a. req \in [Requests -> Request] /\ joins \in [Invites -> Nat]
  BY DEF TypeInv, TypeOK
<1>b. Voided => \A i \in Invites : status'[i] = "consumed" <=> status[i] = "consumed"
  BY DEF Voided, Valid
<1>c. ASSUME NEW r \in Requests, Continue(r, Idle)
      PROVE  \A s \in Requests : Granting(req'[s]) => Granting(req[s]) /\ req'[s].id = req[s].id
  BY <1>a, <1>c, IdleType DEF Continue, Granting
<1>1. ASSUME NEW r \in Requests, NEW q, Begins(r, q) \/ MovesOn(r, q) PROVE UsedOnce'
  <2>1. Continue(r, q) /\ status' = status /\ joins' = joins
    BY <1>1 DEF Begins, MovesOn, rows, history
  <2>2. Granting(q) => Granting(req[r]) /\ q.id = req[r].id
    BY <1>1, IdleType DEF Begins, MovesOn, Passes, Granting
  <2>3. \A s \in Requests : Granting(req'[s]) => Granting(req[s]) /\ req'[s].id = req[s].id
    BY <1>a, <2>1, <2>2 DEF Continue
  <2>. QED
    BY <2>1, <2>3, UsesNone
<1>2. ASSUME NEW r \in Requests, Writes(r) PROVE UsedOnce'
  <2>. DEFINE q == req[r]
  <2>1. Continue(r, Idle) /\ status' = status
    BY <1>2 DEF Writes, Written, rows
  <2>2. CASE joins' = joins
    BY <1>c, <2>1, <2>2, UsesNone
  <2>3. CASE q.pc = "join" /\ joins' = [joins EXCEPT ![q.id] = @ + 1]
    <3>1. Granting(q) /\ q.id \in Invites /\ joins[q.id] = 0 /\ status[q.id] = "consumed"
      BY <2>3 DEF Granting, TypeInv, Shaped, Shape, UsedOnce
    <3>2. joins'[q.id] = 1 /\ \A i \in Invites \ {q.id} : joins'[i] = joins[i]
      BY <1>a, <2>3, <3>1
    <3>3. \A s \in Requests : Granting(req[s]) => req[s].id \in Invites
      BY DEF TypeInv, Shaped, Shape, Granting
    <3>4. \A s \in Requests : Granting(req'[s]) => s # r /\ req'[s] = req[s]
      BY <1>a, <2>1, IdleType DEF Continue, Granting
    <3>5. \A s \in Requests : Granting(req[s])' <=> Granting(req'[s])
      BY DEF Granting
    <3>6. \A i \in Invites : joins'[i] <= 1 /\ (status[i] # "consumed" => joins'[i] = 0)
      BY <3>1, <3>2 DEF UsedOnce
    <3>7. \A s \in Requests : Granting(req'[s]) => /\ status[req'[s].id] = "consumed"
                                                   /\ joins'[req'[s].id] = 0
      BY <3>1, <3>2, <3>3, <3>4 DEF UsedOnce
    <3>. QED
      BY <2>1, <3>4, <3>5, <3>6, <3>7 DEF UsedOnce
  <2>. QED
    BY <1>2, <2>2, <2>3 DEF Writes, history
<1>3. ASSUME NEW r \in Requests, ChangesInvites(r) PROVE UsedOnce'
  <2>. DEFINE q == req[r]
  <2>1. joins' = joins
    BY <1>3 DEF ChangesInvites, history
  <2>2. CASE Continue(r, Idle) /\ Voided
    BY <1>b, <1>c, <2>1, <2>2, UsesNone
  <2>3. CASE Continue(r, Idle) /\ Invites1(q.org, q.user, q.role)
    <3>1. \A i \in Invites : status'[i] = "consumed" <=> status[i] = "consumed"
      BY <2>3 DEF Invites1, Valid
    <3>. QED
      BY <1>c, <2>1, <2>3, <3>1, UsesNone
  <2>4. CASE /\ q.pc = "consume" /\ Valid(q.id) /\ Continue(r, [q EXCEPT !.pc = "grant"])
             /\ status' = [status EXCEPT ![q.id] = "consumed"]
    <3>1. q.id \in Invites /\ status[q.id] = "pending" /\ joins[q.id] = 0 /\ ~Granting(q)
      BY <2>4 DEF TypeInv, Shaped, Shape, Valid, UsedOnce, Granting
    <3>2. \A s \in Requests : Granting(req[s]) => req[s].id \in Invites /\ req[s].id # q.id
      BY <3>1 DEF TypeInv, Shaped, Shape, Granting, UsedOnce
    <3>3. /\ status'[q.id] = "consumed" /\ \A i \in Invites \ {q.id} : status'[i] = status[i]
      BY <2>4, <3>1 DEF TypeInv, TypeOK
    <3>4. req'[r].id = q.id /\ \A s \in Requests \ {r} : req'[s] = req[s]
      BY <1>a, <2>4 DEF Continue, Request
    <3>5. \A s \in Requests : Granting(req[s])' <=> Granting(req'[s])
      BY DEF Granting
    <3>6. \A i \in Invites : joins'[i] <= 1 /\ (status'[i] # "consumed" => joins'[i] = 0)
      BY <2>1, <3>3 DEF UsedOnce
    <3>7. \A s \in Requests : Granting(req'[s]) => /\ status'[req'[s].id] = "consumed"
                                                   /\ joins'[req'[s].id] = 0
      BY <2>1, <3>1, <3>2, <3>3, <3>4 DEF UsedOnce
    <3>8. \A s, t \in Requests :
             Granting(req'[s]) /\ Granting(req'[t]) /\ req'[s].id = req'[t].id => s = t
      BY <3>2, <3>4 DEF UsedOnce
    <3>. QED
      BY <3>5, <3>6, <3>7, <3>8 DEF UsedOnce
  <2>. QED
    BY <1>3, <2>2, <2>3, <2>4 DEF ChangesInvites
<1>4. CASE AtomicStep
  <2>1. joins' = joins /\ req' = req
    BY <1>4 DEF AtomicStep, AdminWrites, AdminCreateOrg, DeleteOrg, DeleteUser, history
  <2>2. status' = status \/ Voided
    BY <1>4, VoidVoids
    DEF AtomicStep, AdminWrites, Written, AdminCreateOrg, DeleteOrg, DeleteUser, rows
  <2>. QED
    BY <1>b, <2>1, <2>2, UsesNone
<1>5. CASE UNCHANGED vars
  BY <1>5, UsesNone DEF vars, rows, history
<1>. QED
  BY <1>1, <1>2, <1>3, <1>4, <1>5, NextGroups

\* However many requests carry the link of an invitation, one of them makes a membership,
\* and none does when the invitation was withdrawn before it was used.
THEOREM InvitationWorksOnce == Spec => []InviteWorksOnce
<1>. DEFINE Inv == TypeInv /\ UsedOnce
<1>1. Init => Inv
  BY InitTypeInv, InitUsedOnce
<1>2. Inv /\ [Next]_vars => Inv'
  BY NextTypeInv, NextUsedOnce
<1>3. Inv => InviteWorksOnce
  BY DEF TypeInv, TypeOK, UsedOnce, InviteWorksOnce
<1>. HIDE DEF Inv
<1>. QED
  BY <1>1, <1>2, <1>3, PTL DEF Spec

-----------------------------------------------------------------------------
(* Owners come from owners *)

\* Who is an owner after a write.
LEMMA OwnersWritten ==
    ASSUME TypeInv, NEW o, NEW u, NEW x, Written(o, u, x)
    PROVE  /\ Owners(o)' = IF x = Owner THEN Owners(o) \cup {u} ELSE Owners(o) \ {u}
           /\ \A p \in Orgs \ {o} : Owners(p)' = Owners(p)
<1>1. users' = users /\ o \in Orgs /\ u \in Users /\ (x = Owner => u \in users) /\ users \subseteq Users
  BY RoleTypes DEF Written, MaySet, TypeInv, TypeOK
<1>. QED
  BY <1>1, WrittenType DEF Owners

\* Who is an owner after other steps.
LEMMA OwnersKept == ASSUME UNCHANGED <<users, role>> PROVE \A o \in Orgs : Owners(o)' = Owners(o)
BY DEF Owners

\* A request that may make an owner is in an organisation that had one from the operator.
SeededRole(q) ==
    /\ q.pc = "lock" /\ q.asOwner => q.org \in seeded
    /\ q.pc \in {"sole", "write", "invited", "invite", "consume", "grant", "join"} /\ q.role = Owner
           => q.org \in seeded

\* And so is an invitation to be one.
OwnersSeeded ==
    /\ OwnersComeFromOwners
    /\ \A r \in Requests : SeededRole(req[r])
    /\ \A i \in Invites : invite[i] # None /\ invite[i].role = Owner => invite[i].org \in seeded

\* Init establishes the invariant.
LEMMA InitOwnersSeeded == Init => OwnersSeeded
<1>. SUFFICES ASSUME Init PROVE OwnersSeeded
  OBVIOUS
<1>1. OwnersComeFromOwners
  BY RoleTypes DEF Init, OwnersComeFromOwners, Owners
<1>2. \A r \in Requests : SeededRole(req[r])
  BY IdleType DEF Init, SeededRole
<1>. QED
  BY <1>1, <1>2 DEF Init, OwnersSeeded

\* Every step preserves the invariant.
LEMMA NextOwnersSeeded == TypeInv /\ OwnersSeeded /\ [Next]_vars => OwnersSeeded'
<1>. SUFFICES ASSUME TypeInv, OwnersSeeded, [Next]_vars PROVE OwnersSeeded'
  OBVIOUS
<1>a. req \in [Requests -> Request] /\ SeededRole(Idle)
  BY IdleType DEF TypeInv, TypeOK, SeededRole
<1>b. \A o \in Orgs : Owners(o) # {} => o \in seeded
  BY DEF OwnersSeeded, OwnersComeFromOwners
<1>c. ASSUME NEW r \in Requests, NEW q, Continue(r, q), SeededRole(q), seeded' = seeded
      PROVE  \A s \in Requests : SeededRole(req[s])'
  <2>1. \A s \in Requests : SeededRole(req'[s])
    BY <1>a, <1>c DEF Continue, OwnersSeeded
  <2>. QED
    BY <1>c, <2>1 DEF SeededRole
<1>d. ASSUME UNCHANGED <<users, role, seeded>> PROVE OwnersComeFromOwners'
  BY <1>d, OwnersKept DEF OwnersSeeded, OwnersComeFromOwners
<1>1. ASSUME NEW r \in Requests, NEW q, Begins(r, q) PROVE OwnersSeeded'
  <2>1. Continue(r, q) /\ UNCHANGED <<users, role, seeded, invite>>
    BY <1>1 DEF Begins, rows, history
  <2>2. SeededRole(q)
    <3>1. q.pc # "idle" => q.org \in Orgs
      BY <1>1 DEF Begins, Shape
    <3>2. q.pc = "consume" => q.id \in Invites
      BY <1>1 DEF Begins, Shape
    <3>. QED
      BY <1>1, <1>b, <3>1, <3>2 DEF Begins, SeededRole, OwnersSeeded
  <2>. QED
    BY <1>c, <1>d, <2>1, <2>2 DEF OwnersSeeded
<1>2. ASSUME NEW r \in Requests, NEW q, MovesOn(r, q) PROVE OwnersSeeded'
  <2>1. Continue(r, q) /\ UNCHANGED <<users, role, seeded, invite>>
    BY <1>2 DEF MovesOn, rows, history
  <2>2. SeededRole(q)
    <3>1. SeededRole(req[r])
      BY DEF OwnersSeeded
    <3>. QED
      BY <1>2, <1>a, <3>1 DEF MovesOn, Passes, SeededRole
  <2>. QED
    BY <1>c, <1>d, <2>1, <2>2 DEF OwnersSeeded
<1>3. ASSUME NEW r \in Requests, Writes(r) PROVE OwnersSeeded'
  <2>. DEFINE q == req[r]
  <2>1. Continue(r, Idle) /\ UNCHANGED <<seeded, invite>>
    BY <1>3 DEF Writes, Written, rows
  <2>2. CASE UNCHANGED rows
    BY <1>a, <1>c, <1>d, <2>1, <2>2 DEF OwnersSeeded, rows
  <2>3. ASSUME NEW x, Written(q.org, q.user, x),
               x = Owner => q.pc \in {"write", "join"} /\ q.role = Owner
        PROVE  OwnersSeeded'
    <3>1. x = Owner => q.org \in seeded
      BY <2>3 DEF OwnersSeeded, SeededRole
    <3>2. OwnersComeFromOwners'
      <4>1. \A p \in Orgs : p \notin seeded => Owners(p)' = {}
        BY <2>3, <3>1, OwnersWritten DEF OwnersSeeded, OwnersComeFromOwners
      <4>. QED
        BY <2>1, <4>1 DEF OwnersComeFromOwners
    <3>. QED
      BY <1>a, <1>c, <2>1, <3>2 DEF OwnersSeeded
  <2>. QED
    BY <1>3, <2>2, <2>3 DEF Writes
<1>4. ASSUME NEW r \in Requests, ChangesInvites(r) PROVE OwnersSeeded'
  <2>. DEFINE q == req[r]
  <2>1. UNCHANGED <<users, role, seeded>> /\ SeededRole(q) /\ q \in Request
    BY <1>4, <1>a DEF ChangesInvites, history, OwnersSeeded
  <2>2. CASE Continue(r, Idle) /\ Voided
    BY <1>a, <1>c, <1>d, <2>1, <2>2 DEF OwnersSeeded, Voided
  <2>3. CASE q.pc = "invite" /\ Continue(r, Idle) /\ Invites1(q.org, q.user, q.role)
    <3>1. PICK n \in Invites :
             invite' = [invite EXCEPT ![n] = [org |-> q.org, email |-> q.user, role |-> q.role]]
      BY <2>3 DEF Invites1
    <3>2. /\ invite'[n].org = q.org /\ invite'[n].role = q.role
          /\ \A i \in Invites \ {n} : invite'[i] = invite[i]
      BY <3>1 DEF TypeInv, TypeOK
    <3>3. q.role = Owner => q.org \in seeded
      BY <2>1, <2>3 DEF SeededRole
    <3>. QED
      BY <1>a, <1>c, <1>d, <2>1, <2>3, <3>2, <3>3 DEF OwnersSeeded
  <2>4. CASE q.pc = "consume" /\ Continue(r, [q EXCEPT !.pc = "grant"]) /\ invite' = invite
    <3>. DEFINE g == [q EXCEPT !.pc = "grant"]
    <3>1. g.pc = "grant" /\ g.org = q.org /\ g.role = q.role
      BY <2>1 DEF Request
    <3>2. Continue(r, g)
      BY <2>4
    <3>. HIDE DEF g
    <3>3. SeededRole(g)
      BY <2>1, <2>4, <3>1 DEF SeededRole
    <3>. QED
      BY <1>c, <1>d, <2>1, <2>4, <3>2, <3>3 DEF OwnersSeeded
  <2>. QED
    BY <1>4, <2>2, <2>3, <2>4 DEF ChangesInvites
<1>5. CASE AtomicStep
  <2>1. req' = req /\ invite' = invite /\ seeded \subseteq seeded'
    BY <1>5 DEF AtomicStep, Voided, AdminWrites, Written, AdminCreateOrg, DeleteOrg, DeleteUser,
                rows, history
  <2>2. OwnersComeFromOwners'
    <3>1. CASE AdminWrites
      <4>1. PICK o \in Orgs, u \in Users, x \in Roles \cup {None} :
               Written(o, u, x) /\ seeded' = IF x = Owner THEN seeded \cup {o} ELSE seeded
        BY <3>1 DEF AdminWrites
      <4>2. \A p \in Orgs : p \notin seeded' => Owners(p)' = {}
        BY <4>1, OwnersWritten DEF OwnersSeeded, OwnersComeFromOwners
      <4>. QED
        BY <4>2 DEF OwnersComeFromOwners
    <3>2. ASSUME NEW o \in Orgs, DeleteOrg(o) PROVE OwnersComeFromOwners'
      <4>1. role' = NoMembers(o) /\ users' = users /\ seeded' = seeded
        BY <3>2 DEF DeleteOrg
      <4>2. \A p \in Orgs : Owners(p)' \subseteq Owners(p)
        BY <4>1, RoleTypes DEF NoMembers, Owners, TypeInv, TypeOK
      <4>. QED
        BY <4>1, <4>2 DEF OwnersSeeded, OwnersComeFromOwners
    <3>3. ASSUME NEW u \in Users, DeleteUser(u) PROVE OwnersComeFromOwners'
      <4>1. /\ role' = [o \in Orgs |-> [role[o] EXCEPT ![u] = None]] /\ users' = users \ {u}
            /\ seeded' = seeded
        BY <3>3 DEF DeleteUser
      <4>2. \A p \in Orgs : Owners(p)' \subseteq Owners(p)
        BY <4>1, RoleTypes DEF Owners, TypeInv, TypeOK
      <4>. QED
        BY <4>1, <4>2 DEF OwnersSeeded, OwnersComeFromOwners
    <3>. QED
      BY <1>5, <1>d, <3>1, <3>2, <3>3 DEF AtomicStep, AdminCreateOrg, rows, history
  <2>3. \A r \in Requests : SeededRole(req[r])'
    BY <2>1 DEF OwnersSeeded, SeededRole
  <2>. QED
    BY <2>1, <2>2, <2>3 DEF OwnersSeeded
<1>6. CASE UNCHANGED vars
  <2>1. UNCHANGED <<users, role, seeded, req, invite>>
    BY <1>6 DEF vars, rows, history
  <2>2. \A r \in Requests : SeededRole(req[r])'
    BY <2>1 DEF OwnersSeeded, SeededRole
  <2>. QED
    BY <1>d, <2>1, <2>2 DEF OwnersSeeded
<1>. QED
  BY <1>1, <1>2, <1>3, <1>4, <1>5, <1>6, NextGroups

\* Nobody becomes owner of an organisation that the operator has given none.
THEOREM OwnersOnlyFromOwners == Spec => []OwnersComeFromOwners
<1>. DEFINE Inv == TypeInv /\ OwnersSeeded
<1>1. Init => Inv
  BY InitTypeInv, InitOwnersSeeded
<1>2. Inv /\ [Next]_vars => Inv'
  BY NextTypeInv, NextOwnersSeeded
<1>3. Inv => OwnersComeFromOwners
  BY DEF OwnersSeeded
<1>. HIDE DEF Inv
<1>. QED
  BY <1>1, <1>2, <1>3, PTL DEF Spec

-----------------------------------------------------------------------------
(* The last owner is kept *)

Holds(q) == q.pc \in {"sole", "write"}

\* orgMu: one request at a time is between its read and its write.
OneHolder == \A r, s \in Requests : Holds(req[r]) /\ Holds(req[s]) => r = s

NewUnseeded == \A o \in Orgs : org[o] = "new" => o \notin seeded

Guarded(o) == o \in Orgs /\ org[o] = "live" /\ o \in seeded \ bypassed

\* The write that takes an owner leaves another one.
OwnerLeft(q) == q.pc = "write" /\ q.role # Owner /\ Guarded(q.org) => Owners(q.org) # {q.user}

LastOwner ==
    /\ OneHolder /\ NewUnseeded
    /\ \A r \in Requests : OwnerLeft(req[r])
    /\ \A o \in Orgs : Guarded(o) => Owners(o) # {}

\* Init establishes the invariant.
LEMMA InitLastOwner == Init => LastOwner
<1>. SUFFICES ASSUME Init PROVE LastOwner
  OBVIOUS
<1>1. \A r \in Requests : req[r].pc = "idle"
  BY IdleType DEF Init
<1>. QED
  BY <1>1 DEF Init, LastOwner, OneHolder, Holds, NewUnseeded, OwnerLeft, Guarded

\* A write that does not hold orgMu, of a handler or of the operator.
LEMMA BypassingWrite ==
    ASSUME TypeInv, LastOwner, NEW o \in Orgs, NEW u, NEW x, Written(o, u, x), Bypass(o, u, x),
           seeded' = seeded \/ (x = Owner /\ org[o] = "live" /\ seeded' = seeded \cup {o}),
           \A s \in Requests : Holds(req'[s]) => req'[s] = req[s]
    PROVE  LastOwner'
<1>1. org' = org /\ users' = users
  BY DEF Written
<1>2. bypassed \subseteq bypassed' /\ bypassed' \subseteq bypassed \cup {o}
  BY DEF Bypass
<1>3. o \notin bypassed' => /\ ~(role[o][u] = Owner /\ x # Owner)
                            /\ \A s \in Requests : Holds(req[s]) => req[s].org # o
  BY DEF Bypass, Holds
<1>4. NewUnseeded'
  BY <1>1 DEF LastOwner, NewUnseeded
<1>5. OneHolder'
  <2>1. \A s \in Requests : Holds(req[s])' => Holds(req[s])
    BY DEF Holds
  <2>. QED
    BY <2>1 DEF LastOwner, OneHolder
<1>6. \A p \in Orgs : p # o => (Guarded(p)' => Guarded(p)) /\ Owners(p)' = Owners(p)
  BY <1>1, <1>2, OwnersWritten DEF Guarded
<1>7. Guarded(o)' => Owners(o)' # {}
  <2>1. CASE x = Owner
    BY <2>1, OwnersWritten
  <2>2. CASE x # Owner
    <3>1. ASSUME Guarded(o)' PROVE Owners(o)' # {}
      <4>1. Guarded(o) /\ u \notin Owners(o) /\ o \notin bypassed'
        BY <1>1, <1>2, <1>3, <2>2, <3>1 DEF Guarded, Owners
      <4>. QED
        BY <2>2, <4>1, OwnersWritten DEF LastOwner
    <3>. QED
      BY <3>1
  <2>. QED
    BY <2>1, <2>2
<1>8. \A s \in Requests : OwnerLeft(req[s])'
  <2>1. SUFFICES ASSUME NEW s \in Requests, NEW p, p = req'[s].org,
                        req'[s].pc = "write", req'[s].role # Owner, Guarded(p)'
                 PROVE  Owners(p)' # {req'[s].user}
    BY DEF OwnerLeft, Guarded, Owners
  <2>2. req'[s] = req[s] /\ Holds(req[s])
    BY <2>1 DEF Holds
  <2>3. req[s].org # o /\ req[s].org \in Orgs
    BY <1>3, <2>1, <2>2 DEF Guarded
  <2>. QED
    BY <1>6, <2>1, <2>2, <2>3 DEF LastOwner, OwnerLeft
<1>9. \A p \in Orgs : Guarded(p)' => Owners(p)' # {}
  BY <1>6, <1>7 DEF LastOwner
<1>. QED
  BY <1>4, <1>5, <1>8, <1>9 DEF LastOwner

\* A step that makes no guarded organisation and changes the owners of none.
LEMMA OwnersUntouched ==
    ASSUME TypeInv, LastOwner, NewUnseeded', OneHolder',
           \A o \in Orgs : Guarded(o)' => Guarded(o) /\ Owners(o)' = Owners(o),
           \A s \in Requests : OwnerLeft(req'[s])
    PROVE  LastOwner'
<1>1. \A s \in Requests : OwnerLeft(req[s])'
  <2>1. SUFFICES ASSUME NEW s \in Requests, NEW p, p = req'[s].org,
                        req'[s].pc = "write", req'[s].role # Owner, Guarded(p)'
                 PROVE  Owners(p)' # {req'[s].user}
    BY DEF OwnerLeft, Guarded, Owners
  <2>2. p \in Orgs
    BY <2>1 DEF Guarded
  <2>. QED
    BY <2>1, <2>2 DEF OwnerLeft
<1>. QED
  BY <1>1 DEF LastOwner

\* Every step preserves the invariant, in one process.
LEMMA NextLastOwner == ASSUME OneProcess PROVE TypeInv /\ LastOwner /\ [Next]_vars => LastOwner'
<1>. SUFFICES ASSUME TypeInv, LastOwner, [Next]_vars PROVE LastOwner'
  OBVIOUS
<1>a. req \in [Requests -> Request] /\ (\A s \in Requests : req[s].proc \in Procs) /\ ~Holds(Idle)
  BY IdleType DEF TypeInv, TypeOK, Request, Holds
<1>b. ASSUME UNCHANGED rows, UNCHANGED <<seeded, bypassed>>
      PROVE  NewUnseeded' /\ \A o \in Orgs : Guarded(o)' => Guarded(o) /\ Owners(o)' = Owners(o)
  BY <1>b DEF rows, LastOwner, NewUnseeded, Guarded, Owners
<1>c. ASSUME NEW r \in Requests, NEW q, Continue(r, q), ~Holds(q)
      PROVE  /\ OneHolder' /\ \A s \in Requests : OwnerLeft(req'[s])
             /\ \A s \in Requests : Holds(req'[s]) => req'[s] = req[s]
  <2>1. \A s \in Requests : Holds(req'[s]) => s # r /\ req'[s] = req[s]
    BY <1>a, <1>c DEF Continue
  <2>2. \A s \in Requests : Holds(req[s])' <=> Holds(req'[s])
    BY DEF Holds
  <2>3. OneHolder'
    BY <2>1, <2>2 DEF LastOwner, OneHolder
  <2>4. \A s \in Requests : OwnerLeft(req'[s])
    BY <2>1 DEF LastOwner, OwnerLeft, Holds
  <2>. QED
    BY <2>1, <2>3, <2>4
<1>1. ASSUME NEW r \in Requests, NEW q, Begins(r, q) PROVE LastOwner'
  <2>1. Continue(r, q) /\ UNCHANGED rows /\ UNCHANGED <<seeded, bypassed>> /\ ~Holds(q)
    BY <1>1 DEF Begins, history, Holds
  <2>. QED
    BY <1>b, <1>c, <2>1, OwnersUntouched
<1>2. ASSUME NEW r \in Requests, NEW q, MovesOn(r, q) PROVE LastOwner'
  <2>1. Continue(r, q) /\ UNCHANGED rows /\ UNCHANGED <<seeded, bypassed>>
    BY <1>2 DEF MovesOn, history
  <2>2. CASE ~Holds(q)
    BY <1>b, <1>c, <2>1, <2>2, OwnersUntouched
  <2>3. CASE Holds(q)
    <3>1. Passes(r, q)
      BY <1>2, <1>a, <2>3 DEF MovesOn
    <3>2. \A s \in Requests \ {r} : ~Holds(req[s])
      <4>1. CASE req[r].pc = "lock"
        <5>1. ~Locked(req[r].proc)
          BY <3>1, <4>1 DEF Passes
        <5>. QED
          BY <1>a, <5>1 DEF Locked, Holds, OneProcess
      <4>2. CASE req[r].pc = "sole"
        BY <4>2 DEF LastOwner, OneHolder, Holds
      <4>. QED
        BY <2>3, <3>1, <4>1, <4>2 DEF Passes, Holds
    <3>3. req'[r] = q /\ \A s \in Requests \ {r} : req'[s] = req[s]
      BY <1>a, <2>1 DEF Continue
    <3>4. OneHolder'
      BY <3>2, <3>3 DEF OneHolder, Holds
    <3>5. OwnerLeft(q)
      <4>1. ASSUME q.pc = "write", q.role # Owner, Guarded(q.org) PROVE Owners(q.org) # {q.user}
        BY <3>1, <4>1 DEF Passes
      <4>. QED
        BY <4>1 DEF OwnerLeft
    <3>6. \A s \in Requests : OwnerLeft(req'[s])
      BY <3>3, <3>5 DEF LastOwner
    <3>. QED
      BY <1>b, <2>1, <3>4, <3>6, OwnersUntouched
  <2>. QED
    BY <2>2, <2>3
<1>3. ASSUME NEW r \in Requests, Writes(r) PROVE LastOwner'
  <2>. DEFINE q == req[r]
  <2>1. Continue(r, Idle) /\ seeded' = seeded /\ q.org \in Orgs
    BY <1>3 DEF Writes, TypeInv, Shaped, Shape
  <2>2. CASE UNCHANGED <<rows, bypassed>>
    BY <1>a, <1>b, <1>c, <2>1, <2>2, OwnersUntouched
  <2>3. ASSUME NEW x, Written(q.org, q.user, x), Bypass(q.org, q.user, x) PROVE LastOwner'
    BY <1>a, <1>c, <2>1, <2>3, BypassingWrite
  <2>4. ASSUME NEW o, NEW u, o = q.org, u = q.user,
               q.pc = "write", Written(o, u, q.role), bypassed' = bypassed
        PROVE  LastOwner'
    <3>1. /\ NewUnseeded' /\ \A p \in Orgs : Guarded(p)' <=> Guarded(p)
      BY <2>1, <2>4 DEF Written, LastOwner, NewUnseeded, Guarded
    <3>2. \A s \in Requests : ~Holds(req'[s])
      <4>1. \A s \in Requests \ {r} : ~Holds(req[s]) /\ req'[s] = req[s]
        BY <1>a, <2>1, <2>4 DEF Continue, LastOwner, OneHolder, Holds
      <4>2. req'[r] = Idle
        BY <1>a, <2>1 DEF Continue
      <4>. QED
        BY <1>a, <4>1, <4>2
    <3>3. OneHolder' /\ \A s \in Requests : OwnerLeft(req[s])'
      BY <3>2 DEF OneHolder, OwnerLeft, Holds
    <3>4. \A p \in Orgs : Guarded(p) => Owners(p)' # {}
      <4>1. ASSUME Guarded(o) PROVE Owners(o)' # {}
        <5>1. CASE q.role = Owner
          BY <2>4, <5>1, OwnersWritten
        <5>2. CASE q.role # Owner
          <6>1. Owners(o) # {u} /\ Owners(o) # {}
            BY <2>1, <2>4, <4>1, <5>2 DEF LastOwner, OwnerLeft
          <6>. QED
            BY <2>4, <5>2, <6>1, OwnersWritten
        <5>. QED
          BY <5>1, <5>2
      <4>. QED
        BY <2>4, <4>1, OwnersWritten DEF LastOwner
    <3>. QED
      BY <3>1, <3>3, <3>4 DEF LastOwner
  <2>. QED
    BY <1>3, <2>2, <2>3, <2>4 DEF Writes
<1>4. ASSUME NEW r \in Requests, ChangesInvites(r) PROVE LastOwner'
  <2>1. UNCHANGED <<org, users, role, seeded, bypassed>>
    BY <1>4 DEF ChangesInvites, history
  <2>2. NewUnseeded' /\ \A o \in Orgs : Guarded(o)' => Guarded(o) /\ Owners(o)' = Owners(o)
    BY <2>1 DEF LastOwner, NewUnseeded, Guarded, Owners
  <2>3. \E q : Continue(r, q) /\ ~Holds(q)
    <3>1. [req[r] EXCEPT !.pc = "grant"].pc = "grant"
      BY <1>a DEF Request
    <3>. QED
      BY <1>4, <1>a, <3>1 DEF ChangesInvites, Holds
  <2>. QED
    BY <1>c, <2>2, <2>3, OwnersUntouched
<1>5. CASE AtomicStep
  <2>1. req' = req
    BY <1>5 DEF AtomicStep, AdminWrites, AdminCreateOrg, DeleteOrg, DeleteUser
  <2>2. OneHolder' /\ \A s \in Requests : OwnerLeft(req'[s])
    BY <2>1 DEF LastOwner, OneHolder, Holds
  <2>3. CASE AdminWrites
    <3>1. PICK o \in Orgs, u \in Users, x \in Roles \cup {None} :
             /\ Written(o, u, x) /\ Bypass(o, u, x) /\ (x = Owner => org[o] = "live")
             /\ seeded' = IF x = Owner THEN seeded \cup {o} ELSE seeded
      BY <2>3 DEF AdminWrites
    <3>. QED
      BY <2>1, <3>1, BypassingWrite
  <2>4. CASE UNCHANGED <<org, users, role, seeded, bypassed>>
    BY <2>2, <2>4, OwnersUntouched DEF LastOwner, NewUnseeded, Guarded, Owners
  <2>5. ASSUME NEW o \in Orgs, AdminCreateOrg(o) PROVE LastOwner'
    <3>1. org[o] = "new" /\ org' = [org EXCEPT ![o] = "live"]
          /\ UNCHANGED <<users, role, seeded, bypassed>>
      BY <2>5 DEF AdminCreateOrg, history
    <3>2. o \notin seeded /\ \A p \in Orgs \ {o} : org'[p] = org[p]
      BY <3>1 DEF LastOwner, NewUnseeded, TypeInv, TypeOK
    <3>3. NewUnseeded' /\ \A p \in Orgs : Guarded(p)' => Guarded(p) /\ Owners(p)' = Owners(p)
      BY <3>1, <3>2 DEF LastOwner, NewUnseeded, Guarded, Owners, TypeInv, TypeOK
    <3>. QED
      BY <2>2, <3>3, OwnersUntouched
  <2>6. ASSUME NEW o \in Orgs, DeleteOrg(o) PROVE LastOwner'
    <3>1. org' = [org EXCEPT ![o] = "gone"] /\ role' = NoMembers(o)
          /\ UNCHANGED <<users, seeded, bypassed>>
      BY <2>6 DEF DeleteOrg
    <3>2. /\ org'[o] = "gone" /\ \A p \in Orgs \ {o} : org'[p] = org[p] /\ role'[p] = role[p]
      BY <3>1 DEF NoMembers, TypeInv, TypeOK
    <3>3. NewUnseeded' /\ \A p \in Orgs : Guarded(p)' => Guarded(p) /\ Owners(p)' = Owners(p)
      BY <3>1, <3>2 DEF LastOwner, NewUnseeded, Guarded, Owners
    <3>. QED
      BY <2>2, <3>3, OwnersUntouched
  <2>7. ASSUME NEW u \in Users, DeleteUser(u) PROVE LastOwner'
    <3>1. /\ role' = [o \in Orgs |-> [role[o] EXCEPT ![u] = None]] /\ users' = users \ {u}
          /\ UNCHANGED <<org, seeded>>
          /\ bypassed' = bypassed \cup {o \in Orgs : role[o][u] = Owner}
      BY <2>7 DEF DeleteUser
    <3>2. \A p \in Orgs : Owners(p)' = Owners(p) \ {u}
      BY <3>1, RoleTypes DEF Owners, TypeInv, TypeOK
    <3>3. \A p \in Orgs : Guarded(p)' => Guarded(p) /\ u \notin Owners(p)
      BY <3>1 DEF Guarded, Owners
    <3>4. NewUnseeded' /\ \A p \in Orgs : Guarded(p)' => Guarded(p) /\ Owners(p)' = Owners(p)
      BY <3>1, <3>2, <3>3 DEF LastOwner, NewUnseeded
    <3>. QED
      BY <2>2, <3>4, OwnersUntouched
  <2>. QED
    BY <1>5, <2>3, <2>4, <2>5, <2>6, <2>7 DEF AtomicStep, rows, history
<1>6. CASE UNCHANGED vars
  <2>1. UNCHANGED <<org, users, role, req, seeded, bypassed>>
    BY <1>6 DEF vars, rows, history
  <2>. QED
    BY <2>1 DEF LastOwner, OneHolder, Holds, NewUnseeded, OwnerLeft, Guarded, Owners
<1>. QED
  BY <1>1, <1>2, <1>3, <1>4, <1>5, <1>6, NextGroups

\* In one process, members who change each other's roles and leave at the same time never
\* cost an organisation its last owner: orgMu makes the guard and the write one step.
THEOREM LastOwnerStays == Spec => []LastOwnerKept
<1>. DEFINE Inv == TypeInv /\ (OneProcess => LastOwner)
<1>1. Init => Inv
  BY InitTypeInv, InitLastOwner
<1>2. Inv /\ [Next]_vars => Inv'
  BY NextTypeInv, NextLastOwner DEF OneProcess
<1>3. Inv => LastOwnerKept
  BY DEF LastOwner, LastOwnerKept, Guarded
<1>. HIDE DEF Inv
<1>. QED
  BY <1>1, <1>2, <1>3, PTL DEF Spec
=============================================================================
