-------------------------------- MODULE Orgs --------------------------------
(***************************************************************************)
(* Organisations: members and their roles, invitations and the active        *)
(* organisation of a session, over a store that self-service handlers, the   *)
(* admin API and the per-customer SCIM view write at once.                  *)
(*                                                                          *)
(* A handler is one step per store call whose result it acts on later.      *)
(* Only the self-service changes of a member hold orgMu, which each process *)
(* has for itself, and they read the actor's own role before they lock.     *)
(***************************************************************************)
EXTENDS Integers

CONSTANTS
    Orgs,          \* organisations, by id; ids are never used again
    Users,         \* user rows, by id, each with an address of its own
    Provisioned,   \* the users whose subject is in the name space of the org's IdP
    GivenRoles,    \* the roles that requests name
    Procs,         \* processes
    Requests,      \* slots for HTTP requests in flight
    MaxInvites,    \* bound on the invitations ever made
    None

ASSUME OrgsAssumption ==
    /\ Procs # {}
    /\ Provisioned \subseteq Users
    /\ GivenRoles \subseteq {"owner", "admin", "member"}
    /\ MaxInvites \in Nat
    /\ None \notin Orgs \cup Users \cup {"owner", "admin", "member"}
    /\ None \notin [org : Orgs, email : Users, role : {"owner", "admin", "member"}]

VARIABLES
    org,         \* organisations: "new" before they are created, "live", "gone"
    users,       \* the rows of users that exist
    role,        \* OrgMembership: by organisation and user, the role or None
    invite,      \* by id, what an invitation is for, or None
    status,      \* by id, is an invitation "unused", "pending", "consumed" or "void"
    active,      \* by user, the organisation that the session cookie names
    req,         \* HTTP requests in flight
    seeded,      \* history: organisations of which an operator has made someone owner
    bypassed,    \* history: organisations in which a writer without orgMu took an owner or
                 \* wrote into a self-service change
    joins        \* history: by invitation, the memberships it has given

rows == <<org, users, role, invite, status>>
history == <<seeded, bypassed, joins>>
vars == <<rows, active, req, history>>

-----------------------------------------------------------------------------
(* Data *)

Owner == "owner"

\* The reserved roles; a role of the application's own is worth no more than member.
Roles == {Owner, "admin", "member"}

orgRoleIsManager(x) == x \in {Owner, "admin"}

Invites == 1 .. MaxInvites

\* OrgInvite; the address is that of the user it names.
OrgInvite == [org : Orgs, email : Users, role : Roles]

PCs == {"idle", "lock", "sole", "write", "invited", "invite", "revoke", "consume", "grant",
        "join", "deprovision", "ensure"}

\* The local variables of a handler: asOwner says whether the actor was an
\* owner, role None means remove.
Request ==
    [pc : PCs, proc : Procs, org : Orgs \cup {None}, user : Users \cup {None},
     role : Roles \cup {None}, asOwner : BOOLEAN, leaving : BOOLEAN,
     id : Nat]

Idle == [pc |-> "idle", proc |-> CHOOSE p \in Procs : TRUE, org |-> None, user |-> None,
         role |-> None, asOwner |-> FALSE, leaving |-> FALSE, id |-> 0]

\* OrgRole: None is ErrNotOrgMember or, when there is no such organisation, ErrNoOrg.
OrgRole(o, u) == IF o = None \/ u \notin users THEN None ELSE role[o][u]

\* OrgMembers: the members that are owners.
Owners(o) == {u \in users : role[o][u] = Owner}

\* UserOrgs
UserOrgs(u) == {o \in Orgs : org[o] = "live" /\ role[o][u] # None}

\* Is there an invitation that Peek and Consume accept.
Valid(i) == status[i] = "pending"

-----------------------------------------------------------------------------
(* HTTP requests *)

Continue(r, q) == req' = [req EXCEPT ![r] = q]

Begin(r, q) == req[r].pc = "idle" /\ Continue(r, q)

Finish(r) == Continue(r, Idle)

\* Mutant: the change of a member takes no lock.
LockedNever(p) == FALSE

\* orgMu, which a request holds from its read of the target's role to its write.
Locked(p) == \E r \in Requests : req[r].proc = p /\ req[r].pc \in {"sole", "write"}

-----------------------------------------------------------------------------
(* The store's writes *)

\* A writer without orgMu gives u the role x, or none: it takes an owner, or changes a
\* role while a self-service change is under way.
Bypass(o, u, x) ==
    bypassed' = IF \/ role[o][u] = Owner /\ x # Owner
                   \/ \E r \in Requests : req[r].org = o /\ req[r].pc \in {"sole", "write"}
                THEN bypassed \cup {o} ELSE bypassed

\* Mutant: the organisation is not looked up before the write.
MaySetUser(o, u) == u \in users

\* SetOrgMember refuses an organisation or a user that does not exist.
MaySet(o, u) == org[o] = "live" /\ u \in users

\* SetOrgMember adds the member or changes the role.
SetOrgMember(o, u, x) ==
    /\ role' = [role EXCEPT ![o][u] = x]
    /\ UNCHANGED <<org, users, invite, status>>

\* RemoveOrgMember, which succeeds when there is nothing to remove.
RemoveOrgMember(o, u) ==
    /\ role' = [role EXCEPT ![o][u] = None]
    /\ UNCHANGED <<org, users, invite, status>>

\* Invitations that are deleted before they are used.
Void(I) == status' = [i \in Invites |-> IF i \in I /\ Valid(i) THEN "void" ELSE status[i]]

-----------------------------------------------------------------------------
(* Sessions: the active organisation *)

\* A fresh session is in the user's sole organisation, or in none.
DefaultOrg(u) ==
    IF \E o \in Orgs : UserOrgs(u) = {o} THEN CHOOSE o \in Orgs : UserOrgs(u) = {o} ELSE None

Activate(u, o) == active' = [active EXCEPT ![u] = o]

\* A login.
Login(u) ==
    /\ u \in users
    /\ Activate(u, DefaultOrg(u))
    /\ UNCHANGED <<rows, req, history>>

\* OrgSwitch to an organisation that the user belongs to now, or to none.
OrgSwitch(u, o) ==
    /\ u \in users
    /\ o # None => org[o] = "live" /\ OrgRole(o, u) # None
    /\ Activate(u, o)
    /\ UNCHANGED <<rows, req, history>>

-----------------------------------------------------------------------------
(* Self-service changes of a member *)

\* activeOrgRole: the organisation of the cookie, in which the role is read anew.
ActiveRole(u) == OrgRole(active[u], u)

\* OrgMemberSetRole up to the lock.
OrgMemberSetRole(r, p, a, t, x) ==
    /\ orgRoleIsManager(ActiveRole(a))
    /\ Begin(r, [Idle EXCEPT !.pc = "lock", !.proc = p, !.org = active[a], !.user = t,
                             !.role = x, !.asOwner = (ActiveRole(a) = Owner)])
    /\ UNCHANGED <<rows, active, history>>

\* OrgMemberRemove up to the lock; members may remove themselves.
OrgMemberRemove(r, p, a, t) ==
    /\ ActiveRole(a) # None
    /\ t = a \/ orgRoleIsManager(ActiveRole(a))
    /\ Begin(r, [Idle EXCEPT !.pc = "lock", !.proc = p, !.org = active[a], !.user = t,
                             !.asOwner = (ActiveRole(a) = Owner),
                             !.leaving = (t = a)])
    /\ UNCHANGED <<rows, active, history>>

\* Whatever touches the owner role takes an owner.
OwnerGate(old, new, asOwner) == Owner \in {old, new} => asOwner

\* The handler locks and reads the target's role.
Lock(r) ==
    /\ req[r].pc = "lock"
    /\ ~Locked(req[r].proc)
    /\ LET q == req[r]
           old == OrgRole(q.org, q.user)
       IN  IF old = None \/ ~OwnerGate(old, q.role, q.asOwner)
           THEN Finish(r)
           ELSE Continue(r, [q EXCEPT !.asOwner = FALSE,
                                    !.pc = IF old = Owner /\ q.role # Owner
                                           THEN "sole" ELSE "write"])
    /\ UNCHANGED <<rows, active, history>>

soleOwner(o, u) == Owners(o) = {u}

\* The last-owner guard.
SoleOwner(r) ==
    /\ req[r].pc = "sole"
    /\ IF soleOwner(req[r].org, req[r].user)
       THEN Finish(r)
       ELSE Continue(r, [req[r] EXCEPT !.pc = "write"])
    /\ UNCHANGED <<rows, active, history>>

\* The write, and the cookie of a member who leaves.
WriteMember(r) ==
    /\ req[r].pc = "write"
    /\ LET q == req[r]
       IN  \/ /\ q.role = None
              /\ RemoveOrgMember(q.org, q.user)
              /\ IF q.leaving THEN Activate(q.user, None) ELSE UNCHANGED active
           \/ /\ q.role # None /\ MaySet(q.org, q.user)
              /\ SetOrgMember(q.org, q.user, q.role)
              /\ UNCHANGED active
           \/ /\ q.role # None /\ ~MaySet(q.org, q.user)
              /\ UNCHANGED <<rows, active>>
    /\ Finish(r)
    /\ UNCHANGED <<seeded, bypassed, joins>>

-----------------------------------------------------------------------------
(* Invitations *)

\* Mutant: any manager invites an owner.
MayInviteManager(x, mine) == orgRoleIsManager(mine)

\* Only an owner invites an owner.
MayInvite(x, mine) == orgRoleIsManager(mine) /\ (x = Owner => mine = Owner)

\* OrgInviteCreate: the actor's role.
OrgInviteCreate(r, a, e, x) ==
    /\ MayInvite(x, ActiveRole(a))
    /\ Begin(r, [Idle EXCEPT !.pc = "invited", !.org = active[a], !.user = e, !.role = x])
    /\ UNCHANGED <<rows, active, history>>

\* Is the address a member's?  A lookup that fails counts as no.
InviteCheck(r) ==
    /\ req[r].pc = "invited"
    /\ \/ OrgRole(req[r].org, req[r].user) # None /\ Finish(r)
       \/ Continue(r, [req[r] EXCEPT !.pc = "invite"])
    /\ UNCHANGED <<rows, active, history>>

NextInvite(n) == status[n] = "unused" /\ \A i \in Invites : i < n => status[i] # "unused"

\* CreateOrgInvite deletes what is pending for the address.
Replaced(o, e) ==
    [i \in Invites |-> IF Valid(i) /\ invite[i].org = o /\ invite[i].email = e
                       THEN "void" ELSE status[i]]

\* The invitation takes the place of the pending one.  When the mail fails the record
\* stays, but nobody has its link.
CreateOrgInvite(r) ==
    /\ req[r].pc = "invite"
    /\ LET q == req[r]
       IN  \/ /\ org[q.org] = "live"
              /\ \E n \in Invites, sent \in {"pending", "void"} :
                    /\ NextInvite(n)
                    /\ invite' = [invite EXCEPT ![n] = [org |-> q.org, email |-> q.user,
                                                        role |-> q.role]]
                    /\ status' = [Replaced(q.org, q.user) EXCEPT ![n] = sent]
           \/ org[q.org] # "live" /\ UNCHANGED <<invite, status>>
    /\ Finish(r)
    /\ UNCHANGED <<org, users, role, active, history>>

\* OrgInviteRevoke: the actor's role.
OrgInviteRevoke(r, a, i) ==
    /\ orgRoleIsManager(ActiveRole(a))
    /\ invite[i] # None
    /\ Begin(r, [Idle EXCEPT !.pc = "revoke", !.org = active[a], !.id = i])
    /\ UNCHANGED <<rows, active, history>>

\* RevokeOrgInvite deletes an invitation of the organisation.
RevokeOrgInvite(r) ==
    /\ req[r].pc = "revoke"
    /\ Void({i \in {req[r].id} : invite[i].org = req[r].org})
    /\ Finish(r)
    /\ UNCHANGED <<org, users, role, invite, active, history>>

\* The seven days of an invitation are over.
InviteExpires(i) ==
    /\ Valid(i)
    /\ Void({i})
    /\ UNCHANGED <<org, users, role, invite, active, req, history>>

\* OrgInviteAccept: the signed-in user looks at the invitation without using it up.
OrgInviteAccept(r, u, i) ==
    /\ u \in users
    /\ Valid(i)
    /\ invite[i].email = u
    /\ org[invite[i].org] = "live"
    /\ Begin(r, [Idle EXCEPT !.pc = "consume", !.org = invite[i].org, !.user = u,
                             !.role = invite[i].role, !.id = i])
    /\ UNCHANGED <<rows, active, history>>

\* Mutant: the invitation is taken on the strength of the earlier look.
ConsumeOrgInvitePeeked(r) ==
    /\ req[r].pc = "consume"
    /\ status' = [status EXCEPT ![req[r].id] = "consumed"]
    /\ Continue(r, [req[r] EXCEPT !.pc = "grant"])
    /\ UNCHANGED <<org, users, role, invite, active, history>>

\* ConsumeOrgInvite lets one request through.
ConsumeOrgInvite(r) ==
    /\ req[r].pc = "consume"
    /\ LET q == req[r]
       IN  IF Valid(q.id)
           THEN /\ status' = [status EXCEPT ![q.id] = "consumed"]
                /\ Continue(r, [q EXCEPT !.pc = "grant"])
           ELSE UNCHANGED status /\ Finish(r)
    /\ UNCHANGED <<org, users, role, invite, active, history>>

\* A member keeps the role; anyone else is to join.
GrantInvite(r) ==
    /\ req[r].pc = "grant"
    /\ LET q == req[r]
       IN  \/ org[q.org] # "live" /\ Finish(r) /\ UNCHANGED active
           \/ OrgRole(q.org, q.user) # None /\ Finish(r) /\ Activate(q.user, q.org)
           \/ /\ org[q.org] = "live" /\ OrgRole(q.org, q.user) = None
              /\ Continue(r, [q EXCEPT !.pc = "join"]) /\ UNCHANGED active
    /\ UNCHANGED <<rows, history>>

\* The invited user becomes a member, and the session is in that organisation.
JoinOrg(r) ==
    /\ req[r].pc = "join"
    /\ LET q == req[r]
       IN  \/ /\ MaySet(q.org, q.user)
              /\ SetOrgMember(q.org, q.user, q.role)
              /\ Bypass(q.org, q.user, q.role)
              /\ joins' = [joins EXCEPT ![q.id] = @ + 1]
              /\ Activate(q.user, q.org)
           \/ ~MaySet(q.org, q.user) /\ UNCHANGED <<rows, active, bypassed, joins>>
    /\ Finish(r)
    /\ UNCHANGED seeded

-----------------------------------------------------------------------------
(* The SCIM view of one organisation *)

\* view.SetUserDisabled of a member who is not an owner; the others change nothing.
ViewSetUserDisabled(r, o, u) ==
    /\ OrgRole(o, u) \in Roles \ {Owner}
    /\ Begin(r, [Idle EXCEPT !.pc = "deprovision", !.org = o, !.user = u])
    /\ UNCHANGED <<rows, active, history>>

Deprovision(r) ==
    /\ req[r].pc = "deprovision"
    /\ Bypass(req[r].org, req[r].user, None)
    /\ RemoveOrgMember(req[r].org, req[r].user)
    /\ Finish(r)
    /\ UNCHANGED <<active, seeded, joins>>

\* view.UpsertExternalUser of a user of the organisation's IdP, up to ensureMember.
ViewUpsertExternalUser(r, o, u) ==
    /\ u \in Provisioned /\ u \in users
    /\ org[o] = "live" /\ OrgRole(o, u) = None
    /\ Begin(r, [Idle EXCEPT !.pc = "ensure", !.org = o, !.user = u])
    /\ UNCHANGED <<rows, active, history>>

\* ensureMember for a user who was no member.
EnsureMember(r) ==
    /\ req[r].pc = "ensure"
    /\ LET q == req[r]
       IN  \/ /\ MaySet(q.org, q.user)
              /\ SetOrgMember(q.org, q.user, "member")
              /\ Bypass(q.org, q.user, "member")
           \/ ~MaySet(q.org, q.user) /\ UNCHANGED <<rows, bypassed>>
    /\ Finish(r)
    /\ UNCHANGED <<active, seeded, joins>>

-----------------------------------------------------------------------------
(* The operator *)

AdminCreateOrg(o) ==
    /\ org[o] = "new"
    /\ org' = [org EXCEPT ![o] = "live"]
    /\ UNCHANGED <<users, role, invite, status, active, req, history>>

\* adminSetOrgMember, which has no last-owner guard.
AdminSetOrgMember(o, u, x) ==
    /\ MaySet(o, u)
    /\ SetOrgMember(o, u, x)
    /\ Bypass(o, u, x)
    /\ seeded' = IF x = Owner THEN seeded \cup {o} ELSE seeded
    /\ UNCHANGED <<active, req, joins>>

AdminRemoveOrgMember(o, u) ==
    /\ org[o] = "live"
    /\ Bypass(o, u, None)
    /\ RemoveOrgMember(o, u)
    /\ UNCHANGED <<active, req, seeded, joins>>

\* DeleteOrg takes the memberships.
NoMembers(o) == [role EXCEPT ![o] = [u \in Users |-> None]]

\* DeleteOrg
DeleteOrg(o) ==
    /\ org[o] = "live"
    /\ org' = [org EXCEPT ![o] = "gone"]
    /\ role' = NoMembers(o)
    /\ Void({i \in Invites : invite[i] # None /\ invite[i].org = o})
    /\ UNCHANGED <<users, invite, active, req, seeded, bypassed, joins>>

\* DeleteUser, which takes the memberships and the invitations of the address.
DeleteUser(u) ==
    /\ u \in users
    /\ users' = users \ {u}
    /\ role' = [o \in Orgs |-> [role[o] EXCEPT ![u] = None]]
    /\ Void({i \in Invites : invite[i] # None /\ invite[i].email = u})
    /\ bypassed' = bypassed \cup {o \in Orgs : role[o][u] = Owner}
    /\ Activate(u, None)
    /\ UNCHANGED <<org, invite, req, seeded, joins>>

-----------------------------------------------------------------------------

\* A store call fails or the process stops: the handler ends where it is.
Fail(r) ==
    /\ req[r].pc # "idle"
    /\ Finish(r)
    /\ UNCHANGED <<rows, active, history>>

Init ==
    /\ org = [o \in Orgs |-> "new"]
    /\ users = Users
    /\ role = [o \in Orgs |-> [u \in Users |-> None]]
    /\ invite = [i \in Invites |-> None]
    /\ status = [i \in Invites |-> "unused"]
    /\ active = [u \in Users |-> None]
    /\ req = [r \in Requests |-> Idle]
    /\ seeded = {} /\ bypassed = {}
    /\ joins = [i \in Invites |-> 0]

\* The steps of a handler after its first.
Step(r) ==
    \/ Lock(r) \/ SoleOwner(r) \/ WriteMember(r)
    \/ InviteCheck(r) \/ CreateOrgInvite(r) \/ RevokeOrgInvite(r)
    \/ ConsumeOrgInvite(r) \/ GrantInvite(r) \/ JoinOrg(r)
    \/ Deprovision(r) \/ EnsureMember(r)

Start(r) ==
    \/ \E a, t \in Users :
          \/ \E p \in Procs : \/ \E x \in GivenRoles : OrgMemberSetRole(r, p, a, t, x)
                              \/ OrgMemberRemove(r, p, a, t)
          \/ \E x \in GivenRoles : OrgInviteCreate(r, a, t, x)
    \/ \E u \in Users, i \in Invites : OrgInviteRevoke(r, u, i) \/ OrgInviteAccept(r, u, i)
    \/ \E o \in Orgs, u \in Users : \/ ViewSetUserDisabled(r, o, u)
                                    \/ ViewUpsertExternalUser(r, o, u)

Atomic ==
    \/ \E i \in Invites : InviteExpires(i)
    \/ \E u \in Users : \/ Login(u) \/ DeleteUser(u)
                        \/ \E o \in Orgs \cup {None} : OrgSwitch(u, o)
    \/ \E o \in Orgs : \/ AdminCreateOrg(o) \/ DeleteOrg(o)
                       \/ \E u \in Users : \/ AdminRemoveOrgMember(o, u)
                                           \/ \E x \in GivenRoles : AdminSetOrgMember(o, u, x)

Next == Atomic \/ \E r \in Requests : Start(r) \/ Step(r) \/ Fail(r)

Spec == Init /\ [][Next]_vars

-----------------------------------------------------------------------------
(* Properties *)

TypeOK ==
    /\ org \in [Orgs -> {"new", "live", "gone"}]
    /\ users \subseteq Users
    /\ role \in [Orgs -> [Users -> Roles \cup {None}]]
    /\ invite \in [Invites -> OrgInvite \cup {None}]
    /\ status \in [Invites -> {"unused", "pending", "consumed", "void"}]
    /\ active \in [Users -> Orgs \cup {None}]
    /\ req \in [Requests -> Request]
    /\ seeded \subseteq Orgs /\ bypassed \subseteq Orgs
    /\ joins \in [Invites -> Nat]

OneProcess == \A p, q \in Procs : p = q

\* An organisation that an operator gave an owner keeps one for as long as it exists,
\* whatever its members do to each other at the same time, in one process: only a writer
\* that does not take orgMu may cost it the last one (OrgMemberSetRole, OrgMemberRemove).
LastOwnerKept ==
    OneProcess => \A o \in Orgs : org[o] = "live" /\ o \in seeded \ bypassed => Owners(o) # {}

\* Nobody becomes owner of an organisation to which the operator has given none: no
\* sequence of invitations, role changes and provisioning makes an owner without one.
OwnersComeFromOwners ==
    \A o \in Orgs : o \notin seeded => Owners(o) = {}

\* An invitation makes at most one membership, and none when it was revoked, replaced or
\* deleted before it was used, however many requests carry its link (OrgInviteAccept).
InviteWorksOnce ==
    \A i \in Invites : joins[i] <= (IF status[i] = "consumed" THEN 1 ELSE 0)

\* What an organisation owned goes with it: no membership and no usable invitation
\* stays or comes back, whichever handler was on its way (DeleteOrg).
OrgLeavesNothing ==
    \A o \in Orgs : org[o] # "live" =>
        /\ \A u \in Users : role[o][u] = None
        /\ \A i \in Invites : Valid(i) => invite[i].org # o
=============================================================================
