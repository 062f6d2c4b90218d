----------------------------- MODULE Directory -----------------------------
(***************************************************************************)
(* The directory that SCIM clients, the LDAP synchronisation and operators  *)
(* write at once: users that are provisioned and deprovisioned, and groups  *)
(* of the installation or of one organisation with their members.           *)
(*                                                                          *)
(* A handler is one step per store call whose result it acts on later; the  *)
(* handlers take no lock, and an If-Match is compared before the first      *)
(* write, so it only decides whether the request begins.                    *)
(***************************************************************************)
EXTENDS Integers

CONSTANTS
    Users,               \* people, each with an address of its own
    ScimUsers,           \* the people whom a SCIM client provisions
    Names,               \* names of groups
    Mounts,              \* the directories that a host gives to the SCIM server
    Lists,               \* the lists of members that clients and LDAP entries name
    Requests,            \* slots for HTTP requests in flight
    GroupBaseDN,         \* does the synchronisation cover groups
    DeprovisionMissing,  \* does it disable users who are missing from LDAP
    MaxGroups,           \* bound on the groups ever made
    MaxFails,            \* bound on the failures that a synchronisation meets
    None

ASSUME DirectoryAssumption ==
    /\ Mounts \subseteq {"global", "org"}
    /\ ScimUsers \subseteq Users /\ Lists \subseteq SUBSET Users
    /\ GroupBaseDN \in BOOLEAN /\ DeprovisionMissing \in BOOLEAN
    /\ MaxGroups \in Nat /\ MaxFails \in Nat
    /\ None \notin Names \cup Requests \cup {"ldap", "scim"}

VARIABLES
    mount,      \* what this host has mounted
    sub,        \* by user, the name space of the row's subject, or None without a row
    disabled,   \* the users whose row is disabled
    member,     \* the members of the organisation
    made,       \* the group ids given out
    name,       \* by group id, its name, or None
    grouped,    \* GroupMembership: by group id, the users
    ldap,       \* the people whose LDAP entry has a uid and an address
    sync,       \* the run of Sync
    fails,      \* the failures it has met
    req,        \* HTTP requests in flight
    late,       \* history: rows that were on their way when the membership ended
    met         \* history: requests in the replacement of whose group somebody interfered

people == <<sub, disabled>>
groups == <<made, name, grouped>>
history == <<late, met>>
vars == <<mount, people, member, groups, ldap, sync, fails, req, history>>

-----------------------------------------------------------------------------
(* Data *)

GroupIds == 1 .. MaxGroups

\* The local variables of a SCIM handler: patch when more operations may follow, whole when
\* the members are to be replaced.
Request ==
    [pc : {"idle", "upsert", "disable", "create", "ops", "read", "remove", "add", "write"},
     user : Users \cup {None}, sub : {"ldap", "scim", None}, active : BOOLEAN, new : BOOLEAN,
     name : Names \cup {None}, group : Nat, want : SUBSET Users, left : SUBSET Users,
     patch : BOOLEAN, whole : BOOLEAN]

Idle == [pc |-> "idle", user |-> None, sub |-> None, active |-> FALSE, new |-> FALSE,
         name |-> None, group |-> 0, want |-> {}, left |-> {}, patch |-> FALSE,
         whole |-> FALSE]

\* The local variables of Sync: found is what the search returned, entries what is left
\* of it, ids the users upserted; names, name, group and todo are those of the loops.
Syncing ==
    [pc : {"idle", "users", "groups", "create", "members", "list", "disable"},
     found : SUBSET Users, entries : SUBSET Users, seen : SUBSET Users, ids : SUBSET Users,
     names : SUBSET Names, name : Names \cup {None}, group : Nat,
     todo : SUBSET Users]

NoSync == [pc |-> "idle", found |-> {}, entries |-> {}, seen |-> {}, ids |-> {},
           names |-> {}, name |-> None, group |-> 0, todo |-> {}]

Live(g) == g \in GroupIds /\ name[g] # None

\* The server works on the view of the organisation, and the groups are its own.
View == mount = "org"

\* GroupByName and OrgGroupByName
Named(n) == {g \in GroupIds : name[g] = n}

Begin(r, q) ==
    /\ req[r].pc = "idle"
    /\ req' = [req EXCEPT ![r] = q]

Continue(r, q) == req' = [req EXCEPT ![r] = q]

Finish(r) == Continue(r, Idle)

\* The next operation of a PATCH, or the answer.
Done(r) == IF req[r].patch THEN Continue(r, [Idle EXCEPT !.pc = "ops", !.patch = TRUE,
                                                         !.group = req[r].group])
           ELSE Finish(r)

\* Requests other than r that are replacing the members of one of the groups G.
Disturbed(G, r) == {x \in Requests : x # r /\ req[x].whole /\ req[x].group \in G}

-----------------------------------------------------------------------------
(* The store's writes *)

\* UpsertExternalUser with a verified address creates the row or binds it to the subject.
UpsertExternalUser(u, s) == sub' = [sub EXCEPT ![u] = s]

SetDisabled(u, d) == disabled' = IF d THEN disabled \cup {u} ELSE disabled \ {u}

\* CreateGroup and CreateOrgGroup refuse a second group of a name.
MayCreate(n) == made < MaxGroups /\ Named(n) = {}

CreateGroup(n) ==
    /\ made' = made + 1
    /\ name' = [name EXCEPT ![made + 1] = n]
    /\ UNCHANGED grouped

\* AddUsersToGroup and AddUserToGroup check neither the group nor the user.
AddUsersToGroup(U, g) ==
    /\ grouped' = [grouped EXCEPT ![g] = @ \cup U]
    /\ UNCHANGED <<made, name>>

RemoveUsersFromGroup(U, g) ==
    /\ grouped' = [grouped EXCEPT ![g] = @ \ U]
    /\ UNCHANGED <<made, name>>

-----------------------------------------------------------------------------
(* SCIM: users *)

\* createUser: the address is free.
createUser(r, u, a) ==
    /\ ~View /\ sub[u] = None
    /\ Begin(r, [Idle EXCEPT !.pc = "upsert", !.user = u, !.sub = "scim", !.active = a,
                             !.new = TRUE])
    /\ UNCHANGED <<mount, people, member, groups, ldap, sync, fails, history>>

\* putUser: the row, whose subject is to be preserved.
putUser(r, u, a) ==
    /\ ~View /\ sub[u] # None
    /\ Begin(r, [Idle EXCEPT !.pc = "upsert", !.user = u, !.sub = sub[u], !.active = a])
    /\ UNCHANGED <<mount, people, member, groups, ldap, sync, fails, history>>

\* The upsert; createUser is done when the row is as active as it should be.
UpsertUser(r) ==
    /\ req[r].pc = "upsert"
    /\ LET q == req[r]
       IN  /\ UpsertExternalUser(q.user, q.sub)
           /\ IF q.new /\ q.active = (q.user \notin disabled)
              THEN Finish(r) ELSE Continue(r, [q EXCEPT !.pc = "disable"])
    /\ UNCHANGED <<mount, disabled, member, groups, ldap, sync, fails, history>>

DisableUser(r) ==
    /\ req[r].pc = "disable"
    /\ SetDisabled(req[r].user, ~req[r].active)
    /\ Finish(r)
    /\ UNCHANGED <<mount, sub, member, groups, ldap, sync, fails, history>>

\* An operation of patchUser, deleteUser, or an operator's switch.
SetUserDisabled(u, d) ==
    /\ ~View /\ sub[u] # None
    /\ SetDisabled(u, d)
    /\ UNCHANGED <<mount, sub, member, groups, ldap, sync, fails, req, history>>

-----------------------------------------------------------------------------
(* SCIM and admin API: groups *)

\* createGroup: the name is free.
createGroup(r, n, U) ==
    /\ Named(n) = {}
    /\ Begin(r, [Idle EXCEPT !.pc = "create", !.name = n, !.want = U])
    /\ UNCHANGED <<mount, people, member, groups, ldap, sync, fails, history>>

\* adminCreateOrgGroup, and adminCreateGroup for a group of the installation.
adminCreateOrgGroup(r, n) == createGroup(r, n, {})

MakeGroup(r) ==
    /\ req[r].pc = "create"
    /\ LET q == req[r]
       IN  \/ /\ MayCreate(q.name)
              /\ CreateGroup(q.name)
              /\ Continue(r, [q EXCEPT !.pc = "add", !.group = made + 1, !.name = None])
           \/ ~MayCreate(q.name) /\ Finish(r) /\ UNCHANGED groups
    /\ UNCHANGED <<mount, people, member, ldap, sync, fails, history>>

\* putGroup: the group is visible.
putGroup(r, g, U) ==
    /\ Live(g)
    /\ Begin(r, [Idle EXCEPT !.pc = "read", !.group = g, !.want = U, !.whole = TRUE])
    /\ UNCHANGED <<mount, people, member, groups, ldap, sync, fails, history>>

\* patchGroup: the group is visible.
patchGroup(r, g) ==
    /\ Live(g)
    /\ Begin(r, [Idle EXCEPT !.pc = "ops", !.group = g, !.patch = TRUE])
    /\ UNCHANGED <<mount, people, member, groups, ldap, sync, fails, history>>

\* The next operation: add; remove; replace, of which removing everyone is a case; or none.
PatchOp(r) ==
    /\ req[r].pc = "ops"
    /\ LET q == req[r]
       IN  \/ \E U \in Lists, p \in {"add", "read"} :
                 /\ Continue(r, [q EXCEPT !.pc = p, !.want = U, !.whole = (p = "read")])
                 /\ UNCHANGED <<groups, met>>
           \/ \E U \in Lists :
                 /\ RemoveUsersFromGroup(U, q.group)
                 /\ met' = met \cup Disturbed({q.group}, r)
                 /\ UNCHANGED req
           \/ Finish(r) /\ UNCHANGED <<groups, met>>
    /\ UNCHANGED <<mount, people, member, ldap, sync, fails, late>>

\* Mutant: a replacement adds and removes nobody.
ReadMembersNone(r) ==
    /\ req[r].pc = "read"
    /\ Continue(r, [req[r] EXCEPT !.pc = "add"])
    /\ UNCHANGED <<mount, people, member, groups, ldap, sync, fails, history>>

\* The members who are not wanted any more; a list that cannot be read counts as empty.
ReadMembers(r) ==
    /\ req[r].pc = "read"
    /\ LET q == [req[r] EXCEPT !.pc = "remove"]
       IN  \/ Continue(r, [q EXCEPT !.left = grouped[q.group] \ q.want]) /\ UNCHANGED met
           \/ Continue(r, q) /\ met' = met \cup {r}
    /\ UNCHANGED <<mount, people, member, groups, ldap, sync, fails, late>>

\* removeMembers, whose failure is only logged.
RemoveMembers(r) ==
    /\ req[r].pc = "remove"
    /\ LET q == req[r]
       IN  /\ \/ /\ RemoveUsersFromGroup(q.left, q.group)
                 /\ met' = met \cup Disturbed({q.group}, r)
              \/ /\ met' = met \cup {r}
                 /\ UNCHANGED groups
           /\ Continue(r, [q EXCEPT !.pc = "add", !.left = {}])
    /\ UNCHANGED <<mount, people, member, ldap, sync, fails, late>>

\* Mutant: the view writes whomever the client names.
orgMembersOfAny(U) == U

\* orgMembersOf
orgMembersOf(U) == U \cap member

\* addMembers; the view of an organisation first asks whether the group is its own and
\* which of the users are members.
AddMembers(r) ==
    /\ req[r].pc = "add"
    /\ LET q == req[r]
       IN  \/ /\ View /\ ~Live(q.group)
              /\ Done(r)
              /\ met' = met \ {r}
           \/ /\ View => Live(q.group)
              /\ Continue(r, [q EXCEPT !.pc = "write",
                                       !.want = IF View THEN orgMembersOf(@) ELSE @])
              /\ UNCHANGED met
    /\ UNCHANGED <<mount, people, member, groups, ldap, sync, fails, late>>

\* The rows are written; a failure is only logged.
WriteMembers(r) ==
    /\ req[r].pc = "write"
    /\ LET q == req[r]
       IN  /\ \/ /\ AddUsersToGroup(q.want, q.group)
                 /\ met' = (met \cup Disturbed({q.group}, r)) \ {r}
              \/ /\ met' = met \ {r}
                 /\ UNCHANGED groups
    /\ Done(r)
    /\ UNCHANGED <<mount, people, member, ldap, sync, fails, late>>

\* adminAddOrgGroupMember asks as the view does and writes one row.
adminAddOrgGroupMember(r, g, u) ==
    /\ View /\ Live(g) /\ u \in member
    /\ Begin(r, [Idle EXCEPT !.pc = "write", !.group = g, !.want = {u}])
    /\ UNCHANGED <<mount, people, member, groups, ldap, sync, fails, history>>

\* adminAddMember, for a group of the installation.
adminAddMember(g, u) ==
    /\ ~View /\ Live(g)
    /\ AddUsersToGroup({u}, g)
    /\ met' = met \cup Disturbed({g}, None)
    /\ UNCHANGED <<mount, people, member, ldap, sync, fails, req, late>>

\* adminRemoveMember and adminRemoveOrgGroupMember.
adminRemoveMember(g, u) ==
    /\ Live(g)
    /\ RemoveUsersFromGroup({u}, g)
    /\ met' = met \cup Disturbed({g}, None)
    /\ UNCHANGED <<mount, people, member, ldap, sync, fails, req, late>>

\* deleteGroup, adminDeleteGroup and adminDeleteOrgGroup: the rows go with the group.
DeleteGroup(g) ==
    /\ Live(g)
    /\ name' = [name EXCEPT ![g] = None]
    /\ grouped' = [grouped EXCEPT ![g] = {}]
    /\ late' = {x \in late : x[1] # g}
    /\ met' = met \cup Disturbed({g}, None)
    /\ UNCHANGED <<mount, people, member, made, ldap, sync, fails, req>>

-----------------------------------------------------------------------------
(* The organisation's members, see Orgs *)

SetOrgMember(u) ==
    /\ View /\ sub[u] # None
    /\ member' = member \cup {u}
    /\ met' = met \cup Disturbed(GroupIds, None)
    /\ UNCHANGED <<mount, people, groups, ldap, sync, fails, req, late>>

\* Mutant: the rows in the groups of the organisation stay.
RemoveOrgMemberOnly(u) ==
    /\ u \in member
    /\ member' = member \ {u}
    /\ met' = met \cup Disturbed(GroupIds, None)
    /\ UNCHANGED <<mount, people, groups, ldap, sync, fails, req, late>>

\* Rows of u that have been checked and are about to be written.
OnTheWay(u) ==
    {<<req[r].group, u>> : r \in {x \in Requests : req[x].pc = "write" /\ u \in req[x].want}}

\* RemoveOrgMember takes the rows in the organisation's groups.
RemoveOrgMember(u) ==
    /\ u \in member
    /\ member' = member \ {u}
    /\ grouped' = [g \in GroupIds |-> IF Live(g) THEN grouped[g] \ {u} ELSE grouped[g]]
    /\ late' = {x \in late : x[2] # u} \cup OnTheWay(u)
    /\ met' = met \cup Disturbed(GroupIds, None)
    /\ UNCHANGED <<mount, people, made, name, ldap, sync, fails, req>>

-----------------------------------------------------------------------------
(* The LDAP synchronisation *)

Goto(s) == sync' = s

\* Something that the synchronisation calls fails.
Fails == fails < MaxFails /\ fails' = fails + 1

\* An entry comes to LDAP or leaves it, or gains or loses its address.
LdapChange(u) ==
    /\ ~View
    /\ ldap' = IF u \in ldap THEN ldap \ {u} ELSE ldap \cup {u}
    /\ UNCHANGED <<mount, people, member, groups, sync, fails, req, history>>

\* Sync: the search for users.
SyncSearch ==
    /\ ~View /\ sync.pc = "idle"
    /\ Goto([NoSync EXCEPT !.pc = "users", !.found = ldap, !.entries = ldap])
    /\ UNCHANGED <<mount, people, member, groups, ldap, fails, req, history>>

\* Mutant: an entry is marked as seen once it is upserted.
SyncUserSeenLate(u) ==
    /\ sync.pc = "users" /\ u \in sync.entries
    /\ LET s == [sync EXCEPT !.entries = @ \ {u}]
       IN  \/ /\ UpsertExternalUser(u, "ldap")
              /\ Goto([s EXCEPT !.ids = @ \cup {u}, !.seen = @ \cup {u}])
              /\ UNCHANGED fails
           \/ Fails /\ Goto(s) /\ UNCHANGED sub
    /\ UNCHANGED <<mount, disabled, member, groups, ldap, req, history>>

\* An entry is marked as seen before it is upserted, which may fail.
SyncUser(u) ==
    /\ sync.pc = "users" /\ u \in sync.entries
    /\ LET s == [sync EXCEPT !.entries = @ \ {u}, !.seen = @ \cup {u}]
       IN  \/ /\ UpsertExternalUser(u, "ldap")
              /\ Goto([s EXCEPT !.ids = @ \cup {u}])
              /\ UNCHANGED fails
           \/ Fails /\ Goto(s) /\ UNCHANGED sub
    /\ UNCHANGED <<mount, disabled, member, groups, ldap, req, history>>

\* The search for groups, if they are covered.
SyncGroupSearch ==
    /\ sync.pc = "users" /\ sync.entries = {}
    /\ \E N \in IF GroupBaseDN THEN SUBSET Names ELSE {{}} :
          Goto([sync EXCEPT !.pc = "groups", !.names = N])
    /\ UNCHANGED <<mount, people, member, groups, ldap, fails, req, history>>

\* getOrCreateGroup looks for the next group, of which some of the users are members.
SyncGroup(n) ==
    /\ sync.pc = "groups" /\ n \in sync.names
    /\ \E U \in Lists :
          LET s == [sync EXCEPT !.names = @ \ {n}, !.todo = U \cap sync.ids]
          IN  \/ \E g \in Named(n) : Goto([s EXCEPT !.pc = "members", !.group = g])
              \/ Named(n) = {} /\ Goto([s EXCEPT !.pc = "create", !.name = n])
    /\ UNCHANGED <<mount, people, member, groups, ldap, fails, req, history>>

\* A group that somebody else has made meanwhile, or that cannot be made, is left to the
\* next run.
SyncCreateGroup ==
    /\ sync.pc = "create"
    /\ \/ /\ MayCreate(sync.name)
          /\ CreateGroup(sync.name)
          /\ Goto([sync EXCEPT !.pc = "members", !.name = None, !.group = made + 1])
          /\ UNCHANGED fails
       \/ /\ (~MayCreate(sync.name) /\ UNCHANGED fails) \/ Fails
          /\ Goto([sync EXCEPT !.pc = "groups", !.name = None, !.todo = {}])
          /\ UNCHANGED groups
    /\ UNCHANGED <<mount, people, member, ldap, req, history>>

\* AddUserToGroup, member by member.
SyncMember(u) ==
    /\ sync.pc = "members" /\ u \in sync.todo
    /\ Goto([sync EXCEPT !.todo = @ \ {u}])
    /\ \/ AddUsersToGroup({u}, sync.group) /\ UNCHANGED fails
       \/ Fails /\ UNCHANGED groups
    /\ met' = met \cup Disturbed({sync.group}, None)
    /\ UNCHANGED <<mount, people, member, ldap, req, late>>

SyncGroupDone ==
    /\ \/ /\ sync.pc = "members" /\ sync.todo = {}
          /\ Goto([sync EXCEPT !.pc = "groups", !.group = 0])
       \/ /\ sync.pc = "groups" /\ sync.names = {}
          /\ Goto([sync EXCEPT !.pc = "list"])
    /\ UNCHANGED <<mount, people, member, groups, ldap, fails, req, history>>

\* Mutant: a run deprovisions only when it upserted every user it knows.
MayDeprovisionComplete(s) ==
    DeprovisionMissing /\ {u \in Users : sub[u] = "ldap"} \subseteq s.ids

\* A run that has upserted nobody deprovisions nobody.
MayDeprovision(s) == DeprovisionMissing /\ s.ids # {}

\* The users of LDAP's name space who were not seen.
Missing(s) == {u \in Users : sub[u] = "ldap" /\ u \notin s.seen /\ u \notin disabled}

\* ListUsers
SyncList ==
    /\ sync.pc = "list"
    /\ IF MayDeprovision(sync)
       THEN Goto([sync EXCEPT !.pc = "disable", !.todo = Missing(sync)])
       ELSE Goto(NoSync)
    /\ UNCHANGED <<mount, people, member, groups, ldap, fails, req, history>>

SyncDisable(u) ==
    /\ sync.pc = "disable" /\ u \in sync.todo
    /\ \/ SetDisabled(u, TRUE) /\ UNCHANGED fails
       \/ Fails /\ UNCHANGED disabled
    /\ Goto([sync EXCEPT !.todo = @ \ {u}])
    /\ UNCHANGED <<mount, sub, member, groups, ldap, req, history>>

SyncDone ==
    /\ sync.pc = "disable" /\ sync.todo = {}
    /\ Goto(NoSync)
    /\ UNCHANGED <<mount, people, member, groups, ldap, fails, req, history>>

\* A search or the list fails, or the process stops.
SyncFails ==
    /\ sync.pc # "idle"
    /\ Fails
    /\ Goto(NoSync)
    /\ UNCHANGED <<mount, people, member, groups, ldap, req, history>>

-----------------------------------------------------------------------------

\* A call fails or the process stops: the handler ends where it is.
Fail(r) ==
    /\ req[r].pc # "idle"
    /\ Finish(r)
    /\ met' = met \ {r}
    /\ UNCHANGED <<mount, people, member, groups, ldap, sync, fails, late>>

Init ==
    /\ mount \in Mounts
    /\ sub = [u \in Users |-> IF View THEN "scim" ELSE None] /\ disabled = {} /\ member = {}
    /\ made = 0
    /\ name = [g \in GroupIds |-> None]
    /\ grouped = [g \in GroupIds |-> {}]
    /\ ldap = {}
    /\ sync = NoSync /\ fails = 0
    /\ req = [r \in Requests |-> Idle]
    /\ late = {} /\ met = {}

Sync ==
    \/ SyncSearch \/ SyncGroupSearch \/ SyncCreateGroup \/ SyncGroupDone \/ SyncList \/ SyncDone
    \/ \E u \in Users : SyncUser(u) \/ SyncMember(u) \/ SyncDisable(u)
    \/ \E n \in Names : SyncGroup(n)

Handler(r) ==
    \/ \E u \in ScimUsers, a \in BOOLEAN : createUser(r, u, a) \/ putUser(r, u, a)
    \/ \E U \in Lists : \/ \E n \in Names : createGroup(r, n, U)
                               \/ \E g \in GroupIds : putGroup(r, g, U)
    \/ \E n \in Names : adminCreateOrgGroup(r, n)
    \/ \E g \in GroupIds : \/ patchGroup(r, g)
                           \/ \E u \in UNION Lists : adminAddOrgGroupMember(r, g, u)
    \/ UpsertUser(r) \/ DisableUser(r)
    \/ MakeGroup(r) \/ PatchOp(r) \/ ReadMembers(r) \/ RemoveMembers(r)
    \/ AddMembers(r) \/ WriteMembers(r)
    \/ Fail(r)

Next ==
    \/ \E r \in Requests : Handler(r)
    \/ \E u \in Users : \/ \E d \in BOOLEAN : SetUserDisabled(u, d)
                        \/ SetOrgMember(u) \/ RemoveOrgMember(u) \/ LdapChange(u)
    \/ \E g \in GroupIds : \/ DeleteGroup(g)
                           \/ \E u \in UNION Lists : adminAddMember(g, u) \/ adminRemoveMember(g, u)
    \/ Sync \/ SyncFails

Spec == Init /\ [][Next]_vars

\* The host calls Sync on a schedule, and a run that has begun goes on.
FairSpec == Spec /\ WF_vars(Sync)

-----------------------------------------------------------------------------
(* Properties *)

TypeOK ==
    /\ mount \in Mounts
    /\ sub \in [Users -> {"ldap", "scim", None}]
    /\ disabled \subseteq {u \in Users : sub[u] # None}
    /\ member \subseteq {u \in Users : sub[u] # None}
    /\ made \in 0 .. MaxGroups
    /\ name \in [GroupIds -> Names \cup {None}]
    /\ grouped \in [GroupIds -> SUBSET Users]
    /\ \A g \in GroupIds : g > made => name[g] = None /\ grouped[g] = {}
    /\ ldap \subseteq Users
    /\ sync \in Syncing /\ sync.group <= made
    /\ fails \in 0 .. MaxFails
    /\ req \in [Requests -> Request]
    /\ \A r \in Requests : req[r].group <= made
    /\ late \subseteq GroupIds \X Users /\ met \subseteq Requests

\* The rows of an organisation's group are those of its members: a row outlives the
\* membership only when it was on its way while the member was removed (RemoveOrgMember,
\* AddUsersToGroup of the view).
GroupWithinOrg ==
    View => \A g \in GroupIds : Live(g) => \A u \in grouped[g] : u \in member \/ <<g, u>> \in late

\* A synchronisation disables nobody whom its own search returned, whichever of its
\* writes failed (Sync).
DeprovisionsOnlyMissing == sync.pc = "disable" => sync.todo \cap sync.found = {}

\* A PUT or a replacing PATCH with which nobody interfered leaves nobody in the group but
\* those it names, and in an organisation's group only members of it, unless a call of its
\* own failed (putGroup, patchGroup).
ReplacesMembers ==
    [][\A r \in Requests :
          LET q == req[r]
          IN  WriteMembers(r) /\ q.whole /\ r \notin met /\ AddUsersToGroup(q.want, q.group)
              => {q.group} \X (grouped'[q.group] \ q.want) \subseteq late]_vars

\* A user of LDAP's name space who is missing from LDAP is disabled again and again, as
\* long as LDAP has anybody else: no re-activation and no failure keeps the account open.
MissingIsDisabled ==
    \A u \in Users :
        []<>(sub[u] # "ldap" \/ u \in ldap \/ u \in disabled \/ ldap = {})
=============================================================================
