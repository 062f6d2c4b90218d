--------------------------- MODULE DirectoryProofs --------------------------
(***************************************************************************)
(* Proofs about Directory, for any users, groups, lists of members,         *)
(* requests and failures.                                                   *)
(***************************************************************************)
EXTENDS Directory, TLAPS

-----------------------------------------------------------------------------
(* Types *)

PeopleOK ==
    /\ sub \in [Users -> {"ldap", "scim", None}]
    /\ disabled \subseteq {u \in Users : sub[u] # None}
    /\ member \subseteq {u \in Users : sub[u] # None}

GroupsOK ==
    /\ made \in 0 .. MaxGroups
    /\ name \in [GroupIds -> Names \cup {None}]
    /\ grouped \in [GroupIds -> SUBSET Users]
    /\ \A g \in GroupIds : g > made => name[g] = None /\ grouped[g] = {}

\* Whom the synchronisation is about to disable has a row, and a group that it is about to
\* make has a name.
SyncOK ==
    /\ sync \in Syncing /\ sync.group <= made
    /\ sync.pc = "create" => sync.name \in Names
    /\ sync.pc = "disable" => \A u \in sync.todo : sub[u] # None

\* What a request under way names, by where it is.
Shape(q) ==
    /\ q.pc \in {"upsert", "disable"} => q.user \in Users
    /\ q.pc = "upsert" => q.sub # None
    /\ q.pc = "disable" => sub[q.user] # None
    /\ q.pc = "create" => q.name \in Names
    /\ q.pc \in {"ops", "read", "remove", "add", "write"} => q.group \in GroupIds

ReqsOK ==
    /\ req \in [Requests -> Request]
    /\ \A r \in Requests : req[r].group <= made /\ Shape(req[r])

RestOK ==
    /\ mount \in Mounts /\ ldap \subseteq Users /\ fails \in 0 .. MaxFails
    /\ late \subseteq GroupIds \X Users /\ met \subseteq Requests

TypeInv == PeopleOK /\ GroupsOK /\ SyncOK /\ ReqsOK /\ RestOK

\* The invariant gives the types.
LEMMA TypeInvType == TypeInv => TypeOK
BY DEF TypeInv, TypeOK, PeopleOK, GroupsOK, SyncOK, ReqsOK, RestOK

\* Idle and NoSync are what they stand for.
LEMMA IdleType ==
    /\ Idle \in Request /\ Idle.pc = "idle" /\ Idle.group = 0 /\ Shape(Idle)
    /\ NoSync \in Syncing /\ NoSync.pc = "idle" /\ NoSync.group = 0
BY DirectoryAssumption DEF Idle, Request, Shape, NoSync, Syncing

\* Init establishes the types.
LEMMA InitTypeInv == Init => TypeInv
<1>. SUFFICES ASSUME Init PROVE TypeInv
  OBVIOUS
<1>. USE DirectoryAssumption
<1>1. PeopleOK
  BY DEF Init, PeopleOK
<1>2. GroupsOK
  BY DEF Init, GroupsOK, GroupIds
<1>3. SyncOK
  BY IdleType DEF Init, SyncOK
<1>4. ReqsOK
  BY IdleType DEF Init, ReqsOK
<1>5. RestOK
  BY DEF Init, RestOK
<1>. QED
  BY <1>1, <1>2, <1>3, <1>4, <1>5 DEF TypeInv

\* Rows do not go, and group ids are not given out again.
Grows ==
    /\ made' \in Nat /\ made <= made'
    /\ \A u \in Users : sub[u] # None => sub'[u] # None

\* A request goes on with q.
LEMMA ReqSet ==
    ASSUME TypeInv, Grows, NEW r \in Requests, NEW q \in Request, Continue(r, q),
           q.group <= made', Shape(q)'
    PROVE  ReqsOK'
<1>1. \A s \in Requests : req'[s] = IF s = r THEN q ELSE req[s]
  BY DEF TypeInv, ReqsOK, Continue
<1>2. req' \in [Requests -> Request]
  BY DEF TypeInv, ReqsOK, Continue
<1>3. \A s \in Requests : req[s].group \in Nat /\ req[s].group <= made /\ Shape(req[s]) /\ made \in Nat
  BY DirectoryAssumption DEF TypeInv, ReqsOK, GroupsOK, Request
<1>4. ASSUME NEW s \in Requests PROVE req'[s].group <= made' /\ Shape(req[s])'
  <2>1. CASE s = r
    BY <1>1, <2>1 DEF Shape
  <2>2. CASE s # r
    BY <1>1, <1>3, <2>2 DEF Shape, Grows
  <2>. QED
    BY <2>1, <2>2
<1>. QED
  BY <1>2, <1>4 DEF ReqsOK

\* Requests that stay as they are.
LEMMA ReqsKept == ASSUME TypeInv, Grows, req' = req PROVE ReqsOK'
<1>1. \A s \in Requests : req[s].group \in Nat /\ req[s].group <= made /\ Shape(req[s]) /\ made \in Nat
  BY DirectoryAssumption DEF TypeInv, ReqsOK, GroupsOK, Request
<1>. QED
  BY <1>1 DEF TypeInv, ReqsOK, Shape, Grows

\* A synchronisation that stays where it is.
LEMMA SyncKept == ASSUME TypeInv, Grows, sync' = sync PROVE SyncOK'
<1>1. sync.group \in Nat /\ sync.group <= made /\ made \in Nat /\ sync.todo \subseteq Users
  BY DirectoryAssumption DEF TypeInv, SyncOK, GroupsOK, Syncing
<1>. QED
  BY <1>1 DEF TypeInv, SyncOK, Grows

\* A step that leaves the tables alone.
LEMMA TablesKept ==
    ASSUME TypeInv, UNCHANGED <<people, member, groups>>
    PROVE  Grows /\ PeopleOK' /\ GroupsOK'
BY DirectoryAssumption DEF TypeInv, people, groups, Grows, PeopleOK, GroupsOK

\* A handler goes on with q and writes nothing.
LEMMA QuietHandler ==
    ASSUME TypeInv, UNCHANGED <<mount, people, member, groups, ldap, sync, fails, late>>,
           met' \subseteq Requests, NEW r \in Requests, NEW q \in Request, Continue(r, q),
           q.group <= made, Shape(q)
    PROVE  TypeInv'
<1>1. Grows /\ PeopleOK' /\ GroupsOK'
  BY TablesKept
<1>2. made' = made /\ sub' = sub
  BY DEF groups, people
<1>3. ReqsOK'
  BY <1>1, <1>2, ReqSet DEF Shape
<1>4. SyncOK'
  BY <1>1, SyncKept
<1>5. RestOK'
  BY DEF TypeInv, RestOK
<1>. QED
  BY <1>1, <1>3, <1>4, <1>5 DEF TypeInv

\* A handler begins with q.
LEMMA BeginType ==
    ASSUME TypeInv, UNCHANGED <<mount, people, member, groups, ldap, sync, fails, history>>,
           NEW r \in Requests, NEW q \in Request, Begin(r, q), q.group <= made, Shape(q)
    PROVE  TypeInv'
<1>1. Continue(r, q) /\ late' = late /\ met' = met
  BY DEF Begin, Continue, history
<1>2. met' \subseteq Requests
  BY <1>1 DEF TypeInv, RestOK
<1>. QED
  BY <1>1, <1>2, QuietHandler

\* The operations begin with a request that has its shape.
LEMMA BeginsType ==
    ASSUME TypeInv, NEW r \in Requests,
           \/ \E u \in ScimUsers, a \in BOOLEAN : createUser(r, u, a) \/ putUser(r, u, a)
           \/ \E U \in Lists : \/ \E n \in Names : createGroup(r, n, U)
                               \/ \E g \in GroupIds : putGroup(r, g, U)
           \/ \E n \in Names : adminCreateOrgGroup(r, n)
           \/ \E g \in GroupIds : \/ patchGroup(r, g)
                                  \/ \E u \in UNION Lists : adminAddOrgGroupMember(r, g, u)
    PROVE  TypeInv'
<1>. USE DirectoryAssumption
<1>a. /\ made \in Nat /\ 0 <= made /\ \A g \in GroupIds : Live(g) => g \in Nat /\ g <= made
      /\ sub \in [Users -> {"ldap", "scim", None}]
  BY DEF TypeInv, GroupsOK, PeopleOK, Live, GroupIds
<1>1. ASSUME NEW u \in ScimUsers, NEW a \in BOOLEAN, createUser(r, u, a) PROVE TypeInv'
  <2>. DEFINE q == [Idle EXCEPT !.pc = "upsert", !.user = u, !.sub = "scim", !.active = a,
                                !.new = TRUE]
  <2>1. q \in Request /\ q.group = 0 /\ Shape(q)
    BY DEF Idle, Request, Shape
  <2>2. Begin(r, q) /\ UNCHANGED <<mount, people, member, groups, ldap, sync, fails, history>>
    BY <1>1 DEF createUser
  <2>. HIDE DEF q
  <2>. QED
    BY <1>a, <2>1, <2>2, BeginType
<1>2. ASSUME NEW u \in ScimUsers, NEW a \in BOOLEAN, putUser(r, u, a) PROVE TypeInv'
  <2>. DEFINE q == [Idle EXCEPT !.pc = "upsert", !.user = u, !.sub = sub[u], !.active = a]
  <2>1. sub[u] \in {"ldap", "scim"}
    BY <1>2, <1>a DEF putUser
  <2>2. q \in Request /\ q.group = 0 /\ Shape(q)
    BY <2>1 DEF Idle, Request, Shape
  <2>3. Begin(r, q) /\ UNCHANGED <<mount, people, member, groups, ldap, sync, fails, history>>
    BY <1>2 DEF putUser
  <2>. HIDE DEF q
  <2>. QED
    BY <1>a, <2>2, <2>3, BeginType
<1>3. ASSUME NEW U \in SUBSET Users, NEW n \in Names, createGroup(r, n, U) PROVE TypeInv'
  <2>. DEFINE q == [Idle EXCEPT !.pc = "create", !.name = n, !.want = U]
  <2>1. q \in Request /\ q.group = 0 /\ Shape(q)
    BY DEF Idle, Request, Shape
  <2>2. Begin(r, q) /\ UNCHANGED <<mount, people, member, groups, ldap, sync, fails, history>>
    BY <1>3 DEF createGroup
  <2>. HIDE DEF q
  <2>. QED
    BY <1>a, <2>1, <2>2, BeginType
<1>4. ASSUME NEW U \in SUBSET Users, NEW g \in GroupIds, putGroup(r, g, U) PROVE TypeInv'
  <2>. DEFINE q == [Idle EXCEPT !.pc = "read", !.group = g, !.want = U, !.whole = TRUE]
  <2>1. Live(g) /\ Begin(r, q)
        /\ UNCHANGED <<mount, people, member, groups, ldap, sync, fails, history>>
    BY <1>4 DEF putGroup
  <2>2. q \in Request /\ q.group = g /\ Shape(q)
    BY <1>a, <2>1 DEF Idle, Request, Shape
  <2>. HIDE DEF q
  <2>. QED
    BY <1>a, <2>1, <2>2, BeginType
<1>5. ASSUME NEW g \in GroupIds, patchGroup(r, g) PROVE TypeInv'
  <2>. DEFINE q == [Idle EXCEPT !.pc = "ops", !.group = g, !.patch = TRUE]
  <2>1. Live(g) /\ Begin(r, q)
        /\ UNCHANGED <<mount, people, member, groups, ldap, sync, fails, history>>
    BY <1>5 DEF patchGroup
  <2>2. q \in Request /\ q.group = g /\ Shape(q)
    BY <1>a, <2>1 DEF Idle, Request, Shape
  <2>. HIDE DEF q
  <2>. QED
    BY <1>a, <2>1, <2>2, BeginType
<1>6. ASSUME NEW g \in GroupIds, NEW u \in Users, adminAddOrgGroupMember(r, g, u) PROVE TypeInv'
  <2>. DEFINE q == [Idle EXCEPT !.pc = "write", !.group = g, !.want = {u}]
  <2>1. Live(g) /\ Begin(r, q)
        /\ UNCHANGED <<mount, people, member, groups, ldap, sync, fails, history>>
    BY <1>6 DEF adminAddOrgGroupMember
  <2>2. q \in Request /\ q.group = g /\ Shape(q)
    BY <1>a, <2>1 DEF Idle, Request, Shape
  <2>. HIDE DEF q
  <2>. QED
    BY <1>a, <2>1, <2>2, BeginType
<1>7. Lists \subseteq SUBSET Users /\ UNION Lists \subseteq Users
  OBVIOUS
<1>. QED
  BY <1>1, <1>2, <1>3, <1>4, <1>5, <1>6, <1>7 DEF adminCreateOrgGroup

\* The writes of the store keep the types of the groups.
LEMMA GroupWrites ==
    ASSUME TypeInv
    PROVE  /\ made \in Nat
           /\ \A U \in SUBSET Users, g \in Nat :
                 AddUsersToGroup(U, g) /\ g <= made => GroupsOK' /\ made' = made
           /\ \A U, g : RemoveUsersFromGroup(U, g) => GroupsOK' /\ made' = made
           /\ \A n \in Names : MayCreate(n) /\ CreateGroup(n) =>
                 GroupsOK' /\ made' = made + 1 /\ made + 1 \in GroupIds
           /\ UNCHANGED groups => GroupsOK' /\ made' = made
<1>. USE DirectoryAssumption
<1>1. /\ made \in 0 .. MaxGroups /\ made \in Nat
      /\ name \in [GroupIds -> Names \cup {None}] /\ grouped \in [GroupIds -> SUBSET Users]
      /\ \A g \in GroupIds : g > made => name[g] = None /\ grouped[g] = {}
      /\ GroupIds \subseteq Nat
  BY DEF TypeInv, GroupsOK, GroupIds
<1>2. ASSUME NEW U \in SUBSET Users, NEW g \in Nat, AddUsersToGroup(U, g), g <= made
      PROVE  GroupsOK' /\ made' = made
  <2>1. /\ made' = made /\ name' = name
        /\ \A h \in GroupIds : grouped'[h] = IF h = g THEN grouped[h] \cup U ELSE grouped[h]
    BY <1>1, <1>2 DEF AddUsersToGroup
  <2>2. grouped' \in [GroupIds -> SUBSET Users]
    BY <1>1, <1>2 DEF AddUsersToGroup
  <2>. QED
    BY <1>1, <1>2, <2>1, <2>2 DEF GroupsOK
<1>3. ASSUME NEW U, NEW g, RemoveUsersFromGroup(U, g) PROVE GroupsOK' /\ made' = made
  BY <1>1, <1>3 DEF RemoveUsersFromGroup, GroupsOK
<1>4. ASSUME NEW n \in Names, MayCreate(n), CreateGroup(n)
      PROVE  GroupsOK' /\ made' = made + 1 /\ made + 1 \in GroupIds
  BY <1>1, <1>4 DEF MayCreate, CreateGroup, GroupsOK, GroupIds
<1>5. ASSUME UNCHANGED groups PROVE GroupsOK' /\ made' = made
  BY <1>5 DEF groups, TypeInv, GroupsOK
<1>. QED
  BY <1>1, <1>2, <1>3, <1>4, <1>5

\* Done ends the request or goes on to the next operation.
LEMMA DoneType ==
    ASSUME TypeInv, NEW r \in Requests, Done(r), req[r].pc \in {"add", "write"}
    PROVE  \E q \in Request : /\ Continue(r, q) /\ q.pc \in {"ops", "idle"} /\ ~q.whole
                              /\ Shape(q) /\ q.group <= made
<1>1. /\ req[r] \in Request /\ req[r].group \in GroupIds /\ req[r].group \in Nat
      /\ req[r].group <= made /\ made \in Nat
  BY DirectoryAssumption DEF TypeInv, ReqsOK, Shape, Request, GroupsOK
<1>2. CASE req[r].patch
  <2>. DEFINE q == [Idle EXCEPT !.pc = "ops", !.patch = TRUE, !.group = req[r].group]
  <2>1. q \in Request /\ q.pc = "ops" /\ ~q.whole /\ q.group = req[r].group
    BY <1>1, DirectoryAssumption DEF Idle, Request
  <2>2. Continue(r, q)
    BY <1>2 DEF Done
  <2>. HIDE DEF q
  <2>3. Shape(q)
    BY <1>1, <2>1 DEF Shape
  <2>. QED
    BY <1>1, <2>1, <2>2, <2>3
<1>3. CASE ~req[r].patch
  BY <1>1, <1>3, IdleType DEF Done, Finish, Idle
<1>. QED
  BY <1>2, <1>3

\* What is left of the types when a handler has written groups.
LEMMA HandlerWrites ==
    ASSUME TypeInv, UNCHANGED <<mount, people, member, ldap, sync, fails, late>>,
           met' \subseteq Requests, GroupsOK', made' \in Nat, made <= made', ReqsOK'
    PROVE  TypeInv'
<1>1. Grows /\ PeopleOK'
  BY DEF Grows, people, TypeInv, PeopleOK
<1>2. SyncOK'
  BY <1>1, SyncKept
<1>. QED
  BY <1>1, <1>2 DEF TypeInv, RestOK

\* The later steps of the handlers preserve the types.
LEMMA StepsType ==
    ASSUME TypeInv, NEW r \in Requests,
           \/ UpsertUser(r) \/ DisableUser(r) \/ MakeGroup(r) \/ PatchOp(r) \/ ReadMembers(r)
           \/ RemoveMembers(r) \/ AddMembers(r) \/ WriteMembers(r) \/ Fail(r)
    PROVE  TypeInv'
<1>. USE DirectoryAssumption
<1>a. /\ req[r] \in Request /\ Shape(req[r]) /\ req[r].group <= made /\ made \in Nat
      /\ req[r].group \in Nat /\ req[r].want \subseteq Users
      /\ met \subseteq Requests /\ \A G, x : Disturbed(G, x) \subseteq Requests
  BY GroupWrites DEF TypeInv, ReqsOK, Request, RestOK, Disturbed
<1>b. 0 <= made
  BY <1>a
<1>1. CASE UpsertUser(r)
  <2>1. /\ req[r].pc = "upsert" /\ sub' = [sub EXCEPT ![req[r].user] = req[r].sub]
        /\ UNCHANGED <<mount, disabled, member, groups, ldap, sync, fails, history>>
    BY <1>1 DEF UpsertUser, UpsertExternalUser
  <2>2. req[r].user \in Users /\ req[r].sub \in {"ldap", "scim"}
    BY <1>a, <2>1 DEF Shape, Request
  <2>3. PeopleOK' /\ Grows /\ sub'[req[r].user] # None /\ made' = made /\ GroupsOK'
    BY <1>a, <2>1, <2>2, GroupWrites DEF TypeInv, PeopleOK, Grows
  <2>4. ReqsOK'
    <3>1. CASE Finish(r)
      <4>1. Shape(Idle)'
        BY IdleType DEF Shape
      <4>. QED
        BY <1>b, <2>3, <3>1, <4>1, IdleType, ReqSet DEF Finish
    <3>2. CASE Continue(r, [req[r] EXCEPT !.pc = "disable"])
      <4>. DEFINE q == [req[r] EXCEPT !.pc = "disable"]
      <4>1. q \in Request /\ q.pc = "disable" /\ q.user = req[r].user /\ q.group = req[r].group
        BY <1>a DEF Request
      <4>2. Continue(r, q)
        BY <3>2
      <4>. HIDE DEF q
      <4>3. \A x : x = q => Shape(x)'
        BY <2>2, <2>3, <4>1 DEF Shape
      <4>. QED
        BY <1>a, <2>3, <4>1, <4>2, <4>3, ReqSet
    <3>. QED
      BY <1>1, <3>1, <3>2 DEF UpsertUser
  <2>5. SyncOK'
    BY <2>1, <2>3, SyncKept
  <2>6. RestOK'
    BY <2>1 DEF TypeInv, RestOK, history
  <2>. QED
    BY <2>3, <2>4, <2>5, <2>6 DEF TypeInv
<1>2. CASE DisableUser(r)
  <2>1. /\ req[r].user \in Users /\ sub[req[r].user] # None /\ Continue(r, Idle)
        /\ disabled' \subseteq disabled \cup {req[r].user}
        /\ UNCHANGED <<mount, sub, member, groups, ldap, sync, fails, history>>
    BY <1>2, <1>a DEF DisableUser, SetDisabled, Finish, Shape
  <2>2. PeopleOK' /\ Grows /\ made' = made /\ GroupsOK'
    BY <1>a, <2>1, GroupWrites DEF TypeInv, PeopleOK, Grows
  <2>3. Shape(Idle)'
    BY IdleType DEF Shape
  <2>4. ReqsOK' /\ SyncOK'
    BY <1>b, <2>1, <2>2, <2>3, IdleType, ReqSet, SyncKept
  <2>5. RestOK'
    BY <2>1 DEF TypeInv, RestOK, history
  <2>. QED
    BY <2>2, <2>4, <2>5 DEF TypeInv
<1>3. CASE MakeGroup(r)
  <2>1. UNCHANGED <<mount, people, member, ldap, sync, fails, history>> /\ req[r].name \in Names
    BY <1>3, <1>a DEF MakeGroup, Shape
  <2>2. UNCHANGED <<late, met>> /\ met' \subseteq Requests
    BY <1>a, <2>1 DEF history
  <2>3. CASE Finish(r) /\ UNCHANGED groups
    BY <1>b, <2>1, <2>2, <2>3, IdleType, QuietHandler DEF Finish
  <2>4. CASE /\ MayCreate(req[r].name) /\ CreateGroup(req[r].name)
             /\ Continue(r, [req[r] EXCEPT !.pc = "add", !.group = made + 1, !.name = None])
    <3>. DEFINE q == [req[r] EXCEPT !.pc = "add", !.group = made + 1, !.name = None]
    <3>1. GroupsOK' /\ made' = made + 1 /\ made + 1 \in GroupIds
      BY <2>1, <2>4, GroupWrites
    <3>0. made + 1 \in Nat
      BY <1>a
    <3>2. q \in Request /\ q.pc = "add" /\ q.group = made + 1
      BY <1>a, <3>0 DEF Request
    <3>3. Continue(r, q)
      BY <2>4
    <3>. HIDE DEF q
    <3>4. \A x : x = q => Shape(x)'
      BY <3>1, <3>2 DEF Shape
    <3>5. Grows
      BY <1>a, <2>1, <3>1 DEF Grows, people
    <3>6. ReqsOK'
      BY <1>a, <3>1, <3>2, <3>3, <3>4, <3>5, ReqSet
    <3>. QED
      BY <1>a, <2>1, <2>2, <3>1, <3>6, HandlerWrites
  <2>. QED
    BY <1>3, <2>3, <2>4 DEF MakeGroup
<1>4. CASE PatchOp(r)
  <2>1. /\ UNCHANGED <<mount, people, member, ldap, sync, fails, late>> /\ req[r].group \in GroupIds
        /\ req[r].pc = "ops"
    BY <1>4, <1>a DEF PatchOp, Shape
  <2>2. ASSUME NEW U \in Lists, NEW p \in {"add", "read"}, UNCHANGED <<groups, met>>,
               Continue(r, [req[r] EXCEPT !.pc = p, !.want = U, !.whole = (p = "read")])
        PROVE  TypeInv'
    <3>. DEFINE b == (p = "read")
    <3>. DEFINE q == [req[r] EXCEPT !.pc = p, !.want = U, !.whole = b]
    <3>1. b \in BOOLEAN /\ U \in SUBSET Users
      OBVIOUS
    <3>2. Continue(r, q)
      BY <2>2
    <3>. HIDE DEF b
    <3>3. q \in Request /\ q.pc = p /\ q.group = req[r].group
      BY <1>a, <3>1 DEF Request
    <3>. HIDE DEF q
    <3>4. Shape(q)
      BY <2>1, <3>3 DEF Shape
    <3>. QED
      BY <1>a, <2>1, <2>2, <3>2, <3>3, <3>4, QuietHandler
  <2>3. ASSUME NEW U \in Lists, RemoveUsersFromGroup(U, req[r].group),
               met' = met \cup Disturbed({req[r].group}, r), req' = req
        PROVE  TypeInv'
    <3>1. GroupsOK' /\ made' = made /\ met' \subseteq Requests
      BY <1>a, <2>3, GroupWrites
    <3>2. Grows
      BY <1>a, <2>1, <3>1 DEF Grows, people
    <3>. QED
      BY <1>a, <2>1, <2>3, <3>1, <3>2, ReqsKept, HandlerWrites
  <2>4. CASE Finish(r) /\ UNCHANGED <<groups, met>>
    BY <1>a, <1>b, <2>1, <2>4, IdleType, QuietHandler DEF Finish
  <2>. QED
    BY <1>4, <2>2, <2>3, <2>4 DEF PatchOp
<1>5. CASE ReadMembers(r)
  <2>. DEFINE p == [req[r] EXCEPT !.pc = "remove"]
  <2>. DEFINE L == grouped[p.group] \ p.want
  <2>. DEFINE q == [p EXCEPT !.left = L]
  <2>1. /\ UNCHANGED <<mount, people, member, groups, ldap, sync, fails, late>>
        /\ req[r].group \in GroupIds /\ met' \subseteq Requests
    BY <1>5, <1>a DEF ReadMembers, Shape
  <2>2. p \in Request /\ p.pc = "remove" /\ p.group = req[r].group /\ Shape(p)
    BY <1>a, <2>1 DEF Request, Shape
  <2>3. L \in SUBSET Users
    BY <2>1, <2>2 DEF TypeInv, GroupsOK
  <2>4. Continue(r, p) \/ Continue(r, q)
    BY <1>5 DEF ReadMembers
  <2>. HIDE DEF p, L
  <2>5. q \in Request /\ q.group = req[r].group /\ q.pc = "remove"
    BY <2>2, <2>3 DEF Request
  <2>. HIDE DEF q
  <2>6. Shape(q)
    BY <2>1, <2>5 DEF Shape
  <2>. QED
    BY <1>a, <2>1, <2>2, <2>4, <2>5, <2>6, QuietHandler
<1>6. CASE RemoveMembers(r)
  <2>. DEFINE q == [req[r] EXCEPT !.pc = "add", !.left = {}]
  <2>1. /\ UNCHANGED <<mount, people, member, ldap, sync, fails, late>> /\ req[r].group \in GroupIds
        /\ Continue(r, q) /\ met' \subseteq Requests
    BY <1>6, <1>a DEF RemoveMembers, Shape
  <2>2. GroupsOK' /\ made' = made
    BY <1>6, GroupWrites DEF RemoveMembers
  <2>3. q \in Request /\ q.pc = "add" /\ q.group = req[r].group
    BY <1>a DEF Request
  <2>. HIDE DEF q
  <2>4. \A x : x = q => Shape(x)'
    BY <2>1, <2>3 DEF Shape
  <2>5. Grows
    BY <1>a, <2>1, <2>2 DEF Grows, people
  <2>6. ReqsOK'
    BY <1>a, <2>1, <2>2, <2>3, <2>4, <2>5, ReqSet
  <2>. QED
    BY <1>a, <2>1, <2>2, <2>6, HandlerWrites
<1>7. CASE AddMembers(r)
  <2>1. /\ UNCHANGED <<mount, people, member, groups, ldap, sync, fails, late>>
        /\ req[r].group \in GroupIds /\ met' \subseteq Requests /\ req[r].pc = "add"
    BY <1>7, <1>a DEF AddMembers, Shape
  <2>2. CASE Done(r)
    BY <2>1, <2>2, DoneType, QuietHandler
  <2>3. ASSUME NEW W \in SUBSET Users, Continue(r, [req[r] EXCEPT !.pc = "write", !.want = W])
        PROVE  TypeInv'
    <3>. DEFINE q == [req[r] EXCEPT !.pc = "write", !.want = W]
    <3>1. q \in Request /\ q.pc = "write" /\ q.group = req[r].group
      BY <1>a DEF Request
    <3>2. Continue(r, q)
      BY <2>3
    <3>. HIDE DEF q
    <3>3. Shape(q)
      BY <2>1, <3>1 DEF Shape
    <3>. QED
      BY <1>a, <2>1, <3>1, <3>2, <3>3, QuietHandler
  <2>4. orgMembersOf(req[r].want) \in SUBSET Users /\ req[r].want \in SUBSET Users
    BY <1>a DEF orgMembersOf
  <2>5. CASE Continue(r, [req[r] EXCEPT !.pc = "write",
                                        !.want = IF View THEN orgMembersOf(@) ELSE @])
    BY <2>3, <2>4, <2>5
  <2>. QED
    BY <1>7, <2>2, <2>5 DEF AddMembers
<1>8. CASE WriteMembers(r)
  <2>1. /\ UNCHANGED <<mount, people, member, ldap, sync, fails, late>>
        /\ met' \subseteq Requests /\ req[r].pc = "write" /\ Done(r)
    BY <1>8, <1>a DEF WriteMembers
  <2>2. GroupsOK' /\ made' = made
    BY <1>8, <1>a, GroupWrites DEF WriteMembers
  <2>3. PICK q \in Request : Continue(r, q) /\ q.pc \in {"ops", "idle"} /\ Shape(q) /\ q.group <= made
    BY <2>1, DoneType
  <2>4. Grows /\ Shape(q)'
    BY <1>a, <2>1, <2>2, <2>3 DEF Grows, people, Shape
  <2>5. ReqsOK'
    BY <1>a, <2>2, <2>3, <2>4, ReqSet
  <2>. QED
    BY <1>a, <2>1, <2>2, <2>5, HandlerWrites
<1>9. CASE Fail(r)
  <2>1. /\ UNCHANGED <<mount, people, member, groups, ldap, sync, fails, late>>
        /\ met' \subseteq Requests /\ Continue(r, Idle)
    BY <1>9, <1>a DEF Fail, Finish
  <2>. QED
    BY <1>b, <2>1, IdleType, QuietHandler
<1>. QED
  BY <1>1, <1>2, <1>3, <1>4, <1>5, <1>6, <1>7, <1>8, <1>9

\* The operations that are one step preserve the types.
LEMMA AtOnceType ==
    ASSUME TypeInv,
           \/ \E u \in Users : \/ \E d \in BOOLEAN : SetUserDisabled(u, d)
                               \/ SetOrgMember(u) \/ RemoveOrgMember(u) \/ LdapChange(u)
           \/ \E g \in GroupIds : \/ DeleteGroup(g)
                                  \/ \E u \in UNION Lists : adminAddMember(g, u)
                                                            \/ adminRemoveMember(g, u)
    PROVE  TypeInv'
<1>. USE DirectoryAssumption
<1>a. /\ made \in Nat /\ met \subseteq Requests /\ \A G, x : Disturbed(G, x) \subseteq Requests
      /\ \A g \in GroupIds : Live(g) => g \in Nat /\ g <= made
      /\ UNION Lists \subseteq Users
  BY DEF TypeInv, GroupsOK, RestOK, Disturbed, Live, GroupIds
<1>1. ASSUME NEW u \in Users, NEW d \in BOOLEAN, SetUserDisabled(u, d) PROVE TypeInv'
  <2>1. /\ sub[u] # None /\ disabled' \subseteq disabled \cup {u}
        /\ UNCHANGED <<mount, sub, member, groups, ldap, sync, fails, req, history>>
    BY <1>1 DEF SetUserDisabled, SetDisabled
  <2>2. PeopleOK' /\ Grows /\ GroupsOK'
    BY <1>a, <2>1, GroupWrites DEF TypeInv, PeopleOK, Grows
  <2>. QED
    BY <2>1, <2>2, ReqsKept, SyncKept DEF TypeInv, RestOK, history
<1>2. ASSUME NEW u \in Users, SetOrgMember(u) PROVE TypeInv'
  <2>1. /\ sub[u] # None /\ member' = member \cup {u} /\ met' \subseteq Requests
        /\ UNCHANGED <<mount, sub, disabled, groups, ldap, sync, fails, req, late>>
    BY <1>2, <1>a DEF SetOrgMember, people
  <2>2. PeopleOK' /\ Grows /\ GroupsOK'
    BY <1>a, <2>1, GroupWrites DEF TypeInv, PeopleOK, Grows
  <2>. QED
    BY <2>1, <2>2, ReqsKept, SyncKept DEF TypeInv, RestOK
<1>3. ASSUME NEW u \in Users, RemoveOrgMember(u) PROVE TypeInv'
  <2>1. /\ member' \subseteq member /\ met' \subseteq Requests /\ late' \subseteq late \cup OnTheWay(u)
        /\ UNCHANGED <<mount, sub, disabled, made, name, ldap, sync, fails, req>>
        /\ grouped' = [g \in GroupIds |-> IF Live(g) THEN grouped[g] \ {u} ELSE grouped[g]]
    BY <1>3, <1>a DEF RemoveOrgMember, people
  <2>2. PeopleOK' /\ Grows /\ GroupsOK'
    BY <1>a, <2>1 DEF TypeInv, PeopleOK, GroupsOK, Grows
  <2>3. OnTheWay(u) \subseteq GroupIds \X Users
    BY DEF OnTheWay, TypeInv, ReqsOK, Shape
  <2>4. late' \subseteq GroupIds \X Users
    BY <2>1, <2>3 DEF TypeInv, RestOK
  <2>. QED
    BY <2>1, <2>2, <2>4, ReqsKept, SyncKept DEF TypeInv, RestOK
<1>4. ASSUME NEW u \in Users, LdapChange(u) PROVE TypeInv'
  <2>1. /\ ldap' \subseteq ldap \cup {u}
        /\ UNCHANGED <<mount, people, member, groups, sync, fails, req, late, met>>
    BY <1>4 DEF LdapChange, history
  <2>2. PeopleOK' /\ Grows /\ GroupsOK'
    BY <2>1, TablesKept
  <2>. QED
    BY <2>1, <2>2, ReqsKept, SyncKept DEF TypeInv, RestOK
<1>5. ASSUME NEW g \in GroupIds, DeleteGroup(g) PROVE TypeInv'
  <2>1. /\ name' = [name EXCEPT ![g] = None] /\ grouped' = [grouped EXCEPT ![g] = {}]
        /\ late' \subseteq late /\ met' \subseteq Requests
        /\ UNCHANGED <<mount, people, member, made, ldap, sync, fails, req>>
    BY <1>5, <1>a DEF DeleteGroup
  <2>2. GroupsOK'
    BY <2>1 DEF TypeInv, GroupsOK
  <2>3. PeopleOK' /\ Grows
    BY <1>a, <2>1 DEF TypeInv, PeopleOK, Grows, people
  <2>. QED
    BY <2>1, <2>2, <2>3, ReqsKept, SyncKept DEF TypeInv, RestOK
<1>6. ASSUME NEW g \in GroupIds, NEW u \in Users, adminAddMember(g, u) \/ adminRemoveMember(g, u)
      PROVE  TypeInv'
  <2>1. /\ Live(g) /\ met' \subseteq Requests
        /\ AddUsersToGroup({u}, g) \/ RemoveUsersFromGroup({u}, g)
        /\ UNCHANGED <<mount, people, member, ldap, sync, fails, req, late>>
    BY <1>6, <1>a DEF adminAddMember, adminRemoveMember
  <2>2. GroupsOK' /\ made' = made
    <3>1. {u} \in SUBSET Users /\ g \in Nat /\ g <= made
      BY <1>a, <2>1
    <3>. QED
      BY <2>1, <3>1, GroupWrites
  <2>3. Grows
    BY <1>a, <2>1, <2>2 DEF Grows, people
  <2>. QED
    BY <1>a, <2>1, <2>2, <2>3, ReqsKept, HandlerWrites
<1>. QED
  BY <1>a, <1>1, <1>2, <1>3, <1>4, <1>5, <1>6

\* What is left of the types when the synchronisation has made a step.
LEMMA SyncWrites ==
    ASSUME TypeInv, UNCHANGED <<mount, ldap, req, late>>, fails' \in 0 .. MaxFails,
           met' \subseteq Requests, PeopleOK', GroupsOK', Grows, SyncOK'
    PROVE  TypeInv'
BY ReqsKept DEF TypeInv, RestOK

\* A step of the synchronisation that writes nothing.
LEMMA QuietSync ==
    ASSUME TypeInv, UNCHANGED <<mount, people, member, groups, ldap, req, history>>,
           fails' \in 0 .. MaxFails, NEW s \in Syncing, Goto(s), s.group <= made,
           s.pc = "create" => s.name \in Names,
           s.pc = "disable" => \A u \in s.todo : sub[u] # None
    PROVE  TypeInv'
<1>1. Grows /\ PeopleOK' /\ GroupsOK' /\ made' = made /\ sub' = sub
  BY TablesKept DEF people, groups
<1>2. SyncOK'
  BY <1>1 DEF Goto, SyncOK
<1>. QED
  BY <1>1, <1>2, SyncWrites DEF history, TypeInv, RestOK

\* The synchronisation preserves the types.
LEMMA SyncType == ASSUME TypeInv, Sync \/ SyncFails PROVE TypeInv'
<1>. USE DirectoryAssumption
<1>a. /\ sync \in Syncing /\ sync.group \in Nat /\ sync.group <= made /\ made \in Nat /\ 0 <= made
      /\ sync.todo \subseteq Users /\ sync.ids \subseteq Users /\ ldap \subseteq Users
      /\ sub \in [Users -> {"ldap", "scim", None}]
      /\ fails \in 0 .. MaxFails /\ (Fails => fails' \in 0 .. MaxFails)
      /\ met \subseteq Requests /\ \A G, x : Disturbed(G, x) \subseteq Requests
  BY DEF TypeInv, SyncOK, Syncing, GroupsOK, PeopleOK, RestOK, Fails, Disturbed
<1>1. CASE SyncSearch
  <2>. DEFINE s == [NoSync EXCEPT !.pc = "users", !.found = ldap, !.entries = ldap]
  <2>1. s \in Syncing /\ s.pc = "users" /\ s.group = 0
    BY <1>a DEF NoSync, Syncing
  <2>2. Goto(s) /\ UNCHANGED <<mount, people, member, groups, ldap, fails, req, history>>
    BY <1>1 DEF SyncSearch
  <2>. HIDE DEF s
  <2>. QED
    BY <1>a, <2>1, <2>2, QuietSync
<1>2. CASE SyncGroupSearch
  <2>1. PICK N \in SUBSET Names : Goto([sync EXCEPT !.pc = "groups", !.names = N])
    BY <1>2 DEF SyncGroupSearch
  <2>. DEFINE s == [sync EXCEPT !.pc = "groups", !.names = N]
  <2>2. s \in Syncing /\ s.pc = "groups" /\ s.group = sync.group
    BY <1>a DEF Syncing
  <2>3. Goto(s) /\ UNCHANGED <<mount, people, member, groups, ldap, fails, req, history>>
    BY <1>2, <2>1 DEF SyncGroupSearch
  <2>. HIDE DEF s
  <2>. QED
    BY <1>a, <2>2, <2>3, QuietSync
<1>3. CASE SyncCreateGroup
  <2>1. sync.name \in Names /\ UNCHANGED <<mount, people, member, ldap, req, late, met>>
        /\ sync.pc = "create"
    BY <1>3 DEF SyncCreateGroup, TypeInv, SyncOK, history
  <2>2. CASE /\ MayCreate(sync.name) /\ CreateGroup(sync.name) /\ fails' = fails
             /\ Goto([sync EXCEPT !.pc = "members", !.name = None, !.group = made + 1])
    <3>. DEFINE s == [sync EXCEPT !.pc = "members", !.name = None, !.group = made + 1]
    <3>1. GroupsOK' /\ made' = made + 1
      BY <2>1, <2>2, GroupWrites
    <3>2. made + 1 \in Nat
      BY <1>a
    <3>3. s \in Syncing /\ s.pc = "members" /\ s.group = made + 1
      BY <1>a, <3>2 DEF Syncing
    <3>4. sync' = s
      BY <2>2 DEF Goto
    <3>. HIDE DEF s
    <3>5. SyncOK'
      BY <1>a, <3>1, <3>3, <3>4 DEF SyncOK
    <3>6. Grows /\ PeopleOK'
      BY <1>a, <2>1, <3>1 DEF Grows, TypeInv, PeopleOK, people
    <3>. QED
      BY <1>a, <2>1, <2>2, <3>1, <3>5, <3>6, SyncWrites
  <2>3. CASE /\ fails' = fails \/ Fails
             /\ Goto([sync EXCEPT !.pc = "groups", !.name = None, !.todo = {}])
             /\ UNCHANGED groups
    <3>. DEFINE s == [sync EXCEPT !.pc = "groups", !.name = None, !.todo = {}]
    <3>1. s \in Syncing /\ s.pc = "groups" /\ s.group = sync.group
      BY <1>a DEF Syncing
    <3>2. Goto(s)
      BY <2>3
    <3>. HIDE DEF s
    <3>. QED
      BY <1>a, <2>1, <2>3, <3>1, <3>2, QuietSync DEF history
  <2>. QED
    BY <1>3, <2>2, <2>3 DEF SyncCreateGroup
<1>4. CASE SyncGroupDone
  <2>. DEFINE s == [sync EXCEPT !.pc = "groups", !.group = 0]
  <2>. DEFINE t == [sync EXCEPT !.pc = "list"]
  <2>1. s \in Syncing /\ s.pc = "groups" /\ s.group = 0
    BY <1>a DEF Syncing
  <2>2. t \in Syncing /\ t.pc = "list" /\ t.group = sync.group
    BY <1>a DEF Syncing
  <2>3. /\ Goto(s) \/ Goto(t)
        /\ UNCHANGED <<mount, people, member, groups, ldap, fails, req, history>>
    BY <1>4 DEF SyncGroupDone
  <2>. HIDE DEF s, t
  <2>. QED
    BY <1>a, <2>1, <2>2, <2>3, QuietSync
<1>5. CASE SyncList
  <2>. DEFINE s == [sync EXCEPT !.pc = "disable", !.todo = Missing(sync)]
  <2>0. Missing(sync) \in SUBSET Users /\ \A u \in Missing(sync) : sub[u] # None
    BY DEF Missing
  <2>1. /\ s \in Syncing /\ s.pc = "disable" /\ s.group = sync.group /\ s.todo = Missing(sync)
    BY <1>a, <2>0 DEF Syncing
  <2>2. /\ Goto(s) \/ Goto(NoSync)
        /\ UNCHANGED <<mount, people, member, groups, ldap, fails, req, history>>
    BY <1>5 DEF SyncList
  <2>. HIDE DEF s
  <2>. QED
    BY <1>a, <2>0, <2>1, <2>2, QuietSync, IdleType
<1>6. CASE SyncDone \/ SyncFails
  <2>1. /\ Goto(NoSync) /\ fails' \in 0 .. MaxFails
        /\ UNCHANGED <<mount, people, member, groups, ldap, req, history>>
    BY <1>6, <1>a DEF SyncDone, SyncFails
  <2>. QED
    BY <1>a, <2>1, QuietSync, IdleType
<1>7. ASSUME NEW u \in Users, SyncUser(u) PROVE TypeInv'
  <2>. DEFINE p == [sync EXCEPT !.entries = @ \ {u}, !.seen = @ \cup {u}]
  <2>. DEFINE s == [p EXCEPT !.ids = @ \cup {u}]
  <2>1. /\ UNCHANGED <<mount, disabled, member, groups, ldap, req, late, met>>
        /\ sync.pc = "users"
        /\ \/ sub' = [sub EXCEPT ![u] = "ldap"] /\ Goto(s) /\ fails' = fails
           \/ Fails /\ Goto(p) /\ sub' = sub
    BY <1>7 DEF SyncUser, UpsertExternalUser, history
  <2>2. p \in Syncing /\ p.pc = sync.pc /\ p.group = sync.group
    BY <1>a DEF Syncing
  <2>. HIDE DEF p
  <2>3. s \in Syncing /\ s.pc = sync.pc /\ s.group = sync.group
    BY <2>2 DEF Syncing
  <2>. HIDE DEF s
  <2>4. PeopleOK' /\ Grows
    BY <1>a, <2>1, GroupWrites DEF TypeInv, PeopleOK, Grows
  <2>5. GroupsOK' /\ made' = made
    BY <2>1, GroupWrites
  <2>6. SyncOK'
    BY <1>a, <2>1, <2>2, <2>3, <2>5 DEF SyncOK, Goto
  <2>. QED
    BY <1>a, <2>1, <2>4, <2>5, <2>6, SyncWrites
<1>8. ASSUME NEW u \in Users, SyncMember(u) PROVE TypeInv'
  <2>. DEFINE s == [sync EXCEPT !.todo = @ \ {u}]
  <2>1. /\ UNCHANGED <<mount, people, member, ldap, req, late>> /\ met' \subseteq Requests
        /\ sync.pc = "members" /\ Goto(s) /\ fails' \in 0 .. MaxFails
        /\ AddUsersToGroup({u}, sync.group) \/ UNCHANGED groups
    BY <1>8, <1>a DEF SyncMember
  <2>2. s \in Syncing /\ s.pc = sync.pc /\ s.group = sync.group
    BY <1>a DEF Syncing
  <2>. HIDE DEF s
  <2>3. GroupsOK' /\ made' = made
    BY <1>a, <2>1, GroupWrites
  <2>4. PeopleOK' /\ Grows
    BY <1>a, <2>1, <2>3 DEF TypeInv, PeopleOK, Grows, people
  <2>5. SyncOK'
    BY <1>a, <2>1, <2>2, <2>3 DEF SyncOK, Goto
  <2>. QED
    BY <2>1, <2>3, <2>4, <2>5, SyncWrites
<1>9. ASSUME NEW u \in Users, SyncDisable(u) PROVE TypeInv'
  <2>. DEFINE s == [sync EXCEPT !.todo = @ \ {u}]
  <2>1. /\ UNCHANGED <<mount, sub, member, groups, ldap, req, late, met>>
        /\ sync.pc = "disable" /\ Goto(s) /\ fails' \in 0 .. MaxFails
        /\ disabled' \subseteq disabled \cup {u} /\ sub[u] # None
        /\ \A x \in sync.todo : sub[x] # None
    BY <1>9, <1>a DEF SyncDisable, SetDisabled, history, TypeInv, SyncOK
  <2>2. s \in Syncing /\ s.pc = sync.pc /\ s.group = sync.group /\ s.todo \subseteq sync.todo
    BY <1>a DEF Syncing
  <2>. HIDE DEF s
  <2>3. GroupsOK' /\ made' = made
    BY <2>1, GroupWrites
  <2>4. PeopleOK' /\ Grows
    BY <1>a, <2>1, <2>3 DEF TypeInv, PeopleOK, Grows
  <2>5. SyncOK'
    BY <1>a, <2>1, <2>2, <2>3 DEF SyncOK, Goto
  <2>. QED
    BY <1>a, <2>1, <2>3, <2>4, <2>5, SyncWrites
<1>10. ASSUME NEW n \in Names, SyncGroup(n) PROVE TypeInv'
  <2>1. PICK U \in Lists :
          \/ \E g \in Named(n) : Goto([[sync EXCEPT !.names = @ \ {n}, !.todo = U \cap sync.ids]
                                         EXCEPT !.pc = "members", !.group = g])
          \/ Goto([[sync EXCEPT !.names = @ \ {n}, !.todo = U \cap sync.ids]
                     EXCEPT !.pc = "create", !.name = n])
    BY <1>10 DEF SyncGroup
  <2>. DEFINE p == [sync EXCEPT !.names = @ \ {n}, !.todo = U \cap sync.ids]
  <2>2. U \cap sync.ids \in SUBSET Users
    BY <1>a
  <2>3. p \in Syncing /\ p.group = sync.group
    BY <1>a, <2>2 DEF Syncing
  <2>4. UNCHANGED <<mount, people, member, groups, ldap, fails, req, history>>
    BY <1>10 DEF SyncGroup
  <2>5. \/ \E g \in Named(n) : Goto([p EXCEPT !.pc = "members", !.group = g])
        \/ Goto([p EXCEPT !.pc = "create", !.name = n])
    BY <2>1
  <2>. HIDE DEF p
  <2>6. ASSUME NEW g \in Named(n), Goto([p EXCEPT !.pc = "members", !.group = g]) PROVE TypeInv'
    <3>. DEFINE s == [p EXCEPT !.pc = "members", !.group = g]
    <3>1. g \in Nat /\ g <= made
      BY DEF Named, GroupIds, TypeInv, GroupsOK
    <3>2. s \in Syncing /\ s.pc = "members" /\ s.group = g
      BY <2>3, <3>1 DEF Syncing
    <3>3. Goto(s)
      BY <2>6
    <3>. HIDE DEF s
    <3>. QED
      BY <1>a, <2>4, <3>1, <3>2, <3>3, QuietSync
  <2>7. CASE Goto([p EXCEPT !.pc = "create", !.name = n])
    <3>. DEFINE s == [p EXCEPT !.pc = "create", !.name = n]
    <3>1. s \in Syncing /\ s.pc = "create" /\ s.group = sync.group /\ s.name = n
      BY <2>3 DEF Syncing
    <3>2. Goto(s)
      BY <2>7
    <3>. HIDE DEF s
    <3>. QED
      BY <1>a, <2>4, <3>1, <3>2, QuietSync
  <2>. QED
    BY <2>5, <2>6, <2>7
<1>. QED
  BY <1>1, <1>2, <1>3, <1>4, <1>5, <1>6, <1>7, <1>8, <1>9, <1>10 DEF Sync

\* Every step preserves the types.
LEMMA NextTypeInv == ASSUME TypeInv, [Next]_vars PROVE TypeInv'
<1>1. CASE UNCHANGED vars
  <2>1. UNCHANGED <<mount, people, member, groups, ldap, sync, fails, req, late, met>>
    BY <1>1 DEF vars, history
  <2>2. Grows /\ PeopleOK' /\ GroupsOK'
    BY <2>1, TablesKept
  <2>. QED
    BY <2>1, <2>2, ReqsKept, SyncKept DEF TypeInv, RestOK
<1>2. ASSUME NEW r \in Requests, Handler(r) PROVE TypeInv'
  BY <1>2, BeginsType, StepsType DEF Handler
<1>. QED
  BY <1>1, <1>2, AtOnceType, SyncType DEF Next

\* Every reachable state of the directory has its types; a disabled user and a member have
\* a row, and nobody works on a group that was not made.
THEOREM TypeCorrect == Spec => []TypeOK
<1>1. Init => TypeInv
  BY InitTypeInv
<1>2. TypeInv /\ [Next]_vars => TypeInv'
  BY NextTypeInv
<1>3. TypeInv => TypeOK
  BY TypeInvType
<1>. QED
  BY <1>1, <1>2, <1>3, PTL DEF Spec

-----------------------------------------------------------------------------
(* Whom a synchronisation disables *)

\* The entries of the search are marked as seen by the time the users are listed, and whom
\* the list picks was not seen.
SeenFirst ==
    /\ sync.pc = "users" => sync.found \subseteq sync.seen \cup sync.entries
    /\ sync.pc \notin {"idle", "users"} => sync.found \subseteq sync.seen
    /\ sync.pc = "disable" => sync.todo \cap sync.seen = {}

\* Only the synchronisation moves the synchronisation.
LEMMA OthersLeaveSync ==
    ASSUME [Next]_vars, ~Sync, ~SyncFails
    PROVE  sync' = sync
<1>1. ASSUME NEW r \in Requests, Handler(r) PROVE sync' = sync
  <2>1. CASE \/ \E u \in ScimUsers, a \in BOOLEAN : createUser(r, u, a) \/ putUser(r, u, a)
             \/ \E U \in Lists : \/ \E n \in Names : createGroup(r, n, U)
                                 \/ \E g \in GroupIds : putGroup(r, g, U)
             \/ \E n \in Names : adminCreateOrgGroup(r, n)
             \/ \E g \in GroupIds : \/ patchGroup(r, g)
                                    \/ \E u \in UNION Lists : adminAddOrgGroupMember(r, g, u)
    BY <2>1 DEF createUser, putUser, createGroup, putGroup, adminCreateOrgGroup, patchGroup,
                adminAddOrgGroupMember
  <2>2. CASE \/ UpsertUser(r) \/ DisableUser(r) \/ MakeGroup(r) \/ PatchOp(r) \/ ReadMembers(r)
             \/ RemoveMembers(r) \/ AddMembers(r) \/ WriteMembers(r) \/ Fail(r)
    BY <2>2 DEF UpsertUser, DisableUser, MakeGroup, PatchOp, ReadMembers, RemoveMembers,
                AddMembers, WriteMembers, Fail
  <2>. QED
    BY <1>1, <2>1, <2>2 DEF Handler
<1>2. ASSUME NEW u, \/ \E d \in BOOLEAN : SetUserDisabled(u, d)
                    \/ SetOrgMember(u) \/ RemoveOrgMember(u) \/ LdapChange(u)
      PROVE  sync' = sync
  BY <1>2 DEF SetUserDisabled, SetOrgMember, RemoveOrgMember, LdapChange
<1>3. ASSUME NEW g, \/ DeleteGroup(g)
                    \/ \E u \in UNION Lists : adminAddMember(g, u) \/ adminRemoveMember(g, u)
      PROVE  sync' = sync
  BY <1>3 DEF DeleteGroup, adminAddMember, adminRemoveMember
<1>4. CASE UNCHANGED vars
  BY <1>4 DEF vars
<1>. QED
  BY <1>1, <1>2, <1>3, <1>4 DEF Next

\* Every step preserves it.
LEMMA NextSeenFirst == ASSUME TypeInv, SeenFirst, [Next]_vars PROVE SeenFirst'
<1>a. sync \in Syncing
  BY DEF TypeInv, SyncOK
<1>1. CASE ~Sync /\ ~SyncFails
  BY <1>1, OthersLeaveSync DEF SeenFirst
<1>2. CASE SyncSearch
  <2>1. sync'.pc = "users" /\ sync'.found = ldap /\ sync'.entries = ldap
    BY <1>2 DEF SyncSearch, Goto, NoSync
  <2>. QED
    BY <2>1 DEF SeenFirst
<1>3. ASSUME NEW u \in Users, SyncUser(u) PROVE SeenFirst'
  <2>1. /\ sync'.pc = sync.pc /\ sync.pc = "users" /\ sync'.found = sync.found
        /\ sync'.entries = sync.entries \ {u} /\ sync'.seen = sync.seen \cup {u}
    BY <1>a, <1>3 DEF SyncUser, Goto, Syncing
  <2>. QED
    BY <2>1 DEF SeenFirst
<1>4. CASE SyncGroupSearch
  <2>1. /\ sync.pc = "users" /\ sync.entries = {} /\ sync'.pc = "groups"
        /\ sync'.found = sync.found /\ sync'.seen = sync.seen
    BY <1>a, <1>4 DEF SyncGroupSearch, Goto, Syncing
  <2>. QED
    BY <2>1 DEF SeenFirst
<1>5. CASE SyncGroupDone \/ SyncCreateGroup \/ (\E u \in Users : SyncMember(u))
           \/ \E n \in Names : SyncGroup(n)
  <2>1. /\ sync.pc \in {"groups", "create", "members"}
        /\ sync'.pc \in {"groups", "create", "members", "list"}
        /\ sync'.found = sync.found /\ sync'.seen = sync.seen
    <3>1. CASE SyncGroupDone
      BY <1>a, <3>1 DEF SyncGroupDone, Goto, Syncing
    <3>2. CASE SyncCreateGroup
      BY <1>a, <3>2 DEF SyncCreateGroup, Goto, Syncing
    <3>3. CASE \E u \in Users : SyncMember(u)
      BY <1>a, <3>3 DEF SyncMember, Goto, Syncing
    <3>4. CASE \E n \in Names : SyncGroup(n)
      BY <1>a, <3>4 DEF SyncGroup, Goto, Syncing
    <3>. QED
      BY <1>5, <3>1, <3>2, <3>3, <3>4
  <2>. QED
    BY <2>1 DEF SeenFirst
<1>6. CASE SyncList
  <2>1. CASE sync' = NoSync
    BY <2>1 DEF NoSync, SeenFirst
  <2>2. CASE sync' = [sync EXCEPT !.pc = "disable", !.todo = Missing(sync)]
    <3>1. /\ sync.pc = "list" /\ sync'.pc = "disable" /\ sync'.todo = Missing(sync)
          /\ sync'.found = sync.found /\ sync'.seen = sync.seen
      BY <1>a, <1>6, <2>2 DEF SyncList, Syncing
    <3>2. Missing(sync) \cap sync.seen = {}
      BY DEF Missing
    <3>. QED
      BY <3>1, <3>2 DEF SeenFirst
  <2>. QED
    BY <1>6, <2>1, <2>2 DEF SyncList, Goto
<1>7. ASSUME NEW u \in Users, SyncDisable(u) PROVE SeenFirst'
  <2>1. /\ sync.pc = "disable" /\ sync'.pc = "disable" /\ sync'.todo = sync.todo \ {u}
        /\ sync'.found = sync.found /\ sync'.seen = sync.seen
    BY <1>a, <1>7 DEF SyncDisable, Goto, Syncing
  <2>. QED
    BY <2>1 DEF SeenFirst
<1>8. CASE SyncDone \/ SyncFails
  <2>1. sync' = NoSync
    BY <1>8 DEF SyncDone, SyncFails, Goto
  <2>. QED
    BY <2>1 DEF NoSync, SeenFirst
<1>. QED
  BY <1>1, <1>2, <1>3, <1>4, <1>5, <1>6, <1>7, <1>8 DEF Sync

\* A synchronisation disables nobody whom its own search returned, whichever of its writes
\* fail and whoever else writes the directory meanwhile (Sync).
THEOREM DisablesOnlyMissing == Spec => []DeprovisionsOnlyMissing
<1>1. Init => TypeInv /\ SeenFirst
  BY InitTypeInv DEF Init, SeenFirst, NoSync
<1>2. TypeInv /\ SeenFirst /\ [Next]_vars => (TypeInv /\ SeenFirst)'
  BY NextTypeInv, NextSeenFirst
<1>3. TypeInv /\ SeenFirst => DeprovisionsOnlyMissing
  BY DEF TypeInv, SyncOK, SeenFirst, DeprovisionsOnlyMissing
<1>. QED
  BY <1>1, <1>2, <1>3, PTL DEF Spec

-----------------------------------------------------------------------------
(* The groups of an organisation *)

\* A row that may be: of a member, or on its way when the membership ended.
Allowed(g, u) == u \in member \/ <<g, u>> \in late

\* What has been checked and is about to be written may be, and nothing synchronises the
\* groups of an organisation.
RowsChecked ==
    View => /\ sync.pc = "idle"
            /\ \A r \in Requests : req[r].pc = "write" /\ Live(req[r].group) =>
                  \A u \in req[r].want : Allowed(req[r].group, u)

OrgRows == GroupWithinOrg /\ RowsChecked

\* A step that checks what it is going to write and writes what was checked.
HandlerEffect ==
    /\ UNCHANGED <<mount, member, late, sync>>
    /\ \A s \in Requests : req'[s].pc = "write" => req'[s] = req[s] \/ req'[s].want \subseteq member
    /\ \A g \in GroupIds : name'[g] # None =>
          \/ g > made /\ grouped'[g] = {}
          \/ name[g] # None /\ \A u \in grouped'[g] : u \in grouped[g] \/ Allowed(g, u)

\* Such a step preserves the rows.
LEMMA HandlerRows == ASSUME TypeInv, OrgRows, View, HandlerEffect PROVE OrgRows'
<1>. USE DirectoryAssumption
<1>1. /\ \A s \in Requests : req[s].group \in Nat /\ req[s].group <= made
      /\ made \in Nat /\ GroupIds \subseteq Nat
  BY DEF TypeInv, ReqsOK, Request, GroupsOK, GroupIds
<1>2. /\ \A g \in GroupIds : name[g] # None => \A u \in grouped[g] : Allowed(g, u)
      /\ \A r \in Requests : req[r].pc = "write" /\ req[r].group \in GroupIds
                             /\ name[req[r].group] # None =>
            \A u \in req[r].want : Allowed(req[r].group, u)
      /\ sync.pc = "idle"
  BY DEF OrgRows, GroupWithinOrg, RowsChecked, Live, Allowed
<1>3. \A g, u : Allowed(g, u)' <=> Allowed(g, u)
  BY DEF HandlerEffect, Allowed
<1>4. \A g \in GroupIds : name'[g] # None => \A u \in grouped'[g] : Allowed(g, u)
  BY <1>2 DEF HandlerEffect
<1>5. ASSUME NEW s \in Requests, req'[s].pc = "write", req'[s].group \in GroupIds,
             name'[req'[s].group] # None, NEW u \in req'[s].want
      PROVE  Allowed(req'[s].group, u)
  <2>1. CASE req'[s].want \subseteq member
    BY <1>5, <2>1 DEF Allowed
  <2>2. CASE req'[s] = req[s]
    BY <1>1, <1>2, <1>5, <2>2 DEF HandlerEffect
  <2>. QED
    BY <1>5, <2>1, <2>2 DEF HandlerEffect
<1>6. GroupWithinOrg'
  BY <1>4 DEF HandlerEffect, GroupWithinOrg, Live, Allowed
<1>7. RowsChecked'
  BY <1>2, <1>5 DEF HandlerEffect, RowsChecked, Live, Allowed
<1>. QED
  BY <1>6, <1>7 DEF OrgRows

\* A handler that goes on with q, which is not about to write what it has not checked.
LEMMA ContinueChecked ==
    ASSUME TypeInv, NEW r \in Requests, NEW q, Continue(r, q),
           q.pc = "write" => q.want \subseteq member
    PROVE  \A s \in Requests : req'[s].pc = "write" => req'[s] = req[s] \/ req'[s].want \subseteq member
BY DEF TypeInv, ReqsOK, Continue

\* What leaves the groups alone writes no row.
LEMMA GroupsQuiet ==
    ASSUME UNCHANGED groups
    PROVE  \A g \in GroupIds : name'[g] # None =>
              name[g] # None /\ \A u \in grouped'[g] : u \in grouped[g] \/ Allowed(g, u)
BY DEF groups

\* The starting handlers check what they are going to write.
LEMMA BeginsEffect ==
    ASSUME TypeInv, OrgRows, View, NEW r \in Requests,
           \/ \E u \in ScimUsers, a \in BOOLEAN : createUser(r, u, a) \/ putUser(r, u, a)
           \/ \E U \in Lists : \/ \E n \in Names : createGroup(r, n, U)
                               \/ \E g \in GroupIds : putGroup(r, g, U)
           \/ \E n \in Names : adminCreateOrgGroup(r, n)
           \/ \E g \in GroupIds : \/ patchGroup(r, g)
                                  \/ \E u \in UNION Lists : adminAddOrgGroupMember(r, g, u)
    PROVE  HandlerEffect
<1>. USE DirectoryAssumption
<1>. DEFINE Checks ==
         /\ UNCHANGED <<mount, people, member, groups, ldap, sync, fails, history>>
         /\ \E q : Begin(r, q) /\ (q.pc = "write" => q.want \subseteq member)
<1>1. Checks
  <2>1. ASSUME NEW u \in ScimUsers, NEW a \in BOOLEAN, createUser(r, u, a) \/ putUser(r, u, a)
        PROVE  FALSE
    BY <2>1 DEF createUser, putUser
  <2>2. ASSUME NEW U, NEW n, createGroup(r, n, U)
        PROVE  Checks
    <3>1. [Idle EXCEPT !.pc = "create", !.name = n, !.want = U].pc # "write"
      BY DEF Idle
    <3>. QED
      BY <2>2, <3>1 DEF createGroup
  <2>3. ASSUME NEW U, NEW g \in GroupIds, putGroup(r, g, U)
        PROVE  Checks
    <3>1. [Idle EXCEPT !.pc = "read", !.group = g, !.want = U, !.whole = TRUE].pc # "write"
      BY DEF Idle
    <3>. QED
      BY <2>3, <3>1 DEF putGroup
  <2>4. ASSUME NEW g \in GroupIds, patchGroup(r, g)
        PROVE  Checks
    <3>1. [Idle EXCEPT !.pc = "ops", !.group = g, !.patch = TRUE].pc # "write"
      BY DEF Idle
    <3>. QED
      BY <2>4, <3>1 DEF patchGroup
  <2>5. ASSUME NEW g \in GroupIds, NEW u, adminAddOrgGroupMember(r, g, u)
        PROVE  Checks
    <3>1. [Idle EXCEPT !.pc = "write", !.group = g, !.want = {u}].want \subseteq member
      BY <2>5 DEF Idle, adminAddOrgGroupMember
    <3>. QED
      BY <2>5, <3>1 DEF adminAddOrgGroupMember
  <2>. QED
    BY <2>1, <2>2, <2>3, <2>4, <2>5 DEF adminCreateOrgGroup
<1>2. \A s \in Requests : req'[s].pc = "write" => req'[s] = req[s] \/ req'[s].want \subseteq member
  BY <1>1, ContinueChecked DEF Begin, Continue
<1>. QED
  BY <1>1, <1>2, GroupsQuiet DEF HandlerEffect, history

\* The later steps of the handlers write what was checked.
LEMMA StepsEffect ==
    ASSUME TypeInv, OrgRows, View, NEW r \in Requests,
           \/ UpsertUser(r) \/ DisableUser(r) \/ MakeGroup(r) \/ PatchOp(r) \/ ReadMembers(r)
           \/ RemoveMembers(r) \/ AddMembers(r) \/ WriteMembers(r) \/ Fail(r)
    PROVE  HandlerEffect
<1>. USE DirectoryAssumption
<1>. DEFINE Checked == \A s \in Requests :
         req'[s].pc = "write" => req'[s] = req[s] \/ req'[s].want \subseteq member
<1>. DEFINE Rows == \A g \in GroupIds : name'[g] # None =>
         \/ g > made /\ grouped'[g] = {}
         \/ name[g] # None /\ \A u \in grouped'[g] : u \in grouped[g] \/ Allowed(g, u)
<1>a. /\ req[r] \in Request /\ Shape(req[r])
      /\ name \in [GroupIds -> Names \cup {None}] /\ grouped \in [GroupIds -> SUBSET Users]
      /\ Idle.pc = "idle" /\ made \in Nat /\ GroupIds \subseteq Nat
  BY IdleType DEF TypeInv, ReqsOK, GroupsOK, GroupIds
<1>b. UNCHANGED groups => Rows
  BY GroupsQuiet
<1>c. \A q : Continue(r, q) /\ q.pc # "write" => Checked
  BY ContinueChecked
<1>d. Finish(r) => Checked
  BY <1>a, <1>c DEF Finish
<1>e. \A U, g : RemoveUsersFromGroup(U, g) => Rows
  BY <1>a DEF RemoveUsersFromGroup
<1>f. Done(r) /\ req[r].pc \in {"add", "write"} => Checked
  BY <1>c, DoneType
<1>. HIDE DEF Checked, Rows
<1>g. ASSUME Checked, Rows, UNCHANGED <<mount, member, late, sync>> PROVE HandlerEffect
  BY <1>g DEF HandlerEffect, Checked, Rows
<1>1. CASE UpsertUser(r)
  <2>. DEFINE q == [req[r] EXCEPT !.pc = "disable"]
  <2>1. q.pc # "write"
    BY <1>a DEF Request
  <2>2. Finish(r) \/ Continue(r, q)
    BY <1>1 DEF UpsertUser
  <2>. HIDE DEF q
  <2>. QED
    BY <1>1, <1>b, <1>c, <1>d, <1>g, <2>1, <2>2 DEF UpsertUser, history
<1>2. CASE DisableUser(r)
  BY <1>2, <1>b, <1>d, <1>g DEF DisableUser, history
<1>3. CASE MakeGroup(r)
  <2>. DEFINE q == [req[r] EXCEPT !.pc = "add", !.group = made + 1, !.name = None]
  <2>1. UNCHANGED <<mount, member, late, sync>>
    BY <1>3 DEF MakeGroup, history
  <2>2. CASE MayCreate(req[r].name) /\ CreateGroup(req[r].name) /\ Continue(r, q)
    <3>1. q.pc # "write"
      BY <1>a DEF Request
    <3>. HIDE DEF q
    <3>2. Checked
      BY <1>c, <2>2, <3>1
    <3>3. made + 1 > made /\ \A g \in GroupIds : g > made => grouped[g] = {}
      BY <1>a DEF TypeInv, GroupsOK
    <3>4. grouped' = grouped /\ \A g \in GroupIds : name'[g] # name[g] => g = made + 1
      BY <1>a, <2>2 DEF CreateGroup
    <3>5. Rows
      BY <3>3, <3>4 DEF Rows
    <3>. QED
      BY <1>g, <2>1, <3>2, <3>5
  <2>3. CASE Finish(r) /\ UNCHANGED groups
    BY <1>b, <1>d, <1>g, <2>1, <2>3
  <2>. QED
    BY <1>3, <2>2, <2>3 DEF MakeGroup
<1>4. CASE PatchOp(r)
  <2>1. UNCHANGED <<mount, member, late, sync>>
    BY <1>4 DEF PatchOp
  <2>2. ASSUME NEW U \in Lists, NEW p \in {"add", "read"}, UNCHANGED groups,
               Continue(r, [req[r] EXCEPT !.pc = p, !.want = U, !.whole = (p = "read")])
        PROVE  HandlerEffect
    <3>. DEFINE b == (p = "read")
    <3>. DEFINE q == [req[r] EXCEPT !.pc = p, !.want = U, !.whole = b]
    <3>1. Continue(r, q)
      BY <2>2
    <3>. HIDE DEF b
    <3>2. q.pc # "write"
      BY <1>a DEF Request
    <3>. HIDE DEF q
    <3>. QED
      BY <1>b, <1>c, <1>g, <2>1, <2>2, <3>1, <3>2
  <2>3. ASSUME NEW U \in Lists, RemoveUsersFromGroup(U, req[r].group), req' = req
        PROVE  HandlerEffect
    <3>1. Checked
      BY <2>3 DEF Checked
    <3>. QED
      BY <1>e, <1>g, <2>1, <2>3, <3>1
  <2>4. CASE Finish(r) /\ UNCHANGED groups
    BY <1>b, <1>d, <1>g, <2>1, <2>4
  <2>. QED
    BY <1>4, <2>2, <2>3, <2>4 DEF PatchOp
<1>5. CASE ReadMembers(r)
  <2>. DEFINE p == [req[r] EXCEPT !.pc = "remove"]
  <2>. DEFINE L == grouped[p.group] \ p.want
  <2>. DEFINE q == [p EXCEPT !.left = L]
  <2>1. Continue(r, p) \/ Continue(r, q)
    BY <1>5 DEF ReadMembers
  <2>2. p \in Request /\ p.pc # "write"
    BY <1>a DEF Request
  <2>. HIDE DEF p, L
  <2>3. q.pc # "write"
    BY <2>2 DEF Request
  <2>. HIDE DEF q
  <2>. QED
    BY <1>5, <1>b, <1>c, <1>g, <2>1, <2>2, <2>3 DEF ReadMembers
<1>6. CASE RemoveMembers(r)
  <2>. DEFINE q == [req[r] EXCEPT !.pc = "add", !.left = {}]
  <2>1. Continue(r, q) /\ UNCHANGED <<mount, member, late, sync>>
    BY <1>6 DEF RemoveMembers
  <2>2. q.pc # "write"
    BY <1>a DEF Request
  <2>. HIDE DEF q
  <2>3. Rows
    BY <1>6, <1>b, <1>e DEF RemoveMembers
  <2>. QED
    BY <1>c, <1>g, <2>1, <2>2, <2>3
<1>7. CASE AddMembers(r)
  <2>. DEFINE W == orgMembersOf(req[r].want)
  <2>. DEFINE q == [req[r] EXCEPT !.pc = "write", !.want = W]
  <2>1. UNCHANGED <<mount, member, late, sync, groups>> /\ req[r].pc = "add"
    BY <1>7 DEF AddMembers
  <2>2. Done(r) \/ Continue(r, q)
    BY <1>7 DEF AddMembers
  <2>3. W \subseteq member
    BY DEF orgMembersOf
  <2>. HIDE DEF W
  <2>4. q.want \subseteq member
    BY <1>a, <2>3 DEF Request
  <2>. HIDE DEF q
  <2>5. Checked
    BY <1>f, <2>1, <2>2, <2>4, ContinueChecked DEF Checked
  <2>. QED
    BY <1>b, <1>g, <2>1, <2>5
<1>8. CASE WriteMembers(r)
  <2>1. UNCHANGED <<mount, member, late, sync>> /\ Done(r) /\ req[r].pc = "write"
    BY <1>8 DEF WriteMembers
  <2>2. CASE AddUsersToGroup(req[r].want, req[r].group)
    <3>1. /\ name' = name
          /\ \A g \in GroupIds : grouped'[g] = IF g = req[r].group THEN grouped[g] \cup req[r].want
                                                                  ELSE grouped[g]
      BY <1>a, <2>2 DEF AddUsersToGroup
    <3>2. \A g \in GroupIds : g = req[r].group /\ name[g] # None =>
             \A u \in req[r].want : Allowed(g, u)
      BY <2>1 DEF OrgRows, RowsChecked, Live
    <3>3. Rows
      BY <3>1, <3>2 DEF Rows
    <3>. QED
      BY <1>f, <1>g, <2>1, <3>3
  <2>3. CASE UNCHANGED groups
    BY <1>b, <1>f, <1>g, <2>1, <2>3
  <2>. QED
    BY <1>8, <2>2, <2>3 DEF WriteMembers
<1>9. CASE Fail(r)
  BY <1>9, <1>b, <1>d, <1>g DEF Fail
<1>. QED
  BY <1>1, <1>2, <1>3, <1>4, <1>5, <1>6, <1>7, <1>8, <1>9

\* The steps that are not of a handler preserve the rows.
LEMMA AtOnceRows ==
    ASSUME TypeInv, OrgRows, View,
           \/ \E u \in Users : \/ \E d \in BOOLEAN : SetUserDisabled(u, d)
                               \/ SetOrgMember(u) \/ RemoveOrgMember(u) \/ LdapChange(u)
           \/ \E g \in GroupIds : \/ DeleteGroup(g)
                                  \/ \E u \in UNION Lists : adminAddMember(g, u)
                                                            \/ adminRemoveMember(g, u)
    PROVE  OrgRows'
<1>. USE DirectoryAssumption
<1>a. /\ \A g \in GroupIds : name[g] # None => \A u \in grouped[g] : u \in member \/ <<g, u>> \in late
      /\ \A r \in Requests : req[r].pc = "write" /\ req[r].group \in GroupIds
                             /\ name[req[r].group] # None =>
            \A u \in req[r].want : u \in member \/ <<req[r].group, u>> \in late
      /\ sync.pc = "idle"
  BY DEF OrgRows, GroupWithinOrg, RowsChecked, Live, Allowed
<1>b. name \in [GroupIds -> Names \cup {None}] /\ grouped \in [GroupIds -> SUBSET Users]
      /\ late \subseteq GroupIds \X Users
  BY DEF TypeInv, GroupsOK, RestOK
<1>1. ASSUME NEW u \in Users, SetOrgMember(u) PROVE OrgRows'
  <2>1. member' = member \cup {u} /\ UNCHANGED <<mount, name, grouped, sync, req, late>>
    BY <1>1 DEF SetOrgMember, groups
  <2>. QED
    BY <1>a, <2>1 DEF OrgRows, GroupWithinOrg, RowsChecked, Live, Allowed
<1>2. ASSUME NEW u \in Users, RemoveOrgMember(u) PROVE OrgRows'
  <2>1. /\ member' = member \ {u} /\ UNCHANGED <<mount, name, sync, req>>
        /\ \A g \in GroupIds : name[g] # None => grouped'[g] = grouped[g] \ {u}
        /\ \A g \in GroupIds, x \in Users : x # u /\ <<g, x>> \in late => <<g, x>> \in late'
        /\ OnTheWay(u) \subseteq late'
    BY <1>2, <1>b DEF RemoveOrgMember, Live
  <2>2. \A r \in Requests : req[r].pc = "write" /\ u \in req[r].want =>
           <<req[r].group, u>> \in late'
    BY <2>1 DEF OnTheWay
  <2>3. \A g \in GroupIds : name[g] # None => \A x \in grouped'[g] : x \in member' \/ <<g, x>> \in late'
    BY <1>a, <1>b, <2>1
  <2>4. ASSUME NEW r \in Requests, req[r].pc = "write", req[r].group \in GroupIds,
               name[req[r].group] # None, NEW x \in req[r].want
        PROVE  x \in member' \/ <<req[r].group, x>> \in late'
    <3>1. x \in Users
      BY DEF TypeInv, ReqsOK, Request
    <3>. QED
      BY <1>a, <2>1, <2>2, <2>4, <3>1
  <2>. QED
    BY <1>a, <2>1, <2>3, <2>4 DEF OrgRows, GroupWithinOrg, RowsChecked, Live, Allowed
<1>3. ASSUME NEW g \in GroupIds, DeleteGroup(g) PROVE OrgRows'
  <2>1. /\ UNCHANGED <<mount, member, sync, req>>
        /\ \A h \in GroupIds : name'[h] # None => h # g /\ name[h] # None /\ grouped'[h] = grouped[h]
        /\ \A h \in GroupIds, x \in Users : h # g /\ <<h, x>> \in late => <<h, x>> \in late'
    BY <1>3, <1>b DEF DeleteGroup
  <2>2. \A h \in GroupIds : name'[h] # None => \A x \in grouped'[h] : x \in member' \/ <<h, x>> \in late'
    BY <1>a, <1>b, <2>1
  <2>3. ASSUME NEW r \in Requests, req[r].pc = "write", req[r].group \in GroupIds,
               name'[req[r].group] # None, NEW x \in req[r].want
        PROVE  x \in member' \/ <<req[r].group, x>> \in late'
    <3>1. x \in Users
      BY DEF TypeInv, ReqsOK, Request
    <3>. QED
      BY <1>a, <2>1, <2>3, <3>1
  <2>. QED
    BY <1>a, <2>1, <2>2, <2>3 DEF OrgRows, GroupWithinOrg, RowsChecked, Live, Allowed
<1>4. ASSUME NEW g \in GroupIds, NEW u, adminRemoveMember(g, u) PROVE OrgRows'
  <2>1. /\ UNCHANGED <<mount, member, sync, req, late, name>>
        /\ \A h \in GroupIds : grouped'[h] \subseteq grouped[h]
    BY <1>4, <1>b DEF adminRemoveMember, RemoveUsersFromGroup
  <2>. QED
    BY <1>a, <2>1 DEF OrgRows, GroupWithinOrg, RowsChecked, Live, Allowed
<1>. QED
  BY <1>1, <1>2, <1>3, <1>4 DEF SetUserDisabled, LdapChange, adminAddMember

\* Every step preserves the rows.
LEMMA NextOrgRows == ASSUME TypeInv, OrgRows, [Next]_vars PROVE OrgRows'
<1>1. mount' = mount
  <2>1. ASSUME NEW r \in Requests, Handler(r) PROVE mount' = mount
    BY <2>1 DEF Handler, createUser, putUser, createGroup, putGroup, adminCreateOrgGroup, patchGroup,
                adminAddOrgGroupMember, UpsertUser, DisableUser, MakeGroup, PatchOp, ReadMembers,
                RemoveMembers, AddMembers, WriteMembers, Fail
  <2>2. CASE Sync \/ SyncFails
    BY <2>2 DEF Sync, SyncFails, SyncSearch, SyncUser, SyncGroupSearch, SyncGroup, SyncCreateGroup,
                SyncMember, SyncGroupDone, SyncList, SyncDisable, SyncDone
  <2>3. ASSUME NEW u, \/ \E d \in BOOLEAN : SetUserDisabled(u, d)
                      \/ SetOrgMember(u) \/ RemoveOrgMember(u) \/ LdapChange(u)
        PROVE  mount' = mount
    BY <2>3 DEF SetUserDisabled, SetOrgMember, RemoveOrgMember, LdapChange
  <2>4. ASSUME NEW g, \/ DeleteGroup(g)
                      \/ \E u \in UNION Lists : adminAddMember(g, u) \/ adminRemoveMember(g, u)
        PROVE  mount' = mount
    BY <2>4 DEF DeleteGroup, adminAddMember, adminRemoveMember
  <2>. QED
    BY <2>1, <2>2, <2>3, <2>4 DEF Next, vars
<1>2. CASE ~View
  BY <1>1, <1>2 DEF View, OrgRows, GroupWithinOrg, RowsChecked
<1>3. CASE View
  <2>1. ASSUME NEW r \in Requests, Handler(r) PROVE OrgRows'
    BY <1>3, <2>1, BeginsEffect, StepsEffect, HandlerRows DEF Handler
  <2>2. CASE Sync \/ SyncFails
    <3>1. sync.pc = "idle"
      BY <1>3 DEF OrgRows, RowsChecked
    <3>. QED
      BY <1>3, <2>2, <3>1 DEF Sync, SyncFails, SyncSearch, SyncUser, SyncGroupSearch, SyncGroup,
                SyncCreateGroup, SyncMember, SyncGroupDone, SyncList, SyncDisable, SyncDone
  <2>3. CASE UNCHANGED vars
    BY <2>3 DEF vars, groups, history, OrgRows, GroupWithinOrg, RowsChecked, Live, Allowed, View
  <2>. QED
    BY <1>3, <2>1, <2>2, <2>3, AtOnceRows DEF Next
<1>. QED
  BY <1>2, <1>3

\* The rows of an organisation's groups are those of its members; a row outlives the
\* membership only when it was on its way while the member was removed (RemoveOrgMember,
\* AddUsersToGroup of the view).
THEOREM GroupsWithinOrg == Spec => []GroupWithinOrg
<1>1. Init => TypeInv /\ OrgRows
  <2>. SUFFICES ASSUME Init PROVE OrgRows
    BY InitTypeInv
  <2>1. sync.pc = "idle" /\ \A r \in Requests : req[r].pc = "idle"
    BY IdleType DEF Init
  <2>2. \A g \in GroupIds : name[g] = None
    BY DEF Init
  <2>. QED
    BY <2>1, <2>2 DEF OrgRows, GroupWithinOrg, RowsChecked, Live
<1>2. TypeInv /\ OrgRows /\ [Next]_vars => (TypeInv /\ OrgRows)'
  BY NextTypeInv, NextOrgRows
<1>3. TypeInv /\ OrgRows => GroupWithinOrg
  BY DEF OrgRows
<1>. QED
  BY <1>1, <1>2, <1>3, PTL DEF Spec

-----------------------------------------------------------------------------
(* The replacement of a group's members *)

\* How far the replacement of a request has come, if nobody disturbed it.
Replaced(r) ==
    /\ req[r].whole => req[r].pc \in {"read", "remove", "add", "write"}
    /\ req[r].whole /\ r \notin met =>
          /\ req[r].pc = "remove" => grouped[req[r].group] \ req[r].left \subseteq req[r].want
          /\ req[r].pc = "add" => grouped[req[r].group] \subseteq req[r].want
          /\ req[r].pc = "write" => \A u \in grouped[req[r].group] :
                u \in req[r].want \/ <<req[r].group, u>> \in late

Replacing == \A r \in Requests : Replaced(r)

\* A step that leaves the rows of the group that r replaces alone, unless it is recorded as
\* a disturbance.
LeftAlone(r) ==
    /\ r \in met => r \in met'
    /\ r \notin met' /\ req[r].whole =>
          /\ grouped'[req[r].group] = grouped[req[r].group]
          /\ \A u : <<req[r].group, u>> \in late => <<req[r].group, u>> \in late'

\* A request that did not take the step, which left its group alone, is where it was.
LEMMA StaysReplaced ==
    ASSUME NEW r \in Requests, Replaced(r), LeftAlone(r), req'[r] = req[r]
    PROVE  Replaced(r)'
<1>1. req'[r].whole => req'[r].pc \in {"read", "remove", "add", "write"}
  BY DEF Replaced
<1>2. ASSUME req'[r].whole, r \notin met'
      PROVE  /\ req'[r].pc = "remove" => grouped'[req'[r].group] \ req'[r].left \subseteq req'[r].want
             /\ req'[r].pc = "add" => grouped'[req'[r].group] \subseteq req'[r].want
             /\ req'[r].pc = "write" => \A u \in grouped'[req'[r].group] :
                   u \in req'[r].want \/ <<req'[r].group, u>> \in late'
  BY <1>2 DEF Replaced, LeftAlone
<1>. QED
  BY <1>1, <1>2 DEF Replaced

\* A request that goes on with q, which has come as far as it says.
LEMMA GoesOn ==
    ASSUME TypeInv, Replacing, NEW r \in Requests, NEW q, Continue(r, q),
           \A s \in Requests : s # r => LeftAlone(s),
           q.whole => q.pc \in {"read", "remove", "add", "write"},
           q.whole /\ r \notin met' =>
              /\ q.pc = "remove" => grouped'[q.group] \ q.left \subseteq q.want
              /\ q.pc = "add" => grouped'[q.group] \subseteq q.want
              /\ q.pc = "write" => \A u \in grouped'[q.group] :
                    u \in q.want \/ <<q.group, u>> \in late'
    PROVE  Replacing'
<1>1. \A s \in Requests : req'[s] = IF s = r THEN q ELSE req[s]
  BY DEF TypeInv, ReqsOK, Continue
<1>2. ASSUME NEW s \in Requests, s # r PROVE Replaced(s)'
  BY <1>1, <1>2, StaysReplaced DEF Replacing
<1>3. Replaced(r)'
  BY <1>1 DEF Replaced
<1>. QED
  BY <1>2, <1>3 DEF Replacing

\* A request that goes on without replacing anything.
LEMMA GoesOnOtherwise ==
    ASSUME TypeInv, Replacing, NEW r \in Requests, NEW q, Continue(r, q),
           \A s \in Requests : s # r => LeftAlone(s),
           q.whole => q.pc = "read"
    PROVE  Replacing'
BY GoesOn

\* Who replaces the members of a group names it.
LEMMA WholeGroup ==
    ASSUME TypeInv, Replacing, NEW r \in Requests, req[r].whole PROVE req[r].group \in GroupIds
BY DEF TypeInv, ReqsOK, Shape, Replacing, Replaced

\* A step that writes no rows leaves the groups of the others alone.
LEMMA NoRows ==
    ASSUME NEW r, late' = late, grouped' = grouped, met \subseteq met' \cup {r}
    PROVE  \A s \in Requests : s # r => LeftAlone(s)
BY DEF LeftAlone

\* A write to the rows of one group leaves everybody else's alone.
LEMMA RowsOfOne ==
    ASSUME TypeInv, Replacing, NEW r, late' = late, NEW g, NEW V,
           grouped' = [grouped EXCEPT ![g] = V], met \cup Disturbed({g}, r) \subseteq met' \cup {r}
    PROVE  \A s \in Requests : s # r => LeftAlone(s)
<1>1. grouped \in [GroupIds -> SUBSET Users]
  BY DEF TypeInv, GroupsOK
<1>2. ASSUME NEW s \in Requests, s # r PROVE LeftAlone(s)
  <2>1. s \in met => s \in met'
    BY <1>2
  <2>2. ASSUME s \notin met', req[s].whole PROVE grouped'[req[s].group] = grouped[req[s].group]
    <3>1. req[s].group \in GroupIds
      BY <2>2, WholeGroup
    <3>2. req[s].group # g
      BY <1>2, <2>2 DEF Disturbed
    <3>. QED
      BY <1>1, <1>2, <3>1, <3>2
  <2>. QED
    BY <2>1, <2>2 DEF LeftAlone
<1>. QED
  BY <1>2

\* The operations begin.
LEMMA BeginsReplacing ==
    ASSUME TypeInv, Replacing, NEW r \in Requests,
           \/ \E u \in ScimUsers, a \in BOOLEAN : createUser(r, u, a) \/ putUser(r, u, a)
           \/ \E U \in Lists : \/ \E n \in Names : createGroup(r, n, U)
                               \/ \E g \in GroupIds : putGroup(r, g, U)
           \/ \E n \in Names : adminCreateOrgGroup(r, n)
           \/ \E g \in GroupIds : \/ patchGroup(r, g)
                                  \/ \E u \in UNION Lists : adminAddOrgGroupMember(r, g, u)
    PROVE  Replacing'
<1>1. UNCHANGED <<groups, history>>
  BY DEF createUser, putUser, createGroup, putGroup, adminCreateOrgGroup, patchGroup,
         adminAddOrgGroupMember
<1>2. \A s \in Requests : s # r => LeftAlone(s)
  BY <1>1, NoRows DEF groups, history
<1>3. \E q : Continue(r, q) /\ (q.whole => q.pc = "read")
  <2>1. ASSUME NEW u, NEW a, createUser(r, u, a)
        PROVE  \E q : Continue(r, q) /\ (q.whole => q.pc = "read")
    <3>. DEFINE q == [Idle EXCEPT !.pc = "upsert", !.user = u, !.sub = "scim", !.active = a,
                                  !.new = TRUE]
    <3>1. Continue(r, q)
      BY <2>1 DEF createUser, Begin, Continue
    <3>2. q.whole => q.pc = "read"
      BY DEF Idle
    <3>. QED
      BY <3>1, <3>2
  <2>2. ASSUME NEW u, NEW a, putUser(r, u, a)
        PROVE  \E q : Continue(r, q) /\ (q.whole => q.pc = "read")
    <3>. DEFINE q == [Idle EXCEPT !.pc = "upsert", !.user = u, !.sub = sub[u], !.active = a]
    <3>1. Continue(r, q)
      BY <2>2 DEF putUser, Begin, Continue
    <3>2. q.whole => q.pc = "read"
      BY DEF Idle
    <3>. QED
      BY <3>1, <3>2
  <2>3. ASSUME NEW U, NEW n, createGroup(r, n, U)
        PROVE  \E q : Continue(r, q) /\ (q.whole => q.pc = "read")
    <3>. DEFINE q == [Idle EXCEPT !.pc = "create", !.name = n, !.want = U]
    <3>1. Continue(r, q)
      BY <2>3 DEF createGroup, Begin, Continue
    <3>2. q.whole => q.pc = "read"
      BY DEF Idle
    <3>. QED
      BY <3>1, <3>2
  <2>4. ASSUME NEW U, NEW g, putGroup(r, g, U)
        PROVE  \E q : Continue(r, q) /\ (q.whole => q.pc = "read")
    <3>. DEFINE q == [Idle EXCEPT !.pc = "read", !.group = g, !.want = U, !.whole = TRUE]
    <3>1. Continue(r, q)
      BY <2>4 DEF putGroup, Begin, Continue
    <3>2. q.whole => q.pc = "read"
      BY DEF Idle
    <3>. QED
      BY <3>1, <3>2
  <2>5. ASSUME NEW g, patchGroup(r, g)
        PROVE  \E q : Continue(r, q) /\ (q.whole => q.pc = "read")
    <3>. DEFINE q == [Idle EXCEPT !.pc = "ops", !.group = g, !.patch = TRUE]
    <3>1. Continue(r, q)
      BY <2>5 DEF patchGroup, Begin, Continue
    <3>2. q.whole => q.pc = "read"
      BY DEF Idle
    <3>. QED
      BY <3>1, <3>2
  <2>6. ASSUME NEW g, NEW u, adminAddOrgGroupMember(r, g, u)
        PROVE  \E q : Continue(r, q) /\ (q.whole => q.pc = "read")
    <3>. DEFINE q == [Idle EXCEPT !.pc = "write", !.group = g, !.want = {u}]
    <3>1. Continue(r, q)
      BY <2>6 DEF adminAddOrgGroupMember, Begin, Continue
    <3>2. q.whole => q.pc = "read"
      BY DEF Idle
    <3>. QED
      BY <3>1, <3>2
  <2>. QED
    BY <2>1, <2>2, <2>3, <2>4, <2>5, <2>6 DEF adminCreateOrgGroup
<1>. QED
  BY <1>2, <1>3, GoesOnOtherwise

\* The steps of the handlers that replace nothing, or begin or end a replacement.
LEMMA OtherStepsReplacing ==
    ASSUME TypeInv, Replacing, NEW r \in Requests,
           \/ UpsertUser(r) \/ DisableUser(r) \/ MakeGroup(r) \/ PatchOp(r) \/ WriteMembers(r)
           \/ Fail(r)
    PROVE  Replacing'
<1>a. /\ req[r] \in Request
      /\ req[r].whole => req[r].pc \in {"read", "remove", "add", "write"}
  BY DEF TypeInv, ReqsOK, Replacing, Replaced
<1>b. ~Idle.whole
  BY DEF Idle
<1>1. CASE UpsertUser(r)
  <2>1. \A s \in Requests : s # r => LeftAlone(s)
    BY <1>1, NoRows DEF UpsertUser, groups, history
  <2>2. CASE Finish(r)
    BY <1>b, <2>1, <2>2, GoesOnOtherwise DEF Finish
  <2>3. CASE Continue(r, [req[r] EXCEPT !.pc = "disable"])
    <3>. DEFINE q == [req[r] EXCEPT !.pc = "disable"]
    <3>1. ~q.whole
      BY <1>1, <1>a DEF UpsertUser, Request
    <3>2. Continue(r, q)
      BY <2>3
    <3>. HIDE DEF q
    <3>. QED
      BY <2>1, <3>1, <3>2, GoesOnOtherwise
  <2>. QED
    BY <1>1, <2>2, <2>3 DEF UpsertUser
<1>2. CASE DisableUser(r) \/ Fail(r)
  <2>1. \A s \in Requests : s # r => LeftAlone(s)
    BY <1>2, NoRows DEF DisableUser, Fail, groups, history
  <2>. QED
    BY <1>2, <1>b, <2>1, GoesOnOtherwise DEF DisableUser, Fail, Finish
<1>3. CASE MakeGroup(r)
  <2>1. \A s \in Requests : s # r => LeftAlone(s)
    BY <1>3, NoRows DEF MakeGroup, CreateGroup, groups, history
  <2>2. CASE Finish(r)
    BY <1>b, <2>1, <2>2, GoesOnOtherwise DEF Finish
  <2>3. CASE Continue(r, [req[r] EXCEPT !.pc = "add", !.group = made + 1, !.name = None])
    <3>. DEFINE q == [req[r] EXCEPT !.pc = "add", !.group = made + 1, !.name = None]
    <3>1. ~q.whole
      BY <1>3, <1>a DEF MakeGroup, Request
    <3>2. Continue(r, q)
      BY <2>3
    <3>. HIDE DEF q
    <3>. QED
      BY <2>1, <3>1, <3>2, GoesOnOtherwise
  <2>. QED
    BY <1>3, <2>2, <2>3 DEF MakeGroup
<1>4. CASE PatchOp(r)
  <2>0. late' = late /\ req[r].pc = "ops" /\ ~req[r].whole
    BY <1>4, <1>a DEF PatchOp
  <2>1. ASSUME NEW U \in Lists, NEW p \in {"add", "read"}, UNCHANGED <<groups, met>>,
               Continue(r, [req[r] EXCEPT !.pc = p, !.want = U, !.whole = (p = "read")])
        PROVE  Replacing'
    <3>1. \A s \in Requests : s # r => LeftAlone(s)
      BY <2>0, <2>1, NoRows DEF groups
    <3>. DEFINE b == (p = "read")
    <3>. DEFINE q == [req[r] EXCEPT !.pc = p, !.want = U, !.whole = b]
    <3>2. Continue(r, q)
      BY <2>1
    <3>3. b => p = "read"
      OBVIOUS
    <3>. HIDE DEF b
    <3>4. q.whole = b /\ q.pc = p
      BY <1>a DEF Request
    <3>. HIDE DEF q
    <3>. QED
      BY <3>1, <3>2, <3>3, <3>4, GoesOnOtherwise
  <2>2. ASSUME NEW U \in Lists, RemoveUsersFromGroup(U, req[r].group),
               met' = met \cup Disturbed({req[r].group}, r), req' = req
        PROVE  Replacing'
    <3>1. \E g, V : g = req[r].group /\ grouped' = [grouped EXCEPT ![g] = V]
      BY <2>2 DEF RemoveUsersFromGroup
    <3>2. \A s \in Requests : s # r => LeftAlone(s)
      BY <2>0, <2>2, <3>1, RowsOfOne
    <3>3. \A s \in Requests : s # r => Replaced(s)'
      BY <2>2, <3>2, StaysReplaced DEF Replacing
    <3>4. Replaced(r)'
      BY <2>0, <2>2 DEF Replaced
    <3>. QED
      BY <3>3, <3>4 DEF Replacing
  <2>3. ASSUME Finish(r), UNCHANGED <<groups, met>> PROVE Replacing'
    <3>1. \A s \in Requests : s # r => LeftAlone(s)
      BY <2>0, <2>3, NoRows DEF groups
    <3>. QED
      BY <1>b, <2>3, <3>1, GoesOnOtherwise DEF Finish
  <2>. QED
    BY <1>4, <2>1, <2>2, <2>3 DEF PatchOp
<1>5. CASE WriteMembers(r)
  <2>1. late' = late /\ req[r].pc = "write" /\ Done(r)
    BY <1>5 DEF WriteMembers
  <2>2. \A s \in Requests : s # r => LeftAlone(s)
    <3>1. CASE /\ AddUsersToGroup(req[r].want, req[r].group)
               /\ met' = (met \cup Disturbed({req[r].group}, r)) \ {r}
      <4>1. \E g, V : g = req[r].group /\ grouped' = [grouped EXCEPT ![g] = V]
        BY <3>1 DEF AddUsersToGroup
      <4>. QED
        BY <2>1, <3>1, <4>1, RowsOfOne
    <3>2. CASE met' = met \ {r} /\ UNCHANGED groups
      BY <2>1, <3>2, NoRows DEF groups
    <3>. QED
      BY <1>5, <3>1, <3>2 DEF WriteMembers
  <2>. QED
    BY <2>1, <2>2, DoneType, GoesOnOtherwise
<1>. QED
  BY <1>1, <1>2, <1>3, <1>4, <1>5

\* The steps of a replacement.
LEMMA ReplacingSteps ==
    ASSUME TypeInv, OrgRows, Replacing, NEW r \in Requests,
           ReadMembers(r) \/ RemoveMembers(r) \/ AddMembers(r)
    PROVE  Replacing'
<1>a. /\ req[r] \in Request /\ late' = late
      /\ req[r].whole => req[r].group \in GroupIds
      /\ grouped \in [GroupIds -> SUBSET Users]
  BY WholeGroup DEF TypeInv, ReqsOK, GroupsOK, ReadMembers, RemoveMembers, AddMembers
<1>1. CASE ReadMembers(r)
  <2>1. UNCHANGED groups /\ req[r].pc = "read"
    BY <1>1 DEF ReadMembers
  <2>2. CASE /\ Continue(r, [req[r] EXCEPT !.pc = "remove",
                                           !.left = grouped[req[r].group] \ req[r].want])
             /\ UNCHANGED met
    <3>1. \A s \in Requests : s # r => LeftAlone(s)
      BY <1>a, <2>1, <2>2, NoRows DEF groups
    <3>. DEFINE V == grouped[req[r].group] \ req[r].want
    <3>. DEFINE q == [req[r] EXCEPT !.pc = "remove", !.left = V]
    <3>2. Continue(r, q)
      BY <2>2
    <3>3. /\ q.pc = "remove" /\ q.left = grouped[req[r].group] \ req[r].want
          /\ q.want = req[r].want /\ q.group = req[r].group
      BY <1>a DEF Request
    <3>. HIDE DEF q, V
    <3>. QED
      BY <2>1, <3>1, <3>2, <3>3, GoesOn DEF groups
  <2>3. CASE Continue(r, [req[r] EXCEPT !.pc = "remove"]) /\ met' = met \cup {r}
    <3>1. \A s \in Requests : s # r => LeftAlone(s)
      BY <1>a, <2>1, <2>3, NoRows DEF groups
    <3>. DEFINE q == [req[r] EXCEPT !.pc = "remove"]
    <3>2. Continue(r, q)
      BY <2>3
    <3>3. q.pc = "remove"
      BY <1>a DEF Request
    <3>. HIDE DEF q
    <3>. QED
      BY <2>3, <3>1, <3>2, <3>3, GoesOn
  <2>4. /\ [[req[r] EXCEPT !.pc = "remove"] EXCEPT !.left = grouped[req[r].group] \ req[r].want]
           = [req[r] EXCEPT !.pc = "remove", !.left = grouped[req[r].group] \ req[r].want]
        /\ [req[r] EXCEPT !.pc = "remove"].group = req[r].group
        /\ [req[r] EXCEPT !.pc = "remove"].want = req[r].want
    BY <1>a DEF Request
  <2>. QED
    BY <1>1, <2>2, <2>3, <2>4 DEF ReadMembers
<1>2. CASE RemoveMembers(r)
  <2>. DEFINE q == [req[r] EXCEPT !.pc = "add", !.left = {}]
  <2>1. Continue(r, q) /\ req[r].pc = "remove"
    BY <1>2 DEF RemoveMembers
  <2>2. q.pc = "add" /\ q.want = req[r].want /\ q.group = req[r].group /\ q.whole = req[r].whole
    BY <1>a DEF Request
  <2>. HIDE DEF q
  <2>3. CASE /\ RemoveUsersFromGroup(req[r].left, req[r].group)
             /\ met' = met \cup Disturbed({req[r].group}, r)
    <3>1. \E g, V : g = req[r].group /\ grouped' = [grouped EXCEPT ![g] = V]
      BY <2>3 DEF RemoveUsersFromGroup
    <3>2. \A s \in Requests : s # r => LeftAlone(s)
      BY <1>a, <2>3, <3>1, RowsOfOne
    <3>3. ASSUME req[r].whole, r \notin met' PROVE grouped'[req[r].group] \subseteq req[r].want
      <4>1. grouped[req[r].group] \ req[r].left \subseteq req[r].want
        BY <2>1, <2>3, <3>3 DEF Replacing, Replaced
      <4>2. grouped'[req[r].group] = grouped[req[r].group] \ req[r].left
        BY <1>a, <2>3, <3>3 DEF RemoveUsersFromGroup
      <4>. QED
        BY <4>1, <4>2
    <3>. QED
      BY <2>1, <2>2, <3>2, <3>3, GoesOn
  <2>4. CASE met' = met \cup {r} /\ UNCHANGED groups
    <3>1. \A s \in Requests : s # r => LeftAlone(s)
      BY <1>a, <2>4, NoRows DEF groups
    <3>. QED
      BY <2>1, <2>2, <2>4, <3>1, GoesOn
  <2>. QED
    BY <1>2, <2>3, <2>4 DEF RemoveMembers
<1>3. CASE AddMembers(r)
  <2>1. UNCHANGED groups /\ req[r].pc = "add"
    BY <1>3 DEF AddMembers
  <2>2. CASE Done(r) /\ met' = met \ {r}
    <3>1. \A s \in Requests : s # r => LeftAlone(s)
      BY <1>a, <2>1, <2>2, NoRows DEF groups
    <3>. QED
      BY <2>1, <2>2, <3>1, DoneType, GoesOnOtherwise
  <2>3. CASE /\ View => Live(req[r].group)
             /\ Continue(r, [req[r] EXCEPT !.pc = "write",
                                           !.want = IF View THEN orgMembersOf(@) ELSE @])
             /\ UNCHANGED met
    <3>1. \A s \in Requests : s # r => LeftAlone(s)
      BY <1>a, <2>1, <2>3, NoRows DEF groups
    <3>. DEFINE W == IF View THEN orgMembersOf(req[r].want) ELSE req[r].want
    <3>. DEFINE q == [req[r] EXCEPT !.pc = "write", !.want = W]
    <3>2. Continue(r, q)
      BY <2>3
    <3>3. /\ q.pc = "write" /\ q.want = W /\ q.group = req[r].group /\ q.whole = req[r].whole
      BY <1>a DEF Request
    <3>4. W = IF View THEN req[r].want \cap member ELSE req[r].want
      BY DEF orgMembersOf
    <3>. HIDE DEF q, W
    <3>5. ASSUME req[r].whole, r \notin met', NEW u \in grouped'[req[r].group]
          PROVE  u \in W \/ <<req[r].group, u>> \in late'
      <4>1. u \in req[r].want /\ u \in grouped[req[r].group]
        BY <2>1, <2>3, <3>5 DEF Replacing, Replaced, groups
      <4>2. CASE View
        <5>1. u \in member \/ <<req[r].group, u>> \in late
          BY <1>a, <2>3, <3>5, <4>1, <4>2 DEF OrgRows, GroupWithinOrg
        <5>. QED
          BY <1>a, <3>4, <4>1, <4>2, <5>1
      <4>3. CASE ~View
        BY <3>4, <4>1, <4>3
      <4>. QED
        BY <4>2, <4>3
    <3>. QED
      BY <3>1, <3>2, <3>3, <3>5, GoesOn
  <2>. QED
    BY <1>3, <2>2, <2>3 DEF AddMembers
<1>. QED
  BY <1>1, <1>2, <1>3

\* The writes of operators and of the synchronisation leave alone what is replaced, or count
\* as a disturbance.
LEMMA OthersReplacing ==
    ASSUME TypeInv, Replacing, req' = req,
           \/ UNCHANGED <<grouped, history>>
           \/ /\ late' = late
              /\ \E g, V : /\ grouped' = [grouped EXCEPT ![g] = V] \/ grouped' = grouped
                           /\ met' = met \cup Disturbed({g}, None)
           \/ \E u \in Users : SetOrgMember(u) \/ RemoveOrgMember(u)
           \/ \E g \in GroupIds : DeleteGroup(g)
    PROVE  Replacing'
<1>a. \A s \in Requests : s # None
  BY DirectoryAssumption
<1>. SUFFICES \A s \in Requests : LeftAlone(s)
  BY StaysReplaced DEF Replacing
<1>1. CASE UNCHANGED <<grouped, history>>
  BY <1>1, <1>a, NoRows DEF history
<1>2. ASSUME late' = late, NEW g, NEW V, grouped' = [grouped EXCEPT ![g] = V] \/ grouped' = grouped,
             met' = met \cup Disturbed({g}, None)
      PROVE  \A s \in Requests : LeftAlone(s)
  <2>1. CASE grouped' = grouped
    BY <1>2, <2>1, <1>a, NoRows
  <2>2. CASE grouped' = [grouped EXCEPT ![g] = V]
    BY <1>2, <2>2, <1>a, RowsOfOne
  <2>. QED
    BY <1>2, <2>1, <2>2
<1>3. ASSUME NEW u \in Users, SetOrgMember(u) \/ RemoveOrgMember(u), NEW s \in Requests
      PROVE  LeftAlone(s)
  <2>1. met' = met \cup Disturbed(GroupIds, None)
    BY <1>3 DEF SetOrgMember, RemoveOrgMember
  <2>2. req[s].whole => s \in met'
    BY <1>a, <2>1, WholeGroup DEF Disturbed
  <2>. QED
    BY <2>1, <2>2 DEF LeftAlone
<1>4. ASSUME NEW g \in GroupIds, DeleteGroup(g), NEW s \in Requests PROVE LeftAlone(s)
  <2>1. /\ met' = met \cup Disturbed({g}, None)
        /\ grouped' = [grouped EXCEPT ![g] = {}] /\ late' = {x \in late : x[1] # g}
    BY <1>4 DEF DeleteGroup
  <2>2. ASSUME s \notin met', req[s].whole
        PROVE  /\ grouped'[req[s].group] = grouped[req[s].group]
               /\ \A u : <<req[s].group, u>> \in late => <<req[s].group, u>> \in late'
    <3>1. req[s].group \in GroupIds /\ req[s].group # g
      BY <1>a, <2>1, <2>2, WholeGroup DEF Disturbed
    <3>2. grouped \in [GroupIds -> SUBSET Users]
      BY DEF TypeInv, GroupsOK
    <3>3. grouped'[req[s].group] = grouped[req[s].group]
      BY <2>1, <3>1, <3>2
    <3>4. \A u : <<req[s].group, u>> \in late => <<req[s].group, u>> \in late'
      BY <2>1, <3>1
    <3>. QED
      BY <3>3, <3>4
  <2>. QED
    BY <2>1, <2>2 DEF LeftAlone
<1>. QED
  BY <1>1, <1>2, <1>3, <1>4

\* Every step preserves what replacements have reached.
LEMMA NextReplacing == ASSUME TypeInv, OrgRows, Replacing, [Next]_vars PROVE Replacing'
<1>1. ASSUME NEW r \in Requests, Handler(r) PROVE Replacing'
  BY <1>1, BeginsReplacing, OtherStepsReplacing, ReplacingSteps DEF Handler
<1>2. ASSUME NEW u \in Users, \/ \E d \in BOOLEAN : SetUserDisabled(u, d)
                              \/ SetOrgMember(u) \/ RemoveOrgMember(u) \/ LdapChange(u)
      PROVE  Replacing'
  <2>1. CASE SetOrgMember(u) \/ RemoveOrgMember(u)
    <3>1. req' = req
      BY <2>1 DEF SetOrgMember, RemoveOrgMember
    <3>. QED
      BY <2>1, <3>1, OthersReplacing
  <2>2. CASE (\E d \in BOOLEAN : SetUserDisabled(u, d)) \/ LdapChange(u)
    <3>1. req' = req /\ UNCHANGED <<grouped, history>>
      BY <2>2 DEF SetUserDisabled, LdapChange, groups
    <3>. QED
      BY <3>1, OthersReplacing
  <2>. QED
    BY <1>2, <2>1, <2>2
<1>3. ASSUME NEW g \in GroupIds, \/ DeleteGroup(g)
                                 \/ \E u \in UNION Lists : adminAddMember(g, u) \/ adminRemoveMember(g, u)
      PROVE  Replacing'
  <2>1. CASE DeleteGroup(g)
    <3>1. req' = req
      BY <2>1 DEF DeleteGroup
    <3>. QED
      BY <2>1, <3>1, OthersReplacing
  <2>2. CASE \E u \in UNION Lists : adminAddMember(g, u) \/ adminRemoveMember(g, u)
    <3>1. /\ req' = req /\ late' = late /\ met' = met \cup Disturbed({g}, None)
          /\ \E V : grouped' = [grouped EXCEPT ![g] = V]
      BY <2>2 DEF adminAddMember, adminRemoveMember, AddUsersToGroup, RemoveUsersFromGroup
    <3>. QED
      BY <3>1, OthersReplacing
  <2>. QED
    BY <1>3, <2>1, <2>2
<1>4. CASE Sync \/ SyncFails
  <2>1. ASSUME NEW u \in Users, SyncMember(u) PROVE Replacing'
    <3>1. /\ req' = req /\ late' = late /\ met' = met \cup Disturbed({sync.group}, None)
          /\ (\E V : grouped' = [grouped EXCEPT ![sync.group] = V]) \/ grouped' = grouped
      BY <2>1 DEF SyncMember, AddUsersToGroup, groups
    <3>. QED
      BY <3>1, OthersReplacing
  <2>2. CASE SyncCreateGroup
    <3>1. req' = req /\ UNCHANGED <<grouped, history>>
      BY <2>2 DEF SyncCreateGroup, CreateGroup, groups
    <3>. QED
      BY <3>1, OthersReplacing
  <2>3. CASE \/ SyncSearch \/ SyncGroupSearch \/ SyncGroupDone \/ SyncList \/ SyncDone \/ SyncFails
             \/ \E u \in Users : SyncUser(u) \/ SyncDisable(u)
             \/ \E n \in Names : SyncGroup(n)
    <3>1. req' = req /\ UNCHANGED <<grouped, history>>
      BY <2>3 DEF SyncSearch, SyncGroupSearch, SyncGroupDone, SyncList, SyncDone, SyncFails, SyncUser,
                  SyncDisable, SyncGroup, groups
    <3>. QED
      BY <3>1, OthersReplacing
  <2>. QED
    BY <1>4, <2>1, <2>2, <2>3 DEF Sync
<1>5. CASE UNCHANGED vars
  <2>1. req' = req /\ UNCHANGED <<grouped, history>>
    BY <1>5 DEF vars, groups
  <2>. QED
    BY <2>1, OthersReplacing
<1>. QED
  BY <1>1, <1>2, <1>3, <1>4, <1>5 DEF Next

\* A PUT or a replacing PATCH with which nobody interfered leaves nobody in the group but
\* those it names, and in an organisation's group only members of it, unless a call of its
\* own failed (putGroup, patchGroup).
THEOREM Replaces == Spec => ReplacesMembers
<1>. DEFINE RInv == TypeInv /\ OrgRows /\ Replacing
<1>1. Init => RInv
  <2>1. Init => OrgRows
    <3>. SUFFICES ASSUME Init PROVE OrgRows
      OBVIOUS
    <3>1. sync.pc = "idle" /\ \A r \in Requests : req[r].pc = "idle"
      BY IdleType DEF Init
    <3>2. \A g \in GroupIds : name[g] = None
      BY DEF Init
    <3>. QED
      BY <3>1, <3>2 DEF OrgRows, GroupWithinOrg, RowsChecked, Live
  <2>2. Init => Replacing
    BY DEF Init, Idle, Replacing, Replaced
  <2>. QED
    BY <2>1, <2>2, InitTypeInv
<1>2. RInv /\ [Next]_vars => RInv'
  BY NextTypeInv, NextOrgRows, NextReplacing
<1>3. ASSUME RInv, NEW r \in Requests, WriteMembers(r), req[r].whole, r \notin met,
             AddUsersToGroup(req[r].want, req[r].group)
      PROVE  {req[r].group} \X (grouped'[req[r].group] \ req[r].want) \subseteq late
  <2>1. req[r].group \in GroupIds /\ grouped \in [GroupIds -> SUBSET Users]
    BY <1>3, WholeGroup DEF TypeInv, GroupsOK
  <2>2. grouped'[req[r].group] = grouped[req[r].group] \cup req[r].want
    BY <1>3, <2>1 DEF AddUsersToGroup
  <2>3. \A u \in grouped[req[r].group] : u \in req[r].want \/ <<req[r].group, u>> \in late
    BY <1>3 DEF WriteMembers, Replacing, Replaced
  <2>. QED
    BY <2>2, <2>3
<1>4. RInv /\ [Next]_vars =>
         [\A r \in Requests :
             LET q == req[r]
             IN  WriteMembers(r) /\ q.whole /\ r \notin met /\ AddUsersToGroup(q.want, q.group)
                 => {q.group} \X (grouped'[q.group] \ q.want) \subseteq late]_vars
  BY <1>3
<1>. QED
  BY <1>1, <1>2, <1>4, PTL DEF Spec, ReplacesMembers
=============================================================================
