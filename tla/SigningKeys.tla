---------------------------- MODULE SigningKeys -----------------------------
(***************************************************************************)
(* The signing keys of the OAuth provider: replicas that share a store add, *)
(* retire and delete keys without any lock between them, and each signs     *)
(* with a copy of the keys that it reads again now and then.                *)
(*                                                                          *)
(* The upkeep (rotateKeys) is one step per store call.  A key is a number:  *)
(* its id is random, so any unused number may come next, and ids only break *)
(* ties between keys of the same age.                                       *)
(***************************************************************************)
EXTENDS Integers

CONSTANTS
    Replicas,     \* processes that serve the provider
    Workers,      \* upkeep runs and cache reads that may be under way at once
    Ids,          \* bound on the keys ever added, by id
    keyRefresh, keySkew, idTokenTTL,
    cfgGrace,     \* Config.KeyGrace as configured
    KeyRotation,  \* 0 when keys are only rotated on request
    Slow,         \* may the clock advance while a store call is under way
    MaxTime,      \* bound on the clock
    MaxFails,     \* bound on failed calls and crashes
    MaxForced,    \* bound on calls of RotateKeys
    None

ASSUME KeysAssumption ==
    /\ Ids \subseteq Nat
    /\ keyRefresh \in Nat /\ keySkew \in Nat /\ idTokenTTL \in Nat /\ cfgGrace \in Nat
    /\ keyRefresh <= keySkew
    /\ KeyRotation \in Nat /\ MaxTime \in Nat /\ MaxFails \in Nat /\ MaxForced \in Nat
    /\ Slow \in BOOLEAN
    /\ None \notin Nat /\ None \notin Replicas

VARIABLES
    now,       \* the clock
    stored,    \* the keys in the store
    at,        \* by id, when a key was created, None before
    retired,   \* by id, when a key was retired, or None
    up,        \* the replicas that are running
    signer,    \* by replica, the key that its copy of the keys says signs, or None
    keysAt,    \* by replica, the time that its copy counts from
    op,        \* upkeep and cache reads under way
    forced,    \* calls of RotateKeys so far
    fails,     \* failures so far
    readAt,    \* history: by replica, when its copy was really read
    expires    \* history: by id, when the last token signed with it from a fresh copy expires

keys == <<stored, at, retired>>
cache == <<signer, keysAt, readAt>>
vars == <<now, keys, up, cache, op, forced, fails, expires>>

-----------------------------------------------------------------------------
(* Data *)

PCs == {"idle", "read", "add", "reread", "sweep", "load", "store"}

\* What a run of rotateKeys or loadKeys remembers: starts in New, t is its time, retire
\* and delete what it has still to do, err a failed call, key and seen what it has read
\* for the copy.
Op == [pc : PCs, r : Replicas \cup {None}, starts : BOOLEAN, force : BOOLEAN, t : Nat,
       retire : SUBSET Ids, delete : SUBSET Ids, err : BOOLEAN,
       key : Ids \cup {None}, seen : Nat]

Idle == [pc |-> "idle", r |-> None, starts |-> FALSE, force |-> FALSE, t |-> 0,
         retire |-> {}, delete |-> {}, err |-> FALSE, key |-> None, seen |-> 0]

\* Mutant: the floor of the grace time leaves out the age of a copy.
KeyGraceNoSkew == IF cfgGrace > idTokenTTL THEN cfgGrace ELSE idTokenTTL

\* New: a retired key stays as long as a token signed with it may live.
KeyGrace ==
    IF cfgGrace > idTokenTTL + keySkew THEN cfgGrace ELSE idTokenTTL + keySkew

Added(k) == at[k] # None

Signs(k) == k \in stored /\ retired[k] = None

\* newest prefers the younger key and, of two of the same age, the higher id.
Newer(j, k) == at[j] > at[k] \/ (at[j] = at[k] /\ j > k)

IsNewest(k) == Signs(k) /\ \A j \in Ids : Signs(j) /\ j # k => Newer(k, j)

\* newest: the key that signs, None when every key is retired.
Newest == IF \E k \in Ids : IsNewest(k) THEN CHOOSE k \in Ids : IsNewest(k) ELSE None

-----------------------------------------------------------------------------
(* Upkeep *)

Continue(w, o) == op' = [op EXCEPT ![w] = o]

\* The end of a run; a start that saw no error makes the replica serve.
Finish(w) ==
    /\ Continue(w, Idle)
    /\ up' = IF op[w].starts /\ ~op[w].err THEN up \cup {op[w].r} ELSE up

\* rotateKeys by the clean-up, by RotateKeys (force) or, on a replica that is down, by New.
RotateKeys(w, r, force) ==
    /\ op[w].pc = "idle"
    /\ r \in up \/ (~force /\ \A v \in Workers : op[v].r # r)
    /\ force => forced < MaxForced
    /\ forced' = IF force THEN forced + 1 ELSE forced
    /\ Continue(w, [Idle EXCEPT !.pc = "read", !.r = r, !.force = force, !.t = now,
                                !.starts = (r \notin up)])
    /\ UNCHANGED <<now, keys, up, cache, fails, expires>>

\* Is a new key called for, while the bound allows one.
Due(o, k) ==
    /\ o.force \/ k = None \/ (KeyRotation > 0 /\ o.t - at[k] >= KeyRotation)
    /\ \E i \in Ids : ~Added(i)

\* What is left to do once the keys are read: every key but the newest is to be retired,
\* and keys that were retired long enough ago are to go.
Sweep(o) ==
    [o EXCEPT !.pc = "sweep", !.force = FALSE,
              !.retire = {j \in Ids : Signs(j) /\ \E k \in Ids : Signs(k) /\ Newer(k, j)},
              !.delete = {j \in stored : retired[j] # None /\ o.t - retired[j] >= KeyGrace}]

\* Mutant: keys are only swept after a new one was added.
RotateReadDueOnly(w) ==
    /\ op[w].pc = "read"
    /\ Continue(w, [op[w] EXCEPT !.pc = IF Due(op[w], Newest) THEN "add" ELSE "load"])
    /\ UNCHANGED <<now, keys, up, cache, forced, fails, expires>>

\* Mutant: the old keys are retired before the new one is added.
RotateReadRetires(w) ==
    /\ op[w].pc = "read"
    /\ Continue(w, IF Due(op[w], Newest) THEN [op[w] EXCEPT !.pc = "add", !.force = FALSE]
                   ELSE Sweep(op[w]))
    /\ retired' = [k \in Ids |-> IF Due(op[w], Newest) /\ Signs(k) THEN op[w].t ELSE retired[k]]
    /\ UNCHANGED <<now, stored, at, up, cache, forced, fails, expires>>

\* The first read of rotateKeys.
RotateRead(w) ==
    /\ op[w].pc = "read"
    /\ Continue(w, IF Due(op[w], Newest) THEN [op[w] EXCEPT !.pc = "add", !.force = FALSE]
                   ELSE Sweep(op[w]))
    /\ UNCHANGED <<now, keys, up, cache, forced, fails, expires>>

\* AddOAuthSigningKey
AddKey(w) ==
    /\ op[w].pc = "add"
    /\ \E k \in Ids :
          /\ ~Added(k)
          /\ stored' = stored \cup {k}
          /\ at' = [at EXCEPT ![k] = op[w].t]
    /\ Continue(w, [op[w] EXCEPT !.pc = "reread"])
    /\ UNCHANGED <<now, retired, up, cache, forced, fails, expires>>

\* The second read of rotateKeys.
RotateReread(w) ==
    /\ op[w].pc = "reread"
    /\ Continue(w, Sweep(op[w]))
    /\ UNCHANGED <<now, keys, up, cache, forced, fails, expires>>

\* RetireOAuthSigningKey keeps the first time, and a key that is gone is no error.
Retire(w, k) ==
    /\ op[w].pc = "sweep" /\ k \in op[w].retire
    /\ retired' = IF Signs(k) THEN [retired EXCEPT ![k] = op[w].t] ELSE retired
    /\ Continue(w, [op[w] EXCEPT !.retire = @ \ {k}])
    /\ UNCHANGED <<now, stored, at, up, cache, forced, fails, expires>>

\* DeleteOAuthSigningKey
Delete(w, k) ==
    /\ op[w].pc = "sweep" /\ k \in op[w].delete
    /\ stored' = stored \ {k}
    /\ Continue(w, [op[w] EXCEPT !.delete = @ \ {k}])
    /\ UNCHANGED <<now, at, retired, up, cache, forced, fails, expires>>

-----------------------------------------------------------------------------
(* The copy of a replica *)

\* currentKeys: the copy is too old.
Stale(r) == now - keysAt[r] >= keyRefresh

\* currentKeys of the caller that reads the keys again; the time counts from now on even
\* when the read fails.
Refresh(w, r) ==
    /\ op[w].pc = "idle"
    /\ r \in up /\ Stale(r)
    /\ keysAt' = [keysAt EXCEPT ![r] = now]
    /\ Continue(w, [Idle EXCEPT !.pc = "load", !.r = r])
    /\ UNCHANGED <<now, keys, up, signer, readAt, forced, fails, expires>>

\* loadKeys reads, after the sweep or for a caller of currentKeys; there always is a key
\* in use by then, so it adds none.
LoadRead(w) ==
    /\ op[w].pc = "load" \/ (op[w].pc = "sweep" /\ op[w].retire \cup op[w].delete = {})
    /\ Continue(w, [op[w] EXCEPT !.pc = "store", !.t = 0, !.key = Newest, !.seen = now])
    /\ UNCHANGED <<now, keys, up, cache, forced, fails, expires>>

\* loadKeys puts what it read in place of the copy.
LoadStore(w) ==
    /\ op[w].pc = "store"
    /\ LET r == op[w].r
       IN  /\ signer' = [signer EXCEPT ![r] = op[w].key]
           /\ keysAt' = [keysAt EXCEPT ![r] = now]
           /\ readAt' = [readAt EXCEPT ![r] = op[w].seen]
    /\ Finish(w)
    /\ UNCHANGED <<now, keys, forced, fails, expires>>

\* SigningKey signs an ID token with a copy that is not too old, or is being read again.
Sign(r) ==
    /\ r \in up /\ ~Stale(r)
    /\ signer[r] # None
    /\ expires' = IF now - readAt[r] < keyRefresh
                  THEN [expires EXCEPT ![signer[r]] = now + idTokenTTL] ELSE expires
    /\ UNCHANGED <<now, keys, up, cache, op, forced, fails>>

-----------------------------------------------------------------------------
(* Faults and time *)

\* A call fails: one of the sweep is skipped, any other ends the run.
Fail(w) ==
    /\ op[w].pc \in PCs \ {"idle", "store"}
    /\ fails < MaxFails
    /\ fails' = fails + 1
    /\ \/ /\ op[w].pc = "sweep"
          /\ \E k \in op[w].retire \cup op[w].delete :
                Continue(w, [op[w] EXCEPT !.retire = @ \ {k}, !.delete = @ \ {k}, !.err = TRUE])
       \/ /\ op[w].pc = "sweep" => op[w].retire \cup op[w].delete = {}
          /\ Continue(w, Idle)
    /\ UNCHANGED <<now, keys, up, cache, forced, expires>>

\* A replica stops, with whatever it was doing.
Crash(r) ==
    /\ r \in up
    /\ fails < MaxFails
    /\ fails' = fails + 1
    /\ up' = up \ {r}
    /\ op' = [w \in Workers |-> IF op[w].r = r THEN Idle ELSE op[w]]
    /\ signer' = [signer EXCEPT ![r] = None]
    /\ keysAt' = [keysAt EXCEPT ![r] = 0]
    /\ readAt' = [readAt EXCEPT ![r] = 0]
    /\ UNCHANGED <<now, keys, forced, expires>>

Tick ==
    /\ now < MaxTime
    /\ Slow \/ \A w \in Workers : op[w].pc = "idle"
    /\ now' = now + 1
    /\ UNCHANGED <<keys, up, cache, op, forced, fails, expires>>

-----------------------------------------------------------------------------

Init ==
    /\ now = 0
    /\ stored = {}
    /\ at = [k \in Ids |-> None]
    /\ retired = [k \in Ids |-> None]
    /\ up = {}
    /\ signer = [r \in Replicas |-> None]
    /\ keysAt = [r \in Replicas |-> 0]
    /\ op = [w \in Workers |-> Idle]
    /\ forced = 0 /\ fails = 0
    /\ readAt = [r \in Replicas |-> 0]
    /\ expires = [k \in Ids |-> None]

Step(w) ==
    \/ RotateRead(w) \/ AddKey(w) \/ RotateReread(w)
    \/ \E k \in Ids : Retire(w, k) \/ Delete(w, k)
    \/ LoadRead(w) \/ LoadStore(w)

Upkeep(w) == \E r \in Replicas : RotateKeys(w, r, FALSE)

Next ==
    \/ Tick
    \/ \E r \in Replicas : Sign(r) \/ Crash(r)
    \/ \E w \in Workers :
          \/ Step(w) \/ Fail(w) \/ Upkeep(w)
          \/ \E r \in Replicas : RotateKeys(w, r, TRUE) \/ Refresh(w, r)

Spec == Init /\ [][Next]_vars

\* The store answers, and the hourly clean-up of some replica comes round again.
FairSpec == Spec /\ \A w \in Workers : WF_vars(Step(w)) /\ WF_vars(Upkeep(w))

-----------------------------------------------------------------------------
(* Properties *)

TypeOK ==
    /\ now \in 0 .. MaxTime
    /\ stored \subseteq Ids
    /\ at \in [Ids -> Nat \cup {None}]
    /\ retired \in [Ids -> Nat \cup {None}]
    /\ up \subseteq Replicas
    /\ signer \in [Replicas -> Ids \cup {None}]
    /\ keysAt \in [Replicas -> Nat]
    /\ op \in [Workers -> Op]
    /\ forced \in 0 .. MaxForced /\ fails \in 0 .. MaxFails
    /\ readAt \in [Replicas -> Nat]
    /\ expires \in [Ids -> Nat \cup {None}]

\* From the first key on there always is a key that signs: replicas that rotate at the
\* same time never retire each other's newest key (rotateKeys, newest).
SomeKeySigns == (\E k \in Ids : Added(k)) => \E k \in Ids : Signs(k)

\* A token that was signed with keys read less than keyRefresh ago verifies until it
\* expires: its key, though another replica retired it, is not deleted before (KeyGrace).
TokensVerify == ~Slow => \A k \in Ids : expires[k] # None /\ expires[k] >= now => k \in stored

\* Replicas settle on one key once nobody adds any more, whatever calls have failed.
Settles == <>[](\A j, k \in Ids : Signs(j) /\ Signs(k) => j = k)
=============================================================================
