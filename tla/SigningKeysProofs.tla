------------------------- MODULE SigningKeysProofs --------------------------
(***************************************************************************)
(* Proofs about SigningKeys, for any number of replicas, upkeep runs, keys  *)
(* and failures and for any times the provider is configured with.          *)
(***************************************************************************)
EXTENDS SigningKeys, TLAPS

-----------------------------------------------------------------------------
(* Types *)

\* A run that is under way belongs to a replica.
Owned == \A w \in Workers : op[w].pc # "idle" => op[w].r \in Replicas

TypeInv == TypeOK /\ Owned

\* What Continue does to the table of runs.
LEMMA Continued ==
    ASSUME TypeInv, NEW w \in Workers, NEW o \in Op, o.pc # "idle" => o.r \in Replicas,
           Continue(w, o)
    PROVE  /\ op' \in [Workers -> Op] /\ Owned'
           /\ op'[w] = o /\ \A v \in Workers \ {w} : op'[v] = op[v]
BY DEF TypeInv, TypeOK, Owned, Continue

\* Idle is a run.
LEMMA IdleType == Idle \in Op /\ Idle.pc = "idle" /\ Idle.r = None /\ Idle.retire = {} /\ Idle.delete = {}
BY KeysAssumption DEF Idle, Op, PCs

\* The newest key is one that signs.
LEMMA NewestSigns ==
    /\ Newest \in Ids \cup {None}
    /\ Newest # None => Signs(Newest)
<1>1. CASE \E k \in Ids : IsNewest(k)
  <2>1. Newest \in Ids /\ IsNewest(Newest)
    BY <1>1 DEF Newest
  <2>. QED
    BY <2>1 DEF IsNewest
<1>2. CASE ~\E k \in Ids : IsNewest(k)
  BY <1>2 DEF Newest
<1>. QED
  BY <1>1, <1>2

\* The grace time is a number, and covers a token signed with a copy as old as it may be.
LEMMA GraceType ==
    /\ KeyGrace \in Nat
    /\ KeyGrace >= idTokenTTL + keySkew
    /\ keyRefresh <= keySkew
BY KeysAssumption DEF KeyGrace

\* What the sweep has to do is part of a run's type.
LEMMA SweepType ==
    ASSUME TypeInv, NEW o \in Op
    PROVE  /\ Sweep(o) \in Op /\ Sweep(o).pc = "sweep" /\ Sweep(o).r = o.r /\ Sweep(o).t = o.t
           /\ Sweep(o).retire = {j \in Ids : Signs(j) /\ \E k \in Ids : Signs(k) /\ Newer(k, j)}
           /\ Sweep(o).delete = {j \in stored : retired[j] # None /\ o.t - retired[j] >= KeyGrace}
<1>. DEFINE R == {j \in Ids : Signs(j) /\ \E k \in Ids : Signs(k) /\ Newer(k, j)}
<1>. DEFINE D == {j \in stored : retired[j] # None /\ o.t - retired[j] >= KeyGrace}
<1>1. R \in SUBSET Ids /\ D \in SUBSET Ids
  BY DEF TypeInv, TypeOK
<1>2. Sweep(o) = [o EXCEPT !.pc = "sweep", !.force = FALSE, !.retire = R, !.delete = D]
  BY DEF Sweep
<1>. HIDE DEF R, D
<1>3. /\ Sweep(o) \in Op /\ Sweep(o).pc = "sweep" /\ Sweep(o).r = o.r /\ Sweep(o).t = o.t
      /\ Sweep(o).retire = R /\ Sweep(o).delete = D
  BY <1>1, <1>2 DEF Op, PCs
<1>. QED
  BY <1>3 DEF R, D

\* Init establishes the types.
LEMMA InitTypeInv == Init => TypeInv
BY KeysAssumption, IdleType DEF Init, TypeInv, TypeOK, Owned

\* Every step preserves the types.
LEMMA NextTypeInv == TypeInv /\ [Next]_vars => TypeInv'
<1>. SUFFICES ASSUME TypeInv, [Next]_vars PROVE TypeInv'
  OBVIOUS
<1>. USE KeysAssumption
<1>1. CASE Tick
  BY <1>1 DEF Tick, keys, cache, TypeInv, TypeOK, Owned
<1>2. ASSUME NEW r \in Replicas, Sign(r) PROVE TypeInv'
  BY <1>2 DEF Sign, keys, cache, TypeInv, TypeOK, Owned
<1>3. ASSUME NEW r \in Replicas, Crash(r) PROVE TypeInv'
  <2>1. op' \in [Workers -> Op] /\ Owned'
    BY <1>3, IdleType DEF Crash, TypeInv, TypeOK, Owned
  <2>. QED
    BY <1>3, <2>1 DEF Crash, keys, TypeInv, TypeOK
<1>4. ASSUME NEW w \in Workers, RotateRead(w) PROVE TypeInv'
  <2>1. op[w] \in Op /\ op[w].r \in Replicas
    BY <1>4 DEF RotateRead, TypeInv, TypeOK, Owned
  <2>2. [op[w] EXCEPT !.pc = "add", !.force = FALSE] \in Op
    BY <2>1 DEF Op, PCs
  <2>3. CASE Due(op[w], Newest)
    <3>1. Continue(w, [op[w] EXCEPT !.pc = "add", !.force = FALSE])
      BY <1>4, <2>3 DEF RotateRead
    <3>2. op' \in [Workers -> Op] /\ Owned'
      BY <2>1, <2>2, <3>1, Continued DEF Op
    <3>. QED
      BY <1>4, <3>2 DEF RotateRead, keys, cache, TypeInv, TypeOK
  <2>4. CASE ~Due(op[w], Newest)
    <3>1. Continue(w, Sweep(op[w]))
      BY <1>4, <2>4 DEF RotateRead
    <3>2. op' \in [Workers -> Op] /\ Owned'
      BY <2>1, <3>1, Continued, SweepType
    <3>. QED
      BY <1>4, <3>2 DEF RotateRead, keys, cache, TypeInv, TypeOK
  <2>. QED
    BY <2>3, <2>4
<1>5. ASSUME NEW w \in Workers, AddKey(w) PROVE TypeInv'
  <2>1. op[w] \in Op /\ op[w].r \in Replicas /\ op[w].t \in Nat
    BY <1>5 DEF AddKey, TypeInv, TypeOK, Owned, Op
  <2>2. [op[w] EXCEPT !.pc = "reread"] \in Op
    BY <2>1 DEF Op, PCs
  <2>3. op' \in [Workers -> Op] /\ Owned'
    BY <1>5, <2>1, <2>2, Continued DEF AddKey, Op
  <2>. QED
    BY <1>5, <2>1, <2>3 DEF AddKey, cache, TypeInv, TypeOK
<1>6. ASSUME NEW w \in Workers, RotateReread(w) PROVE TypeInv'
  <2>1. op[w] \in Op /\ op[w].r \in Replicas
    BY <1>6 DEF RotateReread, TypeInv, TypeOK, Owned
  <2>2. op' \in [Workers -> Op] /\ Owned'
    BY <1>6, <2>1, Continued, SweepType DEF RotateReread
  <2>. QED
    BY <1>6, <2>2 DEF RotateReread, keys, cache, TypeInv, TypeOK
<1>7. ASSUME NEW w \in Workers, NEW k \in Ids, Retire(w, k) PROVE TypeInv'
  <2>1. op[w] \in Op /\ op[w].r \in Replicas /\ op[w].t \in Nat
    BY <1>7 DEF Retire, TypeInv, TypeOK, Owned, Op
  <2>2. [op[w] EXCEPT !.retire = @ \ {k}] \in Op
    BY <2>1 DEF Op
  <2>3. op' \in [Workers -> Op] /\ Owned'
    BY <1>7, <2>1, <2>2, Continued DEF Retire, Op
  <2>. QED
    BY <1>7, <2>1, <2>3 DEF Retire, cache, TypeInv, TypeOK
<1>8. ASSUME NEW w \in Workers, NEW k \in Ids, Delete(w, k) PROVE TypeInv'
  <2>1. op[w] \in Op /\ op[w].r \in Replicas
    BY <1>8 DEF Delete, TypeInv, TypeOK, Owned
  <2>2. [op[w] EXCEPT !.delete = @ \ {k}] \in Op
    BY <2>1 DEF Op
  <2>3. op' \in [Workers -> Op] /\ Owned'
    BY <1>8, <2>1, <2>2, Continued DEF Delete, Op
  <2>. QED
    BY <1>8, <2>3 DEF Delete, cache, TypeInv, TypeOK
<1>9. ASSUME NEW w \in Workers, LoadRead(w) PROVE TypeInv'
  <2>1. op[w] \in Op /\ op[w].r \in Replicas /\ now \in Nat
    BY <1>9 DEF LoadRead, TypeInv, TypeOK, Owned
  <2>2. [op[w] EXCEPT !.pc = "store", !.t = 0, !.key = Newest, !.seen = now] \in Op
    BY <2>1, NewestSigns DEF Op, PCs
  <2>3. op' \in [Workers -> Op] /\ Owned'
    BY <1>9, <2>1, <2>2, Continued DEF LoadRead, Op
  <2>. QED
    BY <1>9, <2>3 DEF LoadRead, keys, cache, TypeInv, TypeOK
<1>10. ASSUME NEW w \in Workers, LoadStore(w) PROVE TypeInv'
  <2>1. /\ op[w] \in Op /\ op[w].r \in Replicas /\ now \in Nat
        /\ op[w].key \in Ids \cup {None} /\ op[w].seen \in Nat
    BY <1>10 DEF LoadStore, TypeInv, TypeOK, Owned, Op
  <2>2. op' \in [Workers -> Op] /\ Owned'
    BY <1>10, Continued, IdleType DEF LoadStore, Finish
  <2>. QED
    BY <1>10, <2>1, <2>2 DEF LoadStore, Finish, keys, TypeInv, TypeOK
<1>11. ASSUME NEW w \in Workers, Fail(w) PROVE TypeInv'
  <2>1. op[w] \in Op /\ op[w].r \in Replicas
    BY <1>11 DEF Fail, TypeInv, TypeOK, Owned, PCs
  <2>2. ASSUME NEW k \in op[w].retire \cup op[w].delete,
               Continue(w, [op[w] EXCEPT !.retire = @ \ {k}, !.delete = @ \ {k}, !.err = TRUE])
        PROVE  op' \in [Workers -> Op] /\ Owned'
    <3>. DEFINE o == [op[w] EXCEPT !.retire = @ \ {k}, !.delete = @ \ {k}, !.err = TRUE]
    <3>1. o \in Op /\ o.r = op[w].r
      BY <2>1 DEF Op
    <3>2. Continue(w, o)
      BY <2>2
    <3>. HIDE DEF o
    <3>. QED
      BY <2>1, <3>1, <3>2, Continued
  <2>3. Continue(w, Idle) => op' \in [Workers -> Op] /\ Owned'
    BY Continued, IdleType
  <2>4. op' \in [Workers -> Op] /\ Owned'
    BY <1>11, <2>2, <2>3 DEF Fail
  <2>5. UNCHANGED <<now, keys, up, cache, forced, expires>> /\ fails' = fails + 1 /\ fails < MaxFails
    BY <1>11 DEF Fail
  <2>. QED
    BY <2>4, <2>5 DEF keys, cache, TypeInv, TypeOK
<1>12. ASSUME NEW w \in Workers, NEW r \in Replicas, NEW force \in BOOLEAN, RotateKeys(w, r, force)
       PROVE  TypeInv'
  <2>. DEFINE o == [Idle EXCEPT !.pc = "read", !.r = r, !.force = force, !.t = now,
                                !.starts = (r \notin up)]
  <2>1. o \in Op /\ o.r = r
    <3>1. now \in Nat /\ (r \notin up) \in BOOLEAN
      BY DEF TypeInv, TypeOK
    <3>. QED
      BY <3>1 DEF Op, PCs, Idle
  <2>2. Continue(w, o)
    BY <1>12 DEF RotateKeys
  <2>. HIDE DEF o
  <2>3. op' \in [Workers -> Op] /\ Owned'
    BY <2>1, <2>2, Continued
  <2>. QED
    BY <1>12, <2>3 DEF RotateKeys, keys, cache, TypeInv, TypeOK
<1>13. ASSUME NEW w \in Workers, NEW r \in Replicas, Refresh(w, r) PROVE TypeInv'
  <2>. DEFINE o == [Idle EXCEPT !.pc = "load", !.r = r]
  <2>1. o \in Op /\ o.r = r
    BY DEF Op, PCs, Idle
  <2>2. Continue(w, o)
    BY <1>13 DEF Refresh
  <2>. HIDE DEF o
  <2>3. op' \in [Workers -> Op] /\ Owned'
    BY <2>1, <2>2, Continued
  <2>. QED
    BY <1>13, <2>3 DEF Refresh, keys, TypeInv, TypeOK
<1>14. CASE UNCHANGED vars
  BY <1>14 DEF vars, keys, cache, TypeInv, TypeOK, Owned
<1>. QED
  BY <1>1, <1>2, <1>3, <1>4, <1>5, <1>6, <1>7, <1>8, <1>9, <1>10, <1>11, <1>12, <1>13, <1>14
  DEF Next, Step, Upkeep

\* Every reachable state has the types that TypeOK gives.
THEOREM TypeCorrect == Spec => []TypeOK
<1>1. TypeInv => TypeOK
  BY DEF TypeInv
<1>. QED
  BY <1>1, InitTypeInv, NextTypeInv, PTL DEF Spec

-----------------------------------------------------------------------------
(* Some key signs *)

\* Keys in the store, and keys with a time of retirement, were added.
StoredAdded == \A k \in Ids : k \in stored \/ retired[k] # None => Added(k)

\* Every key signs, or a newer one does.
NewerSigns == \A k \in Ids : Added(k) => Signs(k) \/ \E j \in Ids : Signs(j) /\ Newer(j, k)

\* What a run has still to retire is older than another key, and what it has still to
\* delete is retired.
RetiresOlder ==
    \A w \in Workers : \A k \in op[w].retire : Added(k) /\ \E j \in Ids : Added(j) /\ Newer(j, k)
DeletesRetired == \A w \in Workers : \A k \in op[w].delete : retired[k] # None

KInv == TypeInv /\ StoredAdded /\ NewerSigns /\ RetiresOlder /\ DeletesRetired

\* Init establishes the invariant.
LEMMA InitKInv == Init => KInv
<1>. SUFFICES ASSUME Init PROVE KInv
  OBVIOUS
<1>1. TypeInv
  BY InitTypeInv
<1>2. \A w \in Workers : op[w].retire = {} /\ op[w].delete = {}
  BY IdleType DEF Init
<1>. QED
  BY <1>1, <1>2 DEF Init, KInv, StoredAdded, NewerSigns, RetiresOlder, DeletesRetired, Added

\* A step that leaves the keys alone and gives the runs nothing more to do.
LEMMA KeysQuiet ==
    ASSUME KInv, TypeInv', UNCHANGED keys,
           \A v \in Workers : op'[v].retire \subseteq op[v].retire /\ op'[v].delete \subseteq op[v].delete
    PROVE  KInv'
BY DEF KInv, keys, StoredAdded, NewerSigns, RetiresOlder, DeletesRetired, Added, Signs, Newer

\* A run that leaves the keys alone and has no more to do than before.
LEMMA LessToDo ==
    ASSUME KInv, TypeInv', UNCHANGED keys, NEW w \in Workers, NEW o, Continue(w, o),
           o.retire \subseteq op[w].retire, o.delete \subseteq op[w].delete
    PROVE  KInv'
<1>1. op'[w] = o /\ \A v \in Workers \ {w} : op'[v] = op[v]
  BY DEF Continue, KInv, TypeInv, TypeOK
<1>. QED
  BY <1>1, KeysQuiet

\* A run that has read the keys plans what RetiresOlder and DeletesRetired allow.
LEMMA SweepRight ==
    ASSUME KInv, TypeInv', UNCHANGED keys, NEW w \in Workers, Continue(w, Sweep(op[w]))
    PROVE  KInv'
<1>1. op[w] \in Op /\ op[w] = op[w] /\ TypeInv
  BY DEF KInv, TypeInv, TypeOK
<1>2. op' = [op EXCEPT ![w] = Sweep(op[w])] /\ op \in [Workers -> Op]
  BY DEF Continue, KInv, TypeInv, TypeOK
<1>3. op'[w] = Sweep(op[w]) /\ \A v \in Workers \ {w} : op'[v] = op[v]
  BY <1>2
<1>4. \A k \in op'[w].retire : Added(k) /\ \E j \in Ids : Added(j) /\ Newer(j, k)
  BY <1>1, <1>3, SweepType DEF KInv, StoredAdded, Signs
<1>5. \A k \in op'[w].delete : retired[k] # None
  BY <1>1, <1>3, SweepType
<1>6. RetiresOlder'
  BY <1>3, <1>4 DEF KInv, RetiresOlder, keys, Added, Newer
<1>7. DeletesRetired'
  BY <1>3, <1>5 DEF KInv, DeletesRetired, keys
<1>. QED
  BY <1>6, <1>7 DEF KInv, keys, StoredAdded, NewerSigns, Added, Signs, Newer

\* The order of the keys.
LEMMA NewerOrder ==
    ASSUME TypeInv, NEW i \in Ids, NEW j \in Ids, NEW k \in Ids, Added(i), Added(j), Added(k)
    PROVE  /\ ~Newer(k, k)
           /\ Newer(i, j) /\ Newer(j, k) => Newer(i, k)
BY KeysAssumption DEF TypeInv, TypeOK, Added, Newer

\* Every step preserves the invariant.
LEMMA NextKInv == KInv /\ [Next]_vars => KInv'
<1>. SUFFICES ASSUME KInv, [Next]_vars PROVE KInv'
  OBVIOUS
<1>a. TypeInv'
  BY NextTypeInv DEF KInv
<1>b. TypeInv /\ op \in [Workers -> Op]
  BY DEF KInv, TypeInv, TypeOK
<1>1. CASE Tick \/ (\E r \in Replicas : Sign(r)) \/ UNCHANGED vars
  <2>1. UNCHANGED <<keys, op>>
    BY <1>1 DEF Tick, Sign, vars
  <2>. QED
    BY <1>a, <2>1, KeysQuiet
<1>2. ASSUME NEW r \in Replicas, Crash(r) PROVE KInv'
  <2>1. UNCHANGED keys /\ op' = [w \in Workers |-> IF op[w].r = r THEN Idle ELSE op[w]]
    BY <1>2 DEF Crash
  <2>. QED
    BY <1>a, <2>1, IdleType, KeysQuiet
<1>3. ASSUME NEW w \in Workers, RotateRead(w) \/ RotateReread(w) PROVE KInv'
  <2>1. UNCHANGED keys
    BY <1>3 DEF RotateRead, RotateReread
  <2>2. CASE Continue(w, Sweep(op[w]))
    BY <1>a, <2>1, <2>2, SweepRight
  <2>3. CASE Continue(w, [op[w] EXCEPT !.pc = "add", !.force = FALSE])
    BY <1>a, <1>b, <2>1, <2>3, KeysQuiet DEF Continue, Op
  <2>. QED
    BY <1>3, <2>2, <2>3 DEF RotateRead, RotateReread
<1>4. ASSUME NEW w \in Workers, AddKey(w) PROVE KInv'
  <2>1. PICK k \in Ids : ~Added(k) /\ stored' = stored \cup {k} /\ at' = [at EXCEPT ![k] = op[w].t]
    BY <1>4 DEF AddKey
  <2>2. /\ retired' = retired /\ at \in [Ids -> Nat \cup {None}] /\ op[w].t \in Nat
        /\ retired[k] = None
    BY <1>4, <1>b, <2>1 DEF AddKey, TypeInv, TypeOK, Op, KInv, StoredAdded
  <2>3. \A v \in Workers : op'[v].retire = op[v].retire /\ op'[v].delete = op[v].delete
    BY <1>4, <1>b DEF AddKey, Continue, Op
  <2>4. at'[k] = op[w].t /\ Added(k)' /\ Signs(k)' /\ \A j \in Ids \ {k} : at'[j] = at[j]
    BY <2>1, <2>2, KeysAssumption DEF Added, Signs
  <2>5. \A j \in Ids : Added(j) => Added(j)' /\ j # k
    BY <2>1, <2>4 DEF Added
  <2>6. \A i, j \in Ids : Added(i) /\ Added(j) => (Newer(i, j)' <=> Newer(i, j))
    BY <2>4, <2>5 DEF Newer
  <2>7. \A j \in Ids \ {k} : (Added(j)' <=> Added(j)) /\ (Signs(j)' <=> Signs(j))
    BY <2>1, <2>2, <2>4 DEF Added, Signs
  <2>8. StoredAdded'
    BY <2>1, <2>2, <2>4, <2>7 DEF KInv, StoredAdded
  <2>9. NewerSigns'
    <3>1. \A j \in Ids : Signs(j) => Added(j)
      BY DEF KInv, StoredAdded, Signs
    <3>. QED
      BY <2>4, <2>5, <2>6, <2>7, <3>1 DEF KInv, NewerSigns
  <2>10. RetiresOlder'
    <3>1. \A v \in Workers : op[v].retire \subseteq Ids
      BY <1>b DEF Op
    <3>. QED
      BY <2>3, <2>5, <2>6, <3>1 DEF KInv, RetiresOlder
  <2>11. DeletesRetired'
    BY <2>2, <2>3 DEF KInv, DeletesRetired
  <2>. QED
    BY <1>a, <2>8, <2>9, <2>10, <2>11 DEF KInv
<1>5. ASSUME NEW w \in Workers, NEW k \in Ids, Retire(w, k) PROVE KInv'
  <2>1. /\ \A v \in Workers : op'[v].retire \subseteq op[v].retire /\ op'[v].delete = op[v].delete
        /\ k \in op[w].retire /\ stored' = stored /\ at' = at
    BY <1>5, <1>b DEF Retire, Continue, Op
  <2>2. CASE ~Signs(k)
    BY <1>5, <1>a, <2>1, <2>2, KeysQuiet DEF Retire, keys
  <2>3. CASE Signs(k)
    <3>1. retired' = [retired EXCEPT ![k] = op[w].t] /\ retired \in [Ids -> Nat \cup {None}]
      BY <1>5, <1>b, <2>3 DEF Retire, TypeInv, TypeOK
    <3>2. op[w].t \in Nat /\ op[w].t # None
      BY <1>b, KeysAssumption DEF Op
    <3>3. Added(k) /\ \A j \in Ids : Signs(j) => Added(j)
      BY <2>3 DEF KInv, StoredAdded, Signs
    <3>4. \A j \in Ids : j # k => (Signs(j)' <=> Signs(j))
      BY <2>1, <3>1 DEF Signs
    <3>5. PICK j \in Ids : Added(j) /\ Newer(j, k)
      BY <2>1 DEF KInv, RetiresOlder
    <3>6. PICK m \in Ids : Signs(m) /\ Newer(m, k)
      <4>1. CASE Signs(j)
        BY <3>5, <4>1
      <4>2. CASE ~Signs(j)
        <5>1. PICK m \in Ids : Signs(m) /\ Newer(m, j)
          BY <3>5, <4>2 DEF KInv, NewerSigns
        <5>. QED
          BY <1>b, <3>3, <3>5, <5>1, NewerOrder
      <4>. QED
        BY <4>1, <4>2
    <3>7. m # k /\ Signs(m)'
      BY <1>b, <3>3, <3>4, <3>6, NewerOrder
    <3>8. NewerSigns'
      <4>1. SUFFICES ASSUME NEW i \in Ids, Added(i)
                     PROVE  Signs(i)' \/ \E n \in Ids : Signs(n)' /\ Newer(n, i)
        BY <2>1 DEF NewerSigns, Added, Newer
      <4>2. CASE i = k
        BY <3>6, <3>7, <4>2
      <4>3. CASE i # k /\ Signs(i)
        BY <3>4, <4>3
      <4>4. CASE ~Signs(i)
        <5>1. PICK n \in Ids : Signs(n) /\ Newer(n, i)
          BY <4>1, <4>4 DEF KInv, NewerSigns
        <5>2. CASE n # k
          BY <3>4, <5>1, <5>2
        <5>3. CASE n = k
          BY <1>b, <3>3, <3>6, <3>7, <4>1, <5>1, <5>3, NewerOrder
        <5>. QED
          BY <5>2, <5>3
      <4>. QED
        BY <4>2, <4>3, <4>4
    <3>9. StoredAdded'
      BY <2>1, <3>1, <3>3 DEF KInv, StoredAdded, Added
    <3>10. RetiresOlder'
      BY <2>1 DEF KInv, RetiresOlder, Added, Newer
    <3>11. DeletesRetired'
      BY <2>1, <3>1, <3>2 DEF KInv, DeletesRetired
    <3>. QED
      BY <1>a, <3>8, <3>9, <3>10, <3>11 DEF KInv
  <2>. QED
    BY <2>2, <2>3
<1>6. ASSUME NEW w \in Workers, NEW k \in Ids, Delete(w, k) PROVE KInv'
  <2>1. /\ \A v \in Workers : op'[v].retire = op[v].retire /\ op'[v].delete \subseteq op[v].delete
        /\ k \in op[w].delete /\ stored' = stored \ {k} /\ at' = at /\ retired' = retired
    BY <1>6, <1>b DEF Delete, Continue, Op
  <2>2. retired[k] # None
    BY <2>1 DEF KInv, DeletesRetired
  <2>3. \A j \in Ids : Signs(j)' <=> Signs(j)
    BY <2>1, <2>2 DEF Signs
  <2>. QED
    BY <1>a, <2>1, <2>3 DEF KInv, StoredAdded, NewerSigns, RetiresOlder, DeletesRetired, Added, Newer
<1>7. ASSUME NEW w \in Workers, LoadRead(w) PROVE KInv'
  <2>. DEFINE o == [op[w] EXCEPT !.pc = "store", !.t = 0, !.key = Newest, !.seen = now]
  <2>1. Continue(w, o) /\ UNCHANGED keys
    BY <1>7 DEF LoadRead
  <2>2. o.retire = op[w].retire /\ o.delete = op[w].delete
    BY <1>b DEF Op
  <2>. HIDE DEF o
  <2>. QED
    BY <1>a, <2>1, <2>2, LessToDo
<1>8. ASSUME NEW w \in Workers, LoadStore(w) PROVE KInv'
  <2>1. Continue(w, Idle) /\ UNCHANGED keys
    BY <1>8 DEF LoadStore, Finish
  <2>. QED
    BY <1>a, <2>1, IdleType, LessToDo
<1>9. ASSUME NEW w \in Workers, Fail(w) PROVE KInv'
  <2>1. UNCHANGED keys
    BY <1>9 DEF Fail
  <2>2. ASSUME NEW k \in op[w].retire \cup op[w].delete,
               Continue(w, [op[w] EXCEPT !.retire = @ \ {k}, !.delete = @ \ {k}, !.err = TRUE])
        PROVE  KInv'
    <3>. DEFINE o == [op[w] EXCEPT !.retire = @ \ {k}, !.delete = @ \ {k}, !.err = TRUE]
    <3>1. o.retire \subseteq op[w].retire /\ o.delete \subseteq op[w].delete
      BY <1>b DEF Op
    <3>2. Continue(w, o)
      BY <2>2
    <3>. HIDE DEF o
    <3>. QED
      BY <1>a, <2>1, <3>1, <3>2, LessToDo
  <2>3. CASE Continue(w, Idle)
    BY <1>a, <2>1, <2>3, IdleType, LessToDo
  <2>. QED
    BY <1>9, <2>2, <2>3 DEF Fail
<1>10. ASSUME NEW w \in Workers, NEW r \in Replicas, NEW force \in BOOLEAN, RotateKeys(w, r, force)
       PROVE  KInv'
  <2>. DEFINE o == [Idle EXCEPT !.pc = "read", !.r = r, !.force = force, !.t = now,
                                !.starts = (r \notin up)]
  <2>1. Continue(w, o) /\ UNCHANGED keys
    BY <1>10 DEF RotateKeys
  <2>2. o.retire = {} /\ o.delete = {}
    BY DEF Idle
  <2>. HIDE DEF o
  <2>. QED
    BY <1>a, <2>1, <2>2, LessToDo
<1>11. ASSUME NEW w \in Workers, NEW r \in Replicas, Refresh(w, r) PROVE KInv'
  <2>. DEFINE o == [Idle EXCEPT !.pc = "load", !.r = r]
  <2>1. Continue(w, o) /\ UNCHANGED keys
    BY <1>11 DEF Refresh
  <2>2. o.retire = {} /\ o.delete = {}
    BY DEF Idle
  <2>. HIDE DEF o
  <2>. QED
    BY <1>a, <2>1, <2>2, LessToDo
<1>. QED
  BY <1>1, <1>2, <1>3, <1>4, <1>5, <1>6, <1>7, <1>8, <1>9, <1>10, <1>11 DEF Next, Step, Upkeep

\* From the first key on, some key signs: a key is retired only when a newer one exists,
\* and in the order of age and id one that signs is newer still.
THEOREM SigningKeyExists == Spec => []SomeKeySigns
<1>1. KInv => SomeKeySigns
  BY DEF KInv, NewerSigns, SomeKeySigns
<1>. QED
  BY <1>1, InitKInv, NextKInv, PTL DEF Spec

-----------------------------------------------------------------------------
(* Tokens verify *)

\* A copy read at s holds a key that is not deleted before the grace time is over, since
\* it was not retired before s.
Kept(k, s) ==
    /\ s <= now
    /\ k \in stored \/ now >= s + KeyGrace
    /\ retired[k] # None => retired[k] >= s

\* A run works with the time it is, and so does what it has read for the copy.
RunOnTime(o) ==
    /\ o.pc \in {"read", "add", "reread", "sweep"} => o.t = now
    /\ o.pc = "store" => o.seen = now /\ (o.key # None => Kept(o.key, o.seen))

RunsOnTime == \A w \in Workers : RunOnTime(op[w])

\* What a run has still to delete was retired the grace time ago.
DeletesLate == \A w \in Workers : \A k \in op[w].delete : now - retired[k] >= KeyGrace

RetiredPast == \A k \in Ids : retired[k] # None => retired[k] <= now

CopiesKept == \A r \in Replicas : signer[r] # None => Kept(signer[r], readAt[r])

\* A token expires before the grace time of its key is over, and while the key is stored.
ExpiresCovered ==
    \A k \in Ids : expires[k] # None =>
        /\ keyRefresh > 0
        /\ expires[k] <= now + idTokenTTL
        /\ retired[k] # None => expires[k] < retired[k] + KeyGrace
        /\ k \notin stored => expires[k] < now

OnTime == RunsOnTime /\ DeletesLate /\ RetiredPast /\ CopiesKept /\ ExpiresCovered

\* Init establishes the invariant.
LEMMA InitOnTime == Init => OnTime
<1>. SUFFICES ASSUME Init PROVE OnTime
  OBVIOUS
<1>1. \A w \in Workers : op[w].pc = "idle" /\ op[w].delete = {}
  BY IdleType DEF Init
<1>. QED
  BY <1>1 DEF Init, OnTime, RunsOnTime, RunOnTime, DeletesLate, RetiredPast, CopiesKept,
              ExpiresCovered

\* A run that leaves the keys, the clock and the copies alone, is on time and has no more
\* to delete.
LEMMA RunQuiet ==
    ASSUME KInv, OnTime, UNCHANGED <<now, keys, signer, readAt, expires>>,
           NEW w \in Workers, NEW o, Continue(w, o), RunOnTime(o),
           \A k \in o.delete : now - retired[k] >= KeyGrace
    PROVE  OnTime'
<1>1. op'[w] = o /\ \A v \in Workers \ {w} : op'[v] = op[v]
  BY DEF Continue, KInv, TypeInv, TypeOK
<1>2. RunsOnTime'
  <2>1. \A v \in Workers : RunOnTime(op'[v])
    BY <1>1 DEF OnTime, RunsOnTime
  <2>. QED
    BY <2>1 DEF RunsOnTime, RunOnTime, Kept, keys
<1>3. DeletesLate'
  BY <1>1 DEF OnTime, DeletesLate, keys
<1>. QED
  BY <1>2, <1>3 DEF OnTime, RetiredPast, CopiesKept, Kept, ExpiresCovered, keys

\* A step that keeps the clock, retires keys now, deletes only keys whose grace time is
\* over, and leaves the copies and the tokens alone.
LEMMA KeptStep ==
    ASSUME KInv, OnTime, now' = now, KInv',
           \A k \in Ids : /\ retired'[k] # retired[k] => retired[k] = None /\ retired'[k] = now
                          /\ k \in stored /\ k \notin stored' =>
                                 retired[k] # None /\ now - retired[k] >= KeyGrace
                          /\ retired'[k] # retired[k] => k \in stored'
    PROVE  /\ \A k \in Ids, t \in Nat : Kept(k, t) => Kept(k, t)'
           /\ RetiredPast'
           /\ expires' = expires => ExpiresCovered'
<1>1. /\ now \in Nat /\ retired \in [Ids -> Nat \cup {None}] /\ None \notin Nat
      /\ retired' \in [Ids -> Nat \cup {None}] /\ expires \in [Ids -> Nat \cup {None}]
  BY KeysAssumption DEF KInv, TypeInv, TypeOK
<1>2. ASSUME NEW k \in Ids, NEW t \in Nat, Kept(k, t) PROVE Kept(k, t)'
  BY <1>1, <1>2, GraceType DEF Kept
<1>3. RetiredPast'
  BY <1>1 DEF OnTime, RetiredPast
<1>4. ASSUME expires' = expires PROVE ExpiresCovered'
  <2>1. SUFFICES ASSUME NEW k \in Ids, expires[k] # None
                 PROVE  /\ keyRefresh > 0
                        /\ expires[k] <= now + idTokenTTL
                        /\ retired'[k] # None => expires[k] < retired'[k] + KeyGrace
                        /\ k \notin stored' => expires[k] < now
    BY <1>4 DEF ExpiresCovered
  <2>2. /\ keyRefresh > 0 /\ expires[k] <= now + idTokenTTL
        /\ retired[k] # None => expires[k] < retired[k] + KeyGrace
        /\ k \notin stored => expires[k] < now
    BY <2>1 DEF OnTime, ExpiresCovered
  <2>3. idTokenTTL \in Nat /\ keySkew \in Nat /\ keyRefresh \in Nat
    BY KeysAssumption
  <2>. QED
    BY <1>1, <2>1, <2>2, <2>3, GraceType
<1>. QED
  BY <1>2, <1>3, <1>4

\* Every step preserves the invariant when store calls take no time.
LEMMA NextOnTime == ASSUME ~Slow PROVE KInv /\ OnTime /\ [Next]_vars => OnTime'
<1>. SUFFICES ASSUME KInv, OnTime, [Next]_vars PROVE OnTime'
  OBVIOUS
<1>a. KInv'
  BY NextKInv
<1>b. /\ TypeInv /\ op \in [Workers -> Op] /\ now \in Nat /\ None \notin Nat
      /\ signer \in [Replicas -> Ids \cup {None}] /\ readAt \in [Replicas -> Nat]
      /\ keyRefresh \in Nat /\ keySkew \in Nat /\ idTokenTTL \in Nat
  BY KeysAssumption DEF KInv, TypeInv, TypeOK
<1>c. /\ retired \in [Ids -> Nat \cup {None}] /\ expires \in [Ids -> Nat \cup {None}]
      /\ \A v \in Workers : op[v].delete \subseteq Ids /\ op[v].t \in Nat /\ op[v].seen \in Nat
                            /\ op[v].key \in Ids \cup {None}
  BY DEF KInv, TypeInv, TypeOK, Op
<1>1. CASE Tick
  <2>1. now' = now + 1 /\ UNCHANGED <<stored, retired, signer, readAt, op, expires>>
    BY <1>1 DEF Tick, keys, cache
  <2>2. \A w \in Workers : op[w].pc = "idle"
    BY <1>1 DEF Tick
  <2>3. RunsOnTime'
    BY <2>1, <2>2 DEF RunsOnTime, RunOnTime
  <2>4. DeletesLate'
    BY <1>b, <1>c, <2>1, GraceType DEF OnTime, DeletesLate, KInv, DeletesRetired
  <2>5. RetiredPast' /\ ExpiresCovered'
    BY <1>b, <1>c, <2>1 DEF OnTime, RetiredPast, ExpiresCovered
  <2>6. CopiesKept'
    BY <1>b, <1>c, <2>1, GraceType DEF OnTime, CopiesKept, Kept
  <2>. QED
    BY <2>3, <2>4, <2>5, <2>6 DEF OnTime
<1>2. ASSUME NEW r \in Replicas, Sign(r) PROVE OnTime'
  <2>. DEFINE k == signer[r]
  <2>1. /\ UNCHANGED <<now, stored, retired, signer, readAt, op>> /\ k \in Ids /\ k # None
        /\ Kept(k, readAt[r])
    BY <1>2, <1>b DEF Sign, keys, cache, OnTime, CopiesKept
  <2>2. CASE expires' = expires
    BY <2>1, <2>2 DEF OnTime, RunsOnTime, RunOnTime, DeletesLate, RetiredPast, CopiesKept, Kept,
                      ExpiresCovered
  <2>3. CASE now - readAt[r] < keyRefresh /\ expires' = [expires EXCEPT ![k] = now + idTokenTTL]
    <3>1. /\ expires'[k] = now + idTokenTTL
          /\ \A j \in Ids \ {k} : expires'[j] = expires[j]
      BY <1>c, <2>1, <2>3
    <3>2. /\ keyRefresh > 0
          /\ retired[k] # None => expires'[k] < retired[k] + KeyGrace
          /\ k \notin stored => expires'[k] < now
      BY <1>b, <1>c, <2>1, <2>3, <3>1, GraceType DEF Kept
    <3>3. ExpiresCovered'
      <4>1. \A j \in Ids : expires'[j] # None =>
                /\ keyRefresh > 0
                /\ expires'[j] <= now + idTokenTTL
                /\ retired[j] # None => expires'[j] < retired[j] + KeyGrace
                /\ j \notin stored => expires'[j] < now
        BY <1>b, <3>1, <3>2 DEF OnTime, ExpiresCovered
      <4>. QED
        BY <2>1, <4>1 DEF ExpiresCovered
    <3>. QED
      BY <2>1, <3>3 DEF OnTime, RunsOnTime, RunOnTime, DeletesLate, RetiredPast, CopiesKept, Kept
  <2>. QED
    BY <1>2, <2>2, <2>3 DEF Sign
<1>3. ASSUME NEW r \in Replicas, Crash(r) PROVE OnTime'
  <2>1. /\ UNCHANGED <<now, stored, retired, expires>>
        /\ op' = [w \in Workers |-> IF op[w].r = r THEN Idle ELSE op[w]]
        /\ signer' = [signer EXCEPT ![r] = None] /\ readAt' = [readAt EXCEPT ![r] = 0]
    BY <1>3 DEF Crash, keys
  <2>2. RunsOnTime' /\ DeletesLate'
    BY <2>1, IdleType DEF OnTime, RunsOnTime, RunOnTime, Kept, DeletesLate
  <2>3. CopiesKept'
    BY <1>b, <2>1 DEF OnTime, CopiesKept, Kept
  <2>. QED
    BY <2>1, <2>2, <2>3 DEF OnTime, RetiredPast, ExpiresCovered
<1>4. ASSUME NEW w \in Workers, RotateRead(w) \/ RotateReread(w) PROVE OnTime'
  <2>1. UNCHANGED <<now, keys, signer, readAt, expires>> /\ op[w].t = now /\ op[w] \in Op
    BY <1>4, <1>b DEF RotateRead, RotateReread, cache, OnTime, RunsOnTime, RunOnTime
  <2>2. CASE Continue(w, Sweep(op[w]))
    <3>1. RunOnTime(Sweep(op[w])) /\ \A k \in Sweep(op[w]).delete : now - retired[k] >= KeyGrace
      BY <1>b, <2>1, SweepType DEF RunOnTime
    <3>. QED
      BY <2>1, <2>2, <3>1, RunQuiet
  <2>3. CASE Continue(w, [op[w] EXCEPT !.pc = "add", !.force = FALSE])
    <3>. DEFINE o == [op[w] EXCEPT !.pc = "add", !.force = FALSE]
    <3>1. o.pc = "add" /\ o.t = now /\ o.delete = op[w].delete
      BY <2>1 DEF Op
    <3>2. Continue(w, o)
      BY <2>3
    <3>. HIDE DEF o
    <3>3. RunOnTime(o) /\ \A k \in o.delete : now - retired[k] >= KeyGrace
      BY <3>1 DEF RunOnTime, OnTime, DeletesLate
    <3>. QED
      BY <2>1, <3>2, <3>3, RunQuiet
  <2>. QED
    BY <1>4, <2>2, <2>3 DEF RotateRead, RotateReread
<1>5. ASSUME NEW w \in Workers, AddKey(w) PROVE OnTime'
  <2>1. /\ UNCHANGED <<now, retired, signer, readAt, expires>> /\ stored \subseteq stored'
        /\ op[w].t = now
    BY <1>5 DEF AddKey, cache, OnTime, RunsOnTime, RunOnTime
  <2>2. /\ \A v \in Workers \ {w} : op'[v] = op[v]
        /\ op'[w].pc = "reread" /\ op'[w].t = now /\ op'[w].delete = op[w].delete
    BY <1>5, <1>b, <2>1 DEF AddKey, Continue, Op
  <2>3. /\ \A k \in Ids, t \in Nat : Kept(k, t) => Kept(k, t)'
        /\ RetiredPast' /\ ExpiresCovered'
    BY <1>a, <2>1, KeptStep
  <2>4. CopiesKept'
    BY <1>b, <2>1, <2>3 DEF OnTime, CopiesKept
  <2>5. RunsOnTime'
    BY <1>c, <2>1, <2>2, <2>3 DEF OnTime, RunsOnTime, RunOnTime
  <2>6. DeletesLate'
    BY <2>1, <2>2 DEF OnTime, DeletesLate
  <2>. QED
    BY <2>3, <2>4, <2>5, <2>6 DEF OnTime
<1>6. ASSUME NEW w \in Workers, NEW k \in Ids, Retire(w, k) PROVE OnTime'
  <2>1. /\ UNCHANGED <<now, stored, signer, readAt, expires>> /\ op[w].t = now
        /\ retired' = IF Signs(k) THEN [retired EXCEPT ![k] = now] ELSE retired
    BY <1>6 DEF Retire, cache, OnTime, RunsOnTime, RunOnTime
  <2>2. /\ \A v \in Workers \ {w} : op'[v] = op[v]
        /\ op'[w].pc = "sweep" /\ op'[w].t = now /\ op'[w].delete = op[w].delete
    BY <1>6, <1>b, <2>1 DEF Retire, Continue, Op
  <2>3. /\ \A j \in Ids, t \in Nat : Kept(j, t) => Kept(j, t)'
        /\ RetiredPast' /\ ExpiresCovered'
    BY <1>a, <1>c, <2>1, KeptStep DEF Signs
  <2>4. CopiesKept'
    BY <1>b, <2>1, <2>3 DEF OnTime, CopiesKept
  <2>5. RunsOnTime'
    BY <1>c, <2>1, <2>2, <2>3 DEF OnTime, RunsOnTime, RunOnTime
  <2>6. DeletesLate'
    <3>1. \A j \in Ids : retired[j] # None => retired'[j] = retired[j]
      BY <1>c, <2>1 DEF Signs
    <3>. QED
      BY <1>c, <2>1, <2>2, <3>1 DEF OnTime, DeletesLate, KInv, DeletesRetired
  <2>. QED
    BY <2>3, <2>4, <2>5, <2>6 DEF OnTime
<1>7. ASSUME NEW w \in Workers, NEW k \in Ids, Delete(w, k) PROVE OnTime'
  <2>1. /\ UNCHANGED <<now, retired, signer, readAt, expires>> /\ op[w].t = now
        /\ stored' = stored \ {k} /\ retired[k] # None /\ now - retired[k] >= KeyGrace
    BY <1>7 DEF Delete, cache, OnTime, RunsOnTime, RunOnTime, DeletesLate, KInv, DeletesRetired
  <2>2. /\ \A v \in Workers \ {w} : op'[v] = op[v]
        /\ op'[w].pc = "sweep" /\ op'[w].t = now /\ op'[w].delete \subseteq op[w].delete
    BY <1>7, <1>b, <2>1 DEF Delete, Continue, Op
  <2>3. /\ \A j \in Ids, t \in Nat : Kept(j, t) => Kept(j, t)'
        /\ RetiredPast' /\ ExpiresCovered'
    BY <1>a, <2>1, KeptStep
  <2>4. CopiesKept'
    BY <1>b, <2>1, <2>3 DEF OnTime, CopiesKept
  <2>5. RunsOnTime'
    BY <1>c, <2>1, <2>2, <2>3 DEF OnTime, RunsOnTime, RunOnTime
  <2>6. DeletesLate'
    BY <2>1, <2>2 DEF OnTime, DeletesLate
  <2>. QED
    BY <2>3, <2>4, <2>5, <2>6 DEF OnTime
<1>8. ASSUME NEW w \in Workers, LoadRead(w) PROVE OnTime'
  <2>. DEFINE o == [op[w] EXCEPT !.pc = "store", !.t = 0, !.key = Newest, !.seen = now]
  <2>1. Continue(w, o) /\ UNCHANGED <<now, keys, signer, readAt, expires>>
    BY <1>8 DEF LoadRead, cache
  <2>2. o.pc = "store" /\ o.key = Newest /\ o.seen = now /\ o.delete = op[w].delete
    BY <1>b DEF Op
  <2>. HIDE DEF o
  <2>3. o.key # None => Kept(o.key, now)
    BY <1>b, <2>2, NewestSigns DEF Signs, Kept
  <2>4. RunOnTime(o) /\ \A k \in o.delete : now - retired[k] >= KeyGrace
    BY <2>2, <2>3 DEF RunOnTime, OnTime, DeletesLate
  <2>. QED
    BY <2>1, <2>4, RunQuiet
<1>9. ASSUME NEW w \in Workers, LoadStore(w) PROVE OnTime'
  <2>. DEFINE r == op[w].r
  <2>1. /\ UNCHANGED <<now, stored, retired, expires>> /\ Continue(w, Idle)
        /\ signer' = [signer EXCEPT ![r] = op[w].key]
        /\ readAt' = [readAt EXCEPT ![r] = op[w].seen]
        /\ op[w].key # None => Kept(op[w].key, op[w].seen)
    BY <1>9 DEF LoadStore, Finish, keys, OnTime, RunsOnTime, RunOnTime
  <2>2. op'[w] = Idle /\ \A v \in Workers \ {w} : op'[v] = op[v]
    BY <1>b, <2>1 DEF Continue
  <2>3. RunsOnTime' /\ DeletesLate'
    BY <2>1, <2>2, IdleType DEF OnTime, RunsOnTime, RunOnTime, Kept, DeletesLate
  <2>4. CopiesKept'
    <3>1. \A q \in Replicas : signer'[q] # None => Kept(signer'[q], readAt'[q])
      BY <1>b, <2>1 DEF OnTime, CopiesKept
    <3>. QED
      BY <2>1, <3>1 DEF CopiesKept, Kept
  <2>. QED
    BY <2>1, <2>3, <2>4 DEF OnTime, RetiredPast, ExpiresCovered
<1>10. ASSUME NEW w \in Workers, Fail(w) PROVE OnTime'
  <2>1. UNCHANGED <<now, keys, signer, readAt, expires>>
    BY <1>10 DEF Fail, cache
  <2>2. ASSUME op[w].pc = "sweep", NEW k \in op[w].retire \cup op[w].delete,
               Continue(w, [op[w] EXCEPT !.retire = @ \ {k}, !.delete = @ \ {k}, !.err = TRUE])
        PROVE  OnTime'
    <3>. DEFINE o == [op[w] EXCEPT !.retire = @ \ {k}, !.delete = @ \ {k}, !.err = TRUE]
    <3>1. o.pc = "sweep" /\ o.t = op[w].t /\ o.delete \subseteq op[w].delete
      BY <1>b, <2>2 DEF Op
    <3>2. Continue(w, o)
      BY <2>2
    <3>. HIDE DEF o
    <3>3. RunOnTime(o) /\ \A j \in o.delete : now - retired[j] >= KeyGrace
      BY <2>2, <3>1 DEF OnTime, RunsOnTime, RunOnTime, DeletesLate
    <3>. QED
      BY <2>1, <3>2, <3>3, RunQuiet
  <2>3. CASE Continue(w, Idle)
    BY <2>1, <2>3, IdleType, RunQuiet DEF RunOnTime
  <2>. QED
    BY <1>10, <2>2, <2>3 DEF Fail
<1>11. ASSUME NEW w \in Workers, NEW r \in Replicas, NEW force \in BOOLEAN, RotateKeys(w, r, force)
       PROVE  OnTime'
  <2>. DEFINE o == [Idle EXCEPT !.pc = "read", !.r = r, !.force = force, !.t = now,
                                !.starts = (r \notin up)]
  <2>1. Continue(w, o) /\ UNCHANGED <<now, keys, signer, readAt, expires>>
    BY <1>11 DEF RotateKeys, cache
  <2>2. o.pc = "read" /\ o.t = now /\ o.delete = {}
    BY DEF Idle
  <2>. HIDE DEF o
  <2>. QED
    BY <2>1, <2>2, RunQuiet DEF RunOnTime
<1>12. ASSUME NEW w \in Workers, NEW r \in Replicas, Refresh(w, r) PROVE OnTime'
  <2>. DEFINE o == [Idle EXCEPT !.pc = "load", !.r = r]
  <2>1. Continue(w, o) /\ UNCHANGED <<now, keys, signer, readAt, expires>>
    BY <1>12 DEF Refresh
  <2>2. o.pc = "load" /\ o.delete = {}
    BY DEF Idle
  <2>. HIDE DEF o
  <2>. QED
    BY <2>1, <2>2, RunQuiet DEF RunOnTime
<1>13. CASE UNCHANGED vars
  BY <1>13 DEF vars, keys, cache, OnTime, RunsOnTime, RunOnTime, DeletesLate, RetiredPast,
               CopiesKept, Kept, ExpiresCovered
<1>. QED
  BY <1>1, <1>2, <1>3, <1>4, <1>5, <1>6, <1>7, <1>8, <1>9, <1>10, <1>11, <1>12, <1>13
  DEF Next, Step, Upkeep

\* No token outlives the publication of its key: with keyRefresh <= keySkew the grace time
\* covers the age of the copy and the life of the token, whichever replica retires the key.
THEOREM TokensStayVerifiable == Spec => []TokensVerify
<1>. DEFINE Inv == KInv /\ (~Slow => OnTime)
<1>1. Init => Inv
  BY InitKInv, InitOnTime
<1>2. Inv /\ [Next]_vars => Inv'
  BY NextKInv, NextOnTime
<1>3. Inv => TokensVerify
  <2>. SUFFICES ASSUME KInv, ~Slow, OnTime, NEW k \in Ids, expires[k] # None, expires[k] >= now
                PROVE  k \in stored
    BY DEF TokensVerify
  <2>1. expires[k] \in Nat /\ now \in Nat
    BY KeysAssumption DEF KInv, TypeInv, TypeOK
  <2>. QED
    BY <2>1 DEF OnTime, ExpiresCovered
<1>. HIDE DEF Inv
<1>. QED
  BY <1>1, <1>2, <1>3, PTL DEF Spec
=============================================================================
