--------------------------- MODULE AttemptsProofs ---------------------------
(***************************************************************************)
(* Proofs about the two components that bound how often a secret may be     *)
(* tried: Throttle, for any windows, limits and clock lags, and EmailOTP,   *)
(* for any number of requests, codes and attempts.                          *)
(***************************************************************************)
EXTENDS Throttle, EmailOTP, FiniteSetTheorems, TLAPS

-----------------------------------------------------------------------------
(* Counting the entries of a table by age *)

\* What is an entry of f.
LEMMA EntriesDef ==
    ASSUME NEW D, NEW f \in [D -> Nat], NEW S
    PROVE  \A x : x \in Entries(f, S) <=>
              \E a \in S \cap D, i \in Nat : 1 <= i /\ i <= f[a] /\ x = <<a, i>>
BY DEF Entries

\* The same, for one entry that is known.
LEMMA EntryIn ==
    ASSUME NEW D, NEW f \in [D -> Nat], NEW S, NEW a \in S \cap D, NEW i \in Nat,
           1 <= i, i <= f[a]
    PROVE  <<a, i>> \in Entries(f, S)
<1>1. i \in 1 .. f[a]
  OBVIOUS
<1>2. <<a, i>> \in {a} \X (1 .. f[a])
  BY <1>1
<1>3. DOMAIN f = D
  OBVIOUS
<1>. QED
  BY <1>2, <1>3 DEF Entries

\* The same, read the other way.
LEMMA EntryOut ==
    ASSUME NEW D, NEW f \in [D -> Nat], NEW S, NEW x \in Entries(f, S)
    PROVE  \E a \in S \cap D, i \in Nat : 1 <= i /\ i <= f[a] /\ x = <<a, i>>
BY EntriesDef

\* All of them, for a table by age.
LEMMA EntriesOut ==
    ASSUME NEW n \in Int, NEW f \in [0 .. n -> Nat], NEW S
    PROVE  \A x \in Entries(f, S) :
              \E a \in S \cap (0 .. n), i \in Nat : 1 <= i /\ i <= f[a] /\ x = <<a, i>>
BY EntryOut

\* One more element counts for one at most.
LEMMA OneMore ==
    ASSUME NEW T, IsFiniteSet(T), NEW x
    PROVE  IsFiniteSet(T \cup {x}) /\ Cardinality(T \cup {x}) <= Cardinality(T) + 1
<1>1. Cardinality(T) \in Nat
  BY FS_CardinalityType
<1>. QED
  BY <1>1, FS_AddElement

\* The pairs of one thing with the elements of a finite set are finitely many.
LEMMA PairsFinite ==
    ASSUME NEW a, NEW T, IsFiniteSet(T)
    PROVE  IsFiniteSet({a} \X T)
BY FS_Singleton, FS_Product

\* A table with finitely many ages has finitely many entries.
LEMMA EntriesFinite ==
    ASSUME NEW n \in Int, NEW f \in [0 .. n -> Nat], NEW S
    PROVE  IsFiniteSet(Entries(f, S))
<1>. DEFINE A == S \cap (0 .. n)
            g == [a \in A |-> {a} \X (1 .. f[a])]
            F == {{a} \X (1 .. f[a]) : a \in A}
<1>1. IsFiniteSet(0 .. n)
  BY FS_Interval
<1>2. IsFiniteSet(A)
  BY <1>1, FS_Intersection
<1>3. g \in Surjection(A, F)
  BY DEF Surjection
<1>4. IsFiniteSet(F)
  <2>. HIDE DEF A, F, g
  <2>. QED
    BY <1>2, <1>3, FS_Surjection
<1>5. ASSUME NEW T \in F PROVE IsFiniteSet(T)
  <2>1. PICK a \in A : T = {a} \X (1 .. f[a])
    OBVIOUS
  <2>2. f[a] \in Int
    OBVIOUS
  <2>3. IsFiniteSet(1 .. f[a])
    BY <2>2, FS_Interval
  <2>4. IsFiniteSet({a} \X (1 .. f[a]))
    BY <2>3, PairsFinite
  <2>. QED
    BY <2>1, <2>4
<1>6. Entries(f, S) = UNION F
  BY DEF Entries
<1>. HIDE DEF F
<1>. QED
  BY <1>4, <1>5, <1>6, FS_UNION

\* A count is a number.
LEMMA TotalType ==
    ASSUME NEW n \in Int, NEW f \in [0 .. n -> Nat], NEW S
    PROVE  Total(f, S) \in Nat
BY EntriesFinite, FS_CardinalityType DEF Total

\* More entries of more ages count for more.
LEMMA TotalMonotone ==
    ASSUME NEW n \in Int, NEW f \in [0 .. n -> Nat], NEW g \in [0 .. n -> Nat], NEW S, NEW T,
           \A a \in S \cap (0 .. n) : a \in T /\ f[a] <= g[a]
    PROVE  Total(f, S) <= Total(g, T)
<1>1. Entries(f, S) \subseteq Entries(g, T)
  <2>. SUFFICES ASSUME NEW x \in Entries(f, S) PROVE x \in Entries(g, T)
    OBVIOUS
  <2>1. PICK a \in S \cap (0 .. n), i \in Nat : 1 <= i /\ i <= f[a] /\ x = <<a, i>>
    BY EntryOut
  <2>2. a \in T \cap (0 .. n) /\ i <= g[a]
    BY <2>1
  <2>3. <<a, i>> \in Entries(g, T)
    BY <2>1, <2>2, EntryIn
  <2>. QED
    BY <2>1, <2>3
<1>. QED
  BY <1>1, EntriesFinite, FS_Subset DEF Total

\* A table with one entry more counts for one more at most.
LEMMA TotalOneMore ==
    ASSUME NEW n \in Int, NEW f \in [0 .. n -> Nat], NEW g \in [0 .. n -> Nat],
           NEW b \in 0 .. n, NEW S,
           \A a \in 0 .. n : g[a] = IF a = b THEN f[a] + 1 ELSE f[a]
    PROVE  Total(g, S) <= Total(f, S) + 1
<1>1. PICK x : x = <<b, f[b] + 1>>
  OBVIOUS
<1>2. Entries(g, S) \subseteq Entries(f, S) \cup {x}
  <2>. SUFFICES ASSUME NEW y \in Entries(g, S), y # x PROVE y \in Entries(f, S)
    OBVIOUS
  <2>1. PICK a \in S \cap (0 .. n), i \in Nat : 1 <= i /\ i <= g[a] /\ y = <<a, i>>
    BY EntriesOut
  <2>2. i <= f[a]
    BY <1>1, <2>1
  <2>3. <<a, i>> \in Entries(f, S)
    BY <2>1, <2>2, EntryIn
  <2>. QED
    BY <2>1, <2>3
<1>3. IsFiniteSet(Entries(f, S)) /\ Cardinality(Entries(f, S)) \in Nat
  BY EntriesFinite, FS_CardinalityType
<1>4. IsFiniteSet(Entries(f, S) \cup {x})
      /\ Cardinality(Entries(f, S) \cup {x}) <= Cardinality(Entries(f, S)) + 1
  BY <1>3, OneMore
<1>5. Cardinality(Entries(g, S)) <= Cardinality(Entries(f, S) \cup {x})
  BY <1>2, <1>4, FS_Subset
<1>6. Cardinality(Entries(g, S)) \in Nat /\ Cardinality(Entries(f, S) \cup {x}) \in Nat
  BY <1>4, EntriesFinite, FS_CardinalityType
<1>. QED
  BY <1>3, <1>4, <1>5, <1>6 DEF Total

\* A new entry counts for one at most.
LEMMA TotalAdded ==
    ASSUME NEW n \in Int, NEW f \in [0 .. n -> Nat], NEW b \in 0 .. n, NEW S
    PROVE  /\ Added(f, b) \in [0 .. n -> Nat]
           /\ \A a \in 0 .. n : Added(f, b)[a] = IF a = b THEN f[a] + 1 ELSE f[a]
           /\ Total(Added(f, b), S) <= Total(f, S) + 1
<1>1. PICK g : g = Added(f, b)
  OBVIOUS
<1>2. /\ g \in [0 .. n -> Nat]
      /\ \A a \in 0 .. n : g[a] = IF a = b THEN f[a] + 1 ELSE f[a]
  BY <1>1 DEF Added
<1>3. Total(g, S) <= Total(f, S) + 1
  BY <1>2, TotalOneMore
<1>. QED
  BY <1>1, <1>2, <1>3

\* Time brings no entry into the window that begins now.
LEMMA TotalOlder ==
    ASSUME NEW n \in Int, NEW f \in [0 .. n -> Nat], NEW m \in Int
    PROVE  /\ Older(f) \in [0 .. n -> Nat]
           /\ \A a \in 0 .. n : Older(f)[a] = IF a = 0 THEN 0 ELSE f[a - 1]
           /\ Total(Older(f), 0 .. m) <= Total(f, 0 .. m)
<1>1. /\ Older(f) \in [0 .. n -> Nat]
      /\ \A a \in 0 .. n : Older(f)[a] = IF a = 0 THEN 0 ELSE f[a - 1]
  BY DEF Older
<1>. DEFINE E == Entries(Older(f), 0 .. m)
            G == Entries(f, 0 .. m)
            h == [x \in E |-> <<x[1] - 1, x[2]>>]
<1>2. ASSUME NEW x \in E
      PROVE  \E a \in 1 .. n, i \in Nat : x = <<a, i>> /\ h[x] = <<a - 1, i>> /\ h[x] \in G
  <2>1. PICK a \in (0 .. m) \cap (0 .. n), i \in Nat :
           1 <= i /\ i <= Older(f)[a] /\ x = <<a, i>>
    BY <1>1, EntryOut
  <2>2. a # 0 /\ i <= f[a - 1]
    BY <1>1, <2>1
  <2>3. a - 1 \in (0 .. m) \cap (0 .. n)
    BY <2>1, <2>2
  <2>4. <<a - 1, i>> \in G
    BY <2>1, <2>2, <2>3, EntryIn
  <2>5. h[x] = <<a - 1, i>>
    BY <2>1
  <2>6. a \in 1 .. n
    BY <2>1, <2>2
  <2>. HIDE DEF h, E, G
  <2>. QED
    BY <2>1, <2>4, <2>5, <2>6
<1>3. h \in [E -> G]
  BY <1>2
<1>4. ASSUME NEW x \in E, NEW y \in E, h[x] = h[y] PROVE x = y
  <2>. HIDE DEF h, E, G
  <2>1. PICK a \in 1 .. n, i \in Nat : x = <<a, i>> /\ h[x] = <<a - 1, i>>
    BY <1>2
  <2>2. PICK b \in 1 .. n, j \in Nat : y = <<b, j>> /\ h[y] = <<b - 1, j>>
    BY <1>2
  <2>. QED
    BY <1>4, <2>1, <2>2
<1>5. h \in Injection(E, G)
  <2>. HIDE DEF h, E, G
  <2>. QED
    BY <1>3, <1>4 DEF Injection, IsInjective
<1>6. IsFiniteSet(G)
  BY EntriesFinite
<1>7. Cardinality(E) <= Cardinality(G)
  <2>. HIDE DEF h, E, G
  <2>. QED
    BY <1>5, <1>6, FS_Injection
<1>. QED
  BY <1>1, <1>7 DEF Total

-----------------------------------------------------------------------------
(* Throttle: types *)

\* The tables of one key or account, as sets of functions.
LEMMA TableTypes ==
    /\ window + MaxLag - 1 \in Int /\ lockWindow + MaxLag \in Int
    /\ NoHits \in [HitAges -> Nat] /\ NoAudits \in [AuditAges -> Nat]
    /\ \A f \in [HitAges -> Nat] : Older(f) \in [HitAges -> Nat]
    /\ \A f \in [AuditAges -> Nat] : Older(f) \in [AuditAges -> Nat]
    /\ \A f \in [HitAges -> Nat], lag \in Lags :
          Kept(f, lag) \in [HitAges -> Nat] /\ Added(f, lag) \in [HitAges -> Nat]
    /\ \A f \in [AuditAges -> Nat] : Added(f, 0) \in [AuditAges -> Nat]
<1>1. window + MaxLag - 1 \in Int /\ lockWindow + MaxLag \in Int
  BY ThrottleAssumption
<1>2. NoHits \in [HitAges -> Nat] /\ NoAudits \in [AuditAges -> Nat]
  BY DEF NoHits, NoAudits
<1>3. /\ \A f \in [HitAges -> Nat] : Older(f) \in [HitAges -> Nat]
      /\ \A f \in [AuditAges -> Nat] : Older(f) \in [AuditAges -> Nat]
  BY <1>1, TotalOlder DEF HitAges, AuditAges
<1>4. ASSUME NEW f \in [HitAges -> Nat], NEW lag \in Lags
      PROVE  Kept(f, lag) \in [HitAges -> Nat] /\ Added(f, lag) \in [HitAges -> Nat]
  <2>1. lag \in HitAges
    BY ThrottleAssumption DEF Lags, HitAges
  <2>2. Added(f, lag) \in [HitAges -> Nat]
    BY <2>1 DEF Added
  <2>. QED
    BY <2>2 DEF Kept
<1>5. ASSUME NEW f \in [AuditAges -> Nat] PROVE Added(f, 0) \in [AuditAges -> Nat]
  <2>1. 0 \in AuditAges
    BY ThrottleAssumption DEF AuditAges
  <2>. QED
    BY <2>1 DEF Added
<1>. QED
  BY <1>1, <1>2, <1>3, <1>4, <1>5

\* What Allow does to the tables, for any key.
LEMMA AllowTables ==
    ASSUME ThrottleTypeOK, NEW key \in Keys, NEW lag \in Lags, NEW granting \in BOOLEAN,
           Allow(key, lag, granting)
    PROVE  /\ \A k \in Keys \ {key} : hits'[k] = hits[k] /\ granted'[k] = granted[k]
           /\ ~granting => hits'[key] = Kept(hits[key], lag) /\ granted'[key] = granted[key]
           /\ granting => /\ hits'[key] = Added(Kept(hits[key], lag), lag)
                          /\ granted'[key] = Added(granted[key], lag)
                          /\ ~Full(Kept(hits[key], lag))
           /\ hits' \in [Keys -> [HitAges -> Nat]] /\ granted' \in [Keys -> [HitAges -> Nat]]
<1>1. hits \in [Keys -> [HitAges -> Nat]] /\ granted \in [Keys -> [HitAges -> Nat]]
  BY DEF ThrottleTypeOK
<1>2. PICK kept \in [HitAges -> Nat] : kept = Kept(hits[key], lag)
  BY <1>1, TableTypes
<1>3. PICK more \in [HitAges -> Nat] : more = Added(kept, lag)
  BY TableTypes
<1>4. PICK most \in [HitAges -> Nat] : most = Added(granted[key], lag)
  BY <1>1, TableTypes
<1>5. /\ granting = ~Full(kept)
      /\ hits' = [hits EXCEPT ![key] = IF granting THEN more ELSE kept]
      /\ granted' = IF granting THEN [granted EXCEPT ![key] = most] ELSE granted
  BY <1>2, <1>3, <1>4 DEF Allow
<1>. QED
  BY <1>1, <1>2, <1>3, <1>4, <1>5

\* A step of a request leaves it a record of the right type.
LEMMA RequestTypes ==
    ASSUME ThrottleTypeOK, NEW r \in Attempts, NEW pc \in {"idle", "lockout", "compare", "other"},
           NEW email \in Emails,
           attempt' \in {attempt, [attempt EXCEPT ![r] = Idle],
                        [attempt EXCEPT ![r] = [pc |-> pc, email |-> email]]}
    PROVE  /\ attempt' \in [Attempts -> Attempt]
           /\ \A q \in Attempts : attempt'[q].pc # "idle" => attempt'[q].email \in Emails
<1>1. PICK new : new = [pc |-> pc, email |-> email]
  OBVIOUS
<1>2. PICK idle : idle = Idle
  OBVIOUS
<1>3. /\ new \in Attempt
      /\ new.email \in Emails
  BY <1>1 DEF Attempt
<1>4. /\ idle \in Attempt
      /\ idle.pc = "idle"
  BY <1>2 DEF Idle, Attempt
<1>5. attempt' \in {attempt, [attempt EXCEPT ![r] = idle], [attempt EXCEPT ![r] = new]}
  BY <1>1, <1>2
<1>6. CASE attempt' = attempt
  BY <1>6 DEF ThrottleTypeOK
<1>7. CASE attempt' = [attempt EXCEPT ![r] = idle]
  BY <1>4, <1>7 DEF ThrottleTypeOK
<1>8. CASE attempt' = [attempt EXCEPT ![r] = new]
  BY <1>3, <1>8 DEF ThrottleTypeOK
<1>. QED
  BY <1>5, <1>6, <1>7, <1>8

\* A request that is not idle, and what its last step does.
LEMMA HandlerReq ==
    ASSUME ThrottleTypeOK, NEW r \in Attempts, Handler(r)
    PROVE  /\ attempt[r].email \in Emails
           /\ \/ attempt' = [attempt EXCEPT ![r] = Idle]
              \/ attempt' = [attempt EXCEPT ![r] = [pc |-> "compare", email |-> attempt[r].email]]
           /\ UNCHANGED <<hits, granted>>
<1>1. attempt[r].email \in Emails
  BY DEF Handler, Lockout, WrongPassword, RightPassword, OtherFailure, OtherSuccess, ThrottleTypeOK
<1>2. attempt[r] \in Attempt
  BY DEF ThrottleTypeOK
<1>3. [attempt[r] EXCEPT !.pc = "compare"] = [pc |-> "compare", email |-> attempt[r].email]
  BY <1>2 DEF Attempt
<1>4. ASSUME NEW lag \in Lags, Lockout(r, lag)
      PROVE  /\ \/ attempt' = [attempt EXCEPT ![r] = Idle]
                \/ attempt' = [attempt EXCEPT ![r] = [pc |-> "compare", email |-> attempt[r].email]]
             /\ UNCHANGED <<hits, granted>>
  <2>1. \/ attempt' = [attempt EXCEPT ![r] = Idle]
        \/ attempt' = [attempt EXCEPT ![r] = [attempt[r] EXCEPT !.pc = "compare"]]
    BY <1>4 DEF Lockout, ThrottleTypeOK
  <2>. QED
    BY <1>3, <1>4, <2>1 DEF Lockout
<1>5. CASE WrongPassword(r) \/ RightPassword(r) \/ OtherFailure(r) \/ OtherSuccess(r)
  BY <1>1, <1>5 DEF WrongPassword, RightPassword, OtherFailure, OtherSuccess
<1>. QED
  BY <1>1, <1>4, <1>5 DEF Handler

\* A handler records failures in the audit log, and wrong passwords in both tables.
LEMMA HandlerTables ==
    ASSUME ThrottleTypeOK, NEW r \in Attempts, Handler(r)
    PROVE  /\ audits' \in {audits, [audits EXCEPT ![attempt[r].email] = Added(@, 0)]}
           /\ \/ UNCHANGED guesses
              \/ /\ attempt[r].pc = "compare"
                 /\ attempt' = [attempt EXCEPT ![r] = Idle]
                 /\ audits' = [audits EXCEPT ![attempt[r].email] = Added(@, 0)]
                 /\ guesses' = [guesses EXCEPT ![attempt[r].email] = Added(@, 0)]
BY DEF Handler, Lockout, WrongPassword, RightPassword, OtherFailure, OtherSuccess, RecordAudit

\* A new entry in one table of many.
LEMMA OneTable ==
    ASSUME NEW t \in [Emails -> [AuditAges -> Nat]], NEW e \in Emails,
           NEW u \in {t, [t EXCEPT ![e] = Added(@, 0)]}
    PROVE  /\ u \in [Emails -> [AuditAges -> Nat]]
           /\ \A x \in Emails \ {e} : u[x] = t[x]
           /\ u[e] \in {t[e], Added(t[e], 0)}
           /\ u # t => u[e] = Added(t[e], 0)
<1>1. PICK new \in [AuditAges -> Nat] : new = Added(t[e], 0)
  BY TableTypes
<1>2. u \in {t, [t EXCEPT ![e] = new]}
  BY <1>1
<1>. QED
  BY <1>1, <1>2

\* Every step keeps the types.
LEMMA NextTypeOK == ThrottleTypeOK /\ [ThrottleNext]_throttleVars => ThrottleTypeOK'
<1>. SUFFICES ASSUME ThrottleTypeOK, [ThrottleNext]_throttleVars PROVE ThrottleTypeOK'
  OBVIOUS
<1>1. ASSUME NEW r \in Attempts, NEW kind \in Kinds, NEW ip \in IPs, NEW email \in Emails,
             NEW lag \in Lags, NEW granting \in BOOLEAN, Allow(<<kind, ip>>, lag, granting),
             NEW pc \in {"lockout", "other"},
             attempt' = IF granting THEN [attempt EXCEPT ![r] = [pc |-> pc, email |-> email]]
                        ELSE attempt,
             UNCHANGED <<audits, guesses>>
      PROVE  ThrottleTypeOK'
  <2>1. <<kind, ip>> \in Keys
    BY DEF Keys
  <2>2. hits' \in [Keys -> [HitAges -> Nat]] /\ granted' \in [Keys -> [HitAges -> Nat]]
    BY <1>1, <2>1, AllowTables
  <2>3. attempt' \in {attempt, [attempt EXCEPT ![r] = Idle],
                      [attempt EXCEPT ![r] = [pc |-> pc, email |-> email]]}
    BY <1>1
  <2>4. pc \in {"idle", "lockout", "compare", "other"}
    OBVIOUS
  <2>5. /\ attempt' \in [Attempts -> Attempt]
        /\ \A q \in Attempts : attempt'[q].pc # "idle" => attempt'[q].email \in Emails
    BY <2>3, <2>4, RequestTypes
  <2>. QED
    BY <1>1, <2>2, <2>5 DEF ThrottleTypeOK
<1>2. ASSUME NEW r \in Attempts, Handler(r) PROVE ThrottleTypeOK'
  <2>1. PICK email \in Emails : email = attempt[r].email
    BY <1>2, HandlerReq
  <2>2. attempt' \in {attempt, [attempt EXCEPT ![r] = Idle],
                  [attempt EXCEPT ![r] = [pc |-> "compare", email |-> email]]}
    BY <1>2, <2>1, HandlerReq
  <2>3. /\ attempt' \in [Attempts -> Attempt]
        /\ \A q \in Attempts : attempt'[q].pc # "idle" => attempt'[q].email \in Emails
    BY <2>2, RequestTypes
  <2>4. /\ audits' \in {audits, [audits EXCEPT ![email] = Added(@, 0)]}
        /\ guesses' \in {guesses, [guesses EXCEPT ![email] = Added(@, 0)]}
    BY <1>2, <2>1, HandlerTables
  <2>5. audits' \in [Emails -> [AuditAges -> Nat]]
    <3>1. PICK t \in [Emails -> [AuditAges -> Nat]] : t = audits
      BY DEF ThrottleTypeOK
    <3>2. PICK u : u = audits'
      OBVIOUS
    <3>3. u \in {t, [t EXCEPT ![email] = Added(@, 0)]}
      BY <2>4, <3>1, <3>2
    <3>. QED
      BY <3>2, <3>3, OneTable
  <2>6. guesses' \in [Emails -> [AuditAges -> Nat]]
    <3>1. PICK t \in [Emails -> [AuditAges -> Nat]] : t = guesses
      BY DEF ThrottleTypeOK
    <3>2. PICK u : u = guesses'
      OBVIOUS
    <3>3. u \in {t, [t EXCEPT ![email] = Added(@, 0)]}
      BY <2>4, <3>1, <3>2
    <3>. QED
      BY <3>2, <3>3, OneTable
  <2>. QED
    BY <1>2, <2>3, <2>5, <2>6, HandlerReq DEF ThrottleTypeOK
<1>3. ASSUME NEW lag \in Lags, gc(lag) PROVE ThrottleTypeOK'
  BY <1>3, TableTypes DEF gc, ThrottleTypeOK
<1>4. CASE Elapse
  BY <1>4, TableTypes DEF Elapse, ThrottleTypeOK
<1>5. CASE Restart
  <2>1. hits' \in [Keys -> [HitAges -> Nat]] /\ granted' \in [Keys -> [HitAges -> Nat]]
    BY <1>5, TableTypes DEF Restart
  <2>2. audits' \in [Emails -> [AuditAges -> Nat]] /\ guesses' \in [Emails -> [AuditAges -> Nat]]
    BY <1>5, TableTypes DEF Restart, ThrottleTypeOK
  <2>3. /\ attempt' \in [Attempts -> Attempt]
        /\ \A q \in Attempts : attempt'[q].pc = "idle"
    BY <1>5 DEF Restart, Idle, Attempt
  <2>. QED
    BY <2>1, <2>2, <2>3 DEF ThrottleTypeOK
<1>6. CASE UNCHANGED throttleVars
  BY <1>6 DEF throttleVars, ThrottleTypeOK
<1>. QED
  <2>1. ASSUME NEW r \in Attempts, NEW ip \in IPs, NEW email \in Emails, NEW lag \in Lags,
               PasswordLogin(r, ip, email, lag) PROVE ThrottleTypeOK'
    <3>1. PICK granting \in BOOLEAN :
             /\ Allow(<<"login", ip>>, lag, granting)
             /\ attempt' = IF granting THEN [attempt EXCEPT ![r] = [pc |-> "lockout", email |-> email]]
                       ELSE attempt
      BY <2>1 DEF PasswordLogin
    <3>2. "login" \in Kinds /\ UNCHANGED <<audits, guesses>>
      BY <2>1 DEF Kinds, PasswordLogin
    <3>. QED
      BY <1>1, <3>1, <3>2
  <2>2. ASSUME NEW r \in Attempts, NEW ip \in IPs, NEW email \in Emails, NEW lag \in Lags,
               NEW kind \in Others, OtherAttempt(r, kind, ip, email, lag) PROVE ThrottleTypeOK'
    <3>1. PICK granting \in BOOLEAN :
             /\ Allow(<<kind, ip>>, lag, granting)
             /\ attempt' = IF granting THEN [attempt EXCEPT ![r] = [pc |-> "other", email |-> email]]
                       ELSE attempt
      BY <2>2 DEF OtherAttempt
    <3>2. kind \in Kinds /\ UNCHANGED <<audits, guesses>>
      BY <2>2 DEF Kinds, OtherAttempt
    <3>. QED
      BY <1>1, <3>1, <3>2
  <2>. QED
    BY <1>2, <1>3, <1>4, <1>5, <1>6, <2>1, <2>2 DEF ThrottleNext

-----------------------------------------------------------------------------
(* Throttle: the budget *)

\* One key: the attempts kept are within the budget, and those of the last window are
\* exactly the ones granted.
WithinBudget(kept, allowed) ==
    /\ kept \in [HitAges -> Nat] /\ allowed \in [HitAges -> Nat]
    /\ Total(kept, HitAges) <= limit
    /\ \A a \in 0 .. window - 1 : allowed[a] = kept[a]

\* Every key is within its budget.
Budgeted == \A key \in Keys : WithinBudget(hits[key], granted[key])

\* Pruning drops nothing of the last window.
LEMMA KeptWithin ==
    ASSUME NEW h, NEW g, WithinBudget(h, g), NEW lag \in Lags
    PROVE  WithinBudget(Kept(h, lag), g)
<1>. DEFINE n == window + MaxLag - 1
<1>1. n \in Int /\ HitAges = 0 .. n /\ h \in [0 .. n -> Nat] /\ g \in [0 .. n -> Nat]
  BY ThrottleAssumption DEF HitAges, WithinBudget
<1>2. PICK k : k = Kept(h, lag)
  OBVIOUS
<1>3. k \in [0 .. n -> Nat] /\ \A a \in 0 .. n : k[a] = IF a < window + lag THEN h[a] ELSE 0
  BY <1>1, <1>2 DEF Kept
<1>4. \A a \in 0 .. n : k[a] <= h[a]
  BY <1>1, <1>3
<1>5. Total(k, HitAges) <= Total(h, HitAges)
  <2>. HIDE DEF n
  <2>1. \A a \in HitAges \cap (0 .. n) : a \in HitAges /\ k[a] <= h[a]
    BY <1>4
  <2>. QED
    BY <1>1, <1>3, <2>1, TotalMonotone
<1>6. Total(k, HitAges) \in Nat /\ Total(h, HitAges) \in Nat
  <2>. HIDE DEF n
  <2>. QED
    BY <1>1, <1>3, TotalType
<1>7. \A a \in 0 .. window - 1 : k[a] = h[a]
  BY <1>3, ThrottleAssumption DEF Lags
<1>. QED
  BY <1>1, <1>2, <1>3, <1>5, <1>6, <1>7, ThrottleAssumption DEF WithinBudget

\* An attempt that found room fits in, and is granted in the same tick.
LEMMA AllowWithin ==
    ASSUME NEW h, NEW g, WithinBudget(h, g), ~Full(h), NEW lag \in Lags
    PROVE  WithinBudget(Added(h, lag), Added(g, lag))
<1>. DEFINE n == window + MaxLag - 1
<1>1. n \in Int /\ HitAges = 0 .. n /\ h \in [0 .. n -> Nat] /\ g \in [0 .. n -> Nat]
      /\ lag \in 0 .. n
  BY ThrottleAssumption DEF HitAges, WithinBudget, Lags
<1>2. PICK k, l : k = Added(h, lag) /\ l = Added(g, lag)
  OBVIOUS
<1>. HIDE DEF n
<1>3. /\ k \in [0 .. n -> Nat]
      /\ \A a \in 0 .. n : k[a] = IF a = lag THEN h[a] + 1 ELSE h[a]
      /\ Total(k, HitAges) <= Total(h, HitAges) + 1
  BY <1>1, <1>2, TotalAdded
<1>4. /\ l \in [0 .. n -> Nat]
      /\ \A a \in 0 .. n : l[a] = IF a = lag THEN g[a] + 1 ELSE g[a]
  BY <1>1, <1>2, TotalAdded
<1>5. Total(k, HitAges) \in Nat /\ Total(h, HitAges) \in Nat
  BY <1>1, <1>3, TotalType
<1>6. Total(k, HitAges) <= limit
  BY <1>3, <1>5, ThrottleAssumption DEF Full
<1>7. ASSUME NEW a \in 0 .. window - 1 PROVE l[a] = k[a]
  <2>1. a \in 0 .. n
    BY ThrottleAssumption DEF n
  <2>2. g[a] = h[a]
    BY DEF WithinBudget
  <2>. QED
    BY <1>3, <1>4, <2>1, <2>2
<1>. QED
  BY <1>1, <1>2, <1>3, <1>4, <1>6, <1>7 DEF WithinBudget

\* Time frees the budget and never fills it.
LEMMA OlderWithin ==
    ASSUME NEW h, NEW g, WithinBudget(h, g)
    PROVE  WithinBudget(Older(h), Older(g))
<1>. DEFINE n == window + MaxLag - 1
<1>1. n \in Int /\ HitAges = 0 .. n /\ h \in [0 .. n -> Nat] /\ g \in [0 .. n -> Nat]
  BY ThrottleAssumption DEF HitAges, WithinBudget
<1>2. PICK k, l : k = Older(h) /\ l = Older(g)
  OBVIOUS
<1>. HIDE DEF n
<1>3. /\ k \in [0 .. n -> Nat]
      /\ \A a \in 0 .. n : k[a] = IF a = 0 THEN 0 ELSE h[a - 1]
      /\ Total(k, 0 .. n) <= Total(h, 0 .. n)
  BY <1>1, <1>2, TotalOlder
<1>4. /\ l \in [0 .. n -> Nat]
      /\ \A a \in 0 .. n : l[a] = IF a = 0 THEN 0 ELSE g[a - 1]
  BY <1>1, <1>2, TotalOlder
<1>5. Total(k, HitAges) \in Nat /\ Total(h, HitAges) \in Nat
  BY <1>1, <1>3, TotalType
<1>6. Total(k, HitAges) <= limit
  BY <1>1, <1>3, <1>5, ThrottleAssumption DEF WithinBudget
<1>7. \A a \in 0 .. window - 1 : a \in 0 .. n /\ l[a] = k[a]
  BY <1>1, <1>3, <1>4, ThrottleAssumption DEF WithinBudget, n
<1>. QED
  BY <1>1, <1>2, <1>3, <1>4, <1>6, <1>7 DEF WithinBudget

\* A table without entries counts for nothing.
LEMMA TotalNone ==
    ASSUME NEW n \in Int, NEW f \in [0 .. n -> Nat], \A a \in 0 .. n : f[a] = 0, NEW S
    PROVE  Total(f, S) = 0
<1>1. ASSUME NEW x \in Entries(f, S) PROVE FALSE
  <2>1. PICK a \in S \cap (0 .. n), i \in Nat : 1 <= i /\ i <= f[a] /\ x = <<a, i>>
    BY EntriesOut
  <2>. QED
    BY <2>1
<1>2. Entries(f, S) = {}
  BY <1>1
<1>. QED
  BY <1>2, FS_EmptySet DEF Total

\* A process that just started has its whole budget.
LEMMA NoHitsWithin == WithinBudget(NoHits, NoHits)
<1>. DEFINE n == window + MaxLag - 1
<1>1. n \in Int /\ HitAges = 0 .. n
  BY ThrottleAssumption DEF HitAges
<1>2. NoHits \in [0 .. n -> Nat] /\ \A a \in 0 .. n : NoHits[a] = 0
  BY <1>1 DEF NoHits
<1>3. Total(NoHits, HitAges) = 0
  <2>. HIDE DEF n
  <2>. QED
    BY <1>1, <1>2, TotalNone
<1>. QED
  BY <1>1, <1>2, <1>3, ThrottleAssumption DEF WithinBudget

\* Every step keeps every key within its budget.
LEMMA NextBudgeted == ThrottleTypeOK /\ Budgeted /\ [ThrottleNext]_throttleVars => Budgeted'
<1>. SUFFICES ASSUME ThrottleTypeOK, Budgeted, [ThrottleNext]_throttleVars PROVE Budgeted'
  OBVIOUS
<1>1. ASSUME NEW key \in Keys, NEW lag \in Lags, NEW granting \in BOOLEAN,
             Allow(key, lag, granting)
      PROVE  Budgeted'
  <2>. SUFFICES ASSUME NEW k \in Keys PROVE WithinBudget(hits'[k], granted'[k])
    BY DEF Budgeted
  <2>1. CASE k # key
    BY <1>1, <2>1, AllowTables DEF Budgeted
  <2>2. PICK h, g : h = hits[key] /\ g = granted[key] /\ WithinBudget(h, g)
    BY DEF Budgeted
  <2>3. PICK kept : kept = Kept(h, lag) /\ WithinBudget(kept, g)
    BY <2>2, KeptWithin
  <2>4. CASE k = key /\ ~granting
    BY <1>1, <2>2, <2>3, <2>4, AllowTables
  <2>5. CASE k = key /\ granting
    <3>1. WithinBudget(Added(kept, lag), Added(g, lag))
      BY <1>1, <2>2, <2>3, <2>5, AllowTables, AllowWithin
    <3>. QED
      BY <1>1, <2>2, <2>3, <2>5, <3>1, AllowTables
  <2>. QED
    BY <2>1, <2>4, <2>5
<1>2. ASSUME NEW r \in Attempts, Handler(r) PROVE Budgeted'
  BY <1>2, HandlerReq DEF Budgeted
<1>3. ASSUME NEW lag \in Lags, gc(lag) PROVE Budgeted'
  BY <1>3, KeptWithin DEF gc, Budgeted
<1>4. CASE Elapse
  BY <1>4, OlderWithin DEF Elapse, Budgeted
<1>5. CASE Restart
  BY <1>5, NoHitsWithin DEF Restart, Budgeted
<1>6. CASE UNCHANGED throttleVars
  BY <1>6 DEF throttleVars, Budgeted
<1>. QED
  <2>1. ASSUME NEW r \in Attempts, NEW ip \in IPs, NEW email \in Emails, NEW lag \in Lags,
               PasswordLogin(r, ip, email, lag)
        PROVE  Budgeted'
    <3>1. <<"login", ip>> \in Keys
      BY DEF Keys, Kinds
    <3>. QED
      BY <1>1, <2>1, <3>1 DEF PasswordLogin
  <2>2. ASSUME NEW r \in Attempts, NEW ip \in IPs, NEW email \in Emails, NEW lag \in Lags,
               NEW kind \in Others, OtherAttempt(r, kind, ip, email, lag)
        PROVE  Budgeted'
    <3>1. <<kind, ip>> \in Keys
      BY DEF Keys, Kinds
    <3>. QED
      BY <1>1, <2>2, <3>1 DEF OtherAttempt
  <2>. QED
    BY <1>2, <1>3, <1>4, <1>5, <1>6, <2>1, <2>2 DEF ThrottleNext

\* The granted attempts of the last window are among those kept.
LEMMA BudgetedImplies == Budgeted => BudgetKept
<1>. SUFFICES ASSUME Budgeted, NEW key \in Keys
              PROVE  Total(granted[key], 0 .. window - 1) <= limit
  BY DEF BudgetKept
<1>. DEFINE n == window + MaxLag - 1
<1>1. PICK h, g : h = hits[key] /\ g = granted[key] /\ WithinBudget(h, g)
  BY DEF Budgeted
<1>2. PICK S : S = 0 .. window - 1
  OBVIOUS
<1>3. n \in Int /\ HitAges = 0 .. n /\ h \in [0 .. n -> Nat] /\ g \in [0 .. n -> Nat]
  BY <1>1, ThrottleAssumption DEF HitAges, WithinBudget
<1>4. \A b \in S \cap (0 .. n) : b \in HitAges /\ g[b] <= h[b]
  BY <1>1, <1>2, <1>3 DEF WithinBudget
<1>. HIDE DEF n
<1>5. Total(g, S) <= Total(h, HitAges)
  BY <1>3, <1>4, TotalMonotone
<1>6. Total(g, S) \in Nat /\ Total(h, HitAges) \in Nat
  BY <1>3, TotalType
<1>. QED
  BY <1>1, <1>2, <1>5, <1>6, ThrottleAssumption DEF WithinBudget

\* ThrottleInit establishes the types and the budgets.
LEMMA InitBudgeted == ThrottleInit => ThrottleTypeOK /\ Budgeted
<1>. SUFFICES ASSUME ThrottleInit PROVE ThrottleTypeOK /\ Budgeted
  OBVIOUS
<1>1. Budgeted
  BY NoHitsWithin DEF ThrottleInit, Budgeted
<1>2. /\ attempt \in [Attempts -> Attempt]
      /\ \A r \in Attempts : attempt[r].pc = "idle"
  BY DEF ThrottleInit, Idle, Attempt
<1>. QED
  BY <1>1, <1>2, TableTypes DEF ThrottleInit, ThrottleTypeOK

\* Types, for any windows, limits and lags, and any clients and accounts (rateLimiter,
\* PasswordLogin).
THEOREM TypeCorrect == ThrottleSpec => []ThrottleTypeOK
BY InitBudgeted, NextTypeOK, PTL DEF ThrottleSpec

\* The limiter never has granted more than limit attempts of a key in the window that ends
\* now, for any window, limit and lag and however requests, pruning and restarts
\* interleave (rateLimiter.Allow, gc).
THEOREM BudgetsHold == ThrottleSpec => []BudgetKept
BY InitBudgeted, NextTypeOK, NextBudgeted, BudgetedImplies, PTL DEF ThrottleSpec

-----------------------------------------------------------------------------
(* Throttle: the lockout *)

\* The requests that passed the lock of an account and have not compared yet.
Comparing(email) == {r \in Attempts : attempt[r].pc = "compare" /\ attempt[r].email = email}

\* Every wrong password compared is in the audit log, with its age.
Recorded == \A email \in Emails, a \in AuditAges : guesses[email][a] <= audits[email][a]

\* The wrong passwords and the requests about to compare one stay within the bound.
WithinLock ==
    \A email \in Emails \ {OwnerEmail} :
        Total(guesses[email], 0 .. lockWindow) + Cardinality(Comparing(email))
            <= maxFailures - 1 + Cardinality(Attempts)

\* The ages of the audit log.
LEMMA AuditTypes ==
    ASSUME ThrottleTypeOK
    PROVE  /\ lockWindow + MaxLag \in Int /\ AuditAges = 0 .. lockWindow + MaxLag
           /\ audits \in [Emails -> [0 .. lockWindow + MaxLag -> Nat]]
           /\ guesses \in [Emails -> [0 .. lockWindow + MaxLag -> Nat]]
BY ThrottleAssumption DEF AuditAges, ThrottleTypeOK

\* The requests about to compare are finitely many, at most all of them.
LEMMA ComparingFinite ==
    ASSUME NEW email
    PROVE  /\ IsFiniteSet(Comparing(email)) /\ Cardinality(Comparing(email)) \in Nat
           /\ Cardinality(Comparing(email)) <= Cardinality(Attempts)
           /\ Cardinality(Attempts) \in Nat
<1>1. IsFiniteSet(Attempts) /\ Comparing(email) \subseteq Attempts
  BY ThrottleAssumption DEF Comparing
<1>. QED
  BY <1>1, FS_Subset, FS_CardinalityType

\* The same after a step.
LEMMA ComparingFiniteNext ==
    ASSUME NEW email
    PROVE  /\ IsFiniteSet(Comparing(email)') /\ Cardinality(Comparing(email)') \in Nat
           /\ Cardinality(Comparing(email)') <= Cardinality(Attempts)
<1>1. IsFiniteSet(Attempts) /\ Comparing(email)' \subseteq Attempts
  BY ThrottleAssumption DEF Comparing
<1>. QED
  BY <1>1, FS_Subset, FS_CardinalityType

\* Every step keeps the failures recorded.
LEMMA NextRecorded == ThrottleTypeOK /\ Recorded /\ [ThrottleNext]_throttleVars => Recorded'
<1>. SUFFICES ASSUME ThrottleTypeOK, Recorded, [ThrottleNext]_throttleVars,
                     NEW email \in Emails, NEW a \in AuditAges
              PROVE  guesses'[email][a] <= audits'[email][a]
  BY DEF Recorded
<1>. DEFINE n == lockWindow + MaxLag
<1>0. n \in Int /\ AuditAges = 0 .. n /\ 0 \in 0 .. n
  BY ThrottleAssumption DEF AuditAges
<1>1. PICK g \in [0 .. n -> Nat], w \in [0 .. n -> Nat] :
         g = guesses[email] /\ w = audits[email] /\ \A b \in 0 .. n : g[b] <= w[b]
  BY AuditTypes DEF Recorded
<1>. HIDE DEF n
<1>2. CASE UNCHANGED <<audits, guesses>>
  BY <1>0, <1>1, <1>2
<1>3. ASSUME NEW r \in Attempts, Handler(r)
      PROVE  guesses'[email][a] <= audits'[email][a]
  <2>1. PICK e \in Emails : e = attempt[r].email
    BY <1>3, HandlerReq
  <2>2. PICK w2 \in [0 .. n -> Nat] :
           w2 = Added(w, 0) /\ \A b \in 0 .. n : w2[b] = IF b = 0 THEN w[b] + 1 ELSE w[b]
    BY <1>0, TotalAdded
  <2>3. PICK g2 \in [0 .. n -> Nat] :
           g2 = Added(g, 0) /\ \A b \in 0 .. n : g2[b] = IF b = 0 THEN g[b] + 1 ELSE g[b]
    BY <1>0, TotalAdded
  <2>4. CASE audits' = audits /\ guesses' = guesses
    BY <1>2, <2>4
  <2>5. CASE audits' = [audits EXCEPT ![e] = Added(@, 0)]
    <3>1. audits'[email] = IF email = e THEN w2 ELSE w
      BY <1>1, <2>2, <2>5 DEF ThrottleTypeOK
    <3>2. guesses'[email] = g \/ (email = e /\ guesses'[email] = g2)
      <4>1. guesses' = guesses \/ guesses' = [guesses EXCEPT ![e] = Added(@, 0)]
        BY <1>3, <2>1, HandlerTables
      <4>. QED
        BY <1>1, <2>3, <4>1 DEF ThrottleTypeOK
    <3>3. /\ g[a] \in Nat /\ w[a] \in Nat /\ w2[a] \in Nat /\ g2[a] \in Nat
          /\ g[a] <= w[a] /\ w2[a] = (IF a = 0 THEN w[a] + 1 ELSE w[a])
          /\ g2[a] = (IF a = 0 THEN g[a] + 1 ELSE g[a])
      BY <1>0, <1>1, <2>2, <2>3
    <3>4. g[a] <= w[a] /\ g2[a] <= w2[a] /\ g[a] <= w2[a]
      BY <3>3
    <3>. QED
      BY <3>1, <3>2, <3>3, <3>4
  <2>. QED
    BY <1>3, <2>1, <2>4, <2>5, HandlerTables
<1>4. CASE Elapse \/ Restart
  <2>1. guesses'[email] = Older(g) /\ audits'[email] = Older(w)
    BY <1>1, <1>4 DEF Elapse, Restart
  <2>2. /\ \A b \in 0 .. n : Older(g)[b] = IF b = 0 THEN 0 ELSE g[b - 1]
        /\ \A b \in 0 .. n : Older(w)[b] = IF b = 0 THEN 0 ELSE w[b - 1]
    BY <1>0, <1>1, TotalOlder
  <2>3. Older(g)[a] <= Older(w)[a]
    BY <1>0, <1>1, <2>2
  <2>. QED
    BY <2>1, <2>3
<1>. QED
  BY <1>2, <1>3, <1>4 DEF ThrottleNext, PasswordLogin, OtherAttempt, gc, throttleVars

\* A step that adds no wrong password and no request about to compare.
LEMMA LockQuiet ==
    ASSUME ThrottleTypeOK, ThrottleTypeOK', WithinLock, NEW email \in Emails \ {OwnerEmail},
           Total(guesses'[email], 0 .. lockWindow) <= Total(guesses[email], 0 .. lockWindow),
           Comparing(email)' \subseteq Comparing(email)
    PROVE  Total(guesses'[email], 0 .. lockWindow) + Cardinality(Comparing(email)')
              <= maxFailures - 1 + Cardinality(Attempts)
<1>. DEFINE n == lockWindow + MaxLag
<1>1. PICK g \in [0 .. n -> Nat], h \in [0 .. n -> Nat] : g = guesses[email] /\ h = guesses'[email]
  BY AuditTypes DEF ThrottleTypeOK, AuditAges
<1>2. n \in Int
  BY AuditTypes
<1>. HIDE DEF n
<1>3. Total(g, 0 .. lockWindow) \in Nat /\ Total(h, 0 .. lockWindow) \in Nat
  BY <1>2, TotalType
<1>4. Cardinality(Comparing(email)') <= Cardinality(Comparing(email))
  BY ComparingFinite, FS_Subset
<1>5. Cardinality(Comparing(email)) \in Nat /\ Cardinality(Comparing(email)') \in Nat
      /\ Cardinality(Attempts) \in Nat
  BY ComparingFinite, ComparingFiniteNext
<1>6. Total(g, 0 .. lockWindow) + Cardinality(Comparing(email))
         <= maxFailures - 1 + Cardinality(Attempts)
  BY <1>1 DEF WithinLock
<1>. QED
  BY <1>1, <1>3, <1>4, <1>5, <1>6, ThrottleAssumption

\* Every step keeps every account but the owner's within the bound.
LEMMA NextWithinLock ==
    ThrottleTypeOK /\ ThrottleTypeOK' /\ Recorded /\ WithinLock /\ [ThrottleNext]_throttleVars
        => WithinLock'
<1>. SUFFICES ASSUME ThrottleTypeOK, ThrottleTypeOK', Recorded, WithinLock,
                     [ThrottleNext]_throttleVars,
                     NEW email \in Emails \ {OwnerEmail}
              PROVE  Total(guesses'[email], 0 .. lockWindow) + Cardinality(Comparing(email)')
                        <= maxFailures - 1 + Cardinality(Attempts)
  BY DEF WithinLock
<1>. DEFINE n == lockWindow + MaxLag
            Goal == Total(guesses'[email], 0 .. lockWindow) + Cardinality(Comparing(email)')
                        <= maxFailures - 1 + Cardinality(Attempts)
<1>1. PICK g \in [0 .. n -> Nat], w \in [0 .. n -> Nat] : g = guesses[email] /\ w = audits[email]
  BY AuditTypes
<1>2. n \in Int /\ 0 \in 0 .. n
  BY ThrottleAssumption
<1>. HIDE DEF n
<1>3. Total(g, 0 .. lockWindow) \in Nat
  BY <1>2, TotalType
<1>4. CASE UNCHANGED guesses /\ Comparing(email)' \subseteq Comparing(email)
  <2>1. Total(guesses'[email], 0 .. lockWindow) <= Total(guesses[email], 0 .. lockWindow)
    BY <1>1, <1>3, <1>4
  <2>. QED
    BY <1>4, <2>1, LockQuiet
<1>5. ASSUME NEW r \in Attempts, NEW pc \in {"lockout", "other"}, NEW e \in Emails,
             attempt[r].pc = "idle",
             attempt' \in {attempt, [attempt EXCEPT ![r] = [pc |-> pc, email |-> e]]},
             UNCHANGED guesses
      PROVE  Goal
  <2>1. Comparing(email)' \subseteq Comparing(email)
    BY <1>5 DEF Comparing, ThrottleTypeOK, Attempt
  <2>. QED
    BY <1>4, <1>5, <2>1
<1>6. ASSUME NEW r \in Attempts, attempt' = [attempt EXCEPT ![r] = Idle], UNCHANGED guesses
      PROVE  Goal
  <2>1. Comparing(email)' \subseteq Comparing(email)
    BY <1>6 DEF Comparing, ThrottleTypeOK, Idle
  <2>. QED
    BY <1>4, <1>6, <2>1
<1>7. ASSUME NEW r \in Attempts, NEW lag \in Lags, Lockout(r, lag)
      PROVE  Goal
  <2>1. UNCHANGED <<audits, guesses>> /\ attempt[r].email \in Emails
    BY <1>7 DEF Lockout, ThrottleTypeOK
  <2>2. CASE attempt' = [attempt EXCEPT ![r] = Idle]
    BY <1>6, <2>1, <2>2
  <2>3. CASE /\ attempt' = [attempt EXCEPT ![r] = [@ EXCEPT !.pc = "compare"]]
             /\ attempt[r].email # email
    <3>1. Comparing(email)' \subseteq Comparing(email)
      BY <2>3 DEF Comparing, ThrottleTypeOK
    <3>. QED
      BY <1>4, <2>1, <3>1
  <2>4. CASE RecentFailures(email, lag) < maxFailures
    <3>1. PICK S : S = 0 .. lockWindow + lag
      OBVIOUS
    <3>2. \A a \in (0 .. lockWindow) \cap (0 .. n) : a \in S /\ g[a] <= w[a]
      BY <1>1, <3>1, ThrottleAssumption DEF Recorded, AuditAges, Lags, n
    <3>3. Total(g, 0 .. lockWindow) <= Total(w, S)
      BY <1>2, <3>2, TotalMonotone
    <3>4. Total(w, S) \in Nat /\ Total(w, S) < maxFailures
      BY <1>1, <1>2, <2>4, <3>1, TotalType DEF RecentFailures
    <3>5. Cardinality(Comparing(email)') <= Cardinality(Attempts)
          /\ Cardinality(Comparing(email)') \in Nat /\ Cardinality(Attempts) \in Nat
      BY ComparingFinite, ComparingFiniteNext
    <3>6. guesses'[email] = g
      BY <1>1, <2>1
    <3>. QED
      BY <1>3, <3>3, <3>4, <3>5, <3>6, ThrottleAssumption
  <2>5. \/ attempt' = [attempt EXCEPT ![r] = Idle]
        \/ /\ attempt' = [attempt EXCEPT ![r] = [@ EXCEPT !.pc = "compare"]]
           /\ attempt[r].email # OwnerEmail => ~(RecentFailures(attempt[r].email, lag) >= maxFailures)
    BY <1>7 DEF Lockout
  <2>6. RecentFailures(email, lag) \in Nat
    BY <1>1, <1>2, TotalType DEF RecentFailures
  <2>. QED
    BY <2>2, <2>3, <2>4, <2>5, <2>6, ThrottleAssumption
<1>8. ASSUME NEW r \in Attempts, attempt[r].pc = "compare", attempt' = [attempt EXCEPT ![r] = Idle],
             guesses' = [guesses EXCEPT ![attempt[r].email] = Added(@, 0)]
      PROVE  Goal
  <2>1. CASE attempt[r].email # email
    <3>1. guesses'[email] = guesses[email] /\ Comparing(email)' \subseteq Comparing(email)
      BY <1>8, <2>1 DEF Comparing, ThrottleTypeOK, Idle
    <3>2. Total(guesses'[email], 0 .. lockWindow) <= Total(guesses[email], 0 .. lockWindow)
      BY <1>1, <1>3, <3>1
    <3>. QED
      BY <3>1, <3>2, LockQuiet
  <2>2. CASE attempt[r].email = email
    <3>1. PICK h : h = Added(g, 0)
      OBVIOUS
    <3>2. guesses'[email] = h
      BY <1>1, <1>8, <2>2, <3>1 DEF ThrottleTypeOK
    <3>3. Total(h, 0 .. lockWindow) <= Total(g, 0 .. lockWindow) + 1 /\ h \in [0 .. n -> Nat]
      BY <1>2, <3>1, TotalAdded
    <3>4. Total(h, 0 .. lockWindow) \in Nat
      BY <1>2, <3>3, TotalType
    <3>5. r \in Comparing(email) /\ Comparing(email)' = Comparing(email) \ {r}
      BY <1>8, <2>2 DEF Comparing, ThrottleTypeOK, Idle
    <3>6. Cardinality(Comparing(email)') = Cardinality(Comparing(email)) - 1
      BY <3>5, ComparingFinite, FS_RemoveElement
    <3>7. Cardinality(Comparing(email)) \in Nat /\ Cardinality(Attempts) \in Nat
      BY ComparingFinite
    <3>8. Total(g, 0 .. lockWindow) + Cardinality(Comparing(email))
             <= maxFailures - 1 + Cardinality(Attempts)
      BY <1>1 DEF WithinLock
    <3>. QED
      BY <1>3, <3>2, <3>3, <3>4, <3>6, <3>7, <3>8, ThrottleAssumption
  <2>. QED
    BY <2>1, <2>2
<1>9. ASSUME Elapse \/ Restart PROVE Goal
  <2>1. guesses'[email] = Older(g)
    BY <1>1, <1>9 DEF Elapse, Restart
  <2>2. Total(Older(g), 0 .. lockWindow) <= Total(g, 0 .. lockWindow)
    BY <1>2, TotalOlder, ThrottleAssumption
  <2>3. Comparing(email)' \subseteq Comparing(email)
    BY <1>9 DEF Comparing, Elapse, Restart, Idle
  <2>. QED
    BY <1>1, <2>1, <2>2, <2>3, LockQuiet
<1>10. ASSUME UNCHANGED <<attempt, guesses>> PROVE Goal
  BY <1>4, <1>10 DEF Comparing
<1>. HIDE DEF Goal
<1>11. ASSUME NEW r \in Attempts, Handler(r) PROVE Goal
  BY <1>6, <1>7, <1>8, <1>11
     DEF Handler, WrongPassword, RightPassword, OtherFailure, OtherSuccess
<1>12. ASSUME NEW r \in Attempts, NEW ip \in IPs, NEW e \in Emails, NEW lag \in Lags,
              \/ PasswordLogin(r, ip, e, lag)
              \/ \E kind \in Others : OtherAttempt(r, kind, ip, e, lag)
       PROVE  Goal
  BY <1>5, <1>12 DEF PasswordLogin, OtherAttempt
<1>13. Goal
  BY <1>9, <1>10, <1>11, <1>12 DEF ThrottleNext, gc, throttleVars
<1>. QED
  BY <1>13 DEF Goal

\* ThrottleInit establishes what the lockout needs.
LEMMA InitLock == ThrottleInit => Recorded /\ WithinLock
<1>. SUFFICES ASSUME ThrottleInit PROVE Recorded /\ WithinLock
  OBVIOUS
<1>1. Recorded
  BY DEF ThrottleInit, Recorded, NoAudits, AuditAges
<1>2. ASSUME NEW email \in Emails
      PROVE  Total(guesses[email], 0 .. lockWindow) + Cardinality(Comparing(email))
                <= maxFailures - 1 + Cardinality(Attempts)
  <2>. DEFINE n == lockWindow + MaxLag
  <2>1. n \in Int /\ NoAudits \in [0 .. n -> Nat] /\ \A a \in 0 .. n : NoAudits[a] = 0
    BY ThrottleAssumption DEF NoAudits, AuditAges
  <2>. HIDE DEF n
  <2>2. Total(NoAudits, 0 .. lockWindow) = 0
    BY <2>1, TotalNone
  <2>3. guesses[email] = NoAudits
    BY DEF ThrottleInit
  <2>. QED
    BY <2>2, <2>3, ComparingFinite, ThrottleAssumption
<1>. QED
  BY <1>1, <1>2 DEF WithinLock

\* The bound follows.
LEMMA LockImplies == ThrottleTypeOK /\ WithinLock => LockoutBound
<1>. SUFFICES ASSUME ThrottleTypeOK, WithinLock, NEW email \in Emails \ {OwnerEmail}
              PROVE  Total(guesses[email], 0 .. lockWindow) <= maxFailures - 1 + Cardinality(Attempts)
  BY DEF LockoutBound
<1>. DEFINE n == lockWindow + MaxLag
<1>1. PICK g \in [0 .. n -> Nat] : g = guesses[email]
  BY AuditTypes
<1>2. n \in Int
  BY AuditTypes
<1>. HIDE DEF n
<1>3. Total(g, 0 .. lockWindow) \in Nat
  BY <1>2, TotalType
<1>4. Total(g, 0 .. lockWindow) + Cardinality(Comparing(email))
         <= maxFailures - 1 + Cardinality(Attempts)
  BY <1>1 DEF WithinLock
<1>. QED
  BY <1>1, <1>3, <1>4, ComparingFinite, ThrottleAssumption

\* The lockout holds for any number of requests, any windows and any lag of the clock,
\* across restarts: at most maxFailures - 1 wrong passwords, and one for each request
\* that was already past the lock (PasswordLogin, RecentFailures).
THEOREM LockoutHolds == ThrottleSpec => []LockoutBound
BY InitBudgeted, NextTypeOK, InitLock, NextRecorded, NextWithinLock, LockImplies, PTL DEF ThrottleSpec

-----------------------------------------------------------------------------
(* EmailOTP *)

\* The stored code is the latest one; the attempts stored with it are the wrong
\* guesses made at it, it has some left and was not accepted; codes not created
\* yet were neither guessed at nor accepted.
Counted ==
    /\ otp # None => /\ otp.code = sent
                     /\ otp.attempts = tries[otp.code]
                     /\ otp.attempts < maxOTPAttempts
                     /\ accepted[otp.code] = 0
    /\ \A c \in Codes : c > sent => tries[c] = 0 /\ accepted[c] = 0

\* What is proved: the counts are right and the caps hold.
IInv == TypeOK /\ Counted /\ GuessesCapped /\ CodeWorksOnce

\* Init establishes the invariant.
LEMMA InitIInv == Init => IInv
BY EmailOTPAssumption
DEF Init, IInv, TypeOK, Counted, GuessesCapped, CodeWorksOnce, Codes, PCs

\* Steps that leave the counts alone and keep the code, or drop it.
LEMMA QuietStep ==
    ASSUME IInv, UNCHANGED <<sent, tries, accepted>>, otp' \in {otp, None}, TypeOK'
    PROVE  IInv'
BY DEF IInv, Counted, GuessesCapped, CodeWorksOnce, Codes

\* Every step preserves the invariant.
LEMMA NextIInv == IInv /\ [Next]_vars => IInv'
<1>. SUFFICES ASSUME IInv, [Next]_vars PROVE IInv'
  OBVIOUS
<1>. USE EmailOTPAssumption
<1>1. ASSUME NEW r \in Requests, EmailOTPSend(r) \/ EmailOTPLogin(r) PROVE IInv'
  <2>1. TypeOK'
    BY <1>1 DEF EmailOTPSend, EmailOTPLogin, IInv, TypeOK, PCs
  <2>. QED
    BY <1>1, <2>1, QuietStep DEF EmailOTPSend, EmailOTPLogin
<1>2. ASSUME NEW r \in Requests, EmailOTPCreate(r) PROVE IInv'
  <2>1. sent' = sent + 1 /\ sent' \in Codes /\ sent \in Nat /\ UNCHANGED <<tries, accepted>>
    BY <1>2 DEF EmailOTPCreate, IInv, TypeOK, Codes
  <2>2. otp' = [code |-> sent', attempts |-> 0, exp |-> now + ttlEmailOTP]
    BY <1>2 DEF EmailOTPCreate, CreateEmailOTP
  <2>3. otp' \in OTP /\ otp'.code = sent' /\ otp'.attempts = 0
    BY <2>1, <2>2 DEF OTP, IInv, TypeOK
  <2>4. TypeOK'
    BY <1>2, <2>1, <2>3 DEF EmailOTPCreate, IInv, TypeOK, PCs, Codes
  <2>5. tries[sent'] = 0 /\ accepted[sent'] = 0
    BY <2>1 DEF IInv, Counted
  <2>6. Counted'
    BY <2>1, <2>3, <2>5 DEF IInv, Counted, Codes
  <2>. QED
    BY <2>1, <2>4, <2>6 DEF IInv, GuessesCapped, CodeWorksOnce
<1>3. ASSUME NEW r \in Requests, NEW guess \in 0 .. sent, EmailOTPVerify(r, guess)
      PROVE  IInv'
  <2>. DEFINE c == otp.code
  <2>1. /\ otp # None /\ otp \in OTP /\ c \in Codes /\ c = sent
        /\ otp.attempts = tries[c] /\ tries[c] \in Nat /\ tries[c] < maxOTPAttempts
        /\ accepted[c] = 0
    BY <1>3 DEF EmailOTPVerify, IInv, TypeOK, Counted, OTP
  <2>2. UNCHANGED <<now, user, sent>>
    BY <1>3 DEF EmailOTPVerify
  <2>3. CASE otp' = None /\ UNCHANGED <<req, tries, accepted>>
    <3>1. TypeOK'
      BY <2>2, <2>3 DEF IInv, TypeOK
    <3>. QED
      BY <2>2, <2>3, <3>1, QuietStep
  <2>4. CASE /\ guess = otp.code
             /\ Consume
             /\ accepted' = [accepted EXCEPT ![guess] = @ + 1]
             /\ req' = [req EXCEPT ![r] = "login"]
             /\ UNCHANGED tries
    <3>1. otp' = None /\ accepted'[c] = 1 /\ \A d \in Codes \ {c} : accepted'[d] = accepted[d]
      BY <2>1, <2>4 DEF Consume, IInv, TypeOK
    <3>2. TypeOK'
      BY <2>1, <2>2, <2>4, <3>1 DEF IInv, TypeOK, PCs
    <3>3. Counted'
      BY <2>1, <2>2, <2>4, <3>1 DEF IInv, Counted, Codes, TypeOK
    <3>4. CodeWorksOnce'
      BY <2>1, <2>4, <3>1 DEF IInv, CodeWorksOnce
    <3>. QED
      BY <2>4, <3>2, <3>3, <3>4 DEF IInv, GuessesCapped
  <2>5. CASE /\ tries' = [tries EXCEPT ![otp.code] = @ + 1]
             /\ otp' = IF LastAttempt THEN None ELSE [otp EXCEPT !.attempts = @ + 1]
             /\ UNCHANGED <<req, accepted>>
    <3>1. tries'[c] = tries[c] + 1 /\ \A d \in Codes \ {c} : tries'[d] = tries[d]
      BY <2>1, <2>5 DEF IInv, TypeOK
    <3>2. /\ otp' \in OTP \cup {None}
          /\ otp' # None => /\ otp'.code = c /\ otp'.attempts = tries'[c]
                            /\ tries'[c] < maxOTPAttempts
      BY <2>1, <2>5, <3>1 DEF LastAttempt, OTP
    <3>3. TypeOK'
      BY <2>1, <2>2, <2>5, <3>2 DEF IInv, TypeOK
    <3>4. Counted'
      BY <2>1, <2>2, <2>5, <3>1, <3>2 DEF IInv, Counted, Codes, TypeOK
    <3>5. GuessesCapped'
      BY <2>1, <3>1 DEF IInv, GuessesCapped
    <3>6. CodeWorksOnce'
      BY <2>1, <2>5, <3>1 DEF IInv, CodeWorksOnce
    <3>. QED
      BY <3>3, <3>4, <3>5, <3>6 DEF IInv
  <2>. QED
    BY <1>3, <2>3, <2>4, <2>5 DEF EmailOTPVerify
<1>4. CASE SetBlocked \/ DeleteUser \/ CreateLocalUser \/ Tick
  <2>1. TypeOK'
    BY <1>4 DEF SetBlocked, DeleteUser, CreateLocalUser, Tick, IInv, TypeOK
  <2>. QED
    BY <1>4, <2>1, QuietStep DEF SetBlocked, DeleteUser, CreateLocalUser, Tick
<1>5. CASE UNCHANGED vars
  <2>1. TypeOK'
    BY <1>5 DEF vars, IInv, TypeOK
  <2>. QED
    BY <1>5, <2>1, QuietStep DEF vars
<1>. QED
  BY <1>1, <1>2, <1>3, <1>4, <1>5 DEF Next

\* The attempt cap, and types, for every number of concurrent requests and every schedule
\* of sends and guesses (VerifyEmailOTP).
THEOREM CodesAreCapped == Spec => [](TypeOK /\ GuessesCapped)
<1>1. IInv => TypeOK /\ GuessesCapped
  BY DEF IInv
<1>. QED
  BY <1>1, InitIInv, NextIInv, PTL DEF Spec

\* A code signs in at most once, and not after it was guessed to death, for every number
\* of concurrent requests (VerifyEmailOTP).
THEOREM CodesSignInOnce == Spec => []CodeWorksOnce
<1>1. IInv => CodeWorksOnce
  BY DEF IInv
<1>. QED
  BY <1>1, InitIInv, NextIInv, PTL DEF Spec

\* No code dies before its time: the action property holds at every step.
THEOREM CodesLast == Spec => NotBurnedEarly
<1>1. ASSUME IInv, [Next]_vars
      PROVE  [otp # None /\ otp' = None
                 => \/ now > otp.exp
                    \/ accepted' # accepted
                    \/ tries'[otp.code] = maxOTPAttempts
                    \/ user' = "gone"]_vars
  <2>. SUFFICES ASSUME otp # None, otp' = None, Next
                PROVE  \/ now > otp.exp
                       \/ accepted' # accepted
                       \/ tries'[otp.code] = maxOTPAttempts
                       \/ user' = "gone"
    BY <1>1 DEF vars
  <2>1. /\ otp \in OTP /\ otp.code \in Codes
        /\ otp.attempts = tries[otp.code] /\ otp.attempts < maxOTPAttempts
        /\ otp.attempts \in Nat
    BY <1>1 DEF IInv, TypeOK, Counted, OTP
  <2>2. ASSUME NEW r \in Requests, NEW guess \in 0 .. sent, EmailOTPVerify(r, guess)
        PROVE  \/ now > otp.exp
               \/ accepted' # accepted
               \/ tries'[otp.code] = maxOTPAttempts
    <3>1. CASE guess = otp.code /\ accepted' = [accepted EXCEPT ![guess] = @ + 1]
      <4>1. accepted[guess] \in Nat /\ accepted'[guess] = accepted[guess] + 1
        BY <1>1, <2>1, <3>1 DEF IInv, TypeOK
      <4>. QED
        BY <4>1
    <3>2. CASE /\ tries' = [tries EXCEPT ![otp.code] = @ + 1]
               /\ otp' = IF LastAttempt THEN None ELSE [otp EXCEPT !.attempts = @ + 1]
      <4>1. tries'[otp.code] = otp.attempts + 1
        BY <1>1, <2>1, <3>2 DEF IInv, TypeOK
      <4>2. [otp EXCEPT !.attempts = @ + 1] \in OTP
        BY <2>1 DEF OTP
      <4>3. LastAttempt
        BY <3>2, <4>2, NoneAssumption
      <4>. QED
        BY <2>1, <4>1, <4>3, EmailOTPAssumption DEF LastAttempt
    <3>. QED
      BY <2>2, <3>1, <3>2 DEF EmailOTPVerify
  <2>3. ASSUME NEW r \in Requests, EmailOTPCreate(r) PROVE FALSE
    <3>1. otp' \in OTP
      BY <1>1, <2>3, EmailOTPAssumption
         DEF EmailOTPCreate, CreateEmailOTP, IInv, TypeOK, OTP, Codes
    <3>. QED
      BY <3>1, NoneAssumption
  <2>. QED
    BY <2>2, <2>3 DEF Next, EmailOTPSend, EmailOTPLogin, SetBlocked, DeleteUser,
                      CreateLocalUser, Tick
<1>. QED
  BY <1>1, InitIInv, NextIInv, PTL DEF Spec, NotBurnedEarly
=============================================================================
