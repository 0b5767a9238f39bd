-------------------------- MODULE RateLimitProofs --------------------------
(***************************************************************************)
(* Proofs about the login limiter, for any addresses, accounts, limits and *)
(* window, any size of the map and any number of logins.                   *)
(***************************************************************************)
EXTENDS RateLimit, FiniteSetTheorems, TLAPS

IsWindow(w) ==
  /\ w = [count |-> w.count, resetAt |-> w.resetAt, limit |-> w.limit, place |-> w.place]
  /\ w.count \in Nat /\ w.resetAt \in Nat

\* What hit finds and leaves: a bounded map of windows, each under its key's limit.
IsMap(b) ==
  /\ b = [k \in DOMAIN b |-> b[k]]
  /\ DOMAIN b \subseteq Keys
  /\ \A k \in DOMAIN b : IsWindow(b[k]) /\ b[k].limit = Limit(k)
  /\ IsFiniteSet(DOMAIN b)
  /\ Cardinality(DOMAIN b) <= MAX_TRACKED_KEYS

\* A key refused until some time has a spent window that ends then.
Holds(b, k, until) == Refused(b, k) /\ b[k].resetAt = until

LimiterInv ==
  /\ now \in Nat
  /\ refusedUntil \in [Keys -> Nat]
  /\ IsMap(buckets)
  /\ \A k \in Keys : refusedUntil[k] > now => Holds(buckets, k, refusedUntil[k])

LEMMA LimitIsNat == ASSUME NEW k \in Keys PROVE Limit(k) \in Nat \ {0}
  BY LimitAssumption DEF Limit

\* Keeping some of a map's keys keeps it a map.
LEMMA TracksMap ==
  ASSUME NEW b, IsMap(b), NEW S, S \subseteq DOMAIN b
  PROVE  IsMap(Tracks(b, S)) /\ DOMAIN Tracks(b, S) = S
         /\ \A k \in S : Tracks(b, S)[k] = b[k]
<1>1. DOMAIN Tracks(b, S) = S /\ \A k \in S : Tracks(b, S)[k] = b[k]
  BY DEF Tracks
<1>2. IsFiniteSet(S) /\ Cardinality(S) <= Cardinality(DOMAIN b)
  BY FS_Subset DEF IsMap
<1>3. Cardinality(S) <= MAX_TRACKED_KEYS
  <2>1. Cardinality(S) \in Nat /\ Cardinality(DOMAIN b) \in Nat
    BY <1>2, FS_CardinalityType DEF IsMap
  <2> QED
    BY <1>2, <2>1, LimitAssumption DEF IsMap
<1>4. Tracks(b, S) = [k \in S |-> Tracks(b, S)[k]]
  BY DEF Tracks
<1> QED
  BY <1>1, <1>2, <1>3, <1>4 DEF IsMap

\* Making room keeps every live bucket that has spent its allowance.
LEMMA MakesRoomKeeps ==
  ASSUME NEW b, IsMap(b)
  PROVE  /\ IsMap(MakesRoom(b))
         /\ DOMAIN MakesRoom(b) \subseteq DOMAIN b
         /\ \A k \in DOMAIN MakesRoom(b) : MakesRoom(b)[k] = b[k]
         /\ \A k \in Live(b) : Spent(b, k) => k \in DOMAIN MakesRoom(b)
<1>1. /\ IsMap(Swept(b))
      /\ DOMAIN Swept(b) \subseteq DOMAIN b
      /\ \A k \in DOMAIN Swept(b) : Swept(b)[k] = b[k]
      /\ \A k \in Live(b) : k \in DOMAIN Swept(b)
  <2>1. Live(b) \subseteq DOMAIN b
    BY DEF Live
  <2>2. CASE IsFull(b)
    <3>1. /\ IsMap(Tracks(b, Live(b))) /\ DOMAIN Tracks(b, Live(b)) = Live(b)
          /\ \A k \in Live(b) : Tracks(b, Live(b))[k] = b[k]
      BY <2>1, TracksMap
    <3> QED
      BY <2>1, <2>2, <3>1 DEF Swept
  <2>3. CASE ~IsFull(b)
    BY <2>1, <2>3 DEF Swept
  <2> QED
    BY <2>2, <2>3
<1> DEFINE s == Swept(b)
           kept == DOMAIN Evicted(s)
<1>2. PICK S \in SUBSET DOMAIN s : /\ Evicted(s) = Tracks(s, S)
                                   /\ DOMAIN s \ S \subseteq MayBeDropped(s)
  <2> DEFINE Dropped == {k \in MayBeDropped(s) :
                           Cardinality({j \in MayBeDropped(s) : s[j].place < s[k].place})
                             < Cardinality(DOMAIN s) - MAX_TRACKED_KEYS + 1}
  <2>1. Evicted(s) = Tracks(s, DOMAIN s \ Dropped)
    BY DEF Evicted
  <2>2. DOMAIN s \ Dropped \in SUBSET DOMAIN s
    OBVIOUS
  <2>3. DOMAIN s \ (DOMAIN s \ Dropped) \subseteq MayBeDropped(s)
    OBVIOUS
  <2> QED
    BY <2>1, <2>2, <2>3
<1>3. /\ IsMap(Tracks(s, S)) /\ DOMAIN Tracks(s, S) = S
      /\ \A k \in S : Tracks(s, S)[k] = s[k]
  BY <1>1, <1>2, TracksMap
<1>4. ASSUME NEW k \in Live(b), Spent(b, k) PROVE k \in S
  <2>1. k \in DOMAIN s /\ s[k] = b[k]
    BY <1>1
  <2>2. k \notin MayBeDropped(s)
    BY <1>4, <2>1 DEF MayBeDropped, Spent
  <2> QED
    BY <1>2, <2>1, <2>2
<1>5. MakesRoom(b) = Tracks(s, S)
  BY <1>2 DEF MakesRoom
<1> QED
  BY <1>1, <1>2, <1>3, <1>4, <1>5

\* Opening a window in a map with room for it keeps the other buckets.
LEMMA OpenedMap ==
  ASSUME now \in Nat, NEW b, IsMap(b), ~IsFull(b), NEW k \in Keys
  PROVE  IsMap(Opened(b, k)) /\ \A j \in DOMAIN b \ {k} : Opened(b, k)[j] = b[j]
<1> DEFINE o == Opened(b, k)
           w == [count |-> 1, resetAt |-> now + WindowMs, limit |-> Limit(k),
                 place |-> IF k \in DOMAIN b THEN b[k].place ELSE NextPlace(b)]
<1>1. o = [j \in DOMAIN b \cup {k} |-> IF j = k THEN w ELSE b[j]]
  BY DEF Opened
<1> HIDE DEF o
<1>2. DOMAIN o = DOMAIN b \cup {k} /\ o[k] = w /\ \A j \in DOMAIN b \ {k} : o[j] = b[j]
  BY <1>1
<1>3. IsWindow(w) /\ w.limit = Limit(k)
  BY LimitAssumption DEF IsWindow
<1> HIDE DEF w
<1>4. \A j \in DOMAIN o : IsWindow(o[j]) /\ o[j].limit = Limit(j)
  BY <1>2, <1>3 DEF IsMap
<1>5. IsFiniteSet(DOMAIN o) /\ Cardinality(DOMAIN o) <= MAX_TRACKED_KEYS
  <2>1. IsFiniteSet(DOMAIN b)
    BY DEF IsMap
  <2>2. /\ IsFiniteSet(DOMAIN b \cup {k})
        /\ Cardinality(DOMAIN b \cup {k}) =
             IF k \in DOMAIN b THEN Cardinality(DOMAIN b) ELSE Cardinality(DOMAIN b) + 1
    BY <2>1, FS_AddElement
  <2>3. Cardinality(DOMAIN b) \in Nat
    BY <2>1, FS_CardinalityType
  <2>4. Cardinality(DOMAIN b) < MAX_TRACKED_KEYS
    BY <2>3, LimitAssumption DEF IsFull
  <2> QED
    BY <1>2, <2>2, <2>3, <2>4, LimitAssumption
<1>6. o = [j \in DOMAIN o |-> o[j]]
  BY <1>1
<1>7. DOMAIN o \subseteq Keys
  BY <1>2 DEF IsMap
<1> QED
  BY <1>2, <1>4, <1>5, <1>6, <1>7 DEF IsMap, o

\* Counting changes the count of one bucket and nothing else.
LEMMA CountsMap ==
  ASSUME NEW b, IsMap(b), NEW k \in DOMAIN b
  PROVE  /\ IsMap(Counts(b, k))
         /\ DOMAIN Counts(b, k) = DOMAIN b
         /\ \A j \in DOMAIN b \ {k} : Counts(b, k)[j] = b[j]
         /\ Counts(b, k)[k].count = b[k].count + 1
         /\ Counts(b, k)[k].resetAt = b[k].resetAt
<1> DEFINE c == Counts(b, k)
           w == [count |-> b[k].count + 1, resetAt |-> b[k].resetAt,
                 limit |-> Limit(k), place |-> b[k].place]
<1>1. IsWindow(b[k]) /\ k \in Keys
  BY DEF IsMap
<1>2. w.count = b[k].count + 1 /\ w.resetAt = b[k].resetAt
  OBVIOUS
<1>3. c = [b EXCEPT ![k] = w]
  BY DEF Counts
<1> HIDE DEF c
<1>4. /\ DOMAIN c = DOMAIN b /\ c[k] = w
      /\ \A j \in DOMAIN b \ {k} : c[j] = b[j]
      /\ c = [j \in DOMAIN c |-> c[j]]
  BY <1>3
<1>5. IsWindow(w) /\ w.limit = Limit(k)
  BY <1>1 DEF IsWindow
<1>6. \A j \in DOMAIN c : IsWindow(c[j]) /\ c[j].limit = Limit(j)
  BY <1>4, <1>5 DEF IsMap
<1>7. IsMap(c)
  BY <1>4, <1>6 DEF IsMap
<1> QED
  BY <1>2, <1>4, <1>7 DEF c

\* One call of hit leaves a map, and releases nobody who is refused.
LEMMA HitKeeps ==
  ASSUME now \in Nat, NEW b, IsMap(b), NEW k \in Keys
  PROVE  /\ IsMap(Hit(b, k))
         /\ \A j \in Keys, until \in Nat : Holds(b, j, until) => Holds(Hit(b, k), j, until)
<1>1. CASE k \in Live(b)
  <2>1. k \in DOMAIN b /\ Hit(b, k) = Counts(b, k)
    BY <1>1 DEF Hit, Live
  <2>2. /\ IsMap(Counts(b, k))
        /\ DOMAIN Counts(b, k) = DOMAIN b
        /\ \A j \in DOMAIN b \ {k} : Counts(b, k)[j] = b[j]
        /\ Counts(b, k)[k].count = b[k].count + 1
        /\ Counts(b, k)[k].resetAt = b[k].resetAt
    BY <2>1, CountsMap
  <2>3. ASSUME NEW j \in Keys, NEW until \in Nat, Holds(b, j, until)
        PROVE  Holds(Counts(b, k), j, until)
    <3>1. j \in DOMAIN b /\ b[j].resetAt > now /\ b[j].count + 1 > Limit(j) /\ b[j].resetAt = until
      BY <2>3 DEF Holds, Refused, Live
    <3>2. b[j].count \in Nat /\ Limit(j) \in Nat
      BY <3>1, LimitIsNat DEF IsMap, IsWindow
    <3>3. Counts(b, k)[j].resetAt = b[j].resetAt /\ Counts(b, k)[j].count + 1 > Limit(j)
      BY <2>2, <3>1, <3>2
    <3> QED
      BY <2>2, <3>1, <3>3 DEF Holds, Refused, Live
  <2> QED
    BY <2>1, <2>2, <2>3
<1>2. CASE k \notin Live(b)
  <2> DEFINE r == MakesRoom(b)
  <2>1. Hit(b, k) = Opens(b, k)
    BY <1>2 DEF Hit
  <2>2. /\ IsMap(r)
        /\ DOMAIN r \subseteq DOMAIN b
        /\ \A j \in DOMAIN r : r[j] = b[j]
        /\ \A j \in Live(b) : Spent(b, j) => j \in DOMAIN r
    BY MakesRoomKeeps
  <2> HIDE DEF r
  <2>3. ASSUME NEW j \in Keys, NEW until \in Nat, Holds(b, j, until)
        PROVE  j # k /\ j \in DOMAIN r /\ Holds(r, j, until)
    <3>1. /\ j \in Live(b) /\ j \in DOMAIN b /\ b[j].resetAt > now
          /\ b[j].count + 1 > Limit(j) /\ b[j].resetAt = until
      BY <2>3 DEF Holds, Refused, Live
    <3>2. b[j].count \in Nat /\ Limit(j) \in Nat /\ b[j].limit = Limit(j)
      BY <3>1, LimitIsNat DEF IsMap, IsWindow
    <3>3. Spent(b, j)
      BY <3>1, <3>2 DEF Spent
    <3>4. j \in DOMAIN r /\ r[j] = b[j]
      BY <2>2, <3>1, <3>3
    <3> QED
      BY <1>2, <3>1, <3>4 DEF Holds, Refused, Live
  <2>4. CASE IsFull(r)
    BY <2>1, <2>2, <2>3, <2>4 DEF Opens, r
  <2>5. CASE ~IsFull(r)
    <3>1. IsMap(Opened(r, k)) /\ \A j \in DOMAIN r \ {k} : Opened(r, k)[j] = r[j]
      BY <2>2, <2>5, OpenedMap
    <3>2. ASSUME NEW j \in Keys, NEW until \in Nat, Holds(b, j, until)
          PROVE  Holds(Opened(r, k), j, until)
      <4>1. j # k /\ j \in DOMAIN r /\ Holds(r, j, until)
        BY <2>3, <3>2
      <4>2. Opened(r, k)[j] = r[j] /\ j \in DOMAIN Opened(r, k)
        BY <3>1, <4>1 DEF Opened
      <4> QED
        BY <4>1, <4>2 DEF Holds, Refused, Live
    <3> QED
      BY <2>1, <2>5, <3>1, <3>2 DEF Opens, r
  <2> QED
    BY <2>4, <2>5
<1> QED
  BY <1>1, <1>2

LEMMA InitLimiterInv == Init => LimiterInv
<1> SUFFICES ASSUME Init PROVE LimiterInv
  OBVIOUS
<1>1. DOMAIN buckets = {} /\ buckets = [k \in DOMAIN buckets |-> buckets[k]]
  BY DEF Init
<1>2. IsFiniteSet({}) /\ Cardinality({}) = 0
  BY FS_EmptySet
<1>3. IsMap(buckets)
  BY <1>1, <1>2, LimitAssumption DEF IsMap
<1> QED
  BY <1>3 DEF Init, LimiterInv

LEMMA LoginKeeps ==
  ASSUME LimiterInv, NEW i \in Addresses, NEW e \in Accounts, Login(i, e)
  PROVE  LimiterInv'
<1> DEFINE ip == IpKey(i)
           email == EmailKey(e)
           one == Hit(buckets, ip)
           two == Hit(one, email)
           refuses == {k \in {ip} : Refused(buckets, k)} \cup {k \in {email} : Refused(one, k)}
<1>1. now' = now /\ buckets' = two
  BY DEF Login
<1>2. refusedUntil' = [k \in Keys |-> IF k \in refuses THEN one[k].resetAt ELSE refusedUntil[k]]
  BY <1>1 DEF Login
<1>3. ip \in Keys /\ email \in Keys
  BY DEF Keys
<1>4. now \in Nat /\ IsMap(buckets)
  BY DEF LimiterInv
<1>5. /\ IsMap(one)
      /\ \A j \in Keys, until \in Nat : Holds(buckets, j, until) => Holds(one, j, until)
  BY <1>3, <1>4, HitKeeps
<1>6. /\ IsMap(two)
      /\ \A j \in Keys, until \in Nat : Holds(one, j, until) => Holds(two, j, until)
  BY <1>3, <1>4, <1>5, HitKeeps
<1> HIDE DEF one, two
<1>7. ASSUME NEW b, IsMap(b), NEW k \in Keys, Refused(b, k)
      PROVE  b[k].resetAt \in Nat /\ Holds(b, k, b[k].resetAt)
  BY <1>7 DEF IsMap, IsWindow, Refused, Live, Holds
<1>8. ASSUME NEW k \in refuses PROVE one[k].resetAt \in Nat /\ Holds(two, k, one[k].resetAt)
  <2>1. PICK until \in Nat : Holds(one, k, until)
    <3>1. CASE k = ip /\ Refused(buckets, ip)
      BY <1>3, <1>4, <1>5, <1>7, <3>1
    <3>2. CASE k = email /\ Refused(one, email)
      BY <1>3, <1>5, <1>7, <3>2
    <3> QED
      BY <1>8, <3>1, <3>2
  <2>2. k \in Keys
    BY <1>3, <1>8
  <2>3. Holds(two, k, until)
    BY <1>6, <2>1, <2>2
  <2> QED
    BY <2>1, <2>3 DEF Holds
<1> HIDE DEF refuses, ip, email
<1>9. refusedUntil' \in [Keys -> Nat]
  BY <1>2, <1>8 DEF LimiterInv
<1>10. ASSUME NEW k \in Keys, refusedUntil'[k] > now PROVE Holds(two, k, refusedUntil'[k])
  <2>1. CASE k \in refuses
    BY <1>2, <1>8, <2>1
  <2>2. CASE k \notin refuses
    <3>1. refusedUntil'[k] = refusedUntil[k] /\ refusedUntil[k] \in Nat
      BY <1>2, <2>2 DEF LimiterInv
    <3>2. Holds(buckets, k, refusedUntil[k])
      BY <1>10, <3>1 DEF LimiterInv
    <3> QED
      BY <1>5, <1>6, <3>1, <3>2
  <2> QED
    BY <2>1, <2>2
<1> QED
  BY <1>1, <1>4, <1>6, <1>9, <1>10 DEF LimiterInv, IsMap, Holds, Refused, Live, IsWindow

LEMMA NextLimiterInv == LimiterInv /\ [Next]_vars => LimiterInv'
<1> SUFFICES ASSUME LimiterInv, [Next]_vars PROVE LimiterInv'
  OBVIOUS
<1>1. ASSUME NEW i \in Addresses, NEW e \in Accounts, Login(i, e) PROVE LimiterInv'
  BY <1>1, LoginKeeps
<1>2. ASSUME NEW e \in Accounts, RightPassword(e) PROVE LimiterInv'
  <2> DEFINE email == EmailKey(e)
             S == DOMAIN buckets \ {email}
  <2>1. now' = now /\ buckets' = Tracks(buckets, S)
    BY <1>2 DEF RightPassword, Forget
  <2>2. refusedUntil' = [refusedUntil EXCEPT ![email] = 0]
    BY <1>2 DEF RightPassword
  <2>3. /\ IsMap(Tracks(buckets, S)) /\ DOMAIN Tracks(buckets, S) = S
        /\ \A k \in S : Tracks(buckets, S)[k] = buckets[k]
    <3>1. IsMap(buckets) /\ S \subseteq DOMAIN buckets
      BY DEF LimiterInv
    <3> QED
      BY <3>1, TracksMap
  <2>4. IsMap(buckets)'
    BY <2>1, <2>3 DEF IsMap, IsWindow
  <2>5. ASSUME NEW k \in Keys, refusedUntil'[k] > now
        PROVE  Holds(buckets', k, refusedUntil'[k])
    <3>1. k # email /\ refusedUntil'[k] = refusedUntil[k]
      BY <2>2, <2>5 DEF LimiterInv
    <3>2. Holds(buckets, k, refusedUntil[k])
      BY <2>5, <3>1 DEF LimiterInv
    <3>3. k \in S
      BY <3>1, <3>2 DEF Holds, Refused, Live
    <3> QED
      BY <2>1, <2>3, <3>1, <3>2, <3>3 DEF Holds, Refused, Live
  <2>6. refusedUntil' \in [Keys -> Nat]
    BY <2>2 DEF LimiterInv
  <2> QED
    BY <2>1, <2>4, <2>5, <2>6 DEF LimiterInv, Holds, Refused, Live
<1>3. ASSUME NEW e \in Accounts, WrongPassword(e) PROVE LimiterInv'
  BY <1>3 DEF WrongPassword, LimiterInv, IsMap, IsWindow, Holds, Refused, Live
<1>4. CASE Tick
  <2>1. now' = now + 1 /\ buckets' = buckets /\ refusedUntil' = refusedUntil
    BY <1>4 DEF Tick
  <2>2. ASSUME NEW k \in Keys, refusedUntil[k] > now'
        PROVE  Refused(buckets, k)' /\ buckets[k].resetAt = refusedUntil[k]
    <3>1. refusedUntil[k] \in Nat /\ now \in Nat
      BY DEF LimiterInv
    <3>2. Holds(buckets, k, refusedUntil[k])
      BY <2>1, <2>2, <3>1 DEF LimiterInv
    <3> QED
      BY <2>1, <2>2, <3>2 DEF Holds, Refused, Live
  <2> QED
    BY <2>1, <2>2 DEF LimiterInv, IsMap, IsWindow, Holds
<1>5. CASE UNCHANGED vars
  BY <1>5 DEF vars, LimiterInv, IsMap, IsWindow, Holds, Refused, Live
<1> QED
  BY <1>1, <1>2, <1>3, <1>4, <1>5 DEF Next

\* The map is bounded, every bucket is under its key's limit, and a key that is
\* refused has a spent window that ends when its refusal does.
THEOREM LimiterInvariant == Spec => []LimiterInv
  BY InitLimiterInv, NextLimiterInv, PTL DEF Spec

\* The eviction of hit bounds the map whatever keys arrive.
THEOREM MapStaysBounded == Spec => []MapIsBounded
<1>1. LimiterInv => MapIsBounded
  BY DEF LimiterInv, IsMap, MapIsBounded
<1> QED
  BY <1>1, LimiterInvariant, PTL

\* Whoever was refused stays refused until their window ends or, for an account,
\* its password was right: no flood of other keys evicts a spent bucket.
THEOREM NobodyIsReleased == Spec => []RefusedStaysRefused
<1>1. LimiterInv => RefusedStaysRefused
  BY DEF LimiterInv, Holds, RefusedStaysRefused
<1> QED
  BY <1>1, LimiterInvariant, PTL

-----------------------------------------------------------------------------
(* What a count is made of.                                                *)

\* The hits on a key that fall into a window that ends then.
Since(H, until) == {h \in H : h.at + WindowMs >= until}

\* The history of one key: finitely many hits, none of the future, and those of
\* now numbered from 0.
IsHistory(H) ==
  /\ IsFiniteSet(H)
  /\ \A h \in H : h \in [at : Nat, no : Nat] /\ h.at <= now
  /\ \A h \in H : h.at = now => h.no < Cardinality({g \in H : g.at = now})

\* A live window was opened within its length, and each of its counts was heard.
Earned(w, H) ==
  w.resetAt > now =>
    w.resetAt <= now + WindowMs /\ w.count <= Cardinality(Since(H, w.resetAt))

HistoryInv ==
  /\ \A k \in Keys : IsHistory(heard[k])
  /\ \A k \in DOMAIN buckets : Earned(buckets[k], heard[k])

LEMMA SinceCounts ==
  ASSUME NEW H, IsFiniteSet(H), NEW until
  PROVE  /\ IsFiniteSet(Since(H, until))
         /\ Cardinality(Since(H, until)) \in Nat
         /\ Cardinality(Since(H, until)) <= Cardinality(H)
  BY FS_Subset, FS_CardinalityType DEF Since

\* Another hit is a new one, and counts for every window that is still open.
LEMMA OneMoreHit ==
  ASSUME now \in Nat, NEW H, IsHistory(H),
         NEW h, h = [at |-> now, no |-> Cardinality({g \in H : g.at = now})]
  PROVE  /\ IsHistory(H \cup {h})
         /\ \A until \in Nat : until <= now + WindowMs =>
              Cardinality(Since(H \cup {h}, until)) = Cardinality(Since(H, until)) + 1
<1> DEFINE N == {g \in H : g.at = now}
           M == {g \in H \cup {h} : g.at = now}
<1>1. IsFiniteSet(H) /\ IsFiniteSet(N) /\ Cardinality(N) \in Nat
  BY FS_Subset, FS_CardinalityType DEF IsHistory
<1>2. h.at = now /\ h.no = Cardinality(N) /\ h \in [at : Nat, no : Nat]
  BY <1>1
<1>3. h \notin H
  BY <1>1, <1>2 DEF IsHistory
<1>4. M = N \cup {h}
  BY <1>2
<1>5. Cardinality(M) = Cardinality(N) + 1
  <2>1. h \notin N
    BY <1>3
  <2> HIDE DEF N, M
  <2> QED
    BY <1>1, <1>4, <2>1, FS_AddElement
<1>6. IsHistory(H \cup {h})
  <2>1. IsFiniteSet(H \cup {h})
    BY <1>1, FS_AddElement
  <2>2. ASSUME NEW g \in H \cup {h}
        PROVE  /\ g \in [at : Nat, no : Nat] /\ g.at <= now
               /\ g.at = now => g.no < Cardinality(M)
    BY <1>1, <1>2, <1>5 DEF IsHistory
  <2> QED
    BY <2>1, <2>2 DEF IsHistory
<1>7. ASSUME NEW until \in Nat, until <= now + WindowMs
      PROVE  Cardinality(Since(H \cup {h}, until)) = Cardinality(Since(H, until)) + 1
  <2>1. Since(H \cup {h}, until) = Since(H, until) \cup {h}
    BY <1>2, <1>7 DEF Since
  <2>2. IsFiniteSet(Since(H, until)) /\ h \notin Since(H, until)
    BY <1>1, <1>3, SinceCounts DEF Since
  <2> QED
    BY <2>1, <2>2, FS_AddElement
<1> QED
  BY <1>6, <1>7

\* What one call of hit makes of each bucket.
LEMMA HitFinds ==
  ASSUME now \in Nat, NEW b, IsMap(b), NEW k \in Keys, NEW j \in DOMAIN Hit(b, k)
  PROVE  \/ /\ j \in DOMAIN b /\ Hit(b, k)[j] = b[j]
            /\ j # k \/ b[j].resetAt <= now
         \/ /\ j = k /\ k \in Live(b)
            /\ Hit(b, k)[j].count = b[k].count + 1 /\ Hit(b, k)[j].resetAt = b[k].resetAt
         \/ j = k /\ Hit(b, k)[j].count = 1 /\ Hit(b, k)[j].resetAt = now + WindowMs
<1>1. CASE k \in Live(b)
  <2>1. k \in DOMAIN b /\ Hit(b, k) = Counts(b, k)
    BY <1>1 DEF Hit, Live
  <2> QED
    BY <1>1, <2>1, CountsMap
<1>2. CASE k \notin Live(b)
  <2> DEFINE r == MakesRoom(b)
  <2>1. Hit(b, k) = IF IsFull(r) THEN r ELSE Opened(r, k)
    BY <1>2 DEF Hit, Opens
  <2>2. /\ IsMap(r) /\ DOMAIN r \subseteq DOMAIN b
        /\ \A i \in DOMAIN r : r[i] = b[i]
    BY MakesRoomKeeps
  <2> HIDE DEF r
  <2>3. CASE IsFull(r)
    <3>1. j \in DOMAIN b /\ Hit(b, k)[j] = b[j]
      BY <2>1, <2>2, <2>3
    <3>2. b[j].resetAt \in Nat
      BY <3>1 DEF IsMap, IsWindow
    <3> QED
      BY <1>2, <3>1, <3>2 DEF Live
  <2>4. CASE ~IsFull(r)
    <3>1. Hit(b, k) = Opened(r, k)
      BY <2>1, <2>4
    <3>2. DOMAIN Opened(r, k) = DOMAIN r \cup {k}
      BY DEF Opened
    <3>3. CASE j = k
      <4>1. Opened(r, k)[k] =
              [count |-> 1, resetAt |-> now + WindowMs, limit |-> Limit(k),
               place |-> IF k \in DOMAIN r THEN r[k].place ELSE NextPlace(r)]
        BY DEF Opened
      <4> QED
        BY <3>1, <3>3, <4>1
    <3>4. CASE j # k
      BY <2>2, <2>4, <3>1, <3>2, <3>4, OpenedMap
    <3> QED
      BY <3>3, <3>4
  <2> QED
    BY <2>3, <2>4
<1> QED
  BY <1>1, <1>2

\* A hit that is heard leaves every count earned, if each was before.
LEMMA HitEarns ==
  ASSUME now \in Nat, NEW b, IsMap(b), NEW k \in Keys,
         NEW H, \A i \in Keys : IsHistory(H[i]),
         \A i \in DOMAIN b : Earned(b[i], H[i]),
         NEW h, h = [at |-> now, no |-> Cardinality({g \in H[k] : g.at = now})],
         NEW j \in DOMAIN Hit(b, k)
  PROVE  Earned(Hit(b, k)[j], IF j = k THEN H[k] \cup {h} ELSE H[j])
<1>0. DOMAIN b \subseteq Keys /\ \A i \in DOMAIN b : b[i].count \in Nat /\ b[i].resetAt \in Nat
  BY DEF IsMap, IsWindow
<1>1. \A until \in Nat : until <= now + WindowMs =>
        Cardinality(Since(H[k] \cup {h}, until)) = Cardinality(Since(H[k], until)) + 1
  BY OneMoreHit
<1>2. IsFiniteSet(H[k])
  BY DEF IsHistory
<1>3. CASE j \in DOMAIN b /\ Hit(b, k)[j] = b[j] /\ (j # k \/ b[j].resetAt <= now)
  <2>1. CASE j # k
    BY <1>3, <2>1
  <2>2. CASE b[j].resetAt <= now
    BY <1>0, <1>3, <2>2 DEF Earned
  <2> QED
    BY <1>3, <2>1, <2>2
<1>4. CASE /\ j = k /\ k \in Live(b)
           /\ Hit(b, k)[j].count = b[k].count + 1 /\ Hit(b, k)[j].resetAt = b[k].resetAt
  <2>1. k \in DOMAIN b /\ b[k].resetAt > now
    BY <1>4 DEF Live
  <2>2. b[k].resetAt <= now + WindowMs /\ b[k].count <= Cardinality(Since(H[k], b[k].resetAt))
    BY <2>1 DEF Earned
  <2>3. Cardinality(Since(H[k] \cup {h}, b[k].resetAt)) = Cardinality(Since(H[k], b[k].resetAt)) + 1
    BY <1>0, <1>1, <2>1, <2>2
  <2>4. Cardinality(Since(H[k], b[k].resetAt)) \in Nat
    BY <1>2, SinceCounts
  <2> QED
    BY <1>0, <1>4, <2>1, <2>2, <2>3, <2>4 DEF Earned
<1>5. CASE j = k /\ Hit(b, k)[j].count = 1 /\ Hit(b, k)[j].resetAt = now + WindowMs
  <2>1. now + WindowMs \in Nat
    BY LimitAssumption
  <2>2. /\ Cardinality(Since(H[k], now + WindowMs)) \in Nat
        /\ Cardinality(Since(H[k] \cup {h}, now + WindowMs))
             = Cardinality(Since(H[k], now + WindowMs)) + 1
    BY <1>1, <1>2, <2>1, SinceCounts
  <2> QED
    BY <1>5, <2>1, <2>2 DEF Earned
<1> QED
  BY <1>3, <1>4, <1>5, HitFinds

LEMMA LoginEarns ==
  ASSUME LimiterInv, HistoryInv, NEW i \in Addresses, NEW e \in Accounts, Login(i, e)
  PROVE  HistoryInv'
<1> DEFINE ip == IpKey(i)
           email == EmailKey(e)
           one == Hit(buckets, ip)
           two == Hit(one, email)
           half == [k \in Keys |-> IF k = ip THEN heard[k] \cup {NextHit(k)} ELSE heard[k]]
<1>1. now' = now /\ buckets' = two
  BY DEF Login
<1>2. heard' = [k \in Keys |-> IF k \in {ip, email} THEN heard[k] \cup {NextHit(k)} ELSE heard[k]]
  BY DEF Login
<1>3. ip \in Keys /\ email \in Keys /\ ip # email
  BY DEF Keys, IpKey, EmailKey
<1>4. now \in Nat /\ IsMap(buckets)
  BY DEF LimiterInv
<1>5. IsMap(one) /\ IsMap(two)
  BY <1>3, <1>4, HitKeeps
<1>6. \A k \in Keys : NextHit(k) = [at |-> now, no |-> Cardinality({g \in heard[k] : g.at = now})]
  BY DEF NextHit, HeardAt
<1>7. \A k \in Keys : IsHistory(heard[k]) /\ IsHistory(heard[k] \cup {NextHit(k)})
  BY <1>4, <1>6, OneMoreHit DEF HistoryInv
<1>8. half[email] = heard[email] /\ \A k \in Keys : IsHistory(half[k])
  BY <1>3, <1>7
<1>9. ASSUME NEW j \in DOMAIN one PROVE Earned(one[j], half[j])
  <2>1. j \in Keys
    BY <1>5 DEF IsMap
  <2>2. Earned(one[j], IF j = ip THEN heard[ip] \cup {NextHit(ip)} ELSE heard[j])
    BY <1>3, <1>4, <1>6, HitEarns DEF HistoryInv
  <2> QED
    BY <2>1, <2>2
<1> HIDE DEF one, half
<1>10. ASSUME NEW j \in DOMAIN two PROVE Earned(two[j], heard'[j])
  <2>1. j \in Keys
    BY <1>5 DEF IsMap
  <2>2. NextHit(email) = [at |-> now, no |-> Cardinality({g \in half[email] : g.at = now})]
    BY <1>3, <1>6, <1>8
  <2>3. Earned(two[j], IF j = email THEN half[email] \cup {NextHit(email)} ELSE half[j])
    BY <1>3, <1>4, <1>5, <1>8, <1>9, <2>2, HitEarns
  <2>4. heard'[j] = IF j = email THEN half[email] \cup {NextHit(email)} ELSE half[j]
    BY <1>2, <1>8, <2>1 DEF half
  <2> QED
    BY <2>3, <2>4
<1> HIDE DEF two, ip, email
<1>11. \A k \in Keys : IsHistory(heard'[k])
  BY <1>2, <1>7
<1> QED
  BY <1>1, <1>10, <1>11 DEF HistoryInv, IsHistory, Earned

LEMMA NextHistoryInv == LimiterInv /\ HistoryInv /\ [Next]_vars => HistoryInv'
<1> SUFFICES ASSUME LimiterInv, HistoryInv, [Next]_vars PROVE HistoryInv'
  OBVIOUS
<1>1. ASSUME NEW i \in Addresses, NEW e \in Accounts, Login(i, e) PROVE HistoryInv'
  BY <1>1, LoginEarns
\* A bucket that is forgotten owes nothing, and the others stay.
<1>2. ASSUME NEW e \in Accounts, RightPassword(e) PROVE HistoryInv'
  <2>1. now' = now /\ heard' = heard
    BY <1>2 DEF RightPassword
  <2>2. DOMAIN buckets' \subseteq DOMAIN buckets /\ \A k \in DOMAIN buckets' : buckets'[k] = buckets[k]
    BY <1>2 DEF RightPassword, Forget, Tracks
  <2> QED
    BY <2>1, <2>2 DEF HistoryInv, IsHistory, Earned
<1>3. ASSUME NEW e \in Accounts, WrongPassword(e) PROVE HistoryInv'
  BY <1>3 DEF WrongPassword, HistoryInv, IsHistory, Earned
\* What is dropped from the history lies before every window still open.
<1>4. CASE Tick
  <2>1. /\ now \in Nat /\ now' = now + 1 /\ buckets' = buckets
        /\ heard' = [k \in Keys |-> {h \in heard[k] : h.at + WindowMs > now'}]
    BY <1>4 DEF Tick, LimiterInv
  <2>2. ASSUME NEW k \in Keys PROVE IsHistory(heard[k])'
    <3>1. heard'[k] \subseteq heard[k]
      BY <2>1
    <3>2. IsFiniteSet(heard'[k])
      BY <3>1, FS_Subset DEF HistoryInv, IsHistory
    <3>3. \A h \in heard'[k] : h \in [at : Nat, no : Nat] /\ h.at <= now' /\ h.at # now'
      BY <2>1, <3>1 DEF HistoryInv, IsHistory
    <3> QED
      BY <3>2, <3>3 DEF IsHistory
  <2>3. ASSUME NEW k \in DOMAIN buckets PROVE Earned(buckets[k], heard[k])'
    <3>1. k \in Keys /\ buckets[k].resetAt \in Nat
      BY DEF LimiterInv, IsMap, IsWindow
    <3> SUFFICES ASSUME buckets[k].resetAt > now'
                 PROVE  /\ buckets[k].resetAt <= now' + WindowMs
                        /\ buckets[k].count <= Cardinality(Since(heard'[k], buckets[k].resetAt))
      BY <2>1 DEF Earned
    <3>2. /\ buckets[k].resetAt <= now + WindowMs
          /\ buckets[k].count <= Cardinality(Since(heard[k], buckets[k].resetAt))
      BY <2>1, <3>1 DEF HistoryInv, Earned
    <3>3. Since(heard'[k], buckets[k].resetAt) = Since(heard[k], buckets[k].resetAt)
      BY <2>1, <3>1, LimitAssumption DEF Since, HistoryInv, IsHistory
    <3> QED
      BY <2>1, <3>1, <3>2, <3>3, LimitAssumption
  <2> QED
    BY <2>1, <2>2, <2>3 DEF HistoryInv
<1>5. CASE UNCHANGED vars
  BY <1>5 DEF vars, HistoryInv, IsHistory, Earned
<1> QED
  BY <1>1, <1>2, <1>3, <1>4, <1>5 DEF Next

\* Nobody is refused for what others did, or for what they did a window ago: the
\* count that refuses a key was heard, hit by hit, since its window opened.
THEOREM NobodyPaysForOthers == Spec => []RefusedForTheirOwn
<1>1. Init => HistoryInv
  <2>1. IsFiniteSet({})
    BY FS_EmptySet
  <2> QED
    BY <2>1 DEF Init, HistoryInv, IsHistory
<1>2. LimiterInv /\ HistoryInv => RefusedForTheirOwn
  <2> SUFFICES ASSUME LimiterInv, HistoryInv, NEW k \in Keys, Refused(buckets, k)
               PROVE  Cardinality(heard[k]) >= Limit(k)
    BY DEF RefusedForTheirOwn
  <2>1. /\ k \in DOMAIN buckets /\ buckets[k].resetAt > now
        /\ buckets[k].count \in Nat /\ buckets[k].count + 1 > Limit(k)
    BY DEF Refused, Live, LimiterInv, IsMap, IsWindow
  <2>2. buckets[k].count <= Cardinality(Since(heard[k], buckets[k].resetAt))
    BY <2>1 DEF HistoryInv, Earned
  <2>3. IsFiniteSet(heard[k])
    BY DEF HistoryInv, IsHistory
  <2>4. /\ Cardinality(Since(heard[k], buckets[k].resetAt)) \in Nat
        /\ Cardinality(Since(heard[k], buckets[k].resetAt)) <= Cardinality(heard[k])
    BY <2>3, SinceCounts
  <2>5. Cardinality(heard[k]) \in Nat
    BY <2>3, FS_CardinalityType
  <2> QED
    BY <2>1, <2>2, <2>4, <2>5, LimitIsNat
<1> QED
  BY <1>1, <1>2, LimiterInvariant, NextHistoryInv, PTL DEF Spec
=============================================================================
