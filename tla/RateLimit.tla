----------------------------- MODULE RateLimit -----------------------------
(***************************************************************************)
(* The login limiter: hit and forget of server/http/rate-limit.ts as the   *)
(* login route calls them.  A login is two steps, because the route waits  *)
(* for the password check after it has asked the limiter and clears the    *)
(* account's bucket only when the password was right; other logins arrive  *)
(* in between.  hit itself never waits, so the two calls are one step.     *)
(*                                                                         *)
(* The map keeps insertion order, and a bucket written again keeps its     *)
(* place: place is a bucket's position in that order.  remaining and       *)
(* Retry-After are answers nobody reads back and are left out.             *)
(***************************************************************************)
EXTENDS Integers, FiniteSets, FiniteSetsExt

CONSTANTS
  Addresses,         \* client addresses
  Accounts,          \* submitted e-mail addresses, known or not
  PerIp,             \* AUTH_LIMITS.perIp.limit
  PerEmail,          \* AUTH_LIMITS.perEmail.limit
  WindowMs,          \* the length of a window, the same for both
  MAX_TRACKED_KEYS,  \* the map's bound
  MaxTime,           \* bound: the clock stops here
  MaxLogins          \* bound: logins that arrive

ASSUME LimitAssumption ==
  /\ PerIp \in Nat \ {0} /\ PerEmail \in Nat \ {0}
  /\ WindowMs \in Nat \ {0}
  /\ MAX_TRACKED_KEYS \in Nat \ {0}
  /\ MaxTime \in Nat /\ MaxLogins \in Nat

IpKey(i) == [by |-> "ip", of |-> i]
EmailKey(e) == [by |-> "email", of |-> e]
Keys == {IpKey(i) : i \in Addresses} \cup {EmailKey(e) : e \in Accounts}

Limit(k) == IF k.by = "ip" THEN PerIp ELSE PerEmail

VARIABLES
  now,           \* Date.now()
  buckets,       \* the map: a function on the keys it tracks
  verifying,     \* logins past the limiter whose password is being checked
  logins,        \* logins that have arrived
  heard,         \* history: the hits on each key within the last window
  refusedUntil   \* history: until when a key that was refused is refused

vars == <<now, buckets, verifying, logins, heard, refusedUntil>>

Window == [count : Nat, resetAt : Nat, limit : Nat, place : Nat]

Init ==
  /\ now = 0
  /\ buckets = [k \in {} |-> 0]
  /\ verifying = [e \in Accounts |-> 0]
  /\ logins = 0
  /\ heard = [k \in Keys |-> {}]
  /\ refusedUntil = [k \in Keys |-> 0]

-----------------------------------------------------------------------------
(***************************************************************************)
(* The map, as hit changes it.                                             *)
(***************************************************************************)
Tracks(b, S) == [k \in S |-> b[k]]

\* Slip: a window that ends now still counts.
LiveToTheEnd(b) == {k \in DOMAIN b : b[k].resetAt >= now}

Live(b) == {k \in DOMAIN b : b[k].resetAt > now}
Spent(b, k) == b[k].count >= b[k].limit
IsFull(b) == Cardinality(DOMAIN b) >= MAX_TRACKED_KEYS

\* A full map drops what has expired.
Swept(b) == IF IsFull(b) THEN Tracks(b, Live(b)) ELSE b

\* Slip: the bucket of a key that is being refused may be dropped too.
MayBeDroppedAny(b) == DOMAIN b

MayBeDropped(b) == {k \in DOMAIN b : ~Spent(b, k)}

\* ... and if that frees nothing, its oldest buckets that refuse nobody.
Evicted(b) ==
  LET toDrop == Cardinality(DOMAIN b) - MAX_TRACKED_KEYS + 1
      Older(k) == {j \in MayBeDropped(b) : b[j].place < b[k].place}
      Dropped == {k \in MayBeDropped(b) : Cardinality(Older(k)) < toDrop}
  IN  Tracks(b, DOMAIN b \ Dropped)

MakesRoom(b) == Evicted(Swept(b))

NextPlace(b) == 1 + Max({0} \cup {b[k].place : k \in DOMAIN b})

Opened(b, k) ==
  [j \in DOMAIN b \cup {k} |->
     IF j = k
     THEN [count |-> 1, resetAt |-> now + WindowMs, limit |-> Limit(k),
           place |-> IF k \in DOMAIN b THEN b[k].place ELSE NextPlace(b)]
     ELSE b[j]]

\* Slip: the new key is always tracked.
OpensAlways(b, k) == Opened(MakesRoom(b), k)

\* A key with no window opens one, if the map has room for it.
Opens(b, k) == IF IsFull(MakesRoom(b)) THEN MakesRoom(b) ELSE Opened(MakesRoom(b), k)

Counts(b, k) ==
  [b EXCEPT ![k] = [count |-> b[k].count + 1, resetAt |-> b[k].resetAt,
                    limit |-> Limit(k), place |-> b[k].place]]

Hit(b, k) == IF k \in Live(b) THEN Counts(b, k) ELSE Opens(b, k)

\* Whether hit answers that k is not allowed.
Refused(b, k) == k \in Live(b) /\ b[k].count + 1 > Limit(k)

\* The hits on k at one time are told apart by their number.
HeardAt(k, t) == {h \in heard[k] : h.at = t}
NextHit(k) == [at |-> now, no |-> Cardinality(HeardAt(k, now))]

-----------------------------------------------------------------------------
(***************************************************************************)
(* The login route.                                                        *)
(***************************************************************************)
\* POST /api/auth/login up to its first await: the address is counted, then the
\* account, whatever the first answer was.
Login(i, e) ==
  LET afterIp == Hit(buckets, IpKey(i))
      refuses == {k \in {IpKey(i)} : Refused(buckets, k)}
                   \cup {k \in {EmailKey(e)} : Refused(afterIp, k)}
  IN  /\ logins < MaxLogins
      /\ logins' = logins + 1
      /\ buckets' = Hit(afterIp, EmailKey(e))
      /\ verifying' = IF refuses = {} THEN [verifying EXCEPT ![e] = @ + 1] ELSE verifying
      /\ heard' = [k \in Keys |->
                     IF k \in {IpKey(i), EmailKey(e)}
                     THEN heard[k] \cup {NextHit(k)}
                     ELSE heard[k]]
      /\ refusedUntil' = [k \in Keys |->
                            IF k \in refuses THEN afterIp[k].resetAt ELSE refusedUntil[k]]
      /\ UNCHANGED now

Forget(k) == Tracks(buckets, DOMAIN buckets \ {k})

\* The password was right: the account's bucket is forgotten, never the address's.
RightPassword(e) ==
  /\ verifying[e] > 0
  /\ verifying' = [verifying EXCEPT ![e] = @ - 1]
  /\ buckets' = Forget(EmailKey(e))
  /\ refusedUntil' = [refusedUntil EXCEPT ![EmailKey(e)] = 0]
  /\ UNCHANGED <<now, logins, heard>>

\* Unknown, inactive or wrong: 401.
WrongPassword(e) ==
  /\ verifying[e] > 0
  /\ verifying' = [verifying EXCEPT ![e] = @ - 1]
  /\ UNCHANGED <<now, buckets, logins, heard, refusedUntil>>

Tick ==
  /\ now < MaxTime
  /\ now' = now + 1
  /\ heard' = [k \in Keys |-> {h \in heard[k] : h.at + WindowMs > now'}]
  /\ UNCHANGED <<buckets, verifying, logins, refusedUntil>>

Next ==
  \/ \E i \in Addresses, e \in Accounts : Login(i, e)
  \/ \E e \in Accounts : RightPassword(e) \/ WrongPassword(e)
  \/ Tick

Spec == Init /\ [][Next]_vars

-----------------------------------------------------------------------------
(***************************************************************************)
(* Properties.                                                             *)
(***************************************************************************)
\* Whatever arrives, the map holds no more than MAX_TRACKED_KEYS buckets: the
\* bound of hit's eviction, with the new key left untracked when every bucket is
\* refusing somebody.
MapIsBounded == Cardinality(DOMAIN buckets) <= MAX_TRACKED_KEYS

\* Whoever was refused is refused again until their window ends or, for an
\* account, until its password was right: no flood of other keys, and nobody
\* else's success, opens a new allowance (hit's eviction and forget).
RefusedStaysRefused ==
  \A k \in Keys : refusedUntil[k] > now => Refused(buckets, k)

\* Nobody is refused for what others did, or for what they did a window ago: a
\* key whose next hit is refused was itself heard as often as its limit allows
\* within the last window (hit's expiry and its count).
RefusedForTheirOwn ==
  \A k \in Keys : Refused(buckets, k) => Cardinality(heard[k]) >= Limit(k)
=============================================================================
