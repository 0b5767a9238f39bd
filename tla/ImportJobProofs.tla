-------------------------- MODULE ImportJobProofs --------------------------
(***************************************************************************)
(* Proofs about one bulk import, for any number of administrators, runs    *)
(* and crashes, whatever is asked for and however requests overlap.        *)
(* ClaimInv holds always; Order until a request writes on what it had not  *)
(* read.                                                                   *)
(***************************************************************************)
EXTENDS ImportJob, TLAPS

\* A run that some confirmation has started, or none yet.
Known(s) == s = None \/ run[s] # "unused"

\* A request being served read the row and is one of those that go on.
RequestsAreSighted ==
  \A q \in Requests : pc[q] # "idle" =>
    seen[q] \in Job

\* Every startedAt in the row, in a reading or in a claim is of a run begun.
StartsAreKnown ==
  /\ Known(job.startedAt)
  /\ \A q \in Requests : pc[q] # "idle" => Known(seen[q].startedAt)
  /\ \A k \in Runs : Known(from[k])

\* The startedAt a claim was conditioned on is gone for good.
ClaimsAreSpent ==
  \A k \in Runs : run[k] # "unused" => from[k] # job.startedAt

ClaimInv ==
  /\ TypeOK
  /\ RequestsAreSighted
  /\ StartsAreKnown
  /\ ClaimsAreSpent
  /\ ClaimIsExclusive

\* A live run is the one the row names, and the row is not stale.
LiveIsNamed ==
  \A k \in Runs : run[k] = "live" =>
    job.status = "PROCESSING" /\ job.startedAt = k /\ job.quiet < Stale

\* What is validated or running was previewed from the rows it has.
PreviewIsOfTheRows ==
  job.status \in {"VALIDATED", "PROCESSING"} => job.preview = job.rows

\* A confirmation read what may be confirmed: rows with a preview of them and
\* without errors.  When its claim will match, nothing runs.
ReadingsHold ==
  \A q \in Requests : pc[q] = "confirm" =>
    /\ seen[q].status \in {"VALIDATED", "PROCESSING"}
    /\ seen[q].preview = seen[q].rows /\ seen[q].preview \notin Blocked
    /\ ClaimMatches(job, seen[q]) => Live = {}

Order == LiveIsNamed /\ PreviewIsOfTheRows /\ ReadingsHold

OrderOrCrossed == ~crossed => Order

-----------------------------------------------------------------------------
(* Claims, whatever overlaps.                                              *)

LEMMA InitClaimInv == Init => ClaimInv
<1> SUFFICES ASSUME Init PROVE ClaimInv
  OBVIOUS
<1>1. job \in Job /\ job.startedAt = None
  <2>1. PICK m \in Mappings, s \in {"CSV", "PDF"} :
          job \in {Created(s, m), [Created(s, m) EXCEPT !.status = "VALIDATED", !.preview = m]}
    BY DEF Init
  <2>2. Created(s, m) \in Job /\ Created(s, m).startedAt = None
    BY ImportAssumption DEF Created, Job, Editable
  <2> QED
    BY <2>1, <2>2 DEF Job, Editable
<1>2. TypeOK
  BY <1>1, ImportAssumption DEF Init, TypeOK
<1> QED
  BY <1>1, <1>2 DEF Init, ClaimInv, RequestsAreSighted, StartsAreKnown, Known,
                    ClaimsAreSpent, ClaimIsExclusive

\* A row as its writers leave it is a row.
LEMMA RowsAreWritten ==
  ASSUME NEW j \in Job
  PROVE  /\ Written(j) \in Job
         /\ \A m \in Mappings, v \in Mappings \cup {None} :
              Written([j EXCEPT !.rows = m, !.status = "MAPPED", !.preview = v]) \in Job
         /\ \A m \in Mappings :
              Written([j EXCEPT !.status = "VALIDATED", !.preview = m]) \in Job
         /\ \A k \in Runs :
              Written([j EXCEPT !.status = "PROCESSING", !.startedAt = k]) \in Job
         /\ \A s \in Terminal : Written([j EXCEPT !.status = s]) \in Job
         /\ j.quiet < Stale => [j EXCEPT !.quiet = @ + 1] \in Job
<1>1. 0 \in 0..Stale /\ \A n \in 0..Stale : n < Stale => n + 1 \in 0..Stale
  BY ImportAssumption
<1>2. \A i \in Job : Written(i) \in Job
  BY <1>1 DEF Job, Written
<1>3. ASSUME NEW m \in Mappings, NEW v \in Mappings \cup {None}
      PROVE  [j EXCEPT !.rows = m, !.status = "MAPPED", !.preview = v] \in Job
  BY DEF Job, Editable
<1>4. ASSUME NEW m \in Mappings
      PROVE  [j EXCEPT !.status = "VALIDATED", !.preview = m] \in Job
  BY DEF Job, Editable
<1>5. ASSUME NEW k \in Runs
      PROVE  [j EXCEPT !.status = "PROCESSING", !.startedAt = k] \in Job
  BY DEF Job
<1>6. ASSUME NEW s \in Terminal PROVE [j EXCEPT !.status = s] \in Job
  BY DEF Job
<1>7. j.quiet < Stale => [j EXCEPT !.quiet = @ + 1] \in Job
  BY <1>1 DEF Job
<1> QED
  BY <1>2, <1>3, <1>4, <1>5, <1>6, <1>7

LEMMA BeginKeepsClaims ==
  ASSUME ClaimInv, NEW q \in Requests, NEW kind \in Kinds,
         Begin(q, kind)
  PROVE  ClaimInv'
<1> USE DEF ClaimInv, Begin
<1> DEFINE sight == [job EXCEPT !.quiet = 0]
<1>0. sight \in Job /\ sight.startedAt = job.startedAt
  BY ImportAssumption DEF TypeOK, Job
<1>a. /\ seen' = [seen EXCEPT ![q] = sight] /\ pc' = [pc EXCEPT ![q] = kind]
      /\ UNCHANGED <<cast, job, run, rows, from, crossed>>
  OBVIOUS
<1> HIDE DEF sight, Begin
<1>1. TypeOK'
  BY <1>0, <1>a DEF TypeOK
<1>2. RequestsAreSighted'
  BY <1>0, <1>a DEF TypeOK, RequestsAreSighted
<1>3. StartsAreKnown'
  BY <1>0, <1>a DEF TypeOK, StartsAreKnown, Known
<1>4. ClaimsAreSpent' /\ ClaimIsExclusive'
  BY <1>a DEF ClaimsAreSpent, ClaimIsExclusive
<1> QED
  BY <1>1, <1>2, <1>3, <1>4

\* Ending a request leaves the readings of the others.
LEMMA EndKeepsReadings ==
  ASSUME TypeOK, RequestsAreSighted, NEW q \in Requests, End(q)
  PROVE  /\ pc' \in [Requests -> Kinds \cup {"idle"}]
         /\ seen' \in [Requests -> Job \cup {None}]
         /\ RequestsAreSighted'
         /\ \A p \in Requests : pc'[p] # "idle" =>
              p # q /\ pc'[p] = pc[p] /\ seen'[p] = seen[p]
  BY DEF End, TypeOK, RequestsAreSighted

\* A write of the row that leaves startedAt alone, and starts nothing.
LEMMA WriteKeepsClaims ==
  ASSUME ClaimInv, job' \in Job, job'.startedAt = job.startedAt,
         run' \in [Runs -> {"unused", "live", "ended", "dead"}],
         \A k \in Runs : run[k] = "unused" <=> run'[k] = "unused",
         crossed' \in BOOLEAN,
         UNCHANGED <<cast, rows, from>>,
         UNCHANGED <<pc, seen>> \/ \E q \in Requests : End(q)
  PROVE  ClaimInv'
<1>1. TypeOK' /\ RequestsAreSighted'
  <2>1. CASE UNCHANGED <<pc, seen>>
    BY <2>1 DEF ClaimInv, TypeOK, RequestsAreSighted
  <2>2. CASE \E q \in Requests : End(q)
    BY <2>2, EndKeepsReadings DEF ClaimInv, TypeOK
  <2> QED
    BY <2>1, <2>2
<1>2. \A p \in Requests : pc'[p] # "idle" => pc[p] # "idle" /\ seen'[p] = seen[p]
  BY EndKeepsReadings DEF ClaimInv
<1>3. job.startedAt \in Runs \cup {None} /\ from \in [Runs -> Runs \cup {None}]
      /\ \A p \in Requests : pc[p] # "idle" => seen[p].startedAt \in Runs \cup {None}
  BY DEF ClaimInv, TypeOK, RequestsAreSighted, Job
<1>4. StartsAreKnown'
  BY <1>2, <1>3 DEF ClaimInv, StartsAreKnown, Known
<1>5. ClaimsAreSpent' /\ ClaimIsExclusive'
  BY DEF ClaimInv, ClaimsAreSpent, ClaimIsExclusive
<1> QED
  BY <1>1, <1>4, <1>5 DEF ClaimInv

LEMMA ConfirmKeepsClaims ==
  ASSUME ClaimInv, NEW q \in Requests, NEW k \in Runs, Confirm(q, k)
  PROVE  ClaimInv'
<1>1. /\ pc[q] = "confirm" /\ run[k] = "unused"
      /\ job.startedAt = seen[q].startedAt
      /\ run' = [run EXCEPT ![k] = "live"]
      /\ rows' = [rows EXCEPT ![k] = seen[q].rows]
      /\ from' = [from EXCEPT ![k] = job.startedAt]
      /\ UNCHANGED cast /\ crossed' \in BOOLEAN
      /\ End(q)
  BY DEF Confirm, ClaimMatches, Crosses, ClaimInv, TypeOK
<1>2. seen[q] \in Job /\ job \in Job
  BY <1>1 DEF ClaimInv, TypeOK, RequestsAreSighted
<1>3. job' = Written([job EXCEPT !.status = "PROCESSING", !.startedAt = k])
  BY DEF Confirm
<1>4. job' \in Job
  BY <1>2, <1>3, RowsAreWritten
<1>5. job'.startedAt = k
  BY <1>2, <1>3 DEF Written, Job
<1>6. /\ pc' \in [Requests -> Kinds \cup {"idle"}]
      /\ seen' \in [Requests -> Job \cup {None}]
      /\ RequestsAreSighted'
      /\ \A p \in Requests : pc'[p] # "idle" =>
           p # q /\ pc'[p] = pc[p] /\ seen'[p] = seen[p]
  BY <1>1, EndKeepsReadings DEF ClaimInv
<1>7. TypeOK'
  BY <1>1, <1>2, <1>4, <1>6 DEF ClaimInv, TypeOK, Job
<1>8. /\ run \in [Runs -> {"unused", "live", "ended", "dead"}]
      /\ from \in [Runs -> Runs \cup {None}]
      /\ None \notin Runs
  BY ImportAssumption DEF ClaimInv, TypeOK
<1>9. StartsAreKnown'
  BY <1>1, <1>5, <1>6, <1>8 DEF ClaimInv, StartsAreKnown, Known
<1>10. ClaimsAreSpent'
  <2>1. job.startedAt # k
    BY <1>1, <1>8 DEF ClaimInv, StartsAreKnown, Known
  <2>2. \A l \in Runs : from[l] # k
    BY <1>1, <1>8 DEF ClaimInv, StartsAreKnown, Known
  <2> QED
    BY <1>1, <1>5, <1>8, <2>1, <2>2 DEF ClaimsAreSpent
<1>11. ClaimIsExclusive'
  BY <1>1, <1>8 DEF ClaimInv, ClaimsAreSpent, ClaimIsExclusive
<1> QED
  BY <1>6, <1>7, <1>9, <1>10, <1>11 DEF ClaimInv

LEMMA ClaimStep == ClaimInv /\ [Next]_vars => ClaimInv'
<1> SUFFICES ASSUME ClaimInv, [Next]_vars PROVE ClaimInv'
  OBVIOUS
<1>0. /\ job \in Job /\ pc \in [Requests -> Kinds \cup {"idle"}]
      /\ run \in [Runs -> {"unused", "live", "ended", "dead"}] /\ crossed \in BOOLEAN
  BY DEF ClaimInv, TypeOK
<1>1. ASSUME NEW q \in Requests, Request(q) PROVE ClaimInv'
  BY <1>1, BeginKeepsClaims DEF Request, BeginRemap, BeginValidate, BeginConfirm, Kinds
<1>2. ASSUME NEW q \in Requests, pc[q] # "idle" PROVE seen[q] \in Job
  BY <1>2 DEF ClaimInv, RequestsAreSighted
<1>3. ASSUME NEW q \in Requests, NEW m \in Mappings, Remap(q, m) PROVE ClaimInv'
  <2>1. seen[q].preview \in Mappings \cup {None}
    BY <1>2, <1>3 DEF Remap, Job
  <2>2. job' \in Job
    BY <1>0, <1>3, <2>1, RowsAreWritten DEF Remap
  <2>3. job'.startedAt = job.startedAt
    BY <1>0, <1>3 DEF Remap, Written, Job
  <2> QED
    BY <1>0, <1>3, <2>2, <2>3, WriteKeepsClaims DEF Remap, Crosses
<1>4. ASSUME NEW q \in Requests, Validate(q) PROVE ClaimInv'
  <2>1. seen[q].rows \in Mappings
    BY <1>2, <1>4 DEF Validate, Job
  <2>2. job' \in Job
    BY <1>0, <1>4, <2>1, RowsAreWritten DEF Validate
  <2>3. job'.startedAt = job.startedAt
    BY <1>0, <1>4 DEF Validate, Written, Job
  <2> QED
    BY <1>0, <1>4, <2>2, <2>3, WriteKeepsClaims DEF Validate, Crosses
<1>5. ASSUME NEW q \in Requests, NEW k \in Runs, Confirm(q, k) PROVE ClaimInv'
  BY <1>5, ConfirmKeepsClaims
<1>6. ASSUME NEW q \in Requests, ConfirmRefused(q) PROVE ClaimInv'
  BY <1>0, <1>6, WriteKeepsClaims DEF ConfirmRefused
<1>7. ASSUME NEW k \in Runs, Progress(k) PROVE ClaimInv'
  <2>1. job' \in Job
    BY <1>0, <1>7, RowsAreWritten DEF Progress
  <2>2. job'.startedAt = job.startedAt
    BY <1>0, <1>7 DEF Progress, Written, Job
  <2> QED
    BY <1>0, <1>7, <2>1, <2>2, WriteKeepsClaims DEF Progress
<1>8. ASSUME NEW k \in Runs, NEW outcome \in Terminal, Finish(k, outcome) PROVE ClaimInv'
  <2>1. job' \in Job
    BY <1>0, <1>8, RowsAreWritten DEF Finish
  <2>2. job'.startedAt = job.startedAt
    BY <1>0, <1>8 DEF Finish, Written, Job
  <2>3. run' \in [Runs -> {"unused", "live", "ended", "dead"}]
        /\ \A l \in Runs : run[l] = "unused" <=> run'[l] = "unused"
    BY <1>0, <1>8 DEF Finish
  <2> QED
    BY <1>0, <1>8, <2>1, <2>2, <2>3, WriteKeepsClaims DEF Finish
<1>9. CASE Crash
  <2>1. run' \in [Runs -> {"unused", "live", "ended", "dead"}]
        /\ \A l \in Runs : run[l] = "unused" <=> run'[l] = "unused"
    BY <1>0, <1>9 DEF Crash
  <2> QED
    BY <1>0, <1>9, <2>1, WriteKeepsClaims DEF Crash
<1>10. CASE Tick
  <2>1. job.quiet < Stale /\ job' = [job EXCEPT !.quiet = @ + 1]
    BY <1>0, <1>10, ImportAssumption DEF Tick, Job
  <2>2. job' \in Job
    BY <1>0, <2>1, RowsAreWritten
  <2>3. job'.startedAt = job.startedAt
    BY <1>0, <2>1 DEF Job
  <2> QED
    BY <1>0, <1>10, <2>2, <2>3, WriteKeepsClaims DEF Tick
<1>11. CASE UNCHANGED vars
  BY <1>0, <1>11, WriteKeepsClaims DEF vars
<1> QED
  BY <1>1, <1>3, <1>4, <1>5, <1>6, <1>7, <1>8, <1>9, <1>10, <1>11
     DEF Next, Serve, Execute

LEMMA ClaimInvariant == Spec => []ClaimInv
  BY InitClaimInv, ClaimStep, PTL DEF Spec

\* Rows, readings, runs and claims are what they should be, whatever an
\* administrator asks for.
THEOREM TypeCorrect == Spec => []TypeOK
  BY ClaimInvariant, PTL DEF ClaimInv

\* No two confirmations ever start a run from the same reading of the job,
\* however requests overlap and whatever they are: startedAt moves with every
\* claim to a run that has just begun, so no value of it is matched twice.
THEOREM ClaimsAreExclusive == Spec => []ClaimIsExclusive
  BY ClaimInvariant, PTL DEF ClaimInv

-----------------------------------------------------------------------------
(* One run at a time, of validated rows, until a request writes on what it *)
(* had not read.                                                           *)

LEMMA InitOrder == Init => OrderOrCrossed
<1> SUFFICES ASSUME Init PROVE Order
  BY DEF OrderOrCrossed
<1>1. PICK m \in Mappings, s \in {"CSV", "PDF"} :
        job \in {Created(s, m), [Created(s, m) EXCEPT !.status = "VALIDATED", !.preview = m]}
  BY DEF Init
<1>2. PreviewIsOfTheRows
  <2>1. CASE job = Created(s, m)
    BY <2>1 DEF Created, PreviewIsOfTheRows
  <2>2. CASE job = [Created(s, m) EXCEPT !.status = "VALIDATED", !.preview = m]
    BY <2>2 DEF Created, PreviewIsOfTheRows
  <2> QED
    BY <1>1, <2>1, <2>2
<1> QED
  BY <1>2 DEF Init, Order, LiveIsNamed, ReadingsHold

\* While the row may be edited or confirmed, nothing runs.
LEMMA NothingRuns ==
  ASSUME ClaimInv, Order, job.status \in Editable \/ MayConfirm(job)
  PROVE  Live = {}
<1>1. job.quiet \in 0..Stale /\ Stale \in Nat
  BY ImportAssumption DEF ClaimInv, TypeOK, Job
<1> QED
  BY <1>1 DEF Order, LiveIsNamed, MayConfirm, Editable, Live

LEMMA BeginKeepsOrder ==
  ASSUME ClaimInv, Order, NEW q \in Requests, Request(q)
  PROVE  Order'
<1>1. PICK kind \in Kinds : Begin(q, kind) /\ (kind = "confirm" => MayConfirm(job))
  BY DEF Request, BeginRemap, BeginValidate, BeginConfirm, Kinds
<1>2. /\ pc \in [Requests -> Kinds \cup {"idle"}]
      /\ seen \in [Requests -> Job \cup {None}]
      /\ job \in Job
  BY DEF ClaimInv, TypeOK
<1>3. ReadingsHold'
  <2> SUFFICES ASSUME NEW p \in Requests, pc'[p] = "confirm"
      PROVE  /\ seen'[p].status \in {"VALIDATED", "PROCESSING"}
             /\ seen'[p].preview = seen'[p].rows /\ seen'[p].preview \notin Blocked
             /\ ClaimMatches(job, seen'[p]) => Live = {}
    BY <1>1 DEF ReadingsHold, Begin, ClaimMatches, Live
  <2>1. CASE p = q
    <3>1. MayConfirm(job)
      BY <1>1, <1>2, <2>1 DEF Begin
    <3>2. seen'[p].status = job.status /\ seen'[p].rows = job.rows
          /\ seen'[p].preview = job.preview
      BY <1>1, <1>2, <2>1 DEF Begin, Job
    <3>3. Live = {}
      BY <3>1, NothingRuns
    <3> QED
      BY <3>1, <3>2, <3>3 DEF MayConfirm, Order, PreviewIsOfTheRows
  <2>2. CASE p # q
    BY <1>1, <1>2, <2>2 DEF Begin, Order, ReadingsHold
  <2> QED
    BY <2>1, <2>2
<1> QED
  BY <1>1, <1>3 DEF Order, Begin, LiveIsNamed, PreviewIsOfTheRows

\* An edit that does not cross another finds nothing running and the rows it read.
LEMMA EditKeepsOrder ==
  ASSUME ClaimInv, Order, NEW q \in Requests, End(q), UNCHANGED run,
         job.status \in Editable, job'.status \in {"MAPPED", "VALIDATED"},
         job'.startedAt = job.startedAt,
         job'.status = "VALIDATED" => job'.preview = job'.rows
  PROVE  Order'
<1>1. Live = {} /\ Live' = {}
  BY NothingRuns DEF Live
<1>2. \A p \in Requests : pc'[p] # "idle" => pc'[p] = pc[p] /\ seen'[p] = seen[p]
  BY EndKeepsReadings DEF ClaimInv
<1>3. ReadingsHold'
  BY <1>1, <1>2 DEF Order, ReadingsHold, ClaimMatches
<1> QED
  BY <1>1, <1>3 DEF Order, LiveIsNamed, PreviewIsOfTheRows, Live

\* A claim that matches finds nothing running, and takes the match from the others.
LEMMA ConfirmKeepsOrder ==
  ASSUME ClaimInv, Order, NEW q \in Requests, NEW k \in Runs, Confirm(q, k), ~crossed'
  PROVE  /\ Order'
         /\ job.status \in {"VALIDATED", "PROCESSING"}
         /\ rows'[k] = job.preview /\ rows'[k] \notin Blocked
         /\ run' = [run EXCEPT ![k] = "live"]
<1>1. /\ pc[q] = "confirm" /\ run[k] = "unused" /\ ClaimMatches(job, seen[q])
      /\ job' = Written([job EXCEPT !.status = "PROCESSING", !.startedAt = k])
      /\ run' = [run EXCEPT ![k] = "live"]
      /\ rows' = [rows EXCEPT ![k] = seen[q].rows]
      /\ End(q)
  BY DEF Confirm
<1>2. /\ job \in Job /\ seen[q] \in Job /\ Stale \in Nat /\ Stale > 1
      /\ run \in [Runs -> {"unused", "live", "ended", "dead"}]
      /\ rows \in [Runs -> Mappings \cup {None}]
  BY <1>1, ImportAssumption DEF ClaimInv, TypeOK, RequestsAreSighted
<1>3. /\ job'.status = "PROCESSING" /\ job'.startedAt = k /\ job'.quiet = 0
      /\ job'.rows = job.rows /\ job'.preview = job.preview
  BY <1>1, <1>2 DEF Written, Job
<1>4. /\ seen[q].preview = seen[q].rows /\ seen[q].preview \notin Blocked /\ Live = {}
      /\ seen[q].status \in {"VALIDATED", "PROCESSING"}
  BY <1>1 DEF Order, ReadingsHold
<1>5. job.rows = seen[q].rows
  BY <1>1 DEF Confirm, Crosses
<1>6. job.status \in {"VALIDATED", "PROCESSING"} /\ job.preview = job.rows
  BY <1>1, <1>4 DEF ClaimMatches, Order, PreviewIsOfTheRows
<1>7. LiveIsNamed'
  BY <1>1, <1>2, <1>3, <1>4 DEF LiveIsNamed, Live
<1>8. ReadingsHold'
  <2> SUFFICES ASSUME NEW p \in Requests, pc'[p] = "confirm"
      PROVE  /\ seen'[p].status \in {"VALIDATED", "PROCESSING"}
             /\ seen'[p].preview = seen'[p].rows /\ seen'[p].preview \notin Blocked
             /\ ~ClaimMatches(job', seen'[p])
    BY DEF ReadingsHold, ClaimMatches, Live
  <2>1. p # q /\ pc[p] = "confirm" /\ seen'[p] = seen[p]
    BY <1>1, EndKeepsReadings DEF ClaimInv
  <2>2. seen[p].startedAt # k
    BY <1>1, <2>1, ImportAssumption DEF ClaimInv, StartsAreKnown, Known
  <2> QED
    BY <1>3, <2>1, <2>2 DEF Order, ReadingsHold, ClaimMatches
<1> QED
  BY <1>1, <1>2, <1>3, <1>4, <1>5, <1>6, <1>7, <1>8 DEF Order, PreviewIsOfTheRows

\* A refusal, the runs and the clock: nothing new is live, and a request's reading
\* keeps matching or stops.
LEMMA OthersKeepOrder ==
  ASSUME ClaimInv, Order,
         job'.rows = job.rows, job'.preview = job.preview,
         job'.startedAt = job.startedAt,
         \A k \in Runs : run'[k] = "live" =>
           run[k] = "live" /\ job'.status = job.status /\ job'.quiet < Stale,
         job'.status # job.status => job'.status \in Terminal,
         \A p \in Requests : pc'[p] # "idle" => pc'[p] = pc[p] /\ seen'[p] = seen[p]
  PROVE  Order'
<1>1. PreviewIsOfTheRows'
  BY DEF Order, PreviewIsOfTheRows, Terminal
<1>2. LiveIsNamed'
  BY DEF Order, LiveIsNamed
<1>3. Live' \subseteq Live
  BY DEF Live
<1>4. ReadingsHold'
  <2> SUFFICES ASSUME NEW p \in Requests, pc'[p] = "confirm"
      PROVE  /\ seen'[p].status \in {"VALIDATED", "PROCESSING"}
             /\ seen'[p].preview = seen'[p].rows /\ seen'[p].preview \notin Blocked
             /\ ClaimMatches(job', seen'[p]) => Live' = {}
    BY DEF ReadingsHold, ClaimMatches
  <2>1. pc[p] = "confirm" /\ seen[p] = seen'[p]
    OBVIOUS
  <2>2. seen[p].status \notin Terminal
    BY <2>1 DEF Order, ReadingsHold, Terminal
  <2> QED
    BY <1>3, <2>1, <2>2 DEF Order, ReadingsHold, ClaimMatches
<1> QED
  BY <1>1, <1>2, <1>4 DEF Order

LEMMA OrderStep == ClaimInv /\ OrderOrCrossed /\ [Next]_vars => OrderOrCrossed'
<1> SUFFICES ASSUME ClaimInv, OrderOrCrossed, [Next]_vars, ~crossed' PROVE Order'
  BY DEF OrderOrCrossed
<1>0. /\ job \in Job /\ Stale \in Nat /\ Stale > 1
      /\ run \in [Runs -> {"unused", "live", "ended", "dead"}]
  BY ImportAssumption DEF ClaimInv, TypeOK
<1>a. Order
  <2>1. ~crossed
    BY DEF Next, Request, Serve, Execute, BeginRemap, BeginValidate, BeginConfirm, Begin,
       Remap, Validate, Confirm, ConfirmRefused, Progress, Finish, Crash, Tick, Crosses, vars
  <2> QED
    BY <2>1 DEF OrderOrCrossed
<1>1. ASSUME NEW q \in Requests, Request(q) PROVE Order'
  BY <1>a, <1>1, BeginKeepsOrder
<1>2. ASSUME NEW q \in Requests, NEW m \in Mappings, Remap(q, m) PROVE Order'
  <2>1. job'.status = "MAPPED" /\ job'.startedAt = job.startedAt
    BY <1>0, <1>2 DEF Remap, Written, Job
  <2>2. job.status \in Editable
    BY <1>2 DEF Remap, Crosses
  <2> QED
    BY <1>a, <1>2, <2>1, <2>2, EditKeepsOrder DEF Remap
<1>3. ASSUME NEW q \in Requests, Validate(q) PROVE Order'
  <2>1. job.status \in Editable /\ seen[q].rows = job.rows
    BY <1>3 DEF Validate, Crosses
  <2>2. /\ job'.status = "VALIDATED" /\ job'.preview = job'.rows
        /\ job'.startedAt = job.startedAt
    BY <1>0, <1>3, <2>1 DEF Validate, Written, Job
  <2> QED
    BY <1>a, <1>3, <2>1, <2>2, EditKeepsOrder DEF Validate
<1>4. ASSUME NEW q \in Requests, NEW k \in Runs, Confirm(q, k) PROVE Order'
  BY <1>a, <1>4, ConfirmKeepsOrder
<1>5. ASSUME NEW q \in Requests, ConfirmRefused(q) PROVE Order'
  <2>1. \A p \in Requests : pc'[p] # "idle" => pc'[p] = pc[p] /\ seen'[p] = seen[p]
    BY <1>5, EndKeepsReadings DEF ConfirmRefused, ClaimInv
  <2>2. UNCHANGED <<job, run>>
    BY <1>5 DEF ConfirmRefused
  <2>3. \A k \in Runs : run'[k] = "live" =>
          run[k] = "live" /\ job'.status = job.status /\ job'.quiet < Stale
    BY <1>a, <2>2 DEF Order, LiveIsNamed
  <2> QED
    BY <1>a, <2>1, <2>2, <2>3, OthersKeepOrder
<1>6. ASSUME NEW k \in Runs, Progress(k) PROVE Order'
  <2>1. /\ job'.rows = job.rows /\ job'.preview = job.preview
        /\ job'.startedAt = job.startedAt /\ job'.status = job.status /\ job'.quiet = 0
    BY <1>0, <1>6 DEF Progress, Written, Job
  <2> QED
    BY <1>a, <1>0, <1>6, <2>1, OthersKeepOrder DEF Progress
<1>7. ASSUME NEW k \in Runs, NEW outcome \in Terminal, Finish(k, outcome) PROVE Order'
  <2>1. /\ job'.rows = job.rows /\ job'.preview = job.preview
        /\ job'.startedAt = job.startedAt /\ job'.status \in Terminal
    BY <1>0, <1>7 DEF Finish, Written, Job
  <2>2. Live = {k}
    BY <1>a, <1>7 DEF Finish, Live, Order, LiveIsNamed
  <2>3. \A l \in Runs : run'[l] # "live"
    BY <1>0, <1>7, <2>2 DEF Finish, Live
  <2> QED
    BY <1>a, <1>7, <2>1, <2>3, OthersKeepOrder DEF Finish
<1>8. CASE Crash
  <2>1. \A l \in Runs : run'[l] # "live"
    BY <1>0, <1>8 DEF Crash
  <2> QED
    BY <1>a, <1>8, <2>1, OthersKeepOrder DEF Crash
<1>9. CASE Tick
  <2>1. /\ job'.rows = job.rows /\ job'.preview = job.preview
        /\ job'.startedAt = job.startedAt /\ job'.status = job.status
        /\ job'.quiet = job.quiet + 1 /\ job.quiet \in Nat
    BY <1>0, <1>9 DEF Tick, Job
  <2>2. ASSUME NEW k \in Runs, run[k] = "live" PROVE job'.quiet < Stale
    BY <1>0, <1>9, <2>1, <2>2 DEF Tick
  <2> QED
    BY <1>a, <1>9, <2>1, <2>2, OthersKeepOrder DEF Tick
<1>10. CASE UNCHANGED vars
  BY <1>a, <1>10, OthersKeepOrder DEF vars, Order, LiveIsNamed
<1> QED
  BY <1>1, <1>2, <1>3, <1>4, <1>5, <1>6, <1>7, <1>8, <1>9, <1>10 DEF Next, Serve, Execute

LEMMA OrderInvariant == Spec => [](ClaimInv /\ OrderOrCrossed)
  BY InitClaimInv, ClaimStep, InitOrder, OrderStep, PTL DEF Spec

\* "A job that is still moving must not be restarted underneath itself": however
\* requests overlap, wherever processes die and whoever resumes what they left, no
\* second run starts while one is live before a request has written on what it had
\* not read.
THEOREM RunsTakeTurns == Spec => []AtMostOneRun
<1>1. ClaimInv /\ OrderOrCrossed => AtMostOneRun
  BY DEF OrderOrCrossed, Order, LiveIsNamed, AtMostOneRun, Live
<1> QED
  BY <1>1, OrderInvariant, PTL

\* An import that ended stays as it ended: of those who read it earlier only an edit,
\* which asks nothing of the row it writes, gets through.
THEOREM EndedStaysEnded == Spec => TerminalIsFinal
<1>1. ClaimInv /\ OrderOrCrossed /\ [Next]_vars
        => [job.status \in Terminal /\ ~crossed' => job'.status = job.status]_vars
  <2> SUFFICES ASSUME ClaimInv, OrderOrCrossed, Next, job.status \in Terminal, ~crossed'
               PROVE  job'.status = job.status
    BY DEF vars
  <2>0. job \in Job /\ job.status \notin Editable /\ job.status \notin {"VALIDATED", "PROCESSING"}
    BY DEF ClaimInv, TypeOK, Terminal, Editable
  <2>1. \A q \in Requests : ~Validate(q) /\ \A m \in Mappings : ~Remap(q, m)
    BY <2>0 DEF Remap, Validate, Crosses
  <2>2. ~crossed
    BY DEF Next, Request, Serve, Execute, BeginRemap, BeginValidate, BeginConfirm, Begin,
       Remap, Validate, Confirm, ConfirmRefused, Progress, Finish, Crash, Tick, Crosses
  <2>3. Order
    BY <2>2 DEF OrderOrCrossed
  <2>4. \A q \in Requests, k \in Runs : ~Confirm(q, k)
    BY <2>0, <2>3, ConfirmKeepsOrder
  <2>5. \A k \in Runs : run[k] # "live"
    BY <2>0, <2>3 DEF Order, LiveIsNamed
  <2>6. UNCHANGED job \/ Tick
    BY <2>1, <2>4, <2>5 DEF Next, Request, Serve, Execute, BeginRemap, BeginValidate,
       BeginConfirm, Begin, ConfirmRefused, Progress, Finish, Crash
  <2> QED
    BY <2>0, <2>6 DEF Tick, Job
<1> QED
  BY <1>1, OrderInvariant, PTL DEF Spec, TerminalIsFinal

\* The rows handed to a run are those the preview was made from, and the preview
\* had no errors, until a request has written on what it had not read.
THEOREM OnlyValidatedRun == Spec => RunsOnlyValidatedRows
<1> DEFINE Starts == ~crossed' => \A k \in Runs : run[k] = "unused" /\ run'[k] = "live" =>
                       rows'[k] = job.preview /\ rows'[k] \notin Blocked
<1>1. ClaimInv /\ OrderOrCrossed /\ [Next]_vars => [Starts]_vars
  <2> SUFFICES ASSUME ClaimInv, OrderOrCrossed, Next, ~crossed',
                      NEW k \in Runs, run[k] = "unused", run'[k] = "live"
               PROVE  rows'[k] = job.preview /\ rows'[k] \notin Blocked
    BY DEF vars
  <2>1. run \in [Runs -> {"unused", "live", "ended", "dead"}]
    BY DEF ClaimInv, TypeOK
  <2>2. PICK q \in Requests, l \in Runs : Confirm(q, l)
    BY <2>1 DEF Next, Request, Serve, Execute, BeginRemap, BeginValidate, BeginConfirm, Begin,
       Remap, Validate, ConfirmRefused, Progress, Finish, Crash, Tick
  <2>3. Order
    BY <2>2 DEF Confirm, Crosses, OrderOrCrossed
  <2>4. l = k
    BY <2>1, <2>2, <2>3, ConfirmKeepsOrder
  <2> QED
    BY <2>2, <2>3, <2>4, ConfirmKeepsOrder
<1> QED
  BY <1>1, OrderInvariant, PTL DEF Spec, RunsOnlyValidatedRows
=============================================================================
